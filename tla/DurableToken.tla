----------------------------- MODULE DurableToken -----------------------------
(***************************************************************************)
(* What a node promises about the balances of a native token across        *)
(* shutdowns, crashes and restarts (spec.md 8).  While the node is up its  *)
(* token, if it has one, lives in memory and its calls change who holds    *)
(* what but never the total supply.  The DB keeps one saved image.  A      *)
(* clean shutdown makes the live token the saved image in one step; a      *)
(* crash loses the live token and leaves the saved image alone; a restart  *)
(* brings the saved image back as the live token.                          *)
(*                                                                         *)
(* A token is [balances, supply]; NONE is no token.                        *)
(***************************************************************************)
CONSTANT NONE

VARIABLES
  up,     \* the node runs
  live,   \* the token the running node holds, or NONE
  saved   \* the token the DB holds, or NONE

vars == <<up, live, saved>>

Init ==
  /\ up = TRUE
  /\ live = NONE
  /\ saved = NONE

(* The token is deployed. *)
Create ==
  /\ up /\ live = NONE /\ live' # NONE
  /\ UNCHANGED <<up, saved>>

(* A call moves balances; the supply stays. *)
Update ==
  /\ up /\ live # NONE /\ live' # NONE
  /\ live'.supply = live.supply
  /\ UNCHANGED <<up, saved>>

Shutdown ==
  /\ up /\ ~up'
  /\ saved' = live
  /\ live' = NONE

Crash ==
  /\ up /\ ~up'
  /\ live' = NONE
  /\ UNCHANGED saved

Restart ==
  /\ ~up /\ up'
  /\ live' = saved
  /\ UNCHANGED saved

Next == Create \/ Update \/ Shutdown \/ Crash \/ Restart

Spec == Init /\ [][Next]_vars
=============================================================================
