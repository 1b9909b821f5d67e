--------------------------- MODULE SafeVarContract ---------------------------
(***************************************************************************)
(* What a native contract's integer SafeVars promise (spec.md 4.3, 7).     *)
(* Every variable has a committed value.  A contract call works on a copy  *)
(* of the committed values; an arithmetic operation either succeeds with   *)
(* its exact result or throws and leaves the working value alone; a call   *)
(* that ends without an exception makes the working values committed, a   *)
(* call that threw leaves the committed values as they were.               *)
(*                                                                         *)
(* ZeroOperandThrows selects the failure rule.  FALSE is spec.md: an       *)
(* operation fails only when its exact result does not fit the width, or   *)
(* on division or modulo by zero.  TRUE adds the rule written in the doc   *)
(* comments of SafeUint224_t: multiplication, division and modulo throw    *)
(* std::domain_error when EITHER operand is zero.                          *)
(***************************************************************************)
EXTENDS Naturals, Bitwise

CONSTANTS
  Vars,               \* the contract's SafeUint224_t fields
  Width,              \* bit width standing for 224
  ZeroOperandThrows   \* failure rule, see above

ASSUME Width \in Nat \ {0}
ASSUME ZeroOperandThrows \in BOOLEAN

VARIABLES committed, working, callState

MaxUint == 2^Width - 1
Uint == 0..MaxUint

(* Operation kinds.  The arithmetic ones also exist as operators that     *)
(* compute a value without assigning it.                                  *)
Kinds == {"assign", "add", "sub", "mul", "div", "mod",
          "and", "or", "xor", "inc", "dec"}
ArithKinds == {"add", "sub", "mul", "div", "mod"}

Exact(k, a, o) ==
  CASE k = "assign" -> o
    [] k = "add" -> a + o
    [] k = "sub" -> a - o
    [] k = "mul" -> a * o
    [] k = "div" -> IF o = 0 THEN 0 ELSE a \div o
    [] k = "mod" -> IF o = 0 THEN 0 ELSE a % o
    [] k = "and" -> a & o
    [] k = "or"  -> a | o
    [] k = "xor" -> a ^^ o
    [] k = "inc" -> a + 1
    [] k = "dec" -> a - 1

ZeroOperand(k, a, o) ==
  \/ k \in {"div", "mod"} /\ o = 0
  \/ ZeroOperandThrows /\ k \in {"mul", "div", "mod"} /\ (a = 0 \/ o = 0)

Fails(k, a, o) == ZeroOperand(k, a, o) \/ Exact(k, a, o) \notin Uint

(* The exception a failing operation raises. *)
Error(k, a, o) ==
  CASE ZeroOperand(k, a, o) -> "domain_error"
    [] k \in {"sub", "dec"} -> "underflow_error"
    [] OTHER -> "overflow_error"

(* callState is "idle", "running", or the exception a call ended with:    *)
(* one of the typed errors above, or "exception" for any other one.       *)
Thrown == {"overflow_error", "underflow_error", "domain_error", "exception"}

vars == <<committed, working, callState>>

Init ==
  /\ committed \in [Vars -> Uint]
  /\ working = committed
  /\ callState = "idle"

BeginCall ==
  /\ callState = "idle"
  /\ callState' = "running"
  /\ UNCHANGED <<committed, working>>

Op(v, k, o) ==
  /\ callState = "running"
  /\ IF Fails(k, working[v], o)
       THEN callState' = Error(k, working[v], o) /\ UNCHANGED working
       ELSE /\ working' = [working EXCEPT ![v] = Exact(k, @, o)]
            /\ UNCHANGED callState
  /\ UNCHANGED committed

(* A value computed from a variable without assigning it: it may throw. *)
Compute(v, k, o) ==
  /\ callState = "running"
  /\ IF Fails(k, working[v], o)
       THEN callState' = Error(k, working[v], o)
       ELSE UNCHANGED callState
  /\ UNCHANGED <<committed, working>>

Throw ==
  /\ callState = "running"
  /\ callState' = "exception"
  /\ UNCHANGED <<committed, working>>

EndCall ==
  /\ callState # "idle"
  /\ committed' = IF callState = "running" THEN working ELSE committed
  /\ working' = committed'
  /\ callState' = "idle"

Next ==
  \/ BeginCall
  \/ \E v \in Vars, k \in Kinds, o \in Uint : Op(v, k, o)
  \/ \E v \in Vars, k \in ArithKinds, o \in Uint : Compute(v, k, o)
  \/ Throw
  \/ EndCall

Spec == Init /\ [][Next]_vars
=============================================================================
