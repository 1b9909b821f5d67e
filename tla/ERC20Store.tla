------------------------------ MODULE ERC20Store ------------------------------
(***************************************************************************)
(* One native ERC20 contract across the life of the node that hosts it:   *)
(* its calls (module ERC20), the writes that save it to the DB when the   *)
(* node shuts down, a crash that loses the process, and the restart that  *)
(* loads it back.                                                          *)
(*                                                                         *)
(* Nothing is written while the node runs.  ~ContractManager puts one     *)
(* registry entry per contract (prefix contractManager); then the map of  *)
(* contracts is destroyed and ~ERC20 puts _name, _symbol, _decimals and   *)
(* _totalSupply one by one, then a batch of balances and a batch of       *)
(* allowances.  On start ContractManager reads its registry and           *)
(* constructs every contract listed with the ERC20 loading constructor.   *)
(*                                                                         *)
(* The DB is a record with one field per key prefix the token uses; a     *)
(* key absent from the DB is NONE.  _name, _symbol and _decimals never    *)
(* change after construction and are left out.  A balance key never      *)
(* written reads as 0, as does a missing map entry, so the balances       *)
(* prefix is a total function.  Allowances are written under the owner's  *)
(* address alone, so which entries the live map holds matters:            *)
(* allowedKeys are the <<owner, spender>> entries of _allowed.            *)
(***************************************************************************)
EXTENDS Naturals, SequencesExt

CONSTANTS
  Users, Width, MintValues, Values, Checked,
  NONE,                \* an absent DB key
  CrashDuringShutdown, \* the process may die between the destructors' writes
  WriteOutcomes        \* what a put or putBatch may return: TRUE, FALSE

ASSUME 0 \notin Values

VARIABLES
  _balances, _allowed, _totalSupply,  \* the live token (module ERC20)
  allowedKeys,  \* the entries <<owner, spender>> of the live _allowed
  deployed,     \* ContractManager holds the token
  phase,        \* "running", a step of the shutdown, or "down"
  db,           \* the DB entries of the token and of its registration
  dumped        \* history: the token as the last complete shutdown saved it

Token == INSTANCE ERC20

tokenVars == <<_balances, _allowed, _totalSupply>>
vars == <<_balances, _allowed, _totalSupply, allowedKeys, deployed, phase, db, dumped>>

Phases == {"running", "registry", "fields", "balances", "down"}
CrashPhases ==
  IF CrashDuringShutdown THEN Phases \ {"down"} ELSE {"running"}

TokenState == [balances |-> _balances, allowed |-> _allowed, supply |-> _totalSupply]

EmptyDB ==
  [registry |-> FALSE, fields |-> [k \in {"_totalSupply"} |-> NONE],
   balances |-> [u \in Users |-> 0], allowed |-> [o \in Users |-> NONE]]

(* A process that holds no token. *)
NoToken ==
  /\ _balances' = [u \in Users |-> 0]
  /\ _allowed' = [o \in Users |-> [s \in Users |-> 0]]
  /\ _totalSupply' = 0
  /\ allowedKeys' = {}

(* DB::get: the value stored under the key, or empty bytes. *)
DBGet(prefix, key) == prefix[key]

(* DB::putBatch: the puts applied in order, a later put to a key        *)
(* replacing an earlier one.                                             *)
ApplyBatch(prefix, puts) ==
  FoldLeft(LAMBDA m, p : [m EXCEPT ![p[1]] = p[2]], prefix, puts)

(* DB::put and DB::putBatch: RocksDB applies the write, or reports a    *)
(* failed status and the call returns false having changed nothing.      *)
(* Every destructor ignores the result and goes on.                      *)
DBWrite(new) == \E ok \in WriteOutcomes : db' = IF ok THEN new ELSE db

-----------------------------------------------------------------------------
(* ContractManager::createNewERC20Contract: the creating constructor     *)
(* mints mintValue to the creator (_mintValue) and commits.              *)
Deploy(creator, mintValue) ==
  /\ phase = "running"
  /\ ~deployed
  /\ _balances' = [_balances EXCEPT ![creator] = @ + mintValue]
  /\ _totalSupply' = _totalSupply + mintValue
  /\ UNCHANGED _allowed
  /\ allowedKeys' = {}
  /\ deployed' = TRUE
  /\ UNCHANGED <<phase, db, dumped>>

(* Plausible-bug variant: a transfer after which the balances batch is   *)
(* already in the DB, as the destructor of a temporary copy of the        *)
(* contract would write it.                                               *)
TokenTransferSavesBalances(caller, to, v) ==
  /\ phase = "running" /\ deployed
  /\ Token!Transfer(caller, to, v)
  /\ db' = [db EXCEPT !.balances = _balances']
  /\ UNCHANGED <<allowedKeys, deployed, phase, dumped>>

(* The token's calls, while the node runs. *)
TokenTransfer(caller, to, v) ==
  /\ phase = "running" /\ deployed
  /\ Token!Transfer(caller, to, v)
  /\ UNCHANGED <<allowedKeys, deployed, phase, db, dumped>>

TokenApprove(caller, spender, v) ==
  /\ phase = "running" /\ deployed
  /\ Token!Approve(caller, spender, v)
  /\ allowedKeys' = allowedKeys \cup {<<caller, spender>>}
  /\ UNCHANGED <<deployed, phase, db, dumped>>

(* _allowed[_from][caller] -= _value inserts the entry when it is absent; *)
(* 0 - _value then throws and is reverted in the checked build, and      *)
(* wraps and stays in the unchecked one.                                 *)
TokenTransferFrom(caller, from, to, v) ==
  /\ phase = "running" /\ deployed
  /\ Token!TransferFrom(caller, from, to, v)
  /\ allowedKeys' = IF Checked /\ <<from, caller>> \notin allowedKeys
                      THEN allowedKeys
                      ELSE allowedKeys \cup {<<from, caller>>}
  /\ UNCHANGED <<deployed, phase, db, dumped>>

-----------------------------------------------------------------------------
(* ~ContractManager: one registry put per contract it holds, in a batch. *)
DumpRegistry ==
  /\ phase = "running"
  /\ DBWrite([db EXCEPT !.registry = @ \/ deployed])
  /\ phase' = IF deployed THEN "registry" ELSE "down"
  /\ dumped' = IF deployed THEN dumped ELSE NONE
  /\ UNCHANGED <<tokenVars, allowedKeys, deployed>>

(* ~ERC20: _name, _symbol, _decimals and _totalSupply, each its own put. *)
DumpFields ==
  /\ phase = "registry"
  /\ DBWrite([db EXCEPT !.fields["_totalSupply"] = _totalSupply])
  /\ phase' = "fields"
  /\ UNCHANGED <<tokenVars, allowedKeys, deployed, dumped>>

(* ~ERC20: one put per entry of _balances, keyed by the holder, in one   *)
(* batch.                                                                *)
DumpBalances ==
  /\ phase = "fields"
  /\ DBWrite([db EXCEPT !.balances = _balances])
  /\ phase' = "balances"
  /\ UNCHANGED <<tokenVars, allowedKeys, deployed, dumped>>

(* ~ERC20: one put per entry of _allowed, keyed by the owner alone with  *)
(* spender ++ amount as the value, in the maps' iteration order, which   *)
(* the standard leaves unspecified.  The process then ends.              *)
DumpAllowed ==
  /\ phase = "balances"
  /\ \E order \in SetToSeqs(allowedKeys) :
       LET puts == [i \in DOMAIN order |->
                      <<order[i][1], <<order[i][2], _allowed[order[i][1]][order[i][2]]>>>>]
       IN DBWrite([db EXCEPT !.allowed = ApplyBatch(@, puts)])
  /\ dumped' = TokenState
  /\ phase' = "down"
  /\ NoToken
  /\ deployed' = FALSE

(* The process dies; what it had not written is lost. *)
Crash ==
  /\ phase \in CrashPhases
  /\ phase' = "down"
  /\ NoToken
  /\ deployed' = FALSE
  /\ UNCHANGED <<db, dumped>>

(* The loading constructor ERC20(address, db): _totalSupply from its     *)
(* key, then every entry under _balances and every entry under _allowed. *)
LoadToken ==
  /\ _totalSupply' = DBGet(db.fields, "_totalSupply")
  /\ _balances' = [u \in Users |-> DBGet(db.balances, u)]
  /\ _allowed' = [o \in Users |-> [s \in Users |->
                   IF db.allowed[o] # NONE /\ db.allowed[o][1] = s
                   THEN db.allowed[o][2] ELSE 0]]
  /\ allowedKeys' = {<<o, db.allowed[o][1]>> : o \in {o \in Users : db.allowed[o] # NONE}}

(* The ContractManager constructor: every contract in the registry is    *)
(* loaded.  A registered token whose _totalSupply was never written      *)
(* would be read from empty bytes; that start is not modelled and the    *)
(* node stays down.                                                      *)
Restart ==
  /\ phase = "down"
  /\ phase' = "running"
  /\ IF db.registry
       THEN /\ DBGet(db.fields, "_totalSupply") # NONE
            /\ LoadToken
            /\ deployed' = TRUE
       ELSE /\ NoToken
            /\ deployed' = FALSE
  /\ UNCHANGED <<db, dumped>>

Init ==
  /\ _balances = [u \in Users |-> 0]
  /\ _allowed = [o \in Users |-> [s \in Users |-> 0]]
  /\ _totalSupply = 0
  /\ allowedKeys = {}
  /\ deployed = FALSE
  /\ phase = "running"
  /\ db = EmptyDB
  /\ dumped = NONE

Next ==
  \/ \E creator \in Users, mintValue \in MintValues : Deploy(creator, mintValue)
  \/ \E c, a, b \in Users, v \in Values :
       \/ TokenTransfer(c, a, v)
       \/ TokenApprove(c, a, v)
       \/ TokenTransferFrom(c, a, b, v)
  \/ DumpRegistry \/ DumpFields \/ DumpBalances \/ DumpAllowed
  \/ Crash
  \/ Restart

Spec == Init /\ [][Next]_vars

-----------------------------------------------------------------------------
(* While the node runs, a balance falls only by its holder's transfer or *)
(* by exactly what is taken off an allowance the holder granted          *)
(* (ERC20::transferFrom, which tests neither allowance nor balance).     *)
SpendingWithinAllowance ==
  [][phase = "running" /\ phase' = "running" => Token!SpentWithinAllowance]_vars

(* The token as DurableToken sees it: balances and total supply.  While  *)
(* the node runs it is the live token; the saved image is what the       *)
(* loading constructor would read from the DB, except while a shutdown   *)
(* is under way, when the live token counts as already saved.            *)
LiveBalances == [balances |-> _balances, supply |-> _totalSupply]

SavedBalances ==
  IF db.registry /\ DBGet(db.fields, "_totalSupply") # NONE
    THEN [balances |-> [u \in Users |-> DBGet(db.balances, u)],
          supply |-> DBGet(db.fields, "_totalSupply")]
    ELSE NONE

Durable ==
  INSTANCE DurableToken WITH
    up <- phase = "running",
    live <- IF phase = "running" /\ deployed THEN LiveBalances ELSE NONE,
    saved <- IF phase \in {"registry", "fields", "balances"}
               THEN LiveBalances ELSE SavedBalances

(* The node keeps DurableToken's promise: the token's calls never change  *)
(* the total supply nor touch the DB, the destructors' writes together    *)
(* save exactly the live balances and supply, a crash leaves the DB as    *)
(* the last complete shutdown left it, and a restart brings that image    *)
(* back (ContractManager::~ContractManager, ERC20::~ERC20, the loading    *)
(* constructors).                                                          *)
ImplementsDurableToken == Durable!Spec

(* A restart after a complete shutdown brings back every allowance the   *)
(* token had (spec.md 8, storage round-trip).                            *)
AllowancesRestoredAtRestart ==
  [][phase = "down" /\ phase' = "running" /\ dumped # NONE =>
       _allowed' = dumped.allowed]_vars

(* What an owner approves is honoured: a spender takes no more than its  *)
(* allowance while the node runs (ERC20::transferFrom), and a restart    *)
(* after a complete shutdown gives every spender back the allowance it   *)
(* had (~ERC20's allowance batch and the loading constructor).           *)
AllowancesHonoured == SpendingWithinAllowance /\ AllowancesRestoredAtRestart
=============================================================================
