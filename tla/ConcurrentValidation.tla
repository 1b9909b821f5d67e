------------------------- MODULE ConcurrentValidation -------------------------
(***************************************************************************)
(* Several threads in ContractManager::validateCallContractWithTx at once  *)
(* (src/src/contract/contractmanager.cpp).  The function takes             *)
(* contractsMutex shared, so validations are readers that may overlap one  *)
(* another (spec.md 5: unbounded concurrent readers outside the write      *)
(* window); no block is applied meanwhile, so the State's accounts do not  *)
(* change.  Yet a validation writes members every validation shares: the  *)
(* manager's `balances` map and `value`, and the called contract's        *)
(* `caller`.                                                               *)
(*                                                                         *)
(* A thread's validation is the statements between which another thread   *)
(* can run: the value prelude; the branch on `to` up to                    *)
(* contract->ethCall; the contract body, which reads its caller and its    *)
(* own balance through the interface; and the final balances.clear().      *)
(* A write to an unordered_map racing another access is undefined; each   *)
(* statement is taken as atomic, the mildest outcome the build can give.  *)
(***************************************************************************)
EXTENDS Naturals

CONSTANTS
  Threads,       \* threads that validate transactions
  Contracts,     \* addresses in ContractManager::contracts
  EOAs,          \* addresses with no contract; they send the transactions
  Manager,       \* ProtocolContractAddresses.at("ContractManager")
  RdPoS,         \* ProtocolContractAddresses.at("rdPoS")
  Width,         \* bit width standing for 256
  InitBalances,  \* account balances the state may hold
  Values,        \* transaction values
  NONE           \* no entry in `balances`, no call, no caller

Addrs == Contracts \cup EOAs \cup {Manager, RdPoS}
Modulus == 2^Width

VARIABLES
  accounts,   \* State::accounts (unchanged: no block is applied)
  balances,   \* ContractManager::balances, shared by every validation
  value,      \* ContractManager::value (BaseContract member)
  caller,     \* contract->caller of each registered contract
  pc,         \* where each thread is in validateCallContractWithTx
  call,       \* the [from, to, value] each thread validates, or NONE
  credit,     \* what its prelude added to balances[to]
  seen        \* what its contract body read: [caller, balance], or NONE

vars == <<accounts, balances, value, caller, pc, call, credit, seen>>

Empty == [a \in Addrs |-> NONE]

(* ContractManagerInterface::populateBalance(address) applied to b *)
PopulateBalance(b, a) ==
  IF b[a] # NONE THEN b ELSE [b EXCEPT ![a] = accounts[a]]

Return(t) ==
  /\ balances' = Empty
  /\ pc' = [pc EXCEPT ![t] = "idle"]
  /\ call' = [call EXCEPT ![t] = NONE]
  /\ credit' = [credit EXCEPT ![t] = 0]
  /\ seen' = [seen EXCEPT ![t] = NONE]

-----------------------------------------------------------------------------
(* Entry and prelude: if (this->getValue()), populate `to` and add the    *)
(* transaction's value to its staged balance.                             *)
Begin(t, from, to, v) ==
  /\ pc[t] = "idle"
  /\ LET c == IF value # 0 THEN v ELSE 0
     IN /\ balances' = IF value # 0
                         THEN [PopulateBalance(balances, to) EXCEPT ![to] = (@ + v) % Modulus]
                         ELSE balances
        /\ credit' = [credit EXCEPT ![t] = c]
  /\ call' = [call EXCEPT ![t] = [from |-> from, to |-> to, value |-> v]]
  /\ pc' = [pc EXCEPT ![t] = "dispatch"]
  /\ UNCHANGED <<accounts, value, caller, seen>>

(* `to` is the manager or rdPoS: set its caller, origin and value (the    *)
(* manager's own `value` member), ethCall, balances.clear(), return true. *)
ValidateProtocol(t) ==
  /\ pc[t] = "dispatch"
  /\ call[t].to \in {Manager, RdPoS}
  /\ value' = IF call[t].to = Manager THEN call[t].value ELSE value
  /\ Return(t)
  /\ UNCHANGED <<accounts, caller>>

(* Under the shared lock, no contract at `to`: balances.clear(); return   *)
(* false.                                                                  *)
ValidateMissing(t) ==
  /\ pc[t] = "dispatch"
  /\ call[t].to \in EOAs
  /\ Return(t)
  /\ UNCHANGED <<accounts, value, caller>>

(* Under the shared lock, a registered contract: contract->caller =       *)
(* origin = from; value; commit = false; ethCall starts.                  *)
ValidateRegistered(t) ==
  /\ pc[t] = "dispatch"
  /\ call[t].to \in Contracts
  /\ caller' = [caller EXCEPT ![call[t].to] = call[t].from]
  /\ pc' = [pc EXCEPT ![t] = "body"]
  /\ UNCHANGED <<accounts, balances, value, call, credit, seen>>

(* The contract body: it reads this->caller, and its own balance through *)
(* ContractManagerInterface::getBalanceFromAddress, which populates it.   *)
ContractBody(t) ==
  /\ pc[t] = "body"
  /\ LET to == call[t].to
         b == PopulateBalance(balances, to)
     IN /\ balances' = b
        /\ seen' = [seen EXCEPT ![t] = [caller |-> caller[to], balance |-> b[to]]]
  /\ pc' = [pc EXCEPT ![t] = "end"]
  /\ UNCHANGED <<accounts, value, caller, call, credit>>

(* ethCall returned or threw: balances.clear() either way. *)
EndValidate(t) ==
  /\ pc[t] = "end"
  /\ Return(t)
  /\ UNCHANGED <<accounts, value, caller>>

-----------------------------------------------------------------------------
(* The node as the last block left it: any balances, any value left in    *)
(* the manager's member, any caller left in each contract.                *)
Init ==
  /\ accounts \in [Addrs -> InitBalances]
  /\ balances = Empty
  /\ value \in Values
  /\ caller \in [Contracts -> EOAs]
  /\ pc = [t \in Threads |-> "idle"]
  /\ call = [t \in Threads |-> NONE]
  /\ credit = [t \in Threads |-> 0]
  /\ seen = [t \in Threads |-> NONE]

Next ==
  \E t \in Threads :
    \/ \E from \in EOAs, v \in Values, to \in Addrs :
         to # from /\ Begin(t, from, to, v)
    \/ ValidateProtocol(t)
    \/ ValidateMissing(t)
    \/ ValidateRegistered(t)
    \/ ContractBody(t)
    \/ EndValidate(t)

Spec == Init /\ [][Next]_vars

-----------------------------------------------------------------------------
TypeOK ==
  /\ balances \in [Addrs -> (0..(Modulus - 1)) \cup {NONE}]
  /\ value \in Values
  /\ caller \in [Contracts -> EOAs]
  /\ pc \in [Threads -> {"idle", "dispatch", "body", "end"}]
  /\ \A t \in Threads : call[t] = NONE \/ call[t] \in [from : EOAs, to : Addrs, value : Values]

(* A validation runs its contract as the transaction alone would: the     *)
(* body reads the transaction's sender as its caller, and its own balance *)
(* as the State holds it plus the value the prelude credited.  spec.md 5  *)
(* lets validations run as concurrent readers; the shared lock they take  *)
(* must then keep one validation's writes out of another's view.          *)
ValidationIsolated ==
  \A t \in Threads :
    seen[t] # NONE =>
      seen[t] = [caller |-> call[t].from,
                 balance |-> (accounts[call[t].to] + credit[t]) % Modulus]
=============================================================================
