--------------------------- MODULE ContractManager ---------------------------
(***************************************************************************)
(* ContractManager (src/src/contract/contractmanager.cpp): the entry points *)
(* that run a native contract call, callContract(TxBlock) and              *)
(* validateCallContractWithTx, and the native-token staging they share     *)
(* with ContractManagerInterface: `balances`, populated lazily from the    *)
(* State's accounts, moved by sendTokens, and written back by              *)
(* State::processContractPayable at the end of a payable call.             *)
(*                                                                         *)
(* An entry point into a registered contract is a begin step, the steps    *)
(* the contract's body takes (nested calls through the interface, balance  *)
(* reads, an exception), and an end step.  Entry points into the manager   *)
(* itself, into rdPoS and into an unknown address are single steps: their  *)
(* bodies make no call back into the interface.  `lastDispatch` records    *)
(* the entry point and the commit flag of the latest ethCall dispatched.   *)
(*                                                                         *)
(* Width stands for 256: balances are uint256_t and wrap modulo 2^Width.   *)
(***************************************************************************)
EXTENDS Naturals, Functions

CONSTANTS
  Contracts,     \* addresses in ContractManager::contracts
  EOAs,          \* addresses with no contract
  Manager,       \* ProtocolContractAddresses.at("ContractManager")
  RdPoS,         \* ProtocolContractAddresses.at("rdPoS")
  Width,         \* bit width standing for 256
  InitBalances,  \* account balances the state may start with
  Amounts,       \* non-zero token amounts a call may carry
  NONE           \* no entry in `balances`, no current target

Addrs == Contracts \cup EOAs \cup {Manager, RdPoS}
Modulus == 2^Width
Uint == 0..(Modulus - 1)

VARIABLES
  accounts,      \* State::accounts: the balance of each address
  balances,      \* ContractManager::balances: staged balance, or NONE
  mode,          \* the entry point running: "idle", "call" or "validate"
  target,        \* the registered contract it called, or NONE
  txValue,       \* the value of the transaction it runs
  payable,       \* contract->isPayableFunction(functor) for that call
  threw,         \* an exception is propagating out of the contract body
  active,        \* contracts whose ethCall is on the stack
  value,         \* ContractManager::value (BaseContract member)
  commit,        \* ContractManager::commit (BaseContract member)
  lastDispatch   \* [entry, commit] of the latest ethCall

vars == <<accounts, balances, mode, target, txValue, payable, threw, active,
          value, commit, lastDispatch>>

Empty == [a \in Addrs |-> NONE]

(* Plausible-bug variant: populateBalance without its contains() test,   *)
(* re-reading the account over a balance already staged.                  *)
PopulateBalanceOverwrites(b, a) == [b EXCEPT ![a] = accounts[a]]

(* ContractManagerInterface::populateBalance(address) applied to b *)
PopulateBalance(b, a) ==
  IF b[a] # NONE THEN b ELSE [b EXCEPT ![a] = accounts[a]]

(* ContractManagerInterface::sendTokens(from, to, amount): the staged      *)
(* balances it leaves, and whether it throws "Not enough balance".        *)
SendTokens(from, to, amount) ==
  LET b == PopulateBalance(PopulateBalance(balances, from), to)
  IN IF b[to] < amount
       THEN [bal |-> b, throws |-> TRUE]
       ELSE [bal |-> [b EXCEPT ![from] = (@ - amount) % Modulus,
                               ![to] = (@ + amount) % Modulus],
             throws |-> FALSE]

(* State::processContractPayable(balances): every staged balance becomes *)
(* the account's balance.                                                 *)
ProcessContractPayable ==
  [a \in Addrs |-> IF balances[a] # NONE THEN balances[a] ELSE accounts[a]]

Dispatch(entry, c) == lastDispatch' = [entry |-> entry, commit |-> c]

EndOfEntry ==
  /\ mode' = "idle"
  /\ target' = NONE
  /\ txValue' = 0
  /\ payable' = FALSE
  /\ threw' = FALSE
  /\ active' = {}

-----------------------------------------------------------------------------
(* callContract(tx), `to` the manager: commit = true; value = tx value;   *)
(* ethCall; commit = false and balances.clear(), whether or not it threw. *)
CallManager(v) ==
  /\ mode = "idle"
  /\ value' = v
  /\ Dispatch("call", TRUE)
  /\ commit' = FALSE
  /\ balances' = Empty
  /\ UNCHANGED <<accounts, mode, target, txValue, payable, threw, active>>

(* callContract(tx), `to` rdPoS: commit = true; rdpos->commit = commit.   *)
CallRdPoS(v) ==
  /\ mode = "idle"
  /\ commit' = TRUE
  /\ Dispatch("call", TRUE)
  /\ balances' = Empty
  /\ UNCHANGED <<accounts, mode, target, txValue, payable, threw, active, value>>

(* callContract(tx), no contract at `to`: throws "Contract does not exist" *)
CallMissing(to) ==
  /\ mode = "idle"
  /\ commit' = TRUE
  /\ balances' = Empty
  /\ UNCHANGED <<accounts, mode, target, txValue, payable, threw, active,
                 value, lastDispatch>>

(* callContract(tx), a registered contract: commit = true; contract->     *)
(* commit = true; contract->ethCall(callInfo) starts.                     *)
CallRegistered(to, v, pay) ==
  /\ mode = "idle"
  /\ commit' = TRUE
  /\ mode' = "call"
  /\ target' = to
  /\ txValue' = v
  /\ payable' = pay
  /\ active' = {to}
  /\ Dispatch("call", TRUE)
  /\ UNCHANGED <<accounts, balances, threw, value>>

(* The end of callContract(tx) for a registered contract: on an exception *)
(* balances.clear() and rethrow; otherwise processContractPayable when    *)
(* the function is payable, then balances.clear().  commit stays true.    *)
EndCall ==
  /\ mode = "call"
  /\ accounts' = IF ~threw /\ payable THEN ProcessContractPayable ELSE accounts
  /\ balances' = Empty
  /\ EndOfEntry
  /\ UNCHANGED <<value, commit, lastDispatch>>

-----------------------------------------------------------------------------
(* The prelude of validateCallContractWithTx: if (this->getValue()), the  *)
(* manager's own `value` member, populate `to` and add the call's value.  *)
ValidationCredit(to, v) ==
  IF value # 0
    THEN [PopulateBalance(balances, to) EXCEPT ![to] = (@ + v) % Modulus]
    ELSE balances

(* validateCallContractWithTx, `to` the manager: value = v; ethCall with  *)
(* whatever commit holds; balances.clear().                               *)
ValidateManager(v) ==
  /\ mode = "idle"
  /\ value' = v
  /\ Dispatch("validate", commit)
  /\ balances' = Empty
  /\ UNCHANGED <<accounts, mode, target, txValue, payable, threw, active, commit>>

(* validateCallContractWithTx, `to` rdPoS: rdpos->commit = false.        *)
ValidateRdPoS(v) ==
  /\ mode = "idle"
  /\ Dispatch("validate", FALSE)
  /\ balances' = Empty
  /\ UNCHANGED <<accounts, mode, target, txValue, payable, threw, active,
                 value, commit>>

(* Plausible-bug variant: the unknown-contract branch returns false       *)
(* without balances.clear().                                              *)
ValidateMissingKeepsStaged(to, v) ==
  /\ mode = "idle"
  /\ balances' = ValidationCredit(to, v)
  /\ UNCHANGED <<accounts, mode, target, txValue, payable, threw, active,
                 value, commit, lastDispatch>>

(* validateCallContractWithTx, no contract at `to`: balances.clear();     *)
(* return false.                                                          *)
ValidateMissing(to, v) ==
  /\ mode = "idle"
  /\ balances' = Empty
  /\ UNCHANGED <<accounts, mode, target, txValue, payable, threw, active,
                 value, commit, lastDispatch>>

(* validateCallContractWithTx, a registered contract: contract->commit =  *)
(* false; contract->ethCall(callInfo) starts on the credited balances.    *)
ValidateRegistered(to, v) ==
  /\ mode = "idle"
  /\ balances' = ValidationCredit(to, v)
  /\ mode' = "validate"
  /\ target' = to
  /\ txValue' = v
  /\ active' = {to}
  /\ Dispatch("validate", FALSE)
  /\ UNCHANGED <<accounts, payable, threw, value, commit>>

(* Its end, normal or by exception: balances.clear().                     *)
EndValidate ==
  /\ mode = "validate"
  /\ balances' = Empty
  /\ EndOfEntry
  /\ UNCHANGED <<accounts, value, commit, lastDispatch>>

-----------------------------------------------------------------------------
(* Steps of a running contract body.                                      *)

(* Plausible-bug variant: the interface call without its "Contract does  *)
(* not exist" test.                                                       *)
InterfaceCallNoExistenceCheck(from, to, amount) ==
  /\ mode # "idle"
  /\ ~threw
  /\ from \in active
  /\ LET s == IF amount > 0 THEN SendTokens(from, to, amount)
                            ELSE [bal |-> balances, throws |-> FALSE]
     IN /\ balances' = s.bal
        /\ IF s.throws
             THEN threw' = TRUE /\ UNCHANGED <<active, lastDispatch>>
             ELSE /\ active' = active \cup {to}
                  /\ Dispatch(mode, commit)
                  /\ UNCHANGED threw
  /\ UNCHANGED <<accounts, mode, target, txValue, payable, value, commit>>

(* ContractManagerInterface::callContract from contract `from`: sendTokens *)
(* when value is non-zero, then "Contract does not exist" for an unknown  *)
(* `to`, then contract->commit = contractManager.getCommit() and ethCall. *)
InterfaceCall(from, to, amount) ==
  /\ mode # "idle"
  /\ ~threw
  /\ from \in active
  /\ LET s == IF amount > 0 THEN SendTokens(from, to, amount)
                            ELSE [bal |-> balances, throws |-> FALSE]
     IN /\ balances' = s.bal
        /\ IF s.throws \/ to \notin Contracts
             THEN threw' = TRUE /\ UNCHANGED <<active, lastDispatch>>
             ELSE /\ active' = active \cup {to}
                  /\ Dispatch(mode, commit)
                  /\ UNCHANGED threw
  /\ UNCHANGED <<accounts, mode, target, txValue, payable, value, commit>>

(* ContractManagerInterface::getBalanceFromAddress(address) *)
GetBalanceFromAddress(a) ==
  /\ mode # "idle"
  /\ ~threw
  /\ balances' = PopulateBalance(balances, a)
  /\ UNCHANGED <<accounts, mode, target, txValue, payable, threw, active,
                 value, commit, lastDispatch>>

(* Any other exception raised by the contract body. *)
ContractThrows ==
  /\ mode # "idle"
  /\ ~threw
  /\ threw' = TRUE
  /\ UNCHANGED <<accounts, balances, mode, target, txValue, payable, active,
                 value, commit, lastDispatch>>

-----------------------------------------------------------------------------
(* The State as the node starts it; the manager's value and commit as    *)
(* BaseContract's constructor leaves them.                                *)
Init ==
  /\ accounts \in [Addrs -> InitBalances]
  /\ balances = Empty
  /\ mode = "idle"
  /\ target = NONE
  /\ txValue = 0
  /\ payable = FALSE
  /\ threw = FALSE
  /\ active = {}
  /\ value = 0
  /\ commit = FALSE
  /\ lastDispatch = [entry |-> "none", commit |-> FALSE]

Values == {0} \cup Amounts

Next ==
  \/ \E v \in Values :
       \/ CallManager(v) \/ CallRdPoS(v) \/ ValidateManager(v) \/ ValidateRdPoS(v)
       \/ \E to \in EOAs : CallMissing(to) \/ ValidateMissing(to, v)
       \/ \E to \in Contracts :
            \/ ValidateRegistered(to, v)
            \/ \E pay \in BOOLEAN : CallRegistered(to, v, pay)
  \/ EndCall
  \/ EndValidate
  \/ \E from \in Contracts, to \in Addrs, amount \in Values :
       InterfaceCall(from, to, amount)
  \/ \E a \in Addrs : GetBalanceFromAddress(a)
  \/ ContractThrows

Spec == Init /\ [][Next]_vars

-----------------------------------------------------------------------------
TypeOK ==
  /\ accounts \in [Addrs -> Uint]
  /\ balances \in [Addrs -> Uint \cup {NONE}]
  /\ mode \in {"idle", "call", "validate"}
  /\ target \in Contracts \cup {NONE}
  /\ txValue \in Values
  /\ payable \in BOOLEAN
  /\ threw \in BOOLEAN
  /\ active \subseteq Contracts
  /\ value \in Values
  /\ commit \in BOOLEAN
  /\ lastDispatch \in [entry : {"none", "call", "validate"}, commit : BOOLEAN]

Staged == {a \in Addrs : balances[a] # NONE}

(* Within a call, sendTokens only moves tokens between staged entries:   *)
(* the staged balances add up (mod 2^256) to what the same accounts hold *)
(* in the State, however many nested calls, transfers and balance reads  *)
(* the body makes.  Broken if a second populateBalance re-read an account *)
(* over a balance a transfer had already staged.                          *)
StagedTotalMatchesAccounts ==
  mode = "call" =>
    SumFunctionOnSet(balances, Staged) % Modulus
      = SumFunctionOnSet(accounts, Staged) % Modulus

(* Between entry points nothing is staged: every return path of          *)
(* callContract and validateCallContractWithTx clears `balances`, so a   *)
(* later payable call never writes back a balance staged by another.      *)
NoStagedBalanceBetweenCalls ==
  mode = "idle" => Staged = {}

(* spec.md 9, balance conservation: contract calls move native tokens,    *)
(* they never create or destroy them.                                     *)
BalanceConserved ==
  [][SumFunction(accounts') = SumFunction(accounts)]_vars

(* A validation never runs contract code in commit mode: ethCall         *)
(* dispatches to createContractFuncs only when getCommit() is true, and  *)
(* validateCallContractWithTx is meant to have no effect.                 *)
ValidationNeverCommits ==
  lastDispatch.entry = "validate" => ~lastDispatch.commit

(* The comment at validateCallContractWithTx: a call carrying value is    *)
(* payable, so its value is added to the contract's staged balance        *)
(* before the contract's function runs.                                   *)
ValidationCreditsValue ==
  mode = "validate" /\ txValue > 0 => balances[target] # NONE

(* A validation runs as the call it validates would, only without         *)
(* committing, whatever earlier entry points left in the manager's own    *)
(* `commit` and `value` members: its ethCall is dispatched with commit     *)
(* false, and the value the call carries is credited before its body.     *)
ValidationIgnoresManagerMembers ==
  ValidationNeverCommits /\ ValidationCreditsValue
=============================================================================
