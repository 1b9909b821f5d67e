----------------------------- MODULE NestedCalls -----------------------------
(***************************************************************************)
(* The call stack of one transaction into a registered contract           *)
(* (ContractManager::callContract(TxBlock), src/src/contract/              *)
(* contractmanager.cpp): the contract body calls other contracts through   *)
(* ContractManagerInterface::callContract, a callee may call back into a   *)
(* contract already on the stack (reentry, spec.md 4.7), and a body may  *)
(* catch the exception a nested call raised and go on.                     *)
(*                                                                         *)
(* A contract has one caller, value and commit member whatever number of   *)
(* its frames are on the stack; the native-token staging (`balances`) is   *)
(* shared by every frame.  A frame records what its own call set, and, at *)
(* the moment it made a nested call, the staged balances.  The staging    *)
(* operators are ContractManager's.                                        *)
(***************************************************************************)
EXTENDS Naturals, SequencesExt

CONSTANTS
  Contracts, EOAs, Manager, RdPoS, Width, InitBalances, Amounts, NONE,
  MaxDepth   \* bound on the frames on the stack

VARIABLES
  accounts,  \* State::accounts
  balances,  \* ContractManager::balances, shared by every frame
  member,    \* each contract's caller, value and commit members
  stack,     \* the frames of the running transaction, innermost last
  failed,    \* a nested call just raised into the innermost frame's body
  payable    \* isPayableFunction of the transaction's function

vars == <<accounts, balances, member, stack, failed, payable>>

CM == INSTANCE ContractManager WITH
  mode <- "call", target <- NONE, txValue <- 0, threw <- FALSE,
  active <- {}, value <- 0, commit <- TRUE,
  lastDispatch <- [entry |-> "call", commit |-> TRUE]

Addrs == CM!Addrs
Values == CM!Values
Context(from, v) == [caller |-> from, value |-> v, commit |-> TRUE]
Frame(c, from, v) == [c |-> c, ctx |-> Context(from, v), atCall |-> NONE]
Top == Last(stack)

-----------------------------------------------------------------------------
(* callContract(tx), a registered contract `to`: contract->caller and     *)
(* value from the transaction, contract->commit = true; ethCall starts.   *)
CallRegistered(from, to, v, pay) ==
  /\ stack = <<>>
  /\ member' = [member EXCEPT ![to] = Context(from, v)]
  /\ stack' = <<Frame(to, from, v)>>
  /\ payable' = pay
  /\ UNCHANGED <<accounts, balances, failed>>

(* The innermost body calls ContractManagerInterface::callContract:      *)
(* sendTokens when the value is non-zero; "Contract does not exist" for  *)
(* an address with no contract; otherwise the callee's caller, value and *)
(* commit = getCommit() are set and its ethCall runs as a new frame.      *)
InterfaceCall(to, amount) ==
  /\ stack # <<>> /\ ~failed
  /\ Len(stack) < MaxDepth
  /\ LET from == Top.c
         s == IF amount > 0 THEN CM!SendTokens(from, to, amount)
                            ELSE [bal |-> balances, throws |-> FALSE]
         caller == [Top EXCEPT !.atCall = balances]
     IN /\ balances' = s.bal
        /\ IF s.throws \/ to \notin Contracts
             THEN /\ failed' = TRUE
                  /\ stack' = [stack EXCEPT ![Len(stack)] = caller]
                  /\ UNCHANGED member
             ELSE /\ member' = [member EXCEPT ![to] = Context(from, amount)]
                  /\ stack' = Append(Front(stack), caller) \o <<Frame(to, from, amount)>>
                  /\ UNCHANGED failed
  /\ UNCHANGED <<accounts, payable>>

(* ContractManagerInterface::getBalanceFromAddress from the body. *)
GetBalanceFromAddress(a) ==
  /\ stack # <<>> /\ ~failed
  /\ balances' = CM!PopulateBalance(balances, a)
  /\ UNCHANGED <<accounts, member, stack, failed, payable>>

(* A nested body returns normally: control is back in its caller.        *)
Return ==
  /\ Len(stack) > 1 /\ ~failed
  /\ stack' = LET p == Front(stack) IN [p EXCEPT ![Len(p)].atCall = NONE]
  /\ UNCHANGED <<accounts, balances, member, failed, payable>>

(* The innermost body throws, or lets an exception from its callee       *)
(* through.  Nested: contract->commit = false and the exception reaches  *)
(* the caller's body.  Outermost: contract->commit = false,              *)
(* balances.clear() and the transaction fails.                           *)
Throw ==
  /\ stack # <<>>
  /\ member' = [member EXCEPT ![Top.c].commit = FALSE]
  /\ stack' = Front(stack)
  /\ IF Len(stack) > 1
       THEN failed' = TRUE /\ UNCHANGED balances
       ELSE failed' = FALSE /\ balances' = CM!Empty
  /\ UNCHANGED <<accounts, payable>>

(* The body catches the exception its nested call raised and goes on.    *)
Catch ==
  /\ failed
  /\ failed' = FALSE
  /\ stack' = [stack EXCEPT ![Len(stack)].atCall = NONE]
  /\ UNCHANGED <<accounts, balances, member, payable>>

(* The outermost body returns: processContractPayable if the function is *)
(* payable, balances.clear(), contract->commit = false.                  *)
EndCall ==
  /\ Len(stack) = 1 /\ ~failed
  /\ accounts' = IF payable THEN CM!ProcessContractPayable ELSE accounts
  /\ balances' = CM!Empty
  /\ member' = [member EXCEPT ![Top.c].commit = FALSE]
  /\ stack' = <<>>
  /\ UNCHANGED <<failed, payable>>

-----------------------------------------------------------------------------
(* Each contract as the previous transaction left it: commit false.       *)
Init ==
  /\ accounts \in [Addrs -> InitBalances]
  /\ balances = CM!Empty
  /\ member \in [Contracts -> [caller : EOAs, value : Values, commit : {FALSE}]]
  /\ stack = <<>>
  /\ failed = FALSE
  /\ payable = FALSE

Next ==
  \/ \E from \in EOAs, to \in Contracts, v \in Values, pay \in BOOLEAN :
       CallRegistered(from, to, v, pay)
  \/ \E to \in Addrs, amount \in Values : InterfaceCall(to, amount)
  \/ \E a \in Addrs : GetBalanceFromAddress(a)
  \/ Return \/ Throw \/ Catch \/ EndCall

Spec == Init /\ [][Next]_vars

-----------------------------------------------------------------------------
TypeOK ==
  /\ CM!TypeOK
  /\ stack \in Seq([c : Contracts, ctx : [caller : Addrs, value : Values, commit : BOOLEAN],
                    atCall : [Addrs -> CM!Uint \cup {NONE}] \cup {NONE}])
  /\ Len(stack) <= MaxDepth
  /\ failed \in BOOLEAN

(* A balance as getBalanceFromAddress would return it. *)
View(b) == [a \in Addrs |-> IF b[a] = NONE THEN accounts[a] ELSE b[a]]

(* Every frame runs in the context its own call set, and a nested call   *)
(* that fails is undone (spec.md 4.7 and 7: a frame that fails reverts,  *)
(* and its caller only observes that it reverted).  So the running body  *)
(* reads as getCaller(), getValue() and commit what its call set, however *)
(* often its contract was re-entered meanwhile; and when an exception    *)
(* from a nested call reaches it, the balances it can read are those it  *)
(* had when it made that call.                                           *)
FrameIsolation ==
  stack # <<>> =>
    /\ member[Top.c] = Top.ctx
    /\ failed => View(balances) = View(Top.atCall)
=============================================================================
