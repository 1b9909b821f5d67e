----------------------------- MODULE SafeUint224 -----------------------------
(***************************************************************************)
(* SafeUint224_t (src/src/contract/variables/safeuint224_t.h) and the      *)
(* commit/revert discipline its owning contract applies to it.             *)
(*                                                                         *)
(* Each field keeps the committed `value` and `valuePtr`, the overlay the  *)
(* operators work on (NULL when absent); check() creates the overlay as a  *)
(* copy of `value`.  Every assigning operator calls check(), markAsUsed()  *)
(* and only then tests for overflow, so a throwing operator still leaves   *)
(* the field registered with its owner.  The owner's side (SafeBase::      *)
(* markAsUsed and the contract's commit/revert of its used fields) is not  *)
(* in src/ and is modelled from spec.md 4.3: `usedVars` is the owner's     *)
(* list, and a call ends by committing every used field, or reverting them *)
(* all when the call threw.                                                *)
(*                                                                         *)
(* Width stands for 224: every operand is a uint224 of that width.         *)
(***************************************************************************)
EXTENDS Naturals, Bitwise

CONSTANTS
  Vars,    \* the SafeUint224_t fields of one contract
  Width,   \* bit width standing for 224
  NULL     \* the empty valuePtr

ASSUME Width \in Nat \ {0}

VARIABLES
  value,       \* value: the committed value of each field
  valuePtr,    \* valuePtr: the overlay of each field, or NULL
  registered,  \* registered: the field has called owner->registerVariableUse
  usedVars,    \* the owner's list of used fields
  callState    \* "idle" between calls, "running", or the exception thrown

vars == <<value, valuePtr, registered, usedVars, callState>>

(* std::numeric_limits<uint224_t>::max() *)
MaxUint == 2^Width - 1
Uint == 0..MaxUint

(* The value every operator reads: *valuePtr after check(). *)
Get(v) == IF valuePtr[v] = NULL THEN value[v] ELSE valuePtr[v]

(* SafeVarContract with the failure rule of the doc comments, and with   *)
(* that of spec.md.  The committed value is `value`, the working value is *)
(* what get() returns.                                                    *)
AbstractDoc ==
  INSTANCE SafeVarContract WITH
    committed <- value,
    working <- [v \in Vars |-> Get(v)],
    ZeroOperandThrows <- TRUE

AbstractSpecMd ==
  INSTANCE SafeVarContract WITH
    committed <- value,
    working <- [v \in Vars |-> Get(v)],
    ZeroOperandThrows <- FALSE

(* check(): create the overlay as a copy of value if it is absent. *)
Check(v) == valuePtr' = [valuePtr EXCEPT ![v] = Get(v)]

(* SafeBase::markAsUsed(): register with the owner once. *)
MarkAsUsed(v) ==
  IF registered[v]
    THEN UNCHANGED <<registered, usedVars>>
    ELSE /\ registered' = [registered EXCEPT ![v] = TRUE]
         /\ usedVars' = usedVars \cup {v}

(* The exceptions: std::overflow_error, std::underflow_error,             *)
(* std::domain_error, and "exception" for one raised by contract code.    *)
Thrown == {"overflow_error", "underflow_error", "domain_error", "exception"}

(* The body shared by every assigning operator: check(); markAsUsed();    *)
(* if (check) throw error; *valuePtr = result.  A list of <<check, error>>*)
(* pairs stands for the tests in the order the operator makes them.       *)
FirstError(tests) ==
  LET hit == {i \in DOMAIN tests : tests[i][1]}
  IN IF hit = {} THEN "none"
     ELSE tests[CHOOSE i \in hit : \A j \in hit : i <= j][2]

AssignOp(v, tests, result) ==
  /\ callState = "running"
  /\ MarkAsUsed(v)
  /\ IF FirstError(tests) # "none"
       THEN Check(v) /\ callState' = FirstError(tests)
       ELSE valuePtr' = [valuePtr EXCEPT ![v] = result]
            /\ UNCHANGED callState
  /\ UNCHANGED value

(* The tests each operator makes before it writes, in the code's order.   *)
OpTests(k, x, o) ==
  CASE k = "add" -> << <<x > MaxUint - o, "overflow_error">> >>
    [] k = "sub" -> << <<x < o, "underflow_error">> >>
    [] k = "mul" -> << <<o = 0 \/ x = 0, "domain_error">>,
                       <<o # 0 /\ x > MaxUint \div o, "overflow_error">> >>
    [] k \in {"div", "mod"} -> << <<x = 0 \/ o = 0, "domain_error">> >>
    [] k = "inc" -> << <<x = MaxUint, "overflow_error">> >>
    [] k = "dec" -> << <<x = 0, "underflow_error">> >>
    [] OTHER -> << >>

(* The operator `k` applied to the current value. *)
Op(v, k, o) == AssignOp(v, OpTests(k, Get(v), o), AbstractDoc!Exact(k, Get(v), o))

(* operator=(const uint224_t&) *)
Assign(v, o) == Op(v, "assign", o)

(* operator+=: throws when *valuePtr > max - other *)
AddAssign(v, o) == Op(v, "add", o)

(* operator-=: throws when *valuePtr < other *)
SubAssign(v, o) == Op(v, "sub", o)

(* operator*=: domain_error on a zero operand, then the overflow test *)
MulAssign(v, o) == Op(v, "mul", o)

(* operator/= and operator%=: domain_error when either operand is zero *)
DivAssign(v, o) == Op(v, "div", o)

ModAssign(v, o) == Op(v, "mod", o)

(* operator&=, |=, ^=: never throw *)
BitAssign(v, o) == \E k \in {"and", "or", "xor"} : Op(v, k, o)

(* operator++ and operator-- *)
Increment(v) == Op(v, "inc", 0)

(* Plausible-bug variant: operator-- without its underflow test. *)
DecrementUnchecked(v) == AssignOp(v, << >>, Get(v) - 1)

Decrement(v) == Op(v, "dec", 0)

(* operator+, -, *, / and % (const): check(), then the same tests as the *)
(* assigning operator, and no markAsUsed; the result is a temporary.      *)
Arithmetic(v, k, o) ==
  /\ callState = "running"
  /\ Check(v)
  /\ callState' = IF FirstError(OpTests(k, Get(v), o)) = "none"
                   THEN "running" ELSE FirstError(OpTests(k, Get(v), o))
  /\ UNCHANGED <<value, registered, usedVars>>

(* get() and the comparison operators, in a call or in a view call.      *)
Read(v) ==
  /\ callState \in {"idle", "running"}
  /\ Check(v)
  /\ UNCHANGED <<value, registered, usedVars, callState>>

(* Any other exception raised by the contract function. *)
Throw ==
  /\ callState = "running"
  /\ callState' = "exception"
  /\ UNCHANGED <<value, valuePtr, registered, usedVars>>

BeginCall ==
  /\ callState = "idle"
  /\ callState' = "running"
  /\ UNCHANGED <<value, valuePtr, registered, usedVars>>

(* commit(): check(); value = *valuePtr; valuePtr = nullptr;              *)
(* registered = false -- applied to every used field.                      *)
CommitUsed ==
  /\ value' = [v \in Vars |-> IF v \in usedVars THEN Get(v) ELSE value[v]]
  /\ valuePtr' = [v \in Vars |-> IF v \in usedVars THEN NULL ELSE valuePtr[v]]
  /\ registered' = [v \in Vars |-> IF v \in usedVars THEN FALSE ELSE registered[v]]

(* Plausible-bug variant: revert() that unregisters the field but keeps  *)
(* its overlay.                                                            *)
RevertKeepsOverlay ==
  /\ registered' = [v \in Vars |-> IF v \in usedVars THEN FALSE ELSE registered[v]]
  /\ UNCHANGED <<value, valuePtr>>

(* revert(): valuePtr = nullptr; registered = false. *)
RevertUsed ==
  /\ valuePtr' = [v \in Vars |-> IF v \in usedVars THEN NULL ELSE valuePtr[v]]
  /\ registered' = [v \in Vars |-> IF v \in usedVars THEN FALSE ELSE registered[v]]
  /\ UNCHANGED value

EndCall ==
  /\ callState # "idle"
  /\ IF callState = "running" THEN CommitUsed ELSE RevertUsed
  /\ usedVars' = {}
  /\ callState' = "idle"

(* Construction as the owning contracts do it: SafeUint224_t(owner, v)    *)
(* puts v in the overlay, and the contract constructor calls commit().    *)
Init ==
  /\ value \in [Vars -> Uint]
  /\ valuePtr = [v \in Vars |-> NULL]
  /\ registered = [v \in Vars |-> FALSE]
  /\ usedVars = {}
  /\ callState = "idle"

Next ==
  \/ BeginCall
  \/ \E v \in Vars, o \in Uint :
       \/ Assign(v, o) \/ AddAssign(v, o) \/ SubAssign(v, o)
       \/ MulAssign(v, o) \/ DivAssign(v, o) \/ ModAssign(v, o)
       \/ BitAssign(v, o)
       \/ \E k \in AbstractDoc!ArithKinds : Arithmetic(v, k, o)
  \/ \E v \in Vars : Increment(v) \/ Decrement(v) \/ Read(v)
  \/ Throw
  \/ EndCall

Spec == Init /\ [][Next]_vars

-----------------------------------------------------------------------------
TypeOK ==
  /\ value \in [Vars -> Uint]
  /\ valuePtr \in [Vars -> Uint \cup {NULL}]
  /\ registered \in [Vars -> BOOLEAN]
  /\ usedVars \subseteq Vars
  /\ callState \in {"idle", "running"} \cup Thrown

(* Refinement: the fields, their owner's commit and revert, implement    *)
(* SafeVarContract under the failure rule of the doc comments.  It fails  *)
(* if an operator throws the wrong error or none, if a call's changes     *)
(* survive its revert or are lost at its commit, or if a later call reads *)
(* a stale overlay.                                                       *)
ImplementsDocContract == AbstractDoc!Spec

(* spec.md 4.3 and 7: an operator fails exactly when its result does not  *)
(* fit, or on division or modulo by zero -- compared, for every field's  *)
(* current value, operator and operand, with the tests the operators of   *)
(* SafeUint224_t make.                                                    *)
FailureRuleOfSpec ==
  \A v \in Vars, k \in AbstractSpecMd!Kinds, o \in Uint :
    (FirstError(OpTests(k, Get(v), o)) # "none") = AbstractSpecMd!Fails(k, Get(v), o)

(* spec.md 4.3: "Outside a transaction, no SafeVar carries an overlay."   *)
(* check() in get() and in the comparison operators creates one in a view *)
(* call, and nothing registers the field for it to be dropped.            *)
NoOverlayOutsideCall ==
  callState = "idle" => \A v \in Vars : valuePtr[v] = NULL
=============================================================================
