-------------------------------- MODULE ERC20 --------------------------------
(***************************************************************************)
(* The native ERC20 contract (src/src/contract/erc20.cpp).  Its mutable    *)
(* state is _balances, a SafeUnorderedMap<Address, uint256_t>, _allowed,   *)
(* a map of maps of uint256_t, and _totalSupply.  A call either ends and   *)
(* its writes are committed, or throws and they are reverted (the SafeVar *)
(* discipline checked in SafeUint224), so each function is one action.    *)
(*                                                                         *)
(* transfer and transferFrom test nothing themselves: an overdraft is      *)
(* caught, if at all, by the uint256_t operators on the map's values.      *)
(* Whether they throw or wrap is fixed by the uint256_t typedef, which is  *)
(* not under src/.  The project takes it as wrapping (Checked = FALSE),    *)
(* as ContractManager's sendTokens does for the same type; its sibling     *)
(* uint224_t (safeuint224_t.h:11) is the one declared boost `checked`.     *)
(* Checked = TRUE is the build whose uint256_t throws.                     *)
(* _name, _symbol and _decimals are written by the constructors only.      *)
(***************************************************************************)
EXTENDS Naturals, Functions

CONSTANTS
  Users,       \* addresses
  Width,       \* bit width standing for 256
  MintValues,  \* mintValue the constructor may be given
  Values,      \* amounts a call may pass
  Checked      \* uint256_t throws on overflow and underflow

Modulus == 2^Width
Uint == 0..(Modulus - 1)

VARIABLES _balances, _allowed, _totalSupply

vars == <<_balances, _allowed, _totalSupply>>

(* uint256_t x - v and x + v: the wrapped result, and whether the exact  *)
(* one left the range.                                                   *)
Minus(x, v) == [val |-> (x - v) % Modulus, out |-> x < v]
Plus(x, v) == [val |-> (x + v) % Modulus, out |-> x + v >= Modulus]

(* A call whose arithmetic left the range throws, and is reverted, in a  *)
(* checked build; in an unchecked one its wrapped writes stand.          *)
Call(out, writes) == IF Checked /\ out THEN UNCHANGED vars ELSE writes

(* transfer(_to, _value): _balances[caller] -= _value;                   *)
(* _balances[_to] += _value.                                             *)
Transfer(caller, _to, _value) ==
  LET d == Minus(_balances[caller], _value)
      b1 == [_balances EXCEPT ![caller] = d.val]
      c == Plus(b1[_to], _value)
  IN Call(d.out \/ c.out, /\ _balances' = [b1 EXCEPT ![_to] = c.val]
                          /\ UNCHANGED <<_allowed, _totalSupply>>)

(* approve(_spender, _value): _allowed[caller][_spender] = _value *)
Approve(caller, _spender, _value) ==
  /\ _allowed' = [_allowed EXCEPT ![caller][_spender] = _value]
  /\ UNCHANGED <<_balances, _totalSupply>>

(* transferFrom(_from, _to, _value): _allowed[_from][caller] -= _value;  *)
(* _balances[_from] -= _value; _balances[_to] += _value.                 *)
TransferFrom(caller, _from, _to, _value) ==
  LET a == Minus(_allowed[_from][caller], _value)
      d == Minus(_balances[_from], _value)
      b1 == [_balances EXCEPT ![_from] = d.val]
      c == Plus(b1[_to], _value)
  IN Call(a.out \/ d.out \/ c.out,
          /\ _allowed' = [_allowed EXCEPT ![_from][caller] = a.val]
          /\ _balances' = [b1 EXCEPT ![_to] = c.val]
          /\ UNCHANGED _totalSupply)

(* The creating constructor: _mintValue(creator, mintValue), then        *)
(* updateState(true) commits.                                            *)
Init ==
  \E creator \in Users, mintValue \in MintValues :
    /\ _balances = [u \in Users |-> IF u = creator THEN mintValue ELSE 0]
    /\ _totalSupply = mintValue
    /\ _allowed = [o \in Users |-> [s \in Users |-> 0]]

Next ==
  \E caller, a, b \in Users, v \in Values :
    \/ Transfer(caller, a, v)
    \/ Approve(caller, a, v)
    \/ TransferFrom(caller, a, b, v)

Spec == Init /\ [][Next]_vars

-----------------------------------------------------------------------------
(* totalSupply() is the sum of every balanceOf(), after any sequence of  *)
(* transfers and transferFroms, including ones that overdraw.            *)
BalancesSumToTotalSupply ==
  SumFunction(_balances) = _totalSupply

(* A step in which an account's balance falls only by a transfer it      *)
(* makes itself, or by exactly the amount taken off an allowance it      *)
(* granted.                                                              *)
SpentWithinAllowance ==
  \A o \in Users :
    _balances'[o] < _balances[o] =>
      \/ \E to \in Users, v \in Values : Transfer(o, to, v)
      \/ \E s \in Users :
           _allowed[o][s] - _allowed'[o][s] = _balances[o] - _balances'[o]

(* An account's balance falls only by a transfer it makes itself, or by  *)
(* exactly the amount taken off an allowance it granted.                 *)
SpendingWithinAllowance == [][SpentWithinAllowance]_vars
=============================================================================
