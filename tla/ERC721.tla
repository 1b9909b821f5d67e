-------------------------------- MODULE ERC721 --------------------------------
(***************************************************************************)
(* The ERC721 native contract template (src/src/contract/templates/       *)
(* erc721.cpp).  Its four mutable SafeVars are the variables.  A call runs *)
(* against them and either ends normally, and its writes are committed,   *)
(* or throws a DynamicException, and every write it made is reverted (the *)
(* SafeVar discipline checked in SafeUint224).  So each operation is one  *)
(* action whose effect is the code's writes when no exception is raised   *)
(* and no change when one is, wherever in the body it is raised:          *)
(* transferFrom, transfer_ and burn_ throw AFTER update_ has written.     *)
(*                                                                         *)
(* name_ and symbol_ are set by the constructors only and are left out.    *)
(* Users are the non-zero addresses, Zero is Address().                    *)
(***************************************************************************)
EXTENDS Naturals, FiniteSets

CONSTANTS
  Users,     \* non-zero addresses; callers are always non-zero
  Zero,      \* Address()
  TokenIds   \* token ids (uint256)

ASSUME Zero \notin Users

Addr == Users \cup {Zero}

VARIABLES
  owners_,                    \* tokenId -> owner, Zero when not minted
  balances_,                  \* owner -> number of tokens
  tokenApprovals_,            \* tokenId -> approved spender, or Zero
  operatorAddressApprovals_,  \* owner -> operator -> approved for all
  approvedBy                  \* history: the owner who approved tokenApprovals_[id]

contractVars == <<owners_, balances_, tokenApprovals_, operatorAddressApprovals_>>
vars == <<contractVars, approvedBy>>

(* isApprovedForAll: a missing entry is false *)
isApprovedForAll(owner, operatorAddress) ==
  owner \in Users /\ operatorAddressApprovals_[owner][operatorAddress]

(* isAuthorized_ *)
isAuthorized_(owner, spender, tokenId) ==
  \/ spender = owner
  \/ /\ spender # Zero
     /\ \/ isApprovedForAll(owner, spender)
        \/ tokenApprovals_[tokenId] = spender

(* Plausible-bug variants of update_: the balance moves swapped; the old  *)
(* owner debited only on a transfer, not on a burn; the token approval    *)
(* left in place.                                                         *)
update_Swapped(to, tokenId) ==
  LET from == owners_[tokenId] IN
  /\ tokenApprovals_' = IF from # Zero
                          THEN [tokenApprovals_ EXCEPT ![tokenId] = Zero]
                          ELSE tokenApprovals_
  /\ balances_' = [u \in Users |-> balances_[u] + (IF u = from THEN 1 ELSE 0)
                                                - (IF u = to THEN 1 ELSE 0)]
  /\ owners_' = [owners_ EXCEPT ![tokenId] = to]

update_DebitOnTransfer(to, tokenId) ==
  LET from == owners_[tokenId] IN
  /\ tokenApprovals_' = IF from # Zero
                          THEN [tokenApprovals_ EXCEPT ![tokenId] = Zero]
                          ELSE tokenApprovals_
  /\ balances_' = [u \in Users |-> balances_[u] - (IF u = from /\ to # Zero THEN 1 ELSE 0)
                                                + (IF u = to THEN 1 ELSE 0)]
  /\ owners_' = [owners_ EXCEPT ![tokenId] = to]

update_KeepsApproval(to, tokenId) ==
  LET from == owners_[tokenId] IN
  /\ UNCHANGED tokenApprovals_
  /\ balances_' = [u \in Users |-> balances_[u] - (IF u = from THEN 1 ELSE 0)
                                                + (IF u = to THEN 1 ELSE 0)]
  /\ owners_' = [owners_ EXCEPT ![tokenId] = to]

(* update_(to, tokenId, auth), without the authorization check, which the *)
(* callers state as part of their exception condition.                    *)
update_(to, tokenId) ==
  LET from == owners_[tokenId] IN
  /\ tokenApprovals_' = IF from # Zero
                          THEN [tokenApprovals_ EXCEPT ![tokenId] = Zero]
                          ELSE tokenApprovals_
  /\ balances_' = [u \in Users |-> balances_[u] - (IF u = from THEN 1 ELSE 0)
                                                + (IF u = to THEN 1 ELSE 0)]
  /\ owners_' = [owners_ EXCEPT ![tokenId] = to]

(* A call whose body is `writes`: committed unless `throws`. *)
Call(throws, writes) ==
  IF throws THEN UNCHANGED vars ELSE writes

(* transferFrom(from, to, tokenId): update_ with auth = caller; throws on *)
(* a zero `to` first, then (in update_) when the caller is not authorized *)
(* for the current owner, then when the token did not exist or its owner *)
(* was not `from`.                                                        *)
TransferFrom(caller, from, to, tokenId) ==
  LET prevOwner == owners_[tokenId] IN
  Call(\/ to = Zero
       \/ ~isAuthorized_(prevOwner, caller, tokenId)
       \/ prevOwner = Zero
       \/ prevOwner # from,
       update_(to, tokenId) /\ UNCHANGED <<operatorAddressApprovals_, approvedBy>>)

(* approve(to, tokenId) = approve_(to, tokenId, caller): ownerOf throws   *)
(* for a token not minted; the caller must be the owner or its operator.  *)
Approve(caller, to, tokenId) ==
  LET owner == owners_[tokenId] IN
  Call(\/ owner = Zero
       \/ owner # caller /\ ~isApprovedForAll(owner, caller),
       /\ tokenApprovals_' = [tokenApprovals_ EXCEPT ![tokenId] = to]
       /\ approvedBy' = [approvedBy EXCEPT ![tokenId] = owner]
       /\ UNCHANGED <<owners_, balances_, operatorAddressApprovals_>>)

(* setApprovalForAll(operator, approved) = setApprovalForAll_(caller, ...) *)
SetApprovalForAll(caller, operatorAddress, approved) ==
  Call(operatorAddress = Zero,
       /\ operatorAddressApprovals_' =
            [operatorAddressApprovals_ EXCEPT ![caller][operatorAddress] = approved]
       /\ UNCHANGED <<owners_, balances_, tokenApprovals_, approvedBy>>)

(* mint_(to, tokenId), called by derived contracts: the previous owner    *)
(* update_ returns is not looked at.                                      *)
Mint(to, tokenId) ==
  Call(to = Zero,
       update_(to, tokenId) /\ UNCHANGED <<operatorAddressApprovals_, approvedBy>>)

(* burn_(tokenId): throws after update_ when the token did not exist. *)
Burn(tokenId) ==
  Call(owners_[tokenId] = Zero,
       update_(Zero, tokenId) /\ UNCHANGED <<operatorAddressApprovals_, approvedBy>>)

(* transfer_(from, to, tokenId): no authorization check. *)
Transfer(from, to, tokenId) ==
  Call(\/ to = Zero
       \/ owners_[tokenId] = Zero
       \/ owners_[tokenId] # from,
       update_(to, tokenId) /\ UNCHANGED <<operatorAddressApprovals_, approvedBy>>)

(* The constructors: every SafeVar empty, then commit(). *)
Init ==
  /\ owners_ = [t \in TokenIds |-> Zero]
  /\ balances_ = [u \in Users |-> 0]
  /\ tokenApprovals_ = [t \in TokenIds |-> Zero]
  /\ operatorAddressApprovals_ = [u \in Users |-> [o \in Users |-> FALSE]]
  /\ approvedBy = [t \in TokenIds |-> Zero]

Next ==
  \/ \E caller \in Users, from, to \in Addr, t \in TokenIds :
       TransferFrom(caller, from, to, t)
  \/ \E caller \in Users, to \in Addr, t \in TokenIds : Approve(caller, to, t)
  \/ \E caller \in Users, o \in Addr, b \in BOOLEAN :
       SetApprovalForAll(caller, o, b)
  \/ \E to \in Addr, t \in TokenIds : Mint(to, t)
  \/ \E t \in TokenIds : Burn(t)
  \/ \E from, to \in Addr, t \in TokenIds : Transfer(from, to, t)

Spec == Init /\ [][Next]_vars

(* The same contract driven only by mint_, burn_ and the approvals: no    *)
(* step of it moves a token between two owners except through mint_.      *)
MintBurnNext ==
  \/ \E caller \in Users, to \in Addr, t \in TokenIds : Approve(caller, to, t)
  \/ \E caller \in Users, o \in Addr, b \in BOOLEAN :
       SetApprovalForAll(caller, o, b)
  \/ \E to \in Addr, t \in TokenIds : Mint(to, t)
  \/ \E t \in TokenIds : Burn(t)

MintBurnSpec == Init /\ [][MintBurnNext]_vars

-----------------------------------------------------------------------------
TypeOK ==
  /\ owners_ \in [TokenIds -> Addr]
  /\ balances_ \in [Users -> 0..Cardinality(TokenIds)]
  /\ tokenApprovals_ \in [TokenIds -> Addr]
  /\ operatorAddressApprovals_ \in [Users -> [Users -> BOOLEAN]]
  /\ approvedBy \in [TokenIds -> Addr]

(* balanceOf(u) is the number of tokens ownerOf reports for u, after any  *)
(* sequence of mints, transfers and burns, including those that threw     *)
(* after update_ had already moved balances.                              *)
BalancesMatchOwners ==
  \A u \in Users : balances_[u] = Cardinality({t \in TokenIds : owners_[t] = u})

(* A token approval never outlives the ownership it was granted under:   *)
(* if getApproved(t) names a spender, the current owner of t granted it. *)
(* Broken if a transfer, burn or re-mint left an old approval in place.  *)
NoStaleApproval ==
  \A t \in TokenIds :
    tokenApprovals_[t] # Zero => approvedBy[t] = owners_[t]

(* Like OpenZeppelin's _mint, which reverts with ERC721InvalidSender, a  *)
(* mint of a token that already has an owner takes nothing from anyone:  *)
(* mint_ ignores the previous owner update_ returns, while burn_,        *)
(* transfer_ and transferFrom all test theirs.                           *)
MintOfExistingTokenFails ==
  [][\A t \in TokenIds :
       owners_[t] # Zero => \A to \in Addr : Mint(to, t) => UNCHANGED owners_]_vars
=============================================================================
