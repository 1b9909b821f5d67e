----------------------------- MODULE ERC721Store -----------------------------
(***************************************************************************)
(* What the ERC721 template writes to the DB when it is destroyed          *)
(* (~ERC721) and how its loading constructor reads it back                 *)
(* (src/src/contract/templates/erc721.cpp).                                *)
(*                                                                         *)
(* A DB entry is <<<<prefix, key>>, value>>: the prefix is the name the    *)
(* contract appends to its DB prefix (getNewPrefix), and getBatch(prefix)  *)
(* returns the <<key, value>> of every entry under it.  A key or value     *)
(* made of two addresses is the sequence of the two; a bool is written as  *)
(* the byte uint8_t(b).  name_ and symbol_, put one by one, never change   *)
(* after construction and are left out.                                    *)
(***************************************************************************)
EXTENDS ERC721

(* DB::getBatch(prefix): the entries under prefix, prefix stripped. *)
GetBatch(db, prefix) == {<<e[1][2], e[2]>> : e \in {e \in db : e[1][1] = prefix}}

(* The batch ~ERC721 writes: one put per entry of owners_, balances_ and  *)
(* tokenApprovals_, and one per <<owner, operator>> of the nested         *)
(* operatorAddressApprovals_, the key being the two addresses appended.   *)
DumpERC721 ==
  {<<<<"owners_", t>>, owners_[t]>> : t \in TokenIds}
  \cup {<<<<"balances_", u>>, balances_[u]>> : u \in Users}
  \cup {<<<<"tokenApprovals_", t>>, tokenApprovals_[t]>> : t \in TokenIds}
  \cup {<<<<"operatorAddressApprovals_", <<o, p>>>>,
          <<IF operatorAddressApprovals_[o][p] THEN 1 ELSE 0>>>> : o, p \in Users}

(* Loop over getBatch(prefix) writing map[key] = value into a map whose  *)
(* missing entries read as dflt.                                         *)
LoadMap(entries, dom, dflt) ==
  [k \in dom |-> IF \E e \in entries : e[1] = k
                   THEN (CHOOSE e \in entries : e[1] = k)[2]
                   ELSE dflt]

(* Plausible-bug variant: the operator taken from the first 20 bytes of  *)
(* the key and the owner from the rest.                                  *)
LoadOperatorsSwapped(db) ==
  LET es == {<<e[1][2], e[1][1], e[2][1]>> : e \in GetBatch(db, "operatorAddressApprovals_")}
  IN [o \in Users |-> [p \in Users |-> \E e \in es : e[1] = o /\ e[2] = p /\ e[3] # 0]]

(* operatorAddressApprovals_[key.subspan(0, 20)][key.subspan(20)] =     *)
(* value[0].                                                             *)
LoadOperators(db) ==
  LET es == {<<e[1][1], e[1][2], e[2][1]>> : e \in GetBatch(db, "operatorAddressApprovals_")}
  IN [o \in Users |-> [p \in Users |-> \E e \in es : e[1] = o /\ e[2] = p /\ e[3] # 0]]

(* The loading constructor: each map from its getBatch, then commit().   *)
LoadERC721(db) ==
  <<LoadMap(GetBatch(db, "owners_"), TokenIds, Zero),
    LoadMap(GetBatch(db, "balances_"), Users, 0),
    LoadMap(GetBatch(db, "tokenApprovals_"), TokenIds, Zero),
    LoadOperators(db)>>

-----------------------------------------------------------------------------
(* A shutdown and restart in any reachable state gives back the contract *)
(* it saved: every owner, balance, token approval and operator approval  *)
(* reads the same through the loading constructor as before ~ERC721.     *)
RestartRestoresContract ==
  LoadERC721(DumpERC721) = contractVars
=============================================================================
