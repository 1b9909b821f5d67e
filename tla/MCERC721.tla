------------------------------- MODULE MCERC721 -------------------------------
(* Three holders and two tokens: enough for an owner, an operator or      *)
(* approved spender, and a third party, with one token left to mint or    *)
(* move while the other is held.  Holders are interchangeable.            *)
EXTENDS ERC721Store, TLC

CONSTANTS u1, u2, u3

MCUsers == {u1, u2, u3}
MCTokenIds == {1, 2}
MCSymmetry == Permutations(MCUsers)
=============================================================================
