---------------------------- MODULE MCERC20Store ----------------------------
EXTENDS ERC20Store, TLC

CONSTANTS u1, u2

MCUsers == {u1, u2}
MCWidth == 2
MCMintValues == {2}
MCValues == {1}

(* The passing run: uint256_t as one bit, so that wrapped balances and    *)
(* allowances stay few while an overdraft still wraps.                    *)
MCNarrowWidth == 1
MCNarrowMintValues == {1}

(* Addresses are interchangeable: the creator is chosen by Deploy. *)
MCSymmetry == Permutations(MCUsers)
=============================================================================
