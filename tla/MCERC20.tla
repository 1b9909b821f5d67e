------------------------------ MODULE MCERC20 ------------------------------
EXTENDS ERC20, TLC

CONSTANTS u1, u2, u3

MCUsers == {u1, u2, u3}
MCWidth == 2
MCMintValues == {1, 3}
MCValues == {1, 2}

(* Addresses are interchangeable: the creator is chosen in Init. *)
MCSymmetry == Permutations(MCUsers)
=============================================================================
