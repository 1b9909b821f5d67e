-------------------------- MODULE MCContractAddress --------------------------
EXTENDS ContractAddress

CONSTANTS u1

MCCallers == {u1}

(* Up to the 128th creation the count fits the one-byte form. *)
MCMaxContracts == 128

(* Past it: the 129th and 130th creations are at counts 128 and 129. *)
MCMaxContractsPast128 == 130
=============================================================================
