-------------------------- MODULE MCContractManager --------------------------
EXTENDS ContractManager, TLC

CONSTANTS c1, c2, e1

MCContracts == {c1, c2}
MCEOAs == {e1}
MCWidth == 2
MCInitBalances == {0, 1}
MCAmounts == {1}

(* The two registered contracts are interchangeable. *)
MCSymmetry == Permutations(MCContracts)
=============================================================================
