---------------------------- MODULE MCNestedCalls ----------------------------
EXTENDS NestedCalls, TLC

CONSTANTS c1, c2, e1

MCContracts == {c1, c2}
MCEOAs == {e1}
MCWidth == 2
MCInitBalances == {0, 1}
MCAmounts == {1}
(* Deep enough for c1 -> c2 -> c1. *)
MCMaxDepth == 3

(* No account holds tokens: every sendTokens throws before it moves any. *)
MCNoBalances == {0}

(* The two registered contracts are interchangeable. *)
MCSymmetry == Permutations(MCContracts)
=============================================================================
