---------------------------- MODULE MCSafeUint224 ----------------------------
(* Model-checking instance of SafeUint224: two fields of one contract,     *)
(* two bits of width (values 0..3), so every operator meets its zero,      *)
(* its maximum and its overflow boundary.                                  *)
EXTENDS SafeUint224

CONSTANTS a, b

MCVars == {a, b}
MCWidth == 2
=============================================================================
