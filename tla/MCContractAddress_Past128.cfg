CONSTANTS
  u1 = u1
  Callers <- MCCallers
  MaxContracts <- MCMaxContractsPast128
SPECIFICATION Spec
\* Creation stops at the MaxContracts bound.
CHECK_DEADLOCK FALSE
INVARIANT EveryContractHasItsOwnAddress
