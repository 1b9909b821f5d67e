CONSTANTS
  c1 = c1
  c2 = c2
  e1 = e1
  Manager = Manager
  RdPoS = RdPoS
  NONE = NONE
  Contracts <- MCContracts
  EOAs <- MCEOAs
  Width <- MCWidth
  InitBalances <- MCInitBalances
  Amounts <- MCAmounts
  MaxDepth <- MCMaxDepth
SYMMETRY MCSymmetry
SPECIFICATION Spec
INVARIANT FrameIsolation
