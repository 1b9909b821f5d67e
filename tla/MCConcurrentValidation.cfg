CONSTANTS
  t1 = t1
  t2 = t2
  c1 = c1
  e1 = e1
  e2 = e2
  Manager = Manager
  RdPoS = RdPoS
  NONE = NONE
  Threads <- MCThreads
  Contracts <- MCContracts
  EOAs <- MCEOAs
  Width <- MCWidth
  InitBalances <- MCInitBalances
  Values <- MCValues
SPECIFICATION Spec
INVARIANT ValidationIsolated
