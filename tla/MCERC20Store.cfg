CONSTANTS
  u1 = u1
  u2 = u2
  NONE = NONE
  Users <- MCUsers
  Width <- MCNarrowWidth
  MintValues <- MCNarrowMintValues
  Values <- MCValues
  Checked = FALSE
  CrashDuringShutdown = FALSE
  WriteOutcomes = {TRUE}
SYMMETRY MCSymmetry
SPECIFICATION Spec
PROPERTY ImplementsDurableToken
