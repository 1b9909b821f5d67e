CONSTANTS
  a = a
  b = b
  NULL = NULL
  Vars <- MCVars
  Width <- MCWidth
SPECIFICATION Spec
INVARIANT TypeOK
PROPERTY ImplementsDocContract
