SPECIFICATION Spec
CONSTANTS
  n1 = n1
  n2 = n2
  n3 = n3
  Name <- MCName
  Arg <- MCArg
  NInodes = 4
  NBlocks = 5
  PerSec = 2
  Direct = 2
  MaxDepth = 2
  MaxHandles = 1
SYMMETRY Perms
INVARIANTS
  TreeOK
  SearchRight
  CwdRoundTrip
  ReaddirComplete
PROPERTY
  ImplementsNamespace
CHECK_DEADLOCK FALSE
