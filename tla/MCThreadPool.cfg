SPECIFICATION Spec
CONSTANTS
  NThreads = 3
  NNodes = 4
  Kind <- MCKind
  Rows = 8
  MaxGraphs = 3
INVARIANTS
  Separated
  ChunksOnce
PROPERTY CallsReturn
CHECK_DEADLOCK FALSE
