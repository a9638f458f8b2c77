SPECIFICATION KVSpec
VIEW View
CONSTANTS
  NSeqs = 2
  SizeBase = 4
  Window = 2
  NUbatch = 1
  MaxPos = 4
  MaxBatch = 2
  MaxEdits = 1
INVARIANT SwaWithinBase
PROPERTIES
  DecodeContract
  DecodeKeepsWindow
  RefusedOnlyWhenFull
CHECK_DEADLOCK FALSE
