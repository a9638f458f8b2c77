SPECIFICATION Spec
CONSTANTS
  m = m
  None = None
  Items = {m}
  TwoFile = {m}
  Hashed <- HashedFiles
  MaxStarts = 2
  MaxKills = 1
  MaxQueue = 1
INVARIANTS
  BadFilesAreRemoved
  CompletedIsThere
PROPERTIES
  SpinnerEnds
CHECK_DEADLOCK FALSE
