SPECIFICATION Spec
CONSTANTS
  n1 = n1
  k1 = k1
  k2 = k2
  e1 = e1
  e2 = e2
  None = None
  Notes = {n1}
  Chunks = {k1, k2}
  EmbeddingModels = {e1}
  MaxVersion = 2
  MaxEdits = 2
  MaxTasks = 2
  MaxLoads = 1
  Faults = TRUE
INVARIANTS
  IndexInv
  FreshMeansCurrentText
PROPERTIES
  IndexingEnds
  SendPrepared
  EditedBecomesFresh
CHECK_DEADLOCK FALSE
