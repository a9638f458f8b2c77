SPECIFICATION Spec
CONSTANTS
  n1 = n1
  k1 = k1
  k2 = k2
  e1 = e1
  e2 = e2
  None = None
  Notes = {n1}
  Chunks = {}
  EmbeddingModels = {e1, e2}
  MaxVersion = 2
  MaxEdits = 1
  MaxTasks = 1
  MaxLoads = 2
  Faults = FALSE
INVARIANT FreshMeansActiveModel
CHECK_DEADLOCK FALSE
