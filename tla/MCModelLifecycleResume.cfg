SPECIFICATION Spec
CONSTANTS
  c1 = c1
  c2 = c2
  e1 = e1
  None = None
  ChatModels = {c1}
  EmbeddingModels = {e1}
  MaxJobs = 2
INVARIANT ResumeReloads
