SPECIFICATION Spec
CONSTANTS
  c1 = c1
  c2 = c2
  e1 = e1
  None = None
  ChatModels <- MCChatModels
  EmbeddingModels <- MCEmbeddingModels
  MaxJobs = 2
ACTION_CONSTRAINT Bound
INVARIANTS
  FlagsTruthful
  OneRehydrate
PROPERTIES
  RehydrateEnds
  LoadingEnds
