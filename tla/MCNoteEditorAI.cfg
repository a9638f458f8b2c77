SPECIFICATION EditorSpec
CONSTANTS
  NoRun = NoRun
  MaxRuns = 3
  MaxTokens = 1
  MaxTyped = 2
  MaxUndos = 2
INVARIANTS
  PauseHasATask
  OneWriter
  DraftOfThisRequest
PROPERTIES
  KeepsPromise
  GenerationEnds
CHECK_DEADLOCK FALSE
