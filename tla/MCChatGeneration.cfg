SPECIFICATION MCSpec
CONSTANTS
  s1 = s1
  s2 = s2
  None = None
  ChatSessions <- MCSessions
  MaxRuns = 2
  MaxTokens = 1
  MaxStops = 1
INVARIANTS
  RunInv
  AnswersSaved
PROPERTIES
  QuestionsLast
  StoppedTextFrozen
  GenerationEnds
CHECK_DEADLOCK FALSE
