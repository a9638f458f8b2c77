SPECIFICATION MCSpec
CONSTANTS
  None = None
  n1 = n1
  n2 = n2
  k1 = k1
  k2 = k2
  m1 = m1
  m2 = m2
  NoteSources = {n1, n2}
  ChunkSources = {k1, k2}
  Messages = {m1, m2}
  Signals <- MCSignals
  MaxLaunches = 2
ACTION_CONSTRAINT Bound
INVARIANTS
  SelectionLimits
  TopOrItsTextIsCited
  NothingBetterLeftOut
  ConfidenceIsEarned
  BoostIsSumOfFeedback
CHECK_DEADLOCK FALSE
