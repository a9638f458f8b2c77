SPECIFICATION Spec
CONSTANTS
  s1 = s1
  s2 = s2
  None = None
  ChatSessions = {s1,s2}
  MaxRuns = 2
  MaxTokens = 1
  MaxStops = 1
PROPERTY StopStopsEngine
CHECK_DEADLOCK FALSE
