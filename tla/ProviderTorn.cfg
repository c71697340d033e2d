CONSTANTS
  MaxSessions = 2
  MaxTurns = 0
  MaxNotes = 0
  MaxRewinds = 0
  Faults = FALSE
SPECIFICATION Spec
CHECK_DEADLOCK FALSE
INVARIANT PrefetchFollows
