CONSTANTS
  MaxSessions = 2
  MaxTurns = 1
  MaxNotes = 1
  MaxRewinds = 0
  Faults = TRUE
SPECIFICATION Spec
CHECK_DEADLOCK FALSE
INVARIANT SwitchTakesEffect
