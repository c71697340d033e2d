CONSTANTS
  MaxSessions = 2
  MaxTurns = 1
  MaxNotes = 2
  MaxRewinds = 1
  Faults = TRUE
SPECIFICATION FairSpec
CHECK_DEADLOCK FALSE
INVARIANTS TurnsFiled TurnsPromoted NothingAfterClose NotesFiled SwitchCompletes EvictedStaysOut
PROPERTIES BindingKept ShutdownCloses SwitchReturns
