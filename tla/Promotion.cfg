CONSTANTS
  Sayings <- MCSayings
  Forms = {plain, shouted}
  Words <- MCWords
  Length <- MCLength
  Explicit = {"a", "b", "ab"}
  Transient = {"b"}
  Pools = {user, workspace}
  MinScores = {50, 80}
  MaxRows = 3
SYMMETRY Symmetry
SPECIFICATION Spec
CHECK_DEADLOCK FALSE
INVARIANTS NoRepeats Remembered NewestReplaced
PROPERTY LifecycleKept
