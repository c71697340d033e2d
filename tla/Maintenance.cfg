CONSTANTS
  w1 = w1
  w2 = w2
  f1 = f1
  Principals = {1}
  Runs = {w1, w2}
  Facts = {f1}
  Limit = 2
  Forces = {FALSE, TRUE}
  MaxRows = 4
SYMMETRY Symmetry
SPECIFICATION Spec
INVARIANTS ContentKept DayCovered OneSummary ArchivedOnce DailyHonest
PROPERTY CompletedStays
