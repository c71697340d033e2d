CONSTANTS
  g1 = g1
  g2 = g2
  c1 = c1
  f1 = f1
  f2 = f2
  f3 = f3
  MaxRows = 3
  MaxEntries = 1
  Gateway = {g1}
  Consolidators = {g1}
  Cli = {c1}
  Facts = {f1, f2, f3}
  NoFact = NoFact
  TTLs = {"never"}
  Backend = "stub"
  Limit = 0
SPECIFICATION FairSpec
INVARIANTS HistoryKept SingleReplacement
PROPERTIES LifecycleKept EventuallyIndexed
