CONSTANTS
  g1 = g1
  g2 = g2
  c1 = c1
  f1 = f1
  f2 = f2
  f3 = f3
  MaxRows = 2
  MaxEntries = 1
  Gateway = {g1}
  Consolidators = {g1}
  Cli = {}
  Facts = {f1, f2}
  NoFact = NoFact
  TTLs = {"never"}
  Backend = "stub"
  Limit = 1
SPECIFICATION Spec
INVARIANT ReplacementPreferred
