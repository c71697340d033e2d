CONSTANTS
  g1 = g1
  g2 = g2
  c1 = c1
  f1 = f1
  f2 = f2
  f3 = f3
  MaxRows = 2
  MaxEntries = 1
  Gateway = {g1, g2}
  Consolidators = {g1}
  Cli = {c1}
  Facts = {f1, f2}
  NoFact = NoFact
  TTLs = {"never", "later"}
  Backend = "lancedb"
  Limit = 1
SYMMETRY FactSymmetry
SPECIFICATION Spec
INVARIANTS TypeOK Searchable NoPhantoms EmbedderStateHonest
