CONSTANTS
  t1 = t1
  t2 = t2
  cli = cli
  Workers = {t1, t2, cli}
  Process <- MCProcess
  Legacy = {l1}
  New = {r1, r2}
  MaxCrashes = 1
SYMMETRY Symmetry
SPECIFICATION Spec
INVARIANTS TypeOK Complete Whole
PROPERTY OperationsAtomic
