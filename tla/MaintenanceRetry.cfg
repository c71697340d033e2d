CONSTANTS
  w1 = w1
  w2 = w2
  f1 = f1
  Principals = {1, 2}
  Runs = {w1}
  Facts = {f1}
  Limit = 2
  Forces = {FALSE}
  MaxRows = 4
SYMMETRY Symmetry
SPECIFICATION Spec
INVARIANT SafeRetry
