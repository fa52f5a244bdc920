SPECIFICATION Spec
CONSTANTS
  p1 = p1
  c1 = c1
  c2 = c2
  Proc = {p1}
  Caller = {c1, c2}
  ProcOf <- OneProcess
  Record = {r1}
  MinLines = 1
  Ratio = 4
  MaxAppends = 2
  MaxCrashes = 0
  MaxTears = 0
SYMMETRY Symmetry
INVARIANT EntriesOutliveCompaction
CHECK_DEADLOCK FALSE
