SPECIFICATION Spec
CONSTANTS
  p1 = p1
  c1 = c1
  c2 = c2
  Proc = {p1}
  Caller = {c1, c2}
  ProcOf <- OneProcess
  Record = {r1, r2}
  MinLines = 2
  Ratio = 4
  MaxAppends = 5
  MaxCrashes = 2
  MaxTears = 1
SYMMETRY Symmetry
INVARIANTS TypeOK AckedSurvives MemoryIsCurrent
PROPERTY CompactionIsInvisible
CHECK_DEADLOCK FALSE
