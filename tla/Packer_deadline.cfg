SPECIFICATION PFairSpec
CONSTANTS
  p1 = p1
  p2 = p2
  f1 = f1
  f2 = f2
  f3 = f3
  Proc = {p1}
  Flusher = {f1, f2}
  ProcOf <- OneProcess
  Timer = {f1}
  Adder = {f2}
  Record = {r1, r2}
  Slab = {s1, s2, s3, s4}
  NoSlab = NoSlab
  MaxFaults = 1
  MaxRecords = 0
  MaxLate = 0
PROPERTY DeadlineIsKept
CHECK_DEADLOCK FALSE
