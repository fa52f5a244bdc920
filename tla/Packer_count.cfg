SPECIFICATION PSpec
CONSTANTS
  p1 = p1
  p2 = p2
  f1 = f1
  f2 = f2
  f3 = f3
  Proc = {p1, p2}
  Flusher = {f1, f2, f3}
  ProcOf <- TimerAndTwo
  Timer = {f1}
  Adder = {f2, f3}
  Record = {r1, r2}
  Slab = {s1, s2, s3}
  NoSlab = NoSlab
  MaxFaults = 1
  MaxRecords = 2
  MaxLate = 0
SYMMETRY Symmetry
INVARIANT OwnWritesAreCounted
CHECK_DEADLOCK FALSE
