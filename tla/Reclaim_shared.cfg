SPECIFICATION Spec
CONSTANTS
  d1 = d1
  d2 = d2
  p1 = p1
  p2 = p2
  r1 = r1
  r2 = r2
  Device = {d1, d2}
  Proc = {p1, p2}
  DeviceOf <- TwoDevices
  Record = {r1, r2}
  Home <- OneOnEach
  Slab = {s1, s2, s3}
  NoSlab = NoSlab
  Commands <- SideBySide
  Overlap = TRUE
  MaxFaults = 2
SYMMETRY SlabSymmetry
INVARIANTS TypeOK WriterKeepsReading ObjectsDieFirst PaidIsKnown
CHECK_DEADLOCK FALSE
