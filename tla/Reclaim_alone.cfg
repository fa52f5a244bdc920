SPECIFICATION FairSpec
CONSTANTS
  d1 = d1
  d2 = d2
  p1 = p1
  p2 = p2
  r1 = r1
  r2 = r2
  Device = {d1}
  Proc = {p1}
  DeviceOf <- Alone
  Record = {r1, r2}
  Home <- AllOnOne
  Slab = {s1, s2, s3}
  NoSlab = NoSlab
  Commands <- Everything
  Overlap = FALSE
  MaxFaults = 1
INVARIANT LiveIsReadable
PROPERTY QuotaReturns
CHECK_DEADLOCK FALSE
