SPECIFICATION Spec
CONSTANTS
  p1 = p1
  p2 = p2
  f1 = f1
  f2 = f2
  Proc = {p1, p2}
  Flusher = {f1, f2}
  ProcOf <- OneEach
  Record = {r1, r2}
  Slab = {s1, s2, s3}
  NoSlab = NoSlab
  MaxFaults = 2
SYMMETRY Symmetry
INVARIANTS TypeOK NoLoss ReportedIsTrue FreshClaimRespected StrandingIsRare PaidOnce SettledIsLedgered
PROPERTY KeepsPromise
CHECK_DEADLOCK FALSE
