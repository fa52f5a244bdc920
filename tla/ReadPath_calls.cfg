SPECIFICATION Spec
CONSTANTS
  p1 = p1
  p2 = p2
  c1 = c1
  c2 = c2
  Record = {r1}
  Slab = {s1, s2, s3}
  NoSlab = NoSlab
  Proc = {p1, p2}
  Caller = {c1, c2}
  ProcOf <- TwoCallers
  MaxFaults = 1
  MaxJobs = 2
CONSTRAINT Budget
SYMMETRY Symmetry
INVARIANTS
  TypeOK
  RecallsAnswer
  OwedIsSearchable
  ForgottenIsGone
