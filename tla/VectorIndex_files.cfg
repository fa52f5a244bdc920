SPECIFICATION Spec
CONSTANTS
  Record = {r1, r2}
  Model = {m1, m2}
  None = None
  Silent = Silent
  Caller = {c1, c2}
  MaxFaults = 1
SYMMETRY Symmetry
INVARIANTS
  TypeOK
  VectorsSurvive
  SearchMatchesFiles
