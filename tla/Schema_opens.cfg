SPECIFICATION Spec
CONSTANTS
  p1 = p1
  p2 = p2
  p3 = p3
  Proc = {p1, p2, p3}
  NoProc = NoProc
  Latest <- OneOfEach
  MaxVersion = 3
  Table = {meta, ledger}
INVARIANTS VersionTells OpenedIsCurrent
CHECK_DEADLOCK FALSE
