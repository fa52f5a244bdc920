SPECIFICATION Spec
CONSTANTS
  top = top
  sub = sub
  Session = {top, sub}
  NoSession = NoSession
  ParentOf <- Lineage
  Memory = {m}
  Caller = {c1, c2}
  MaxGroups = 1
  MaxChunks = 2
  MaxCalls = 4
  MaxFaults = 1
SYMMETRY Symmetry
CHECK_DEADLOCK FALSE
INVARIANTS
  TypeOK
  AcksAreKept
  HeadsAreWhole
  NothingDangles
  NetworkedIsTrue
PROPERTIES
  TranscriptsOnlyGrow
