SPECIFICATION Spec
CONSTANTS
  Id = {1, 2, 3}
  Kind = {"memory", "session"}
  KindOf <- MCKindOf
  Stamp = {1, 2}
  Absent = 0
  Limit = {1, 2}
  Turn = {"a", "b", "c", "d"}
  Start = "none"
  SizeOf <- MCSizeOf
  Target = 4
  PageSize = {1, 2}
  MaxTurns = 6
  RRFk = 60
  Unit = 100000000
  LexicalWeight = 3000000
  TagWeight = 200000
  TypeWeight = 67000
  Depth = 17
  Watched = {1, 16, 18}
  Profile <- MCProfile
  Sizes = {3, 16}
  Reach = 15
INVARIANTS TypeOK ListingIsExact TurnsComeBack FiltersOnlyPrefer
CHECK_DEADLOCK FALSE
