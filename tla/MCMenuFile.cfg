SPECIFICATION Spec
CONSTANTS
  Id = {root, other}
  RootId = root
  Chunk = 1
  LabelFirst = TRUE
  MaxElements = 5
INVARIANTS
  NestingKept
  DeathsExplained
  Delivered
  OwnProperties
CHECK_DEADLOCK FALSE
