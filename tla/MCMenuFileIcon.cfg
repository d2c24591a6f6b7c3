SPECIFICATION Spec
CONSTANTS
  Id = {root}
  RootId = root
  Chunk = 1
  LabelFirst = FALSE
  MaxElements = 4
INVARIANT
  OwnProperties
CHECK_DEADLOCK FALSE
