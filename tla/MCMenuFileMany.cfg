SPECIFICATION Spec
CONSTANTS
  Id = {root, other}
  RootId = root
  Chunk = 1
  LabelFirst = TRUE
  MaxElements = 4
INVARIANT
  SubmenusValid
CHECK_DEADLOCK FALSE
