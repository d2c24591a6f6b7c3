SPECIFICATION Spec
CONSTANTS
  NMenus = 5
  Entries <- InlineMenus
  Root = 1
  Positions <- OverlappingPositions
  Codepoint = {97}
  BufSize = 2
INVARIANTS
  TypeOK
  OneOpenPerMenu
  FaultsExplained
  MotionAgrees
CHECK_DEADLOCK FALSE
