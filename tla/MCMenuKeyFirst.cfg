SPECIFICATION Spec
CONSTANTS
  NMenus = 5
  Entries <- InlineMenus
  Root = 1
  Positions <- SimplePositions
  Codepoint = {97}
  BufSize = 3
INVARIANTS
  NoAssertFailure
CHECK_DEADLOCK FALSE
