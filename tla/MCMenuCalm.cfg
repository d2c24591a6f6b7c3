SPECIFICATION FairSpec
CONSTANTS
  NMenus = 4
  Entries <- ReferencedMenus
  Root = 4
  Positions <- SimplePositions
  Codepoint = {97}
  BufSize = 2
INVARIANTS
  SelectionShown
  OpenChain
PROPERTIES
  LaunchShown
  ImplementsPath
  SubmenuOpens
CHECK_DEADLOCK FALSE
