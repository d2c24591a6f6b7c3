SPECIFICATION Spec
CONSTANTS
  Menus = {1, 2, 3, 4, 5}
  Root = 1
  NoMenu = NoMenu
  Entries <- MCEntries
  Screens <- MCScreens
  Pointers <- MCPointers
INVARIANTS
  FitsAcross
  FitsDown
  HitTestsAgree
  BesideOpener
