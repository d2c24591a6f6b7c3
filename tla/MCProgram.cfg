SPECIFICATION FairSpec
CONSTANTS
  Lines <- MCLines
  Entries <- MCEntries
  Roots = {1, 5, 7}
  Theme <- MCTheme
  Systems <- MCSystems
  Positions = {1, 2}
  ConfSizes <- MCConfSizes
  MaxSeats = 2
  MaxOutputs = 1
INVARIANTS
  WordsRead
  FrameDelivered
  CrashesExplained
  SurfacesAccounted
  IconsShown
PROPERTIES
  ParsingEnds
CHECK_DEADLOCK FALSE
