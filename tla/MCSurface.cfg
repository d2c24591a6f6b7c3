SPECIFICATION FairSpec
CONSTANTS
  Sizes = {1, 2}
INVARIANTS
  TypeOK
  ReadIsBusy
  OneCallback
  StaleIsPending
  ShownSize
  NeverSkips
PROPERTIES
  CatchesUp
CHECK_DEADLOCK FALSE
