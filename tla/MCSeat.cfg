SPECIFICATION FairSpec
CONSTANTS
  Address = {a1, a2, a3}
  NULL = NULL
  MaxBatch = 2
  Rates = {0, 25, 2000}
INVARIANTS
  TypeOK
  PointersValid
  NoStrayTimer
PROPERTIES
  NoRepeatAfterRelease
  HoverGoesOff
  RemovedAreFreed
  ImplementsAlarms
