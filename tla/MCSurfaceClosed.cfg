SPECIFICATION Spec
CONSTANTS
  Sizes = {1, 2}
INVARIANTS
  NoUseAfterDestroy
CHECK_DEADLOCK FALSE
