SPECIFICATION Spec
CONSTANTS
  Limit = 2
  Platform = 4
  MaxWork = 5
INVARIANT OverrunIsReported
CHECK_DEADLOCK FALSE
