SPECIFICATION Spec
CHECK_DEADLOCK FALSE
CONSTANTS
  LastYear = 2301
  Shifts <- Hours
INVARIANT InternalDate
