CONSTANTS
  NumEpc = 6
  Keys = {0, 1, 2}
  MaxRun = 3
SPECIFICATION Spec
PROPERTY FailedAllocRestores
CHECK_DEADLOCK FALSE
