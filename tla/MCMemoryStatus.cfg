SPECIFICATION Spec
CONSTANTS
  Jobs = {j1, j2}
  JoinTasks = {}
  MaxInFlight = 1
  PoolThreads = 1
  MaxAddr = 3
  MaxBytes = 3
  RowBytes = 1
  Ranges <- EdgeRanges
INVARIANT WorkerFailuresAre500
CHECK_DEADLOCK FALSE
