SPECIFICATION Spec
CONSTANTS
  Jobs = {j1, j2, j3}
  JoinTasks = {}
  MaxInFlight = 2
  PoolThreads = 2
  MaxAddr = 3
  MaxBytes = 3
  RowBytes = 2
  Ranges <- EdgeRanges
SYMMETRY RequestSymmetry
INVARIANTS
  TypeOK
  NoStaleByte
  OnlyOwnRange
  RowsTileRead
CHECK_DEADLOCK FALSE
