SPECIFICATION Spec
CONSTANTS
  Jobs = {w1, w2}
  Watches = {w1, w2}
  JoinTasks = {w1, w2}
  Tids = {t1}
  Clients = {c1, c2}
  MaxInFlight = 2
  PoolThreads = 2
  MaxErrors = 1
SYMMETRY ServerSymmetry
INVARIANTS
  NoLostWatch
  DeleteIsFinal
  ListedUnlessGivenUp
  FailedCreateLeavesNothing
CHECK_DEADLOCK FALSE
