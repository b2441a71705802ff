SPECIFICATION BlockingFairSpec
CONSTANTS
  Jobs = {j1, j2, j3}
  JoinTasks = {k1}
  MaxInFlight = 2
  PoolThreads = 2
INVARIANTS
  InFlightBounded
  PermitAccounting
PROPERTIES
  HandlersAnswered
  PermitsComeBack
CHECK_DEADLOCK FALSE
