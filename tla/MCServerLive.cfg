SPECIFICATION FairSpec
CONSTANTS
  Jobs = {w1, j1}
  Watches = {w1}
  JoinTasks = {w1}
  Tids = {t1, t2}
  Clients = {c1}
  MaxInFlight = 2
  PoolThreads = 1
  MaxErrors = 2
INVARIANTS
  KernelStateOwned
  AtMostOneLateRound
PROPERTIES
  DeleteReleasesAll
  LiveGetsListed
  QueuedCallsStart
CHECK_DEADLOCK FALSE
