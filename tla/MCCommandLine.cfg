SPECIFICATION FairSpec
CONSTANTS
  Watches = {w1}
  Tids = {t1, t2}
  MaxErrors = 2
INVARIANTS
  NothingLeftArmed
PROPERTY TimeoutExits
CHECK_DEADLOCK FALSE
