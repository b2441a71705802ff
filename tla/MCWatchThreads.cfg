SPECIFICATION WatchSpec
CONSTANTS
  Watches = {w1}
  Tids = {t1, t2}
  MaxErrors = 2
INVARIANT AllThreadsWatched
CHECK_DEADLOCK FALSE
