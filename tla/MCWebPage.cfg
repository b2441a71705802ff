SPECIFICATION FairSpec
CONSTANTS
  Connects = {c1, c2}
  Refreshes = {r1}
  None = None
  BufferLimit = 2
  Limits = {1, 3}
  MaxHits = 2
INVARIANTS
  OneFeed
  ShownInOrder
PROPERTY StreamSettles
CHECK_DEADLOCK FALSE
