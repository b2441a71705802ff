SPECIFICATION FairSpec
CONSTANTS
  Sources = {b1, b2}
  Streams = {s1}
  QueueCapacity = 2
  BufferLimit = 2
  ChannelCapacity = 2
  Limits = {0, 1, 3}
  MaxSamples = 5
INVARIANTS
  NothingUncounted
  OrderKept
  BufferIsNewest
  StreamAccounting
PROPERTIES
  ImplementsFeed
  AcceptedGetsSent
CHECK_DEADLOCK FALSE
