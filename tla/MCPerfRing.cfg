SPECIFICATION FairRingSpec
CONSTANTS
  DataSize = 11
  MaxEvents = 2
  Regs = 1
  Chains = {0, 1}
  MaxEmits = 4
INVARIANTS
  UnreadIntact
  SamplesExact
PROPERTY EveryRecordRead
CHECK_DEADLOCK FALSE
