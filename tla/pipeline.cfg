CONSTANTS
  a = a
  b = b
  c = c
  NumWorkers = 2
  RingCapacity = 2
  BatchMax = 2
  QueueMax = 2
  PipeMax = 1
  Packets <- Datagrams
  HashOf <- MCHash
  MaxSubmits = 4
  MaxStarts = 2
SPECIFICATION FairSpec
INVARIANTS NothingUncounted SamePairSameWorker
PROPERTIES WorkersFinish
CHECK_DEADLOCK FALSE
