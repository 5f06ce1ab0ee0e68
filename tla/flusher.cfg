CONSTANTS
  QueueMax = 2
  BatchSize = 2
  MaxRecords = 4
  MaxArrivals = 3
SPECIFICATION FairSpec
INVARIANTS NothingVanishes StoredInOrder
PROPERTIES FlusherProgresses
CHECK_DEADLOCK FALSE
