CONSTANTS
  MaxIncoming = 1
  QueueMax = 3
  MinBatch = 2
  MaxBatch = 3
  High = 1
  Critical = 3
  Base = 2
  Short = 1
  Shortest = 0
  MaxFallback = 2
  MaxCarried = 3
  MaxOffered = 5
  MaxStops = 1
SPECIFICATION FairIngestSpec
INVARIANTS RecordsAreAccounted NewestInOrder
PROPERTIES EveryRecordLeaves
