CONSTANTS
  c1 = c1
  c2 = c2
  BlockSize = 2
  MaxPackets = 9
  MaxNames = 2
  Bucket = 4
  Null = Null
  Occurs = {}
  Scenes <- MCScenes
  Sample = 2
  MaxRecent = 4
  Filters <- MCFilters
  Limits = {1, 2, 100}
  Hunts <- MCHunts
SPECIFICATION Spec
INVARIANTS AnswersAreExact FilesReadBack IngestedOnce EveryClientHears HuntsAreBoolean
CHECK_DEADLOCK FALSE
