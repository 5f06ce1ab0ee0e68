CONSTANTS
  w = w
  x = x
  y = y
  Hosts = {w, x, y}
  Slots = {1, 2, 3}
  Hashes <- MCHashes
  CounterMax = 2
  Seeds = {x}
  Listed <- MCListed
  Ranges <- MCRanges
  Feeds <- MCFeeds
  OtherAlerts <- MCOther
  Confidences = {0}
  Lateness = {3}
  MaxFlows = 2
  MaxOthers = 1
  MaxItems = 3
SPECIFICATION IntelSpec
INVARIANTS FilterIsExact CompromiseIsExplained SearchesAreShortest
CHECK_DEADLOCK FALSE
