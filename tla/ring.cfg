CONSTANTS
  Capacity = 3
  Base = 2
  BatchSizes = {1, 2, 3}
  MaxWrites = 9
  MaxDrops = 2
SPECIFICATION FairSpec
INVARIANTS IInv ReadsAreExact
PROPERTIES ImplementsFifo EveryPacketDelivered
