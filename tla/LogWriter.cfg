SPECIFICATION FairSpec
CHECK_DEADLOCK FALSE
CONSTANTS
  DestinationTypes <- AllDestinations
  MaxSize = 3
  BufferSize = 2
  Existing = {0, 2}
  PipeSize = 3
  MaxInput = 7
  MaxFaults = 2
INVARIANTS TypeOK SizeBounded Delivered NoGaps
PROPERTIES AlwaysDrained
