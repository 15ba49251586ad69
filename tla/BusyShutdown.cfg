SPECIFICATION FairSpec
CONSTANTS
  PartSets <- PushOnly
  InWorkers = 1
  InMsgs = 1
  OutMsgs = 1
  Partitions = 1
  BusySets <- PushOnly
  MaxUnsent = 0
  MaxArrivals = 0
  MaxPasses = 2
  MaxStarts = 2
PROPERTY ShutdownFinishes
CHECK_DEADLOCK FALSE
