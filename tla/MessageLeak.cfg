SPECIFICATION FairSpec
CONSTANTS
  PartSets <- PullOnly
  InWorkers = 1
  InMsgs = 1
  OutMsgs = 1
  Partitions = 1
  BusySets <- None
  MaxUnsent = 1
  MaxArrivals = 3
  MaxPasses = 2
  MaxStarts = 2
INVARIANT OutMsgsAreFreed
CHECK_DEADLOCK FALSE
