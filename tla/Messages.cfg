SPECIFICATION FairSpec
CONSTANTS
  PartSets <- AllParts
  InWorkers = 2
  InMsgs = 2
  OutMsgs = 2
  Partitions = 1
  BusySets <- Alone
  MaxUnsent = 1
  MaxArrivals = 2
  MaxPasses = 2
  MaxStarts = 2
INVARIANTS TypeOK MsgsAreFreed NothingAfterShutdown
PROPERTIES ShutdownFinishes EveryPassReturns
CHECK_DEADLOCK FALSE
