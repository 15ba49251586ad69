SPECIFICATION Spec
CONSTANTS
  Keys = {"a", "b"}
  NumWorkers = 2
  WorkerOf <- ByName
  PagesPerWorker = 2
  PageCap = 1
  FileCap = 2
  TOCBlockCap = 1
  Requests <- Replacing
  Flushers = {"user"}
  Readers = {}
  CanShutdown = FALSE
  MaxWrites = 3
  MaxFlushes = 1
  MaxSwitches = 0
INVARIANTS TypeOK LocationHoldsItsValue EveryBlockInOnePlace TOCMatchesFile
PROPERTY ImplementsAPI
