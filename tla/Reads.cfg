SPECIFICATION Spec
CONSTANTS
  Keys = {"a", "b"}
  NumWorkers = 1
  WorkerOf <- ByName
  PagesPerWorker = 2
  PageCap = 1
  FileCap = 3
  TOCBlockCap = 1
  Requests <- Removing
  Flushers = {"user"}
  Readers = {"reader"}
  CanShutdown = FALSE
  MaxWrites = 3
  MaxFlushes = 1
  MaxSwitches = 1
INVARIANT ReadReturnsItsValue
