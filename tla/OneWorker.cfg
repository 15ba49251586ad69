SPECIFICATION Spec
CONSTANTS
  Keys = {"a", "b"}
  NumWorkers = 1
  WorkerOf <- ByName
  PagesPerWorker = 3
  PageCap = 2
  FileCap = 2
  TOCBlockCap = 1
  Requests <- Removing
  Flushers = {"user"}
  Readers = {}
  CanShutdown = TRUE
  MaxWrites = 3
  MaxFlushes = 2
  MaxSwitches = 0
INVARIANTS OneByOne NoLateTOCBlock
