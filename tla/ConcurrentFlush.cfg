SPECIFICATION FairSpec
CONSTANTS
  Keys = {"a", "b"}
  NumWorkers = 2
  WorkerOf <- ByName
  PagesPerWorker = 2
  PageCap = 1
  FileCap = 4
  TOCBlockCap = 1
  Requests <- OnePut
  Flushers = {"user", "flusher"}
  Readers = {}
  CanShutdown = FALSE
  MaxWrites = 1
  MaxFlushes = 2
  MaxSwitches = 0
INVARIANT FlushWritesToDiskOrNewer
