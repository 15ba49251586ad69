SPECIFICATION FairSpec
CONSTANTS
  Keys = {"a"}
  NumWorkers = 1
  WorkerOf <- ByName
  PagesPerWorker = 2
  PageCap = 1
  FileCap = 2
  TOCBlockCap = 1
  Requests <- TwoPuts
  Flushers = {"user"}
  Readers = {}
  CanShutdown = FALSE
  MaxWrites = 2
  MaxFlushes = 1
  MaxSwitches = 0
INVARIANT FlushWritesToDisk
