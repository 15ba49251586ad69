SPECIFICATION Spec
CONSTANTS
  Keys = {"a", "b"}
  NumWorkers = 2
  WorkerOf <- ByName
  PagesPerWorker = 2
  PageCap = 2
  FileCap = 2
  TOCBlockCap = 1
  Requests <- Deleting
  Flushers = {"user"}
  Readers = {}
  CanShutdown = TRUE
  MaxWrites = 3
  MaxFlushes = 2
  MaxSwitches = 0
INVARIANTS FlushWritesToDiskOrNewer ShutdownWritesToDisk
