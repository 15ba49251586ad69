SPECIFICATION FairSpec
CONSTANTS
  Keys = {"a"}
  NumWorkers = 1
  WorkerOf <- ByName
  PagesPerWorker = 2
  PageCap = 1
  FileCap = 2
  TOCBlockCap = 1
  Requests <- Rising
  Flushers = {"user"}
  Readers = {}
  CanShutdown = TRUE
  MaxWrites = 3
  MaxFlushes = 1
  MaxSwitches = 0
PROPERTIES EveryWriteAnswered EveryFlushReturns ShutdownFinishes
CHECK_DEADLOCK FALSE
