SPECIFICATION FairSpec
CONSTANTS
  Keys = {1, 2, 3, 4, 5, 6, 7, 8}
  NumWorkers = 2
  WorkerOf <- FirstWorker
  PagesPerWorker = 3
  PageCap = 1
  FileCap = 2
  TOCBlockCap = 1
  Requests <- OnePut
  Flushers = {}
  Readers = {}
  CanShutdown = FALSE
  MaxWrites = 8
  MaxFlushes = 0
  MaxSwitches = 0
CONSTRAINT InOrder
INVARIANT NoLateTOCBlock
