SPECIFICATION FairSpec
CONSTANTS
  NumWorkers = 2
  Users = {"u1"}
  Readings <- DiskOnly
  MaxCalls = 1
  MaxStarts = 2
PROPERTY StartupFinishes
