SPECIFICATION Spec
CONSTANTS
  Keys = {1, 2}
  Workers = 1
  BatchSize = 1
  Batches = 2
  SmallTotal = 2
  MaxCheck = 1
  Threshold = 1
  Writes <- PutAndDelete
  MaxWrites = 3
  MaxFiles = 5
  MaxPasses = 1
  MaxStarts = 1
  MaxFaults = 0
CHECK_DEADLOCK FALSE
INVARIANT FlushedDeletionsStay
