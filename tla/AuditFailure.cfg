SPECIFICATION FairSpec
CONSTANTS
  Files <- OneFile
  Auditors = {}
  CanFail = TRUE
  MaxCalls = 0
  MaxStarts = 1
PROPERTY RestartIsRequested
CHECK_DEADLOCK FALSE
