SPECIFICATION FairSpec
CONSTANTS
  Files <- TwoFiles
  Auditors = {"a1", "a2"}
  CanFail = TRUE
  MaxCalls = 2
  MaxStarts = 2
INVARIANTS TypeOK AuditPassIsComplete NothingAfterShutdown
PROPERTIES EveryAuditPassReturns EveryShutdownReturns
CHECK_DEADLOCK FALSE
