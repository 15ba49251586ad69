SPECIFICATION FairSpec
CONSTANTS
  NumWorkers = 2
  Users = {"u1", "u2"}
  Readings <- MemoryOnly
  MaxCalls = 3
  MaxStarts = 2
INVARIANTS TypeOK WritersAgree UserChoiceStands
PROPERTY WritesComeBack
