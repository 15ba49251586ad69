SPECIFICATION Spec
CONSTANTS
  Nodes = {"a", "b"}
  MaxKey = 3
  Keys = {1, 2}
  Rings <- Moved
  FirstRing = 1
  ClientWrites <- PutsAndDelete
  ClientNodes = {"a"}
  IgnoreRecent = 0
  TombstoneAge = 1
  MaxNow = 3
  MsgCap = 2
  AckCap = 1
  BloomN = 1
  BatchSize = 1
  OutMsgs = 1
  MaxFaults = 1
INVARIANTS TypeOK NothingLost
CHECK_DEADLOCK FALSE
