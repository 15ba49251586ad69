SPECIFICATION FairSpec
CONSTANTS
  Nodes = {"a", "b"}
  MaxKey = 3
  Keys = {1}
  Rings <- GetBack
  FirstRing = 1
  ClientWrites <- OnePut
  ClientNodes = {"a"}
  IgnoreRecent = 0
  TombstoneAge = 2
  MaxNow = 3
  MsgCap = 2
  AckCap = 1
  BloomN = 1
  BatchSize = 1
  OutMsgs = 1
  MaxFaults = 0
INVARIANT NothingLost
CHECK_DEADLOCK FALSE
