SPECIFICATION FairSpec
CONSTANTS
  Nodes = {"a", "b"}
  MaxKey = 3
  Keys = {1}
  Rings <- GiveUp
  FirstRing = 1
  ClientWrites <- OneDelete
  ClientNodes = {"a"}
  IgnoreRecent = 0
  TombstoneAge = 2
  MaxNow = 3
  MsgCap = 2
  AckCap = 1
  BloomN = 1
  BatchSize = 1
  OutMsgs = 1
  MaxFaults = 0
PROPERTY DeletionsReplicated
CHECK_DEADLOCK FALSE
