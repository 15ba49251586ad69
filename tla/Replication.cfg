SPECIFICATION FairSpec
CONSTANTS
  Nodes = {"a", "b"}
  MaxKey = 3
  Keys = {1}
  Rings <- GiveUp
  FirstRing = 1
  ClientWrites <- OnePut
  ClientNodes = {"a"}
  IgnoreRecent = 0
  TombstoneAge = 2
  MaxNow = 3
  MsgCap = 2
  AckCap = 1
  BloomN = 1
  BatchSize = 1
  OutMsgs = 1
  MaxFaults = 1
PROPERTIES Replicated HandedOff
CHECK_DEADLOCK FALSE
