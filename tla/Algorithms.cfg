SPECIFICATION Spec
CONSTANTS
  Bits = 5
  HeaderSize = 32
  TrailerSize = 8
  MaxValueCap = 1048576
  MaxUint32 = 16777215
  Mega = 1048576
  GOMAXPROCS = 4
  Hashes <- TwoRounds
  Hash <- SmallHash
  RangeInputs <- Ranges
  PullInputs <- Pulls
  TOCInputs <- TOCs
  ValueFileInputs <- ValueFiles
  BloomInputs <- Blooms
  ConfigInputs <- Configs
INVARIANTS
  KeyRangesCover
  IntactTOCReadsBack
  OneCorruptBlockIsSkipped
  CorruptValuesAreFound
  FiltersHoldTheirPass
  ConfigurationIsUsable
