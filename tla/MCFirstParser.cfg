CONSTANTS
  HeaderSize = 3
  WordSize = 16
  NFrames = 4
  PLen <- MCPLen
  Start <- MCStart
  AllocOutcomes <- Sometimes
  GarbageLens <- MCGarbage
  NoByte = NoByte
  NoMsg = NoMsg
SPECIFICATION SpecBoth
CHECK_DEADLOCK FALSE
INVARIANTS NeedExact EditionsAgree
PROPERTY ReturnedInTime
