CONSTANTS
  a = a
  b = b
  HeaderSize = 2
  WordSize = 16
  Frames <- MCFrames
  Sender <- MCSender
  PLen <- MCPLen
  PeekSize = 4
  MaxQueue = 2
  MaxCopies = 2
  MaxFailures = 1
  AllocOutcomes <- Sometimes
  MayTimeOut = TRUE
  GarbageLens <- MCGarbage
  RawLens = {3}
  NoByte = NoByte
  NoMsg = NoMsg
  NoFrame = NoFrame
SPECIFICATION FairSpec
CHECK_DEADLOCK FALSE
INVARIANTS TypeOK BetweenMessages
PROPERTIES ImplementsService EachReturned
