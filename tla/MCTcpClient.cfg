CONSTANTS
  HeaderSize = 2
  WordSize = 16
  NFrames = 2
  PLen <- MCPLen
  Start <- MCStart
  MaxConns = 2
  RetryLimit = 2
  MaxErrors = 2
  AllocOutcomes <- Sometimes
  GarbageLens <- MCGarbage
  NoByte = NoByte
  NoMsg = NoMsg
SPECIFICATION FairSpec
CHECK_DEADLOCK FALSE
INVARIANTS TypeOK NeedExact
PROPERTIES ImplementsChannel FrameDelivered CallReturns
