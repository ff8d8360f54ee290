CONSTANTS
  a = a
  b = b
  HeaderSize = 2
  WordSize = 16
  Frames <- MCFrames
  Sender <- MCSender
  PLen <- LongPLen
  PeekSize = 4
  MaxQueue = 3
  MaxCopies = 2
  MaxFailures = 1
  AllocOutcomes <- Always
  MayTimeOut = FALSE
  GarbageLens <- MCGarbage
  RawLens = {3}
  NoByte = NoByte
  NoMsg = NoMsg
  NoFrame = NoFrame
SPECIFICATION Spec
CHECK_DEADLOCK FALSE
INVARIANT SenderReported
