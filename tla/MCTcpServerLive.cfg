CONSTANTS
  p1 = p1
  p2 = p2
  p3 = p3
  Peers <- TwoPeers
  ServerFd = 3
  Fds <- TwoFds
  Backlog = 2
  NMsgs = 2
  Total = 1
  AllocOutcomes <- Always
  NoPeer = NoPeer
  NoClient = NoClient
  NoData = NoData
  Nul = Nul
  NoByte = NoByte
SPECIFICATION FairSpec
CHECK_DEADLOCK FALSE
PROPERTIES MessageServed LeaversClosed StopEnds
INVARIANT NoCrash
