CONSTANTS
  p1 = p1
  p2 = p2
  p3 = p3
  Peers <- TwoPeers
  ServerFd = 3
  Fds <- OneFd
  Backlog = 2
  NMsgs = 1
  Total = 1
  AllocOutcomes <- Always
  NoPeer = NoPeer
  NoClient = NoClient
  NoData = NoData
  Nul = Nul
  NoByte = NoByte
SPECIFICATION Spec
CHECK_DEADLOCK FALSE
INVARIANT OnlyClients
