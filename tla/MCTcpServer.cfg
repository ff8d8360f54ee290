CONSTANTS
  p1 = p1
  p2 = p2
  p3 = p3
  Peers <- ThreePeers
  ServerFd = 3
  Fds <- TwoFds
  Backlog = 2
  NMsgs = 2
  Total = 2
  AllocOutcomes <- TrueOrFalse
  NoPeer = NoPeer
  NoClient = NoClient
  NoData = NoData
  Nul = Nul
  NoByte = NoByte
SPECIFICATION Spec
CHECK_DEADLOCK FALSE
SYMMETRY Symmetry3
INVARIANTS TypeOK Registered PrintedWhole
PROPERTY EventOrder
