CONSTANTS
  p1 = p1
  p2 = p2
  p3 = p3
  Peers <- MCPeers
  NoPeer = NoPeer
  ServerFd = 3
  Editions <- MCEditions
  FdsOf <- MCFds
  SetSize = 3
  MaxWords <- MCWords
  MaxRead = 2
  Quit = Quit
  Text = Text
SPECIFICATION FairSpec
INVARIANTS TypeOK Registered EchoesPrefix PipeAfterReset
PROPERTIES CaughtUp Accepted
CHECK_DEADLOCK FALSE
