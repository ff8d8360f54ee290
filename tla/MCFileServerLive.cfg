CONSTANTS
  b1 = b1
  b2 = b2
  Clients <- MCClients
  NoOne = NoOne
  MaxFds = 5
  Works = TRUE
  Pieces <- MCLivePieces
  PeekSize = 2
  Blocks = 1
  MaxLost = 0
SPECIFICATION FairSpec
PROPERTIES RequestAnswered ThreadsEnd
CHECK_DEADLOCK FALSE
