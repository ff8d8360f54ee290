CONSTANTS
  b1 = b1
  b2 = b2
  Clients <- MCClients
  NoOne = NoOne
  MaxFds = 3
  Works = FALSE
  Pieces <- MCPieces
  PeekSize = 1
  Blocks = 2
  MaxLost = 2
SPECIFICATION Spec
SYMMETRY Symmetry
INVARIANTS StatusTrue Owned PauseHolds PipeInDownload
CHECK_DEADLOCK FALSE
