CONSTANTS
  n1 = n1
  n2 = n2
  n3 = n3
  short1 = short1
  short2 = short2
  long1 = long1
  long2 = long2
  prefix = prefix
  a1 = a1
  a2 = a2
  x = x
  Nodes <- MCNodes
  List = List
  Poison = Poison
  Cmds <- MCCmds
  Cut <- MCCut
  Addrs <- MCAddrs
  NoAddr = NoAddr
  AllocOutcomes <- MayFail
  Lines <- MCLines
  Sep = Sep
  Row = 2
  Col = 3
SPECIFICATION Spec
SYMMETRY Symmetry
INVARIANTS Linked Divided
PROPERTY ImplementsBook
CHECK_DEADLOCK FALSE
