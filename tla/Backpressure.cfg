CONSTANTS
  Clients = {c1, c2}
  NoClient = NoClient
  Capacity = 1
  MaxDatagrams = 2
  MaxCommands = 3
SPECIFICATION FairSpec
CHECK_DEADLOCK FALSE
PROPERTIES
  ImplementsFanout
  ServerReturns
  CatchesUp
