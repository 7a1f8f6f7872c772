CONSTANTS
  a = a
  b = b
  a1 = a1
  a2 = a2
  b1 = b1
  t = t
  Clients = {a1, a2, b1}
  IdOf <- TwoAndOne
  NoClient = NoClient
  Ids = {a, b}
  EmptyId = EmptyId
  Topics = {t}
  NoTopic = NoTopic
  FirstFd = 6
  MaxDatagrams = 2
  MaxCommands = 1
  Orderly = TRUE
  MayCrash = FALSE
SPECIFICATION FairSpec
CHECK_DEADLOCK FALSE
INVARIANTS
  StoredInOrder
  SocketMatches
  PrintsOnlyItsOwn
  PrintedOnceInOrder
PROPERTIES
  StoredIsPrinted
  StoredReachOwner
  ImplementsMailboxes
