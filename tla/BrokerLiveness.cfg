CONSTANTS
  a = a
  b = b
  a1 = a1
  a2 = a2
  b1 = b1
  t = t
  Clients = {a1, b1}
  IdOf <- OneAndOne
  NoClient = NoClient
  Ids = {a, b}
  EmptyId = EmptyId
  Topics = {t}
  NoTopic = NoTopic
  FirstFd = 6
  MaxDatagrams = 1
  MaxCommands = 1
  Orderly = FALSE
  MayCrash = TRUE
SPECIFICATION FairSpec
CHECK_DEADLOCK FALSE
PROPERTIES
  EveryoneAnswered
  AllClientsLeave
