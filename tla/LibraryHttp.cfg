CONSTANTS
  MaxSessions = 2
  BUFLEN = 4
SPECIFICATION LibraryHttpSpec
CHECK_DEADLOCK FALSE
INVARIANTS
  TypeOK
  TokenOfSession
  OpenIsRemembered
  WholeResponse
PROPERTIES
  Answered
  ToldTheTruth
  ImplementsLibraryClient
