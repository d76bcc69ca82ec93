SPECIFICATION FairSpec
CONSTANTS
  r1 = r1
  r2 = r2
  r3 = r3
  NoTransaction = NoTransaction
  Requests = {r1}
  Message <- OneRequest
  MultipartRequest = 18
  MultipartLimit = 3
  XidLimit = 3
  MaxReceives = 3
  MaxResponses = 2
  ReaderContexts = {TRUE, FALSE}
  SerialReceives = FALSE
INVARIANTS
  NoneWaitsOnAnswered
  NoReceiveOnFreed
PROPERTIES
  FiniteReceivesEnd
  KeepsPromiseFairly
CHECK_DEADLOCK FALSE
