SPECIFICATION FairSpec
CONSTANTS
  r1 = r1
  r2 = r2
  r3 = r3
  NoTransaction = NoTransaction
  Requests = {r1, r2, r3}
  Message <- SameKeyAndFlowMod
  MultipartRequest = 18
  MultipartLimit = 3
  XidLimit = 3
  MaxReceives = 0
  MaxResponses = 1
  ReaderContexts = {TRUE, FALSE}
  SerialReceives = FALSE
INVARIANTS
  NoStaleEntries
  NoResponseLost
PROPERTIES
  EntriesAreReclaimed
CHECK_DEADLOCK FALSE
