SPECIFICATION PacketInFairSpec
CONSTANTS
  p1 = p1
  p2 = p2
  f1 = f1
  f2 = f2
  b1 = b1
  b2 = b2
  NoTransaction = NoTransaction
  Nobody = Nobody
  Packets = {p1, p2}
  FlowAdd <- FlowAdds
  Barrier <- Barriers
  Requests = {f1, f2, b1, b2}
  Message <- PacketInMessages
  MultipartRequest = 18
  MultipartLimit = 3
  XidLimit = 8
  MaxReceives = 1
  MaxResponses = 1
  ReaderContexts = {TRUE}
  SerialReceives = TRUE
INVARIANTS
  UnansweredAreFindable
  AnswersOwnRequest
  PacketsFollowFlows
PROPERTIES
  PacketInsEnd
CHECK_DEADLOCK FALSE
