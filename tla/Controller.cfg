SPECIFICATION FairControllerSpec
CONSTANTS
  c1 = c1
  c2 = c2
  Callers <- TwoCallers
  Services = 2
  ThreadsPer = 1
  Nobody = Nobody
  MaxCalls = 4
  AcceptorService = 1
  MaxOps = 4
  MaxConnections = 1
INVARIANTS
  OneAcceptWhileListening
PROPERTIES
  RunLasts
  StopEndsRuns
CHECK_DEADLOCK FALSE
