SPECIFICATION FairSpec
CONSTANTS
  c1 = c1
  c2 = c2
  c3 = c3
  Callers <- ThreeCallers
  Services = 2
  ThreadsPer = 1
  Nobody = Nobody
  MaxCalls = 4
INVARIANTS
  RunsUntilStopped
PROPERTIES
  OneGenerationAtATime
  RenewedWhenAtRest
  StopEndsThreads
  StopLetsResetReturn
  DestructorEnds
CHECK_DEADLOCK FALSE
