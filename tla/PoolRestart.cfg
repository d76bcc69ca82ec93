SPECIFICATION FairSpec
CONSTANTS
  c1 = c1
  c2 = c2
  c3 = c3
  Callers <- TwoCallers
  Services = 1
  ThreadsPer = 1
  Nobody = Nobody
  MaxCalls = 4
PROPERTIES
  NotRunAgainBeforeReset
CHECK_DEADLOCK FALSE
