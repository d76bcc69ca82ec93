SPECIFICATION FairSpec
CONSTANTS
  Versions = {1, 3, 4}
  Supported = {1, 4}
  NoVersion = NoVersion
INVARIANTS
  HighestCommonVersion
  EveryStepIsGuarded
PROPERTIES
  TimeoutsCloseTheirStep
  HandoverIsFinal
  SetupEnds
CHECK_DEADLOCK FALSE
