SPECIFICATION FairSpec
CONSTANTS
  a = a
  b = b
  Macs = {a, b}
  Ports = {1, 2}
  Aging = 3
  Tick = 2
  Delay = 1
  MaxTime = 9
  Nothing = Nothing
INVARIANTS
  EntriesAgeOut
PROPERTIES
  ChannelIsReleased
CHECK_DEADLOCK FALSE
