SPECIFICATION FairSpec
CONSTANTS
  s1 = s1
  s2 = s2
  m1 = m1
  m2 = m2
  m3 = m3
  m4 = m4
  Senders = {s1, s2}
  Messages = {m1, m2, m3, m4}
  Program <- ThreeAndOne
  Keepers = {s1}
  NoBuffer = NoBuffer
INVARIANTS
  OnlyTheStrandOvertakes
  BuffersOutliveTheirWrites
PROPERTIES
  SendsEnd
CHECK_DEADLOCK FALSE
