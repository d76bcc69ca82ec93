SPECIFICATION Spec
CONSTANTS
  HeaderSize = 2
  Size = 2
  Streams <- V13Streams
  MessageList <- V13List
  Repeats = 10
  OtherCases = {13}
INVARIANTS
  ListedTypesAreHandled
CHECK_DEADLOCK FALSE
