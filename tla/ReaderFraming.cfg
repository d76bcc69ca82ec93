SPECIFICATION FairSpec
CONSTANTS
  HeaderSize = 2
  Size = 6
  Streams <- MixedStreams
  MessageList <- MixedList
  Repeats = 2
  OtherCases = {"multipart_reply"}
INVARIANTS
  TypeOK
  MessagesAreHandledInOrder
  ReadsAskForTheRest
PROPERTIES
  GoodbyeComesLast
  ArrivedMessagesAreHandled
  GoodbyeIsSaid
CHECK_DEADLOCK FALSE
