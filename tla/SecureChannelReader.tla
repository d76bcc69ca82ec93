------------------------- MODULE SecureChannelReader -------------------------
(***************************************************************************)
(* The reading half of a secure channel: run hands the controller the      *)
(* switch's hello and starts the message loop, which cuts the stream of    *)
(* bytes into messages, dispatches each by its type, and ends with a       *)
(* goodbye.                                                                *)
(*                                                                         *)
(* The loop runs in the channel's strand.  handle_read is modelled one     *)
(* message at a time; the strand is busy meanwhile (pc = "handling"), and  *)
(* only the controller's own handlers can touch the channel.               *)
(***************************************************************************)
EXTENDS Integers, Sequences, FiniteSets

CONSTANTS HeaderSize,   \* sizeof(header_type)
          Size,         \* the bytes a switch sends before it closes, at most
          Streams,      \* what it may send, see below
          MessageList,  \* the types of default_switch_message_list, in order
          Repeats,      \* how many of them BOOST_PP_REPEAT makes a case of
          OtherCases    \* the types with a case written out: multipart replies

Positions == 0 .. Size - 1

(***************************************************************************)
(* A stream is known by what would be read at each of its positions: the   *)
(* length and the type of the header there, if a header began there, and   *)
(* whether the version's handle_message throws for it (a wrong version or  *)
(* length under OpenFlow 1.0).  At the positions where no message begins   *)
(* these are arbitrary.  No length is shorter than a header.               *)
(***************************************************************************)
ASSUME SizesAssumption == HeaderSize \in Nat \ {0} /\ Size \in Nat

ASSUME StreamsAssumption ==
  \A s \in Streams :
    /\ s.length \in [Positions -> Nat]
    /\ \A p \in Positions : s.length[p] >= HeaderSize
    /\ s.throws \subseteq Positions
    /\ DOMAIN s.type = Positions

ASSUME RepeatsAssumption ==
  MessageList \in Seq({MessageList[i] : i \in DOMAIN MessageList})
    /\ Repeats \in 0 .. Len(MessageList)

VARIABLES
  stream,     \* what this switch sends
  pc,         \* where the loop is: "new", "reading", "handling", "done", "thrown"
  open,       \* whether the socket is open
  io,         \* the read under way: "pending", or how it completed
  least,      \* what it must transfer at least
  got,        \* and has transferred
  arrived,    \* bytes put in streambuf_ so far
  consumed,   \* bytes taken from it
  greeted,    \* whether the controller handler has had the hello
  handled,    \* the messages it has had, by their positions
  dropped,    \* the messages that fell into the default case
  goodbyes    \* how many goodbyes it has had

vars == <<stream, pc, open, io, least, got, arrived, consumed, greeted,
          handled, dropped, goodbyes>>

TypeOK ==
  /\ stream \in Streams
  /\ pc \in {"new", "reading", "handling", "done", "thrown"}
  /\ open \in BOOLEAN
  /\ io \in {"pending", "ok", "failed"}
  /\ least \in Nat /\ got \in Nat
  /\ arrived \in 0 .. Size /\ consumed \in 0 .. Size
  /\ greeted \in BOOLEAN
  /\ handled \in Seq(Positions)
  /\ dropped \subseteq Positions
  /\ goodbyes \in Nat

Init ==
  /\ stream \in Streams
  /\ pc = "new"
  /\ open = TRUE /\ io = "ok" /\ least = 0 /\ got = 0
  /\ arrived = 0 /\ consumed = 0
  /\ greeted = FALSE /\ handled = <<>> /\ dropped = {} /\ goodbyes = 0

-----------------------------------------------------------------------------
(* The socket                                                              *)

\* async_read with transfer_at_least(n)
StartRead(n, usable) ==
  /\ pc' = "reading"
  /\ least' = n /\ got' = 0
  /\ io' = IF usable THEN "pending" ELSE "failed"

\* Bytes arrive, as many as the network delivers at once.
Transfer(n) ==
  /\ io = "pending" /\ arrived + n <= Size
  /\ arrived' = arrived + n
  /\ got' = got + n
  /\ io' = IF got' >= least THEN "ok" ELSE "pending"
  /\ UNCHANGED <<stream, pc, open, least, consumed, greeted, handled, dropped,
                 goodbyes>>

\* The switch closes the connection, or it breaks.
ReadFails ==
  /\ io = "pending"
  /\ io' = "failed"
  /\ UNCHANGED <<stream, pc, open, least, got, arrived, consumed, greeted,
                 handled, dropped, goodbyes>>

\* secure_channel::close, by the application, in the channel's strand: a read
\* that has completed keeps its result.
Close ==
  /\ pc = "reading" /\ open
  /\ open' = FALSE
  /\ io' = IF io = "pending" THEN "failed" ELSE io
  /\ UNCHANGED <<stream, pc, least, got, arrived, consumed, greeted, handled,
                 dropped, goodbyes>>

-----------------------------------------------------------------------------
(* The message loop                                                        *)

\* run: the hello first.  Its handler may close the channel.
Run ==
  /\ pc = "new"
  /\ greeted' = TRUE
  /\ \E closes \in BOOLEAN :
       /\ open' = ~closes
       /\ StartRead(HeaderSize, ~closes)
  /\ UNCHANGED <<stream, arrived, consumed, handled, dropped, goodbyes>>

\* Mutant: with the socket closed, or the read failed, the handler goes
\* straight to the goodbye.
ReadHandlerLosingTheRest ==
  /\ pc = "reading" /\ io # "pending"
  /\ IF io = "failed" \/ ~open
     THEN pc' = "done" /\ goodbyes' = goodbyes + 1
     ELSE pc' = "handling" /\ UNCHANGED goodbyes
  /\ UNCHANGED <<stream, open, io, least, got, arrived, consumed, greeted,
                 handled, dropped>>

\* operator()(ec, n): handle_read first, whatever ec is.
ReadHandler ==
  /\ pc = "reading" /\ io # "pending"
  /\ pc' = "handling"
  /\ UNCHANGED <<stream, open, io, least, got, arrived, consumed, greeted,
                 handled, dropped, goodbyes>>

Buffered == arrived - consumed

MessageLength == stream.length[consumed]

\* The two tests of the loop of handle_read
HasHeader == Buffered >= HeaderSize

\* Mutant: the second test is missing.
HasMessageInPart == HasHeader

HasMessage == HasHeader /\ Buffered >= MessageLength

\* Mutant: the length of the message, and not what is missing of it.
LeastSizeOfMessage == IF HasHeader THEN MessageLength ELSE HeaderSize

\* What handle_read returns: the bytes that are missing, of the next message
\* or of its header.
LeastSize ==
  IF HasHeader THEN MessageLength - Buffered ELSE HeaderSize - Buffered

\* The cases of the version's handle_message
Cases == {MessageList[i] : i \in 1 .. Repeats} \cup OtherCases

\* Mutant: the body of a message is left in the buffer.
ConsumeHeader == consumed' = consumed + HeaderSize

\* streambuf.consume(header.length)
Consume == consumed' = consumed + MessageLength

\* handle_message throws: the exception leaves the loop and the io_service's
\* thread.  Nothing reads again, and no goodbye is said.
Throw ==
  /\ consumed \in stream.throws
  /\ pc' = "thrown"
  /\ UNCHANGED <<open, io, consumed, handled, dropped>>

\* A message for the controller, whose handler may close the channel.
Handle ==
  /\ consumed \notin stream.throws /\ stream.type[consumed] \in Cases
  /\ handled' = Append(handled, consumed)
  /\ open' \in {open, FALSE}
  /\ Consume
  /\ UNCHANGED <<pc, io, dropped>>

\* The default case
Drop ==
  /\ consumed \notin stream.throws /\ stream.type[consumed] \notin Cases
  /\ dropped' = dropped \cup {consumed}
  /\ Consume
  /\ UNCHANGED <<pc, open, io, handled>>

HandleMessage ==
  /\ pc = "handling" /\ HasMessage
  /\ Throw \/ Handle \/ Drop
  /\ UNCHANGED <<stream, least, got, arrived, greeted, goodbyes>>

\* No complete message is left, and the read was good: read again.
ReadAgain ==
  /\ pc = "handling" /\ ~HasMessage /\ io = "ok"
  /\ StartRead(LeastSize, open)
  /\ UNCHANGED <<stream, open, arrived, consumed, greeted, handled, dropped,
                 goodbyes>>

\* Mutant: the return after the goodbye is missing, and the connection that has
\* failed is read once more, which fails again.
GoodbyeReadingOn ==
  /\ pc = "handling" /\ ~HasMessage /\ io = "failed"
  /\ goodbyes' = goodbyes + 1
  /\ StartRead(LeastSize, FALSE)
  /\ UNCHANGED <<stream, open, arrived, consumed, greeted, handled, dropped>>

\* Mutant: the end of the connection is logged, and not handed on.
GoodbyeSilently ==
  /\ pc = "handling" /\ ~HasMessage /\ io = "failed"
  /\ pc' = "done"
  /\ UNCHANGED <<stream, open, io, least, got, arrived, consumed, greeted,
                 handled, dropped, goodbyes>>

\* No complete message is left, and the read failed.
Goodbye ==
  /\ pc = "handling" /\ ~HasMessage /\ io = "failed"
  /\ pc' = "done"
  /\ goodbyes' = goodbyes + 1
  /\ UNCHANGED <<stream, open, io, least, got, arrived, consumed, greeted,
                 handled, dropped>>

-----------------------------------------------------------------------------
Loop == Run \/ ReadHandler \/ HandleMessage \/ ReadAgain \/ Goodbye

Next ==
  \/ Run \/ ReadHandler \/ HandleMessage \/ ReadAgain \/ Goodbye
  \/ \E n \in 1 .. Size : Transfer(n)
  \/ ReadFails \/ Close

Spec == Init /\ [][Next]_vars

\* The io_service runs the handlers that are ready; the switch and the
\* application owe nothing.
FairSpec == Spec /\ WF_vars(Loop)

-----------------------------------------------------------------------------
(* Safety                                                                  *)

Seen == {handled[i] : i \in DOMAIN handled} \cup dropped

\* However the network cuts the stream, the loop cuts it into its messages:
\* the first begins the stream, and each of the others begins where another
\* ends, up to the bytes consumed.
MessagesAreTheStreams ==
  /\ \A p \in Seen :
       /\ p = 0 \/ \E q \in Seen : p = q + stream.length[q]
       /\ p + stream.length[p] <= arrived
  /\ consumed = 0 \/ \E q \in Seen : consumed = q + stream.length[q]

\* Messages reach the controller in the order they were sent, none twice and
\* none that overlaps another.
HandledInOrder ==
  \A i, j \in DOMAIN handled :
    i < j => handled[i] + stream.length[handled[i]] <= handled[j]

\* Cut where the stream is cut, and handed on in the order sent.
MessagesAreHandledInOrder == MessagesAreTheStreams /\ HandledInOrder

\* Every read asks for what is missing.  Not for more: the loop never waits
\* while it holds a complete message.  Not for nothing, which would be there at
\* once and again and again.  Not for less: a read that succeeds ends with the
\* header that was missing, or with the message.
ReadsAskForTheRest ==
  pc = "reading" =>
    /\ least > 0
    /\ io = "pending" => ~HasMessage
    /\ io = "ok" => HasHeader /\ (Buffered - got < HeaderSize \/ HasMessage)

\* The goodbye comes after everything that had arrived in full, also if the
\* channel was closed between a read and its handler.
GoodbyeAfterEverything == goodbyes > 0 => ~HasMessage

\* Hello first and goodbye last: the controller handler is not called before
\* the one nor after the other.
NothingAfterGoodbye ==
  [][/\ handled' # handled \/ goodbyes' # goodbyes => greeted
     /\ goodbyes > 0 => UNCHANGED <<greeted, handled, goodbyes>>]_vars

\* The goodbye comes last on both sides: nothing that has arrived in full is
\* left when it is said, and no handler is called after it.
GoodbyeComesLast == []GoodbyeAfterEverything /\ NothingAfterGoodbye

\* Every message whose type is one of the list reaches the controller, as
\* the static_assert on the size of the list has it.
ListedTypesAreHandled ==
  \A p \in dropped :
    stream.type[p] \notin {MessageList[i] : i \in DOMAIN MessageList}

-----------------------------------------------------------------------------
(* Liveness                                                                *)

\* A message that has arrived is handled, unless one before it threw, and
\* whatever the switch does next: it may well be waiting for the answer.
ArrivedMessagesAreHandled ==
  HasMessage ~> (pc = "thrown" \/ ~HasMessage)

\* A connection that is closed or broken is bidden goodbye, unless
\* handle_message threw: then the controller is never told.
GoodbyeIsSaid ==
  (pc = "reading" /\ (~open \/ io = "failed")) ~>
    (goodbyes = 1 \/ pc = "thrown")

=============================================================================
