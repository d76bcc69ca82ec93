---------------------- MODULE SecureChannelReader_proofs ----------------------
(***************************************************************************)
(* Proofs about SecureChannelReader, for every stream, header size and     *)
(* way of cutting the stream into reads.                                   *)
(***************************************************************************)
EXTENDS SecureChannelReader, TLAPS

\* What handle_read relies on: no more is taken out than was put in, and
\* messages that have been handled lie before the next one.
BufferInv ==
  /\ consumed <= arrived
  /\ \A i \in DOMAIN handled :
       handled[i] + stream.length[handled[i]] <= consumed

\* What was asked of the read under way, counted from what the buffer held
\* when it started: the rest of a header, or the rest of a message.
ReadInv ==
  /\ io = "pending" => pc = "reading" /\ got < least
  /\ pc = "reading" => least > 0 /\ (io = "ok" => got >= least)
  /\ pc = "reading" =>
       \/ Buffered - got + least = HeaderSize
       \/ /\ Buffered - got >= HeaderSize
          /\ Buffered - got + least = MessageLength

\* The order of the hello, the messages and the goodbye
OrderInv ==
  /\ pc # "new" => greeted
  /\ pc = "new" => arrived = 0 /\ consumed = 0
  /\ goodbyes > 0 => pc = "done" /\ ~HasMessage

ReaderInv ==
  /\ TypeOK /\ BufferInv /\ ReadInv /\ OrderInv
  /\ MessagesAreTheStreams /\ HandledInOrder

-----------------------------------------------------------------------------
\* The parts of a stream, as the assumption has them
LEMMA StreamParts ==
  ASSUME TypeOK
  PROVE  \A p \in Positions : /\ p \in Nat
                              /\ stream.length[p] \in Nat
                              /\ stream.length[p] >= HeaderSize
<1>1. stream \in Streams
  BY DEF TypeOK
<1>2. \A p \in Positions :
        stream.length[p] \in Nat /\ stream.length[p] >= HeaderSize
  BY <1>1, StreamsAssumption
<1>3. \A p \in Positions : p \in Nat
  BY SizesAssumption DEF Positions
<1> QED BY <1>2, <1>3

\* Where there is a whole header, there is a position of the stream.
LEMMA HeaderPosition ==
  ASSUME TypeOK, HasHeader
  PROVE  /\ consumed \in Positions
         /\ MessageLength \in Nat /\ MessageLength >= HeaderSize
<1>1. consumed \in Positions
  BY SizesAssumption DEF TypeOK, HasHeader, Buffered, Positions
<1> QED BY <1>1, StreamParts DEF MessageLength

LEMMA InitReaderInv == Init => ReaderInv
<1> SUFFICES ASSUME Init PROVE ReaderInv
  OBVIOUS
<1>1. Seen = {} /\ DOMAIN handled = {}
  BY DEF Init, Seen
<1>2. TypeOK
  <2>1. handled \in Seq(Positions)
    BY DEF Init
  <2>2. open \in BOOLEAN /\ greeted \in BOOLEAN
    BY DEF Init
  <2>3. dropped \subseteq Positions
    BY DEF Init
  <2>4. arrived \in 0 .. Size /\ consumed \in 0 .. Size
    BY SizesAssumption DEF Init
  <2> QED BY <2>1, <2>2, <2>3, <2>4 DEF Init, TypeOK
<1>3. BufferInv /\ ReadInv /\ OrderInv
  BY <1>1 DEF Init, BufferInv, ReadInv, OrderInv
<1>4. MessagesAreTheStreams /\ HandledInOrder
  BY <1>1 DEF Init, MessagesAreTheStreams, HandledInOrder
<1> QED BY <1>2, <1>3, <1>4 DEF ReaderInv

-----------------------------------------------------------------------------
(* Handling one message                                                    *)

LEMMA ThrowKeeps ==
  ASSUME ReaderInv, HandleMessage, Throw
  PROVE  ReaderInv'
BY DEF ReaderInv, HandleMessage, Throw, TypeOK, BufferInv, ReadInv, OrderInv,
       Seen, MessagesAreTheStreams, HandledInOrder, Buffered, HasMessage,
       HasHeader, MessageLength

\* What both the cases and the default case of handle_message do to the
\* buffer
LEMMA ConsumeKeeps ==
  ASSUME ReaderInv, HandleMessage, Consume,
         UNCHANGED <<pc, io>>,
         dropped' \subseteq Positions,
         handled' \in Seq(Positions),
         open' \in BOOLEAN,
         Seen' = Seen \cup {consumed},
         \A i \in DOMAIN handled' :
           handled'[i] = consumed \/ \E j \in DOMAIN handled : handled'[i] = handled[j]
  PROVE  /\ TypeOK' /\ BufferInv' /\ ReadInv' /\ OrderInv'
         /\ MessagesAreTheStreams'
<1>1. /\ consumed \in Positions /\ consumed \in Nat
      /\ MessageLength \in Nat /\ MessageLength >= HeaderSize
      /\ Buffered >= MessageLength
      /\ stream' = stream /\ arrived' = arrived
  BY HeaderPosition DEF HandleMessage, HasMessage, ReaderInv, TypeOK
<1>2. consumed' = consumed + MessageLength /\ consumed' <= arrived
  BY <1>1 DEF Consume, Buffered, ReaderInv, TypeOK
<1>3. TypeOK'
  <2>1. consumed' \in 0 .. Size
    BY <1>1, <1>2, SizesAssumption DEF ReaderInv, TypeOK
  <2> QED BY <2>1 DEF ReaderInv, TypeOK, HandleMessage
<1>4. BufferInv'
  <2>1. \A i \in DOMAIN handled :
          /\ handled[i] \in Positions
          /\ handled[i] + stream.length[handled[i]] <= consumed
    BY DEF ReaderInv, TypeOK, BufferInv
  <2>2. ASSUME NEW i \in DOMAIN handled'
        PROVE  handled'[i] + stream.length[handled'[i]] <= consumed'
    <3>1. CASE handled'[i] = consumed
      BY <3>1, <1>2 DEF MessageLength
    <3>2. CASE \E j \in DOMAIN handled : handled'[i] = handled[j]
      <4>1. PICK j \in DOMAIN handled : handled'[i] = handled[j]
        BY <3>2
      <4>2. stream.length[handled[j]] \in Nat /\ handled[j] \in Nat
        BY <2>1, StreamParts DEF ReaderInv
      <4> QED BY <4>1, <4>2, <2>1, <1>1, <1>2
    <3> QED BY <3>1, <3>2
  <2> QED BY <1>1, <1>2, <2>2 DEF BufferInv
<1>5. ReadInv' /\ OrderInv'
  BY DEF ReaderInv, ReadInv, OrderInv, HandleMessage
<1>6. MessagesAreTheStreams'
  BY <1>1, <1>2 DEF ReaderInv, MessagesAreTheStreams, MessageLength
<1> QED BY <1>3, <1>4, <1>5, <1>6

LEMMA DropKeeps ==
  ASSUME ReaderInv, HandleMessage, Drop
  PROVE  ReaderInv'
<1>1. consumed \in Positions
  BY HeaderPosition DEF HandleMessage, HasMessage, ReaderInv
<1>2. /\ Consume /\ UNCHANGED <<pc, io, open, handled, stream>>
      /\ dropped' = dropped \cup {consumed}
  BY DEF Drop, HandleMessage
<1>3. Seen' = Seen \cup {consumed}
  BY <1>2 DEF Seen
<1>4. /\ TypeOK' /\ BufferInv' /\ ReadInv' /\ OrderInv'
      /\ MessagesAreTheStreams'
  BY <1>1, <1>2, <1>3, ConsumeKeeps DEF ReaderInv, TypeOK
<1>5. HandledInOrder'
  BY <1>2 DEF ReaderInv, HandledInOrder
<1> QED BY <1>4, <1>5 DEF ReaderInv

LEMMA HandleKeeps ==
  ASSUME ReaderInv, HandleMessage, Handle
  PROVE  ReaderInv'
<1>1. /\ consumed \in Positions /\ handled \in Seq(Positions)
      /\ Consume /\ UNCHANGED <<pc, io, dropped, stream>>
      /\ handled' = Append(handled, consumed) /\ open' \in BOOLEAN
  BY HeaderPosition
  DEF HandleMessage, HasMessage, ReaderInv, TypeOK, Handle
<1>2. /\ Len(handled) \in Nat /\ DOMAIN handled = 1 .. Len(handled)
      /\ handled' \in Seq(Positions)
      /\ DOMAIN handled' = 1 .. Len(handled) + 1
      /\ \A i \in DOMAIN handled : handled'[i] = handled[i]
      /\ handled'[Len(handled) + 1] = consumed
  BY <1>1
<1>3. Seen' = Seen \cup {consumed}
  <2>1. {handled'[i] : i \in DOMAIN handled'} =
          {handled[i] : i \in DOMAIN handled} \cup {consumed}
    <3>1. \A i \in DOMAIN handled' :
            i \in DOMAIN handled \/ i = Len(handled) + 1
      BY <1>2
    <3>2. DOMAIN handled \subseteq DOMAIN handled'
            /\ Len(handled) + 1 \in DOMAIN handled'
      BY <1>2
    <3> QED BY <1>2, <3>1, <3>2
  <2> QED BY <1>1, <2>1 DEF Seen
<1>4. \A i \in DOMAIN handled' :
        handled'[i] = consumed \/ \E j \in DOMAIN handled : handled'[i] = handled[j]
  BY <1>2
<1>5. /\ TypeOK' /\ BufferInv' /\ ReadInv' /\ OrderInv'
      /\ MessagesAreTheStreams'
  BY <1>1, <1>2, <1>3, <1>4, ConsumeKeeps DEF ReaderInv, TypeOK
<1>6. HandledInOrder'
  <2> SUFFICES ASSUME NEW i \in DOMAIN handled', NEW j \in DOMAIN handled',
                      i < j
               PROVE  handled'[i] + stream.length[handled'[i]] <= handled'[j]
    BY <1>1 DEF HandledInOrder
  <2>1. i \in DOMAIN handled /\ (j \in DOMAIN handled \/ j = Len(handled) + 1)
    BY <1>2
  <2> QED BY <1>2, <2>1 DEF ReaderInv, BufferInv, HandledInOrder
<1> QED BY <1>5, <1>6 DEF ReaderInv

-----------------------------------------------------------------------------
(* Reading                                                                 *)

LEMMA RunKeeps ==
  ASSUME ReaderInv, Run
  PROVE  ReaderInv'
<1>1. TypeOK'
  BY SizesAssumption DEF ReaderInv, Run, StartRead, TypeOK
<1>2. BufferInv' /\ MessagesAreTheStreams' /\ HandledInOrder'
  BY DEF ReaderInv, Run, BufferInv, MessagesAreTheStreams, HandledInOrder, Seen
<1>3. OrderInv'
  BY DEF ReaderInv, Run, OrderInv, StartRead, TypeOK
<1>4. ReadInv'
  BY SizesAssumption
  DEF ReaderInv, OrderInv, Run, StartRead, ReadInv, Buffered, MessageLength, TypeOK
<1> QED BY <1>1, <1>2, <1>3, <1>4 DEF ReaderInv

LEMMA ReadAgainKeeps ==
  ASSUME ReaderInv, ReadAgain
  PROVE  ReaderInv'
<1>1. /\ HeaderSize \in Nat /\ Buffered \in Nat
      /\ HasHeader => MessageLength \in Nat
      /\ HasHeader => Buffered < MessageLength
  BY HeaderPosition, SizesAssumption
  DEF ReaderInv, BufferInv, TypeOK, Buffered, ReadAgain, HasMessage
<1>2. LeastSize \in Nat /\ LeastSize > 0
  BY <1>1 DEF LeastSize, HasHeader
<1>3. TypeOK'
  BY <1>2 DEF ReaderInv, ReadAgain, StartRead, TypeOK
<1>4. BufferInv' /\ MessagesAreTheStreams' /\ HandledInOrder'
  BY DEF ReaderInv, ReadAgain, BufferInv, MessagesAreTheStreams,
         HandledInOrder, Seen
<1>5. OrderInv'
  BY DEF ReaderInv, ReadAgain, OrderInv, StartRead, TypeOK
<1>6. ReadInv'
  <2>1. /\ Buffered' = Buffered /\ MessageLength' = MessageLength
        /\ got' = 0 /\ least' = LeastSize /\ pc' = "reading"
        /\ io' \in {"pending", "failed"}
    BY DEF ReadAgain, StartRead, Buffered, MessageLength
  <2>2. \/ Buffered + LeastSize = HeaderSize
        \/ Buffered >= HeaderSize /\ Buffered + LeastSize = MessageLength
    BY <1>1 DEF LeastSize, HasHeader
  <2> QED BY <1>1, <1>2, <2>1, <2>2 DEF ReadInv
<1> QED BY <1>3, <1>4, <1>5, <1>6 DEF ReaderInv

LEMMA TransferKeeps ==
  ASSUME ReaderInv, NEW n \in 1 .. Size, Transfer(n)
  PROVE  ReaderInv'
<1>1. /\ arrived' = arrived + n /\ got' = got + n /\ arrived' <= Size
      /\ io' = IF got' >= least THEN "ok" ELSE "pending"
      /\ io = "pending" /\ pc = "reading"
      /\ UNCHANGED <<stream, pc, open, least, consumed, greeted, handled,
                     dropped, goodbyes>>
      /\ n \in Nat /\ n >= 1 /\ Size \in Nat
      /\ arrived \in Nat /\ got \in Nat /\ least \in Nat /\ consumed \in Nat
  BY SizesAssumption DEF ReaderInv, ReadInv, Transfer, TypeOK
<1>2. TypeOK'
  BY <1>1 DEF ReaderInv, TypeOK
<1>3. BufferInv' /\ HandledInOrder'
  BY <1>1 DEF ReaderInv, BufferInv, HandledInOrder
<1>4. MessagesAreTheStreams'
  <2>1. Seen' = Seen
    BY <1>1 DEF Seen
  <2>2. ASSUME NEW p \in Seen PROVE p + stream.length[p] <= arrived'
    <3>1. p \in Positions
      BY DEF Seen, ReaderInv, TypeOK
    <3>2. p \in Nat /\ stream.length[p] \in Nat
      BY <3>1, StreamParts DEF ReaderInv
    <3> QED BY <1>1, <3>2 DEF ReaderInv, MessagesAreTheStreams
  <2> QED BY <1>1, <2>1, <2>2 DEF ReaderInv, MessagesAreTheStreams
<1>5. OrderInv'
  BY <1>1 DEF ReaderInv, OrderInv, TypeOK
<1>6. ReadInv'
  <2>1. Buffered' - got' = Buffered - got /\ MessageLength' = MessageLength
    BY <1>1 DEF Buffered, MessageLength
  <2> QED BY <1>1, <2>1 DEF ReaderInv, ReadInv
<1> QED BY <1>2, <1>3, <1>4, <1>5, <1>6 DEF ReaderInv

\* The steps that move no byte.
LEMMA OtherStepsKeep ==
  ASSUME ReaderInv,
         ReadFails \/ Close \/ ReadHandler \/ Goodbye \/ UNCHANGED vars
  PROVE  ReaderInv'
<1>1. UNCHANGED <<stream, least, got, arrived, consumed, greeted, handled,
                  dropped>>
  BY DEF ReadFails, Close, ReadHandler, Goodbye, vars
<1>2. BufferInv' /\ MessagesAreTheStreams' /\ HandledInOrder'
  BY <1>1 DEF ReaderInv, BufferInv, MessagesAreTheStreams, HandledInOrder, Seen
<1>3. /\ Buffered' = Buffered /\ MessageLength' = MessageLength
      /\ HasMessage' = HasMessage
  BY <1>1 DEF Buffered, MessageLength, HasMessage, HasHeader
<1>4. TypeOK'
  <2>1. pc' \in {"new", "reading", "handling", "done", "thrown"}
    BY DEF ReaderInv, TypeOK, ReadFails, Close, ReadHandler, Goodbye, vars
  <2>2. io' \in {"pending", "ok", "failed"}
    BY DEF ReaderInv, TypeOK, ReadFails, Close, ReadHandler, Goodbye, vars
  <2>3. open' \in BOOLEAN
    BY DEF ReaderInv, TypeOK, ReadFails, Close, ReadHandler, Goodbye, vars
  <2>4. goodbyes' \in Nat
    BY DEF ReaderInv, TypeOK, ReadFails, Close, ReadHandler, Goodbye, vars
  <2> QED BY <1>1, <2>1, <2>2, <2>3, <2>4 DEF ReaderInv, TypeOK
<1>5. ReadInv'
  BY <1>1, <1>3 DEF ReaderInv, ReadInv, ReadFails, Close, ReadHandler, Goodbye,
                    vars
<1>6. OrderInv'
  BY <1>1, <1>3 DEF ReaderInv, OrderInv, ReadInv, ReadFails, Close,
                    ReadHandler, Goodbye, vars
<1> QED BY <1>2, <1>4, <1>5, <1>6 DEF ReaderInv

LEMMA NextReaderInv == ReaderInv /\ [Next]_vars => ReaderInv'
<1> SUFFICES ASSUME ReaderInv, [Next]_vars PROVE ReaderInv'
  OBVIOUS
<1>1. CASE Run
  BY <1>1, RunKeeps
<1>2. CASE HandleMessage
  <2>1. Throw \/ Handle \/ Drop
    BY <1>2 DEF HandleMessage
  <2> QED BY <1>2, <2>1, ThrowKeeps, HandleKeeps, DropKeeps
<1>3. CASE ReadAgain
  BY <1>3, ReadAgainKeeps
<1>4. CASE \E n \in 1 .. Size : Transfer(n)
  BY <1>4, TransferKeeps
<1>5. CASE ReadFails \/ Close \/ ReadHandler \/ Goodbye \/ UNCHANGED vars
  BY <1>5, OtherStepsKeep
<1> QED BY <1>1, <1>2, <1>3, <1>4, <1>5 DEF Next

LEMMA ReaderInvariance == Spec => []ReaderInv
BY InitReaderInv, NextReaderInv, PTL DEF Spec

-----------------------------------------------------------------------------
\* The variables keep their types; in particular no read is ever asked for a
\* negative number of bytes.
THEOREM ReaderTypeCorrect == Spec => []TypeOK
<1>1. ReaderInv => TypeOK
  BY DEF ReaderInv
<1> QED BY <1>1, ReaderInvariance, PTL

\* However the network cuts the stream, handle_read cuts it into its messages,
\* and they reach the controller in the order sent, whole and once.
THEOREM FramingIsRight == Spec => []MessagesAreHandledInOrder
<1>1. ReaderInv => MessagesAreHandledInOrder
  BY DEF ReaderInv, MessagesAreHandledInOrder
<1> QED BY <1>1, ReaderInvariance, PTL

\* What handle_read returns is what is missing of the next header or message:
\* no read keeps a complete message waiting, asks for nothing, or comes back
\* with neither a header nor a message more.
THEOREM ReadsAreExact == Spec => []ReadsAskForTheRest
<1>1. ReaderInv => ReadsAskForTheRest
  <2> SUFFICES ASSUME ReaderInv, pc = "reading"
               PROVE  /\ least > 0
                      /\ io = "pending" => ~HasMessage
                      /\ io = "ok" => /\ HasHeader
                                      /\ Buffered - got < HeaderSize \/ HasMessage
    BY DEF ReadsAskForTheRest
  <2>1. /\ HeaderSize \in Nat /\ Buffered \in Int /\ got \in Nat /\ least \in Nat
        /\ HasHeader => MessageLength \in Nat /\ MessageLength >= HeaderSize
    BY HeaderPosition, SizesAssumption DEF ReaderInv, TypeOK, Buffered
  <2>2. /\ least > 0
        /\ io = "ok" => got >= least
        /\ io = "pending" => got < least
        /\ \/ Buffered - got + least = HeaderSize
           \/ /\ Buffered - got >= HeaderSize
              /\ Buffered - got + least = MessageLength
    BY DEF ReaderInv, ReadInv
  <2>3. ASSUME io = "pending", HasMessage PROVE FALSE
    <3>1. HasHeader /\ Buffered >= HeaderSize /\ Buffered >= MessageLength
      BY <2>3 DEF HasMessage, HasHeader
    <3> QED BY <2>1, <2>2, <2>3, <3>1
  <2>4. ASSUME io = "ok"
        PROVE  HasHeader /\ (Buffered - got < HeaderSize \/ HasMessage)
    <3>1. HasHeader
      BY <2>1, <2>2, <2>4 DEF HasHeader
    <3>2. Buffered - got < HeaderSize \/ Buffered >= MessageLength
      BY <2>1, <2>2, <2>4, <3>1
    <3> QED BY <3>1, <3>2 DEF HasMessage
  <2> QED BY <2>2, <2>3, <2>4
<1> QED BY <1>1, ReaderInvariance, PTL

\* The controller handler is not called before the hello nor after the
\* goodbye.
LEMMA HandlerCallsAreOrdered == Spec => NothingAfterGoodbye
<1> DEFINE A == /\ handled' # handled \/ goodbyes' # goodbyes => greeted
                /\ goodbyes > 0 => UNCHANGED <<greeted, handled, goodbyes>>
<1>1. ReaderInv /\ [Next]_vars => [A]_vars
  <2> SUFFICES ASSUME ReaderInv, Next PROVE A
    BY DEF vars
  <2>1. CASE pc = "done"
    BY <2>1 DEF Next, Run, ReadHandler, HandleMessage, ReadAgain, Goodbye,
                Transfer, ReadFails, Close
  <2>2. CASE pc # "done"
    BY <2>2 DEF Next, Run, ReadHandler, HandleMessage, Throw, Handle, Drop,
                ReadAgain, Goodbye, Transfer, ReadFails, Close, ReaderInv,
                OrderInv
  <2> QED BY <2>1, <2>2
<1> QED BY <1>1, ReaderInvariance, PTL DEF Spec, NothingAfterGoodbye

\* The goodbye is said after everything that had arrived in full, and no
\* handler is called after it.
THEOREM GoodbyeIsLast == Spec => GoodbyeComesLast
<1>1. ReaderInv => GoodbyeAfterEverything
  BY DEF ReaderInv, OrderInv, GoodbyeAfterEverything
<1>2. Spec => []GoodbyeAfterEverything
  BY <1>1, ReaderInvariance, PTL
<1> QED BY <1>2, HandlerCallsAreOrdered DEF GoodbyeComesLast

=============================================================================
