------------------------ MODULE SecureChannelWriter ------------------------
(***************************************************************************)
(* The writing half of secure_channel.hpp: async_send from handlers in the *)
(* channel's strand and from other threads, close, and the reference       *)
(* counts of the buffers that carry the messages (with_buffer.hpp,         *)
(* shared_buffer_generator.hpp, asio/shared_buffer.hpp).                   *)
(*                                                                         *)
(* A sender is a flow of control that calls async_send for one message     *)
(* after the other, each time in the strand or not.  The queue of writes   *)
(* is a library outside the repository: it writes what it is given in      *)
(* order and calls every handler in the strand.                            *)
(***************************************************************************)
EXTENDS Naturals, Sequences, SequencesExt

CONSTANTS
  Senders,
  Messages,
  Program,     \* the messages each sender sends, in order
  Keepers,     \* the senders that encode into a generator they keep
  NoBuffer

ASSUME ProgramAssumption ==
  /\ Program \in [Senders -> Seq(Messages)]
  /\ NoBuffer \notin Messages /\ Keepers \subseteq Senders

\* A message stands for one call of async_send: equal contents sent twice are
\* two messages.
ASSUME CallsAssumption ==
  \A s, t \in Senders : \A i \in DOMAIN Program[s], j \in DOMAIN Program[t] :
    Program[s][i] = Program[t][j] => s = t /\ i = j

VARIABLES
  refs,        \* the count of each buffer; a buffer is named for the message
               \* it was made for
  bytes,       \* the message a buffer holds
  generator,   \* the buffer of each sender's generator
  left,        \* the messages each sender has still to send
  posting,     \* senders between encode and post, with what they will post
  strand,      \* the functions queued to the strand
  queue,       \* the write queue; its head is being written
  up,          \* the socket is open and the switch there
  wire,        \* what has been written
  result,      \* what each message's handler was called with
  context,     \* where each message was sent from
  earlier      \* the calls that had returned when a message's call began

buffers == <<refs, bytes, generator>>
history == <<context, earlier>>
vars == <<buffers, left, posting, strand, queue, up, wire, result, history>>

Buffers == Messages

TypeOK ==
  /\ refs \in [Buffers -> Nat]
  /\ bytes \in [Buffers -> Messages \cup {NoBuffer}]
  /\ generator \in [Senders -> Buffers \cup {NoBuffer}]
  /\ result \in [Messages -> {"none", "ok", "failed"}]
  /\ context \in [Messages -> {"none", "strand", "thread"}]

Init ==
  /\ refs = [b \in Buffers |-> 0]
  /\ bytes = [b \in Buffers |-> NoBuffer]
  /\ generator = [s \in Senders |-> NoBuffer]
  /\ left = Program
  /\ posting = [s \in Senders |-> <<>>]
  /\ strand = <<>> /\ queue = <<>> /\ wire = <<>>
  /\ up = TRUE
  /\ result = [m \in Messages |-> "none"]
  /\ context = [m \in Messages |-> "none"]
  /\ earlier = [m \in Messages |-> {}]

-----------------------------------------------------------------------------
(* Buffers.  A count is changed by one atomic instruction, and whoever      *)
(* brings it to nought deletes the buffer.                                  *)

\* Mutant: the pointer is copied without its reference.
AddRef_Borrowed(counts, b) == counts

AddRef(counts, b) == [counts EXCEPT ![b] = @ + 1]

\* Mutant: the reference is never given back.
Release_Leaking(counts, b) == counts

Release(counts, b) ==
  IF b = NoBuffer THEN counts ELSE [counts EXCEPT ![b] = @ - 1]

\* reserve: the generator lets its buffer go and has a new one, of one
\* reference.
Resize(s, m) == [buffer |-> m, counts |-> Release([refs EXCEPT ![m] = 1],
                                                  generator[s])]

Reserve(s, m) == Resize(s, m)

\* message_with_buffer::encode: a generator that is kept shares its buffer
\* with the write, a temporary one hands it over.
Encode(s, m) ==
  LET room == Reserve(s, m)
  IN  /\ bytes' = [bytes EXCEPT ![room.buffer] = m]
      /\ IF s \in Keepers
           THEN /\ generator' = [generator EXCEPT ![s] = room.buffer]
                /\ refs' = AddRef(room.counts, room.buffer)
           ELSE refs' = room.counts /\ UNCHANGED generator

EncodedIn(s, m) == Reserve(s, m).buffer

-----------------------------------------------------------------------------
(* async_send                                                              *)

\* The calls that have returned: all but those that are still posting.
Returned ==
  {m \in Messages : context[m] # "none"
                    /\ \A s \in Senders : posting[s] # <<>> => posting[s][1].m # m}

Called(s, m, where) ==
  /\ left' = [left EXCEPT ![s] = Tail(@)]
  /\ context' = [context EXCEPT ![m] = where]
  /\ earlier' = [earlier EXCEPT ![m] = Returned]

\* Called in the strand: encoded and handed to the stream at once.
SendInStrand(s) ==
  /\ left[s] # <<>> /\ posting[s] = <<>>
  /\ LET m == Head(left[s])
     IN  /\ Encode(s, m) /\ Called(s, m, "strand")
         /\ queue' = Append(queue, [m |-> m, b |-> EncodedIn(s, m)])
  /\ UNCHANGED <<posting, strand, up, wire, result>>

\* Called elsewhere: encoded in the caller's thread ...
EncodeInThread(s) ==
  /\ left[s] # <<>> /\ posting[s] = <<>>
  /\ LET m == Head(left[s])
     IN  /\ Encode(s, m) /\ Called(s, m, "thread")
         /\ posting' = [posting EXCEPT ![s] =
                          <<[op |-> "write", m |-> m, b |-> EncodedIn(s, m)]>>]
  /\ UNCHANGED <<strand, queue, up, wire, result>>

\* Mutant: the functor goes before what was posted earlier.
Post_AtFront(s) ==
  /\ posting[s] # <<>>
  /\ strand' = posting[s] \o strand
  /\ posting' = [posting EXCEPT ![s] = <<>>]
  /\ UNCHANGED <<buffers, left, queue, up, wire, result, history>>

\* ... and posted to the strand.
Post(s) ==
  /\ posting[s] # <<>>
  /\ strand' = strand \o posting[s]
  /\ posting' = [posting EXCEPT ![s] = <<>>]
  /\ UNCHANGED <<buffers, left, queue, up, wire, result, history>>

\* async_write_functor, run by the strand.
RunFunctor ==
  /\ strand # <<>> /\ Head(strand).op = "write"
  /\ queue' = Append(queue, [m |-> Head(strand).m, b |-> Head(strand).b])
  /\ strand' = Tail(strand)
  /\ UNCHANGED <<buffers, left, posting, up, wire, result, history>>

-----------------------------------------------------------------------------
(* close                                                                   *)

\* The network ends the connection in the same way.
CloseInStrand ==
  /\ up /\ up' = FALSE
  /\ UNCHANGED <<buffers, left, posting, strand, queue, wire, result, history>>

Closing == \E i \in DOMAIN strand : strand[i].op = "close"

CloseElsewhere ==
  /\ up /\ ~Closing
  /\ strand' = Append(strand, [op |-> "close"])
  /\ UNCHANGED <<buffers, left, posting, queue, up, wire, result, history>>

RunClose ==
  /\ strand # <<>> /\ Head(strand).op = "close"
  /\ up' = FALSE
  /\ strand' = Tail(strand)
  /\ UNCHANGED <<buffers, left, posting, queue, wire, result, history>>

-----------------------------------------------------------------------------
(* The write queue and the network                                         *)

Complete(outcome) ==
  /\ strand' = Append(strand, [op |-> "handler", m |-> Head(queue).m,
                               b |-> Head(queue).b, outcome |-> outcome])
  /\ queue' = Tail(queue)
  /\ UNCHANGED <<buffers, left, posting, up, result, history>>

Write ==
  /\ up /\ queue # <<>>
  /\ wire' = Append(wire, [m |-> Head(queue).m, bytes |-> bytes[Head(queue).b]])
  /\ Complete("ok")

WriteFails ==
  /\ ~up /\ queue # <<>>
  /\ Complete("failed") /\ UNCHANGED wire

\* The operation is destroyed, and with it its reference to the buffer.
RunHandler ==
  /\ strand # <<>> /\ Head(strand).op = "handler"
  /\ refs' = Release(refs, Head(strand).b)
  /\ result' = [result EXCEPT ![Head(strand).m] = Head(strand).outcome]
  /\ strand' = Tail(strand)
  /\ UNCHANGED <<bytes, generator, left, posting, queue, up, wire, history>>

\* A sender that has sent everything lets its generator go.
DropGenerator(s) ==
  /\ left[s] = <<>> /\ generator[s] # NoBuffer
  /\ refs' = Release(refs, generator[s])
  /\ generator' = [generator EXCEPT ![s] = NoBuffer]
  /\ UNCHANGED <<bytes, left, posting, strand, queue, up, wire, result, history>>

RunStrand == RunFunctor \/ RunClose \/ RunHandler

Next ==
  \/ \E s \in Senders : SendInStrand(s) \/ EncodeInThread(s) \/ Post(s)
                        \/ DropGenerator(s)
  \/ CloseInStrand \/ CloseElsewhere
  \/ RunStrand
  \/ Write \/ WriteFails

Spec == Init /\ [][Next]_vars

\* Threads inside async_send go on, the strand runs, and writes on a socket
\* that is gone fail; the switch need not read what is written.
FairSpec ==
  /\ Spec
  /\ WF_vars(RunStrand) /\ WF_vars(WriteFails)
  /\ \A s \in Senders : WF_vars(Post(s)) /\ WF_vars(DropGenerator(s))

-----------------------------------------------------------------------------
(* Properties                                                              *)

\* If a message reaches the switch before one whose async_send had returned
\* already, it was sent in the strand and the other one elsewhere: senders in
\* one context, and those who use one context each, keep their order.
OnlyTheStrandOvertakes ==
  \A i, j \in DOMAIN wire :
    i < j /\ wire[j].m \in earlier[wire[i].m] =>
      context[wire[i].m] = "strand" /\ context[wire[j].m] = "thread"

Pending ==
  ToSet(queue) \cup (UNION {ToSet(posting[s]) : s \in Senders})
    \cup {strand[i] : i \in {k \in DOMAIN strand : strand[k].op # "close"}}

\* Until its handler has been called a message stays as it was encoded, in a
\* buffer that is not freed, whatever its sender encodes next; and what has
\* been written is what was sent.
BuffersOutliveTheirWrites ==
  /\ \A p \in Pending : refs[p.b] > 0 /\ bytes[p.b] = p.m
  /\ \A i \in DOMAIN wire : wire[i].bytes = wire[i].m

\* A message that was sent and has not been written when the connection ends
\* has its handler called, and its buffer is freed in the end.
SendsEnd ==
  \A m \in Messages :
    (~up /\ context[m] # "none")
      ~> (result[m] # "none" /\ \/ refs[m] = 0
                                 \/ \E s \in Senders : generator[s] = m)

=============================================================================
