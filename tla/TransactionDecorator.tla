------------------------ MODULE TransactionDecorator ------------------------
(***************************************************************************)
(* The transaction decorator of the example controllers: it pairs the      *)
(* requests an application sends to a switch with the replies and errors   *)
(* that come back, through a table that one channel's senders, reader and  *)
(* transaction destructors share.                                          *)
(*                                                                         *)
(* Several threads take part.  async_send_request and the release of a     *)
(* transaction run on any thread and meet in the mutex around the table;   *)
(* a transaction's message and timer belong to the strand of its channel.  *)
(* An action is a piece of code that the mutex or the strand makes         *)
(* atomic: a handler of the strand up to its return, a critical section,   *)
(* or a step of the operating system (a timer that expires, a completed    *)
(* write).                                                                 *)
(***************************************************************************)
EXTENDS Integers, Sequences, FiniteSets

CONSTANTS
  Requests,          \* the requests sent, each with its own transaction
  Message,           \* Message[r]: type, multipart type, xid of request r
  MultipartRequest,  \* the message type OFPT_MULTIPART_REQUEST
  MultipartLimit,    \* 2^16: the width of the multipart field of a key
  XidLimit,          \* 2^32: the width of the xid field of a key
  NoTransaction,     \* what looking an absent key up returns
  MaxReceives,       \* bound: receive calls made for one transaction
  MaxResponses,      \* bound: messages the switch sends back per request
  ReaderContexts,    \* {TRUE}: responses are handled in the strand
  SerialReceives     \* TRUE: the application never overlaps two receives

Headers ==
  [ type : Nat, multipart : 0..(MultipartLimit - 1), xid : 0..(XidLimit - 1),
    hasReply : BOOLEAN ]

ASSUME LimitsAssumption ==
  MultipartLimit \in Nat \ {0} /\ XidLimit \in Nat \ {0}
ASSUME RequestsAssumption ==
  /\ Message \in [Requests -> Headers]
  /\ NoTransaction \notin Requests
ASSUME BoundsAssumption ==
  MaxReceives \in Nat /\ MaxResponses \in Nat
ASSUME ContextsAssumption ==
  ReaderContexts \subseteq BOOLEAN /\ SerialReceives \in BOOLEAN

-----------------------------------------------------------------------------
(* The key of a request: three bit fields of a 64 bit word.                *)

\* Mutant: the xid is left out of the key.
ToKeyWithoutXid(type, multipart, xid) == type * MultipartLimit + multipart

ToKey(type, multipart, xid) ==
  (type * MultipartLimit + multipart) * XidLimit + xid

IsMultipart(r) == Message[r].type = MultipartRequest

MultipartTypeIfAny(r) == IF IsMultipart(r) THEN Message[r].multipart ELSE 0

Key(r) == ToKey(Message[r].type, MultipartTypeIfAny(r), Message[r].xid)

Keys == {Key(r) : r \in Requests}

UniqueKeys == \A r, s \in Requests : Key(r) = Key(s) => r = s

-----------------------------------------------------------------------------
Calls == Requests \X (1..MaxReceives)   \* <<r, n>>: the n-th receive on r

CallsOf(r) == {r} \X (1..MaxReceives)

\* What a transaction's message holds: "to" is the request the switch meant.
Messages == [kind : {"empty", "reply", "error"}, to : Requests]

Empty(r) == [kind |-> "empty", to |-> r]

\* A receive is posted to the strand, waits on the timer, is ready to run
\* once the timer let it go, or is bound to an answer already there.
CallStates == {"none", "posted", "waiting", "ready", "bound", "done"}

\* "hollow" is an answer whose contents an earlier receive has moved away.
Results == {"none", "answer", "hollow", "timeout", "aborted"}

CallRecords ==
  { c \in [st : CallStates, result : Results, finite : BOOLEAN] :
      c.result = "none" <=> c.st \in {"none", "posted", "waiting"} }

StrandItems ==
  [op : {"wait", "handler"}, call : Calls] \cup
  [op : {"set"}, txn : Requests, answer : Messages]

VARIABLES
  phase,      \* progress of async_send_request
  held,       \* whether the application holds the transaction pointer
  freed,      \* whether the transaction has been destroyed
  map,        \* transaction_data::map: key -> weak pointer
  msg,        \* transaction::msg
  moved,      \* whether the contents of msg have been moved out
  call,       \* the receive calls
  strand,     \* the functions posted to the channel's strand, in order
  channel,    \* the channel: open, closed by a read error, destroyed
  responses,  \* per request, how many messages the switch sent back
  forwarded   \* per request, how many of them the decorator passed on

vars == <<phase, held, freed, map, msg, moved, call, strand, channel,
          responses, forwarded>>

Phases == {"idle", "registered", "writing", "written", "sent", "failed"}

TypeOK ==
  /\ phase \in [Requests -> Phases]
  /\ held \in [Requests -> BOOLEAN]
  /\ freed \in [Requests -> BOOLEAN]
  /\ map \in [Keys -> Requests \cup {NoTransaction}]
  /\ msg \in [Requests -> Messages]
  /\ moved \in [Requests -> BOOLEAN]
  /\ call \in [Calls -> CallRecords]
  /\ strand \in Seq(StrandItems)
  /\ channel \in {"open", "closed", "destroyed"}
  /\ responses \in [Requests -> 0..MaxResponses]
  /\ forwarded \in [Requests -> Nat]

Init ==
  /\ phase = [r \in Requests |-> "idle"]
  /\ held = [r \in Requests |-> FALSE]
  /\ freed = [r \in Requests |-> FALSE]
  /\ map = [k \in Keys |-> NoTransaction]
  /\ msg = [r \in Requests |-> Empty(r)]
  /\ moved = [r \in Requests |-> FALSE]
  /\ call = [c \in Calls |->
               [st |-> "none", result |-> "none", finite |-> FALSE]]
  /\ strand = <<>>
  /\ channel = "open"
  /\ responses = [r \in Requests |-> 0]
  /\ forwarded = [r \in Requests |-> 0]

-----------------------------------------------------------------------------
(* Who keeps a transaction alive: every owner of a shared_ptr to it.       *)

Answered(r) == msg[r].kind # "empty"

SetPosted(r) ==
  \E i \in 1..Len(strand) : strand[i].op = "set" /\ strand[i].txn = r

\* Mutant: wait_handler_adaptor keeps a plain pointer.
ReferencedNotByWaits(r) ==
  \/ phase[r] \in {"registered", "writing", "written"}
  \/ held[r]
  \/ SetPosted(r)

Referenced(r) ==
  \/ phase[r] \in {"registered", "writing", "written"}
  \/ held[r]
  \/ \E c \in CallsOf(r) : call[c].st \in {"posted", "waiting", "ready"}
  \/ SetPosted(r)

-----------------------------------------------------------------------------
(* async_send_request                                                      *)

\* Mutant: the request is sent before it is entered in the table.
RegisterRequestLate(r) ==
  /\ phase[r] = "idle" /\ channel # "destroyed"
  /\ phase' = [phase EXCEPT ![r] = "registered"]
  /\ UNCHANGED <<held, freed, map, msg, moved, call, strand, channel,
                 responses, forwarded>>

\* register_request: make the transaction and, under the mutex, emplace a
\* weak pointer to it.  emplace leaves an entry that is already there alone.
RegisterRequest(r) ==
  /\ phase[r] = "idle" /\ channel # "destroyed"
  /\ phase' = [phase EXCEPT ![r] = "registered"]
  /\ map' = IF map[Key(r)] = NoTransaction
            THEN [map EXCEPT ![Key(r)] = r] ELSE map
  /\ UNCHANGED <<held, freed, msg, moved, call, strand, channel,
                 responses, forwarded>>

\* channel->async_send(request, send_handler_adaptor(handler, txn))
AsyncSend(r) ==
  /\ phase[r] = "registered"
  /\ phase' = [phase EXCEPT ![r] = "writing"]
  /\ UNCHANGED <<held, freed, map, msg, moved, call, strand, channel,
                 responses, forwarded>>

\* The request reaches the switch, which may answer before the write's
\* handler has run.
WriteReaches(r) ==
  /\ phase[r] = "writing" /\ channel = "open"
  /\ phase' = [phase EXCEPT ![r] = "written"]
  /\ UNCHANGED <<held, freed, map, msg, moved, call, strand, channel,
                 responses, forwarded>>

\* send_handler_adaptor without an error hands the transaction over ...
SendHandler(r) ==
  /\ phase[r] = "written"
  /\ phase' = [phase EXCEPT ![r] = "sent"]
  /\ held' = [held EXCEPT ![r] = TRUE]
  /\ UNCHANGED <<freed, map, msg, moved, call, strand, channel,
                 responses, forwarded>>

\* ... and with an error passes a null pointer: the adaptor's own goes.
SendHandlerError(r) ==
  /\ phase[r] = "writing"
  /\ phase' = [phase EXCEPT ![r] = "failed"]
  /\ UNCHANGED <<held, freed, map, msg, moved, call, strand, channel,
                 responses, forwarded>>

\* The application drops its last pointer.
ReleaseTransaction(r) ==
  /\ held[r]
  /\ held' = [held EXCEPT ![r] = FALSE]
  /\ UNCHANGED <<phase, freed, map, msg, moved, call, strand, channel,
                 responses, forwarded>>

\* Mutant: the destructor leaves the entry in the table.
DestroyTransactionKeepingEntry(r) ==
  /\ phase[r] # "idle" /\ ~freed[r] /\ ~Referenced(r)
  /\ freed' = [freed EXCEPT ![r] = TRUE]
  /\ UNCHANGED <<phase, held, map, msg, moved, call, strand, channel,
                 responses, forwarded>>

\* ~transaction_with_deleter, after the last pointer has gone: an unanswered
\* transaction erases its key if the channel still exists.  A lookup between
\* the loss of the last pointer and this step finds an expired weak pointer.
DestroyTransaction(r) ==
  /\ phase[r] # "idle" /\ ~freed[r] /\ ~Referenced(r)
  /\ freed' = [freed EXCEPT ![r] = TRUE]
  /\ map' = IF ~Answered(r) /\ channel # "destroyed"
            THEN [map EXCEPT ![Key(r)] = NoTransaction] ELSE map
  /\ UNCHANGED <<phase, held, msg, moved, call, strand, channel,
                 responses, forwarded>>

-----------------------------------------------------------------------------
(* async_receive_response                                                  *)

Contents(r) == IF moved[r] THEN "hollow" ELSE "answer"

\* timer.cancel() and timer.expires_from_now() queue every handler that
\* waits with operation_aborted; handlers already queued keep their code.
CancelTimer(r) ==
  [c \in Calls |->
     IF c \in CallsOf(r) /\ call[c].st = "waiting"
     THEN [call[c] EXCEPT !.st = "ready", !.result = "aborted"] ELSE call[c]]

\* The answer is there: post the handler bound to it.
AsyncWaitAnswered(c, finite, queue) ==
  /\ Answered(c[1])
  /\ call' = [call EXCEPT ![c] = [st |-> "bound", finite |-> finite,
                                  result |-> Contents(c[1])]]
  /\ moved' = [moved EXCEPT ![c[1]] = TRUE]
  /\ strand' = Append(queue, [op |-> "handler", call |-> c])

\* It is not: wait for the timer, which lets earlier waits go.
AsyncWaitTimer(c, finite, queue) ==
  /\ ~Answered(c[1])
  /\ call' = [CancelTimer(c[1]) EXCEPT
                ![c] = [st |-> "waiting", finite |-> finite, result |-> "none"]]
  /\ strand' = queue
  /\ UNCHANGED moved

\* Mutant: async_wait never looks at the message.
AsyncWaitAlwaysTimer(c, finite, queue) ==
  /\ call' = [CancelTimer(c[1]) EXCEPT
                ![c] = [st |-> "waiting", finite |-> finite, result |-> "none"]]
  /\ strand' = queue
  /\ UNCHANGED moved

\* async_wait, in the strand, leaving queue in it.
AsyncWait(c, finite, queue) ==
  \/ AsyncWaitAnswered(c, finite, queue)
  \/ AsyncWaitTimer(c, finite, queue)

\* The application makes the n-th call on r, through a pointer it holds.
MayReceive(c) ==
  /\ held[c[1]] /\ call[c].st = "none"
  /\ \A d \in CallsOf(c[1]) : d[2] < c[2] =>
       /\ call[d].st # "none"
       /\ SerialReceives => /\ call[d].st = "done"
                            /\ call[d].result \notin {"answer", "hollow"}

\* async_receive_response called in the strand; the overload without a
\* timeout waits for ever (clock_type::duration::max()).
ReceiveInStrand(c, finite) ==
  /\ MayReceive(c)
  /\ AsyncWait(c, finite, strand)
  /\ UNCHANGED <<phase, held, freed, map, msg, channel, responses, forwarded>>

\* Called on another thread: async_wait_functor is posted to the strand.
ReceivePosted(c, finite) ==
  /\ MayReceive(c)
  /\ call' = [call EXCEPT ![c] = [st |-> "posted", finite |-> finite,
                                  result |-> "none"]]
  /\ strand' = Append(strand, [op |-> "wait", call |-> c])
  /\ UNCHANGED <<phase, held, freed, map, msg, moved, channel,
                 responses, forwarded>>

\* The timer expires: its handler is queued, with no error.
Expire(c) ==
  /\ call[c].st = "waiting" /\ call[c].finite
  /\ call' = [call EXCEPT ![c].st = "ready", ![c].result = "timeout"]
  /\ UNCHANGED <<phase, held, freed, map, msg, moved, strand, channel,
                 responses, forwarded>>

\* Mutant: the adaptor reports its error code and never looks at the message.
WaitHandlerTrustingTimer(c) ==
  /\ call[c].st = "ready"
  /\ call' = [call EXCEPT ![c].st = "done"]
  /\ UNCHANGED <<phase, held, freed, map, msg, moved, strand, channel,
                 responses, forwarded>>

\* wait_handler_adaptor, in the strand: the answer if there is one by now,
\* whatever the timer said, and else the timer's error code.
WaitHandler(c) ==
  /\ call[c].st = "ready"
  /\ \/ /\ Answered(c[1])
        /\ call' = [call EXCEPT ![c].st = "done",
                                ![c].result = Contents(c[1])]
        /\ moved' = [moved EXCEPT ![c[1]] = TRUE]
     \/ /\ ~Answered(c[1])
        /\ call' = [call EXCEPT ![c].st = "done"]
        /\ UNCHANGED moved
  /\ UNCHANGED <<phase, held, freed, map, msg, strand, channel,
                 responses, forwarded>>

-----------------------------------------------------------------------------
(* handle_impl: a reply or an error arrives                                *)

\* set_reply and set_error: construct the answer in place, cancel the timer.
SetMessage(s, answer) ==
  /\ msg' = [msg EXCEPT ![s] = answer]
  /\ moved' = [moved EXCEPT ![s] = FALSE]
  /\ call' = CancelTimer(s)

\* Mutant: the entry that was found stays in the table.
ExtractKeepingEntry(k) == UNCHANGED map

\* extract_transaction: find the entry and erase it, under the mutex.
Extract(k) == map' = [map EXCEPT ![k] = NoTransaction]

\* A response to r: looked up, given to the transaction found if that is
\* still alive, and forwarded to the next decorator otherwise.
HandleResponse(r, kind, lookedUp, inStrand) ==
  LET answer == [kind |-> kind, to |-> r]
      s      == map[Key(r)]
      found  == lookedUp /\ s # NoTransaction /\ Referenced(s)
  IN  /\ channel = "open"
      /\ phase[r] \in {"written", "sent"} /\ responses[r] < MaxResponses
      /\ responses' = [responses EXCEPT ![r] = @ + 1]
      /\ \/ lookedUp /\ Extract(Key(r))
         \/ ~lookedUp /\ UNCHANGED map
      /\ \/ /\ found /\ inStrand
            /\ SetMessage(s, answer)
            /\ UNCHANGED <<strand, forwarded>>
         \/ /\ found /\ ~inStrand
            /\ strand' = Append(strand,
                           [op |-> "set", txn |-> s, answer |-> answer])
            /\ UNCHANGED <<msg, moved, call, forwarded>>
         \/ /\ ~found
            /\ forwarded' = [forwarded EXCEPT ![r] = @ + 1]
            /\ UNCHANGED <<msg, moved, call, strand>>
      /\ UNCHANGED <<phase, held, freed, channel>>

\* handle_impl(is_reply); a multipart reply may come in several messages.
HandleReply(r, inStrand) ==
  /\ Message[r].hasReply
  /\ HandleResponse(r, "reply", TRUE, inStrand)

\* How much of the failed request an error carries: enough for the header,
\* or for the multipart header too, or too little.
Echoes == {"none", "header", "multipart"}

\* handle_impl(is_error): without the fields of the key there is no lookup.
HandleError(r, echo, inStrand) ==
  HandleResponse(r, "error",
                 echo = "multipart" \/ (echo = "header" /\ ~IsMultipart(r)),
                 inStrand)

-----------------------------------------------------------------------------
(* The strand and the channel                                              *)

NextInStrand(op) == strand # <<>> /\ Head(strand).op = op

\* async_wait_functor
RunWait ==
  /\ NextInStrand("wait")
  /\ LET c == Head(strand).call IN AsyncWait(c, call[c].finite, Tail(strand))
  /\ UNCHANGED <<phase, held, freed, map, msg, channel, responses, forwarded>>

\* Mutant: the posted completion is dropped.
RunHandlerDropping ==
  /\ NextInStrand("handler")
  /\ strand' = Tail(strand)
  /\ UNCHANGED <<phase, held, freed, map, msg, moved, call, channel,
                 responses, forwarded>>

\* The handler bound to an answer.
RunHandler ==
  /\ NextInStrand("handler")
  /\ call' = [call EXCEPT ![Head(strand).call].st = "done"]
  /\ strand' = Tail(strand)
  /\ UNCHANGED <<phase, held, freed, map, msg, moved, channel,
                 responses, forwarded>>

\* The lambda handle_impl posts when it does not run in the strand.
RunSet ==
  /\ NextInStrand("set")
  /\ SetMessage(Head(strand).txn, Head(strand).answer)
  /\ strand' = Tail(strand)
  /\ UNCHANGED <<phase, held, freed, map, channel, responses, forwarded>>

\* The reader meets an error and stops: nothing more is handled.
Goodbye ==
  /\ channel = "open"
  /\ channel' = "closed"
  /\ UNCHANGED <<phase, held, freed, map, msg, moved, call, strand,
                 responses, forwarded>>

\* The last pointer to the channel goes, and the table with it.
DestroyChannel ==
  /\ channel = "closed"
  /\ \A r \in Requests : phase[r] \notin {"registered", "writing", "written"}
  /\ channel' = "destroyed"
  /\ map' = [k \in Keys |-> NoTransaction]
  /\ UNCHANGED <<phase, held, freed, msg, moved, call, strand,
                 responses, forwarded>>

-----------------------------------------------------------------------------
RunStrand == RunWait \/ RunHandler \/ RunSet

Next ==
  \/ \E r \in Requests :
       \/ RegisterRequest(r) \/ AsyncSend(r) \/ WriteReaches(r)
       \/ SendHandler(r) \/ SendHandlerError(r)
       \/ ReleaseTransaction(r) \/ DestroyTransaction(r)
       \/ \E inStrand \in ReaderContexts :
            \/ HandleReply(r, inStrand)
            \/ \E echo \in Echoes : HandleError(r, echo, inStrand)
  \/ \E c \in Calls :
       \/ \E finite \in BOOLEAN :
            ReceiveInStrand(c, finite) \/ ReceivePosted(c, finite)
       \/ Expire(c) \/ WaitHandler(c)
  \/ RunStrand
  \/ Goodbye \/ DestroyChannel

Spec == Init /\ [][Next]_vars

(***************************************************************************)
(* The io_service keeps running: it completes every write, runs what is    *)
(* posted or queued to the strand, and completes a wait with a finite      *)
(* timeout.  A thread inside async_send_request or a destructor goes on.   *)
(* Nothing obliges the switch to answer, the application to let a          *)
(* transaction go, or the channel to break.                                *)
(***************************************************************************)
Fairness ==
  /\ WF_vars(RunStrand)
  /\ \A r \in Requests :
       /\ WF_vars(AsyncSend(r))
       /\ WF_vars(WriteReaches(r) \/ SendHandlerError(r))
       /\ WF_vars(SendHandler(r))
       /\ WF_vars(DestroyTransaction(r))
  /\ \A c \in Calls : WF_vars(Expire(c)) /\ WF_vars(WaitHandler(c))

FairSpec == Spec /\ Fairness

-----------------------------------------------------------------------------
(* Safety                                                                  *)

\* set_reply casts the transaction it found, known only as its base class,
\* to the type the reply's request has.  The cast is right: whatever answer
\* a transaction holds is one to a request of its own type and multipart
\* type, even if the application gave two requests the same xid.
AnswersHaveTheRequestsType ==
  \A r \in Requests : Answered(r) =>
    LET s == msg[r].to
    IN  /\ Message[s].type = Message[r].type
        /\ MultipartTypeIfAny(s) = MultipartTypeIfAny(r)

\* A transaction's message is constructed in place, with no destruction of
\* an earlier one: it never happens a second time (set_reply, set_error).
AnsweredOnce ==
  [][\A r \in Requests : Answered(r) => msg'[r] = msg[r]]_vars

\* Under distinct keys an answer belongs to the request it is given to.
AnswersOwnRequest ==
  \A r \in Requests : Answered(r) => msg[r].to = r

\* Under distinct keys no live transaction is lost from the table before its
\* answer is on the way, so the switch's answer will find it: registered
\* before the request is sent, and no destructor erases another's entry.
UnansweredAreFindable ==
  channel # "destroyed" =>
    \A r \in Requests :
      /\ phase[r] # "idle" /\ Referenced(r)
      /\ ~Answered(r) /\ ~SetPosted(r)
      => map[Key(r)] = r

\* The table never keeps an entry for a transaction that is gone (an entry
\* that nothing would erase again), nor for one that has its answer.
NoStaleEntries ==
  \A k \in Keys : map[k] # NoTransaction =>
    /\ ~freed[map[k]]
    /\ ~Answered(map[k]) /\ ~SetPosted(map[k])

\* Every response is accounted for: it is in one transaction's message, on
\* its way there through the strand, or has been forwarded.
NoResponseLost ==
  \A r \in Requests :
    responses[r] = forwarded[r]
      + Cardinality({s \in Requests : Answered(s) /\ msg[s].to = r})
      + Cardinality({i \in 1..Len(strand) :
                       strand[i].op = "set" /\ strand[i].answer.to = r})

\* The adaptors dereference the transaction they were given: nothing frees
\* it while a receive is still under way.
NoReceiveOnFreed ==
  \A c \in Calls :
    call[c].st \in {"posted", "waiting", "ready"} => ~freed[c[1]]

\* A receive that waits has no answer to wait for.
NoneWaitsOnAnswered ==
  \A c \in Calls : call[c].st = "waiting" => ~Answered(c[1])

-----------------------------------------------------------------------------
(* Liveness                                                                *)

\* async_receive_response with a finite timeout calls its handler.
FiniteReceivesEnd ==
  \A c \in Calls :
    call[c].st # "none" /\ call[c].finite ~> call[c].st = "done"

\* A transaction that was sent and that nobody refers to any more leaves the
\* table.
EntriesAreReclaimed ==
  \A r \in Requests :
    phase[r] \in {"sent", "failed"} /\ ~Referenced(r)
      ~> \A k \in Keys : map[k] # r

-----------------------------------------------------------------------------
(* Refinement: the promise of module Transactions.                         *)

Outcome(c) ==
  CASE call[c].st = "none" -> "none"
    [] call[c].st \in {"posted", "waiting", "ready"} -> "pending"
    [] OTHER -> call[c].result

Promise == INSTANCE Transactions WITH
  answer <- [r \in Requests |-> msg[r].kind],
  taken <- moved,
  outcome <- [c \in Calls |-> Outcome(c)]

\* The steps the application sees are those of the promise: a receive is only
\* aborted by another one, fails only without an answer, and takes an answer
\* once; and an answer reaches the receives that wait for it.
KeepsPromiseFairly == Promise!FairSpec

=============================================================================
