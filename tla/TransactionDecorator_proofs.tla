-------------------- MODULE TransactionDecorator_proofs --------------------
(***************************************************************************)
(* Theorems about TransactionDecorator, for every set of requests, every   *)
(* assignment of types and xids, and every bound.                          *)
(***************************************************************************)
EXTENDS TransactionDecorator, TLAPS, FiniteSetTheorems, FunctionTheorems

-----------------------------------------------------------------------------
(* Keys                                                                    *)

\* Two numbers written with a high and a low part agree in both parts.
LEMMA PartsAgree ==
  ASSUME NEW n \in Nat \ {0}, NEW a \in Nat, NEW c \in Nat,
         NEW b \in 0..(n - 1), NEW d \in 0..(n - 1),
         a * n + b = c * n + d
  PROVE  a = c /\ b = d
<1>1. ASSUME NEW x \in Nat, NEW y \in Nat, NEW u \in 0..(n - 1),
             NEW v \in 0..(n - 1), x * n + u = y * n + v, x < y
      PROVE  FALSE
  <2>1. PICK e \in Nat : y = x + 1 + e
    <3>1. y - x - 1 \in Nat
      BY <1>1
    <3> QED BY <3>1
  <2>2. y * n = x * n + n + e * n
    BY <2>1
  <2>3. e * n \in Nat /\ x * n \in Nat
    OBVIOUS
  <2> QED BY <1>1, <2>2, <2>3
<1>2. a = c
  BY <1>1
<1> QED BY <1>2

\* The three fields of a key do not run into one another: requests with the
\* same key have the same type, multipart type and xid (to_key).
THEOREM ToKeyInjective ==
  ASSUME NEW t1 \in Nat, NEW m1 \in 0..(MultipartLimit - 1),
         NEW x1 \in 0..(XidLimit - 1),
         NEW t2 \in Nat, NEW m2 \in 0..(MultipartLimit - 1),
         NEW x2 \in 0..(XidLimit - 1),
         ToKey(t1, m1, x1) = ToKey(t2, m2, x2)
  PROVE  t1 = t2 /\ m1 = m2 /\ x1 = x2
<1> DEFINE h1 == t1 * MultipartLimit + m1
           h2 == t2 * MultipartLimit + m2
<1>1. h1 \in Nat /\ h2 \in Nat
  BY LimitsAssumption
<1>2. h1 * XidLimit + x1 = h2 * XidLimit + x2
  BY DEF ToKey
<1> HIDE DEF h1, h2
<1>3. h1 = h2 /\ x1 = x2
  BY <1>1, <1>2, PartsAgree, LimitsAssumption
<1> QED BY <1>3, PartsAgree, LimitsAssumption DEF h1, h2

-----------------------------------------------------------------------------
(* Type correctness                                                        *)

LEMMA KeyInKeys == \A r \in Requests : Key(r) \in Keys
BY DEF Keys

LEMMA CallParts ==
  ASSUME NEW c \in Calls
  PROVE  c[1] \in Requests /\ c \in CallsOf(c[1])
BY DEF Calls, CallsOf

\* Cancelling a timer keeps the records of receives well formed, and touches
\* the waiting receives of its own transaction only.
LEMMA CancelTimerType ==
  ASSUME TypeOK, NEW r \in Requests
  PROVE  CancelTimer(r) \in [Calls -> CallRecords]
<1>1. SUFFICES ASSUME NEW c \in Calls, call[c].st = "waiting"
               PROVE  [call[c] EXCEPT !.st = "ready", !.result = "aborted"]
                        \in CallRecords
  BY DEF TypeOK, CancelTimer
<1>2. call[c] \in CallRecords
  BY DEF TypeOK
<1> QED BY <1>2 DEF CallRecords, CallStates, Results

LEMMA AsyncWaitType ==
  ASSUME TypeOK, NEW c \in Calls, NEW finite \in BOOLEAN,
         NEW queue \in Seq(StrandItems), AsyncWait(c, finite, queue)
  PROVE  /\ call' \in [Calls -> CallRecords]
         /\ moved' \in [Requests -> BOOLEAN]
         /\ strand' \in Seq(StrandItems)
<1>1. c[1] \in Requests
  BY CallParts
<1>2. CASE AsyncWaitAnswered(c, finite, queue)
  <2>1. Contents(c[1]) \in {"answer", "hollow"}
    BY DEF Contents
  <2>2. [st |-> "bound", finite |-> finite, result |-> Contents(c[1])]
          \in CallRecords
    BY <2>1 DEF CallRecords, CallStates, Results
  <2>3. [op |-> "handler", call |-> c] \in StrandItems
    BY DEF StrandItems
  <2> QED BY <1>1, <1>2, <2>2, <2>3 DEF AsyncWaitAnswered, TypeOK
<1>3. CASE AsyncWaitTimer(c, finite, queue)
  <2>1. [st |-> "waiting", finite |-> finite, result |-> "none"] \in CallRecords
    BY DEF CallRecords, CallStates, Results
  <2>2. CancelTimer(c[1]) \in [Calls -> CallRecords]
    BY <1>1, CancelTimerType
  <2> QED BY <1>3, <2>1, <2>2 DEF AsyncWaitTimer, TypeOK
<1> QED BY <1>2, <1>3 DEF AsyncWait

LEMMA SetMessageType ==
  ASSUME TypeOK, NEW s \in Requests, NEW answer \in Messages,
         SetMessage(s, answer)
  PROVE  /\ msg' \in [Requests -> Messages]
         /\ moved' \in [Requests -> BOOLEAN]
         /\ call' \in [Calls -> CallRecords]
BY CancelTimerType DEF SetMessage, TypeOK

LEMMA HandleResponseType ==
  ASSUME TypeOK, NEW r \in Requests, NEW kind \in {"reply", "error"},
         NEW lookedUp \in BOOLEAN, NEW inStrand \in BOOLEAN,
         HandleResponse(r, kind, lookedUp, inStrand)
  PROVE  TypeOK'
<1> DEFINE answer == [kind |-> kind, to |-> r]
           s      == map[Key(r)]
<1>1. answer \in Messages
  BY DEF Messages
<1>2. /\ responses' \in [Requests -> 0..MaxResponses]
      /\ map' \in [Keys -> Requests \cup {NoTransaction}]
      /\ phase' = phase /\ held' = held /\ freed' = freed
      /\ channel' = channel
  <2>1. responses[r] < MaxResponses
        /\ responses' = [responses EXCEPT ![r] = responses[r] + 1]
    BY DEF HandleResponse
  <2>2. responses' \in [Requests -> 0..MaxResponses]
    BY <2>1, BoundsAssumption DEF TypeOK
  <2>3. map' = [map EXCEPT ![Key(r)] = NoTransaction] \/ map' = map
    BY DEF HandleResponse, Extract
  <2>4. map' \in [Keys -> Requests \cup {NoTransaction}]
    BY <2>3 DEF TypeOK
  <2> QED BY <2>2, <2>4 DEF HandleResponse
<1>3. s \in Requests \cup {NoTransaction}
  BY KeyInKeys DEF TypeOK
<1>4. CASE SetMessage(s, answer) /\ s # NoTransaction
           /\ UNCHANGED <<strand, forwarded>>
  BY <1>1, <1>2, <1>3, <1>4, SetMessageType DEF TypeOK
<1>5. CASE /\ s # NoTransaction
           /\ strand' = Append(strand,
                          [op |-> "set", txn |-> s, answer |-> answer])
           /\ UNCHANGED <<msg, moved, call, forwarded>>
  <2>1. [op |-> "set", txn |-> s, answer |-> answer] \in StrandItems
    BY <1>1, <1>3, <1>5 DEF StrandItems
  <2> QED BY <1>2, <1>5, <2>1 DEF TypeOK
<1>6. CASE /\ forwarded' = [forwarded EXCEPT ![r] = @ + 1]
           /\ UNCHANGED <<msg, moved, call, strand>>
  BY <1>2, <1>6, BoundsAssumption DEF TypeOK, HandleResponse
<1> QED BY <1>4, <1>5, <1>6 DEF HandleResponse

-----------------------------------------------------------------------------
(* What is queued in the strand                                            *)

\* A functor in the queue stands for a receive that was posted or bound, and
\* no receive is queued twice.  Without this a handler could run again on a
\* receive that has ended.
Matches(queue, calls) ==
  /\ \A i \in 1..Len(queue) :
       /\ queue[i].op = "wait" => calls[queue[i].call].st = "posted"
       /\ queue[i].op = "handler" => calls[queue[i].call].st = "bound"
  /\ \A i, j \in 1..Len(queue) :
       /\ queue[i].op # "set" /\ queue[j].op # "set"
       /\ queue[i].call = queue[j].call
       => i = j

StrandMatchesCalls == Matches(strand, call)

NotQueued(queue, c) ==
  \A i \in 1..Len(queue) : queue[i].op # "set" => queue[i].call # c

LEMMA QueuedCall ==
  ASSUME NEW queue \in Seq(StrandItems), NEW i \in 1..Len(queue),
         queue[i].op # "set"
  PROVE  queue[i].call \in Calls /\ queue[i].op \in {"wait", "handler"}
<1>1. queue[i] \in StrandItems
  OBVIOUS
<1> QED BY <1>1 DEF StrandItems

\* Calls that are not queued may change at will.
LEMMA MatchesOtherCalls ==
  ASSUME NEW queue \in Seq(StrandItems), NEW calls, NEW calls2,
         Matches(queue, calls),
         \A c \in Calls : \/ NotQueued(queue, c)
                          \/ calls2[c].st = calls[c].st
  PROVE  Matches(queue, calls2)
<1>1. ASSUME NEW i \in 1..Len(queue), queue[i].op # "set"
      PROVE  calls2[queue[i].call].st = calls[queue[i].call].st
  BY <1>1, QueuedCall DEF NotQueued
<1> QED BY <1>1 DEF Matches

LEMMA MatchesTail ==
  ASSUME NEW queue \in Seq(StrandItems), NEW calls, queue # <<>>,
         Matches(queue, calls)
  PROVE  /\ Matches(Tail(queue), calls)
         /\ Head(queue).op # "set" => NotQueued(Tail(queue), Head(queue).call)
<1>1. /\ Len(queue) \in Nat \ {0} /\ Len(Tail(queue)) = Len(queue) - 1
      /\ Head(queue) = queue[1]
      /\ \A i \in 1..Len(Tail(queue)) :
           i + 1 \in 1..Len(queue) /\ Tail(queue)[i] = queue[i + 1]
  OBVIOUS
<1>2. Matches(Tail(queue), calls)
  <2>1. \A i \in 1..Len(Tail(queue)) :
          /\ Tail(queue)[i].op = "wait" =>
               calls[Tail(queue)[i].call].st = "posted"
          /\ Tail(queue)[i].op = "handler" =>
               calls[Tail(queue)[i].call].st = "bound"
    BY <1>1 DEF Matches
  <2>2. ASSUME NEW i \in 1..Len(Tail(queue)), NEW j \in 1..Len(Tail(queue)),
               Tail(queue)[i].op # "set", Tail(queue)[j].op # "set",
               Tail(queue)[i].call = Tail(queue)[j].call
        PROVE  i = j
    <3>1. i + 1 = j + 1
      BY <1>1, <2>2 DEF Matches
    <3> QED BY <3>1
  <2> QED BY <2>1, <2>2 DEF Matches
<1>3. ASSUME Head(queue).op # "set", NEW i \in 1..Len(Tail(queue)),
             Tail(queue)[i].op # "set", Tail(queue)[i].call = Head(queue).call
      PROVE  FALSE
  <2>1. i + 1 = 1
    BY <1>1, <1>3 DEF Matches
  <2> QED BY <2>1
<1> QED BY <1>2, <1>3 DEF NotQueued

LEMMA MatchesAppend ==
  ASSUME NEW queue \in Seq(StrandItems), NEW calls, NEW item \in StrandItems,
         Matches(queue, calls),
         item.op = "wait" => calls[item.call].st = "posted",
         item.op = "handler" => calls[item.call].st = "bound",
         item.op # "set" => NotQueued(queue, item.call)
  PROVE  Matches(Append(queue, item), calls)
<1> DEFINE longer == Append(queue, item)
<1>1. /\ Len(queue) \in Nat /\ Len(longer) = Len(queue) + 1
      /\ longer[Len(longer)] = item
      /\ \A i \in 1..Len(queue) : longer[i] = queue[i]
      /\ \A i \in 1..Len(longer) : i = Len(longer) \/ i \in 1..Len(queue)
  OBVIOUS
<1> HIDE DEF longer
<1>2. Matches(longer, calls)
  BY <1>1 DEF Matches, NotQueued
<1> QED BY <1>2 DEF longer

\* A receive that is neither posted nor bound is not in the queue.
LEMMA UnqueuedCall ==
  ASSUME NEW queue \in Seq(StrandItems), NEW calls, Matches(queue, calls),
         NEW c, calls[c].st \notin {"posted", "bound"}
  PROVE  NotQueued(queue, c)
BY QueuedCall DEF Matches, NotQueued

LEMMA CancelTimerCalls ==
  ASSUME NEW r \in Requests, NEW c \in Calls
  PROVE  \/ CancelTimer(r)[c] = call[c]
         \/ /\ call[c].st = "waiting" /\ c \in CallsOf(r)
            /\ CancelTimer(r)[c] =
                 [call[c] EXCEPT !.st = "ready", !.result = "aborted"]
BY DEF CancelTimer

LEMMA MatchesCancel ==
  ASSUME TypeOK, NEW r \in Requests, NEW queue \in Seq(StrandItems),
         Matches(queue, call)
  PROVE  Matches(queue, CancelTimer(r))
<1>1. ASSUME NEW c \in Calls, call[c].st = "waiting"
      PROVE  NotQueued(queue, c)
  BY <1>1, UnqueuedCall
<1>2. \A c \in Calls :
        NotQueued(queue, c) \/ CancelTimer(r)[c].st = call[c].st
  BY <1>1, CancelTimerCalls
<1> QED BY <1>2, MatchesOtherCalls

\* async_wait on a receive that is not queued (any more).
LEMMA MatchesAsyncWait ==
  ASSUME TypeOK, NEW c \in Calls, NEW finite \in BOOLEAN,
         NEW queue \in Seq(StrandItems), AsyncWait(c, finite, queue),
         Matches(queue, call), NotQueued(queue, c)
  PROVE  Matches(strand', call')
<1>1. c[1] \in Requests
  BY CallParts
<1>2. CASE AsyncWaitAnswered(c, finite, queue)
  <2> DEFINE item == [op |-> "handler", call |-> c]
  <2>1. item \in StrandItems
    BY DEF StrandItems
  <2>2. /\ strand' = Append(queue, item)
        /\ call' = [call EXCEPT ![c] = [st |-> "bound", finite |-> finite,
                                        result |-> Contents(c[1])]]
    BY <1>2 DEF AsyncWaitAnswered
  <2>3. call'[c].st = "bound" /\ \A d \in Calls \ {c} : call'[d] = call[d]
    BY <2>2 DEF TypeOK
  <2>4. Matches(queue, call')
    BY <2>3, MatchesOtherCalls
  <2> QED BY <2>1, <2>2, <2>3, <2>4, MatchesAppend
<1>3. CASE AsyncWaitTimer(c, finite, queue)
  <2>1. Matches(queue, CancelTimer(c[1]))
    BY <1>1, MatchesCancel
  <2>2. \A d \in Calls : d = c \/ call'[d] = CancelTimer(c[1])[d]
    BY <1>3 DEF AsyncWaitTimer, CancelTimer
  <2>3. Matches(queue, call')
    BY <2>1, <2>2, MatchesOtherCalls
  <2> QED BY <1>3, <2>3 DEF AsyncWaitTimer
<1> QED BY <1>2, <1>3 DEF AsyncWait

-----------------------------------------------------------------------------
(* Type correctness, with StrandMatchesCalls                               *)

TypeInv == TypeOK /\ StrandMatchesCalls

LEMMA InitTypeInv == Init => TypeInv
<1> SUFFICES ASSUME Init PROVE TypeInv
  OBVIOUS
<1>1. [st |-> "none", result |-> "none", finite |-> FALSE] \in CallRecords
  BY DEF CallRecords, CallStates, Results
<1>2. call \in [Calls -> CallRecords]
  BY <1>1 DEF Init
<1>3. map \in [Keys -> Requests \cup {NoTransaction}]
  BY DEF Init
<1>4. msg \in [Requests -> Messages]
  BY DEF Init, Empty, Messages
<1>5. TypeOK
  BY <1>2, <1>3, <1>4, BoundsAssumption DEF Init, TypeOK, Phases
<1>6. StrandMatchesCalls
  BY DEF Init, StrandMatchesCalls, Matches
<1> QED BY <1>5, <1>6 DEF TypeInv

LEMMA NextTypeOK == TypeInv /\ [Next]_vars => TypeOK'
<1> SUFFICES ASSUME TypeOK, StrandMatchesCalls, [Next]_vars PROVE TypeOK'
  BY DEF TypeInv
<1> USE KeyInKeys
<1>1. ASSUME NEW r \in Requests, RegisterRequest(r) PROVE TypeOK'
  BY <1>1 DEF RegisterRequest, TypeOK, Phases
<1>2. ASSUME NEW r \in Requests, AsyncSend(r) PROVE TypeOK'
  BY <1>2 DEF AsyncSend, TypeOK, Phases
<1>3. ASSUME NEW r \in Requests, WriteReaches(r) PROVE TypeOK'
  BY <1>3 DEF WriteReaches, TypeOK, Phases
<1>4. ASSUME NEW r \in Requests, SendHandler(r) PROVE TypeOK'
  BY <1>4 DEF SendHandler, TypeOK, Phases
<1>5. ASSUME NEW r \in Requests, SendHandlerError(r) PROVE TypeOK'
  BY <1>5 DEF SendHandlerError, TypeOK, Phases
<1>6. ASSUME NEW r \in Requests, ReleaseTransaction(r) PROVE TypeOK'
  BY <1>6 DEF ReleaseTransaction, TypeOK
<1>7. ASSUME NEW r \in Requests, DestroyTransaction(r) PROVE TypeOK'
  BY <1>7 DEF DestroyTransaction, TypeOK
<1>8. ASSUME NEW r \in Requests, NEW inStrand \in ReaderContexts,
             HandleReply(r, inStrand)
      PROVE  TypeOK'
  BY <1>8, HandleResponseType, ContextsAssumption DEF HandleReply
<1>9. ASSUME NEW r \in Requests, NEW inStrand \in ReaderContexts,
             NEW echo \in Echoes, HandleError(r, echo, inStrand)
      PROVE  TypeOK'
  <2>1. (echo = "multipart" \/ (echo = "header" /\ ~IsMultipart(r)))
           \in BOOLEAN
    OBVIOUS
  <2> QED BY <1>9, <2>1, HandleResponseType, ContextsAssumption
          DEF HandleError
<1>10. ASSUME NEW c \in Calls, NEW finite \in BOOLEAN,
              ReceiveInStrand(c, finite)
       PROVE  TypeOK'
  <2>1. strand \in Seq(StrandItems)
    BY DEF TypeOK
  <2> QED BY <1>10, <2>1, AsyncWaitType DEF ReceiveInStrand, TypeOK
<1>11. ASSUME NEW c \in Calls, NEW finite \in BOOLEAN,
              ReceivePosted(c, finite)
       PROVE  TypeOK'
  <2>1. [st |-> "posted", finite |-> finite, result |-> "none"] \in CallRecords
    BY DEF CallRecords, CallStates, Results
  <2>2. [op |-> "wait", call |-> c] \in StrandItems
    BY DEF StrandItems
  <2> QED BY <1>11, <2>1, <2>2 DEF ReceivePosted, TypeOK
<1>12. ASSUME NEW c \in Calls, Expire(c) PROVE TypeOK'
  <2>1. call[c].st = "waiting" /\ call[c] \in CallRecords
    BY <1>12 DEF Expire, TypeOK
  <2>2. [call[c] EXCEPT !.st = "ready", !.result = "timeout"] \in CallRecords
    BY <2>1 DEF CallRecords, CallStates, Results
  <2>3. call' = [call EXCEPT ![c] =
                   [call[c] EXCEPT !.st = "ready", !.result = "timeout"]]
    BY <1>12, <2>1 DEF Expire, TypeOK
  <2> QED BY <1>12, <2>2, <2>3 DEF Expire, TypeOK
<1>13. ASSUME NEW c \in Calls, WaitHandler(c) PROVE TypeOK'
  <2>1. call[c].st = "ready" /\ call[c] \in CallRecords
    BY <1>13 DEF WaitHandler, TypeOK
  <2>2. [call[c] EXCEPT !.st = "done", !.result = Contents(c[1])]
          \in CallRecords
    BY <2>1 DEF Contents, CallRecords, CallStates, Results
  <2>3. [call[c] EXCEPT !.st = "done"] \in CallRecords
    BY <2>1 DEF CallRecords, CallStates, Results
  <2>4. \/ call' = [call EXCEPT ![c] = [call[c] EXCEPT !.st = "done",
                                       !.result = Contents(c[1])]]
        \/ call' = [call EXCEPT ![c] = [call[c] EXCEPT !.st = "done"]]
    BY <1>13, <2>1 DEF WaitHandler, TypeOK
  <2>5. call' \in [Calls -> CallRecords]
    BY <2>2, <2>3, <2>4 DEF TypeOK
  <2>6. moved' \in [Requests -> BOOLEAN]
    BY <1>13, CallParts DEF WaitHandler, TypeOK
  <2> QED BY <1>13, <2>5, <2>6 DEF WaitHandler, TypeOK
<1>14. ASSUME RunStrand PROVE TypeOK'
  <2>1. /\ Head(strand) \in StrandItems
        /\ Tail(strand) \in Seq(StrandItems)
    BY <1>14 DEF RunStrand, RunWait, RunHandler, RunSet, NextInStrand, TypeOK
  <2>2. CASE RunWait
    <3>1. Head(strand).call \in Calls
      BY <2>1, <2>2 DEF RunWait, NextInStrand, StrandItems
    <3>2. call[Head(strand).call].finite \in BOOLEAN
      BY <3>1 DEF TypeOK, CallRecords
    <3> QED BY <2>1, <2>2, <3>1, <3>2, AsyncWaitType DEF RunWait, TypeOK
  <2>3. CASE RunHandler
    <3>1. Head(strand).call \in Calls
      BY <2>1, <2>3 DEF RunHandler, NextInStrand, StrandItems
    <3>2. Len(strand) >= 1 /\ Head(strand) = strand[1]
      BY <2>3 DEF RunHandler, NextInStrand, TypeOK
    <3>3. call[Head(strand).call].st = "bound"
      BY <2>3, <3>2 DEF RunHandler, NextInStrand, StrandMatchesCalls, Matches
    <3>4. [call[Head(strand).call] EXCEPT !.st = "done"] \in CallRecords
      BY <3>1, <3>3 DEF TypeOK, CallRecords, CallStates
    <3> QED BY <2>1, <2>3, <3>1, <3>4 DEF RunHandler, TypeOK
  <2>4. CASE RunSet
    <3>1. Head(strand).txn \in Requests /\ Head(strand).answer \in Messages
      BY <2>1, <2>4 DEF RunSet, NextInStrand, StrandItems
    <3> QED BY <2>1, <2>4, <3>1, SetMessageType DEF RunSet, TypeOK
  <2> QED BY <1>14, <2>2, <2>3, <2>4 DEF RunStrand
<1>15. ASSUME Goodbye PROVE TypeOK'
  BY <1>15 DEF Goodbye, TypeOK
<1>16. ASSUME DestroyChannel PROVE TypeOK'
  BY <1>16 DEF DestroyChannel, TypeOK
<1>17. CASE UNCHANGED vars
  BY <1>17 DEF vars, TypeOK
<1> QED BY <1>1, <1>2, <1>3, <1>4, <1>5, <1>6, <1>7, <1>8, <1>9, <1>10, <1>11,
           <1>12, <1>13, <1>14, <1>15, <1>16, <1>17 DEF Next

LEMMA NextStrandMatchesCalls == TypeInv /\ [Next]_vars => StrandMatchesCalls'
<1> SUFFICES ASSUME TypeOK, StrandMatchesCalls, [Next]_vars
             PROVE  Matches(strand', call')
  BY DEF TypeInv, StrandMatchesCalls
<1> USE DEF StrandMatchesCalls
<1>1. strand \in Seq(StrandItems)
  BY DEF TypeOK
<1>2. CASE UNCHANGED <<strand, call>>
  BY <1>2
<1>3. ASSUME NEW r \in Requests, NEW kind \in {"reply", "error"},
             NEW lookedUp \in BOOLEAN, NEW inStrand \in BOOLEAN,
             HandleResponse(r, kind, lookedUp, inStrand)
      PROVE  Matches(strand', call')
  <2> DEFINE s    == map[Key(r)]
             item == [op |-> "set", txn |-> s, answer |-> [kind |-> kind, to |-> r]]
  <2>1. CASE s \in Requests /\ call' = CancelTimer(s) /\ UNCHANGED strand
    BY <1>1, <2>1, MatchesCancel
  <2>2. CASE s \in Requests /\ strand' = Append(strand, item) /\ UNCHANGED call
    <3>1. item \in StrandItems
      BY <2>2 DEF StrandItems, Messages
    <3> QED BY <1>1, <2>2, <3>1, MatchesAppend
  <2>3. s \in Requests \cup {NoTransaction}
    BY KeyInKeys DEF TypeOK
  <2> QED BY <1>2, <1>3, <2>1, <2>2, <2>3 DEF HandleResponse, SetMessage
<1>4. ASSUME NEW c \in Calls, NEW finite \in BOOLEAN, ReceiveInStrand(c, finite)
      PROVE  Matches(strand', call')
  <2>1. NotQueued(strand, c)
    BY <1>1, <1>4, UnqueuedCall DEF ReceiveInStrand, MayReceive
  <2> QED BY <1>1, <1>4, <2>1, MatchesAsyncWait DEF ReceiveInStrand
<1>5. ASSUME NEW c \in Calls, NEW finite \in BOOLEAN, ReceivePosted(c, finite)
      PROVE  Matches(strand', call')
  <2> DEFINE item == [op |-> "wait", call |-> c]
  <2>1. NotQueued(strand, c)
    BY <1>1, <1>5, UnqueuedCall DEF ReceivePosted, MayReceive
  <2>2. /\ call'[c].st = "posted"
        /\ \A d \in Calls \ {c} : call'[d] = call[d]
    BY <1>5 DEF ReceivePosted, TypeOK
  <2>3. Matches(strand, call')
    BY <1>1, <2>1, <2>2, MatchesOtherCalls
  <2>4. item \in StrandItems
    BY DEF StrandItems
  <2> QED BY <1>1, <1>5, <2>1, <2>2, <2>3, <2>4, MatchesAppend DEF ReceivePosted
<1>6. ASSUME NEW c \in Calls, Expire(c) \/ WaitHandler(c)
      PROVE  Matches(strand', call')
  <2>1. NotQueued(strand, c)
    BY <1>1, <1>6, UnqueuedCall DEF Expire, WaitHandler
  <2>2. strand' = strand /\ \A d \in Calls \ {c} : call'[d] = call[d]
    BY <1>6 DEF Expire, WaitHandler, TypeOK
  <2>3. \A d \in Calls : NotQueued(strand, d) \/ call'[d].st = call[d].st
    BY <2>1, <2>2
  <2>4. Matches(strand, call')
    BY <1>1, <2>3, MatchesOtherCalls
  <2> QED BY <2>2, <2>4
<1>7. ASSUME RunStrand PROVE Matches(strand', call')
  <2>1. /\ strand # <<>> /\ Head(strand) \in StrandItems
        /\ Tail(strand) \in Seq(StrandItems)
    BY <1>7 DEF RunStrand, RunWait, RunHandler, RunSet, NextInStrand, TypeOK
  <2>2. /\ Matches(Tail(strand), call)
        /\ Head(strand).op # "set" =>
             NotQueued(Tail(strand), Head(strand).call)
    BY <1>1, <2>1, MatchesTail
  <2>3. CASE RunWait
    <3>1. Head(strand).call \in Calls /\ Head(strand).op # "set"
      BY <2>1, <2>3 DEF RunWait, NextInStrand, StrandItems
    <3>2. call[Head(strand).call].finite \in BOOLEAN
      BY <3>1 DEF TypeOK, CallRecords
    <3> QED BY <2>1, <2>2, <2>3, <3>1, <3>2, MatchesAsyncWait DEF RunWait
  <2>4. CASE RunHandler
    <3>1. Head(strand).call \in Calls /\ Head(strand).op # "set"
      BY <2>1, <2>4 DEF RunHandler, NextInStrand, StrandItems
    <3>2. \A d \in Calls \ {Head(strand).call} : call'[d] = call[d]
      BY <2>4 DEF RunHandler, TypeOK
    <3>3. \A d \in Calls :
            NotQueued(Tail(strand), d) \/ call'[d].st = call[d].st
      BY <2>2, <3>1, <3>2
    <3>4. Matches(Tail(strand), call')
      BY <2>1, <2>2, <3>3, MatchesOtherCalls
    <3> QED BY <2>4, <3>4 DEF RunHandler
  <2>5. CASE RunSet
    <3>1. Head(strand).txn \in Requests
      BY <2>1, <2>5 DEF RunSet, NextInStrand, StrandItems
    <3> QED BY <2>1, <2>2, <2>5, <3>1, MatchesCancel DEF RunSet, SetMessage
  <2> QED BY <1>7, <2>3, <2>4, <2>5 DEF RunStrand
<1>8. ASSUME NEW r \in Requests,
             \/ RegisterRequest(r) \/ AsyncSend(r) \/ WriteReaches(r)
             \/ SendHandler(r) \/ SendHandlerError(r)
             \/ ReleaseTransaction(r) \/ DestroyTransaction(r)
      PROVE  Matches(strand', call')
  BY <1>2, <1>8 DEF RegisterRequest, AsyncSend, WriteReaches, SendHandler,
     SendHandlerError, ReleaseTransaction, DestroyTransaction
<1>9. ASSUME NEW r \in Requests, NEW inStrand \in ReaderContexts,
             \/ HandleReply(r, inStrand)
             \/ \E echo \in Echoes : HandleError(r, echo, inStrand)
      PROVE  Matches(strand', call')
  BY <1>3, <1>9, ContextsAssumption DEF HandleReply, HandleError
<1>10. ASSUME Goodbye \/ DestroyChannel PROVE Matches(strand', call')
  BY <1>2, <1>10 DEF Goodbye, DestroyChannel
<1>11. CASE UNCHANGED vars
  BY <1>2, <1>11 DEF vars
<1> QED BY <1>4, <1>5, <1>6, <1>7, <1>8, <1>9, <1>10, <1>11 DEF Next

LEMMA TypeInvariance == Spec => []TypeInv
<1>1. TypeInv /\ [Next]_vars => TypeInv'
  BY NextTypeOK, NextStrandMatchesCalls DEF TypeInv
<1> QED BY <1>1, InitTypeInv, PTL DEF Spec

\* The variables keep their types; in particular a receive has a result
\* exactly from the moment its handler is bound to one or queued with one.
THEOREM TypeCorrect == Spec => []TypeOK
<1>1. TypeInv => TypeOK
  BY DEF TypeInv
<1> QED BY <1>1, TypeInvariance, PTL

-----------------------------------------------------------------------------
(* The table, the answers on their way, and the answers given              *)

\* An entry leads to a live transaction with that key and no answer yet.
EntriesInv ==
  \A k \in Keys : map[k] # NoTransaction =>
    /\ Key(map[k]) = k /\ phase[map[k]] # "idle" /\ ~freed[map[k]]
    /\ ~Answered(map[k]) /\ ~SetPosted(map[k])
    /\ channel # "destroyed"

\* An answer posted to the strand is for a transaction with the key of the
\* request it answers, which has none so far and will get no other.
PostedInv ==
  /\ \A i \in 1..Len(strand) : strand[i].op = "set" =>
       /\ Key(strand[i].answer.to) = Key(strand[i].txn)
       /\ strand[i].answer.kind # "empty"
       /\ ~Answered(strand[i].txn) /\ phase[strand[i].txn] # "idle"
  /\ \A i, j \in 1..Len(strand) :
       /\ strand[i].op = "set" /\ strand[j].op = "set"
       /\ strand[i].txn = strand[j].txn
       => i = j

AnswersInv ==
  \A r \in Requests :
    /\ Key(msg[r].to) = Key(r)
    /\ phase[r] = "idle" => ~freed[r] /\ ~Answered(r)

TableInv == EntriesInv /\ PostedInv /\ AnswersInv

\* async_wait leaves the answers in the strand where they are.
LEMMA AsyncWaitSets ==
  ASSUME NEW c \in Calls, NEW finite, NEW queue \in Seq(StrandItems),
         AsyncWait(c, finite, queue)
  PROVE  /\ \A i \in 1..Len(strand') : strand'[i].op = "set" =>
              i \in 1..Len(queue) /\ strand'[i] = queue[i]
         /\ \A i \in 1..Len(queue) :
              i \in 1..Len(strand') /\ strand'[i] = queue[i]
<1>1. CASE strand' = queue
  BY <1>1
<1>2. CASE strand' = Append(queue, [op |-> "handler", call |-> c])
  <2> DEFINE item == [op |-> "handler", call |-> c]
  <2>1. /\ Len(queue) \in Nat /\ Len(strand') = Len(queue) + 1
        /\ strand'[Len(strand')] = item
        /\ \A i \in 1..Len(queue) : strand'[i] = queue[i]
    <3>1. item \in StrandItems
      BY DEF StrandItems
    <3> QED BY <1>2, <3>1
  <2>2. item.op # "set"
    OBVIOUS
  <2> QED BY <2>1, <2>2
<1> QED BY <1>1, <1>2 DEF AsyncWait, AsyncWaitAnswered, AsyncWaitTimer

\* A step that leaves the table, the answers and the posted answers alone,
\* and starts or frees nothing, keeps TableInv.
LEMMA TableUntouched ==
  ASSUME TableInv,
         UNCHANGED <<map, msg, freed, channel>>,
         \A r \in Requests : phase'[r] = "idle" <=> phase[r] = "idle",
         strand \in Seq(StrandItems),
         map \in [Keys -> Requests \cup {NoTransaction}],
         NEW n \in Nat,
         \A i \in 1..Len(strand') : strand'[i].op = "set" =>
           i + n \in 1..Len(strand) /\ strand'[i] = strand[i + n]
  PROVE  TableInv'
<1>1. \A r : SetPosted(r)' => SetPosted(r)
  BY DEF SetPosted
<1>2. \A r : Answered(r)' <=> Answered(r)
  BY DEF Answered
<1>3. EntriesInv'
  BY <1>1, <1>2 DEF TableInv, EntriesInv
<1>4. PostedInv'
  <2>1. \A i \in 1..Len(strand') : strand'[i].op = "set" =>
          strand'[i].txn \in Requests
    BY DEF StrandItems
  <2>2. ASSUME NEW i \in 1..Len(strand'), NEW j \in 1..Len(strand'),
               strand'[i].op = "set", strand'[j].op = "set",
               strand'[i].txn = strand'[j].txn
        PROVE  i = j
    <3>1. i + n = j + n
      BY <2>2 DEF TableInv, PostedInv
    <3> QED BY <3>1
  <2> QED BY <1>2, <2>1, <2>2 DEF TableInv, PostedInv
<1>5. AnswersInv'
  BY <1>2 DEF TableInv, AnswersInv
<1> QED BY <1>3, <1>4, <1>5 DEF TableInv

\* What looking up the key of r finds, if a transaction has it.
LEMMA FoundTransaction ==
  ASSUME TypeOK, TableInv, NEW r \in Requests, map[Key(r)] # NoTransaction
  PROVE  LET s == map[Key(r)]
         IN  /\ s \in Requests /\ Key(s) = Key(r)
             /\ phase[s] # "idle" /\ ~Answered(s) /\ ~SetPosted(s)
             /\ \A k \in Keys : k # Key(r) => map[k] # s
BY KeyInKeys DEF TypeOK, TableInv, EntriesInv

LEMMA RegisterTable ==
  ASSUME TypeOK, TableInv, NEW r \in Requests, RegisterRequest(r)
  PROVE  TableInv'
<1>1. /\ phase[r] = "idle" /\ channel # "destroyed"
      /\ UNCHANGED <<freed, msg, strand, channel>>
      /\ \A s \in Requests : phase[s] # "idle" => phase'[s] # "idle"
      /\ \A s \in Requests : phase'[s] = "idle" => phase[s] = "idle"
      /\ phase'[r] # "idle"
  BY DEF RegisterRequest, TypeOK
<1>2. ~freed[r] /\ ~Answered(r) /\ ~SetPosted(r)
  <2>1. \A i \in 1..Len(strand) : strand[i].op = "set" => strand[i].txn # r
    BY <1>1 DEF TableInv, PostedInv
  <2> QED BY <1>1, <2>1 DEF TableInv, AnswersInv, SetPosted
<1>3. \A s : (SetPosted(s)' <=> SetPosted(s)) /\ (Answered(s)' <=> Answered(s))
  BY <1>1 DEF SetPosted, Answered
<1>4. EntriesInv'
  <2>1. \A k \in Keys : map'[k] = map[k] \/ (k = Key(r) /\ map'[k] = r)
    BY KeyInKeys DEF RegisterRequest, TypeOK
  <2>2. \A k \in Keys : map'[k] # NoTransaction => map'[k] \in Requests
    BY <2>1 DEF TypeOK
  <2> QED BY <1>1, <1>2, <1>3, <2>1, <2>2 DEF TableInv, EntriesInv
<1>5. PostedInv'
  <2>1. \A i \in 1..Len(strand) :
          strand[i].op = "set" => strand[i].txn \in Requests
    <3>1. \A i \in 1..Len(strand) : strand[i] \in StrandItems
      BY DEF TypeOK
    <3> QED BY <3>1 DEF StrandItems
  <2>2. strand' = strand
    BY <1>1
  <2> QED BY <1>1, <1>3, <2>1, <2>2 DEF TableInv, PostedInv
<1>6. AnswersInv'
  BY <1>1, <1>3 DEF TableInv, AnswersInv
<1> QED BY <1>4, <1>5, <1>6 DEF TableInv

LEMMA DestroyTable ==
  ASSUME TypeOK, TableInv, NEW r \in Requests, DestroyTransaction(r)
  PROVE  TableInv'
<1>1. /\ phase[r] # "idle" /\ UNCHANGED <<phase, msg, strand, channel>>
      /\ freed' = [freed EXCEPT ![r] = TRUE]
  BY DEF DestroyTransaction
<1>2. \A s : (SetPosted(s)' <=> SetPosted(s)) /\ (Answered(s)' <=> Answered(s))
  BY <1>1 DEF SetPosted, Answered
<1>3. \A k \in Keys : map'[k] # NoTransaction => map'[k] = map[k] /\ map[k] # r
  <2>1. ASSUME ~Answered(r), channel # "destroyed", NEW k \in Keys,
               map'[k] # NoTransaction
        PROVE  map'[k] = map[k] /\ map[k] # r
    <3>1. map' = [map EXCEPT ![Key(r)] = NoTransaction]
      BY <2>1 DEF DestroyTransaction
    <3>2. k # Key(r) /\ map'[k] = map[k]
      BY <2>1, <3>1, KeyInKeys DEF TypeOK
    <3> QED BY <2>1, <3>2 DEF TableInv, EntriesInv
  <2>2. ASSUME Answered(r) \/ channel = "destroyed", NEW k \in Keys,
               map'[k] # NoTransaction
        PROVE  map'[k] = map[k] /\ map[k] # r
    <3>1. map' = map
      BY <2>2 DEF DestroyTransaction
    <3> QED BY <2>2, <3>1 DEF TableInv, EntriesInv
  <2> QED BY <2>1, <2>2
<1>4. EntriesInv'
  BY <1>1, <1>2, <1>3 DEF TableInv, EntriesInv, TypeOK
<1>5. PostedInv'
  BY <1>1, <1>2 DEF TableInv, PostedInv
<1>6. AnswersInv'
  BY <1>1, <1>2 DEF TableInv, AnswersInv, TypeOK
<1> QED BY <1>4, <1>5, <1>6 DEF TableInv

LEMMA RunSetTable ==
  ASSUME TypeOK, TableInv, RunSet
  PROVE  TableInv'
<1> DEFINE s      == strand[1].txn
           answer == strand[1].answer
<1>1. /\ strand \in Seq(StrandItems) /\ Len(strand) \in Nat \ {0}
      /\ strand[1].op = "set" /\ strand[1] \in StrandItems
      /\ Head(strand) = strand[1] /\ strand' = Tail(strand)
      /\ Len(strand') = Len(strand) - 1
      /\ \A i \in 1..Len(strand') :
           i + 1 \in 1..Len(strand) /\ strand'[i] = strand[i + 1]
  BY DEF RunSet, NextInStrand, TypeOK
<1>2. s \in Requests /\ answer \in Messages
  BY <1>1 DEF StrandItems
<1>3. /\ msg' = [msg EXCEPT ![s] = answer]
      /\ UNCHANGED <<phase, freed, map, channel>>
  BY <1>1 DEF RunSet, SetMessage
<1>4. /\ Key(answer.to) = Key(s) /\ answer.kind # "empty"
      /\ ~Answered(s) /\ phase[s] # "idle" /\ SetPosted(s)
  BY <1>1 DEF TableInv, PostedInv, SetPosted
<1> HIDE DEF s, answer
<1>5. \A r \in Requests : r # s => (Answered(r)' <=> Answered(r))
  BY <1>2, <1>3 DEF Answered, TypeOK
<1>6. \A r : SetPosted(r)' => SetPosted(r)
  BY <1>1 DEF SetPosted
<1>7. EntriesInv'
  BY <1>3, <1>4, <1>5, <1>6 DEF TableInv, EntriesInv, TypeOK
<1>8. PostedInv'
  <2>1. \A i \in 1..Len(strand') : strand'[i].op = "set" =>
          strand'[i].txn \in Requests /\ strand'[i].txn # s
    <3>1. \A i \in 1..Len(strand') : strand'[i] \in StrandItems
      BY <1>1
    <3>2. \A i \in 1..Len(strand') : i + 1 # 1
      BY <1>1
    <3> QED BY <1>1, <3>1, <3>2 DEF TableInv, PostedInv, StrandItems, s
  <2>2. ASSUME NEW i \in 1..Len(strand'), NEW j \in 1..Len(strand'),
               strand'[i].op = "set", strand'[j].op = "set",
               strand'[i].txn = strand'[j].txn
        PROVE  i = j
    <3>1. i + 1 = j + 1
      BY <1>1, <2>2 DEF TableInv, PostedInv
    <3> QED BY <1>1, <3>1
  <2> QED BY <1>1, <1>3, <1>5, <2>1, <2>2 DEF TableInv, PostedInv
<1>9. AnswersInv'
  BY <1>2, <1>3, <1>4, <1>5 DEF TableInv, AnswersInv, TypeOK
<1> QED BY <1>7, <1>8, <1>9 DEF TableInv

LEMMA HandleResponseTable ==
  ASSUME TypeOK, TableInv, NEW r \in Requests, NEW kind \in {"reply", "error"},
         NEW lookedUp \in BOOLEAN, NEW inStrand \in BOOLEAN,
         HandleResponse(r, kind, lookedUp, inStrand)
  PROVE  TableInv'
<1> DEFINE answer == [kind |-> kind, to |-> r]
           s      == map[Key(r)]
           item   == [op |-> "set", txn |-> s, answer |-> answer]
<1>1. UNCHANGED <<phase, held, freed, channel>> /\ channel = "open"
  BY DEF HandleResponse
<1>2. \A k \in Keys : map'[k] # NoTransaction =>
        map'[k] = map[k] /\ (lookedUp => k # Key(r))
  BY KeyInKeys DEF HandleResponse, Extract, TypeOK
<1>3. strand \in Seq(StrandItems) /\ Len(strand) \in Nat
  BY DEF TypeOK
<1>4. CASE UNCHANGED <<msg, strand>>
  <2>1. \A t : (SetPosted(t)' <=> SetPosted(t)) /\ (Answered(t)' <=> Answered(t))
    BY <1>4 DEF SetPosted, Answered
  <2>2. EntriesInv'
    BY <1>1, <1>2, <2>1 DEF TableInv, EntriesInv
  <2>3. PostedInv'
    BY <1>1, <1>4, <2>1 DEF TableInv, PostedInv
  <2>4. AnswersInv'
    BY <1>1, <1>4, <2>1 DEF TableInv, AnswersInv
  <2> QED BY <2>2, <2>3, <2>4 DEF TableInv
<1>5. CASE /\ lookedUp /\ s # NoTransaction
           /\ msg' = [msg EXCEPT ![s] = answer] /\ UNCHANGED strand
  <2>1. /\ s \in Requests /\ Key(s) = Key(r)
        /\ phase[s] # "idle" /\ ~Answered(s) /\ ~SetPosted(s)
        /\ \A k \in Keys : k # Key(r) => map[k] # s
    BY <1>5, FoundTransaction
  <2>2. answer.to = r /\ answer.kind # "empty"
    OBVIOUS
  <2> HIDE DEF s, answer
  <2>3. /\ \A t : SetPosted(t)' <=> SetPosted(t)
        /\ \A t \in Requests : t # s => (Answered(t)' <=> Answered(t))
    BY <1>5, <2>1 DEF SetPosted, Answered, TypeOK
  <2>4. EntriesInv'
    BY <1>1, <1>2, <1>5, <2>1, <2>3 DEF TableInv, EntriesInv, TypeOK
  <2>5. \A i \in 1..Len(strand) : strand[i].op = "set" =>
          strand[i].txn \in Requests /\ strand[i].txn # s
    <3>1. \A i \in 1..Len(strand) : strand[i] \in StrandItems
      BY <1>3
    <3> QED BY <2>1, <3>1 DEF SetPosted, StrandItems
  <2>6. PostedInv'
    BY <1>1, <1>5, <2>3, <2>5 DEF TableInv, PostedInv
  <2>7. AnswersInv'
    BY <1>1, <1>5, <2>1, <2>2, <2>3 DEF TableInv, AnswersInv, TypeOK
  <2> QED BY <2>4, <2>6, <2>7 DEF TableInv
<1>6. CASE /\ lookedUp /\ s # NoTransaction
           /\ strand' = Append(strand, item) /\ UNCHANGED msg
  <2>1. /\ s \in Requests /\ Key(s) = Key(r)
        /\ phase[s] # "idle" /\ ~Answered(s) /\ ~SetPosted(s)
        /\ \A k \in Keys : k # Key(r) => map[k] # s
    BY <1>6, FoundTransaction
  <2>2. /\ item \in StrandItems /\ item.txn = s /\ item.op = "set"
        /\ item.answer.to = r /\ item.answer.kind # "empty"
    BY <2>1 DEF StrandItems, Messages
  <2> HIDE DEF s, item
  <2>3. /\ Len(strand') = Len(strand) + 1 /\ strand'[Len(strand')] = item
        /\ \A i \in 1..Len(strand) : strand'[i] = strand[i]
        /\ \A i \in 1..Len(strand') : i = Len(strand') \/ i \in 1..Len(strand)
    BY <1>3, <1>6, <2>2
  <2>4. /\ \A t : SetPosted(t)' => SetPosted(t) \/ t = s
        /\ \A t : Answered(t)' <=> Answered(t)
    BY <1>6, <2>2, <2>3 DEF SetPosted, Answered
  <2>5. EntriesInv'
    BY <1>1, <1>2, <1>6, <2>1, <2>4 DEF TableInv, EntriesInv
  <2>6. \A i \in 1..Len(strand) : strand[i].op = "set" => strand[i].txn # s
    BY <2>1 DEF SetPosted
  <2>7. \A i \in 1..Len(strand') : strand'[i].op = "set" =>
          /\ Key(strand'[i].answer.to) = Key(strand'[i].txn)
          /\ strand'[i].answer.kind # "empty"
          /\ ~Answered(strand'[i].txn) /\ phase[strand'[i].txn] # "idle"
    BY <2>1, <2>2, <2>3 DEF TableInv, PostedInv
  <2>8. ASSUME NEW i \in 1..Len(strand'), NEW j \in 1..Len(strand'),
               strand'[i].op = "set", strand'[j].op = "set",
               strand'[i].txn = strand'[j].txn
        PROVE  i = j
    BY <2>2, <2>3, <2>6, <2>8 DEF TableInv, PostedInv
  <2>9. PostedInv'
    BY <1>1, <2>4, <2>7, <2>8 DEF PostedInv
  <2>10. AnswersInv'
    BY <1>1, <1>6, <2>4 DEF TableInv, AnswersInv
  <2> QED BY <2>5, <2>9, <2>10 DEF TableInv
<1> QED BY <1>4, <1>5, <1>6 DEF HandleResponse, SetMessage

LEMMA InitTableInv == Init => TableInv
BY DEF Init, TableInv, EntriesInv, PostedInv, AnswersInv, Answered, Empty

LEMMA NextTableInv == TypeInv /\ TableInv /\ [Next]_vars => TableInv'
<1> SUFFICES ASSUME TypeOK, TableInv, [Next]_vars PROVE TableInv'
  BY DEF TypeInv
<1>1. /\ strand \in Seq(StrandItems)
      /\ map \in [Keys -> Requests \cup {NoTransaction}]
  BY DEF TypeOK
<1>2. ASSUME UNCHANGED <<map, msg, freed, channel, strand>>,
             \A r \in Requests : phase'[r] = "idle" <=> phase[r] = "idle"
      PROVE  TableInv'
  <2>1. \A i \in 1..Len(strand') :
          i + 0 \in 1..Len(strand) /\ strand'[i] = strand[i + 0]
    BY <1>1, <1>2
  <2> QED BY <1>1, <1>2, <2>1, TableUntouched
<1>3. ASSUME NEW r \in Requests, RegisterRequest(r) PROVE TableInv'
  BY <1>3, RegisterTable
<1>4. ASSUME NEW r \in Requests,
             \/ AsyncSend(r) \/ WriteReaches(r) \/ SendHandler(r)
             \/ SendHandlerError(r) \/ ReleaseTransaction(r)
      PROVE  TableInv'
  <2>1. \A s \in Requests : phase'[s] = "idle" <=> phase[s] = "idle"
    BY <1>4 DEF AsyncSend, WriteReaches, SendHandler, SendHandlerError,
       ReleaseTransaction, TypeOK
  <2> QED BY <1>2, <1>4, <2>1 DEF AsyncSend, WriteReaches, SendHandler,
          SendHandlerError, ReleaseTransaction
<1>5. ASSUME NEW r \in Requests, DestroyTransaction(r) PROVE TableInv'
  BY <1>5, DestroyTable
<1>6. ASSUME NEW r \in Requests, NEW inStrand \in ReaderContexts,
             \/ HandleReply(r, inStrand)
             \/ \E echo \in Echoes : HandleError(r, echo, inStrand)
      PROVE  TableInv'
  BY <1>6, HandleResponseTable, ContextsAssumption DEF HandleReply, HandleError
<1>7. ASSUME NEW c \in Calls, NEW finite \in BOOLEAN, ReceiveInStrand(c, finite)
      PROVE  TableInv'
  <2>1. \A i \in 1..Len(strand') : strand'[i].op = "set" =>
          i + 0 \in 1..Len(strand) /\ strand'[i] = strand[i + 0]
    BY <1>1, <1>7, AsyncWaitSets DEF ReceiveInStrand
  <2> QED BY <1>1, <1>7, <2>1, TableUntouched DEF ReceiveInStrand
<1>8. ASSUME NEW c \in Calls, NEW finite \in BOOLEAN, ReceivePosted(c, finite)
      PROVE  TableInv'
  <2> DEFINE item == [op |-> "wait", call |-> c]
  <2>1. item \in StrandItems /\ item.op # "set"
    BY DEF StrandItems
  <2>2. strand' = Append(strand, item)
    BY <1>8 DEF ReceivePosted
  <2> HIDE DEF item
  <2>3. \A i \in 1..Len(strand') : strand'[i].op = "set" =>
          i + 0 \in 1..Len(strand) /\ strand'[i] = strand[i + 0]
    BY <1>1, <2>1, <2>2
  <2> QED BY <1>1, <1>8, <2>3, TableUntouched DEF ReceivePosted
<1>9. ASSUME NEW c \in Calls, Expire(c) \/ WaitHandler(c) PROVE TableInv'
  BY <1>2, <1>9 DEF Expire, WaitHandler
<1>10. ASSUME RunWait \/ RunHandler PROVE TableInv'
  <2>1. /\ strand # <<>> /\ Tail(strand) \in Seq(StrandItems)
        /\ \A i \in 1..Len(Tail(strand)) :
             i + 1 \in 1..Len(strand) /\ Tail(strand)[i] = strand[i + 1]
    BY <1>1, <1>10 DEF RunWait, RunHandler, NextInStrand
  <2>2. CASE RunHandler
    BY <1>1, <2>1, <2>2, TableUntouched DEF RunHandler
  <2>3. CASE RunWait
    <3>1. Head(strand).call \in Calls
      <4>1. Head(strand) \in StrandItems /\ Head(strand).op = "wait"
        BY <1>1, <2>1, <2>3 DEF RunWait, NextInStrand
      <4> QED BY <4>1 DEF StrandItems
    <3>2. \A i \in 1..Len(strand') : strand'[i].op = "set" =>
            i \in 1..Len(Tail(strand)) /\ strand'[i] = Tail(strand)[i]
      BY <2>1, <2>3, <3>1, AsyncWaitSets DEF RunWait
    <3>3. \A i \in 1..Len(strand') : strand'[i].op = "set" =>
            i + 1 \in 1..Len(strand) /\ strand'[i] = strand[i + 1]
      BY <2>1, <3>2
    <3> QED BY <1>1, <2>3, <3>3, TableUntouched DEF RunWait
  <2> QED BY <1>10, <2>2, <2>3
<1>11. ASSUME RunSet PROVE TableInv'
  BY <1>11, RunSetTable
<1>12. ASSUME Goodbye PROVE TableInv'
  <2>1. \A t : (SetPosted(t)' <=> SetPosted(t)) /\ (Answered(t)' <=> Answered(t))
    BY <1>12 DEF Goodbye, SetPosted, Answered
  <2> QED BY <1>12, <2>1
          DEF Goodbye, TableInv, EntriesInv, PostedInv, AnswersInv
<1>13. ASSUME DestroyChannel PROVE TableInv'
  <2>1. \A t : Answered(t)' <=> Answered(t)
    BY <1>13 DEF DestroyChannel, Answered
  <2> QED BY <1>13, <2>1
          DEF DestroyChannel, TableInv, EntriesInv, PostedInv, AnswersInv
<1>14. CASE UNCHANGED vars
  BY <1>2, <1>14 DEF vars
<1> QED BY <1>3, <1>4, <1>5, <1>6, <1>7, <1>8, <1>9, <1>10, <1>11, <1>12, <1>13,
           <1>14 DEF Next, RunStrand

LEMMA TableInvariance == Spec => []TableInv
BY InitTableInv, NextTableInv, TypeInvariance, PTL DEF Spec

\* The table holds no entry of a transaction that was freed or answered.
THEOREM TableHasNoStaleEntries == Spec => []NoStaleEntries
<1>1. TableInv => NoStaleEntries
  BY DEF TableInv, EntriesInv, NoStaleEntries
<1> QED BY <1>1, TableInvariance, PTL

\* An answer has the type its transaction expects, whatever xids the
\* application chose: the static_cast in set_reply is right.
THEOREM CastIsRight == Spec => []AnswersHaveTheRequestsType
<1>1. ASSUME TypeOK, TableInv PROVE AnswersHaveTheRequestsType
  <2>1. SUFFICES ASSUME NEW r \in Requests
                 PROVE  /\ Message[msg[r].to].type = Message[r].type
                        /\ MultipartTypeIfAny(msg[r].to) = MultipartTypeIfAny(r)
    BY DEF AnswersHaveTheRequestsType
  <2> DEFINE s == msg[r].to
  <2>2. s \in Requests /\ Key(s) = Key(r)
    BY <1>1 DEF TypeOK, Messages, TableInv, AnswersInv
  <2> HIDE DEF s
  <2>3. \A t \in Requests :
          /\ Message[t].type \in Nat /\ Message[t].xid \in 0..(XidLimit - 1)
          /\ MultipartTypeIfAny(t) \in 0..(MultipartLimit - 1)
    BY RequestsAssumption, LimitsAssumption DEF Headers, MultipartTypeIfAny
  <2>4. /\ Message[s].type = Message[r].type
        /\ MultipartTypeIfAny(s) = MultipartTypeIfAny(r)
    BY <2>2, <2>3, ToKeyInjective DEF Key
  <2> QED BY <2>4 DEF s
<1>2. TypeInv /\ TableInv => AnswersHaveTheRequestsType
  BY <1>1 DEF TypeInv
<1> QED BY <1>2, TypeInvariance, TableInvariance, PTL

\* If no two requests share a key, answers go to the requests they answer.
THEOREM AnswersReachTheirRequests ==
  ASSUME UniqueKeys
  PROVE  Spec => []AnswersOwnRequest
<1>1. TypeInv /\ TableInv => AnswersOwnRequest
  BY DEF TypeInv, TypeOK, Messages, TableInv, AnswersInv, UniqueKeys,
     AnswersOwnRequest
<1> QED BY <1>1, TypeInvariance, TableInvariance, PTL

\* An answer is given to one transaction, which had none.
LEMMA AnswersGiven ==
  ASSUME TypeInv, TableInv, [Next]_vars
  PROVE  \/ UNCHANGED msg
         \/ \E s \in Requests, answer \in Messages :
              ~Answered(s) /\ answer.kind # "empty" /\ SetMessage(s, answer)
<1> USE DEF TypeInv
<1>1. ASSUME NEW r \in Requests, NEW inStrand \in ReaderContexts,
             \/ HandleReply(r, inStrand)
             \/ \E echo \in Echoes : HandleError(r, echo, inStrand)
      PROVE  \/ UNCHANGED msg
             \/ \E s \in Requests, answer \in Messages :
                  ~Answered(s) /\ answer.kind # "empty" /\ SetMessage(s, answer)
  <2>1. PICK kind \in {"reply", "error"}, lookedUp \in BOOLEAN :
          HandleResponse(r, kind, lookedUp, inStrand)
    BY <1>1 DEF HandleReply, HandleError
  <2> DEFINE s == map[Key(r)]
             answer == [kind |-> kind, to |-> r]
  <2>2. answer \in Messages /\ answer.kind # "empty"
    BY DEF Messages
  <2>3. CASE s # NoTransaction /\ SetMessage(s, answer)
    <3>1. s \in Requests /\ ~Answered(s)
      BY <2>3, FoundTransaction
    <3> HIDE DEF s, answer
    <3> QED BY <2>2, <2>3, <3>1
  <2>4. CASE UNCHANGED msg
    BY <2>4
  <2> QED BY <2>1, <2>3, <2>4 DEF HandleResponse
<1>2. CASE RunSet
  <2>1. /\ Head(strand) = strand[1] /\ 1 \in 1..Len(strand)
        /\ strand[1] \in StrandItems /\ strand[1].op = "set"
    BY <1>2 DEF RunSet, NextInStrand, TypeOK
  <2>2. /\ strand[1].txn \in Requests /\ strand[1].answer \in Messages
        /\ ~Answered(strand[1].txn) /\ strand[1].answer.kind # "empty"
    BY <2>1 DEF StrandItems, TableInv, PostedInv
  <2> QED BY <1>2, <2>1, <2>2 DEF RunSet
<1>3. CASE UNCHANGED msg
  BY <1>3
<1> QED BY <1>1, <1>2, <1>3 DEF Next, RunStrand, vars, RegisterRequest,
        AsyncSend, WriteReaches, SendHandler, SendHandlerError,
        ReleaseTransaction, DestroyTransaction, ReceiveInStrand,
        ReceivePosted, Expire, WaitHandler, RunWait, RunHandler, Goodbye,
        DestroyChannel

LEMMA AnsweredStays ==
  ASSUME TypeInv, TableInv, [Next]_vars, NEW r \in Requests, Answered(r)
  PROVE  msg'[r] = msg[r]
BY AnswersGiven DEF SetMessage, TypeInv, TypeOK

\* An answer is never constructed over another one.
THEOREM AnswersAreFinal == Spec => AnsweredOnce
<1>1. TypeInv /\ TableInv /\ [Next]_vars
        => [\A r \in Requests : Answered(r) => msg'[r] = msg[r]]_vars
  BY AnsweredStays
<1> QED BY <1>1, TypeInvariance, TableInvariance, PTL DEF Spec, AnsweredOnce

-----------------------------------------------------------------------------
(* Every unanswered transaction can be found                               *)

UnderWay == {"posted", "waiting", "ready"}

\* Only the holder of a transaction puts a receive under way.
LEMMA ReceivesNeedAPointer ==
  ASSUME TypeInv, [Next]_vars, NEW c \in Calls, call'[c].st \in UnderWay
  PROVE  call[c].st \in UnderWay \/ held[c[1]]
<1> USE DEF UnderWay
<1>1. TypeOK /\ StrandMatchesCalls /\ strand \in Seq(StrandItems)
  BY DEF TypeInv, TypeOK
<1>2. ASSUME NEW d \in Calls, NEW finite, NEW queue,
             AsyncWait(d, finite, queue), d # c
      PROVE  call[c].st \in UnderWay
  <2>1. d[1] \in Requests
    BY CallParts
  <2>2. CASE AsyncWaitAnswered(d, finite, queue)
    BY <1>1, <1>2, <2>2 DEF AsyncWaitAnswered, TypeOK
  <2>3. CASE AsyncWaitTimer(d, finite, queue)
    <3>1. call'[c] = CancelTimer(d[1])[c]
      BY <1>2, <2>3 DEF AsyncWaitTimer, CancelTimer
    <3>2. call[c] \in CallRecords
      BY <1>1 DEF TypeOK
    <3> QED BY <2>1, <3>1, <3>2, CancelTimerCalls DEF CallRecords
  <2> QED BY <1>2, <2>2, <2>3 DEF AsyncWait
<1>3. ASSUME NEW s \in Requests, call' = CancelTimer(s)
      PROVE  call[c].st \in UnderWay
  BY <1>3, CancelTimerCalls
<1>4. ASSUME NEW d \in Calls, NEW finite \in BOOLEAN,
             ReceiveInStrand(d, finite) \/ ReceivePosted(d, finite)
      PROVE  call[c].st \in UnderWay \/ held[c[1]]
  <2>1. CASE d = c
    BY <1>4, <2>1 DEF ReceiveInStrand, ReceivePosted, MayReceive
  <2>2. CASE d # c
    BY <1>1, <1>2, <1>4, <2>2 DEF ReceiveInStrand, ReceivePosted, TypeOK
  <2> QED BY <2>1, <2>2
<1>5. CASE RunWait
  <2>1. /\ Head(strand) = strand[1] /\ 1 \in 1..Len(strand)
        /\ strand[1] \in StrandItems /\ strand[1].op = "wait"
    BY <1>1, <1>5 DEF RunWait, NextInStrand
  <2>2. strand[1].call \in Calls /\ call[strand[1].call].st = "posted"
    BY <1>1, <2>1 DEF StrandItems, StrandMatchesCalls, Matches
  <2> QED BY <1>2, <1>5, <2>1, <2>2 DEF RunWait
<1>6. CASE RunHandler
  <2>1. call' = [call EXCEPT ![Head(strand).call].st = "done"]
    BY <1>6 DEF RunHandler
  <2>2. call'[c] = call[c] \/ call'[c].st = "done"
    BY <1>1, <2>1 DEF TypeOK, CallRecords
  <2> QED BY <2>2
<1>7. ASSUME NEW d \in Calls, Expire(d) \/ WaitHandler(d)
      PROVE  call[c].st \in UnderWay
  <2>1. CASE d = c
    BY <1>7, <2>1 DEF Expire, WaitHandler
  <2>2. CASE d # c
    BY <1>1, <1>7, <2>2 DEF Expire, WaitHandler, TypeOK
  <2> QED BY <2>1, <2>2
<1>8. ASSUME NEW s \in Requests, NEW inStrand \in ReaderContexts,
             \/ HandleReply(s, inStrand)
             \/ \E echo \in Echoes : HandleError(s, echo, inStrand)
      PROVE  call[c].st \in UnderWay
  <2>1. call' = call \/ \E t \in Requests : call' = CancelTimer(t)
    BY <1>1, <1>8, KeyInKeys
       DEF HandleReply, HandleError, HandleResponse, SetMessage, TypeOK
  <2> QED BY <1>3, <2>1
<1>9. CASE RunSet
  <2>1. /\ Head(strand) = strand[1] /\ 1 \in 1..Len(strand)
        /\ strand[1] \in StrandItems /\ strand[1].op = "set"
    BY <1>1, <1>9 DEF RunSet, NextInStrand
  <2>2. strand[1].txn \in Requests
    BY <2>1 DEF StrandItems
  <2> QED BY <1>3, <1>9, <2>1, <2>2 DEF RunSet, SetMessage
<1>10. CASE UNCHANGED call
  BY <1>10
<1> QED BY <1>4, <1>5, <1>6, <1>7, <1>8, <1>9, <1>10 DEF Next, RunStrand, vars,
        RegisterRequest, AsyncSend, WriteReaches, SendHandler,
        SendHandlerError, ReleaseTransaction, DestroyTransaction, Goodbye,
        DestroyChannel

\* Only a live transaction gets an answer posted for it.
LEMMA PostedSetsNeedAPointer ==
  ASSUME TypeInv, TableInv, [Next]_vars, NEW r \in Requests, SetPosted(r)'
  PROVE  Referenced(r)
<1>1. TypeOK /\ strand \in Seq(StrandItems) /\ Len(strand) \in Nat
  BY DEF TypeInv, TypeOK
<1>2. PICK i \in 1..Len(strand') : strand'[i].op = "set" /\ strand'[i].txn = r
  BY DEF SetPosted
<1>3. ASSUME NEW j \in 1..Len(strand), strand'[i] = strand[j]
      PROVE  Referenced(r)
  BY <1>2, <1>3 DEF Referenced, SetPosted
<1>4. ASSUME NEW item \in StrandItems, strand' = Append(strand, item)
      PROVE  strand'[i] = item \/ \E j \in 1..Len(strand) : strand'[i] = strand[j]
  BY <1>1, <1>4
<1>5. ASSUME strand # <<>>, strand' = Tail(strand) PROVE Referenced(r)
  <2>1. i + 1 \in 1..Len(strand) /\ strand'[i] = strand[i + 1]
    BY <1>1, <1>5
  <2> QED BY <1>3, <2>1
<1>6. ASSUME NEW c \in Calls, NEW finite \in BOOLEAN, ReceiveInStrand(c, finite)
      PROVE  Referenced(r)
  BY <1>1, <1>2, <1>3, <1>6, AsyncWaitSets DEF ReceiveInStrand
<1>7. ASSUME NEW c \in Calls, NEW finite \in BOOLEAN, ReceivePosted(c, finite)
      PROVE  Referenced(r)
  <2> DEFINE item == [op |-> "wait", call |-> c]
  <2>1. item \in StrandItems /\ item.op # "set" /\ strand' = Append(strand, item)
    BY <1>7 DEF StrandItems, ReceivePosted
  <2> HIDE DEF item
  <2> QED BY <1>2, <1>3, <1>4, <2>1
<1>8. CASE RunWait
  <2>1. /\ strand # <<>> /\ Tail(strand) \in Seq(StrandItems)
        /\ Head(strand) \in StrandItems /\ Head(strand).op = "wait"
        /\ \A j \in 1..Len(Tail(strand)) :
             j + 1 \in 1..Len(strand) /\ Tail(strand)[j] = strand[j + 1]
    BY <1>1, <1>8 DEF RunWait, NextInStrand
  <2>2. Head(strand).call \in Calls
    BY <2>1 DEF StrandItems
  <2>3. i \in 1..Len(Tail(strand)) /\ strand'[i] = Tail(strand)[i]
    BY <1>2, <1>8, <2>1, <2>2, AsyncWaitSets DEF RunWait
  <2> QED BY <1>3, <2>1, <2>3
<1>9. ASSUME NEW s \in Requests, NEW inStrand \in ReaderContexts,
             \/ HandleReply(s, inStrand)
             \/ \E echo \in Echoes : HandleError(s, echo, inStrand)
      PROVE  Referenced(r)
  <2>1. PICK kind \in {"reply", "error"}, lookedUp \in BOOLEAN :
          HandleResponse(s, kind, lookedUp, inStrand)
    BY <1>9 DEF HandleReply, HandleError
  <2> DEFINE t    == map[Key(s)]
             item == [op |-> "set", txn |-> t,
                      answer |-> [kind |-> kind, to |-> s]]
  <2>2. CASE /\ t # NoTransaction /\ Referenced(t)
             /\ strand' = Append(strand, item)
    <3>1. item \in StrandItems /\ item.txn = t
      BY <1>1, <2>2, KeyInKeys DEF StrandItems, Messages, TypeOK
    <3> HIDE DEF item
    <3> QED BY <1>2, <1>3, <1>4, <2>2, <3>1
  <2>3. CASE UNCHANGED strand
    BY <1>2, <1>3, <2>3
  <2> QED BY <2>1, <2>2, <2>3 DEF HandleResponse
<1>10. CASE UNCHANGED strand
  BY <1>2, <1>3, <1>10
<1> QED BY <1>5, <1>6, <1>7, <1>8, <1>9, <1>10 DEF Next, RunStrand, vars,
        RegisterRequest, AsyncSend, WriteReaches, SendHandler,
        SendHandlerError, ReleaseTransaction, DestroyTransaction, Expire,
        WaitHandler, RunHandler, RunSet, NextInStrand, Goodbye, DestroyChannel

\* Once a transaction is registered, pointers to it only ever go away.
LEMMA ReferencesDwindle ==
  ASSUME TypeInv, TableInv, [Next]_vars, NEW r \in Requests,
         phase[r] # "idle", Referenced(r)'
  PROVE  Referenced(r)
<1>1. CASE phase'[r] \in {"registered", "writing", "written"} \/ held'[r]
  <2>1. TypeOK
    BY DEF TypeInv
  <2>2. ASSUME NEW s \in Requests,
               \/ RegisterRequest(s) \/ AsyncSend(s) \/ WriteReaches(s)
               \/ SendHandlerError(s)
        PROVE  Referenced(r)
    <3>1. /\ held'[r] = held[r]
          /\ phase'[r] = phase[r] \/ phase[r] \in {"registered", "writing"}
      BY <2>1, <2>2 DEF RegisterRequest, AsyncSend, WriteReaches,
         SendHandlerError, TypeOK
    <3> QED BY <1>1, <3>1 DEF Referenced
  <2>3. ASSUME NEW s \in Requests, SendHandler(s) \/ ReleaseTransaction(s)
        PROVE  Referenced(r)
    <3>1. \/ phase[r] = "written"
          \/ phase'[r] = phase[r] /\ (held'[r] => held[r])
      BY <2>1, <2>3 DEF SendHandler, ReleaseTransaction, TypeOK
    <3> QED BY <1>1, <3>1 DEF Referenced
  <2>4. CASE UNCHANGED <<phase, held>>
    BY <1>1, <2>4 DEF Referenced
  <2> QED BY <2>2, <2>3, <2>4 DEF Next, RunStrand, vars, DestroyTransaction,
          HandleReply, HandleError, HandleResponse, ReceiveInStrand,
          ReceivePosted, Expire, WaitHandler, RunWait, RunHandler, RunSet,
          Goodbye, DestroyChannel
<1>2. CASE \E c \in CallsOf(r) : call'[c].st \in UnderWay
  <2>1. PICK c \in CallsOf(r) : call'[c].st \in UnderWay
    BY <1>2
  <2>2. c \in Calls /\ c[1] = r
    BY DEF CallsOf, Calls
  <2> QED BY <2>1, <2>2, ReceivesNeedAPointer DEF Referenced, UnderWay
<1>3. CASE SetPosted(r)'
  BY <1>3, PostedSetsNeedAPointer
<1> QED BY <1>1, <1>2, <1>3 DEF Referenced, UnderWay

\* An answer that was posted stays posted until it is given.
LEMMA PostedSetsArrive ==
  ASSUME TypeInv, TableInv, [Next]_vars, NEW r \in Requests, SetPosted(r)
  PROVE  SetPosted(r)' \/ Answered(r)'
<1>1. TypeOK /\ strand \in Seq(StrandItems) /\ Len(strand) \in Nat
  BY DEF TypeInv, TypeOK
<1>2. PICK i \in 1..Len(strand) : strand[i].op = "set" /\ strand[i].txn = r
  BY DEF SetPosted
<1>3. ASSUME NEW j \in 1..Len(strand'), strand'[j] = strand[i]
      PROVE  SetPosted(r)'
  BY <1>2, <1>3 DEF SetPosted
<1>4. ASSUME NEW item \in StrandItems, strand' = Append(strand, item)
      PROVE  SetPosted(r)'
  <2>1. i \in 1..Len(strand') /\ strand'[i] = strand[i]
    BY <1>1, <1>4
  <2> QED BY <1>3, <2>1
<1>5. ASSUME RunWait \/ RunHandler PROVE SetPosted(r)'
  <2>1. /\ strand # <<>> /\ Tail(strand) \in Seq(StrandItems)
        /\ Head(strand) \in StrandItems /\ Head(strand) = strand[1]
        /\ Head(strand).op # "set" /\ Len(Tail(strand)) = Len(strand) - 1
        /\ \A j \in 1..Len(Tail(strand)) : Tail(strand)[j] = strand[j + 1]
    BY <1>1, <1>5 DEF RunWait, RunHandler, NextInStrand
  <2>2. i # 1 /\ i - 1 \in 1..Len(Tail(strand))
    BY <1>1, <1>2, <2>1
  <2>3. Tail(strand)[i - 1] = strand[i]
    BY <2>1, <2>2
  <2>4. CASE RunHandler
    BY <1>3, <2>2, <2>3, <2>4 DEF RunHandler
  <2>5. CASE RunWait
    <3>1. Head(strand).call \in Calls
      BY <2>1, <2>5 DEF RunWait, NextInStrand, StrandItems
    <3>2. i - 1 \in 1..Len(strand') /\ strand'[i - 1] = Tail(strand)[i - 1]
      BY <2>1, <2>2, <2>5, <3>1, AsyncWaitSets DEF RunWait
    <3> QED BY <1>3, <2>3, <3>2
  <2> QED BY <1>5, <2>4, <2>5
<1>6. ASSUME RunSet PROVE SetPosted(r)' \/ Answered(r)'
  <2>1. /\ Head(strand) = strand[1] /\ 1 \in 1..Len(strand)
        /\ strand' = Tail(strand) /\ Len(strand') = Len(strand) - 1
        /\ \A j \in 1..Len(strand') : strand'[j] = strand[j + 1]
    BY <1>1, <1>6 DEF RunSet, NextInStrand
  <2>2. CASE i = 1
    <3>1. msg' = [msg EXCEPT ![r] = strand[1].answer]
      BY <1>2, <1>6, <2>1, <2>2 DEF RunSet, SetMessage
    <3>2. strand[1].answer.kind # "empty"
      BY <1>2, <2>1, <2>2 DEF TableInv, PostedInv
    <3> QED BY <1>1, <3>1, <3>2 DEF Answered, TypeOK
  <2>3. CASE i # 1
    <3>1. i - 1 \in 1..Len(strand')
      BY <1>1, <2>1, <2>3
    <3>2. strand'[i - 1] = strand[i]
      BY <1>1, <2>1, <3>1
    <3> QED BY <1>3, <3>1, <3>2
  <2> QED BY <2>2, <2>3
<1>7. ASSUME NEW c \in Calls, NEW finite \in BOOLEAN, ReceiveInStrand(c, finite)
      PROVE  SetPosted(r)'
  BY <1>1, <1>3, <1>7, AsyncWaitSets DEF ReceiveInStrand
<1>8. ASSUME NEW c \in Calls, NEW finite \in BOOLEAN, ReceivePosted(c, finite)
      PROVE  SetPosted(r)'
  <2>1. [op |-> "wait", call |-> c] \in StrandItems
    BY DEF StrandItems
  <2> QED BY <1>4, <1>8, <2>1 DEF ReceivePosted
<1>9. ASSUME NEW s \in Requests, NEW inStrand \in ReaderContexts,
             \/ HandleReply(s, inStrand)
             \/ \E echo \in Echoes : HandleError(s, echo, inStrand)
      PROVE  SetPosted(r)'
  <2>1. PICK kind \in {"reply", "error"}, lookedUp \in BOOLEAN :
          HandleResponse(s, kind, lookedUp, inStrand)
    BY <1>9 DEF HandleReply, HandleError
  <2>2. CASE UNCHANGED strand
    BY <1>3, <2>2
  <2>3. CASE /\ map[Key(s)] # NoTransaction
             /\ strand' = Append(strand, [op |-> "set", txn |-> map[Key(s)],
                            answer |-> [kind |-> kind, to |-> s]])
    <3>1. [op |-> "set", txn |-> map[Key(s)],
           answer |-> [kind |-> kind, to |-> s]] \in StrandItems
      BY <1>1, <2>3, KeyInKeys DEF StrandItems, Messages, TypeOK
    <3> QED BY <1>4, <2>3, <3>1
  <2> QED BY <2>1, <2>2, <2>3 DEF HandleResponse
<1>10. CASE UNCHANGED strand
  BY <1>3, <1>10
<1> QED BY <1>5, <1>6, <1>7, <1>8, <1>9, <1>10 DEF Next, RunStrand, vars,
        RegisterRequest, AsyncSend, WriteReaches, SendHandler,
        SendHandlerError, ReleaseTransaction, DestroyTransaction, Expire,
        WaitHandler, Goodbye, DestroyChannel

\* With distinct keys the switch's answer finds its transaction as long as
\* anyone refers to that: no entry is missing, and none is erased early.
LEMMA FindableInvariant ==
  ASSUME UniqueKeys, TypeInv, TableInv, UnansweredAreFindable, [Next]_vars
  PROVE  UnansweredAreFindable'
<1>1. SUFFICES ASSUME NEW r \in Requests, channel' # "destroyed",
                      phase'[r] # "idle", Referenced(r)', ~Answered(r)',
                      ~SetPosted(r)'
               PROVE  map'[Key(r)] = r
  BY DEF UnansweredAreFindable
<1>2. TypeOK /\ Key(r) \in Keys
  BY KeyInKeys DEF TypeInv
<1>3. ASSUME RegisterRequest(r) PROVE map'[Key(r)] = r
  <2>1. map[Key(r)] = NoTransaction
    <3>1. ASSUME map[Key(r)] # NoTransaction PROVE FALSE
      <4>1. map[Key(r)] = r
        BY <1>2, <3>1, FoundTransaction DEF UniqueKeys
      <4> QED BY <1>2, <1>3, <3>1, <4>1, FoundTransaction DEF RegisterRequest
    <3> QED BY <3>1
  <2> QED BY <1>2, <1>3, <2>1 DEF RegisterRequest, TypeOK
<1>4. CASE phase[r] = "idle"
  <2>1. RegisterRequest(r)
    BY <1>1, <1>2, <1>4 DEF TypeOK, Next, RunStrand, vars, RegisterRequest,
       AsyncSend, WriteReaches, SendHandler, SendHandlerError,
       ReleaseTransaction, DestroyTransaction, HandleReply, HandleError,
       HandleResponse, ReceiveInStrand, ReceivePosted, Expire, WaitHandler,
       RunWait, RunHandler, RunSet, Goodbye, DestroyChannel
  <2> QED BY <1>3, <2>1
<1>5. CASE phase[r] # "idle"
  <2>1. Referenced(r)
    BY <1>1, <1>5, ReferencesDwindle
  <2>2. channel # "destroyed"
    BY <1>1, <1>2 DEF TypeOK, Next, RunStrand, vars, RegisterRequest,
       AsyncSend, WriteReaches, SendHandler, SendHandlerError,
       ReleaseTransaction, DestroyTransaction, HandleReply, HandleError,
       HandleResponse, ReceiveInStrand, ReceivePosted, Expire, WaitHandler,
       RunWait, RunHandler, RunSet, Goodbye, DestroyChannel
  <2>3. ~Answered(r)
    BY <1>1, AnsweredStays DEF Answered
  <2>4. ~SetPosted(r)
    BY <1>1, PostedSetsArrive
  <2>5. map[Key(r)] = r
    BY <1>5, <2>1, <2>2, <2>3, <2>4 DEF UnansweredAreFindable
  <2>6. r # NoTransaction /\ \A s \in Requests : s # r => Key(s) # Key(r)
    BY RequestsAssumption DEF UniqueKeys
  <2>7. ASSUME NEW s \in Requests, RegisterRequest(s) PROVE map'[Key(r)] = r
    BY <1>2, <2>5, <2>6, <2>7 DEF RegisterRequest, TypeOK
  <2>8. ASSUME NEW s \in Requests, DestroyTransaction(s)
        PROVE  map'[Key(r)] = r
    <3>1. s # r
      BY <2>1, <2>8 DEF DestroyTransaction
    <3>2. Key(s) # Key(r)
      BY <2>6, <3>1
    <3> QED BY <1>2, <2>5, <2>8, <3>2 DEF DestroyTransaction, TypeOK
  <2>9. ASSUME NEW s \in Requests, NEW kind \in {"reply", "error"},
               NEW lookedUp \in BOOLEAN, NEW inStrand \in BOOLEAN,
               HandleResponse(s, kind, lookedUp, inStrand)
        PROVE  map'[Key(r)] = r
    <3>1. CASE ~lookedUp \/ s # r
      <4>1. ~lookedUp \/ Key(s) # Key(r)
        BY <2>6, <3>1
      <4> QED BY <1>2, <2>5, <2>9, <4>1 DEF HandleResponse, Extract, TypeOK
    <3>2. CASE lookedUp /\ s = r
      <4> DEFINE answer == [kind |-> kind, to |-> r]
                 item   == [op |-> "set", txn |-> r, answer |-> answer]
      <4>1. \/ SetMessage(r, answer)
            \/ strand' = Append(strand, item)
        BY <2>1, <2>5, <2>6, <2>9, <3>2 DEF HandleResponse
      <4>2. CASE SetMessage(r, answer)
        BY <1>1, <1>2, <4>2 DEF SetMessage, Answered, TypeOK
      <4>3. CASE strand' = Append(strand, item)
        <5>1. item \in StrandItems /\ item.op = "set" /\ item.txn = r
          BY DEF StrandItems, Messages
        <5> HIDE DEF item
        <5>2. /\ Len(strand') \in 1..Len(strand')
              /\ strand'[Len(strand')] = item
          BY <1>2, <4>3, <5>1 DEF TypeOK
        <5>3. SetPosted(r)'
          BY <5>1, <5>2 DEF SetPosted
        <5> QED BY <1>1, <5>3
      <4> QED BY <4>1, <4>2, <4>3
    <3> QED BY <3>1, <3>2
  <2>10. ASSUME NEW s \in Requests, NEW inStrand \in ReaderContexts,
                \/ HandleReply(s, inStrand)
                \/ \E echo \in Echoes : HandleError(s, echo, inStrand)
         PROVE  map'[Key(r)] = r
    BY <2>9, <2>10, ContextsAssumption DEF HandleReply, HandleError
  <2>11. CASE UNCHANGED map
    BY <2>5, <2>11
  <2>12. CASE DestroyChannel
    BY <1>1, <2>12 DEF DestroyChannel
  <2> QED BY <2>7, <2>8, <2>10, <2>11, <2>12 DEF Next, RunStrand, vars,
          AsyncSend, WriteReaches, SendHandler, SendHandlerError,
          ReleaseTransaction, ReceiveInStrand, ReceivePosted, Expire,
          WaitHandler, RunWait, RunHandler, RunSet, Goodbye
<1> QED BY <1>4, <1>5

THEOREM LiveTransactionsAreFound ==
  ASSUME UniqueKeys
  PROVE  Spec => []UnansweredAreFindable
<1>1. Init => UnansweredAreFindable
  BY DEF Init, UnansweredAreFindable
<1>2. TypeInv /\ TableInv /\ UnansweredAreFindable /\ [Next]_vars
        => UnansweredAreFindable'
  BY FindableInvariant
<1> QED BY <1>1, <1>2, TypeInvariance, TableInvariance, PTL DEF Spec

-----------------------------------------------------------------------------
(* Receives under way                                                      *)

\* What is freed was started, and nothing refers to it.
FreedInv == \A r \in Requests : freed[r] => ~Referenced(r)

LEMMA NextFreedInv == TypeInv /\ TableInv /\ FreedInv /\ [Next]_vars => FreedInv'
<1> SUFFICES ASSUME TypeInv, TableInv, FreedInv, [Next]_vars,
                    NEW r \in Requests, freed'[r], Referenced(r)'
             PROVE  FALSE
  BY DEF FreedInv
<1>1. CASE freed[r]
  <2>1. phase[r] # "idle"
    BY <1>1 DEF TableInv, AnswersInv
  <2>2. Referenced(r)
    BY <2>1, ReferencesDwindle
  <2> QED BY <1>1, <2>2 DEF FreedInv
<1>2. CASE ~freed[r]
  <2>1. DestroyTransaction(r)
    <3>1. ASSUME NEW s \in Requests, DestroyTransaction(s), s # r
          PROVE  freed'[r] = freed[r]
      BY <3>1 DEF DestroyTransaction, TypeInv, TypeOK
    <3> QED BY <1>2, <3>1 DEF Next, RunStrand, vars, RegisterRequest,
            AsyncSend, WriteReaches, SendHandler, SendHandlerError,
            ReleaseTransaction, HandleReply, HandleError, HandleResponse,
            ReceiveInStrand, ReceivePosted, Expire, WaitHandler, RunWait,
            RunHandler, RunSet, Goodbye, DestroyChannel
  <2>2. phase[r] # "idle" /\ ~Referenced(r)
    BY <2>1 DEF DestroyTransaction
  <2> QED BY <2>2, ReferencesDwindle
<1> QED BY <1>1, <1>2

LEMMA FreedInvariance == Spec => []FreedInv
<1>1. Init => FreedInv
  BY DEF Init, FreedInv
<1> QED BY <1>1, NextFreedInv, TypeInvariance, TableInvariance, PTL DEF Spec

\* A transaction that a receive, posted or waiting, will still dereference is
\* not destroyed: async_wait_functor and wait_handler_adaptor own it.
THEOREM ReceivesKeepTransactions == Spec => []NoReceiveOnFreed
<1>1. FreedInv => NoReceiveOnFreed
  <2> SUFFICES ASSUME FreedInv, NEW c \in Calls,
                      call[c].st \in {"posted", "waiting", "ready"}
               PROVE  ~freed[c[1]]
    BY DEF NoReceiveOnFreed
  <2>1. c[1] \in Requests /\ c \in CallsOf(c[1])
    BY CallParts
  <2>2. Referenced(c[1])
    BY <2>1 DEF Referenced
  <2> QED BY <2>1, <2>2 DEF FreedInv
<1> QED BY <1>1, FreedInvariance, PTL

\* What a step does to a receive.  It is aborted in favour of another one, or
\* because the answer arrives.
CallMove(c) ==
  \/ call'[c] = call[c]
  \/ call[c].st = "none" /\ call'[c].st = "posted"
  \/ /\ call[c].st \in {"none", "posted"} /\ call'[c].st = "waiting"
     /\ ~Answered(c[1]) /\ UNCHANGED msg
  \/ /\ call[c].st = "waiting" /\ call'[c].st = "ready"
     /\ call'[c].result = "timeout"
  \/ /\ call[c].st = "waiting" /\ call'[c].st = "ready"
     /\ call'[c].result = "aborted"
     /\ \/ Answered(c[1])'
        \/ \E d \in CallsOf(c[1]) : d # c /\ call'[d].st # "none"
  \/ call'[c].st \in {"bound", "done"}

LEMMA CallMoves ==
  ASSUME TypeInv, TableInv, [Next]_vars, NEW c \in Calls
  PROVE  CallMove(c)
<1>1. /\ TypeOK /\ StrandMatchesCalls /\ strand \in Seq(StrandItems)
      /\ call \in [Calls -> CallRecords] /\ c[1] \in Requests
      /\ c \in CallsOf(c[1])
  BY CallParts DEF TypeInv, TypeOK
<1>2. ASSUME NEW d \in Calls, NEW finite \in BOOLEAN, NEW queue,
             AsyncWait(d, finite, queue), UNCHANGED msg,
             call[d].st \in {"none", "posted"}
      PROVE  CallMove(c)
  <2>1. d[1] \in Requests /\ d \in CallsOf(d[1])
    BY CallParts
  <2>2. CASE AsyncWaitAnswered(d, finite, queue)
    <3>1. call'[d].st = "bound" /\ \A e \in Calls : e # d => call'[e] = call[e]
      BY <1>1, <2>2 DEF AsyncWaitAnswered
    <3> QED BY <3>1 DEF CallMove
  <2>3. CASE AsyncWaitTimer(d, finite, queue)
    <3>1. /\ call'[d].st = "waiting" /\ ~Answered(d[1])
          /\ \A e \in Calls : e # d => call'[e] = CancelTimer(d[1])[e]
      BY <2>3 DEF AsyncWaitTimer, CancelTimer
    <3>2. CASE c = d
      BY <1>2, <3>1, <3>2 DEF CallMove
    <3>3. CASE c # d
      <4>1. CASE call'[c] = call[c]
        BY <4>1 DEF CallMove
      <4>2. CASE /\ call[c].st = "waiting" /\ c \in CallsOf(d[1])
                 /\ call'[c] =
                      [call[c] EXCEPT !.st = "ready", !.result = "aborted"]
        <5>1. c[1] = d[1]
          BY <4>2 DEF CallsOf
        <5>2. call'[c].st = "ready" /\ call'[c].result = "aborted"
          BY <1>1, <4>2 DEF CallRecords
        <5> QED BY <2>1, <3>1, <3>3, <4>2, <5>1, <5>2 DEF CallMove
      <4> QED BY <2>1, <3>1, <3>3, <4>1, <4>2, CancelTimerCalls
    <3> QED BY <3>2, <3>3
  <2> QED BY <1>2, <2>2, <2>3 DEF AsyncWait
<1>3. ASSUME NEW s \in Requests, NEW answer \in Messages,
             answer.kind # "empty", SetMessage(s, answer)
      PROVE  CallMove(c)
  <2>1. CASE call'[c] = call[c]
    BY <2>1 DEF CallMove
  <2>2. CASE /\ call[c].st = "waiting" /\ c \in CallsOf(s)
             /\ call'[c] =
                  [call[c] EXCEPT !.st = "ready", !.result = "aborted"]
    <3>1. c[1] = s
      BY <2>2 DEF CallsOf
    <3>2. call'[c].st = "ready" /\ call'[c].result = "aborted"
      BY <1>1, <2>2 DEF CallRecords
    <3>3. Answered(s)'
      BY <1>1, <1>3 DEF SetMessage, Answered, TypeOK
    <3> QED BY <2>2, <3>1, <3>2, <3>3 DEF CallMove
  <2> QED BY <1>3, <2>1, <2>2, CancelTimerCalls DEF SetMessage
<1>4. ASSUME NEW d \in Calls, NEW finite \in BOOLEAN, ReceiveInStrand(d, finite)
      PROVE  CallMove(c)
  BY <1>2, <1>4 DEF ReceiveInStrand, MayReceive
<1>5. ASSUME NEW d \in Calls, NEW finite \in BOOLEAN, ReceivePosted(d, finite)
      PROVE  CallMove(c)
  <2>1. /\ call[d].st = "none" /\ call'[d].st = "posted"
        /\ \A e \in Calls : e # d => call'[e] = call[e]
    BY <1>1, <1>5 DEF ReceivePosted, MayReceive
  <2> QED BY <2>1 DEF CallMove
<1>6. CASE RunWait
  <2>1. /\ Head(strand) = strand[1] /\ 1 \in 1..Len(strand)
        /\ strand[1] \in StrandItems /\ strand[1].op = "wait"
    BY <1>1, <1>6 DEF RunWait, NextInStrand
  <2>2. strand[1].call \in Calls /\ call[strand[1].call].st = "posted"
    BY <1>1, <2>1 DEF StrandItems, StrandMatchesCalls, Matches
  <2>3. call[strand[1].call].finite \in BOOLEAN
    BY <1>1, <2>2 DEF CallRecords
  <2> QED BY <1>2, <1>6, <2>1, <2>2, <2>3 DEF RunWait
<1>7. CASE RunHandler
  <2>1. call' = [call EXCEPT ![Head(strand).call].st = "done"]
    BY <1>7 DEF RunHandler
  <2>2. call'[c] = call[c] \/ call'[c].st = "done"
    BY <1>1, <2>1 DEF CallRecords
  <2> QED BY <2>2 DEF CallMove
<1>8. ASSUME NEW d \in Calls, Expire(d) PROVE CallMove(c)
  <2>1. /\ call[d].st = "waiting" /\ call'[d].st = "ready"
        /\ call'[d].result = "timeout"
        /\ \A e \in Calls : e # d => call'[e] = call[e]
    BY <1>1, <1>8 DEF Expire, CallRecords
  <2> QED BY <2>1 DEF CallMove
<1>9. ASSUME NEW d \in Calls, WaitHandler(d) PROVE CallMove(c)
  <2>1. call'[d].st = "done" /\ \A e \in Calls : e # d => call'[e] = call[e]
    BY <1>1, <1>9 DEF WaitHandler, CallRecords
  <2> QED BY <2>1 DEF CallMove
<1>10. CASE UNCHANGED call
  BY <1>10 DEF CallMove
<1>11. ASSUME NEW s \in Requests, NEW inStrand \in ReaderContexts,
              \/ HandleReply(s, inStrand)
              \/ \E echo \in Echoes : HandleError(s, echo, inStrand)
       PROVE  CallMove(c)
  <2>1. PICK kind \in {"reply", "error"}, lookedUp \in BOOLEAN :
          HandleResponse(s, kind, lookedUp, inStrand)
    BY <1>11 DEF HandleReply, HandleError
  <2> DEFINE t == map[Key(s)]
             answer == [kind |-> kind, to |-> s]
  <2>2. answer \in Messages /\ answer.kind # "empty"
    BY DEF Messages
  <2>3. CASE t # NoTransaction /\ SetMessage(t, answer)
    <3>1. t \in Requests
      BY <1>1, <2>3, FoundTransaction
    <3> HIDE DEF t, answer
    <3> QED BY <1>3, <2>2, <2>3, <3>1
  <2> QED BY <1>10, <2>1, <2>3 DEF HandleResponse
<1>12. CASE RunSet
  <2>1. /\ Head(strand) = strand[1] /\ 1 \in 1..Len(strand)
        /\ strand[1] \in StrandItems /\ strand[1].op = "set"
    BY <1>1, <1>12 DEF RunSet, NextInStrand
  <2>2. /\ strand[1].txn \in Requests /\ strand[1].answer \in Messages
        /\ strand[1].answer.kind # "empty"
    BY <2>1 DEF StrandItems, TableInv, PostedInv
  <2> QED BY <1>3, <1>12, <2>1, <2>2 DEF RunSet
<1> QED BY <1>4, <1>5, <1>6, <1>7, <1>8, <1>9, <1>10, <1>11, <1>12 DEF Next,
        RunStrand, vars, RegisterRequest, AsyncSend, WriteReaches,
        SendHandler, SendHandlerError, ReleaseTransaction,
        DestroyTransaction, Goodbye, DestroyChannel

LEMMA NextNoneWaits ==
  TypeInv /\ TableInv /\ NoneWaitsOnAnswered /\ [Next]_vars
    => NoneWaitsOnAnswered'
<1> SUFFICES ASSUME TypeInv, TableInv, NoneWaitsOnAnswered, [Next]_vars,
                    NEW c \in Calls, call'[c].st = "waiting", Answered(c[1])'
             PROVE  FALSE
  BY DEF NoneWaitsOnAnswered
<1>1. c[1] \in Requests /\ c \in CallsOf(c[1])
  BY CallParts
<1>2. CASE UNCHANGED msg
  <2>1. Answered(c[1])
    BY <1>2 DEF Answered
  <2> QED BY <2>1, CallMoves DEF NoneWaitsOnAnswered, CallMove
<1>3. ASSUME NEW s \in Requests, NEW answer \in Messages, ~Answered(s),
             SetMessage(s, answer)
      PROVE  FALSE
  <2>1. CASE s = c[1]
    <3>1. call[c] \in CallRecords
      BY DEF TypeInv, TypeOK
    <3> QED BY <1>1, <1>3, <2>1, <3>1 DEF SetMessage, CancelTimer, CallRecords
  <2>2. CASE s # c[1]
    <3>1. Answered(c[1])
      BY <1>1, <1>3, <2>2 DEF SetMessage, Answered, TypeInv, TypeOK
    <3>2. call[c].st = "waiting"
      <4>1. CancelTimer(s)[c].st = "waiting"
        BY <1>3 DEF SetMessage
      <4>2. call[c] \in CallRecords
        BY DEF TypeInv, TypeOK
      <4> QED BY <4>1, <4>2, CancelTimerCalls DEF CallRecords
    <3> QED BY <3>1, <3>2 DEF NoneWaitsOnAnswered
  <2> QED BY <2>1, <2>2
<1> QED BY <1>2, <1>3, AnswersGiven

LEMMA NoneWaitsInvariance == Spec => []NoneWaitsOnAnswered
<1>1. Init => NoneWaitsOnAnswered
  BY DEF Init, NoneWaitsOnAnswered
<1> QED BY <1>1, NextNoneWaits, TypeInvariance, TableInvariance, PTL DEF Spec

\* No receive sleeps on a transaction that has its answer: async_wait looks
\* at the message in the strand, and set_reply and set_error cancel the timer.
THEOREM AnswersWakeReceives == Spec => []NoneWaitsOnAnswered
BY NoneWaitsInvariance

-----------------------------------------------------------------------------
(* The decorator implements the promise of module Transactions             *)

\* A message without an answer has lost no contents, and a receive that its
\* timer let go ran out of time, or was aborted in favour of another one.
ReadyInv ==
  /\ \A r \in Requests : ~Answered(r) => ~moved[r]
  /\ \A c \in Calls : call[c].st = "ready" =>
       /\ call[c].result \in {"timeout", "aborted"}
       /\ call[c].result = "aborted" /\ ~Answered(c[1]) =>
            \E d \in CallsOf(c[1]) : d # c /\ call[d].st # "none"

LEMMA NextReadyInv == TypeInv /\ TableInv /\ ReadyInv /\ [Next]_vars => ReadyInv'
<1> SUFFICES ASSUME TypeInv, TableInv, ReadyInv, [Next]_vars PROVE ReadyInv'
  OBVIOUS
<1>1. TypeOK
  BY DEF TypeInv
<1>2. ASSUME NEW r \in Requests, ~Answered(r)' PROVE ~moved'[r]
  <2>1. ~Answered(r) /\ ~moved[r]
    BY <1>2, AnsweredStays DEF Answered, ReadyInv
  <2>2. ASSUME NEW c \in Calls, Answered(c[1]),
               moved' = [moved EXCEPT ![c[1]] = TRUE]
        PROVE  ~moved'[r]
    BY <1>1, <2>1, <2>2 DEF TypeOK
  <2>3. ASSUME NEW s, NEW answer, SetMessage(s, answer) PROVE ~moved'[r]
    BY <1>1, <2>1, <2>3 DEF SetMessage, TypeOK
  <2>4. CASE UNCHANGED moved
    BY <2>1, <2>4
  <2>5. CASE RunWait
    <3>1. /\ Head(strand) = strand[1] /\ 1 \in 1..Len(strand)
          /\ strand[1] \in StrandItems /\ strand[1].op = "wait"
      BY <1>1, <2>5 DEF RunWait, NextInStrand, TypeOK
    <3>2. Head(strand).call \in Calls
      BY <3>1 DEF StrandItems
    <3> QED BY <2>2, <2>4, <2>5, <3>2
            DEF RunWait, AsyncWait, AsyncWaitAnswered, AsyncWaitTimer
  <2>6. ASSUME NEW s \in Requests, NEW inStrand \in ReaderContexts,
               \/ HandleReply(s, inStrand)
               \/ \E echo \in Echoes : HandleError(s, echo, inStrand)
        PROVE  ~moved'[r]
    BY <2>3, <2>4, <2>6 DEF HandleReply, HandleError, HandleResponse
  <2>7. ASSUME NEW c \in Calls, NEW finite \in BOOLEAN,
               ReceiveInStrand(c, finite)
        PROVE  ~moved'[r]
    BY <2>2, <2>4, <2>7
       DEF ReceiveInStrand, AsyncWait, AsyncWaitAnswered, AsyncWaitTimer
  <2>8. ASSUME NEW c \in Calls, WaitHandler(c) PROVE ~moved'[r]
    BY <2>2, <2>4, <2>8 DEF WaitHandler
  <2>9. CASE RunSet
    BY <2>3, <2>9 DEF RunSet
  <2> QED BY <2>4, <2>5, <2>6, <2>7, <2>8, <2>9 DEF Next, RunStrand, vars,
          RegisterRequest, AsyncSend, WriteReaches, SendHandler,
          SendHandlerError, ReleaseTransaction, DestroyTransaction,
          ReceivePosted, Expire, RunHandler, Goodbye, DestroyChannel
<1>3. ASSUME NEW c \in Calls, call'[c].st = "ready"
      PROVE  /\ call'[c].result \in {"timeout", "aborted"}
             /\ call'[c].result = "aborted" /\ ~Answered(c[1])' =>
                  \E d \in CallsOf(c[1]) : d # c /\ call'[d].st # "none"
  <2>1. CASE call'[c] = call[c]
    <3>1. call[c].result \in {"timeout", "aborted"}
      BY <1>3, <2>1 DEF ReadyInv
    <3>2. ASSUME call[c].result = "aborted", ~Answered(c[1])'
          PROVE  \E d \in CallsOf(c[1]) : d # c /\ call'[d].st # "none"
      <4>1. ~Answered(c[1])
        BY <3>2, AnsweredStays, CallParts DEF Answered
      <4>2. PICK d \in CallsOf(c[1]) : d # c /\ call[d].st # "none"
        BY <1>3, <2>1, <3>2, <4>1 DEF ReadyInv
      <4>3. d \in Calls
        BY CallParts DEF CallsOf, Calls
      <4>4. call'[d].st # "none"
        BY <4>2, <4>3, CallMoves DEF CallMove
      <4> QED BY <4>2, <4>4
    <3> QED BY <2>1, <3>1, <3>2
  <2> QED BY <1>3, <2>1, CallMoves DEF CallMove
<1> QED BY <1>2, <1>3 DEF ReadyInv

LEMMA ReadyInvariance == Spec => []ReadyInv
<1>1. Init => ReadyInv
  BY DEF Init, ReadyInv
<1> QED BY <1>1, NextReadyInv, TypeInvariance, TableInvariance, PTL DEF Spec

\* Cancelling a timer only moves waiting receives on.
LEMMA CancelTimerStates ==
  ASSUME TypeOK, NEW r \in Requests, NEW c \in Calls
  PROVE  \/ CancelTimer(r)[c] = call[c]
         \/ call[c].st = "waiting" /\ CancelTimer(r)[c].st = "ready"
<1>1. call[c] \in CallRecords
  BY DEF TypeOK
<1>2. ASSUME CancelTimer(r)[c] =
               [call[c] EXCEPT !.st = "ready", !.result = "aborted"]
      PROVE  CancelTimer(r)[c].st = "ready"
  BY <1>1, <1>2 DEF CallRecords
<1> QED BY <1>2, CancelTimerCalls

\* The steps of the promise, in terms of the decorator's variables.
OthersKeep(c) == \A d \in Calls : d # c => Outcome(d)' = Outcome(d)

LEMMA PromisedStutter ==
  ASSUME UNCHANGED <<msg, moved>>, \A d \in Calls : Outcome(d)' = Outcome(d)
  PROVE  UNCHANGED Promise!vars
BY DEF Promise!vars

LEMMA PromisedReceive ==
  ASSUME NEW c \in Calls, UNCHANGED <<msg, moved>>, OthersKeep(c),
         Outcome(c) = "none", Outcome(c)' = "pending"
  PROVE  Promise!Next
<1>1. Promise!Receive(c)
  BY DEF Promise!Receive, OthersKeep
<1> QED BY <1>1 DEF Promise!Next, Promise!Calls, Calls

LEMMA PromisedTake ==
  ASSUME TypeOK, NEW c \in Calls, UNCHANGED msg, OthersKeep(c),
         Answered(c[1]), moved' = [moved EXCEPT ![c[1]] = TRUE],
         Outcome(c) \in {"none", "pending"}, Outcome(c)' = Contents(c[1])
  PROVE  Promise!Next
<1>1. c[1] \in Requests
  BY CallParts
<1>2. Promise!Take(c)
  BY <1>1 DEF Promise!Take, OthersKeep, Answered, Contents
<1> QED BY <1>2 DEF Promise!Next, Promise!Calls, Calls

LEMMA PromisedFailure ==
  ASSUME NEW c \in Calls, UNCHANGED <<msg, moved>>, OthersKeep(c),
         ~Answered(c[1]), Outcome(c) = "pending",
         \/ Outcome(c)' = "timeout"
         \/ /\ Outcome(c)' = "aborted"
            /\ \E d \in CallsOf(c[1]) : d # c /\ Outcome(d) # "none"
  PROVE  Promise!Next
<1>1. c[1] \in Requests
  BY CallParts
<1>2. CASE Outcome(c)' = "timeout"
  <2>1. Promise!TimeOut(c)
    BY <1>1, <1>2 DEF Promise!TimeOut, OthersKeep, Answered
  <2> QED BY <2>1 DEF Promise!Next, Promise!Calls, Calls
<1>3. CASE /\ Outcome(c)' = "aborted"
           /\ \E d \in CallsOf(c[1]) : d # c /\ Outcome(d) # "none"
  <2>1. PICK d \in CallsOf(c[1]) : d # c /\ Outcome(d) # "none"
    BY <1>3
  <2>2. d \in Promise!Calls /\ d \in Calls /\ d[1] = c[1]
    BY <1>1 DEF CallsOf, Calls, Promise!Calls
  <2>3. Promise!Abort(c)
    BY <1>1, <1>3, <2>1, <2>2 DEF Promise!Abort, OthersKeep, Answered
  <2> QED BY <2>3 DEF Promise!Next, Promise!Calls, Calls
<1> QED BY <1>2, <1>3

LEMMA PromisedAnswer ==
  ASSUME TypeOK, ReadyInv, NEW s \in Requests, NEW answer \in Messages,
         ~Answered(s), answer.kind # "empty", SetMessage(s, answer)
  PROVE  Promise!Next
<1>1. answer.kind \in {"reply", "error"}
  BY DEF Messages
<1>2. UNCHANGED moved
  BY DEF SetMessage, ReadyInv, TypeOK
<1>3. \A r \in Requests : msg'[r].kind = IF r = s THEN answer.kind ELSE msg[r].kind
  BY DEF SetMessage, TypeOK
<1>4. ASSUME NEW c \in Calls PROVE Outcome(c)' = Outcome(c)
  <2>1. \/ call'[c] = call[c]
        \/ call[c].st = "waiting" /\ call'[c].st = "ready"
    BY CancelTimerStates DEF SetMessage
  <2> QED BY <2>1 DEF Outcome
<1>5. Promise!Answer(s, answer.kind)
  BY <1>2, <1>3, <1>4 DEF Promise!Answer, Answered
<1> QED BY <1>1, <1>5 DEF Promise!Next

\* async_wait takes the answer, or leaves every receive where it is but the
\* one that waits now.
LEMMA PromisedAsyncWait ==
  ASSUME TypeOK, NEW c \in Calls, NEW finite \in BOOLEAN, NEW queue,
         call[c].st \in {"none", "posted"},
         AsyncWait(c, finite, queue), UNCHANGED msg
  PROVE  Promise!Next \/ UNCHANGED Promise!vars
<1>1. /\ call \in [Calls -> CallRecords] /\ c[1] \in Requests
      /\ c \in CallsOf(c[1])
  BY CallParts DEF TypeOK
<1>2. Outcome(c) = IF call[c].st = "none" THEN "none" ELSE "pending"
  BY DEF Outcome
<1>3. CASE AsyncWaitAnswered(c, finite, queue)
  <2>1. /\ \A d \in Calls : d # c => call'[d] = call[d]
        /\ call'[c].st = "bound" /\ call'[c].result = Contents(c[1])
    BY <1>1, <1>3 DEF AsyncWaitAnswered
  <2>2. OthersKeep(c) /\ Outcome(c)' = Contents(c[1])
    BY <2>1 DEF OthersKeep, Outcome
  <2> QED BY <1>2, <1>3, <2>2, PromisedTake DEF AsyncWaitAnswered
<1>4. CASE AsyncWaitTimer(c, finite, queue)
  <2>1. /\ call'[c].st = "waiting"
        /\ \A d \in Calls : d # c => call'[d] = CancelTimer(c[1])[d]
    BY <1>1, <1>4 DEF AsyncWaitTimer, CancelTimer
  <2>2. OthersKeep(c)
    <3>1. SUFFICES ASSUME NEW d \in Calls, d # c PROVE Outcome(d)' = Outcome(d)
      BY DEF OthersKeep
    <3>2. \/ call'[d] = call[d]
          \/ call[d].st = "waiting" /\ call'[d].st = "ready"
      BY <1>1, <2>1, <3>1, CancelTimerStates
    <3> QED BY <3>2 DEF Outcome
  <2>3. Outcome(c)' = "pending"
    BY <2>1 DEF Outcome
  <2>4. UNCHANGED <<msg, moved>>
    BY <1>4 DEF AsyncWaitTimer
  <2>5. CASE call[c].st = "none"
    BY <1>2, <2>2, <2>3, <2>4, <2>5, PromisedReceive
  <2>6. CASE call[c].st = "posted"
    BY <1>2, <2>2, <2>3, <2>4, <2>6, PromisedStutter DEF OthersKeep
  <2> QED BY <2>5, <2>6
<1> QED BY <1>3, <1>4 DEF AsyncWait

LEMMA PromisedWaitHandler ==
  ASSUME TypeOK, ReadyInv, NEW c \in Calls, WaitHandler(c)
  PROVE  Promise!Next
<1>1. /\ call \in [Calls -> CallRecords] /\ call[c].st = "ready"
      /\ c[1] \in Requests
  BY CallParts DEF TypeOK, WaitHandler
<1>2. Outcome(c) = "pending" /\ UNCHANGED msg
  BY <1>1 DEF Outcome, WaitHandler
<1>3. OthersKeep(c)
  <2>1. \A d \in Calls : d # c => call'[d] = call[d]
    BY <1>1 DEF WaitHandler
  <2> QED BY <2>1 DEF OthersKeep, Outcome
<1>4. CASE Answered(c[1])
  <2>1. /\ moved' = [moved EXCEPT ![c[1]] = TRUE]
        /\ call'[c].st = "done" /\ call'[c].result = Contents(c[1])
    BY <1>1, <1>4 DEF WaitHandler, CallRecords
  <2>2. Outcome(c)' = Contents(c[1])
    BY <2>1 DEF Outcome
  <2> QED BY <1>2, <1>3, <1>4, <2>1, <2>2, PromisedTake
<1>5. CASE ~Answered(c[1])
  <2>1. /\ UNCHANGED moved /\ call'[c].st = "done"
        /\ call'[c].result = call[c].result
    BY <1>1, <1>5 DEF WaitHandler, CallRecords
  <2>2. Outcome(c)' = call[c].result
    BY <2>1 DEF Outcome
  <2>3. CASE call[c].result = "timeout"
    BY <1>2, <1>3, <1>5, <2>1, <2>2, <2>3, PromisedFailure
  <2>4. CASE call[c].result = "aborted"
    <3>1. PICK d \in CallsOf(c[1]) : d # c /\ call[d].st # "none"
      BY <1>1, <1>5, <2>4 DEF ReadyInv
    <3>2. d \in Calls
      BY <1>1 DEF CallsOf, Calls
    <3>3. Outcome(d) # "none"
      BY <1>1, <3>1, <3>2 DEF Outcome, CallRecords, CallStates
    <3> QED BY <1>2, <1>3, <1>5, <2>1, <2>2, <2>4, <3>1, <3>3, PromisedFailure
  <2> QED BY <1>1, <2>3, <2>4 DEF ReadyInv
<1> QED BY <1>4, <1>5

LEMMA NextKeepsPromise ==
  TypeInv /\ TableInv /\ ReadyInv /\ [Next]_vars => [Promise!Next]_Promise!vars
<1> SUFFICES ASSUME TypeInv, TableInv, ReadyInv, [Next]_vars
             PROVE  Promise!Next \/ UNCHANGED Promise!vars
  OBVIOUS
<1>1. /\ TypeOK /\ StrandMatchesCalls /\ strand \in Seq(StrandItems)
      /\ call \in [Calls -> CallRecords]
  BY DEF TypeInv, TypeOK
<1>2. CASE UNCHANGED <<msg, moved, call>>
  BY <1>2, PromisedStutter DEF Outcome
<1>3. ASSUME NEW c \in Calls, NEW finite \in BOOLEAN, ReceiveInStrand(c, finite)
      PROVE  Promise!Next \/ UNCHANGED Promise!vars
  BY <1>1, <1>3, PromisedAsyncWait DEF ReceiveInStrand, MayReceive
<1>4. ASSUME NEW c \in Calls, NEW finite \in BOOLEAN, ReceivePosted(c, finite)
      PROVE  Promise!Next
  <2>1. /\ call[c].st = "none" /\ call'[c].st = "posted"
        /\ \A d \in Calls : d # c => call'[d] = call[d]
    BY <1>1, <1>4 DEF ReceivePosted, MayReceive
  <2>2. OthersKeep(c) /\ Outcome(c) = "none" /\ Outcome(c)' = "pending"
    BY <2>1 DEF OthersKeep, Outcome
  <2> QED BY <1>4, <2>2, PromisedReceive DEF ReceivePosted
<1>5. ASSUME NEW c \in Calls, Expire(c) PROVE UNCHANGED Promise!vars
  <2>1. /\ call[c].st = "waiting" /\ call'[c].st = "ready"
        /\ \A d \in Calls : d # c => call'[d] = call[d]
    BY <1>1, <1>5 DEF Expire, CallRecords
  <2>2. \A d \in Calls : Outcome(d)' = Outcome(d)
    BY <2>1 DEF Outcome
  <2> QED BY <1>5, <2>2, PromisedStutter DEF Expire
<1>6. CASE RunWait
  <2>1. /\ Head(strand) = strand[1] /\ 1 \in 1..Len(strand)
        /\ strand[1] \in StrandItems /\ strand[1].op = "wait"
    BY <1>1, <1>6 DEF RunWait, NextInStrand
  <2>2. strand[1].call \in Calls /\ call[strand[1].call].st = "posted"
    BY <1>1, <2>1 DEF StrandItems, StrandMatchesCalls, Matches
  <2>3. call[strand[1].call].finite \in BOOLEAN
    BY <1>1, <2>2 DEF CallRecords
  <2> QED BY <1>1, <1>6, <2>1, <2>2, <2>3, PromisedAsyncWait DEF RunWait
<1>7. CASE RunHandler
  <2>1. /\ Head(strand) = strand[1] /\ 1 \in 1..Len(strand)
        /\ strand[1] \in StrandItems /\ strand[1].op = "handler"
    BY <1>1, <1>7 DEF RunHandler, NextInStrand
  <2>2. strand[1].call \in Calls /\ call[strand[1].call].st = "bound"
    BY <1>1, <2>1 DEF StrandItems, StrandMatchesCalls, Matches
  <2>3. /\ call'[strand[1].call].st = "done"
        /\ call'[strand[1].call].result = call[strand[1].call].result
        /\ \A d \in Calls : d # strand[1].call => call'[d] = call[d]
    BY <1>1, <1>7, <2>1, <2>2 DEF RunHandler, CallRecords
  <2>4. \A d \in Calls : Outcome(d)' = Outcome(d)
    BY <2>2, <2>3 DEF Outcome
  <2> QED BY <1>7, <2>4, PromisedStutter DEF RunHandler
<1>8. ASSUME NEW s \in Requests, NEW inStrand \in ReaderContexts,
              \/ HandleReply(s, inStrand)
              \/ \E echo \in Echoes : HandleError(s, echo, inStrand)
       PROVE  Promise!Next \/ UNCHANGED Promise!vars
  <2>1. PICK kind \in {"reply", "error"}, lookedUp \in BOOLEAN :
          HandleResponse(s, kind, lookedUp, inStrand)
    BY <1>8 DEF HandleReply, HandleError
  <2> DEFINE t == map[Key(s)]
             answer == [kind |-> kind, to |-> s]
  <2>2. answer \in Messages /\ answer.kind # "empty"
    BY DEF Messages
  <2>3. CASE t # NoTransaction /\ SetMessage(t, answer)
    <3>1. t \in Requests /\ ~Answered(t)
      BY <1>1, <2>3, FoundTransaction
    <3> HIDE DEF t, answer
    <3> QED BY <1>1, <2>2, <2>3, <3>1, PromisedAnswer
  <2> QED BY <1>2, <2>1, <2>3 DEF HandleResponse
<1>9. CASE RunSet
  <2>1. /\ Head(strand) = strand[1] /\ 1 \in 1..Len(strand)
        /\ strand[1] \in StrandItems /\ strand[1].op = "set"
    BY <1>1, <1>9 DEF RunSet, NextInStrand
  <2>2. /\ strand[1].txn \in Requests /\ strand[1].answer \in Messages
        /\ ~Answered(strand[1].txn) /\ strand[1].answer.kind # "empty"
    BY <2>1 DEF StrandItems, TableInv, PostedInv
  <2> QED BY <1>1, <1>9, <2>1, <2>2, PromisedAnswer DEF RunSet
<1>10. ASSUME NEW c \in Calls, WaitHandler(c) PROVE Promise!Next
  BY <1>1, <1>10, PromisedWaitHandler
<1> QED BY <1>2, <1>3, <1>4, <1>5, <1>6, <1>7, <1>8, <1>9, <1>10 DEF Next,
        RunStrand, vars, RegisterRequest, AsyncSend, WriteReaches,
        SendHandler, SendHandlerError, ReleaseTransaction,
        DestroyTransaction, Goodbye, DestroyChannel

\* The decorator keeps the safety half of its promise: a request is answered
\* at most once, a receive ends once, it is aborted only for another receive,
\* it fails only while there is no answer, and it ends with the answer
\* otherwise, however the timer and the answer raced.
THEOREM DecoratorKeepsPromise == Spec => Promise!Spec
<1>1. Init => Promise!Init
  BY DEF Init, Promise!Init, Empty, Outcome, Promise!Calls, Calls
<1> QED BY <1>1, NextKeepsPromise, TypeInvariance, TableInvariance,
        ReadyInvariance, PTL DEF Spec, Promise!Spec

-----------------------------------------------------------------------------
(* Every response is accounted for                                         *)

Given(r) == {s \in Requests : Answered(s) /\ msg[s].to = r}

OnTheWay(queue, r) ==
  {i \in 1..Len(queue) : queue[i].op = "set" /\ queue[i].answer.to = r}

IsSetFor(item, r) == item.op = "set" /\ item.answer.to = r

LEMMA OnTheWayFinite ==
  ASSUME NEW queue \in Seq(StrandItems), NEW r
  PROVE  /\ IsFiniteSet(OnTheWay(queue, r))
         /\ Cardinality(OnTheWay(queue, r)) \in Nat
<1>1. IsFiniteSet(1..Len(queue))
  BY FS_Interval
<1>2. OnTheWay(queue, r) \subseteq 1..Len(queue)
  BY DEF OnTheWay
<1> QED BY <1>1, <1>2, FS_Subset, FS_CardinalityType

LEMMA OnTheWayAppend ==
  ASSUME NEW queue \in Seq(StrandItems), NEW item \in StrandItems, NEW r
  PROVE  Cardinality(OnTheWay(Append(queue, item), r)) =
           Cardinality(OnTheWay(queue, r)) + (IF IsSetFor(item, r) THEN 1 ELSE 0)
<1> DEFINE longer == Append(queue, item)
           n      == Len(queue) + 1
<1>1. /\ n \in Nat /\ Len(longer) = n /\ longer[n] = item
      /\ \A i \in 1..Len(queue) : longer[i] = queue[i] /\ i # n
      /\ \A i : i \in 1..n <=> i = n \/ i \in 1..Len(queue)
  OBVIOUS
<1> HIDE DEF longer, n
<1>2. n \notin OnTheWay(queue, r)
  BY <1>1 DEF OnTheWay
<1>3. CASE IsSetFor(item, r)
  <2>1. OnTheWay(longer, r) = OnTheWay(queue, r) \cup {n}
    BY <1>1, <1>3 DEF OnTheWay, IsSetFor
  <2> QED BY <1>2, <1>3, <2>1, OnTheWayFinite, FS_AddElement DEF longer
<1>4. CASE ~IsSetFor(item, r)
  <2>1. OnTheWay(longer, r) = OnTheWay(queue, r)
    BY <1>1, <1>4 DEF OnTheWay, IsSetFor
  <2> QED BY <1>4, <2>1, OnTheWayFinite DEF longer
<1> QED BY <1>3, <1>4

LEMMA OnTheWayTail ==
  ASSUME NEW queue \in Seq(StrandItems), queue # <<>>, NEW r
  PROVE  Cardinality(OnTheWay(queue, r)) =
           Cardinality(OnTheWay(Tail(queue), r))
             + (IF IsSetFor(Head(queue), r) THEN 1 ELSE 0)
<1> DEFINE shorter == Tail(queue)
           S == OnTheWay(shorter, r)
           T == OnTheWay(queue, r) \ {1}
           next == [i \in S |-> i + 1]
<1>1. /\ Len(queue) \in Nat \ {0} /\ Len(shorter) = Len(queue) - 1
      /\ shorter \in Seq(StrandItems) /\ Head(queue) = queue[1]
      /\ \A i \in 1..Len(shorter) :
           i + 1 \in 1..Len(queue) /\ shorter[i] = queue[i + 1]
  OBVIOUS
<1>2. /\ IsFiniteSet(OnTheWay(queue, r)) /\ IsFiniteSet(S)
      /\ Cardinality(S) \in Nat
  BY <1>1, OnTheWayFinite
<1>3. next \in Bijection(S, T)
  <2>1. \A i \in S : i \in 1..Len(shorter) /\ IsSetFor(shorter[i], r)
    BY DEF OnTheWay, IsSetFor
  <2>2. \A i \in S : next[i] \in T
    BY <1>1, <2>1 DEF OnTheWay, IsSetFor
  <2>3. ASSUME NEW j \in T PROVE \E i \in S : next[i] = j
    <3>1. j - 1 \in 1..Len(shorter) /\ (j - 1) + 1 = j
      BY <1>1 DEF OnTheWay
    <3>2. j - 1 \in S
      BY <1>1, <3>1 DEF OnTheWay
    <3> QED BY <3>1, <3>2
  <2>4. \A i, j \in S : next[i] = next[j] => i = j
    BY <2>1
  <2> QED BY <2>2, <2>3, <2>4 DEF Bijection, Injection, Surjection, IsInjective
<1>4. Cardinality(T) = Cardinality(S)
  BY <1>2, <1>3, FS_Bijection DEF ExistsBijection
<1>5. 1 \in OnTheWay(queue, r) <=> IsSetFor(Head(queue), r)
  BY <1>1 DEF OnTheWay, IsSetFor
<1>6. /\ Cardinality(OnTheWay(queue, r)) \in Nat
      /\ Cardinality(T) = IF 1 \in OnTheWay(queue, r)
                          THEN Cardinality(OnTheWay(queue, r)) - 1
                          ELSE Cardinality(OnTheWay(queue, r))
  BY <1>2, OnTheWayFinite, FS_RemoveElement
<1> HIDE DEF S, T
<1> QED BY <1>2, <1>4, <1>5, <1>6 DEF S

LEMMA GivenAnswer ==
  ASSUME TypeOK, NEW s \in Requests, NEW answer \in Messages, ~Answered(s),
         answer.kind # "empty", SetMessage(s, answer),
         NEW r, IsFiniteSet(Given(r))
  PROVE  /\ IsFiniteSet(Given(r)')
         /\ Cardinality(Given(r)') =
              Cardinality(Given(r)) + (IF answer.to = r THEN 1 ELSE 0)
<1>1. \A t \in Requests : msg'[t] = IF t = s THEN answer ELSE msg[t]
  BY DEF SetMessage, TypeOK
<1>2. Cardinality(Given(r)) \in Nat /\ s \notin Given(r)
  BY FS_CardinalityType DEF Given
<1>3. CASE answer.to = r
  <2>1. Given(r)' = Given(r) \cup {s}
    BY <1>1, <1>3 DEF Given, Answered
  <2> QED BY <1>2, <1>3, <2>1, FS_AddElement
<1>4. CASE answer.to # r
  <2>1. Given(r)' = Given(r)
    BY <1>1, <1>4 DEF Given, Answered
  <2> QED BY <1>2, <1>4, <2>1
<1> QED BY <1>3, <1>4

AccountInv ==
  \A r \in Requests :
    /\ IsFiniteSet(Given(r))
    /\ responses[r] = forwarded[r] + Cardinality(Given(r))
                        + Cardinality(OnTheWay(strand, r))

LEMMA AsyncWaitOnTheWay ==
  ASSUME NEW c \in Calls, NEW finite, NEW queue \in Seq(StrandItems),
         AsyncWait(c, finite, queue), NEW r
  PROVE  Cardinality(OnTheWay(strand', r)) = Cardinality(OnTheWay(queue, r))
<1> DEFINE item == [op |-> "handler", call |-> c]
<1>1. item \in StrandItems /\ ~IsSetFor(item, r)
  BY DEF StrandItems, IsSetFor
<1>2. strand' = queue \/ strand' = Append(queue, item)
  BY DEF AsyncWait, AsyncWaitAnswered, AsyncWaitTimer
<1>3. Cardinality(OnTheWay(queue, r)) \in Nat
  BY OnTheWayFinite
<1> HIDE DEF item
<1>4. CASE strand' = Append(queue, item)
  BY <1>1, <1>3, <1>4, OnTheWayAppend
<1> QED BY <1>2, <1>4

LEMMA NextAccountInv == TypeInv /\ TableInv /\ AccountInv /\ [Next]_vars => AccountInv'
<1> SUFFICES ASSUME TypeInv, TableInv, AccountInv, [Next]_vars PROVE AccountInv'
  OBVIOUS
<1>1. /\ TypeOK /\ strand \in Seq(StrandItems)
      /\ responses \in [Requests -> 0..MaxResponses]
      /\ forwarded \in [Requests -> Nat]
      /\ \A r \in Requests :
           /\ IsFiniteSet(Given(r)) /\ Cardinality(Given(r)) \in Nat
           /\ Cardinality(OnTheWay(strand, r)) \in Nat
           /\ responses[r] \in Nat /\ forwarded[r] \in Nat
           /\ responses[r] = forwarded[r] + Cardinality(Given(r))
                               + Cardinality(OnTheWay(strand, r))
  BY OnTheWayFinite, FS_CardinalityType, BoundsAssumption
     DEF TypeInv, TypeOK, AccountInv
<1>2. ASSUME UNCHANGED <<responses, forwarded, msg>>,
             \A r \in Requests : Cardinality(OnTheWay(strand', r)) =
                                   Cardinality(OnTheWay(strand, r))
      PROVE  AccountInv'
  <2>1. \A r \in Requests : Given(r)' = Given(r)
    BY <1>2 DEF Given, Answered
  <2>2. \A r \in Requests : OnTheWay(strand, r)' = OnTheWay(strand', r)
    BY DEF OnTheWay
  <2> QED BY <1>1, <1>2, <2>1, <2>2 DEF AccountInv
<1>3. CASE UNCHANGED <<responses, forwarded, msg, strand>>
  BY <1>2, <1>3
<1>4. ASSUME NEW c \in Calls, NEW finite \in BOOLEAN, ReceiveInStrand(c, finite)
      PROVE  AccountInv'
  BY <1>1, <1>2, <1>4, AsyncWaitOnTheWay DEF ReceiveInStrand
<1>5. ASSUME NEW c \in Calls, NEW finite \in BOOLEAN, ReceivePosted(c, finite)
      PROVE  AccountInv'
  <2> DEFINE item == [op |-> "wait", call |-> c]
  <2>1. item \in StrandItems /\ \A r : ~IsSetFor(item, r)
    BY DEF StrandItems, IsSetFor
  <2>2. strand' = Append(strand, item)
    BY <1>5 DEF ReceivePosted
  <2> HIDE DEF item
  <2>3. \A r \in Requests : Cardinality(OnTheWay(strand', r)) =
                              Cardinality(OnTheWay(strand, r))
    BY <1>1, <2>1, <2>2, OnTheWayAppend
  <2> QED BY <1>2, <1>5, <2>3 DEF ReceivePosted
<1>6. ASSUME RunWait \/ RunHandler PROVE AccountInv'
  <2>1. /\ strand # <<>> /\ Tail(strand) \in Seq(StrandItems)
        /\ Head(strand) = strand[1] /\ Head(strand) \in StrandItems
        /\ Head(strand).op \in {"wait", "handler"}
    BY <1>1, <1>6 DEF RunWait, RunHandler, NextInStrand
  <2>2. \A r : ~IsSetFor(Head(strand), r)
    BY <2>1 DEF IsSetFor
  <2>3. \A r \in Requests : Cardinality(OnTheWay(Tail(strand), r)) =
                              Cardinality(OnTheWay(strand, r))
    <3> SUFFICES ASSUME NEW r \in Requests
                 PROVE  Cardinality(OnTheWay(Tail(strand), r)) =
                          Cardinality(OnTheWay(strand, r))
      OBVIOUS
    <3>1. Cardinality(OnTheWay(Tail(strand), r)) \in Nat
      BY <2>1, OnTheWayFinite
    <3>2. Cardinality(OnTheWay(strand, r)) =
            Cardinality(OnTheWay(Tail(strand), r)) + 0
      BY <1>1, <2>1, <2>2, OnTheWayTail
    <3> QED BY <3>1, <3>2
  <2>4. CASE RunHandler
    BY <1>2, <2>3, <2>4 DEF RunHandler
  <2>5. CASE RunWait
    <3>1. Head(strand).call \in Calls
      BY <2>1 DEF StrandItems
    <3>2. \A r \in Requests : Cardinality(OnTheWay(strand', r)) =
                                Cardinality(OnTheWay(Tail(strand), r))
      BY <2>1, <2>5, <3>1, AsyncWaitOnTheWay DEF RunWait
    <3> QED BY <1>2, <2>3, <2>5, <3>2 DEF RunWait
  <2> QED BY <1>6, <2>4, <2>5
<1>7. CASE RunSet
  <2>1. /\ strand # <<>> /\ Tail(strand) \in Seq(StrandItems)
        /\ Head(strand) = strand[1] /\ 1 \in 1..Len(strand)
        /\ strand[1] \in StrandItems /\ strand[1].op = "set"
    BY <1>1, <1>7 DEF RunSet, NextInStrand
  <2> DEFINE s == strand[1].txn
             answer == strand[1].answer
  <2>2. /\ s \in Requests /\ answer \in Messages
        /\ ~Answered(s) /\ answer.kind # "empty" /\ SetMessage(s, answer)
    BY <1>7, <2>1 DEF RunSet, StrandItems, TableInv, PostedInv
  <2>3. SUFFICES ASSUME NEW r \in Requests
                 PROVE  /\ IsFiniteSet(Given(r)')
                        /\ responses'[r] = forwarded'[r]
                             + Cardinality(Given(r)')
                             + Cardinality(OnTheWay(strand', r))
    BY DEF AccountInv, OnTheWay
  <2>4. /\ IsFiniteSet(Given(r)')
        /\ Cardinality(Given(r)') =
             Cardinality(Given(r)) + (IF answer.to = r THEN 1 ELSE 0)
    BY <1>1, <2>2, GivenAnswer
  <2>5. /\ Cardinality(OnTheWay(strand, r)) =
             Cardinality(OnTheWay(Tail(strand), r))
               + (IF answer.to = r THEN 1 ELSE 0)
        /\ Cardinality(OnTheWay(Tail(strand), r)) \in Nat
    BY <1>1, <2>1, OnTheWayTail, OnTheWayFinite DEF IsSetFor
  <2>6. strand' = Tail(strand) /\ UNCHANGED <<responses, forwarded>>
    BY <1>7 DEF RunSet
  <2> HIDE DEF answer
  <2> QED BY <1>1, <2>4, <2>5, <2>6
<1>8. ASSUME NEW x \in Requests, NEW inStrand \in ReaderContexts,
             \/ HandleReply(x, inStrand)
             \/ \E echo \in Echoes : HandleError(x, echo, inStrand)
      PROVE  AccountInv'
  <2>1. PICK kind \in {"reply", "error"}, lookedUp \in BOOLEAN :
          HandleResponse(x, kind, lookedUp, inStrand)
    BY <1>8 DEF HandleReply, HandleError
  <2> DEFINE answer == [kind |-> kind, to |-> x]
             s == map[Key(x)]
             item == [op |-> "set", txn |-> s, answer |-> answer]
  <2>2. answer \in Messages /\ answer.kind # "empty" /\ answer.to = x
    BY DEF Messages
  <2>3. SUFFICES ASSUME NEW r \in Requests
                 PROVE  /\ IsFiniteSet(Given(r)')
                        /\ responses'[r] = forwarded'[r]
                             + Cardinality(Given(r)')
                             + Cardinality(OnTheWay(strand', r))
    BY DEF AccountInv, OnTheWay
  <2>4. responses'[r] = responses[r] + (IF x = r THEN 1 ELSE 0)
    BY <1>1, <2>1 DEF HandleResponse
  <2>5. CASE s # NoTransaction /\ SetMessage(s, answer)
             /\ UNCHANGED <<strand, forwarded>>
    <3>1. s \in Requests /\ ~Answered(s)
      BY <1>1, <2>5, FoundTransaction
    <3> HIDE DEF s, answer
    <3>2. /\ IsFiniteSet(Given(r)')
          /\ Cardinality(Given(r)') =
               Cardinality(Given(r)) + (IF x = r THEN 1 ELSE 0)
      BY <1>1, <2>2, <2>5, <3>1, GivenAnswer
    <3> QED BY <1>1, <2>4, <2>5, <3>2
  <2>6. CASE s # NoTransaction /\ strand' = Append(strand, item)
             /\ UNCHANGED <<msg, forwarded>>
    <3>1. s \in Requests
      BY <1>1, <2>6, FoundTransaction
    <3>2. item \in StrandItems /\ (IsSetFor(item, r) <=> x = r)
      BY <2>2, <3>1 DEF StrandItems, IsSetFor
    <3>3. Given(r)' = Given(r)
      BY <2>6 DEF Given, Answered
    <3> HIDE DEF item
    <3>4. Cardinality(OnTheWay(strand', r)) =
            Cardinality(OnTheWay(strand, r)) + (IF x = r THEN 1 ELSE 0)
      BY <1>1, <2>6, <3>2, OnTheWayAppend
    <3> QED BY <1>1, <2>4, <2>6, <3>3, <3>4
  <2>7. CASE forwarded' = [forwarded EXCEPT ![x] = @ + 1]
             /\ UNCHANGED <<msg, strand>>
    <3>1. Given(r)' = Given(r)
      BY <2>7 DEF Given, Answered
    <3>2. forwarded'[r] = forwarded[r] + (IF x = r THEN 1 ELSE 0)
      BY <1>1, <2>7
    <3> QED BY <1>1, <2>4, <2>7, <3>1, <3>2
  <2> QED BY <2>1, <2>5, <2>6, <2>7 DEF HandleResponse
<1> QED BY <1>3, <1>4, <1>5, <1>6, <1>7, <1>8 DEF Next,
        RunStrand, vars, RegisterRequest, AsyncSend, WriteReaches,
        SendHandler, SendHandlerError, ReleaseTransaction,
        DestroyTransaction, Expire, WaitHandler, Goodbye, DestroyChannel

LEMMA AccountInvariance == Spec => []AccountInv
<1>1. ASSUME Init PROVE AccountInv
  <2>1. ASSUME NEW r \in Requests PROVE Given(r) = {} /\ OnTheWay(strand, r) = {}
    BY <1>1 DEF Init, Given, Answered, Empty, OnTheWay
  <2>2. IsFiniteSet({}) /\ Cardinality({}) = 0
    BY FS_EmptySet
  <2>3. \A r \in Requests : responses[r] = 0 /\ forwarded[r] = 0
    BY <1>1 DEF Init
  <2> QED BY <2>1, <2>2, <2>3 DEF AccountInv
<1> QED BY <1>1, NextAccountInv, TypeInvariance, TableInvariance, PTL DEF Spec

\* No response disappears: each has been given to a transaction, is in the
\* strand on its way to one, or has been forwarded, and none counts twice.
THEOREM ResponsesAreAccountedFor == Spec => []NoResponseLost
<1>1. AccountInv => NoResponseLost
  BY DEF AccountInv, NoResponseLost, Given, OnTheWay
<1> QED BY <1>1, AccountInvariance, PTL

=============================================================================
