--------------------------- MODULE PacketIn_proofs ---------------------------
(***************************************************************************)
(* Theorems about PacketIn, for every number of packet-ins and every       *)
(* numbering of the requests that gives each its own key: the coroutines   *)
(* use the transaction decorator as its specification allows, so all that  *)
(* is proved of the decorator holds here, and a packet follows its flow.   *)
(***************************************************************************)
EXTENDS PacketIn, TransactionDecorator_proofs

LEMMA CoroutineRequests ==
  ASSUME NEW p \in Packets
  PROVE  /\ FlowAdd[p] \in Requests /\ Barrier[p] \in Requests
         /\ <<FlowAdd[p], 1>> \in Calls /\ <<Barrier[p], 1>> \in Calls
BY CoroutinesAssumption DEF Calls

-----------------------------------------------------------------------------
(* The inductive invariant                                                 *)

ToTheSwitch == [kind : {"flow_add", "barrier", "packet_out"}, packet : Packets]

FromTheSwitch == Requests \X {"reply", "error"}

PacketTypes ==
  /\ PacketInTypeOK
  /\ toSwitch \in Seq(ToTheSwitch) /\ answers \in Seq(FromTheSwitch)

\* The reader is in the strand: no answer is posted there.
NoneIsPosted == \A i \in 1..Len(strand) : strand[i].op # "set"

FlowIsSent(i, p) == toSwitch[i] = [kind |-> "flow_add", packet |-> p]

BarrierIsSent(i, p) == toSwitch[i] = [kind |-> "barrier", packet |-> p]

PacketIsSent(i, p) == toSwitch[i] = [kind |-> "packet_out", packet |-> p]

Written(r) == phase[r] \in {"written", "sent"}

\* What the coroutine p has done at each point: it holds the flow_add, has
\* its barrier answered, and looks at the flow_add's message only then.
Steady(p) ==
  /\ phase[Barrier[p]] # "idle" => phase[FlowAdd[p]] = "sent"
  /\ pc[p] \in {"barrier", "asking", "wait", "waiting", "confirm", "confirming"}
       => phase[FlowAdd[p]] = "sent" /\ held[FlowAdd[p]]
  /\ pc[p] \in {"confirm", "confirming"} => Answered(Barrier[p])
  /\ moved[FlowAdd[p]]
       => pc[p] \in {"confirming", "packet_out", "sending", "sent", "leave", "done"}
  /\ pc[p] = "confirming"
       => \/ ~moved[FlowAdd[p]]
          \/ call[<<FlowAdd[p], 1>>].st = "bound"
  /\ pc[p] = "confirming" /\ call[<<FlowAdd[p], 1>>].st = "bound"
       => call[<<FlowAdd[p], 1>>].result = "answer"

\* The flow_add comes to the switch once, and before the barrier.
FlowFirst(p) ==
  /\ flows[p] # "unknown" => Written(FlowAdd[p])
  /\ Written(FlowAdd[p])
       => flows[p] # "unknown" \/ \E i \in 1..Len(toSwitch) : FlowIsSent(i, p)
  /\ \A i \in 1..Len(toSwitch) :
       /\ FlowIsSent(i, p) =>
            /\ flows[p] = "unknown" /\ Written(FlowAdd[p])
            /\ \A j \in 1..Len(toSwitch) : FlowIsSent(j, p) => j = i
       /\ BarrierIsSent(i, p) =>
            flows[p] # "unknown" \/ \E j \in 1..(i - 1) : FlowIsSent(j, p)

\* The coroutine has the error, or has left.
Told(p) ==
  \/ Answered(FlowAdd[p])
  \/ phase[FlowAdd[p]] = "sent" /\ ~held[FlowAdd[p]]

\* The error for a refused flow comes back before the answer to the barrier.
ErrorFirst(p) ==
  /\ flows[p] = "refused"
       => Told(p) \/ \E i \in 1..Len(answers) : answers[i] = <<FlowAdd[p], "error">>
  /\ \A i \in 1..Len(answers) : answers[i][1] = Barrier[p] =>
       /\ flows[p] # "unknown"
       /\ flows[p] = "refused"
            => Told(p) \/ \E j \in 1..(i - 1) : answers[j] = <<FlowAdd[p], "error">>
  /\ Answered(Barrier[p])
       => flows[p] # "unknown" /\ (flows[p] = "refused" => Told(p))

\* The packet goes back only with the flow in place.
FlowInPlace(p) ==
  /\ pc[p] \in {"packet_out", "sending"} => flows[p] = "installed"
  /\ \A i \in 1..Len(toSwitch) : PacketIsSent(i, p) => flows[p] = "installed"
  /\ p \in out => flows[p] = "installed"

IInv ==
  /\ PacketTypes /\ NoneIsPosted
  /\ \A p \in Packets :
       Steady(p) /\ FlowFirst(p) /\ ErrorFirst(p) /\ FlowInPlace(p)

-----------------------------------------------------------------------------
(* The decorator's steps                                                   *)

\* Whatever a coroutine does is something an application may do.
LEMMA CoroutineRefines ==
  ASSUME NEW p \in Packets, Coroutine(p)
  PROVE  [Next]_vars
<1> DEFINE F == FlowAdd[p]
           B == Barrier[p]
<1>1. /\ F \in Requests /\ B \in Requests
      /\ <<F, 1>> \in Calls /\ <<B, 1>> \in Calls
  BY CoroutineRequests
<1> HIDE DEF F, B
<1>2. ASSUME NEW r \in Requests
      PROVE  /\ RegisterRequest(r) => Next
             /\ AsyncSend(r) => Next
             /\ SendHandler(r) => Next
             /\ SendHandlerError(r) => Next
             /\ ReleaseTransaction(r) => Next
             /\ DestroyTransaction(r) => Next
  BY DEF Next
<1>3. ASSUME NEW c \in Calls
      PROVE  ReceiveInStrand(c, TRUE) => Next
  BY DEF Next
<1>4. ASSUME NEW c \in Calls
      PROVE  WaitHandler(c) => Next
  BY DEF Next
<1>5. RunHandler => Next
  BY DEF Next, RunStrand
<1>6. CASE SendFlowAdd(p) \/ SendBarrier(p)
  BY <1>1, <1>2, <1>6 DEF SendFlowAdd, SendBarrier, SendRequest, F, B
<1>7. CASE FlowAddSent(p) \/ BarrierSent(p)
  BY <1>1, <1>2, <1>7 DEF FlowAddSent, BarrierSent, RequestSent, F, B
<1>8. CASE WaitForBarrier(p) \/ ConfirmFlow(p)
  BY <1>1, <1>3, <1>8 DEF WaitForBarrier, ConfirmFlow, ReceiveResponse, F, B
<1>9. CASE BarrierReceived(p) \/ FlowConfirmed(p)
  BY <1>1, <1>4, <1>5, <1>9 DEF BarrierReceived, FlowConfirmed, Received, F, B
<1>10. CASE Leave(p)
  BY <1>1, <1>2, <1>10 DEF Leave, F, B
<1>11. CASE Spawn(p) \/ SendPacketOut(p) \/ PacketOutSent(p)
  BY <1>11 DEF Spawn, SendPacketOut, PacketOutSent
<1> QED BY <1>6, <1>7, <1>8, <1>9, <1>10, <1>11 DEF Coroutine

\* An answer is a reply or an error to the request it is addressed to.
LEMMA AnswerIsAResponse ==
  ASSUME answers \in Seq(FromTheSwitch), AnswerArrives
  PROVE  \E r \in Requests, kind \in {"reply", "error"} :
           /\ Len(answers) > 0 /\ answers[1] = <<r, kind>>
           /\ answers' = Tail(answers)
           /\ IF kind = "reply" THEN HandleReply(r, TRUE)
                                ELSE HandleError(r, "header", TRUE)
           /\ UNCHANGED <<pc, running, toSwitch, flows, out>>
<1>1. answers # <<>> /\ answers[1] \in FromTheSwitch /\ Len(answers) > 0
  BY DEF AnswerArrives
<1>2. PICK r \in Requests, kind \in {"reply", "error"} : answers[1] = <<r, kind>>
  BY <1>1 DEF FromTheSwitch
<1>3. Head(answers)[1] = r /\ Head(answers)[2] = kind
  BY <1>1, <1>2
<1>4. IF kind = "reply" THEN HandleReply(r, TRUE)
                        ELSE HandleError(r, "header", TRUE)
  BY <1>3, Zenon DEF AnswerArrives
<1>5. answers' = Tail(answers) /\ UNCHANGED <<pc, running, toSwitch, flows, out>>
  BY DEF AnswerArrives
<1> QED BY <1>1, <1>2, <1>4, <1>5

LEMMA Refines ==
  ASSUME answers \in Seq(FromTheSwitch), [PacketInNext]_packetInVars
  PROVE  [Next]_vars
<1>1. ASSUME NEW p \in Packets, WriteArrives(p)
      PROVE  [Next]_vars
  BY <1>1, CoroutineRequests DEF WriteArrives, Next
<1>2. ASSUME NEW p \in Packets, TimerExpires(p)
      PROVE  [Next]_vars
  BY <1>2, CoroutineRequests DEF TimerExpires, Next
<1>3. CASE AnswerArrives
  BY <1>3, AnswerIsAResponse, CoroutinesAssumption DEF Next, Echoes
<1>4. CASE Switch
  BY <1>4 DEF Switch
<1>5. CASE ConnectionBreaks \/ ChannelGoes
  BY <1>5 DEF ConnectionBreaks, ChannelGoes, Next
<1>6. CASE UNCHANGED packetInVars
  BY <1>6 DEF packetInVars
<1> QED BY <1>1, <1>2, <1>3, <1>4, <1>5, <1>6, CoroutineRefines DEF PacketInNext

-----------------------------------------------------------------------------
(* Type correctness                                                        *)

LEMMA InitPacketTypes == PacketInInit => PacketTypes
BY DEF PacketInInit, PacketTypes, PacketInTypeOK, Points

\* A coroutine runs alone and touches nothing of the network.
LEMMA CoroutineSteps ==
  ASSUME PacketTypes, NEW p \in Packets, Coroutine(p)
  PROVE  /\ UNCHANGED network
         /\ running' \in {p, Nobody}
         /\ \E point \in Points : pc' = [pc EXCEPT ![p] = point]
<1> USE DEF Continue, Suspend, Resume, Points
<1>1. CASE SendFlowAdd(p) \/ SendBarrier(p)
  BY <1>1 DEF SendFlowAdd, SendBarrier, SendRequest
<1>2. CASE FlowAddSent(p) \/ BarrierSent(p)
  BY <1>2 DEF FlowAddSent, BarrierSent, RequestSent
<1>3. CASE WaitForBarrier(p) \/ ConfirmFlow(p)
  BY <1>3 DEF WaitForBarrier, ConfirmFlow, ReceiveResponse
<1>4. CASE BarrierReceived(p) \/ FlowConfirmed(p)
  BY <1>4 DEF BarrierReceived, FlowConfirmed
<1>5. CASE Leave(p)
  BY <1>5 DEF Leave
<1>6. CASE Spawn(p) \/ SendPacketOut(p) \/ PacketOutSent(p)
  BY <1>6 DEF Spawn, SendPacketOut, PacketOutSent
<1> QED BY <1>1, <1>2, <1>3, <1>4, <1>5, <1>6 DEF Coroutine

LEMMA NextPacketTypes ==
  ASSUME PacketTypes, [PacketInNext]_packetInVars
  PROVE  PacketTypes'
<1> USE DEF PacketTypes, PacketInTypeOK
<1>1. ASSUME NEW p \in Packets, Coroutine(p)
      PROVE  PacketTypes'
  BY <1>1, CoroutineSteps DEF network
<1>2. ASSUME NEW p \in Packets, WriteArrives(p)
      PROVE  PacketTypes'
  <2>1. toSwitch' \in Seq(ToTheSwitch)
    <3>1. \A kind \in {"flow_add", "barrier", "packet_out"} :
            [kind |-> kind, packet |-> p] \in ToTheSwitch
      BY DEF ToTheSwitch
    <3>2. \E kind \in {"flow_add", "barrier", "packet_out"} : Arrives(kind, p)
      BY <1>2, Zenon DEF WriteArrives
    <3> QED BY <3>1, <3>2 DEF Arrives
  <2>2. pc' \in [Packets -> Points]
    BY <1>2 DEF WriteArrives, Points
  <2> QED BY <1>2, <2>1, <2>2 DEF WriteArrives
<1>3. ASSUME NEW p \in Packets, TimerExpires(p)
      PROVE  PacketTypes'
  BY <1>3 DEF TimerExpires, network
<1>4. CASE Switch
  <2> DEFINE p == Head(toSwitch).packet
  <2>1. p \in Packets /\ toSwitch' \in Seq(ToTheSwitch)
    <3>1. Head(toSwitch) \in ToTheSwitch /\ Tail(toSwitch) \in Seq(ToTheSwitch)
      BY <1>4 DEF Switch
    <3> QED BY <1>4, <3>1 DEF Switch, ToTheSwitch
  <2>2. /\ FlowAdd[p] \in Requests /\ Barrier[p] \in Requests
        /\ UNCHANGED <<pc, running>>
    BY <1>4, <2>1, CoroutineRequests DEF Switch
  <2>3. /\ flows' \in [Packets -> {"unknown", "installed", "refused"}]
        /\ out' \subseteq Packets
    BY <1>4, <2>1 DEF Switch
  <2>4. answers' \in Seq(FromTheSwitch)
    <3>1. /\ <<FlowAdd[p], "error">> \in FromTheSwitch
          /\ \A a \in {"reply", "error"} : <<Barrier[p], a>> \in FromTheSwitch
      BY <2>2 DEF FromTheSwitch
    <3>2. \/ answers' = answers
          \/ \E a \in FromTheSwitch : answers' = Append(answers, a)
      BY <1>4, <3>1 DEF Switch
    <3> QED BY <3>2
  <2> QED BY <2>1, <2>2, <2>3, <2>4
<1>5. CASE AnswerArrives
  BY <1>5 DEF AnswerArrives
<1>6. CASE ConnectionBreaks \/ ChannelGoes
  BY <1>6 DEF ConnectionBreaks, ChannelGoes, network
<1>7. CASE UNCHANGED packetInVars
  BY <1>7 DEF packetInVars, network
<1> QED BY <1>1, <1>2, <1>3, <1>4, <1>5, <1>6, <1>7 DEF PacketInNext

LEMMA TypesInvariance == PacketInSpec => []PacketTypes
BY InitPacketTypes, NextPacketTypes, PTL DEF PacketInSpec

\* The coroutines, the strand they share, the network and the switch make up
\* behaviours of the transaction decorator: what is proved for any use of it,
\* in TransactionDecorator_proofs, is true of this one.
THEOREM CoroutinesUseTheDecorator == PacketInSpec => Spec
<1>1. PacketInInit => Init
  BY DEF PacketInInit
<1>2. PacketTypes /\ [PacketInNext]_packetInVars => [Next]_vars
  BY Refines DEF PacketTypes
<1> QED BY <1>1, <1>2, TypesInvariance, PTL DEF PacketInSpec, Spec

\* While a coroutine waits for its barrier, or the application holds any
\* transaction that has no answer, the reader finds it in the table.
THEOREM CoroutinesAreFound ==
  ASSUME UniqueKeys
  PROVE  PacketInSpec => []UnansweredAreFindable
BY CoroutinesUseTheDecorator, LiveTransactionsAreFound, PTL

\* A coroutine never gets the answer to another one's request.
THEOREM CoroutinesGetTheirAnswers ==
  ASSUME UniqueKeys
  PROVE  PacketInSpec => []AnswersOwnRequest
BY CoroutinesUseTheDecorator, AnswersReachTheirRequests, PTL

-----------------------------------------------------------------------------
(* What a step leaves alone                                                *)

\* A request that was sent stays sent, and its pointer does not come back.
LEMMA PhasesGoOn ==
  ASSUME TypeOK, [Next]_vars, NEW r \in Requests
  PROVE  /\ phase[r] = "sent" => phase'[r] = "sent"
         /\ phase[r] = "sent" /\ ~held[r] => ~held'[r]
<1> USE DEF TypeOK
<1>1. ASSUME NEW s \in Requests,
             \/ RegisterRequest(s) \/ AsyncSend(s) \/ WriteReaches(s)
             \/ SendHandler(s) \/ SendHandlerError(s)
             \/ ReleaseTransaction(s) \/ DestroyTransaction(s)
      PROVE  /\ phase[r] = "sent" => phase'[r] = "sent"
             /\ phase[r] = "sent" /\ ~held[r] => ~held'[r]
  BY <1>1 DEF RegisterRequest, AsyncSend, WriteReaches, SendHandler,
     SendHandlerError, ReleaseTransaction, DestroyTransaction
<1>2. CASE UNCHANGED <<phase, held>>
  BY <1>2
<1>3. ASSUME NEW s \in Requests, NEW inStrand \in ReaderContexts,
             \/ HandleReply(s, inStrand)
             \/ \E echo \in Echoes : HandleError(s, echo, inStrand)
      PROVE  UNCHANGED <<phase, held>>
  BY <1>3 DEF HandleReply, HandleError, HandleResponse
<1>4. ASSUME NEW c \in Calls,
             \/ \E finite \in BOOLEAN :
                  ReceiveInStrand(c, finite) \/ ReceivePosted(c, finite)
             \/ Expire(c) \/ WaitHandler(c)
      PROVE  UNCHANGED <<phase, held>>
  BY <1>4 DEF ReceiveInStrand, ReceivePosted, Expire, WaitHandler
<1>5. ASSUME RunStrand \/ Goodbye \/ DestroyChannel
      PROVE  UNCHANGED <<phase, held>>
  BY <1>5 DEF RunStrand, RunWait, RunHandler, RunSet, Goodbye, DestroyChannel
<1> QED BY <1>1, <1>2, <1>3, <1>4, <1>5 DEF Next, vars

\* A receive concerns the calls and the contents of its own transaction.
LEMMA ReceiveIsLocal ==
  ASSUME TypeOK, NEW r \in Requests, <<r, 1>> \in Calls,
         ReceiveInStrand(<<r, 1>>, TRUE)
  PROVE  /\ UNCHANGED <<phase, held, msg>>
         /\ \A s \in Requests : s # r =>
              moved'[s] = moved[s] /\ call'[<<s, 1>>] = call[<<s, 1>>]
         /\ strand' = strand
              \/ strand' = Append(strand, [op |-> "handler", call |-> <<r, 1>>])
<1> DEFINE c == <<r, 1>>
<1>1. /\ UNCHANGED <<phase, held, msg>>
      /\ AsyncWaitAnswered(c, TRUE, strand) \/ AsyncWaitTimer(c, TRUE, strand)
  BY DEF ReceiveInStrand, AsyncWait
<1>2. c[1] = r
  OBVIOUS
<1>3. ASSUME NEW s \in Requests, s # r
      PROVE  <<s, 1>> \in Calls /\ <<s, 1>> # c /\ <<s, 1>> \notin CallsOf(r)
  BY <1>3, CoroutinesAssumption DEF Calls, CallsOf
<1> HIDE DEF c
<1>4. CASE AsyncWaitAnswered(c, TRUE, strand)
  BY <1>1, <1>2, <1>3, <1>4 DEF AsyncWaitAnswered, TypeOK, c
<1>5. CASE AsyncWaitTimer(c, TRUE, strand)
  <2>1. ASSUME NEW s \in Requests, s # r
        PROVE  call'[<<s, 1>>] = call[<<s, 1>>]
    <3>1. CancelTimer(r)[<<s, 1>>] = call[<<s, 1>>]
      BY <1>3, <2>1 DEF CancelTimer
    <3>2. call' = [CancelTimer(r) EXCEPT
                     ![c] = [st |-> "waiting", finite |-> TRUE, result |-> "none"]]
      BY <1>2, <1>5 DEF AsyncWaitTimer
    <3> QED BY <1>3, <2>1, <3>1, <3>2 DEF CancelTimer
  <2> QED BY <1>1, <1>5, <2>1 DEF AsyncWaitTimer
<1> QED BY <1>1, <1>4, <1>5

\* So does the end of a receive.
LEMMA ReceivedIsLocal ==
  ASSUME TypeInv, NEW r \in Requests, <<r, 1>> \in Calls, Received(r)
  PROVE  /\ UNCHANGED <<phase, held, msg>>
         /\ \A s \in Requests : s # r =>
              moved'[s] = moved[s] /\ call'[<<s, 1>>] = call[<<s, 1>>]
         /\ strand' \in {strand, Tail(strand)}
         /\ strand' # strand => strand # <<>>
<1> USE DEF TypeInv, TypeOK
<1>1. ASSUME NEW s \in Requests, s # r
      PROVE  <<s, 1>> \in Calls /\ <<s, 1>> # <<r, 1>>
  BY <1>1, CoroutinesAssumption DEF Calls
<1>2. CASE WaitHandler(<<r, 1>>)
  BY <1>1, <1>2 DEF WaitHandler
<1>3. CASE strand # <<>> /\ Head(strand).call = <<r, 1>> /\ RunHandler
  BY <1>1, <1>3 DEF RunHandler
<1> QED BY <1>2, <1>3 DEF Received

\* The steps of the decorator that a coroutine takes for the request r.
OwnStep(r) ==
  \/ RegisterRequest(r) \/ AsyncSend(r) \/ SendHandler(r) \/ SendHandlerError(r)
  \/ ReceiveInStrand(<<r, 1>>, TRUE) \/ Received(r)
  \/ ReleaseTransaction(r) \/ DestroyTransaction(r)

LEMMA CoroutineStep ==
  ASSUME NEW p \in Packets, Coroutine(p)
  PROVE  OwnStep(FlowAdd[p]) \/ OwnStep(Barrier[p]) \/ UNCHANGED vars
<1> USE DEF OwnStep
<1>1. CASE SendFlowAdd(p) \/ SendBarrier(p)
  BY <1>1 DEF SendFlowAdd, SendBarrier, SendRequest
<1>2. CASE FlowAddSent(p) \/ BarrierSent(p)
  BY <1>2 DEF FlowAddSent, BarrierSent, RequestSent
<1>3. CASE WaitForBarrier(p) \/ ConfirmFlow(p)
  BY <1>3 DEF WaitForBarrier, ConfirmFlow, ReceiveResponse
<1>4. CASE BarrierReceived(p) \/ FlowConfirmed(p)
  BY <1>4 DEF BarrierReceived, FlowConfirmed
<1>5. CASE Leave(p)
  BY <1>5, Zenon DEF Leave
<1>6. CASE Spawn(p) \/ SendPacketOut(p) \/ PacketOutSent(p)
  BY <1>6 DEF Spawn, SendPacketOut, PacketOutSent
<1> QED BY <1>1, <1>2, <1>3, <1>4, <1>5, <1>6 DEF Coroutine

\* What the coroutine of one request leaves to the others.
Elsewhere(r) ==
  /\ msg' = msg
  /\ \A s \in Requests : s # r =>
       /\ phase'[s] = phase[s] /\ held'[s] = held[s] /\ moved'[s] = moved[s]
       /\ call'[<<s, 1>>] = call[<<s, 1>>]
  /\ \A s \in Requests : Written(s)' <=> Written(s)

LEMMA OwnStepIsLocal ==
  ASSUME TypeInv, NEW r \in Requests, <<r, 1>> \in Calls, OwnStep(r)
  PROVE  Elsewhere(r)
<1> USE DEF Written, TypeInv, TypeOK, Elsewhere
<1>1. CASE RegisterRequest(r)
  BY <1>1 DEF RegisterRequest
<1>2. CASE AsyncSend(r)
  BY <1>2 DEF AsyncSend
<1>3. CASE SendHandler(r) \/ SendHandlerError(r)
  BY <1>3 DEF SendHandler, SendHandlerError
<1>4. CASE ReleaseTransaction(r) \/ DestroyTransaction(r)
  BY <1>4 DEF ReleaseTransaction, DestroyTransaction
<1>5. CASE ReceiveInStrand(<<r, 1>>, TRUE)
  BY <1>5, ReceiveIsLocal
<1>6. CASE Received(r)
  BY <1>6, ReceivedIsLocal
<1> QED BY <1>1, <1>2, <1>3, <1>4, <1>5, <1>6 DEF OwnStep

LEMMA CoroutineIsLocal ==
  ASSUME TypeInv, NEW p \in Packets, Coroutine(p)
  PROVE  /\ msg' = msg
         /\ \A s \in Requests \ {FlowAdd[p], Barrier[p]} :
              /\ phase'[s] = phase[s] /\ held'[s] = held[s] /\ moved'[s] = moved[s]
              /\ call'[<<s, 1>>] = call[<<s, 1>>]
         /\ \A s \in Requests : Written(s)' <=> Written(s)
<1>1. CASE UNCHANGED vars
  BY <1>1 DEF vars, Written
<1>2. CASE OwnStep(FlowAdd[p]) \/ OwnStep(Barrier[p])
  <2>1. Elsewhere(FlowAdd[p]) \/ Elsewhere(Barrier[p])
    BY <1>2, CoroutineRequests, OwnStepIsLocal
  <2> QED BY <2>1 DEF Elsewhere
<1> QED BY <1>1, <1>2, CoroutineStep

\* What the rest of the system does with the requests: it writes them, lets
\* their timers go, and gives them their answers.
Outside ==
  /\ \A r \in Requests :
       /\ phase[r] \notin {"writing", "written"} => phase'[r] = phase[r]
       /\ phase[r] # "idle" => phase'[r] # "idle"
       /\ moved'[r] => moved[r]
  /\ held' = held
  /\ \A c \in Calls :
       /\ call[c].st = "bound" <=> call'[c].st = "bound"
       /\ call[c].st = "bound" => call'[c].result = call[c].result
  /\ strand' = strand

\* In the strand an answer is set at once, or goes to the next decorator.
LEMMA HandledInStrand ==
  ASSUME NEW r \in Requests, NEW kind \in {"reply", "error"},
         NEW lookedUp \in BOOLEAN, HandleResponse(r, kind, lookedUp, TRUE)
  PROVE  \/ UNCHANGED <<msg, moved, call>>
         \/ /\ map[Key(r)] # NoTransaction
            /\ SetMessage(map[Key(r)], [kind |-> kind, to |-> r])
BY DEF HandleResponse

LEMMA HandledOutside ==
  ASSUME TypeInv, NEW r \in Requests, NEW kind \in {"reply", "error"},
         NEW lookedUp \in BOOLEAN, HandleResponse(r, kind, lookedUp, TRUE)
  PROVE  Outside
<1> USE DEF TypeInv, TypeOK
<1>1. UNCHANGED <<phase, held, strand>>
  BY DEF HandleResponse
<1>2. CASE UNCHANGED <<msg, moved, call>>
  BY <1>1, <1>2 DEF Outside
<1>3. ASSUME NEW s \in Requests, NEW answer, SetMessage(s, answer)
      PROVE  Outside
  <2>1. \A t \in Requests : moved'[t] => moved[t]
    BY <1>3 DEF SetMessage
  <2>2. \A c \in Calls :
          /\ call[c].st = "bound" <=> call'[c].st = "bound"
          /\ call[c].st = "bound" => call'[c].result = call[c].result
    <3>1. ASSUME NEW c \in Calls
          PROVE  /\ call[c].st = "bound" <=> CancelTimer(s)[c].st = "bound"
                 /\ call[c].st = "bound" =>
                      CancelTimer(s)[c].result = call[c].result
      <4>1. call[c] \in [st : CallStates, result : Results, finite : BOOLEAN]
        BY DEF CallRecords
      <4>2. [call[c] EXCEPT !.st = "ready", !.result = "aborted"].st = "ready"
        BY <4>1
      <4> QED BY <4>2, CancelTimerCalls
    <3> QED BY <1>3, <3>1 DEF SetMessage
  <2> QED BY <1>1, <2>1, <2>2 DEF Outside
<1>4. \/ UNCHANGED <<msg, moved, call>>
      \/ \E s \in Requests, answer \in Messages : SetMessage(s, answer)
  <2> DEFINE s == map[Key(r)]
             answer == [kind |-> kind, to |-> r]
  <2>1. s # NoTransaction => s \in Requests
    BY KeyInKeys
  <2>2. answer \in Messages
    BY DEF Messages
  <2>3. \/ UNCHANGED <<msg, moved, call>>
        \/ s # NoTransaction /\ SetMessage(s, answer)
    BY HandledInStrand
  <2> QED BY <2>1, <2>2, <2>3
<1> QED BY <1>2, <1>3, <1>4

EnvironmentStep ==
  \/ \E p \in Packets : WriteArrives(p) \/ TimerExpires(p)
  \/ Switch \/ AnswerArrives
  \/ ConnectionBreaks \/ ChannelGoes
  \/ UNCHANGED packetInVars

LEMMA CoroutineOrEnvironment ==
  ASSUME [PacketInNext]_packetInVars
  PROVE  EnvironmentStep \/ \E p \in Packets : Coroutine(p)
BY DEF PacketInNext, EnvironmentStep

LEMMA EnvironmentIsOutside ==
  ASSUME TypeInv, PacketTypes, EnvironmentStep
  PROVE  /\ Outside
         /\ \A p \in Packets :
              pc'[p] = pc[p] \/ (pc[p] = "sending" /\ pc'[p] = "sent")
<1>1. ASSUME UNCHANGED vars PROVE Outside
  <2>1. /\ phase' = phase /\ held' = held /\ moved' = moved
        /\ call' = call /\ strand' = strand
    BY <1>1 DEF vars
  <2> QED BY <2>1, Zenon DEF Outside
<1>2. ASSUME NEW p \in Packets, WriteArrives(p)
      PROVE  Outside
  <2>1. ASSUME NEW r \in Requests, WriteReaches(r)
        PROVE  Outside
    BY <2>1 DEF WriteReaches, Outside, TypeInv, TypeOK
  <2>2. \/ UNCHANGED vars
        \/ \E r \in Requests : WriteReaches(r)
    BY <1>2, CoroutineRequests, Zenon DEF WriteArrives
  <2> QED BY <1>1, <2>1, <2>2
<1>3. ASSUME NEW p \in Packets, TimerExpires(p)
      PROVE  Outside
  <2>1. PICK c \in Calls : Expire(c)
    BY <1>3, CoroutineRequests DEF TimerExpires
  <2>2. call[c] \in CallRecords
    BY DEF TypeInv, TypeOK
  <2> QED BY <2>1, <2>2 DEF Expire, Outside, TypeInv, TypeOK, CallRecords
<1>4. ASSUME AnswerArrives PROVE Outside
  <2>1. PICK r \in Requests, kind \in {"reply", "error"} :
          IF kind = "reply" THEN HandleReply(r, TRUE)
                            ELSE HandleError(r, "header", TRUE)
    BY <1>4, AnswerIsAResponse DEF PacketTypes
  <2>2. PICK lookedUp \in BOOLEAN : HandleResponse(r, kind, lookedUp, TRUE)
    BY <2>1 DEF HandleReply, HandleError
  <2> QED BY <2>2, HandledOutside
<1>5. ASSUME ConnectionBreaks \/ ChannelGoes PROVE Outside
  BY <1>5 DEF ConnectionBreaks, ChannelGoes, Goodbye, DestroyChannel, Outside
<1>6. Outside
  BY <1>1, <1>2, <1>3, <1>4, <1>5 DEF EnvironmentStep, Switch, packetInVars
<1>7. ASSUME NEW p \in Packets
      PROVE  pc'[p] = pc[p] \/ (pc[p] = "sending" /\ pc'[p] = "sent")
  <2>1. ASSUME NEW q \in Packets, WriteArrives(q)
        PROVE  pc'[p] = pc[p] \/ (pc[p] = "sending" /\ pc'[p] = "sent")
    BY <2>1 DEF WriteArrives, PacketTypes, PacketInTypeOK
  <2>2. CASE pc' = pc
    BY <2>2
  <2> QED BY <2>1, <2>2 DEF EnvironmentStep, TimerExpires, Switch,
          AnswerArrives, ConnectionBreaks, ChannelGoes, packetInVars
<1> QED BY <1>6, <1>7

-----------------------------------------------------------------------------
(* No answer is posted to the strand                                       *)

LEMMA OwnStepStrand ==
  ASSUME TypeInv, NEW r \in Requests, <<r, 1>> \in Calls, OwnStep(r)
  PROVE  \/ strand' = strand
         \/ strand' = Append(strand, [op |-> "handler", call |-> <<r, 1>>])
         \/ strand # <<>> /\ strand' = Tail(strand)
<1> USE DEF TypeInv
<1>1. CASE ReceiveInStrand(<<r, 1>>, TRUE)
  BY <1>1, ReceiveIsLocal
<1>2. CASE Received(r)
  BY <1>2, ReceivedIsLocal
<1>3. ASSUME \/ RegisterRequest(r) \/ AsyncSend(r)
             \/ SendHandler(r) \/ SendHandlerError(r)
             \/ ReleaseTransaction(r) \/ DestroyTransaction(r)
      PROVE  strand' = strand
  BY <1>3 DEF RegisterRequest, AsyncSend, SendHandler, SendHandlerError,
     ReleaseTransaction, DestroyTransaction
<1> QED BY <1>1, <1>2, <1>3 DEF OwnStep

LEMMA NextNoneIsPosted ==
  ASSUME TypeInv, PacketTypes, NoneIsPosted, [PacketInNext]_packetInVars
  PROVE  NoneIsPosted'
<1>1. strand \in Seq(StrandItems)
  BY DEF TypeInv, TypeOK
<1>2. CASE strand' = strand
  BY <1>2 DEF NoneIsPosted
<1>3. ASSUME NEW r \in Requests, <<r, 1>> \in Calls, OwnStep(r)
      PROVE  NoneIsPosted'
  <2>1. CASE strand' = Append(strand, [op |-> "handler", call |-> <<r, 1>>])
    <3> DEFINE item == [op |-> "handler", call |-> <<r, 1>>]
    <3>1. item \in StrandItems /\ item.op # "set"
      BY <1>3 DEF StrandItems
    <3> HIDE DEF item
    <3>2. strand' = Append(strand, item)
      BY <2>1 DEF item
    <3> QED BY <1>1, <3>1, <3>2 DEF NoneIsPosted
  <2>2. CASE strand # <<>> /\ strand' = Tail(strand)
    BY <1>1, <2>2 DEF NoneIsPosted
  <2> QED BY <1>2, <1>3, <2>1, <2>2, OwnStepStrand
<1>4. ASSUME NEW p \in Packets, Coroutine(p)
      PROVE  NoneIsPosted'
  BY <1>2, <1>3, <1>4, CoroutineStep, CoroutineRequests DEF vars
<1>5. CASE EnvironmentStep
  BY <1>2, <1>5, EnvironmentIsOutside DEF Outside
<1> QED BY <1>4, <1>5, CoroutineOrEnvironment

-----------------------------------------------------------------------------
(* What a coroutine has done at each of its points                         *)

LEMMA NextSteady ==
  ASSUME TypeInv, TableInv, PacketTypes, [PacketInNext]_packetInVars,
         NEW p \in Packets, Steady(p)
  PROVE  Steady(p)'
<1> DEFINE F == FlowAdd[p]
           B == Barrier[p]
<1>1. /\ F \in Requests /\ B \in Requests /\ F # B
      /\ <<F, 1>> \in Calls /\ <<B, 1>> \in Calls
  BY CoroutineRequests, CoroutinesAssumption
<1>2. [Next]_vars
  BY Refines DEF PacketTypes
<1> HIDE DEF F, B
<1>3. /\ phase[F] = "sent" => phase'[F] = "sent"
      /\ Answered(B) => Answered(B)'
  BY <1>1, <1>2, PhasesGoOn, AnsweredStays DEF TypeInv, Answered
<1>4. /\ phase[B] # "idle" => phase[F] = "sent"
      /\ pc[p] \in {"barrier", "asking", "wait", "waiting", "confirm", "confirming"}
           => phase[F] = "sent" /\ held[F]
      /\ pc[p] \in {"confirm", "confirming"} => Answered(B)
      /\ moved[F] => pc[p] \in {"confirming", "packet_out", "sending", "sent",
                                "leave", "done"}
      /\ pc[p] = "confirming" => ~moved[F] \/ call[<<F, 1>>].st = "bound"
      /\ pc[p] = "confirming" /\ call[<<F, 1>>].st = "bound"
           => call[<<F, 1>>].result = "answer"
  BY DEF Steady, F, B
<1>5. SUFFICES
      /\ phase'[B] # "idle" => phase'[F] = "sent"
      /\ pc'[p] \in {"barrier", "asking", "wait", "waiting", "confirm", "confirming"}
           => phase'[F] = "sent" /\ held'[F]
      /\ pc'[p] \in {"confirm", "confirming"} => Answered(B)'
      /\ moved'[F] => pc'[p] \in {"confirming", "packet_out", "sending", "sent",
                                  "leave", "done"}
      /\ pc'[p] = "confirming" => ~moved'[F] \/ call'[<<F, 1>>].st = "bound"
      /\ pc'[p] = "confirming" /\ call'[<<F, 1>>].st = "bound"
           => call'[<<F, 1>>].result = "answer"
  BY DEF Steady, F, B, Answered
<1>6. CASE EnvironmentStep
  BY <1>1, <1>3, <1>4, <1>6, EnvironmentIsOutside DEF Outside
<1>7. CASE \E q \in Packets : q # p /\ Coroutine(q)
  <2> PICK q \in Packets : q # p /\ Coroutine(q)
    BY <1>7
  <2>1. F \notin {FlowAdd[q], Barrier[q]} /\ B \notin {FlowAdd[q], Barrier[q]}
    BY CoroutinesAssumption DEF F, B
  <2>2. pc'[p] = pc[p]
    BY CoroutineSteps DEF PacketTypes, PacketInTypeOK
  <2>3. /\ phase'[F] = phase[F] /\ held'[F] = held[F] /\ moved'[F] = moved[F]
        /\ phase'[B] = phase[B] /\ call'[<<F, 1>>] = call[<<F, 1>>]
    BY <1>1, <2>1, CoroutineIsLocal
  <2> QED BY <1>3, <1>4, <2>2, <2>3
<1>8. CASE Coroutine(p)
  <2> USE DEF Continue, Suspend, Resume
  <2>0. pc \in [Packets -> Points] /\ moved \in [Requests -> BOOLEAN]
        /\ phase \in [Requests -> Phases] /\ held \in [Requests -> BOOLEAN]
        /\ call \in [Calls -> CallRecords]
    BY DEF PacketTypes, PacketInTypeOK, TypeInv, TypeOK
  <2>1. CASE Spawn(p) \/ SendPacketOut(p) \/ PacketOutSent(p)
    BY <1>3, <1>4, <2>0, <2>1 DEF Spawn, SendPacketOut, PacketOutSent, vars
  <2>2. CASE SendFlowAdd(p)
    BY <1>1, <1>3, <1>4, <2>0, <2>2
       DEF SendFlowAdd, SendRequest, RegisterRequest, AsyncSend, F, B
  <2>3. CASE FlowAddSent(p)
    BY <1>1, <1>3, <1>4, <2>0, <2>3
       DEF FlowAddSent, RequestSent, SendHandler, SendHandlerError, F, B
  <2>4. CASE SendBarrier(p)
    BY <1>1, <1>3, <1>4, <2>0, <2>4
       DEF SendBarrier, SendRequest, RegisterRequest, AsyncSend, F, B
  <2>5. CASE BarrierSent(p)
    BY <1>1, <1>3, <1>4, <2>0, <2>5
       DEF BarrierSent, RequestSent, SendHandler, SendHandlerError, F, B
  <2>6. CASE WaitForBarrier(p)
    <3>1. /\ UNCHANGED <<phase, held>>
          /\ moved'[F] = moved[F] /\ call'[<<F, 1>>] = call[<<F, 1>>]
      BY <1>1, <2>6, ReceiveIsLocal
         DEF WaitForBarrier, ReceiveResponse, TypeInv, B
    <3>2. pc[p] = "wait" /\ pc'[p] = "waiting"
      BY <2>0, <2>6 DEF WaitForBarrier, ReceiveResponse
    <3> QED BY <1>4, <3>1, <3>2
  <2>7. CASE BarrierReceived(p)
    <3>1. /\ UNCHANGED <<phase, held, msg>>
          /\ moved'[F] = moved[F] /\ call'[<<F, 1>>] = call[<<F, 1>>]
      BY <1>1, <2>7, ReceivedIsLocal DEF BarrierReceived, B
    <3>2. /\ pc[p] = "waiting" /\ pc'[p] \in {"confirm", "leave"}
          /\ pc'[p] = "confirm" => msg[B].kind = "reply"
      BY <2>0, <2>7 DEF BarrierReceived, B
    <3>3. pc'[p] = "confirm" => Answered(B)
      BY <3>2 DEF Answered
    <3> QED BY <1>3, <1>4, <3>1, <3>2, <3>3
  <2>8. CASE ConfirmFlow(p)
    <3>1. UNCHANGED <<phase, held>>
      BY <1>1, <2>8, ReceiveIsLocal
         DEF ConfirmFlow, ReceiveResponse, TypeInv, F
    <3>2. pc[p] = "confirm" /\ pc'[p] = "confirming"
      BY <2>0, <2>8 DEF ConfirmFlow, ReceiveResponse
    <3>3. AsyncWait(<<F, 1>>, TRUE, strand)
      BY <2>8 DEF ConfirmFlow, ReceiveResponse, ReceiveInStrand, F
    <3>4. CASE AsyncWaitAnswered(<<F, 1>>, TRUE, strand)
      BY <1>1, <1>3, <1>4, <2>0, <3>1, <3>2, <3>4
         DEF AsyncWaitAnswered, Contents
    <3>5. CASE AsyncWaitTimer(<<F, 1>>, TRUE, strand)
      <4>1. call'[<<F, 1>>].st = "waiting" /\ moved' = moved
        BY <1>1, <3>5 DEF AsyncWaitTimer, CancelTimer
      <4> QED BY <1>3, <1>4, <3>1, <3>2, <4>1
    <3> QED BY <3>3, <3>4, <3>5 DEF AsyncWait
  <2>9. CASE FlowConfirmed(p)
    <3>1. UNCHANGED <<phase, held>>
      BY <1>1, <2>9, ReceivedIsLocal DEF FlowConfirmed, F
    <3>2. pc[p] = "confirming" /\ pc'[p] \in {"leave", "packet_out"}
      BY <2>0, <2>9 DEF FlowConfirmed
    <3> QED BY <1>4, <3>1, <3>2
  <2>10. CASE Leave(p)
    <3>1. pc[p] = "leave" /\ pc'[p] \in {"leave", "done"}
      BY <2>0, <2>10 DEF Leave
    <3>2. \/ UNCHANGED vars
          \/ ReleaseTransaction(F) \/ DestroyTransaction(F)
          \/ ReleaseTransaction(B) \/ DestroyTransaction(B)
      BY <2>10, Zenon DEF Leave, F, B
    <3>3. UNCHANGED phase
      BY <3>2 DEF ReleaseTransaction, DestroyTransaction, vars
    <3> QED BY <1>4, <3>1, <3>3
  <2> QED BY <1>8, <2>1, <2>2, <2>3, <2>4, <2>5, <2>6, <2>7, <2>8, <2>9, <2>10
          DEF Coroutine
<1> QED BY <1>6, <1>7, <1>8, CoroutineOrEnvironment

-----------------------------------------------------------------------------
(* The flow_add comes to the switch before its barrier                     *)

\* Messages to the switch differ in their kind or in their packet.
LEMMA SentItems ==
  ASSUME NEW kind, NEW other, NEW p, NEW q,
         [kind |-> kind, packet |-> p] = [kind |-> other, packet |-> q]
  PROVE  kind = other /\ p = q
<1>1. /\ [kind |-> kind, packet |-> p].kind = [kind |-> other, packet |-> q].kind
      /\ [kind |-> kind, packet |-> p].packet = [kind |-> other, packet |-> q].packet
  BY Zenon
<1> QED BY <1>1

\* What the switch takes next, and what is left behind it.
LEMMA SwitchTakes ==
  ASSUME PacketTypes, Switch, NEW p \in Packets, NEW n \in Nat, n = Len(toSwitch)
  PROVE  /\ n > 0 /\ Len(toSwitch') = n - 1
         /\ \A i \in 1..(n - 1) :
              /\ FlowIsSent(i, p)' <=> FlowIsSent(i + 1, p)
              /\ BarrierIsSent(i, p)' <=> BarrierIsSent(i + 1, p)
              /\ PacketIsSent(i, p)' <=> PacketIsSent(i + 1, p)
         /\ UNCHANGED <<vars, pc, running>>
<1>1. toSwitch \in Seq(ToTheSwitch) /\ toSwitch # <<>> /\ toSwitch' = Tail(toSwitch)
  BY DEF PacketTypes, Switch
<1>2. n > 0 /\ Len(toSwitch') = n - 1 /\ \A i \in 1..(n - 1) : toSwitch'[i] = toSwitch[i + 1]
  BY <1>1
<1> QED BY <1>2 DEF Switch, FlowIsSent, BarrierIsSent, PacketIsSent

\* What the switch does with it.
LEMMA SwitchDoes ==
  ASSUME PacketTypes, Switch
  PROVE  \E q \in Packets :
           \/ /\ FlowIsSent(1, q)
              /\ \/ /\ flows' = [flows EXCEPT ![q] = "installed"]
                    /\ UNCHANGED answers
                 \/ /\ flows' = [flows EXCEPT ![q] = "refused"]
                    /\ answers' = Append(answers, <<FlowAdd[q], "error">>)
              /\ UNCHANGED out
           \/ /\ BarrierIsSent(1, q)
              /\ \E a \in {"reply", "error"} :
                   answers' = Append(answers, <<Barrier[q], a>>)
              /\ UNCHANGED <<flows, out>>
           \/ /\ PacketIsSent(1, q)
              /\ out' = out \cup {q}
              /\ UNCHANGED <<answers, flows>>
<1> DEFINE q == Head(toSwitch).packet
<1>1. toSwitch[1] = Head(toSwitch) /\ Head(toSwitch) \in ToTheSwitch
  BY DEF PacketTypes, Switch
<1>2. /\ q \in Packets
      /\ toSwitch[1] = [kind |-> Head(toSwitch).kind, packet |-> q]
  BY <1>1 DEF ToTheSwitch
<1> QED BY <1>2, Zenon DEF Switch, FlowIsSent, BarrierIsSent, PacketIsSent

\* One message is of one kind, for one packet.
LEMMA SentOnce ==
  ASSUME NEW i, NEW p, NEW q
  PROVE  /\ FlowIsSent(i, p) /\ FlowIsSent(i, q) => p = q
         /\ BarrierIsSent(i, p) /\ BarrierIsSent(i, q) => p = q
         /\ PacketIsSent(i, p) /\ PacketIsSent(i, q) => p = q
         /\ ~(FlowIsSent(i, p) /\ BarrierIsSent(i, q))
         /\ ~(FlowIsSent(i, p) /\ PacketIsSent(i, q))
         /\ ~(BarrierIsSent(i, p) /\ PacketIsSent(i, q))
<1>1. ASSUME NEW kind, NEW other, toSwitch[i] = [kind |-> kind, packet |-> p],
             toSwitch[i] = [kind |-> other, packet |-> q]
      PROVE  kind = other /\ p = q
  <2>1. [kind |-> kind, packet |-> p] = [kind |-> other, packet |-> q]
    BY <1>1
  <2> QED BY <2>1, SentItems
<1> QED BY <1>1 DEF FlowIsSent, BarrierIsSent, PacketIsSent

LEMMA SwitchFlows ==
  ASSUME PacketTypes, Switch, NEW p \in Packets
  PROVE  /\ FlowIsSent(1, p) => flows'[p] \in {"installed", "refused"}
         /\ ~FlowIsSent(1, p) => flows'[p] = flows[p]
<1>1. flows \in [Packets -> {"unknown", "installed", "refused"}]
  BY DEF PacketTypes, PacketInTypeOK
<1>2. PICK q \in Packets :
        \/ /\ FlowIsSent(1, q)
           /\ \E did \in {"installed", "refused"} : flows' = [flows EXCEPT ![q] = did]
        \/ flows' = flows /\ (BarrierIsSent(1, q) \/ PacketIsSent(1, q))
  BY SwitchDoes
<1> QED BY <1>1, <1>2, SentOnce

\* What a write adds behind all the others.
LEMMA WriteAdds ==
  ASSUME PacketTypes, NEW q \in Packets, NEW kind, Arrives(kind, q),
         NEW p \in Packets, NEW n \in Nat, n = Len(toSwitch)
  PROVE  /\ Len(toSwitch') = n + 1
         /\ \A i \in 1..n :
              /\ FlowIsSent(i, p)' <=> FlowIsSent(i, p)
              /\ BarrierIsSent(i, p)' <=> BarrierIsSent(i, p)
              /\ PacketIsSent(i, p)' <=> PacketIsSent(i, p)
         /\ FlowIsSent(n + 1, p)' <=> kind = "flow_add" /\ p = q
         /\ BarrierIsSent(n + 1, p)' <=> kind = "barrier" /\ p = q
         /\ PacketIsSent(n + 1, p)' <=> kind = "packet_out" /\ p = q
<1> DEFINE item == [kind |-> kind, packet |-> q]
<1>1. toSwitch' = Append(toSwitch, item) /\ toSwitch \in Seq(ToTheSwitch)
  BY DEF Arrives, PacketTypes
<1> HIDE DEF item
<1>2. /\ Len(toSwitch') = n + 1 /\ toSwitch'[n + 1] = item
      /\ \A i \in 1..n : toSwitch'[i] = toSwitch[i]
  BY <1>1
<1>3. ASSUME NEW other
      PROVE  item = [kind |-> other, packet |-> p] <=> kind = other /\ p = q
  BY SentItems, Zenon DEF item
<1>4. /\ FlowIsSent(n + 1, p)' <=> kind = "flow_add" /\ p = q
      /\ BarrierIsSent(n + 1, p)' <=> kind = "barrier" /\ p = q
      /\ PacketIsSent(n + 1, p)' <=> kind = "packet_out" /\ p = q
  BY <1>2, <1>3, Zenon DEF FlowIsSent, BarrierIsSent, PacketIsSent
<1>5. ASSUME NEW i \in 1..n
      PROVE  /\ FlowIsSent(i, p)' <=> FlowIsSent(i, p)
             /\ BarrierIsSent(i, p)' <=> BarrierIsSent(i, p)
             /\ PacketIsSent(i, p)' <=> PacketIsSent(i, p)
  BY <1>2 DEF FlowIsSent, BarrierIsSent, PacketIsSent
<1> QED BY <1>2, <1>4, <1>5

LEMMA NextFlowFirst ==
  ASSUME TypeInv, PacketTypes, [PacketInNext]_packetInVars,
         NEW p \in Packets, Steady(p), FlowFirst(p)
  PROVE  FlowFirst(p)'
<1> DEFINE F == FlowAdd[p]
           B == Barrier[p]
<1> PICK n \in Nat : n = Len(toSwitch)
  BY DEF PacketTypes
<1>1. F \in Requests /\ B \in Requests /\ F # B
  BY CoroutineRequests, CoroutinesAssumption
<1>2. flows \in [Packets -> {"unknown", "installed", "refused"}]
  BY DEF PacketTypes, PacketInTypeOK
<1>3. CASE UNCHANGED <<toSwitch, flows>> /\ (Written(F)' <=> Written(F))
  BY <1>3 DEF FlowFirst, FlowIsSent, BarrierIsSent
<1>4. ASSUME NEW q \in Packets, Coroutine(q)
      PROVE  FlowFirst(p)'
  BY <1>1, <1>3, <1>4, CoroutineIsLocal, CoroutineSteps DEF network
<1>5. ASSUME UNCHANGED <<phase, toSwitch, flows>>
      PROVE  FlowFirst(p)'
  BY <1>3, <1>5 DEF Written
<1>6. ASSUME NEW q \in Packets, WriteArrives(q)
      PROVE  FlowFirst(p)'
  <2>1. UNCHANGED flows
    BY <1>6 DEF WriteArrives
  <2>2. CASE WriteReaches(FlowAdd[q]) /\ Arrives("flow_add", q)
    <3>1. /\ phase' = [phase EXCEPT ![FlowAdd[q]] = "written"]
          /\ phase[FlowAdd[q]] = "writing"
      BY <2>2 DEF WriteReaches
    <3>2. CASE q = p
      <4>1. Written(F)' /\ ~Written(F)
        BY <1>1, <3>1, <3>2 DEF Written, TypeInv, TypeOK
      <4>2. flows[p] = "unknown" /\ \A i \in 1..n : ~FlowIsSent(i, p)
        BY <4>1 DEF FlowFirst
      <4>3. /\ \A i \in 1..n : FlowIsSent(i, p)' <=> FlowIsSent(i, p)
            /\ \A i \in 1..n : BarrierIsSent(i, p)' <=> BarrierIsSent(i, p)
            /\ FlowIsSent(n + 1, p)' /\ ~BarrierIsSent(n + 1, p)'
            /\ Len(toSwitch') = n + 1
        BY <2>2, <3>2, WriteAdds
      <4>4. \A i \in 1..n : ~BarrierIsSent(i, p)
        BY <1>1, <4>2 DEF FlowFirst
      <4> HIDE DEF F
      <4> QED BY <1>1, <2>1, <4>1, <4>2, <4>3, <4>4 DEF FlowFirst, F
    <3>3. CASE q # p
      <4>1. Written(F)' <=> Written(F)
        BY <1>1, <3>1, <3>3, CoroutinesAssumption DEF Written, TypeInv, TypeOK
      <4>2. /\ \A i \in 1..n : FlowIsSent(i, p)' <=> FlowIsSent(i, p)
            /\ \A i \in 1..n : BarrierIsSent(i, p)' <=> BarrierIsSent(i, p)
            /\ ~FlowIsSent(n + 1, p)' /\ ~BarrierIsSent(n + 1, p)'
            /\ Len(toSwitch') = n + 1
        BY <2>2, <3>3, WriteAdds
      <4> HIDE DEF F
      <4> QED BY <1>1, <2>1, <4>1, <4>2 DEF FlowFirst, F
    <3> QED BY <3>2, <3>3
  <2>3. CASE WriteReaches(Barrier[q]) /\ Arrives("barrier", q)
    <3>1. /\ phase' = [phase EXCEPT ![Barrier[q]] = "written"]
          /\ phase[Barrier[q]] = "writing"
      BY <2>3 DEF WriteReaches
    <3>2. Written(F)' <=> Written(F)
      BY <1>1, <3>1, CoroutinesAssumption DEF Written, TypeInv, TypeOK
    <3>3. q = p => flows[p] # "unknown" \/ \E i \in 1..n : FlowIsSent(i, p)
      BY <1>1, <3>1 DEF Steady, FlowFirst, Written
    <3>4. /\ \A i \in 1..n : FlowIsSent(i, p)' <=> FlowIsSent(i, p)
          /\ \A i \in 1..n : BarrierIsSent(i, p)' <=> BarrierIsSent(i, p)
          /\ ~FlowIsSent(n + 1, p)' /\ (q # p => ~BarrierIsSent(n + 1, p)')
          /\ Len(toSwitch') = n + 1
      BY <2>3, WriteAdds
    <3> HIDE DEF F
    <3> QED BY <1>1, <2>1, <3>2, <3>3, <3>4 DEF FlowFirst, F
  <2>4. CASE Arrives("packet_out", q) /\ UNCHANGED vars
    <3>1. Written(F)' <=> Written(F)
      BY <2>4 DEF Written, vars
    <3>2. /\ \A i \in 1..n : FlowIsSent(i, p)' <=> FlowIsSent(i, p)
          /\ \A i \in 1..n : BarrierIsSent(i, p)' <=> BarrierIsSent(i, p)
          /\ ~FlowIsSent(n + 1, p)' /\ ~BarrierIsSent(n + 1, p)'
          /\ Len(toSwitch') = n + 1
      BY <2>4, WriteAdds
    <3> HIDE DEF F
    <3> QED BY <1>1, <2>1, <3>1, <3>2 DEF FlowFirst, F
  <2> QED BY <1>6, <2>2, <2>3, <2>4 DEF WriteArrives
<1>7. CASE Switch
  <2>1. Written(F)' <=> Written(F)
    BY <1>7, SwitchTakes DEF Written, vars
  <2>2. /\ n > 0 /\ Len(toSwitch') = n - 1
        /\ \A i \in 1..(n - 1) :
             /\ FlowIsSent(i, p)' <=> FlowIsSent(i + 1, p)
             /\ BarrierIsSent(i, p)' <=> BarrierIsSent(i + 1, p)
    BY <1>7, SwitchTakes
  <2>3. CASE FlowIsSent(1, p)
    <3>1. flows'[p] # "unknown"
      BY <1>7, <2>3, SwitchFlows
    <3>2. Written(F) /\ \A i \in 1..n : FlowIsSent(i, p) => i = 1
      BY <1>1, <2>2, <2>3 DEF FlowFirst
    <3> HIDE DEF F
    <3> QED BY <1>1, <2>1, <2>2, <3>1, <3>2 DEF FlowFirst, F
  <2>4. CASE ~FlowIsSent(1, p)
    <3>1. flows'[p] = flows[p]
      BY <1>7, <2>4, SwitchFlows
    <3>2. ASSUME NEW i \in 1..n, FlowIsSent(i, p)
          PROVE  i - 1 \in 1..(n - 1) /\ FlowIsSent(i - 1, p)'
      BY <1>1, <2>2, <2>4, <3>2
    <3>3. ASSUME NEW i \in 1..(n - 1), BarrierIsSent(i, p)', flows[p] = "unknown"
          PROVE  \E j \in 1..(i - 1) : FlowIsSent(j, p)'
      <4>1. PICK j \in 1..i : FlowIsSent(j, p)
        BY <1>1, <2>2, <3>3 DEF FlowFirst
      <4>2. j \in 1..n /\ j # 1
        BY <1>1, <2>4, <4>1
      <4> QED BY <1>1, <3>2, <4>1, <4>2
    <3> HIDE DEF F
    <3> QED BY <1>1, <2>1, <2>2, <3>1, <3>2, <3>3 DEF FlowFirst, F
  <2> QED BY <2>3, <2>4
<1>8. CASE AnswerArrives
  <2>1. UNCHANGED <<phase, toSwitch, flows>>
    BY <1>8 DEF AnswerArrives, HandleReply, HandleError, HandleResponse
  <2> QED BY <1>5, <2>1
<1>9. ASSUME NEW q \in Packets, TimerExpires(q)
      PROVE  FlowFirst(p)'
  BY <1>5, <1>9 DEF TimerExpires, Expire, network
<1>10. CASE ConnectionBreaks \/ ChannelGoes \/ UNCHANGED packetInVars
  BY <1>5, <1>10 DEF ConnectionBreaks, ChannelGoes, Goodbye, DestroyChannel,
     network, packetInVars, vars
<1> QED BY <1>4, <1>6, <1>7, <1>8, <1>9, <1>10 DEF PacketInNext

-----------------------------------------------------------------------------
(* The error for a flow comes back before the answer to its barrier        *)

LEMMA ToldStays ==
  ASSUME TypeInv, TableInv, PacketTypes, [PacketInNext]_packetInVars,
         NEW p \in Packets, Told(p)
  PROVE  Told(p)'
BY CoroutineRequests, Refines, PhasesGoOn, AnsweredStays
   DEF Told, Answered, PacketTypes, TypeInv

\* An error for a flow_add that is still held finds its transaction.
LEMMA ErrorIsTold ==
  ASSUME TypeInv, TableInv, PacketTypes, UnansweredAreFindable, NoneIsPosted,
         [PacketInNext]_packetInVars,
         NEW p \in Packets, HandleError(FlowAdd[p], "header", TRUE)
  PROVE  Told(p)'
<1> DEFINE F == FlowAdd[p]
           answer == [kind |-> "error", to |-> F]
<1>1. F \in Requests /\ ~IsMultipart(F)
  BY CoroutineRequests, CoroutinesAssumption
<1>2. HandleResponse(F, "error", TRUE, TRUE)
  BY <1>1 DEF HandleError
<1>3. CASE Told(p)
  BY <1>3, ToldStays
<1>4. CASE ~Told(p)
  <2>1. channel = "open" /\ phase[F] \in {"written", "sent"}
    BY <1>2 DEF HandleResponse
  <2>2. ~Answered(F) /\ Referenced(F) /\ ~SetPosted(F)
    BY <1>4, <2>1 DEF Told, Referenced, NoneIsPosted, SetPosted
  <2>3. map[Key(F)] = F /\ F # NoTransaction
    BY <1>1, <2>1, <2>2, RequestsAssumption DEF UnansweredAreFindable
  <2> HIDE DEF F
  <2>4. SetMessage(F, answer)
    BY <1>2, <2>2, <2>3 DEF HandleResponse
  <2>5. msg'[F].kind = "error"
    BY <1>1, <2>4 DEF SetMessage, TypeInv, TypeOK
  <2> QED BY <2>5 DEF Told, Answered, F
<1> QED BY <1>3, <1>4

\* An answer is given to the request it answers.
LEMMA AnsweredByItsAnswer ==
  ASSUME UniqueKeys, TypeInv, TableInv, PacketTypes,
         NEW r \in Requests, NEW kind \in {"reply", "error"},
         IF kind = "reply" THEN HandleReply(r, TRUE)
                           ELSE HandleError(r, "header", TRUE),
         NEW t \in Requests, t # r
  PROVE  msg'[t] = msg[t]
<1>1. PICK lookedUp \in BOOLEAN : HandleResponse(r, kind, lookedUp, TRUE)
  BY DEF HandleReply, HandleError
<1>2. \/ UNCHANGED msg
      \/ /\ map[Key(r)] # NoTransaction
         /\ SetMessage(map[Key(r)], [kind |-> kind, to |-> r])
  BY <1>1, HandledInStrand
<1>3. map[Key(r)] # NoTransaction => map[Key(r)] = r
  BY FoundTransaction DEF TypeInv, UniqueKeys
<1> QED BY <1>2, <1>3 DEF SetMessage, TypeInv, TypeOK

LEMMA AppendedAnswer ==
  ASSUME PacketTypes, NEW x \in FromTheSwitch, answers' = Append(answers, x),
         NEW m \in Nat, m = Len(answers)
  PROVE  /\ Len(answers') = m + 1 /\ answers'[m + 1] = x
         /\ \A i \in 1..m : answers'[i] = answers[i]
BY DEF PacketTypes

LEMMA NextErrorFirst ==
  ASSUME UniqueKeys, TypeInv, TableInv, PacketTypes, UnansweredAreFindable,
         NoneIsPosted, [PacketInNext]_packetInVars,
         NEW p \in Packets, FlowFirst(p), ErrorFirst(p)
  PROVE  ErrorFirst(p)'
<1> DEFINE F == FlowAdd[p]
           B == Barrier[p]
<1> PICK m \in Nat : m = Len(answers)
  BY DEF PacketTypes
<1>1. F \in Requests /\ B \in Requests /\ F # B
  BY CoroutineRequests, CoroutinesAssumption
<1>2. Told(p) => Told(p)'
  BY ToldStays
<1>3. ASSUME UNCHANGED <<flows, answers, msg>>
      PROVE  ErrorFirst(p)'
  BY <1>2, <1>3 DEF ErrorFirst, Answered
<1>4. CASE Switch
  <2>1. /\ Answered(B)' <=> Answered(B)
        /\ Told(p)' <=> Told(p)
    BY <1>4 DEF Switch, vars, Answered, Told
  <2>2. PICK n \in Nat : n = Len(toSwitch) /\ n > 0
    BY <1>4 DEF Switch, PacketTypes
  <2>3. CASE FlowIsSent(1, p)
    <3>1. /\ flows[p] = "unknown" /\ ~Answered(B)
          /\ \A i \in 1..m : answers[i][1] # B
      BY <2>2, <2>3 DEF FlowFirst, ErrorFirst
    <3>2. CASE answers' = Append(answers, <<F, "error">>)
      <4>1. <<F, "error">> \in FromTheSwitch
        BY <1>1 DEF FromTheSwitch
      <4>2. /\ Len(answers') = m + 1 /\ answers'[m + 1] = <<F, "error">>
            /\ \A i \in 1..m : answers'[i] = answers[i]
        BY <3>2, <4>1, AppendedAnswer
      <4>3. \A i \in 1..(m + 1) : answers'[i][1] # B
        BY <1>1, <3>1, <4>2
      <4>4. m + 1 \in 1..(m + 1)
        OBVIOUS
      <4> HIDE DEF F, B
      <4> QED BY <2>1, <3>1, <4>2, <4>3, <4>4 DEF ErrorFirst, F, B
    <3>3. CASE answers' = answers /\ flows'[p] = "installed"
      <4> HIDE DEF F, B
      <4> QED BY <2>1, <3>1, <3>3 DEF ErrorFirst, F, B
    <3>4. \/ answers' = Append(answers, <<F, "error">>)
          \/ answers' = answers /\ flows'[p] = "installed"
      <4>1. PICK q \in Packets :
              \/ /\ FlowIsSent(1, q)
                 /\ \/ flows' = [flows EXCEPT ![q] = "installed"] /\ answers' = answers
                    \/ answers' = Append(answers, <<FlowAdd[q], "error">>)
              \/ BarrierIsSent(1, q)
              \/ PacketIsSent(1, q)
        BY <1>4, SwitchDoes
      <4>2. q = p /\ ~BarrierIsSent(1, q) /\ ~PacketIsSent(1, q)
        BY <2>3, <4>1, SentOnce
      <4>3. flows \in [Packets -> {"unknown", "installed", "refused"}]
        BY DEF PacketTypes, PacketInTypeOK
      <4>4. CASE flows' = [flows EXCEPT ![p] = "installed"] /\ answers' = answers
        BY <4>3, <4>4
      <4> QED BY <4>1, <4>2, <4>4
    <3> QED BY <3>2, <3>3, <3>4
  <2>4. CASE ~FlowIsSent(1, p)
    <3>1. flows'[p] = flows[p]
      BY <1>4, <2>4, SwitchFlows
    <3>2. CASE answers' = answers
      BY <2>1, <3>1, <3>2 DEF ErrorFirst
    <3>3. ASSUME NEW x \in FromTheSwitch, answers' = Append(answers, x),
                 x[1] = B => flows[p] # "unknown"
          PROVE  ErrorFirst(p)'
      <4>1. /\ Len(answers') = m + 1 /\ answers'[m + 1] = x
            /\ \A i \in 1..m : answers'[i] = answers[i]
        BY <3>3, AppendedAnswer
      <4>2. /\ flows[p] = "refused"
                 => Told(p) \/ \E i \in 1..m : answers[i] = <<F, "error">>
            /\ \A i \in 1..m : answers[i][1] = B =>
                 /\ flows[p] # "unknown"
                 /\ flows[p] = "refused"
                      => Told(p) \/ \E j \in 1..(i - 1) : answers[j] = <<F, "error">>
            /\ Answered(B)
                 => flows[p] # "unknown" /\ (flows[p] = "refused" => Told(p))
        BY DEF ErrorFirst
      <4> HIDE DEF F, B
      <4>3. flows'[p] = "refused"
              => Told(p)' \/ \E i \in 1..(m + 1) : answers'[i] = <<F, "error">>
        BY <2>1, <3>1, <4>1, <4>2
      <4>4. ASSUME NEW i \in 1..(m + 1), answers'[i][1] = B
            PROVE  /\ flows'[p] # "unknown"
                   /\ flows'[p] = "refused"
                        => Told(p)' \/ \E j \in 1..(i - 1) : answers'[j] = <<F, "error">>
        <5>1. CASE i = m + 1
          BY <2>1, <3>1, <3>3, <4>1, <4>2, <4>4, <5>1
        <5>2. CASE i \in 1..m
          <6>1. \A j \in 1..(i - 1) : answers'[j] = answers[j]
            BY <4>1, <5>2
          <6> QED BY <2>1, <3>1, <4>1, <4>2, <4>4, <5>2, <6>1
        <5> QED BY <5>1, <5>2
      <4> QED BY <2>1, <3>1, <4>1, <4>2, <4>3, <4>4 DEF ErrorFirst, F, B
    <3>4. PICK q \in Packets :
            \/ FlowIsSent(1, q) /\ (answers' = answers
                                      \/ answers' = Append(answers, <<FlowAdd[q], "error">>))
            \/ /\ BarrierIsSent(1, q)
               /\ \E a \in {"reply", "error"} : answers' = Append(answers, <<Barrier[q], a>>)
            \/ answers' = answers
      BY <1>4, SwitchDoes
    <3>5. CASE answers' = Append(answers, <<FlowAdd[q], "error">>)
      <4>1. <<FlowAdd[q], "error">> \in FromTheSwitch /\ FlowAdd[q] # B
        BY CoroutineRequests, CoroutinesAssumption DEF FromTheSwitch
      <4> QED BY <3>3, <3>5, <4>1
    <3>6. CASE /\ BarrierIsSent(1, q)
               /\ \E a \in {"reply", "error"} : answers' = Append(answers, <<Barrier[q], a>>)
      <4>1. PICK a \in {"reply", "error"} : answers' = Append(answers, <<Barrier[q], a>>)
        BY <3>6
      <4>2. <<Barrier[q], a>> \in FromTheSwitch
        BY CoroutineRequests DEF FromTheSwitch
      <4>3. Barrier[q] = B => flows[p] # "unknown"
        BY <2>2, <3>6, CoroutinesAssumption DEF FlowFirst
      <4> QED BY <3>3, <4>1, <4>2, <4>3
    <3> QED BY <3>2, <3>4, <3>5, <3>6
  <2> QED BY <2>3, <2>4
<1>5. CASE AnswerArrives
  <2>1. PICK r \in Requests, kind \in {"reply", "error"} :
          /\ m > 0 /\ answers[1] = <<r, kind>>
          /\ answers' = Tail(answers)
          /\ IF kind = "reply" THEN HandleReply(r, TRUE)
                               ELSE HandleError(r, "header", TRUE)
          /\ UNCHANGED flows
    BY <1>5, AnswerIsAResponse DEF PacketTypes
  <2>2. /\ Len(answers') = m - 1
        /\ \A i \in 1..(m - 1) : answers'[i] = answers[i + 1]
    BY <2>1 DEF PacketTypes
  <2>3. <<r, kind>> = <<F, "error">> => Told(p)'
    BY <2>1, ErrorIsTold
  <2>4. Answered(B)' => Answered(B) \/ r = B
    BY <1>1, <2>1, AnsweredByItsAnswer DEF Answered
  <2>5. /\ flows[p] = "refused"
             => Told(p) \/ \E i \in 1..m : answers[i] = <<F, "error">>
        /\ \A i \in 1..m : answers[i][1] = B =>
             /\ flows[p] # "unknown"
             /\ flows[p] = "refused"
                  => Told(p) \/ \E j \in 1..(i - 1) : answers[j] = <<F, "error">>
        /\ Answered(B)
             => flows[p] # "unknown" /\ (flows[p] = "refused" => Told(p))
    BY DEF ErrorFirst
  <2> HIDE DEF F, B
  <2>6. ASSUME NEW i \in 1..m, answers[i] = <<F, "error">>
        PROVE  Told(p)' \/ (i - 1 \in 1..(m - 1) /\ answers'[i - 1] = <<F, "error">>)
    BY <2>1, <2>2, <2>3, <2>6
  <2>7. flows'[p] = "refused"
          => Told(p)' \/ \E i \in 1..(m - 1) : answers'[i] = <<F, "error">>
    BY <1>2, <2>1, <2>5, <2>6
  <2>8. ASSUME NEW i \in 1..(m - 1), answers'[i][1] = B
        PROVE  /\ flows'[p] # "unknown"
               /\ flows'[p] = "refused"
                    => Told(p)' \/ \E j \in 1..(i - 1) : answers'[j] = <<F, "error">>
    <3>1. PICK k \in 1..m : k = i + 1 /\ answers[k][1] = B
      BY <2>2, <2>8
    <3>2. ASSUME NEW j \in 1..i, answers[j] = <<F, "error">>, ~Told(p)'
          PROVE  j - 1 \in 1..(i - 1) /\ answers'[j - 1] = <<F, "error">>
      BY <2>1, <2>2, <2>3, <3>2
    <3>3. /\ flows[p] # "unknown"
          /\ flows[p] = "refused"
               => Told(p) \/ \E j \in 1..(k - 1) : answers[j] = <<F, "error">>
      BY <2>5, <3>1
    <3>4. k - 1 = i
      BY <3>1
    <3> QED BY <1>2, <2>1, <3>2, <3>3, <3>4
  <2>9. Answered(B)' => flows'[p] # "unknown" /\ (flows'[p] = "refused" => Told(p)')
    <3>1. r = B => answers[1][1] = B /\ 1 \in 1..m
      BY <2>1
    <3> QED BY <1>2, <2>1, <2>4, <2>5, <3>1
  <2> QED BY <2>2, <2>7, <2>8, <2>9 DEF ErrorFirst, F, B
<1>6. ASSUME NEW q \in Packets, Coroutine(q)
      PROVE  ErrorFirst(p)'
  BY <1>3, <1>6, CoroutineIsLocal, CoroutineSteps DEF network
<1>7. ASSUME NEW q \in Packets, WriteArrives(q) \/ TimerExpires(q)
      PROVE  ErrorFirst(p)'
  <2>1. UNCHANGED <<flows, answers, msg>>
    BY <1>7 DEF WriteArrives, TimerExpires, WriteReaches, Expire, network, vars
  <2> QED BY <1>3, <2>1
<1>8. CASE ConnectionBreaks \/ ChannelGoes \/ UNCHANGED packetInVars
  BY <1>3, <1>8 DEF ConnectionBreaks, ChannelGoes, Goodbye, DestroyChannel,
     network, packetInVars, vars
<1> QED BY <1>4, <1>5, <1>6, <1>7, <1>8 DEF PacketInNext

-----------------------------------------------------------------------------
(* A packet goes back only with its flow in place                          *)

\* The last look at the flow_add finds the error if there is one.
LEMMA ConfirmedFlowIsInstalled ==
  ASSUME TypeInv, PacketTypes, NEW p \in Packets, Steady(p), ErrorFirst(p),
         FlowConfirmed(p), pc'[p] = "packet_out"
  PROVE  flows[p] = "installed"
<1> DEFINE F == FlowAdd[p]
           c == <<F, 1>>
<1>1. F \in Requests /\ c \in Calls /\ c[1] = F
  BY CoroutineRequests
<1>2. /\ pc[p] = "confirming" /\ Received(F)
      /\ pc'[p] = "packet_out" => call'[c].result # "answer"
  BY DEF FlowConfirmed, Resume, GotAnswer, PacketTypes, PacketInTypeOK
<1>3. /\ held[F] /\ Answered(Barrier[p])
      /\ ~moved[F] \/ call[c].st = "bound"
      /\ call[c].st = "bound" => call[c].result = "answer"
  BY <1>2 DEF Steady
<1>4. /\ flows[p] \in {"refused", "installed"}
      /\ flows[p] = "refused" => Answered(F)
  BY <1>3 DEF ErrorFirst, Told, PacketTypes, PacketInTypeOK
<1>5. call \in [Calls -> CallRecords] /\ strand \in Seq(StrandItems)
  BY DEF TypeInv, TypeOK
<1>6. call[c] \in [st : CallStates, result : Results, finite : BOOLEAN]
  BY <1>1, <1>5 DEF CallRecords
<1> HIDE DEF F, c
<1>7. CASE WaitHandler(c) /\ Answered(F)
  BY <1>1, <1>2, <1>3, <1>5, <1>6, <1>7 DEF WaitHandler, Contents
<1>8. CASE strand # <<>> /\ Head(strand).call = c /\ RunHandler
  <2>1. strand[1] = Head(strand) /\ 1 \in 1..Len(strand)
    BY <1>5, <1>8
  <2>2. call[c].st = "bound"
    BY <1>8, <2>1
       DEF RunHandler, NextInStrand, TypeInv, StrandMatchesCalls, Matches
  <2>3. call'[c].result = call[c].result
    BY <1>1, <1>5, <1>6, <1>8 DEF RunHandler
  <2> QED BY <1>2, <1>3, <2>2, <2>3
<1>9. WaitHandler(c) \/ (strand # <<>> /\ Head(strand).call = c /\ RunHandler)
  BY <1>2 DEF Received, c
<1> QED BY <1>4, <1>7, <1>8, <1>9

LEMMA NextFlowInPlace ==
  ASSUME TypeInv, PacketTypes, [PacketInNext]_packetInVars,
         NEW p \in Packets, Steady(p), FlowFirst(p), ErrorFirst(p), FlowInPlace(p)
  PROVE  FlowInPlace(p)'
<1> PICK n \in Nat : n = Len(toSwitch)
  BY DEF PacketTypes
<1>1. /\ pc[p] \in {"packet_out", "sending"} => flows[p] = "installed"
      /\ \A i \in 1..n : PacketIsSent(i, p) => flows[p] = "installed"
      /\ p \in out => flows[p] = "installed"
  BY DEF FlowInPlace
<1>2. pc \in [Packets -> Points]
  BY DEF PacketTypes, PacketInTypeOK
<1>3. ASSUME UNCHANGED <<toSwitch, flows, out>>,
             pc'[p] \in {"packet_out", "sending"} => flows[p] = "installed"
      PROVE  FlowInPlace(p)'
  BY <1>1, <1>3 DEF FlowInPlace, PacketIsSent
<1>4. ASSUME NEW q \in Packets, Coroutine(q)
      PROVE  FlowInPlace(p)'
  <2>1. UNCHANGED <<toSwitch, flows, out>>
    BY <1>4, CoroutineSteps DEF network
  <2>2. CASE q # p
    BY <1>1, <1>2, <1>3, <1>4, <2>1, <2>2, CoroutineSteps
  <2>3. CASE FlowConfirmed(p)
    <3>1. pc'[p] \in {"leave", "packet_out"}
      BY <1>2, <2>3 DEF FlowConfirmed, Resume
    <3> QED BY <1>3, <2>1, <2>3, <3>1, ConfirmedFlowIsInstalled
  <2>4. CASE SendPacketOut(p)
    BY <1>1, <1>2, <1>3, <2>1, <2>4 DEF SendPacketOut, Suspend
  <2>5. ASSUME \/ Spawn(p) \/ SendFlowAdd(p) \/ FlowAddSent(p)
               \/ SendBarrier(p) \/ BarrierSent(p) \/ WaitForBarrier(p)
               \/ BarrierReceived(p) \/ ConfirmFlow(p) \/ PacketOutSent(p)
               \/ Leave(p)
        PROVE  pc'[p] \notin {"packet_out", "sending"}
    BY <1>2, <2>5 DEF Spawn, SendFlowAdd, FlowAddSent, SendBarrier, BarrierSent,
       WaitForBarrier, BarrierReceived, ConfirmFlow, PacketOutSent, Leave,
       SendRequest, RequestSent, ReceiveResponse, Continue, Suspend, Resume
  <2> QED BY <1>3, <1>4, <2>1, <2>2, <2>3, <2>4, <2>5 DEF Coroutine
<1>5. ASSUME NEW q \in Packets, WriteArrives(q)
      PROVE  FlowInPlace(p)'
  <2>1. UNCHANGED <<flows, out>>
    BY <1>5 DEF WriteArrives
  <2>2. pc'[p] = pc[p] \/ pc'[p] = "sent"
    BY <1>2, <1>5 DEF WriteArrives
  <2>3. PICK kind \in {"flow_add", "barrier", "packet_out"} :
          /\ Arrives(kind, q)
          /\ kind = "packet_out" => pc[q] = "sending"
    BY <1>5, Zenon DEF WriteArrives
  <2>4. /\ Len(toSwitch') = n + 1
        /\ \A i \in 1..n : PacketIsSent(i, p)' <=> PacketIsSent(i, p)
        /\ PacketIsSent(n + 1, p)' <=> kind = "packet_out" /\ p = q
    BY <2>3, WriteAdds
  <2> QED BY <1>1, <2>1, <2>2, <2>3, <2>4 DEF FlowInPlace
<1>6. CASE Switch
  <2>1. /\ n > 0 /\ Len(toSwitch') = n - 1
        /\ \A i \in 1..(n - 1) : PacketIsSent(i, p)' <=> PacketIsSent(i + 1, p)
        /\ pc' = pc
    BY <1>6, SwitchTakes
  <2>2. flows[p] = "installed" => flows'[p] = "installed"
    BY <1>6, <2>1, SwitchFlows DEF FlowFirst
  <2>3. p \in out' => p \in out \/ PacketIsSent(1, p)
    BY <1>6, SwitchDoes
  <2> QED BY <1>1, <2>1, <2>2, <2>3 DEF FlowInPlace
<1>7. CASE EnvironmentStep /\ UNCHANGED <<toSwitch, flows, out>>
  BY <1>1, <1>3, <1>7, EnvironmentIsOutside
<1>8. CASE AnswerArrives
  BY <1>7, <1>8 DEF AnswerArrives, EnvironmentStep
<1>9. ASSUME NEW q \in Packets, TimerExpires(q)
      PROVE  FlowInPlace(p)'
  BY <1>7, <1>9 DEF TimerExpires, EnvironmentStep, network
<1>10. CASE ConnectionBreaks \/ ChannelGoes \/ UNCHANGED packetInVars
  BY <1>7, <1>10 DEF ConnectionBreaks, ChannelGoes, packetInVars, network,
     EnvironmentStep
<1> QED BY <1>4, <1>5, <1>6, <1>8, <1>9, <1>10 DEF PacketInNext

-----------------------------------------------------------------------------
(* The invariant, and what it is for                                       *)

LEMMA InitIInv == PacketInInit => IInv
<1> SUFFICES ASSUME PacketInInit PROVE IInv
  OBVIOUS
<1>1. PacketTypes
  BY InitPacketTypes
<1>2. toSwitch = <<>> /\ answers = <<>> /\ strand = <<>> /\ out = {}
  BY DEF PacketInInit, Init
<1>3. NoneIsPosted
  BY <1>2 DEF NoneIsPosted
<1>4. ASSUME NEW p \in Packets
      PROVE  Steady(p) /\ FlowFirst(p) /\ ErrorFirst(p) /\ FlowInPlace(p)
  <2>1. FlowAdd[p] \in Requests /\ Barrier[p] \in Requests
    BY CoroutineRequests
  <2>2. /\ pc[p] = "new" /\ flows[p] = "unknown"
        /\ phase[FlowAdd[p]] = "idle" /\ phase[Barrier[p]] = "idle"
        /\ ~moved[FlowAdd[p]] /\ ~Answered(Barrier[p])
    BY <2>1 DEF PacketInInit, Init, Empty, Answered
  <2>3. Len(toSwitch) = 0 /\ Len(answers) = 0
    BY <1>2
  <2>4. Steady(p)
    BY <2>2 DEF Steady
  <2>5. FlowFirst(p)
    BY <2>2, <2>3 DEF FlowFirst, Written
  <2>6. ErrorFirst(p)
    BY <2>2, <2>3 DEF ErrorFirst
  <2>7. FlowInPlace(p)
    BY <1>2, <2>2, <2>3 DEF FlowInPlace
  <2> QED BY <2>4, <2>5, <2>6, <2>7
<1> QED BY <1>1, <1>3, <1>4 DEF IInv

LEMMA NextIInv ==
  ASSUME UniqueKeys, TypeInv, TableInv, UnansweredAreFindable, IInv,
         [PacketInNext]_packetInVars
  PROVE  IInv'
<1>1. PacketTypes' /\ NoneIsPosted'
  BY NextPacketTypes, NextNoneIsPosted DEF IInv
<1>2. ASSUME NEW p \in Packets
      PROVE  /\ Steady(p)' /\ FlowFirst(p)'
             /\ ErrorFirst(p)' /\ FlowInPlace(p)'
  BY NextSteady, NextFlowFirst, NextErrorFirst, NextFlowInPlace DEF IInv
<1> QED BY <1>1, <1>2 DEF IInv

\* Whatever the timers, the switch and the connection do, and however many
\* coroutines there are: a packet that the switch has taken back has its flow.
\* The barrier is why: its answer comes after the error for the flow, which
\* finds the coroutine's transaction in the table.
THEOREM PacketsHaveTheirFlows ==
  ASSUME UniqueKeys
  PROVE  PacketInSpec => []PacketsFollowFlows
<1>1. UniqueKeys
  OBVIOUS
<1>2. PacketInSpec => [](TypeInv /\ TableInv)
  BY CoroutinesUseTheDecorator, TypeInvariance, TableInvariance, PTL
<1>3. PacketInSpec => []UnansweredAreFindable
  BY CoroutinesAreFound
<1>4. TypeInv /\ TableInv /\ UnansweredAreFindable /\ IInv
        /\ [PacketInNext]_packetInVars => IInv'
  BY <1>1, NextIInv
<1>5. IInv => PacketsFollowFlows
  BY DEF IInv, PacketTypes, PacketInTypeOK, FlowInPlace, PacketsFollowFlows
<1> QED BY <1>2, <1>3, <1>4, <1>5, InitIInv, PTL DEF PacketInSpec

=============================================================================
