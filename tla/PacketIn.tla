------------------------------ MODULE PacketIn ------------------------------
(***************************************************************************)
(* The packet-in handler of transaction_controller.cpp, one application of *)
(* the transaction decorator: a coroutine per packet-in adds a flow, asks  *)
(* for a barrier, looks whether the flow was refused, and only then sends  *)
(* the packet back to the table.                                           *)
(*                                                                         *)
(* The coroutines of a channel run in its strand, as its reader and the    *)
(* handlers of sends, timers and receives do: from one resumption of a     *)
(* coroutine to its next suspension no other of them runs.  What is        *)
(* outside the strand (the network, the timers, the switch) goes on.       *)
(***************************************************************************)
EXTENDS TransactionDecorator

CONSTANTS
  Packets,    \* the packet-ins
  FlowAdd,    \* the request each coroutine sends first
  Barrier,    \* ... and its barrier
  Nobody      \* no coroutine runs

ASSUME CoroutinesAssumption ==
  /\ FlowAdd \in [Packets -> Requests] /\ Barrier \in [Packets -> Requests]
  /\ \A p, q \in Packets :
       /\ FlowAdd[p] # Barrier[q]
       /\ ~IsMultipart(FlowAdd[p])
       /\ p # q => FlowAdd[p] # FlowAdd[q] /\ Barrier[p] # Barrier[q]
  /\ Nobody \notin Packets
  /\ MaxReceives \in Nat \ {0} /\ ReaderContexts = {TRUE}

VARIABLES
  pc,         \* how far each coroutine has come
  running,    \* the coroutine that runs in the strand
  toSwitch,   \* what is on its way to the switch
  answers,    \* ... and back
  flows,      \* what the switch did with the flow of each packet-in
  out         \* the packets the switch has taken back

network == <<toSwitch, answers, flows, out>>
packetInVars == <<vars, pc, running, network>>

Points ==
  {"new", "flow_add", "adding", "barrier", "asking", "wait", "waiting",
   "confirm", "confirming", "packet_out", "sending", "sent", "leave", "done"}

PacketInTypeOK ==
  /\ pc \in [Packets -> Points] /\ running \in Packets \cup {Nobody}
  /\ flows \in [Packets -> {"unknown", "installed", "refused"}]
  /\ out \subseteq Packets

PacketInInit ==
  /\ Init
  /\ pc = [p \in Packets |-> "new"] /\ running = Nobody
  /\ toSwitch = <<>> /\ answers = <<>>
  /\ flows = [p \in Packets |-> "unknown"] /\ out = {}

-----------------------------------------------------------------------------
(* Coroutines.                                                             *)

\* The coroutine p runs on, up to `point`.
Continue(p, point) ==
  /\ running = p
  /\ pc' = [pc EXCEPT ![p] = point]
  /\ UNCHANGED <<running, network>>

\* ... and is suspended there.
Suspend(p, point) ==
  /\ running = p /\ running' = Nobody
  /\ pc' = [pc EXCEPT ![p] = point]
  /\ UNCHANGED network

\* A handler of the strand resumes the coroutine p at `point`.
Resume(p, point) ==
  /\ running = Nobody /\ running' = p
  /\ pc' = [pc EXCEPT ![p] = point]
  /\ UNCHANGED network

\* handle(channel, packet_in), called by the reader
Spawn(p) ==
  /\ pc[p] = "new" /\ channel = "open"
  /\ Resume(p, "flow_add")
  /\ UNCHANGED vars

\* async_send_request(channel, request, yield)
SendRequest(p, r, from, to) ==
  /\ pc[p] = from
  /\ \/ RegisterRequest(r) /\ Continue(p, from)
     \/ AsyncSend(r) /\ Suspend(p, to)

\* An error of a send is an exception in the coroutine.
RequestSent(p, r, from, to) ==
  /\ pc[p] = from
  /\ \/ SendHandler(r) /\ Resume(p, to)
     \/ SendHandlerError(r) /\ Resume(p, "leave")

\* async_receive_response(transaction, timeout, yield)
ReceiveResponse(p, r, from, to) ==
  /\ pc[p] = from
  /\ ReceiveInStrand(<<r, 1>>, TRUE) /\ Suspend(p, to)

\* The handler of a receive, called for the timer or with an answer.
Received(r) ==
  \/ WaitHandler(<<r, 1>>)
  \/ strand # <<>> /\ Head(strand).call = <<r, 1>> /\ RunHandler

GotAnswer(r) == call'[<<r, 1>>].result = "answer"

SendFlowAdd(p) == SendRequest(p, FlowAdd[p], "flow_add", "adding")

FlowAddSent(p) == RequestSent(p, FlowAdd[p], "adding", "barrier")

SendBarrier(p) == SendRequest(p, Barrier[p], "barrier", "asking")

BarrierSent(p) == RequestSent(p, Barrier[p], "asking", "wait")

WaitForBarrier(p) == ReceiveResponse(p, Barrier[p], "wait", "waiting")

\* Mutant: a barrier that is not answered in time will do.
BarrierReceived_Anyhow(p) ==
  /\ pc[p] = "waiting" /\ Received(Barrier[p])
  /\ Resume(p, "confirm")

\* Without a reply in time the packet is dropped.
BarrierReceived(p) ==
  /\ pc[p] = "waiting" /\ Received(Barrier[p])
  /\ Resume(p, IF GotAnswer(Barrier[p]) /\ msg[Barrier[p]].kind = "reply"
               THEN "confirm" ELSE "leave")

\* With a timeout of nought: is there an error for the flow by now?
ConfirmFlow(p) == ReceiveResponse(p, FlowAdd[p], "confirm", "confirming")

FlowConfirmed(p) ==
  /\ pc[p] = "confirming" /\ Received(FlowAdd[p])
  /\ Resume(p, IF GotAnswer(FlowAdd[p]) THEN "leave" ELSE "packet_out")

SendPacketOut(p) ==
  /\ pc[p] = "packet_out" /\ Suspend(p, "sending")
  /\ UNCHANGED vars

\* The write of the packet_out has completed, or failed.
PacketOutSent(p) ==
  /\ pc[p] \in {"sending", "sent"} /\ Resume(p, "leave")
  /\ UNCHANGED vars

\* Mutant: a coroutine that leaves keeps its pointers.
Leave_Holding(p) ==
  /\ pc[p] = "leave" /\ Suspend(p, "done") /\ UNCHANGED vars

\* The end of the coroutine, by a return or an exception: its transactions go
\* with its stack.
Leave(p) ==
  /\ pc[p] = "leave"
  /\ \/ \E r \in {FlowAdd[p], Barrier[p]} :
          (ReleaseTransaction(r) \/ DestroyTransaction(r))
          /\ Continue(p, "leave")
     \/ /\ \A r \in {FlowAdd[p], Barrier[p]} : phase[r] = "idle" \/ freed[r]
        /\ Suspend(p, "done") /\ UNCHANGED vars

Coroutine(p) ==
  \/ Spawn(p)
  \/ SendFlowAdd(p) \/ FlowAddSent(p)
  \/ SendBarrier(p) \/ BarrierSent(p)
  \/ WaitForBarrier(p) \/ BarrierReceived(p)
  \/ ConfirmFlow(p) \/ FlowConfirmed(p)
  \/ SendPacketOut(p) \/ PacketOutSent(p)
  \/ Leave(p)

-----------------------------------------------------------------------------
(* The network and the switch, which takes messages in order, and whose     *)
(* answers arrive in order.                                                 *)

Arrives(kind, p) == toSwitch' = Append(toSwitch, [kind |-> kind, packet |-> p])

\* The write queue writes in the order of the sends; those of one coroutine
\* follow one another, and those of two are not told apart here.
WriteArrives(p) ==
  /\ \/ WriteReaches(FlowAdd[p]) /\ Arrives("flow_add", p) /\ UNCHANGED pc
     \/ WriteReaches(Barrier[p]) /\ Arrives("barrier", p) /\ UNCHANGED pc
     \/ /\ pc[p] = "sending" /\ channel = "open"
        /\ Arrives("packet_out", p)
        /\ pc' = [pc EXCEPT ![p] = "sent"] /\ UNCHANGED vars
  /\ UNCHANGED <<running, answers, flows, out>>

\* An error for a flow_add or a barrier comes before the switch takes the
\* next message: a barrier is answered when all before it has been done.
Switch ==
  /\ toSwitch # <<>> /\ toSwitch' = Tail(toSwitch)
  /\ LET p    == Head(toSwitch).packet
         kind == Head(toSwitch).kind
     IN  \/ /\ kind = "flow_add"
            /\ \/ /\ flows' = [flows EXCEPT ![p] = "installed"]
                  /\ UNCHANGED answers
               \/ /\ flows' = [flows EXCEPT ![p] = "refused"]
                  /\ answers' = Append(answers, <<FlowAdd[p], "error">>)
            /\ UNCHANGED out
         \/ /\ kind = "barrier"
            /\ \E a \in {"reply", "error"} :
                 answers' = Append(answers, <<Barrier[p], a>>)
            /\ UNCHANGED <<flows, out>>
         \/ /\ kind = "packet_out"
            /\ out' = out \cup {p}
            /\ UNCHANGED <<answers, flows>>
  /\ UNCHANGED <<vars, pc, running>>

\* The reader hands an answer on; an error carries the header of its request.
AnswerArrives ==
  /\ running = Nobody /\ answers # <<>>
  /\ LET r == Head(answers)[1]
     IN  IF Head(answers)[2] = "reply" THEN HandleReply(r, TRUE)
                                       ELSE HandleError(r, "header", TRUE)
  /\ answers' = Tail(answers)
  /\ UNCHANGED <<pc, running, toSwitch, flows, out>>

TimerExpires(p) ==
  /\ \E r \in {FlowAdd[p], Barrier[p]} : Expire(<<r, 1>>)
  /\ UNCHANGED <<pc, running, network>>

ConnectionBreaks ==
  /\ running = Nobody /\ Goodbye
  /\ UNCHANGED <<pc, running, network>>

\* The coroutines hold the channel.
ChannelGoes ==
  /\ \A p \in Packets : pc[p] \in {"new", "done"}
  /\ DestroyChannel
  /\ UNCHANGED <<pc, running, network>>

PacketInNext ==
  \/ \E p \in Packets : Coroutine(p) \/ WriteArrives(p) \/ TimerExpires(p)
  \/ Switch \/ AnswerArrives
  \/ ConnectionBreaks \/ ChannelGoes

PacketInSpec == PacketInInit /\ [][PacketInNext]_packetInVars

(***************************************************************************)
(* The strand runs its handlers, writes end and timers expire.  The switch *)
(* may stop to take or to answer messages.                                 *)
(***************************************************************************)
PacketInFairSpec ==
  /\ PacketInSpec
  /\ \A p \in Packets :
       /\ WF_packetInVars(pc[p] # "new" /\ Coroutine(p))
       /\ WF_packetInVars(WriteArrives(p)) /\ WF_packetInVars(TimerExpires(p))

-----------------------------------------------------------------------------
(* Properties                                                              *)

\* No packet goes back to the table unless the switch has installed its flow:
\* the error for a refused flow_add, which nothing waits for, is in its
\* transaction by the time the barrier is answered, whatever timers do.
PacketsFollowFlows == \A p \in out : flows[p] = "installed"

\* However the switch behaves and the connection ends, a coroutine ends, and
\* leaves nothing in the table: not for a flow_add that is never answered, nor
\* for a barrier that is answered too late.
PacketInsEnd ==
  \A p \in Packets :
    pc[p] # "new" ~>
      /\ pc[p] = "done"
      /\ \A k \in Keys : map[k] \notin {FlowAdd[p], Barrier[p]}

=============================================================================
