--------------------- MODULE SecureChannelWriter_proofs ---------------------
(***************************************************************************)
(* Theorems about SecureChannelWriter, for every set of senders, whatever  *)
(* they send, and whichever of them keep their generators.                 *)
(***************************************************************************)
EXTENDS SecureChannelWriter, TLAPS

-----------------------------------------------------------------------------
(* What flows from the senders to the wire                                 *)

WriteItems == [op : {"write"}, m : Messages, b : Buffers]
HandlerItems ==
  [op : {"handler"}, m : Messages, b : Buffers, outcome : {"ok", "failed"}]
CloseItem == [op |-> "close"]
StrandItems == WriteItems \cup HandlerItems \cup {CloseItem}
QueueItems == [m : Messages, b : Buffers]
WireItems == [m : Messages, bytes : Messages \cup {NoBuffer}]

FlowTypes ==
  /\ left \in [Senders -> Seq(Messages)]
  /\ posting \in [Senders -> Seq(WriteItems)]
  /\ \A s \in Senders : Len(posting[s]) <= 1
  /\ strand \in Seq(StrandItems)
  /\ queue \in Seq(QueueItems)
  /\ wire \in Seq(WireItems)
  /\ bytes \in [Buffers -> Messages \cup {NoBuffer}]
  /\ generator \in [Senders -> Buffers \cup {NoBuffer}]
  /\ result \in [Messages -> {"none", "ok", "failed"}]
  /\ context \in [Messages -> {"none", "strand", "thread"}]
  /\ earlier \in [Messages -> SUBSET Messages]

\* What is still to be sent has not been sent, and will be sent once; what a
\* sender posts, and a functor in the strand, comes from another thread.
SentInv ==
  /\ \A s, t \in Senders : \A i \in 1..Len(left[s]), j \in 1..Len(left[t]) :
       left[s][i] = left[t][j] => s = t /\ i = j
  /\ \A s \in Senders : \A i \in 1..Len(left[s]) : context[left[s][i]] = "none"
  /\ \A s \in Senders : posting[s] # <<>> => context[posting[s][1].m] = "thread"
  /\ \A i \in 1..Len(strand) :
       /\ strand[i].op = "write" => context[strand[i].m] = "thread"
       /\ strand[i].op = "handler" => context[strand[i].m] # "none"
  /\ \A i \in 1..Len(queue) : context[queue[i].m] # "none"
  /\ \A i \in 1..Len(wire) : context[wire[i].m] # "none"
  /\ \A s \in Senders : generator[s] # NoBuffer => context[generator[s]] # "none"

EarlierInv == \A m \in Messages : earlier[m] \subseteq Returned

\* x is ahead of y on the way to the switch.
Ahead(x, y) ==
  y \in earlier[x] => context[x] = "strand" /\ context[y] = "thread"

OrderInv ==
  /\ \A i, j \in 1..Len(wire) : i < j => Ahead(wire[i].m, wire[j].m)
  /\ \A i \in 1..Len(wire), j \in 1..Len(queue) : Ahead(wire[i].m, queue[j].m)
  /\ \A i \in 1..Len(wire), j \in 1..Len(strand) :
       strand[j].op = "write" => Ahead(wire[i].m, strand[j].m)
  /\ \A i, j \in 1..Len(queue) : i < j => Ahead(queue[i].m, queue[j].m)
  /\ \A i \in 1..Len(queue), j \in 1..Len(strand) :
       strand[j].op = "write" => Ahead(queue[i].m, strand[j].m)
  /\ \A i, j \in 1..Len(strand) :
       i < j /\ strand[i].op = "write" /\ strand[j].op = "write" =>
         Ahead(strand[i].m, strand[j].m)

PostedBy(m) == {s \in Senders : posting[s] # <<>> /\ posting[s][1].m = m}
QueuedAt(m) == {i \in 1..Len(queue) : queue[i].m = m}
StrandAt(m) == {i \in 1..Len(strand) : strand[i].op # "close" /\ strand[i].m = m}

\* A message under way is in one place.
OnePlaceOf(m) ==
  /\ \A s, t \in PostedBy(m) : s = t
  /\ \A i, j \in QueuedAt(m) : i = j
  /\ \A i, j \in StrandAt(m) : i = j
  /\ PostedBy(m) = {} \/ QueuedAt(m) = {}
  /\ PostedBy(m) = {} \/ StrandAt(m) = {}
  /\ QueuedAt(m) = {} \/ StrandAt(m) = {}

OnePlace == \A m \in Messages : OnePlaceOf(m)

\* It is carried by its own buffer, which holds it for good.
BytesInv ==
  /\ \A s \in Senders : posting[s] # <<>> => posting[s][1].b = posting[s][1].m
  /\ \A i \in 1..Len(strand) :
       strand[i].op # "close" => strand[i].b = strand[i].m
  /\ \A i \in 1..Len(queue) : queue[i].b = queue[i].m
  /\ \A m \in Messages : context[m] # "none" => bytes[m] = m
  /\ \A i \in 1..Len(wire) : wire[i].bytes = wire[i].m

UnderWay(m) == PostedBy(m) # {} \/ QueuedAt(m) # {} \/ StrandAt(m) # {}

Kept(m) == \E s \in Senders : generator[s] = m

\* A buffer counts its references: the operation that writes it, and the
\* generator that keeps it.
RefsInv ==
  /\ refs \in [Messages -> Nat]
  /\ \A s \in Senders : generator[s] # NoBuffer => s \in Keepers
  /\ \A s, t \in Senders :
       generator[s] # NoBuffer /\ generator[s] = generator[t] => s = t
  /\ \A m \in Messages :
       refs[m] = (IF UnderWay(m) THEN 1 ELSE 0) + (IF Kept(m) THEN 1 ELSE 0)

-----------------------------------------------------------------------------
(* Sequences                                                               *)

LEMMA TailFacts ==
  ASSUME NEW S, NEW q \in Seq(S), q # <<>>
  PROVE  /\ Tail(q) \in Seq(S)
         /\ Len(q) \in Nat \ {0} /\ Len(Tail(q)) = Len(q) - 1
         /\ Head(q) = q[1] /\ q[1] \in S /\ 1 \in 1..Len(q)
         /\ \A i \in 1..Len(Tail(q)) :
              i + 1 \in 1..Len(q) /\ Tail(q)[i] = q[i + 1]
OBVIOUS

LEMMA AppendFacts ==
  ASSUME NEW S, NEW q \in Seq(S), NEW x \in S
  PROVE  /\ Append(q, x) \in Seq(S)
         /\ Len(q) \in Nat /\ Len(Append(q, x)) = Len(q) + 1
         /\ Append(q, x)[Len(q) + 1] = x
         /\ \A i \in 1..Len(q) : Append(q, x)[i] = q[i]
         /\ \A i \in 1..(Len(q) + 1) : i = Len(q) + 1 \/ i \in 1..Len(q)
OBVIOUS

LEMMA ItemParts ==
  /\ CloseItem \in StrandItems /\ CloseItem.op = "close"
  /\ \A x \in StrandItems : x.op \in {"write", "handler", "close"}
  /\ \A x \in StrandItems :
       x.op # "close" => x.m \in Messages /\ x.b \in Buffers
  /\ \A x \in StrandItems : x.op = "close" => x = CloseItem
BY DEF StrandItems, WriteItems, HandlerItems, CloseItem

-----------------------------------------------------------------------------
(* The steps, by what they do to what flows                                *)

\* Nothing flows.
Still == UNCHANGED <<left, posting, strand, queue, wire, history>>

\* The strand runs something that goes no further.
Leaves ==
  /\ strand # <<>> /\ strand[1].op # "write" /\ strand' = Tail(strand)
  /\ UNCHANGED <<left, posting, queue, wire, history>>

Closes ==
  /\ strand' = Append(strand, CloseItem)
  /\ UNCHANGED <<left, posting, queue, wire, history>>

\* A write is completed: its handler is queued to the strand.
Completes ==
  /\ queue # <<>> /\ queue' = Tail(queue)
  /\ \E x \in HandlerItems :
       /\ strand' = Append(strand, x) /\ x.m = queue[1].m /\ x.b = queue[1].b
  /\ \/ UNCHANGED wire
     \/ wire' = Append(wire, [m |-> queue[1].m, bytes |-> bytes[queue[1].b]])
  /\ UNCHANGED <<left, posting, history>>

\* The strand passes a write on to the queue.
PassesOn ==
  /\ strand # <<>> /\ strand[1].op = "write" /\ strand' = Tail(strand)
  /\ queue' = Append(queue, [m |-> strand[1].m, b |-> strand[1].b])
  /\ UNCHANGED <<left, posting, wire, history>>

Arrives(s) ==
  /\ posting[s] # <<>> /\ strand' = Append(strand, posting[s][1])
  /\ posting' = [posting EXCEPT ![s] = <<>>]
  /\ UNCHANGED <<left, queue, wire, history>>

Sends(s, m) ==
  /\ left[s] # <<>> /\ posting[s] = <<>> /\ m = left[s][1]
  /\ left' = [left EXCEPT ![s] = Tail(@)]
  /\ earlier' = [earlier EXCEPT ![m] = Returned]
  /\ \/ /\ context' = [context EXCEPT ![m] = "strand"]
        /\ queue' = Append(queue, [m |-> m, b |-> m])
        /\ UNCHANGED <<posting, strand>>
     \/ /\ context' = [context EXCEPT ![m] = "thread"]
        /\ posting' = [posting EXCEPT ![s] =
                         <<[op |-> "write", m |-> m, b |-> m]>>]
        /\ UNCHANGED <<strand, queue>>
  /\ UNCHANGED wire

LEMMA EncodedInMessage == \A s, m : EncodedIn(s, m) = m
BY DEF EncodedIn, Reserve, Resize

LEMMA FirstLeft ==
  ASSUME FlowTypes, NEW s \in Senders, left[s] # <<>>
  PROVE  /\ left[s] \in Seq(Messages) /\ Head(left[s]) = left[s][1]
         /\ left[s][1] \in Messages /\ 1 \in 1..Len(left[s])
BY TailFacts DEF FlowTypes

LEMMA SendSteps ==
  ASSUME FlowTypes, NEW s \in Senders, SendInStrand(s) \/ EncodeInThread(s)
  PROVE  Sends(s, left[s][1])
<1>1. /\ left[s] # <<>> /\ posting[s] = <<>>
  BY DEF SendInStrand, EncodeInThread
<1>2. Head(left[s]) = left[s][1]
  BY <1>1, FirstLeft
<1>3. CASE SendInStrand(s)
  BY <1>1, <1>2, <1>3, EncodedInMessage DEF SendInStrand, Called, Sends
<1>4. CASE EncodeInThread(s)
  BY <1>1, <1>2, <1>4, EncodedInMessage DEF EncodeInThread, Called, Sends
<1> QED BY <1>3, <1>4

LEMMA PostSteps ==
  ASSUME FlowTypes, NEW s \in Senders, Post(s)
  PROVE  /\ posting[s] \in Seq(WriteItems) /\ posting[s][1] \in WriteItems
         /\ Arrives(s)
<1>1. /\ posting[s] # <<>> /\ posting[s] \in Seq(WriteItems)
      /\ Len(posting[s]) <= 1 /\ strand \in Seq(StrandItems)
  BY DEF Post, FlowTypes
<1>2. Len(posting[s]) = 1 /\ posting[s][1] \in WriteItems
  <2>1. Len(posting[s]) \in Nat \ {0} /\ posting[s][1] \in WriteItems
    BY <1>1, TailFacts
  <2>2. \A n \in Nat \ {0} : n <= 1 => n = 1
    OBVIOUS
  <2>3. Len(posting[s]) = 1
    BY <1>1, <2>1, <2>2
  <2> QED BY <2>1, <2>3
<1>3. strand \o posting[s] = Append(strand, posting[s][1])
  <2> DEFINE p == posting[s]
  <2>1. WriteItems \subseteq StrandItems
    BY DEF StrandItems
  <2>2. p \in Seq(StrandItems) /\ Len(p) = 1 /\ p[1] \in StrandItems
    BY <1>1, <1>2, <2>1
  <2> HIDE DEF p
  <2>3. strand \o p = Append(strand, p[1])
    BY <1>1, <2>2
  <2> QED BY <2>3 DEF p
<1> QED BY <1>1, <1>2, <1>3 DEF Post, Arrives, history

LEMMA CompleteSteps ==
  ASSUME FlowTypes, Write \/ WriteFails
  PROVE  Completes
<1>1. /\ queue # <<>> /\ Head(queue) = queue[1] /\ queue[1] \in QueueItems
  BY TailFacts DEF Write, WriteFails, FlowTypes
<1>2. ASSUME NEW outcome \in {"ok", "failed"}, Complete(outcome),
             \/ UNCHANGED wire
             \/ wire' = Append(wire, [m |-> queue[1].m,
                                      bytes |-> bytes[queue[1].b]])
      PROVE  Completes
  <2> DEFINE x == [op |-> "handler", m |-> queue[1].m, b |-> queue[1].b,
                   outcome |-> outcome]
  <2>1. x \in HandlerItems /\ x.m = queue[1].m /\ x.b = queue[1].b
    BY <1>1 DEF HandlerItems, QueueItems
  <2>2. /\ strand' = Append(strand, x) /\ queue' = Tail(queue)
        /\ UNCHANGED <<left, posting, history>>
    BY <1>1, <1>2 DEF Complete
  <2> HIDE DEF x
  <2> QED BY <1>1, <1>2, <2>1, <2>2 DEF Completes
<1> QED BY <1>1, <1>2 DEF Write, WriteFails

LEMMA Steps ==
  ASSUME FlowTypes, [Next]_vars
  PROVE  \/ Still \/ Leaves \/ Closes
         \/ Completes \/ PassesOn
         \/ \E s \in Senders : Arrives(s)
         \/ \E s \in Senders : Sends(s, left[s][1])
<1>1. strand # <<>> => Head(strand) = strand[1]
  BY TailFacts DEF FlowTypes
<1>2. CASE RunFunctor
  BY <1>1, <1>2 DEF RunFunctor, PassesOn
<1>3. CASE RunClose \/ RunHandler
  BY <1>1, <1>3 DEF RunClose, RunHandler, Leaves
<1>4. CASE CloseElsewhere
  BY <1>4 DEF CloseElsewhere, CloseItem, Closes
<1>5. CASE CloseInStrand
  BY <1>5 DEF CloseInStrand, Still
<1>6. ASSUME NEW s \in Senders, DropGenerator(s) PROVE Still
  BY <1>6 DEF DropGenerator, Still
<1>7. CASE UNCHANGED vars
  BY <1>7 DEF vars, Still
<1> QED BY <1>2, <1>3, <1>4, <1>5, <1>6, <1>7, SendSteps, PostSteps,
        CompleteSteps DEF Next, RunStrand

-----------------------------------------------------------------------------
(* Types                                                                   *)

LEMMA EncodeTypes ==
  ASSUME FlowTypes, NEW s \in Senders, NEW m \in Messages, Encode(s, m)
  PROVE  /\ bytes' = [bytes EXCEPT ![m] = m]
         /\ \/ generator' = [generator EXCEPT ![s] = m]
            \/ UNCHANGED generator
BY DEF Encode, Reserve, Resize

LEMMA NextFlowTypes == FlowTypes /\ [Next]_vars => FlowTypes'
<1> SUFFICES ASSUME FlowTypes, [Next]_vars PROVE FlowTypes'
  OBVIOUS
<1> USE DEF Buffers
<1>1. /\ left \in [Senders -> Seq(Messages)]
      /\ posting \in [Senders -> Seq(WriteItems)]
      /\ \A s \in Senders : Len(posting[s]) <= 1
      /\ strand \in Seq(StrandItems) /\ queue \in Seq(QueueItems)
      /\ wire \in Seq(WireItems)
      /\ context \in [Messages -> {"none", "strand", "thread"}]
      /\ earlier \in [Messages -> SUBSET Messages]
  BY DEF FlowTypes
<1>2. /\ left' \in [Senders -> Seq(Messages)]
      /\ context' \in [Messages -> {"none", "strand", "thread"}]
      /\ earlier' \in [Messages -> SUBSET Messages]
      /\ queue' \in Seq(QueueItems) /\ strand' \in Seq(StrandItems)
      /\ posting' \in [Senders -> Seq(WriteItems)]
      /\ \A s \in Senders : Len(posting'[s]) <= 1
      /\ wire' \in Seq(WireItems)
  <2>1. CASE Still
    BY <1>1, <2>1 DEF Still, history
  <2>2. CASE Leaves
    BY <1>1, <2>2, TailFacts DEF Leaves, history
  <2>3. CASE Closes
    BY <1>1, <2>3, ItemParts DEF Closes, history
  <2>4. CASE Completes
    <3>1. queue' \in Seq(QueueItems) /\ queue[1] \in QueueItems
      BY <1>1, <2>4, TailFacts DEF Completes
    <3>2. PICK x \in HandlerItems : strand' = Append(strand, x)
      BY <2>4 DEF Completes
    <3>3. strand' \in Seq(StrandItems)
      BY <1>1, <3>2 DEF StrandItems
    <3> DEFINE y == [m |-> queue[1].m, bytes |-> bytes[queue[1].b]]
    <3>4. y \in WireItems
      BY <3>1 DEF QueueItems, WireItems, FlowTypes
    <3>5. wire' = wire \/ wire' = Append(wire, y)
      BY <2>4 DEF Completes
    <3> HIDE DEF y
    <3>6. wire' \in Seq(WireItems)
      <4>1. CASE wire' = Append(wire, y)
        BY <1>1, <3>4, <4>1, AppendFacts
      <4> QED BY <1>1, <3>5, <4>1
    <3> QED BY <1>1, <2>4, <3>1, <3>3, <3>6 DEF Completes, history
  <2>5. CASE PassesOn
    <3>1. strand' \in Seq(StrandItems) /\ strand[1] \in StrandItems
      BY <1>1, <2>5, TailFacts DEF PassesOn
    <3>2. [m |-> strand[1].m, b |-> strand[1].b] \in QueueItems
      BY <2>5, <3>1, ItemParts DEF PassesOn, QueueItems
    <3> QED BY <1>1, <2>5, <3>1, <3>2 DEF PassesOn, history
  <2>6. ASSUME NEW s \in Senders, Arrives(s),
               posting[s][1] \in WriteItems
        PROVE  /\ strand' \in Seq(StrandItems)
               /\ posting' \in [Senders -> Seq(WriteItems)]
               /\ \A t \in Senders : Len(posting'[t]) <= 1
    BY <1>1, <2>6 DEF Arrives, StrandItems
  <2>7. ASSUME NEW s \in Senders, Sends(s, left[s][1])
        PROVE  /\ left' \in [Senders -> Seq(Messages)]
               /\ context' \in [Messages -> {"none", "strand", "thread"}]
               /\ earlier' \in [Messages -> SUBSET Messages]
               /\ queue' \in Seq(QueueItems)
               /\ posting' \in [Senders -> Seq(WriteItems)]
               /\ \A t \in Senders : Len(posting'[t]) <= 1
    <3> DEFINE m == left[s][1]
    <3>1. m \in Messages /\ Tail(left[s]) \in Seq(Messages)
      BY <1>1, <2>7, FirstLeft, TailFacts DEF Sends
    <3>2. Returned \subseteq Messages
      BY DEF Returned
    <3> DEFINE w == [op |-> "write", m |-> m, b |-> m]
               q == [m |-> m, b |-> m]
    <3>3. w \in WriteItems /\ q \in QueueItems
      BY <3>1 DEF WriteItems, QueueItems
    <3>4. Sends(s, m)
      BY <2>7
    <3>5. /\ left' \in [Senders -> Seq(Messages)]
          /\ context' \in [Messages -> {"none", "strand", "thread"}]
          /\ earlier' \in [Messages -> SUBSET Messages]
      BY <1>1, <3>1, <3>2, <3>4 DEF Sends
    <3>6. \/ queue' = Append(queue, q) /\ UNCHANGED posting
          \/ posting' = [posting EXCEPT ![s] = <<w>>] /\ UNCHANGED queue
      BY <3>4 DEF Sends
    <3> HIDE DEF w, q
    <3>7. <<w>> \in Seq(WriteItems) /\ Len(<<w>>) = 1
      BY <3>3
    <3>8. CASE queue' = Append(queue, q) /\ UNCHANGED posting
      BY <1>1, <3>3, <3>5, <3>8
    <3>9. CASE posting' = [posting EXCEPT ![s] = <<w>>] /\ UNCHANGED queue
      BY <1>1, <3>5, <3>7, <3>9
    <3> QED BY <3>6, <3>8, <3>9
  <2>8. ASSUME NEW s \in Senders, Arrives(s) PROVE posting[s][1] \in WriteItems
    BY <1>1, <2>8, TailFacts DEF Arrives
  <2>9. ASSUME NEW s \in Senders, Sends(s, left[s][1])
        PROVE  strand' \in Seq(StrandItems) /\ UNCHANGED wire
    BY <1>1, <2>9 DEF Sends
  <2> QED BY <1>1, <2>1, <2>2, <2>3, <2>4, <2>5, <2>6, <2>7, <2>8, <2>9, Steps
          DEF Arrives, history
<1>3. /\ bytes' \in [Buffers -> Messages \cup {NoBuffer}]
      /\ generator' \in [Senders -> Buffers \cup {NoBuffer}]
  <2>1. ASSUME NEW s \in Senders, SendInStrand(s) \/ EncodeInThread(s)
        PROVE  /\ bytes' \in [Buffers -> Messages \cup {NoBuffer}]
               /\ generator' \in [Senders -> Buffers \cup {NoBuffer}]
    <3>1. /\ left[s] # <<>> /\ Encode(s, Head(left[s]))
      BY <2>1 DEF SendInStrand, EncodeInThread
    <3>2. PICK m \in Messages : Encode(s, m)
      BY <3>1, FirstLeft
    <3>3. /\ bytes' = [bytes EXCEPT ![m] = m]
          /\ \/ generator' = [generator EXCEPT ![s] = m]
             \/ UNCHANGED generator
      BY <3>2, EncodeTypes
    <3> QED BY <3>3 DEF FlowTypes
  <2>2. ASSUME NEW s \in Senders, DropGenerator(s)
        PROVE  /\ UNCHANGED bytes
               /\ generator' \in [Senders -> Buffers \cup {NoBuffer}]
    BY <2>2 DEF DropGenerator, FlowTypes
  <2>3. CASE UNCHANGED <<bytes, generator>>
    BY <2>3 DEF FlowTypes
  <2> QED BY <2>1, <2>2, <2>3 DEF Next, RunStrand, vars, buffers, FlowTypes,
          Post, CloseInStrand, CloseElsewhere, RunFunctor, RunClose,
          RunHandler, Write, WriteFails, Complete
<1>4. result' \in [Messages -> {"none", "ok", "failed"}]
  <2>1. CASE RunHandler
    <3>1. strand[1] \in HandlerItems /\ Head(strand) = strand[1]
      <4>1. /\ Head(strand) = strand[1] /\ strand[1] \in StrandItems
            /\ strand[1].op = "handler"
        BY <1>1, <2>1, TailFacts DEF RunHandler
      <4> QED BY <4>1 DEF StrandItems, WriteItems, CloseItem
    <3>2. strand[1].m \in Messages /\ strand[1].outcome \in {"ok", "failed"}
      BY <3>1 DEF HandlerItems
    <3> QED BY <2>1, <3>1, <3>2 DEF RunHandler, FlowTypes
  <2>2. CASE UNCHANGED result
    BY <2>2 DEF FlowTypes
  <2> QED BY <2>1, <2>2 DEF Next, RunStrand, vars, SendInStrand,
          EncodeInThread, DropGenerator, Post, CloseInStrand, CloseElsewhere,
          RunFunctor, RunClose, Write, WriteFails, Complete
<1> QED BY <1>2, <1>3, <1>4 DEF FlowTypes

LEMMA InitFlowTypes == Init => FlowTypes
<1> SUFFICES ASSUME Init PROVE FlowTypes
  OBVIOUS
<1>1. <<>> \in Seq(WriteItems) /\ Len(<<>>) = 0
  OBVIOUS
<1>2. /\ posting \in [Senders -> Seq(WriteItems)]
      /\ \A s \in Senders : Len(posting[s]) <= 1
  BY <1>1 DEF Init
<1>3. /\ strand \in Seq(StrandItems) /\ queue \in Seq(QueueItems)
      /\ wire \in Seq(WireItems)
  BY DEF Init
<1>4. left \in [Senders -> Seq(Messages)]
  BY ProgramAssumption DEF Init
<1> QED BY <1>2, <1>3, <1>4 DEF Init, FlowTypes, Buffers

LEMMA FlowTypesInvariance == Spec => []FlowTypes
BY InitFlowTypes, NextFlowTypes, PTL DEF Spec

-----------------------------------------------------------------------------
(* The same steps, position by position                                    *)

\* A sequence lost its head.
Shifted(q, r) ==
  /\ Len(q) \in Nat \ {0} /\ Len(r) = Len(q) - 1
  /\ 1 \in 1..Len(q)
  /\ \A i \in 1..Len(r) : i + 1 \in 1..Len(q) /\ r[i] = q[i + 1]

\* A sequence got a new last element.
Extended(q, r) ==
  /\ Len(q) \in Nat /\ Len(r) = Len(q) + 1
  /\ \A i \in 1..Len(q) : i \in 1..Len(r) /\ r[i] = q[i]
  /\ \A i \in 1..Len(r) : i = Len(r) \/ i \in 1..Len(q)

LEMMA TailShifts ==
  ASSUME NEW S, NEW q \in Seq(S), q # <<>> PROVE Shifted(q, Tail(q))
BY TailFacts DEF Shifted

LEMMA AppendExtends ==
  ASSUME NEW S, NEW q \in Seq(S), NEW x \in S
  PROVE  /\ Extended(q, Append(q, x))
         /\ Append(q, x)[Len(Append(q, x))] = x
<1> DEFINE r == Append(q, x)
<1>1. /\ Len(q) \in Nat /\ Len(r) = Len(q) + 1 /\ r[Len(q) + 1] = x
      /\ \A i \in 1..Len(q) : r[i] = q[i]
      /\ \A i \in 1..(Len(q) + 1) : i = Len(q) + 1 \/ i \in 1..Len(q)
  BY AppendFacts
<1> HIDE DEF r
<1>2. Extended(q, r) /\ r[Len(r)] = x
  BY <1>1 DEF Extended
<1> QED BY <1>2 DEF r

LEMMA LeavesAt ==
  ASSUME FlowTypes, Leaves
  PROVE  /\ Shifted(strand, strand') /\ strand[1].op # "write"
         /\ UNCHANGED <<left, posting, queue, wire, context, earlier>>
BY TailShifts DEF FlowTypes, Leaves, history

LEMMA ClosesAt ==
  ASSUME FlowTypes, Closes
  PROVE  /\ Extended(strand, strand') /\ strand'[Len(strand')].op = "close"
         /\ UNCHANGED <<left, posting, queue, wire, context, earlier>>
<1>1. strand' = Append(strand, CloseItem) /\ strand \in Seq(StrandItems)
  BY DEF Closes, FlowTypes
<1>2. Extended(strand, strand') /\ strand'[Len(strand')] = CloseItem
  BY <1>1, ItemParts, AppendExtends
<1> QED BY <1>2, ItemParts DEF Closes, history

LEMMA CompletesAt ==
  ASSUME FlowTypes, Completes
  PROVE  /\ Shifted(queue, queue') /\ Extended(strand, strand')
         /\ LET x == strand'[Len(strand')]
            IN  x.op = "handler" /\ x.m = queue[1].m /\ x.b = queue[1].b
         /\ \/ UNCHANGED wire
            \/ /\ Extended(wire, wire')
               /\ wire'[Len(wire')].m = queue[1].m
               /\ wire'[Len(wire')].bytes = bytes[queue[1].b]
         /\ UNCHANGED <<left, posting, context, earlier>>
<1>1. /\ strand \in Seq(StrandItems) /\ queue \in Seq(QueueItems)
      /\ wire \in Seq(WireItems) /\ queue # <<>> /\ queue' = Tail(queue)
  BY DEF FlowTypes, Completes
<1>2. queue[1] \in QueueItems /\ Shifted(queue, queue')
  BY <1>1, TailFacts, TailShifts
<1>3. PICK x \in HandlerItems :
        strand' = Append(strand, x) /\ x.m = queue[1].m /\ x.b = queue[1].b
  BY DEF Completes
<1>4. x \in StrandItems /\ x.op = "handler"
  BY DEF StrandItems, HandlerItems
<1>5. Extended(strand, strand') /\ strand'[Len(strand')] = x
  BY <1>1, <1>3, <1>4, AppendExtends
<1> DEFINE y == [m |-> queue[1].m, bytes |-> bytes[queue[1].b]]
<1>6. y \in WireItems /\ y.m = queue[1].m /\ y.bytes = bytes[queue[1].b]
  BY <1>2 DEF QueueItems, WireItems, FlowTypes
<1>7. wire' = wire \/ wire' = Append(wire, y)
  BY DEF Completes
<1> HIDE DEF y
<1>8. \/ UNCHANGED wire
      \/ Extended(wire, wire') /\ wire'[Len(wire')] = y
  <2>1. CASE wire' = Append(wire, y)
    <3>1. Extended(wire, wire') /\ wire'[Len(wire')] = y
      BY <1>1, <1>6, <2>1, AppendExtends
    <3> QED BY <3>1
  <2> QED BY <1>7, <2>1
<1> QED BY <1>2, <1>3, <1>4, <1>5, <1>6, <1>8 DEF Completes, history

LEMMA PassesOnAt ==
  ASSUME FlowTypes, PassesOn
  PROVE  /\ Shifted(strand, strand') /\ Extended(queue, queue')
         /\ strand[1].op = "write" /\ strand[1] \in StrandItems
         /\ LET x == queue'[Len(queue')]
            IN  x.m = strand[1].m /\ x.b = strand[1].b
         /\ UNCHANGED <<left, posting, wire, context, earlier>>
<1>1. /\ strand \in Seq(StrandItems) /\ queue \in Seq(QueueItems)
      /\ strand # <<>> /\ strand[1].op = "write" /\ strand' = Tail(strand)
  BY DEF FlowTypes, PassesOn
<1>2. strand[1] \in StrandItems /\ Shifted(strand, strand')
  BY <1>1, TailFacts, TailShifts
<1> DEFINE x == [m |-> strand[1].m, b |-> strand[1].b]
<1>3. x \in QueueItems /\ x.m = strand[1].m /\ x.b = strand[1].b
  BY <1>1, <1>2, ItemParts DEF QueueItems
<1>4. queue' = Append(queue, x)
  BY DEF PassesOn
<1> HIDE DEF x
<1>5. Extended(queue, queue') /\ queue'[Len(queue')] = x
  BY <1>1, <1>3, <1>4, AppendExtends
<1> QED BY <1>1, <1>2, <1>3, <1>5 DEF PassesOn, history

LEMMA ArrivesAt ==
  ASSUME FlowTypes, NEW s \in Senders, Arrives(s)
  PROVE  /\ posting[s] # <<>> /\ posting[s][1] \in WriteItems
         /\ Extended(strand, strand') /\ strand'[Len(strand')] = posting[s][1]
         /\ posting'[s] = <<>>
         /\ \A t \in Senders : t # s => posting'[t] = posting[t]
         /\ UNCHANGED <<left, queue, wire, context, earlier>>
<1>1. posting[s] # <<>> /\ posting[s][1] \in WriteItems
  BY TailFacts DEF Arrives, FlowTypes
<1>2. posting[s][1] \in StrandItems /\ strand \in Seq(StrandItems)
  BY <1>1 DEF StrandItems, FlowTypes
<1>3. Extended(strand, strand') /\ strand'[Len(strand')] = posting[s][1]
  BY <1>2, AppendExtends DEF Arrives
<1> QED BY <1>1, <1>3 DEF Arrives, FlowTypes, history

\* A message is sent: it goes to the queue, or is to be posted.
LEMMA SendsAt ==
  ASSUME FlowTypes, NEW s \in Senders, NEW m, Sends(s, m)
  PROVE  /\ m = left[s][1] /\ m \in Messages /\ posting[s] = <<>>
         /\ Shifted(left[s], left'[s])
         /\ \A t \in Senders : t # s => left'[t] = left[t]
         /\ \A x \in Messages :
              x # m => context'[x] = context[x] /\ earlier'[x] = earlier[x]
         /\ earlier'[m] = Returned
         /\ \/ /\ context'[m] = "strand" /\ Extended(queue, queue')
               /\ queue'[Len(queue')].m = m /\ queue'[Len(queue')].b = m
               /\ UNCHANGED posting
            \/ /\ context'[m] = "thread" /\ posting'[s] # <<>>
               /\ posting'[s][1] \in WriteItems
               /\ posting'[s][1].m = m /\ posting'[s][1].b = m
               /\ \A t \in Senders : t # s => posting'[t] = posting[t]
               /\ UNCHANGED queue
         /\ UNCHANGED <<strand, wire>>
<1>1. /\ left[s] \in Seq(Messages) /\ left[s] # <<>> /\ m = left[s][1]
      /\ left[s][1] \in Messages
  BY FirstLeft DEF Sends, FlowTypes
<1>2. Shifted(left[s], left'[s])
  BY <1>1, TailShifts DEF Sends, FlowTypes
<1> DEFINE w == [op |-> "write", m |-> m, b |-> m]
           q == [m |-> m, b |-> m]
<1>3. /\ q \in QueueItems /\ q.m = m /\ q.b = m
      /\ w \in WriteItems /\ w.m = m /\ w.b = m
  BY <1>1 DEF QueueItems, WriteItems, Buffers
<1>4. \/ /\ context' = [context EXCEPT ![m] = "strand"]
         /\ queue' = Append(queue, q) /\ UNCHANGED <<posting, strand>>
      \/ /\ context' = [context EXCEPT ![m] = "thread"]
         /\ posting' = [posting EXCEPT ![s] = <<w>>]
         /\ UNCHANGED <<strand, queue>>
  BY DEF Sends
<1> HIDE DEF w, q
<1>5. <<w>> # <<>> /\ <<w>>[1] = w
  BY <1>3
<1>6. queue' = Append(queue, q) =>
        Extended(queue, queue') /\ queue'[Len(queue')] = q
  <2>1. queue \in Seq(QueueItems)
    BY DEF FlowTypes
  <2> QED BY <1>3, <2>1, AppendExtends
<1>7. /\ \A t \in Senders : t # s => left'[t] = left[t]
      /\ \A x \in Messages : x # m => earlier'[x] = earlier[x]
      /\ earlier'[m] = Returned /\ posting[s] = <<>> /\ UNCHANGED wire
  <2>1. left' = [left EXCEPT ![s] = Tail(@)]
    BY DEF Sends
  <2>2. earlier' = [earlier EXCEPT ![m] = Returned]
    BY DEF Sends
  <2>3. posting[s] = <<>> /\ UNCHANGED wire
    BY DEF Sends
  <2> QED BY <1>1, <2>1, <2>2, <2>3 DEF FlowTypes
<1>8. CASE /\ context' = [context EXCEPT ![m] = "strand"]
           /\ queue' = Append(queue, q) /\ UNCHANGED <<posting, strand>>
  <2>1. /\ context'[m] = "strand"
        /\ \A x \in Messages : x # m => context'[x] = context[x]
    BY <1>1, <1>8 DEF FlowTypes
  <2> QED BY <1>1, <1>2, <1>3, <1>6, <1>7, <1>8, <2>1
<1>9. CASE /\ context' = [context EXCEPT ![m] = "thread"]
           /\ posting' = [posting EXCEPT ![s] = <<w>>]
           /\ UNCHANGED <<strand, queue>>
  <2>1. /\ context'[m] = "thread"
        /\ \A x \in Messages : x # m => context'[x] = context[x]
    BY <1>1, <1>9 DEF FlowTypes
  <2>2. /\ posting'[s] = <<w>>
        /\ \A t \in Senders : t # s => posting'[t] = posting[t]
    BY <1>9 DEF FlowTypes
  <2> QED BY <1>1, <1>2, <1>3, <1>5, <1>7, <1>9, <2>1, <2>2
<1> QED BY <1>4, <1>8, <1>9

-----------------------------------------------------------------------------
(* What is sent is sent once                                               *)

LEMMA InitSentInv == Init => SentInv
<1> SUFFICES ASSUME Init PROVE SentInv
  OBVIOUS
<1>1. /\ left = Program /\ Program \in [Senders -> Seq(Messages)]
      /\ \A s \in Senders : posting[s] = <<>> /\ generator[s] = NoBuffer
      /\ Len(strand) = 0 /\ Len(queue) = 0 /\ Len(wire) = 0
      /\ \A m \in Messages : context[m] = "none"
  BY ProgramAssumption DEF Init
<1>2. \A s \in Senders : \A i \in 1..Len(left[s]) :
        left[s][i] \in Messages /\ i \in DOMAIN Program[s]
  BY <1>1
<1>3. \A s, t \in Senders : \A i \in 1..Len(left[s]), j \in 1..Len(left[t]) :
        left[s][i] = left[t][j] => s = t /\ i = j
  BY <1>1, <1>2, CallsAssumption
<1> QED BY <1>1, <1>2, <1>3 DEF SentInv

\* The message sent is one that had not been sent, so it is none of those on
\* their way.
LEMMA SentIsNew ==
  ASSUME FlowTypes, SentInv, NEW s \in Senders, Sends(s, left[s][1])
  PROVE  LET m == left[s][1]
         IN  /\ m \in Messages /\ context[m] = "none"
             /\ context'[m] # "none"
             /\ \A x \in Messages : x # m => context'[x] = context[x]
             /\ \A x \in Messages : context[x] # "none" =>
                  context'[x] = context[x] /\ x # m
<1>1. /\ left[s][1] \in Messages /\ 1 \in 1..Len(left[s])
  BY FirstLeft DEF Sends
<1>2. context[left[s][1]] = "none"
  BY <1>1 DEF SentInv
<1> QED BY <1>1, <1>2 DEF Sends, FlowTypes

LEMMA OnTheirWay ==
  ASSUME FlowTypes, SentInv
  PROVE  /\ \A s \in Senders : posting[s] # <<>> =>
              /\ posting[s][1] \in WriteItems /\ posting[s][1].m \in Messages
              /\ context[posting[s][1].m] # "none"
         /\ \A i \in 1..Len(strand) : strand[i] \in StrandItems
         /\ \A i \in 1..Len(strand) : strand[i].op # "close" =>
              strand[i].m \in Messages /\ context[strand[i].m] # "none"
         /\ \A i \in 1..Len(queue) :
              queue[i].m \in Messages /\ context[queue[i].m] # "none"
         /\ \A i \in 1..Len(wire) :
              wire[i].m \in Messages /\ context[wire[i].m] # "none"
<1>1. /\ \A s \in Senders : posting[s] # <<>> => posting[s][1] \in WriteItems
      /\ \A i \in 1..Len(strand) : strand[i] \in StrandItems
      /\ \A i \in 1..Len(queue) : queue[i] \in QueueItems
      /\ \A i \in 1..Len(wire) : wire[i] \in WireItems
  BY TailFacts DEF FlowTypes
<1>2. /\ \A x \in WriteItems : x.m \in Messages
      /\ \A x \in QueueItems : x.m \in Messages
      /\ \A x \in WireItems : x.m \in Messages
  BY DEF WriteItems, QueueItems, WireItems
<1> QED BY <1>1, <1>2, ItemParts DEF SentInv

LEMMA NextSentInv == FlowTypes /\ SentInv /\ [Next]_vars => SentInv'
<1> SUFFICES ASSUME FlowTypes, SentInv, [Next]_vars PROVE SentInv'
  OBVIOUS
<1>1. /\ left \in [Senders -> Seq(Messages)]
      /\ posting \in [Senders -> Seq(WriteItems)]
      /\ strand \in Seq(StrandItems) /\ queue \in Seq(QueueItems)
      /\ wire \in Seq(WireItems)
  BY DEF FlowTypes
<1>2. \A s \in Senders :
        generator'[s] # NoBuffer => context'[generator'[s]] # "none"
  <2>1. ASSUME NEW s \in Senders, SendInStrand(s) \/ EncodeInThread(s),
               NEW t \in Senders, generator'[t] # NoBuffer
        PROVE  context'[generator'[t]] # "none"
    <3>1. Sends(s, left[s][1]) /\ Encode(s, Head(left[s])) /\ left[s] # <<>>
      BY <2>1, SendSteps DEF SendInStrand, EncodeInThread
    <3>2. Head(left[s]) = left[s][1] /\ left[s][1] \in Messages
      BY <3>1, FirstLeft
    <3>3. \/ generator' = [generator EXCEPT ![s] = left[s][1]]
          \/ UNCHANGED generator
      BY <3>1, <3>2, EncodeTypes
    <3>4. generator'[t] = left[s][1] \/ generator'[t] = generator[t]
      BY <3>3 DEF FlowTypes
    <3>5. generator[t] \in Messages \cup {NoBuffer}
      BY DEF FlowTypes, Buffers
    <3> QED BY <2>1, <3>1, <3>4, <3>5, SentIsNew DEF SentInv
  <2>2. ASSUME NEW s \in Senders, DropGenerator(s), NEW t \in Senders,
               generator'[t] # NoBuffer
        PROVE  context'[generator'[t]] # "none"
    BY <2>2 DEF DropGenerator, FlowTypes, SentInv, history
  <2>3. CASE UNCHANGED <<generator, context>>
    BY <2>3 DEF SentInv
  <2> QED BY <2>1, <2>2, <2>3 DEF Next, RunStrand, vars, buffers, history,
          Post, CloseInStrand, CloseElsewhere, RunFunctor, RunClose,
          RunHandler, Write, WriteFails, Complete
<1>3. CASE Still
  BY <1>2, <1>3 DEF SentInv, Still, history
<1>4. CASE Leaves
  BY <1>2, <1>4, LeavesAt DEF SentInv, Shifted
<1>5. CASE Closes
  <2>1. \A i \in 1..Len(strand') :
          \/ strand'[i].op = "close"
          \/ i \in 1..Len(strand) /\ strand'[i] = strand[i]
    BY <1>5, ClosesAt DEF Extended
  <2> QED BY <1>2, <1>5, <2>1, ClosesAt DEF SentInv
<1>6. CASE Completes
  <2>1. context[queue[1].m] # "none" /\ context' = context
    BY <1>6, CompletesAt DEF SentInv, Shifted
  <2>2. \A i \in 1..Len(strand') :
          /\ strand'[i].op = "write" => context'[strand'[i].m] = "thread"
          /\ strand'[i].op = "handler" => context'[strand'[i].m] # "none"
    <3>1. \A i \in 1..Len(strand') :
            \/ strand'[i].op = "handler" /\ strand'[i].m = queue[1].m
            \/ i \in 1..Len(strand) /\ strand'[i] = strand[i]
      BY <1>6, CompletesAt DEF Extended
    <3> QED BY <2>1, <3>1 DEF SentInv
  <2>3. \A i \in 1..Len(wire') : context'[wire'[i].m] # "none"
    <3>1. \A i \in 1..Len(wire') :
            \/ wire'[i].m = queue[1].m
            \/ i \in 1..Len(wire) /\ wire'[i] = wire[i]
      BY <1>6, CompletesAt DEF Extended
    <3> QED BY <2>1, <3>1 DEF SentInv
  <2>4. \A i \in 1..Len(queue') : context'[queue'[i].m] # "none"
    BY <1>6, <2>1, CompletesAt DEF SentInv, Shifted
  <2> QED BY <1>2, <1>6, <2>1, <2>2, <2>3, <2>4, CompletesAt DEF SentInv
<1>7. CASE PassesOn
  <2>1. context[strand[1].m] # "none" /\ context' = context
    BY <1>7, PassesOnAt DEF SentInv, Shifted
  <2>2. \A i \in 1..Len(queue') : context'[queue'[i].m] # "none"
    BY <1>7, <2>1, PassesOnAt DEF SentInv, Extended
  <2>3. \A i \in 1..Len(strand') :
          /\ strand'[i].op = "write" => context'[strand'[i].m] = "thread"
          /\ strand'[i].op = "handler" => context'[strand'[i].m] # "none"
    BY <1>7, <2>1, PassesOnAt DEF SentInv, Shifted
  <2> QED BY <1>2, <1>7, <2>1, <2>2, <2>3, PassesOnAt DEF SentInv
<1>8. ASSUME NEW s \in Senders, Arrives(s) PROVE SentInv'
  <2>1. context[posting[s][1].m] = "thread" /\ context' = context
    BY <1>8, ArrivesAt DEF SentInv
  <2>2. \A i \in 1..Len(strand') :
          /\ strand'[i].op = "write" => context'[strand'[i].m] = "thread"
          /\ strand'[i].op = "handler" => context'[strand'[i].m] # "none"
    BY <1>8, <2>1, ArrivesAt DEF SentInv, Extended
  <2>3. \A t \in Senders : posting'[t] # <<>> => posting'[t] = posting[t]
    BY <1>8, ArrivesAt
  <2> QED BY <1>2, <1>8, <2>1, <2>2, <2>3, ArrivesAt DEF SentInv
<1>9. ASSUME NEW s \in Senders, Sends(s, left[s][1]) PROVE SentInv'
  <2> DEFINE m == left[s][1]
  <2>1. /\ m \in Messages /\ context[m] = "none" /\ context'[m] # "none"
        /\ \A x \in Messages : x # m => context'[x] = context[x]
        /\ \A x \in Messages : context[x] # "none" => context'[x] = context[x]
    BY <1>9, SentIsNew
  <2>2. \A t \in Senders : \A i \in 1..Len(left'[t]) :
          \E j \in 1..Len(left[t]) :
            /\ left'[t][i] = left[t][j] /\ left[t][j] \in Messages
            /\ j = (IF t = s THEN i + 1 ELSE i)
    <3>1. \A t \in Senders : \A j \in 1..Len(left[t]) : left[t][j] \in Messages
      BY <1>1
    <3>2. /\ \A i \in 1..Len(left'[s]) :
               i + 1 \in 1..Len(left[s]) /\ left'[s][i] = left[s][i + 1]
          /\ \A t \in Senders : t # s => left'[t] = left[t]
      BY <1>9, SendsAt DEF Shifted
    <3> QED BY <3>1, <3>2
  <2>3. \A t \in Senders : \A i \in 1..Len(left'[t]) : left'[t][i] # m
    <3> SUFFICES ASSUME NEW t \in Senders, NEW i \in 1..Len(left'[t]),
                        left'[t][i] = m
                 PROVE  FALSE
      OBVIOUS
    <3>1. 1 \in 1..Len(left[s])
      BY <1>9, SendsAt DEF Shifted
    <3>2. t = s /\ i + 1 = 1
      BY <2>2, <3>1 DEF SentInv
    <3> QED BY <3>2
  <2>4. \A t, u \in Senders : \A i \in 1..Len(left'[t]), j \in 1..Len(left'[u]) :
          left'[t][i] = left'[u][j] => t = u /\ i = j
    <3> SUFFICES ASSUME NEW t \in Senders, NEW u \in Senders,
                        NEW i \in 1..Len(left'[t]), NEW j \in 1..Len(left'[u]),
                        left'[t][i] = left'[u][j]
                 PROVE  t = u /\ i = j
      OBVIOUS
    <3>1. PICK k \in 1..Len(left[t]) :
            /\ left'[t][i] = left[t][k]
            /\ k = (IF t = s THEN i + 1 ELSE i)
      BY <2>2
    <3>2. PICK l \in 1..Len(left[u]) :
            /\ left'[u][j] = left[u][l]
            /\ l = (IF u = s THEN j + 1 ELSE j)
      BY <2>2
    <3>3. left[t][k] = left[u][l]
      BY <3>1, <3>2
    <3>4. t = u /\ k = l
      BY <3>3 DEF SentInv
    <3> QED BY <3>1, <3>2, <3>4
  <2> HIDE DEF m
  <2>5. \A t \in Senders : \A i \in 1..Len(left'[t]) :
          context'[left'[t][i]] = "none"
    BY <2>1, <2>2, <2>3 DEF SentInv
  <2>6. Sends(s, m)
    BY <1>9 DEF m
  <2>7. \A t \in Senders : posting'[t] # <<>> =>
          context'[posting'[t][1].m] = "thread"
    <3>1. \A t \in Senders :
            \/ posting'[t] = posting[t]
            \/ posting'[t][1].m = m /\ context'[m] = "thread"
      BY <2>6, SendsAt
    <3> QED BY <2>1, <3>1, OnTheirWay DEF SentInv
  <2>8. \A i \in 1..Len(queue') : context'[queue'[i].m] # "none"
    <3>1. \A i \in 1..Len(queue') :
            \/ queue'[i].m = m
            \/ i \in 1..Len(queue) /\ queue'[i] = queue[i]
      BY <2>6, SendsAt DEF Extended
    <3> QED BY <2>1, <3>1, OnTheirWay
  <2>9. /\ \A i \in 1..Len(strand') :
             /\ strand'[i].op = "write" => context'[strand'[i].m] = "thread"
             /\ strand'[i].op = "handler" => context'[strand'[i].m] # "none"
        /\ \A i \in 1..Len(wire') : context'[wire'[i].m] # "none"
    BY <2>1, <2>6, SendsAt, OnTheirWay DEF SentInv
  <2> QED BY <1>2, <2>4, <2>5, <2>7, <2>8, <2>9 DEF SentInv
<1> QED BY <1>3, <1>4, <1>5, <1>6, <1>7, <1>8, <1>9, Steps

LEMMA SentInvariance == Spec => []SentInv
BY InitSentInv, NextSentInv, FlowTypesInvariance, PTL DEF Spec

-----------------------------------------------------------------------------
(* The order of the writes                                                 *)

\* A call that had returned had been made, and stays that way.
LEMMA NextEarlierInv ==
  FlowTypes /\ SentInv /\ EarlierInv /\ [Next]_vars => EarlierInv'
<1> SUFFICES ASSUME FlowTypes, SentInv, EarlierInv, [Next]_vars,
                    NEW m \in Messages, NEW x \in earlier'[m]
             PROVE  x \in Returned'
  BY DEF EarlierInv
<1>1. ASSUME x \in Returned, UNCHANGED context,
             \A t \in Senders : posting'[t] # <<>> => posting'[t] = posting[t]
      PROVE  x \in Returned'
  BY <1>1 DEF Returned
<1>2. CASE UNCHANGED <<context, earlier, posting>>
  BY <1>1, <1>2 DEF EarlierInv
<1>3. ASSUME NEW s \in Senders, Arrives(s) PROVE x \in Returned'
  BY <1>1, <1>3, ArrivesAt DEF EarlierInv
<1>4. ASSUME NEW s \in Senders, Sends(s, left[s][1]) PROVE x \in Returned'
  <2>1. x \in Returned
    BY <1>4, SendsAt DEF EarlierInv
  <2>2. /\ x \in Messages /\ context[x] # "none"
        /\ \A t \in Senders : posting[t] # <<>> => posting[t][1].m # x
    BY <2>1 DEF Returned
  <2>3. x # left[s][1] /\ context'[x] # "none"
    BY <1>4, <2>2, SentIsNew
  <2>4. \A t \in Senders : \/ posting'[t] = posting[t]
                           \/ posting'[t][1].m = left[s][1]
    BY <1>4, SendsAt
  <2> QED BY <2>2, <2>3, <2>4 DEF Returned
<1> QED BY <1>2, <1>3, <1>4, Steps, LeavesAt, ClosesAt, CompletesAt, PassesOnAt
        DEF Still, history

\* Nothing that was on its way when a message was sent is behind it, unless
\* the message went straight to the queue and the other waits in the strand.
LEMMA NextOrderInv ==
  FlowTypes /\ SentInv /\ EarlierInv /\ OrderInv /\ [Next]_vars => OrderInv'
<1> SUFFICES ASSUME FlowTypes, SentInv, EarlierInv, OrderInv, [Next]_vars
             PROVE  OrderInv'
  OBVIOUS
<1>1. ASSUME UNCHANGED <<context, earlier>>
      PROVE  \A x, y : Ahead(x, y)' <=> Ahead(x, y)
  BY <1>1 DEF Ahead
<1>2. CASE Still
  BY <1>1, <1>2 DEF Still, OrderInv, history
<1>3. CASE Leaves
  BY <1>1, <1>3, LeavesAt DEF OrderInv, Shifted
<1>4. CASE Closes
  <2>1. \A i \in 1..Len(strand') : strand'[i].op = "write" =>
          i \in 1..Len(strand) /\ strand'[i] = strand[i]
    BY <1>4, ClosesAt DEF Extended
  <2> QED BY <1>1, <1>4, <2>1, ClosesAt DEF OrderInv
<1>5. CASE Completes
  <2>1. \A i \in 1..Len(strand') : strand'[i].op = "write" =>
          i \in 1..Len(strand) /\ strand'[i] = strand[i]
    BY <1>5, CompletesAt DEF Extended
  <2>2. /\ Len(queue) \in Nat /\ 1 \in 1..Len(queue)
        /\ \A i \in 1..Len(queue') :
             i + 1 \in 1..Len(queue) /\ queue'[i] = queue[i + 1]
    BY <1>5, CompletesAt DEF Shifted
  <2>3. /\ \A i \in 1..Len(wire') :
             \/ i \in 1..Len(wire) /\ wire'[i] = wire[i]
             \/ i = Len(wire') /\ wire'[i].m = queue[1].m
        /\ Len(wire') \in Nat
    BY <1>5, CompletesAt DEF Extended, FlowTypes
  <2>4. \A x, y : Ahead(x, y)' <=> Ahead(x, y)
    BY <1>1, <1>5, CompletesAt
  <2>5. \A i, j \in 1..Len(wire') :
          i < j => Ahead(wire'[i].m, wire'[j].m)
    BY <2>2, <2>3 DEF OrderInv
  <2>6. \A i \in 1..Len(wire'), j \in 1..Len(queue') :
          Ahead(wire'[i].m, queue'[j].m)
    BY <2>2, <2>3 DEF OrderInv
  <2>7. \A i \in 1..Len(wire'), j \in 1..Len(strand') :
          strand'[j].op = "write" => Ahead(wire'[i].m, strand'[j].m)
    BY <2>1, <2>2, <2>3 DEF OrderInv
  <2>8. ASSUME NEW i \in 1..Len(queue'), NEW j \in 1..Len(queue'), i < j
        PROVE  Ahead(queue'[i].m, queue'[j].m)
    <3>1. i + 1 < j + 1 /\ i + 1 \in 1..Len(queue) /\ j + 1 \in 1..Len(queue)
      BY <2>2, <2>8
    <3>2. Ahead(queue[i + 1].m, queue[j + 1].m)
      BY <3>1 DEF OrderInv
    <3> QED BY <2>2, <3>2
  <2>9. \A i \in 1..Len(queue'), j \in 1..Len(strand') :
          strand'[j].op = "write" => Ahead(queue'[i].m, strand'[j].m)
    BY <2>1, <2>2 DEF OrderInv
  <2>10. \A i, j \in 1..Len(strand') :
           i < j /\ strand'[i].op = "write" /\ strand'[j].op = "write" =>
             Ahead(strand'[i].m, strand'[j].m)
    BY <2>1 DEF OrderInv
  <2> QED BY <2>4, <2>5, <2>6, <2>7, <2>8, <2>9, <2>10 DEF OrderInv
<1>6. CASE PassesOn
  <2>1. /\ Len(strand) \in Nat /\ 1 \in 1..Len(strand) /\ strand[1].op = "write"
        /\ \A i \in 1..Len(strand') :
             i + 1 \in 1..Len(strand) /\ strand'[i] = strand[i + 1]
        /\ UNCHANGED wire
    BY <1>6, PassesOnAt DEF Shifted
  <2>2. /\ \A i \in 1..Len(queue') :
             \/ i \in 1..Len(queue) /\ queue'[i] = queue[i]
             \/ i = Len(queue') /\ queue'[i].m = strand[1].m
        /\ Len(queue') \in Nat
    BY <1>6, PassesOnAt DEF Extended
  <2>3. \A x, y : Ahead(x, y)' <=> Ahead(x, y)
    BY <1>1, <1>6, PassesOnAt
  <2>4. \A i \in 1..Len(wire'), j \in 1..Len(queue') :
          Ahead(wire'[i].m, queue'[j].m)
    BY <2>1, <2>2 DEF OrderInv
  <2>5. \A i \in 1..Len(wire'), j \in 1..Len(strand') :
          strand'[j].op = "write" => Ahead(wire'[i].m, strand'[j].m)
    BY <2>1 DEF OrderInv
  <2>6. \A i, j \in 1..Len(queue') :
          i < j => Ahead(queue'[i].m, queue'[j].m)
    BY <2>1, <2>2 DEF OrderInv
  <2>7. ASSUME NEW i \in 1..Len(queue'), NEW j \in 1..Len(strand'),
               strand'[j].op = "write"
        PROVE  Ahead(queue'[i].m, strand'[j].m)
    <3>1. /\ 1 < j + 1 /\ j + 1 \in 1..Len(strand)
          /\ strand'[j] = strand[j + 1]
      BY <2>1
    <3>2. Ahead(strand[1].m, strand[j + 1].m)
      BY <2>1, <2>7, <3>1 DEF OrderInv
    <3>3. \A k \in 1..Len(queue) : Ahead(queue[k].m, strand[j + 1].m)
      BY <2>7, <3>1 DEF OrderInv
    <3> QED BY <2>2, <3>1, <3>2, <3>3
  <2>8. ASSUME NEW i \in 1..Len(strand'), NEW j \in 1..Len(strand'), i < j,
               strand'[i].op = "write", strand'[j].op = "write"
        PROVE  Ahead(strand'[i].m, strand'[j].m)
    <3>1. /\ i + 1 < j + 1
          /\ i + 1 \in 1..Len(strand) /\ j + 1 \in 1..Len(strand)
          /\ strand'[i] = strand[i + 1] /\ strand'[j] = strand[j + 1]
      BY <2>1, <2>8
    <3>2. Ahead(strand[i + 1].m, strand[j + 1].m)
      BY <2>8, <3>1 DEF OrderInv
    <3> QED BY <3>1, <3>2
  <2> QED BY <2>1, <2>3, <2>4, <2>5, <2>6, <2>7, <2>8 DEF OrderInv
<1>7. ASSUME NEW s \in Senders, Arrives(s) PROVE OrderInv'
  <2> DEFINE y == posting[s][1].m
  <2>1. ASSUME NEW x \in Messages PROVE Ahead(x, y)
    <3>1. y \notin Returned
      BY <1>7, ArrivesAt DEF Returned
    <3> QED BY <3>1 DEF EarlierInv, Ahead
  <2>2. /\ \A i \in 1..Len(strand') :
             \/ i \in 1..Len(strand) /\ strand'[i] = strand[i]
             \/ i = Len(strand') /\ strand'[i].m = y
        /\ Len(strand') \in Nat
        /\ UNCHANGED <<queue, wire, context, earlier>>
    BY <1>7, ArrivesAt DEF Extended
  <2> HIDE DEF y
  <2>3. \A x, z : Ahead(x, z)' <=> Ahead(x, z)
    BY <1>1, <2>2
  <2>4. /\ \A i \in 1..Len(strand) : strand[i].op # "close" =>
             strand[i].m \in Messages
        /\ \A i \in 1..Len(queue) : queue[i].m \in Messages
        /\ \A i \in 1..Len(wire) : wire[i].m \in Messages
    BY OnTheirWay
  <2>5. \A i \in 1..Len(wire'), j \in 1..Len(strand') :
          strand'[j].op = "write" => Ahead(wire'[i].m, strand'[j].m)
    BY <2>1, <2>2, <2>4 DEF OrderInv
  <2>6. \A i \in 1..Len(queue'), j \in 1..Len(strand') :
          strand'[j].op = "write" => Ahead(queue'[i].m, strand'[j].m)
    BY <2>1, <2>2, <2>4 DEF OrderInv
  <2>7. \A i, j \in 1..Len(strand') :
          i < j /\ strand'[i].op = "write" /\ strand'[j].op = "write" =>
            Ahead(strand'[i].m, strand'[j].m)
    BY <2>1, <2>2, <2>4 DEF OrderInv
  <2> QED BY <2>2, <2>3, <2>5, <2>6, <2>7 DEF OrderInv
<1>8. ASSUME NEW s \in Senders, Sends(s, left[s][1]) PROVE OrderInv'
  <2>1. PICK m \in Messages : context[m] = "none" /\ Sends(s, m)
    BY <1>8, SentIsNew
  <2>2. \A x \in Messages : x # m =>
          context'[x] = context[x] /\ earlier'[x] = earlier[x]
    BY <2>1, SendsAt
  <2>3. \A x, y \in Messages : x # m /\ y # m => (Ahead(x, y)' <=> Ahead(x, y))
    BY <2>2 DEF Ahead
  <2>4. \A x \in Messages : x # m => Ahead(x, m)'
    <3>1. m \notin Returned
      BY <2>1 DEF Returned
    <3>2. \A x \in Messages : x # m => m \notin earlier'[x]
      BY <2>2, <3>1 DEF EarlierInv
    <3> QED BY <3>2 DEF Ahead
  <2>5. /\ \A i \in 1..Len(strand) : strand[i].op = "write" =>
             /\ strand[i].m \in Messages /\ strand[i].m # m
             /\ context[strand[i].m] = "thread"
        /\ \A i \in 1..Len(queue) : queue[i].m \in Messages /\ queue[i].m # m
        /\ \A i \in 1..Len(wire) : wire[i].m \in Messages /\ wire[i].m # m
    BY <2>1, OnTheirWay DEF SentInv
  <2>6. UNCHANGED <<strand, wire>>
    BY <2>1, SendsAt
  <2>7. CASE UNCHANGED queue
    BY <2>3, <2>5, <2>6, <2>7 DEF OrderInv
  <2>8. CASE /\ context'[m] = "strand" /\ Extended(queue, queue')
             /\ queue'[Len(queue')].m = m
    <3>1. /\ \A i \in 1..Len(queue') :
               \/ i \in 1..Len(queue) /\ queue'[i] = queue[i]
               \/ i = Len(queue') /\ queue'[i].m = m
          /\ Len(queue') \in Nat /\ Len(queue') = Len(queue) + 1
      BY <2>8 DEF Extended
    <3>2. \A y \in Messages :
            y # m /\ context[y] = "thread" => Ahead(m, y)'
      BY <2>2, <2>8 DEF Ahead
    <3>3. \A i \in 1..Len(wire'), j \in 1..Len(queue') :
            Ahead(wire[i].m, queue[j].m)'
      BY <2>3, <2>4, <2>5, <2>6, <3>1 DEF OrderInv
    <3>4. \A i, j \in 1..Len(queue') :
            i < j => Ahead(queue[i].m, queue[j].m)'
      BY <2>3, <2>4, <2>5, <2>6, <3>1 DEF OrderInv
    <3>5. \A i \in 1..Len(queue'), j \in 1..Len(strand') :
            strand'[j].op = "write" => Ahead(queue[i].m, strand[j].m)'
      BY <2>3, <2>5, <2>6, <3>1, <3>2 DEF OrderInv
    <3> QED BY <2>3, <2>5, <2>6, <3>3, <3>4, <3>5 DEF OrderInv
  <2> QED BY <2>1, <2>7, <2>8, SendsAt
<1> QED BY <1>2, <1>3, <1>4, <1>5, <1>6, <1>7, <1>8, Steps

LEMMA OrderInvariance == Spec => [](EarlierInv /\ OrderInv)
<1>1. Init => EarlierInv
  BY DEF Init, EarlierInv
<1>2. Init => OrderInv
  BY DEF Init, OrderInv
<1> QED BY <1>1, <1>2, NextEarlierInv, NextOrderInv, FlowTypesInvariance,
        SentInvariance, PTL DEF Spec

\* Only a message sent in the strand reaches the switch before one whose call
\* had returned when it was sent, and only if that one came from elsewhere.
THEOREM WritesKeepOrder == Spec => []OnlyTheStrandOvertakes
<1>1. FlowTypes /\ OrderInv => OnlyTheStrandOvertakes
  <2> SUFFICES ASSUME FlowTypes, OrderInv,
                      NEW i \in DOMAIN wire, NEW j \in DOMAIN wire,
                      i < j, wire[j].m \in earlier[wire[i].m]
               PROVE  /\ context[wire[i].m] = "strand"
                      /\ context[wire[j].m] = "thread"
    BY DEF OnlyTheStrandOvertakes
  <2>1. i \in 1..Len(wire) /\ j \in 1..Len(wire)
    BY DEF FlowTypes
  <2> QED BY <2>1 DEF OrderInv, Ahead
<1> QED BY <1>1, OrderInvariance, FlowTypesInvariance, PTL

-----------------------------------------------------------------------------
(* A message is in one place                                               *)

LEMMA StrandPlaces ==
  \A m, i : i \in StrandAt(m)' <=>
    i \in 1..Len(strand') /\ strand'[i].op # "close" /\ strand'[i].m = m
BY DEF StrandAt

LEMMA QueuePlaces ==
  \A m, i : i \in QueuedAt(m)' <=> i \in 1..Len(queue') /\ queue'[i].m = m
BY DEF QueuedAt

LEMMA PostingPlaces ==
  \A m, s : s \in PostedBy(m)' <=>
    s \in Senders /\ posting'[s] # <<>> /\ posting'[s][1].m = m
BY DEF PostedBy

LEMMA SamePlaces ==
  ASSUME NEW m \in Messages, OnePlaceOf(m), PostedBy(m)' = PostedBy(m),
         QueuedAt(m)' = QueuedAt(m), StrandAt(m)' = StrandAt(m)
  PROVE  OnePlaceOf(m)' /\ (UnderWay(m)' <=> UnderWay(m))
BY DEF OnePlaceOf, UnderWay

\* The message is now in one new place.
LEMMA NewPlace ==
  ASSUME NEW m \in Messages, NEW place,
         \/ /\ PostedBy(m)' = {} /\ QueuedAt(m)' = {}
            /\ \A i : i \in StrandAt(m)' <=> i = place
         \/ /\ PostedBy(m)' = {} /\ StrandAt(m)' = {}
            /\ \A i : i \in QueuedAt(m)' <=> i = place
         \/ /\ QueuedAt(m)' = {} /\ StrandAt(m)' = {}
            /\ \A i : i \in PostedBy(m)' <=> i = place
  PROVE  OnePlaceOf(m)' /\ UnderWay(m)'
BY DEF OnePlaceOf, UnderWay

\* The handler of a write runs: its message is nowhere any more.
LEMMA LeavesPlaces ==
  ASSUME FlowTypes, Leaves, NEW m \in Messages, OnePlaceOf(m)
  PROVE  /\ OnePlaceOf(m)'
         /\ UnderWay(m)' <=>
              UnderWay(m) /\ ~(strand[1].op = "handler" /\ strand[1].m = m)
<1>1. /\ Len(strand) \in Nat /\ Len(strand') = Len(strand) - 1
      /\ 1 \in 1..Len(strand) /\ strand[1].op # "write"
      /\ \A i \in 1..Len(strand') :
           i + 1 \in 1..Len(strand) /\ strand'[i] = strand[i + 1]
      /\ UNCHANGED <<posting, queue>>
  BY LeavesAt DEF Shifted
<1>2. PostedBy(m)' = PostedBy(m) /\ QueuedAt(m)' = QueuedAt(m)
  BY <1>1 DEF PostedBy, QueuedAt
<1>3. \A i \in StrandAt(m)' : i \in Nat /\ i > 0 /\ i + 1 \in StrandAt(m)
  BY <1>1, StrandPlaces DEF StrandAt
<1>4. OnePlaceOf(m)'
  <2>1. \A i, j \in StrandAt(m)' : i = j
    <3> SUFFICES ASSUME NEW i \in StrandAt(m)', NEW j \in StrandAt(m)'
                 PROVE  i = j
      OBVIOUS
    <3>1. i + 1 = j + 1 /\ i \in Nat /\ j \in Nat
      BY <1>3 DEF OnePlaceOf
    <3> QED BY <3>1
  <2>2. StrandAt(m) = {} => StrandAt(m)' = {}
    BY <1>3
  <2> QED BY <1>2, <2>1, <2>2 DEF OnePlaceOf
<1>5. CASE strand[1].op = "handler" /\ strand[1].m = m
  <2>1. 1 \in StrandAt(m)
    BY <1>1, <1>5 DEF StrandAt
  <2>2. StrandAt(m)' = {}
    <3> SUFFICES ASSUME NEW i \in StrandAt(m)' PROVE FALSE
      OBVIOUS
    <3>1. i \in Nat /\ i > 0 /\ i + 1 = 1
      BY <1>3, <2>1 DEF OnePlaceOf
    <3> QED BY <3>1
  <2> QED BY <1>2, <1>4, <1>5, <2>1, <2>2 DEF OnePlaceOf, UnderWay
<1>6. CASE ~(strand[1].op = "handler" /\ strand[1].m = m)
  <2>1. 1 \notin StrandAt(m)
    <3>1. strand[1] \in StrandItems
      BY TailFacts DEF FlowTypes, Leaves
    <3> QED BY <1>1, <1>6, <3>1, ItemParts DEF StrandAt
  <2>2. ASSUME NEW j \in StrandAt(m) PROVE j - 1 \in StrandAt(m)'
    <3>1. j \in 1..Len(strand) /\ j # 1
      BY <2>1 DEF StrandAt
    <3>2. j - 1 \in 1..Len(strand') /\ (j - 1) + 1 = j
      BY <1>1, <3>1
    <3>3. strand'[j - 1] = strand[j]
      BY <1>1, <3>2
    <3> QED BY <3>2, <3>3, StrandPlaces DEF StrandAt
  <2>3. StrandAt(m)' = {} <=> StrandAt(m) = {}
    BY <1>3, <2>2
  <2> QED BY <1>2, <1>4, <1>6, <2>3 DEF UnderWay
<1> QED BY <1>5, <1>6

LEMMA CompletesPlaces ==
  ASSUME FlowTypes, Completes, NEW m \in Messages, OnePlaceOf(m)
  PROVE  OnePlaceOf(m)' /\ (UnderWay(m)' <=> UnderWay(m))
<1>1. /\ Len(queue) \in Nat /\ Len(queue') = Len(queue) - 1
      /\ 1 \in 1..Len(queue)
      /\ \A i \in 1..Len(queue') :
           i + 1 \in 1..Len(queue) /\ queue'[i] = queue[i + 1]
      /\ Len(strand) \in Nat /\ Len(strand') = Len(strand) + 1
      /\ \A i \in 1..Len(strand) : i \in 1..Len(strand') /\ strand'[i] = strand[i]
      /\ \A i \in 1..Len(strand') : i = Len(strand') \/ i \in 1..Len(strand)
      /\ strand'[Len(strand')].op = "handler"
      /\ strand'[Len(strand')].m = queue[1].m
      /\ UNCHANGED posting
  BY CompletesAt DEF Shifted, Extended
<1>2. PostedBy(m)' = PostedBy(m)
  BY <1>1 DEF PostedBy
<1>3. \A i \in QueuedAt(m)' : i \in Nat /\ i > 0 /\ i + 1 \in QueuedAt(m)
  BY <1>1, QueuePlaces DEF QueuedAt
<1>4. CASE queue[1].m = m
  <2>1. 1 \in QueuedAt(m)
    BY <1>1, <1>4 DEF QueuedAt
  <2>2. QueuedAt(m)' = {}
    <3> SUFFICES ASSUME NEW i \in QueuedAt(m)' PROVE FALSE
      OBVIOUS
    <3>1. i \in Nat /\ i > 0 /\ i + 1 = 1
      BY <1>3, <2>1 DEF OnePlaceOf
    <3> QED BY <3>1
  <2>3. StrandAt(m) = {} /\ PostedBy(m) = {}
    BY <2>1 DEF OnePlaceOf
  <2>4. \A i : i \in StrandAt(m)' <=> i = Len(strand')
    BY <1>1, <1>4, <2>3, StrandPlaces DEF StrandAt
  <2>5. PostedBy(m)' = {} /\ UnderWay(m)
    BY <1>2, <2>1, <2>3 DEF UnderWay
  <2> DEFINE place == Len(strand')
  <2>6. \A i : i \in StrandAt(m)' <=> i = place
    BY <2>4
  <2> HIDE DEF place
  <2>7. OnePlaceOf(m)' /\ UnderWay(m)'
    BY <2>2, <2>5, <2>6 DEF OnePlaceOf, UnderWay
  <2> QED BY <2>5, <2>7
<1>5. CASE queue[1].m # m
  <2>1. StrandAt(m)' = StrandAt(m)
    <3>1. \A i : i \in StrandAt(m)' <=> i \in StrandAt(m)
      BY <1>1, <1>5, StrandPlaces DEF StrandAt
    <3> QED BY <3>1
  <2>2. ASSUME NEW j \in QueuedAt(m) PROVE j - 1 \in QueuedAt(m)'
    <3>1. j \in 1..Len(queue) /\ j # 1
      BY <1>5 DEF QueuedAt
    <3>2. j - 1 \in 1..Len(queue') /\ (j - 1) + 1 = j
      BY <1>1, <3>1
    <3>3. queue'[j - 1] = queue[j]
      BY <1>1, <3>2
    <3> QED BY <3>2, <3>3, QueuePlaces DEF QueuedAt
  <2>3. \A i, j \in QueuedAt(m)' : i = j
    <3> SUFFICES ASSUME NEW i \in QueuedAt(m)', NEW j \in QueuedAt(m)'
                 PROVE  i = j
      OBVIOUS
    <3>1. i + 1 = j + 1 /\ i \in Nat /\ j \in Nat
      BY <1>3 DEF OnePlaceOf
    <3> QED BY <3>1
  <2>4. QueuedAt(m)' = {} <=> QueuedAt(m) = {}
    BY <1>3, <2>2
  <2> QED BY <1>2, <2>1, <2>3, <2>4 DEF OnePlaceOf, UnderWay
<1> QED BY <1>4, <1>5

LEMMA PassesOnPlaces ==
  ASSUME FlowTypes, PassesOn, NEW m \in Messages, OnePlaceOf(m)
  PROVE  OnePlaceOf(m)' /\ (UnderWay(m)' <=> UnderWay(m))
<1>1. /\ Len(strand) \in Nat /\ Len(strand') = Len(strand) - 1
      /\ 1 \in 1..Len(strand) /\ strand[1].op = "write"
      /\ \A i \in 1..Len(strand') :
           i + 1 \in 1..Len(strand) /\ strand'[i] = strand[i + 1]
      /\ Len(queue) \in Nat /\ Len(queue') = Len(queue) + 1
      /\ \A i \in 1..Len(queue) : i \in 1..Len(queue') /\ queue'[i] = queue[i]
      /\ \A i \in 1..Len(queue') : i = Len(queue') \/ i \in 1..Len(queue)
      /\ queue'[Len(queue')].m = strand[1].m
      /\ UNCHANGED posting
  BY PassesOnAt DEF Shifted, Extended
<1>2. PostedBy(m)' = PostedBy(m)
  BY <1>1 DEF PostedBy
<1>3. \A i \in StrandAt(m)' : i \in Nat /\ i > 0 /\ i + 1 \in StrandAt(m)
  BY <1>1, StrandPlaces DEF StrandAt
<1>4. CASE strand[1].m = m
  <2>1. 1 \in StrandAt(m)
    BY <1>1, <1>4 DEF StrandAt
  <2>2. StrandAt(m)' = {}
    <3> SUFFICES ASSUME NEW i \in StrandAt(m)' PROVE FALSE
      OBVIOUS
    <3>1. i \in Nat /\ i > 0 /\ i + 1 = 1
      BY <1>3, <2>1 DEF OnePlaceOf
    <3> QED BY <3>1
  <2>3. QueuedAt(m) = {} /\ PostedBy(m) = {}
    BY <2>1 DEF OnePlaceOf
  <2>4. \A i : i \in QueuedAt(m)' <=> i = Len(queue')
    BY <1>1, <1>4, <2>3, QueuePlaces DEF QueuedAt
  <2>5. PostedBy(m)' = {} /\ UnderWay(m)
    BY <1>2, <2>1, <2>3 DEF UnderWay
  <2> DEFINE place == Len(queue')
  <2>6. \A i : i \in QueuedAt(m)' <=> i = place
    BY <2>4
  <2> HIDE DEF place
  <2>7. OnePlaceOf(m)' /\ UnderWay(m)'
    BY <2>2, <2>5, <2>6 DEF OnePlaceOf, UnderWay
  <2> QED BY <2>5, <2>7
<1>5. CASE strand[1].m # m
  <2>1. QueuedAt(m)' = QueuedAt(m)
    <3>1. \A i : i \in QueuedAt(m)' <=> i \in QueuedAt(m)
      BY <1>1, <1>5, QueuePlaces DEF QueuedAt
    <3> QED BY <3>1
  <2>2. ASSUME NEW j \in StrandAt(m) PROVE j - 1 \in StrandAt(m)'
    <3>1. j \in 1..Len(strand) /\ j # 1
      BY <1>5 DEF StrandAt
    <3>2. j - 1 \in 1..Len(strand') /\ (j - 1) + 1 = j
      BY <1>1, <3>1
    <3>3. strand'[j - 1] = strand[j]
      BY <1>1, <3>2
    <3> QED BY <3>2, <3>3, StrandPlaces DEF StrandAt
  <2>3. \A i, j \in StrandAt(m)' : i = j
    <3> SUFFICES ASSUME NEW i \in StrandAt(m)', NEW j \in StrandAt(m)'
                 PROVE  i = j
      OBVIOUS
    <3>1. i + 1 = j + 1 /\ i \in Nat /\ j \in Nat
      BY <1>3 DEF OnePlaceOf
    <3> QED BY <3>1
  <2>4. StrandAt(m)' = {} <=> StrandAt(m) = {}
    BY <1>3, <2>2
  <2> QED BY <1>2, <2>1, <2>3, <2>4 DEF OnePlaceOf, UnderWay
<1> QED BY <1>4, <1>5

LEMMA ArrivesPlaces ==
  ASSUME FlowTypes, NEW s \in Senders, Arrives(s),
         NEW m \in Messages, OnePlaceOf(m)
  PROVE  OnePlaceOf(m)' /\ (UnderWay(m)' <=> UnderWay(m))
<1>1. /\ Len(strand) \in Nat /\ Len(strand') = Len(strand) + 1
      /\ \A i \in 1..Len(strand) : i \in 1..Len(strand') /\ strand'[i] = strand[i]
      /\ \A i \in 1..Len(strand') : i = Len(strand') \/ i \in 1..Len(strand)
      /\ strand'[Len(strand')] = posting[s][1] /\ posting[s] # <<>>
      /\ posting[s][1] \in WriteItems
      /\ posting'[s] = <<>> /\ \A t \in Senders : t # s => posting'[t] = posting[t]
      /\ UNCHANGED queue
  BY ArrivesAt DEF Extended
<1>2. QueuedAt(m)' = QueuedAt(m) /\ posting[s][1].op # "close"
  BY <1>1 DEF QueuedAt, WriteItems
<1>3. CASE posting[s][1].m = m
  <2>1. s \in PostedBy(m)
    BY <1>1, <1>3 DEF PostedBy
  <2>2. \A t : t \notin PostedBy(m)'
    BY <1>1, <2>1, PostingPlaces DEF OnePlaceOf, PostedBy
  <2>3. StrandAt(m) = {} /\ QueuedAt(m) = {}
    BY <2>1 DEF OnePlaceOf
  <2>4. \A i : i \in StrandAt(m)' <=> i = Len(strand')
    BY <1>1, <1>2, <1>3, <2>3, StrandPlaces DEF StrandAt
  <2>5. PostedBy(m)' = {} /\ UnderWay(m)
    BY <2>1, <2>2 DEF UnderWay
  <2> QED BY <1>2, <2>3, <2>4, <2>5, NewPlace
<1>4. CASE posting[s][1].m # m
  <2>1. \A t : t \in PostedBy(m)' <=> t \in PostedBy(m)
    BY <1>1, <1>4, PostingPlaces DEF PostedBy
  <2>2. \A i : i \in StrandAt(m)' <=> i \in StrandAt(m)
    BY <1>1, <1>4, StrandPlaces DEF StrandAt
  <2>3. PostedBy(m)' = PostedBy(m) /\ StrandAt(m)' = StrandAt(m)
    BY <2>1, <2>2
  <2> QED BY <1>2, <2>3, SamePlaces
<1> QED BY <1>3, <1>4

LEMMA ClosesPlaces ==
  ASSUME FlowTypes, Closes, NEW m \in Messages, OnePlaceOf(m)
  PROVE  OnePlaceOf(m)' /\ (UnderWay(m)' <=> UnderWay(m))
<1>1. \A i : i \in StrandAt(m)' <=> i \in StrandAt(m)
  BY ClosesAt, StrandPlaces DEF Extended, StrandAt
<1>2. PostedBy(m)' = PostedBy(m) /\ QueuedAt(m)' = QueuedAt(m)
  BY ClosesAt DEF PostedBy, QueuedAt
<1>3. StrandAt(m)' = StrandAt(m)
  BY <1>1
<1> QED BY <1>2, <1>3, SamePlaces

\* A message that was never sent is nowhere; it is sent to one place.
LEMMA SendsPlaces ==
  ASSUME FlowTypes, SentInv, NEW s \in Senders, Sends(s, left[s][1]),
         NEW m \in Messages, OnePlaceOf(m)
  PROVE  /\ OnePlaceOf(m)'
         /\ UnderWay(m)' <=> UnderWay(m) \/ m = left[s][1]
         /\ m = left[s][1] => ~UnderWay(m)
<1>1. PICK n \in Messages : n = left[s][1] /\ context[n] = "none" /\ Sends(s, n)
  BY SentIsNew
<1>2. PostedBy(n) = {} /\ QueuedAt(n) = {} /\ StrandAt(n) = {}
  BY <1>1, OnTheirWay DEF PostedBy, QueuedAt, StrandAt
<1>3. StrandAt(m)' = StrandAt(m)
  BY <1>1, SendsAt DEF StrandAt
<1>4. CASE /\ Extended(queue, queue') /\ queue'[Len(queue')].m = n
           /\ UNCHANGED posting
  <2>1. PostedBy(m)' = PostedBy(m)
    BY <1>4 DEF PostedBy
  <2>2. CASE m = n
    <3>1. \A i : i \in QueuedAt(m)' <=> i = Len(queue')
      BY <1>2, <1>4, <2>2, QueuePlaces DEF Extended, QueuedAt
    <3>2. OnePlaceOf(m)' /\ UnderWay(m)'
      BY <1>2, <1>3, <2>1, <2>2, <3>1, NewPlace
    <3> QED BY <1>1, <1>2, <2>2, <3>2 DEF UnderWay
  <2>3. CASE m # n
    <3>1. \A i : i \in QueuedAt(m)' <=> i \in QueuedAt(m)
      BY <1>4, <2>3, QueuePlaces DEF Extended, QueuedAt
    <3>2. QueuedAt(m)' = QueuedAt(m)
      BY <3>1
    <3> QED BY <1>1, <1>3, <2>1, <2>3, <3>2, SamePlaces
  <2> QED BY <2>2, <2>3
<1>5. CASE /\ posting'[s] # <<>> /\ posting'[s][1].m = n /\ posting[s] = <<>>
           /\ \A t \in Senders : t # s => posting'[t] = posting[t]
           /\ UNCHANGED queue
  <2>1. QueuedAt(m)' = QueuedAt(m)
    BY <1>5 DEF QueuedAt
  <2>2. CASE m = n
    <3>1. \A t : t \in PostedBy(m)' <=> t = s
      BY <1>2, <1>5, <2>2, PostingPlaces DEF PostedBy
    <3>2. OnePlaceOf(m)' /\ UnderWay(m)'
      BY <1>2, <1>3, <2>1, <2>2, <3>1, NewPlace
    <3> QED BY <1>1, <1>2, <2>2, <3>2 DEF UnderWay
  <2>3. CASE m # n
    <3>1. \A t : t \in PostedBy(m)' <=> t \in PostedBy(m)
      BY <1>5, <2>3, PostingPlaces DEF PostedBy
    <3>2. PostedBy(m)' = PostedBy(m)
      BY <3>1
    <3> QED BY <1>1, <1>3, <2>1, <2>3, <3>2, SamePlaces
  <2> QED BY <2>2, <2>3
<1> QED BY <1>1, <1>4, <1>5, SendsAt

LEMMA NextOnePlace ==
  FlowTypes /\ SentInv /\ OnePlace /\ [Next]_vars => OnePlace'
<1> SUFFICES ASSUME FlowTypes, SentInv, OnePlace, [Next]_vars,
                    NEW m \in Messages
             PROVE  OnePlaceOf(m)'
  BY DEF OnePlace
<1>1. OnePlaceOf(m)
  BY DEF OnePlace
<1>2. CASE Still
  <2>1. /\ PostedBy(m)' = PostedBy(m) /\ QueuedAt(m)' = QueuedAt(m)
        /\ StrandAt(m)' = StrandAt(m)
    BY <1>2 DEF Still, PostedBy, QueuedAt, StrandAt
  <2> QED BY <1>1, <2>1, SamePlaces
<1> QED BY <1>1, <1>2, Steps, LeavesPlaces, ClosesPlaces, CompletesPlaces,
        PassesOnPlaces, ArrivesPlaces, SendsPlaces

LEMMA OnePlaceInvariance == Spec => []OnePlace
<1>1. ASSUME Init PROVE OnePlace
  <2>1. ASSUME NEW m \in Messages
        PROVE  PostedBy(m) = {} /\ QueuedAt(m) = {} /\ StrandAt(m) = {}
    BY <1>1 DEF Init, PostedBy, QueuedAt, StrandAt
  <2> QED BY <2>1 DEF OnePlace, OnePlaceOf
<1> QED BY <1>1, NextOnePlace, FlowTypesInvariance, SentInvariance, PTL DEF Spec

-----------------------------------------------------------------------------
(* Buffers                                                                 *)

\* The steps again, with what they do to the buffers.
LEMMA BufferSteps ==
  ASSUME FlowTypes, [Next]_vars
  PROVE  \/ UNCHANGED buffers /\ \/ Still \/ Closes \/ Completes \/ PassesOn
                                 \/ \E s \in Senders : Arrives(s)
         \/ UNCHANGED buffers /\ Leaves /\ strand[1].op = "close"
         \/ Leaves /\ strand[1].op = "handler" /\ RunHandler
         \/ \E s \in Senders : Still /\ DropGenerator(s)
         \/ \E s \in Senders : Sends(s, left[s][1]) /\ Encode(s, left[s][1])
<1>1. strand # <<>> => Head(strand) = strand[1]
  BY TailFacts DEF FlowTypes
<1>2. CASE RunFunctor
  BY <1>1, <1>2 DEF RunFunctor, PassesOn, buffers
<1>3. CASE RunClose
  BY <1>1, <1>3 DEF RunClose, Leaves
<1>4. CASE RunHandler
  BY <1>1, <1>4 DEF RunHandler, Leaves
<1>5. CASE CloseElsewhere
  BY <1>5 DEF CloseElsewhere, CloseItem, Closes
<1>6. CASE CloseInStrand
  BY <1>6 DEF CloseInStrand, Still
<1>7. ASSUME NEW s \in Senders, DropGenerator(s) PROVE Still
  BY <1>7 DEF DropGenerator, Still
<1>8. CASE UNCHANGED vars
  BY <1>8 DEF vars, Still
<1>9. ASSUME NEW s \in Senders, Post(s) PROVE UNCHANGED buffers
  BY <1>9 DEF Post
<1>10. CASE Write \/ WriteFails
  BY <1>10, CompleteSteps DEF Write, WriteFails, Complete
<1>11. ASSUME NEW s \in Senders, SendInStrand(s) \/ EncodeInThread(s)
       PROVE  Sends(s, left[s][1]) /\ Encode(s, left[s][1])
  <2>1. Encode(s, Head(left[s])) /\ Head(left[s]) = left[s][1]
    BY <1>11, FirstLeft DEF SendInStrand, EncodeInThread
  <2> QED BY <1>11, <2>1, SendSteps
<1> QED BY <1>2, <1>3, <1>4, <1>5, <1>6, <1>7, <1>8, <1>9, <1>10, <1>11,
        PostSteps DEF Next, RunStrand

LEMMA NextBytesInv ==
  FlowTypes /\ SentInv /\ BytesInv /\ [Next]_vars => BytesInv'
<1> SUFFICES ASSUME FlowTypes, SentInv, BytesInv, [Next]_vars PROVE BytesInv'
  OBVIOUS
<1>1. CASE UNCHANGED bytes /\ Still
  BY <1>1 DEF Still, history, BytesInv
<1>2. CASE UNCHANGED bytes /\ Leaves
  BY <1>2, LeavesAt DEF Shifted, BytesInv
<1>3. CASE UNCHANGED bytes /\ Closes
  BY <1>3, ClosesAt DEF Extended, BytesInv
<1>4. CASE UNCHANGED bytes /\ Completes
  <2>1. /\ 1 \in 1..Len(queue) /\ queue[1] \in QueueItems
    BY CompletesAt, <1>4 DEF Shifted, FlowTypes
  <2>2. queue[1].b = queue[1].m /\ bytes[queue[1].b] = queue[1].m
    BY <2>1 DEF SentInv, BytesInv, QueueItems
  <2>3. \A i \in 1..Len(wire') : wire'[i].bytes = wire'[i].m
    BY <1>4, <2>2, CompletesAt DEF Extended, BytesInv
  <2>4. \A i \in 1..Len(queue') : queue'[i].b = queue'[i].m
    BY <1>4, CompletesAt DEF Shifted, BytesInv
  <2>5. \A i \in 1..Len(strand') :
          strand'[i].op # "close" => strand'[i].b = strand'[i].m
    BY <1>4, <2>2, CompletesAt DEF Extended, BytesInv
  <2> QED BY <1>4, <2>3, <2>4, <2>5, CompletesAt DEF BytesInv
<1>5. CASE UNCHANGED bytes /\ PassesOn
  BY <1>5, PassesOnAt DEF Shifted, Extended, BytesInv
<1>6. ASSUME UNCHANGED bytes, NEW s \in Senders, Arrives(s) PROVE BytesInv'
  <2>1. posting[s][1].b = posting[s][1].m
    BY <1>6, ArrivesAt DEF BytesInv
  <2> QED BY <1>6, <2>1, ArrivesAt DEF Extended, BytesInv
<1>7. ASSUME NEW s \in Senders, Sends(s, left[s][1]), Encode(s, left[s][1])
      PROVE  BytesInv'
  <2>1. PICK m \in Messages : m = left[s][1] /\ Sends(s, m) /\ Encode(s, m)
    BY <1>7, SendsAt
  <2>2. bytes' = [bytes EXCEPT ![m] = m]
    BY <2>1, EncodeTypes
  <2>3. \A x \in Messages : context'[x] # "none" => bytes'[x] = x
    BY <2>1, <2>2, SendsAt DEF FlowTypes, BytesInv, Buffers
  <2>4. \A t \in Senders : posting'[t] # <<>> => posting'[t][1].b = posting'[t][1].m
    BY <2>1, SendsAt DEF BytesInv
  <2>5. \A i \in 1..Len(queue') : queue'[i].b = queue'[i].m
    BY <2>1, SendsAt DEF Extended, BytesInv
  <2> QED BY <2>1, <2>3, <2>4, <2>5, SendsAt DEF BytesInv
<1>8. ASSUME NEW s \in Senders, DropGenerator(s) PROVE UNCHANGED bytes
  BY <1>8 DEF DropGenerator
<1> QED BY <1>1, <1>2, <1>3, <1>4, <1>5, <1>6, <1>7, <1>8, BufferSteps
        DEF buffers, RunHandler

LEMMA BytesInvariance == Spec => []BytesInv
<1>1. Init => BytesInv
  BY DEF Init, BytesInv
<1> QED BY <1>1, NextBytesInv, FlowTypesInvariance, SentInvariance, PTL DEF Spec

-----------------------------------------------------------------------------
(* Reference counts                                                        *)

LEMMA ReleaseTakesOne ==
  ASSUME NEW counts, counts \in [Messages -> Nat],
         NEW b \in Messages \cup {NoBuffer}
  PROVE  /\ Release(counts, b) \in [Messages -> Int]
         /\ \A x \in Messages :
              Release(counts, b)[x] = IF x = b THEN counts[x] - 1 ELSE counts[x]
BY ProgramAssumption DEF Release

\* Whether each message is under way after a step in which none starts or ends.
LEMMA WaysStay ==
  ASSUME FlowTypes, OnePlace, NEW m \in Messages,
         \/ Still \/ Closes \/ Completes \/ PassesOn
         \/ \E s \in Senders : Arrives(s)
         \/ Leaves /\ strand[1].op = "close"
  PROVE  UnderWay(m)' <=> UnderWay(m)
<1>1. OnePlaceOf(m)
  BY DEF OnePlace
<1>2. CASE Still
  <2>1. /\ PostedBy(m)' = PostedBy(m) /\ QueuedAt(m)' = QueuedAt(m)
        /\ StrandAt(m)' = StrandAt(m)
    BY <1>2 DEF Still, PostedBy, QueuedAt, StrandAt
  <2> QED BY <1>1, <2>1, SamePlaces
<1> QED BY <1>1, <1>2, LeavesPlaces, ClosesPlaces, CompletesPlaces,
        PassesOnPlaces, ArrivesPlaces

LEMMA CountsAreNats ==
  ASSUME NEW counts, counts \in [Messages -> Int],
         \A m \in Messages : counts[m] \in Nat
  PROVE  counts \in [Messages -> Nat]
OBVIOUS

LEMMA HandlerReleases ==
  ASSUME FlowTypes, BytesInv, OnePlace, RefsInv, Leaves,
         strand[1].op = "handler", RunHandler
  PROVE  RefsInv'
<1>1. /\ 1 \in 1..Len(strand) /\ strand[1] \in StrandItems
      /\ Head(strand) = strand[1]
  BY TailFacts DEF Leaves, FlowTypes
<1>2. PICK n \in Messages : n = strand[1].m /\ n = strand[1].b
  BY <1>1, ItemParts DEF BytesInv
<1>3. refs' = Release(refs, n) /\ UNCHANGED generator
  BY <1>1, <1>2 DEF RunHandler
<1>4. /\ refs' \in [Messages -> Int]
      /\ \A x \in Messages : refs'[x] = IF x = n THEN refs[x] - 1 ELSE refs[x]
  BY <1>3, ReleaseTakesOne DEF RefsInv
<1>5. \A m \in Messages : Kept(m)' <=> Kept(m)
  BY <1>3 DEF Kept
<1>6. \A m \in Messages : UnderWay(m)' <=> UnderWay(m) /\ m # n
  BY <1>2, LeavesPlaces DEF OnePlace
<1>7. UnderWay(n)
  <2>1. 1 \in StrandAt(n)
    BY <1>1, <1>2 DEF StrandAt
  <2> QED BY <2>1 DEF UnderWay
<1>8. \A m \in Messages :
        refs'[m] = (IF UnderWay(m)' THEN 1 ELSE 0) + (IF Kept(m)' THEN 1 ELSE 0)
  BY <1>4, <1>5, <1>6, <1>7 DEF RefsInv
<1>9. refs' \in [Messages -> Nat]
  BY <1>4, <1>8, CountsAreNats
<1> QED BY <1>3, <1>8, <1>9 DEF RefsInv

LEMMA DropReleases ==
  ASSUME FlowTypes, OnePlace, RefsInv, Still,
         NEW s \in Senders, DropGenerator(s)
  PROVE  RefsInv'
<1>1. PICK n \in Messages : n = generator[s] /\ n # NoBuffer
  BY DEF DropGenerator, FlowTypes, Buffers
<1>2. refs' = Release(refs, n) /\ generator' = [generator EXCEPT ![s] = NoBuffer]
  BY <1>1 DEF DropGenerator
<1>3. /\ refs' \in [Messages -> Int]
      /\ \A x \in Messages : refs'[x] = IF x = n THEN refs[x] - 1 ELSE refs[x]
  BY <1>2, ReleaseTakesOne DEF RefsInv
<1>4. \A t \in Senders :
        generator'[t] = IF t = s THEN NoBuffer ELSE generator[t]
  BY <1>2 DEF FlowTypes
<1>5. \A m \in Messages : Kept(m)' <=> Kept(m) /\ m # n
  BY <1>1, <1>4, ProgramAssumption DEF Kept, RefsInv
<1>6. \A m \in Messages : UnderWay(m)' <=> UnderWay(m)
  BY WaysStay
<1>7. Kept(n)
  BY <1>1 DEF Kept
<1>8. \A m \in Messages :
        refs'[m] = (IF UnderWay(m)' THEN 1 ELSE 0) + (IF Kept(m)' THEN 1 ELSE 0)
  BY <1>3, <1>5, <1>6, <1>7 DEF RefsInv
<1>9. refs' \in [Messages -> Nat]
  BY <1>3, <1>8, CountsAreNats
<1> QED BY <1>4, <1>8, <1>9 DEF RefsInv

\* The buffer a generator had goes to the write that is under way; the new one
\* is counted once for its write and once if the generator is kept.
LEMMA SendCounts ==
  ASSUME FlowTypes, SentInv, OnePlace, RefsInv,
         NEW s \in Senders, Sends(s, left[s][1]), Encode(s, left[s][1])
  PROVE  RefsInv'
<1>1. PICK n \in Messages :
        /\ n = left[s][1] /\ context[n] = "none"
        /\ Sends(s, n) /\ Encode(s, n)
  BY SentIsNew
<1>2. \A t \in Senders : generator[t] # n
  BY <1>1, ProgramAssumption DEF SentInv
<1>3. ~UnderWay(n) /\ \A m \in Messages : UnderWay(m)' <=> UnderWay(m) \/ m = n
  BY <1>1, SendsPlaces DEF OnePlace
<1> DEFINE fresh == [refs EXCEPT ![n] = 1]
           counts == Release(fresh, generator[s])
<1>4. /\ fresh \in [Messages -> Nat]
      /\ \A x \in Messages : fresh[x] = IF x = n THEN 1 ELSE refs[x]
  BY DEF RefsInv
<1>5. generator[s] \in Messages \cup {NoBuffer}
  BY DEF FlowTypes, Buffers
<1> HIDE DEF fresh
<1>6. /\ counts \in [Messages -> Int]
      /\ \A x \in Messages :
           counts[x] = IF x = generator[s] THEN fresh[x] - 1 ELSE fresh[x]
  BY <1>4, <1>5, ReleaseTakesOne
<1>7. IF s \in Keepers
        THEN generator' = [generator EXCEPT ![s] = n] /\ refs' = AddRef(counts, n)
        ELSE refs' = counts /\ UNCHANGED generator
  BY <1>1 DEF Encode, Reserve, Resize, fresh
<1> HIDE DEF counts
<1>8. CASE s \in Keepers
  <2>1. \A t \in Senders : generator'[t] = IF t = s THEN n ELSE generator[t]
    BY <1>7, <1>8 DEF FlowTypes
  <2>2. /\ refs' \in [Messages -> Int]
        /\ \A x \in Messages :
             refs'[x] = IF x = n THEN counts[x] + 1 ELSE counts[x]
    BY <1>6, <1>7, <1>8 DEF AddRef
  <2>3. \A m \in Messages : Kept(m)' <=> (Kept(m) /\ m # generator[s]) \/ m = n
    <3>1. ASSUME NEW m \in Messages, NEW t \in Senders, generator'[t] = m, m # n
          PROVE  t # s /\ generator[t] = m /\ m # generator[s]
      BY <2>1, <3>1, ProgramAssumption DEF RefsInv
    <3>2. ASSUME NEW m \in Messages, NEW t \in Senders,
                 generator[t] = m, m # generator[s]
          PROVE  generator'[t] = m
      BY <2>1, <3>2
    <3>3. generator'[s] = n
      BY <2>1
    <3> QED BY <3>1, <3>2, <3>3 DEF Kept
  <2>4. \A m \in Messages : m = generator[s] => Kept(m) /\ m # n
    BY <1>2 DEF Kept
  <2>5. \A m \in Messages :
          refs'[m] = (IF UnderWay(m)' THEN 1 ELSE 0)
                       + (IF Kept(m)' THEN 1 ELSE 0)
    <3> SUFFICES ASSUME NEW m \in Messages
                 PROVE  refs'[m] = (IF UnderWay(m)' THEN 1 ELSE 0)
                                     + (IF Kept(m)' THEN 1 ELSE 0)
      OBVIOUS
    <3>1. CASE m = n
      BY <1>2, <1>3, <1>4, <1>6, <2>2, <2>3, <3>1
    <3>2. CASE m # n
      BY <1>3, <1>4, <1>6, <2>2, <2>3, <2>4, <3>2 DEF RefsInv
    <3> QED BY <3>1, <3>2
  <2>6. refs' \in [Messages -> Nat]
    BY <2>2, <2>5, CountsAreNats
  <2>7. \A t, u \in Senders :
          generator'[t] # NoBuffer /\ generator'[t] = generator'[u] => t = u
    BY <1>2, <2>1 DEF RefsInv
  <2> QED BY <1>8, <2>1, <2>5, <2>6, <2>7 DEF RefsInv
<1>9. CASE s \notin Keepers
  <2>1. generator[s] = NoBuffer
    BY <1>9 DEF RefsInv
  <2>2. refs' = counts /\ UNCHANGED generator
    BY <1>7, <1>9
  <2>3. \A m \in Messages : Kept(m)' <=> Kept(m)
    BY <2>2 DEF Kept
  <2>4. ~Kept(n)
    BY <1>2 DEF Kept
  <2>5. \A x \in Messages : refs'[x] = IF x = n THEN 1 ELSE refs[x]
    BY <1>4, <1>6, <2>1, <2>2, ProgramAssumption
  <2>6. \A m \in Messages :
          refs'[m] = (IF UnderWay(m)' THEN 1 ELSE 0)
                       + (IF Kept(m)' THEN 1 ELSE 0)
    BY <1>3, <2>3, <2>4, <2>5 DEF RefsInv
  <2>7. refs' \in [Messages -> Nat]
    BY <1>6, <2>2, <2>6, CountsAreNats
  <2> QED BY <2>2, <2>6, <2>7 DEF RefsInv
<1> QED BY <1>8, <1>9

LEMMA NextRefsInv ==
  FlowTypes /\ SentInv /\ OnePlace /\ BytesInv /\ RefsInv /\ [Next]_vars
    => RefsInv'
<1> SUFFICES ASSUME FlowTypes, SentInv, OnePlace, BytesInv, RefsInv, [Next]_vars
             PROVE  RefsInv'
  OBVIOUS
<1>1. ASSUME UNCHANGED buffers,
             \A m \in Messages : UnderWay(m)' <=> UnderWay(m)
      PROVE  RefsInv'
  <2>1. UNCHANGED <<refs, generator>>
    BY <1>1 DEF buffers
  <2>2. \A m \in Messages : Kept(m)' <=> Kept(m)
    BY <2>1 DEF Kept
  <2>3. \A m \in Messages :
          refs'[m] = (IF UnderWay(m)' THEN 1 ELSE 0)
                       + (IF Kept(m)' THEN 1 ELSE 0)
    BY <1>1, <2>1, <2>2 DEF RefsInv
  <2> QED BY <2>1, <2>3 DEF RefsInv
<1> QED BY <1>1, BufferSteps, WaysStay, HandlerReleases, DropReleases, SendCounts

\* Every buffer counts exactly its references, so it is freed as soon as no
\* write and no generator has it, and never before.
THEOREM CountsAreReferences == Spec => []RefsInv
<1>1. ASSUME Init PROVE RefsInv
  <2>1. ASSUME NEW m \in Messages PROVE ~UnderWay(m) /\ ~Kept(m)
    BY <1>1, ProgramAssumption DEF Init, UnderWay, Kept, PostedBy, QueuedAt,
       StrandAt
  <2> QED BY <1>1, <2>1 DEF Init, RefsInv, Buffers
<1> QED BY <1>1, NextRefsInv, FlowTypesInvariance, SentInvariance,
        OnePlaceInvariance, BytesInvariance, PTL DEF Spec

\* The counts are natural numbers: no buffer is freed twice.
THEOREM WriterTypes == Spec => []TypeOK
<1>1. FlowTypes /\ RefsInv => TypeOK
  BY DEF FlowTypes, RefsInv, TypeOK, Buffers
<1> QED BY <1>1, FlowTypesInvariance, CountsAreReferences, PTL

\* A buffer lives, and holds its message, from the call of async_send to the
\* end of the handler of the write, and the wire gets the message it was
\* encoded for.
THEOREM BuffersLive == Spec => []BuffersOutliveTheirWrites
<1>1. FlowTypes /\ SentInv /\ BytesInv /\ RefsInv => BuffersOutliveTheirWrites
  <2> SUFFICES ASSUME FlowTypes, SentInv, BytesInv, RefsInv
               PROVE  BuffersOutliveTheirWrites
    OBVIOUS
  <2>1. ASSUME NEW p \in Pending
        PROVE  p.b = p.m /\ p.m \in Messages /\ context[p.m] # "none"
               /\ UnderWay(p.m)
    <3>1. CASE p \in ToSet(queue)
      <4>1. PICK i \in 1..Len(queue) : p = queue[i]
        BY <3>1 DEF ToSet, FlowTypes
      <4>2. i \in QueuedAt(p.m)
        BY <4>1 DEF QueuedAt
      <4> QED BY <4>1, <4>2, OnTheirWay DEF BytesInv, UnderWay
    <3>2. ASSUME NEW s \in Senders, p \in ToSet(posting[s])
          PROVE  p.b = p.m /\ p.m \in Messages /\ context[p.m] # "none"
                 /\ UnderWay(p.m)
      <4>1. PICK i \in 1..Len(posting[s]) : p = posting[s][i]
        BY <3>2 DEF ToSet, FlowTypes
      <4>2. Len(posting[s]) \in Nat /\ Len(posting[s]) <= 1 /\ posting[s] # <<>>
        BY <4>1 DEF FlowTypes
      <4>3. i = 1
        BY <4>1, <4>2
      <4>4. s \in PostedBy(p.m)
        BY <4>1, <4>2, <4>3 DEF PostedBy
      <4> QED BY <4>1, <4>2, <4>3, <4>4, OnTheirWay DEF BytesInv, UnderWay
    <3>3. CASE p \in {strand[i] : i \in {k \in DOMAIN strand :
                                           strand[k].op # "close"}}
      <4>1. PICK i \in 1..Len(strand) : p = strand[i] /\ strand[i].op # "close"
        <5>1. DOMAIN strand = 1..Len(strand)
          BY DEF FlowTypes
        <5> QED BY <3>3, <5>1
      <4>2. i \in StrandAt(p.m)
        BY <4>1 DEF StrandAt
      <4> QED BY <4>1, <4>2, OnTheirWay DEF BytesInv, UnderWay
    <3> QED BY <3>1, <3>2, <3>3 DEF Pending
  <2>2. ASSUME NEW p \in Pending PROVE refs[p.b] > 0 /\ bytes[p.b] = p.m
    BY <2>1, <2>2 DEF RefsInv, BytesInv
  <2>3. \A i \in DOMAIN wire : wire[i].bytes = wire[i].m
    <3>1. DOMAIN wire = 1..Len(wire)
      BY DEF FlowTypes
    <3> QED BY <3>1 DEF BytesInv
  <2> QED BY <2>2, <2>3 DEF BuffersOutliveTheirWrites
<1> QED BY <1>1, FlowTypesInvariance, SentInvariance, BytesInvariance,
        CountsAreReferences, PTL

=============================================================================
