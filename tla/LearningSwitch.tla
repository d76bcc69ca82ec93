--------------------------- MODULE LearningSwitch ---------------------------
(***************************************************************************)
(* The learning switch of examples/v13: what one channel's forwarding      *)
(* database learns from packet-ins, and the timer that ages it.  The timer *)
(* is in the channel's data, and the handler that waits on it holds the    *)
(* channel.  Everything runs in the channel's strand, one handler at a     *)
(* time; time passes in between, however late a handler is, and while      *)
(* age_out goes over the entries.                                          *)
(***************************************************************************)
EXTENDS Integers, FiniteSets

CONSTANTS
  Macs, Ports,
  Aging,       \* the 30 seconds an entry lasts
  Tick,        \* the second between two runs of age_out
  Delay,       \* the longest that age_out takes from one look at the clock
               \* to the next
  MaxTime,     \* bounds the clock
  Nothing      \* boost::none, no entry, all ports

ASSUME TimesAssumption ==
  /\ Aging \in Nat \ {0} /\ Tick \in Nat \ {0} /\ Delay \in Nat
  /\ MaxTime \in Nat
  /\ Nothing \notin Ports
  /\ Nothing \notin [port : Ports, agingTime : Int]

VARIABLES
  now,
  reader,      \* the message loop: "hello" to come, "serving", "goodbye" said
  fdb,
  timer,       \* timer_ is engaged
  waits,       \* the handlers of async_wait that have not run
  sent         \* the output port of the packet_out sent last

vars == <<now, reader, fdb, timer, waits, sent>>

Entries == [port : Ports, agingTime : Int]

Waits == [expiry : Int, queued : BOOLEAN, ok : BOOLEAN]

TypeOK ==
  /\ now \in Int
  /\ reader \in {"hello", "serving", "goodbye"}
  /\ fdb \in [Macs -> Entries \cup {Nothing}]
  /\ timer \in BOOLEAN
  /\ waits \subseteq Waits
  /\ sent \in Ports \cup {Nothing}

Init ==
  /\ now = 0 /\ reader = "hello"
  /\ fdb = [mac \in Macs |-> Nothing]
  /\ timer = FALSE /\ waits = {} /\ sent = Nothing

-----------------------------------------------------------------------------
(* forwarding_db                                                           *)

learn(mac, port) ==
  fdb' = [fdb EXCEPT ![mac] = [port |-> port, agingTime |-> now + Aging]]

\* The age of the entry does not matter.
get(mac) == IF fdb'[mac] = Nothing THEN Nothing ELSE fdb'[mac].port

\* Mutant: an entry whose time comes at this very moment is kept.
Expired_Strictly(mac) == fdb[mac] # Nothing /\ fdb[mac].agingTime < now

Expired(mac) == fdb[mac] # Nothing /\ fdb[mac].agingTime <= now

\* The clock is read twice: for the entries, and for the timer.  The wait that
\* has let this handler go is not among the waits any more.
age_out(others) ==
  \E delay \in 0 .. Delay :
    /\ now + delay <= MaxTime
    /\ now' = now + delay
    /\ fdb' = [mac \in Macs |-> IF Expired(mac) THEN Nothing ELSE fdb[mac]]
    /\ waits' =
         others \cup {[expiry |-> now' + Tick, queued |-> FALSE, ok |-> TRUE]}

\* The timer's destructor lets a handler go that still waits, with an error.
StopAgeOutTimer ==
  /\ timer' = FALSE
  /\ waits' = {IF w.queued THEN w
               ELSE [w EXCEPT !.queued = TRUE, !.ok = FALSE] : w \in waits}

-----------------------------------------------------------------------------
(* The handlers                                                            *)

HandleHello ==
  /\ reader = "hello"
  /\ reader' = "serving"
  /\ timer' = TRUE /\ age_out(waits)
  /\ UNCHANGED sent

HandlePacketIn(source, destination, port) ==
  /\ reader = "serving"
  /\ learn(source, port)
  /\ sent' = get(destination)
  /\ UNCHANGED <<now, reader, timer, waits>>

HandleGoodbye ==
  /\ reader = "serving"
  /\ reader' = "goodbye"
  /\ StopAgeOutTimer
  /\ UNCHANGED <<now, fdb, sent>>

\* Mutant: the handler goes by its error code.
WaitHandler_Unguarded ==
  \E w \in waits :
    /\ w.queued
    /\ IF w.ok THEN age_out(waits \ {w})
               ELSE waits' = waits \ {w} /\ UNCHANGED <<now, fdb>>
    /\ UNCHANGED <<reader, timer, sent>>

WaitHandler ==
  \E w \in waits :
    /\ w.queued
    /\ IF w.ok /\ timer THEN age_out(waits \ {w})
                        ELSE waits' = waits \ {w} /\ UNCHANGED <<now, fdb>>
    /\ UNCHANGED <<reader, timer, sent>>

\* The io_service finds that the timer has expired.
Expire ==
  \E w \in waits :
    /\ ~w.queued /\ w.expiry <= now
    /\ waits' = (waits \ {w}) \cup {[w EXCEPT !.queued = TRUE]}
    /\ UNCHANGED <<now, reader, fdb, timer, sent>>

PassTime ==
  /\ now < MaxTime
  /\ now' = now + 1
  /\ UNCHANGED <<reader, fdb, timer, waits, sent>>

Next ==
  \/ HandleHello \/ HandleGoodbye
  \/ \E source, destination \in Macs, port \in Ports :
       HandlePacketIn(source, destination, port)
  \/ WaitHandler \/ Expire \/ PassTime

Spec == Init /\ [][Next]_vars

\* The io_service runs what is queued.
FairSpec == Spec /\ WF_vars(WaitHandler) /\ WF_vars(Expire)

-----------------------------------------------------------------------------
(* Properties                                                              *)

\* While the timer is there the next run of age_out is under way, and comes,
\* if it is not late, less than a tick, and the time that the run before took,
\* after the time of any entry: no packet is sent by an entry that is older.
EntriesAgeOut ==
  timer =>
    \E w \in waits :
      /\ w.ok
      /\ \A mac \in Macs : fdb[mac] # Nothing =>
           w.expiry < fdb[mac].agingTime + Tick + Delay

\* The goodbye breaks the circle of channel, timer and handler, also when the
\* timer expires at that moment: nothing is left that holds the channel.
ChannelIsReleased == (reader = "goodbye") ~> (waits = {})

=============================================================================
