------------------------ MODULE LearningSwitch_proofs ------------------------
(***************************************************************************)
(* How old an entry of the learning switch can be, for every number of     *)
(* stations and ports, every age, tick and delay, and any bound of the     *)
(* clock.                                                                  *)
(***************************************************************************)
EXTENDS LearningSwitch, TLAPS

\* The next run of age_out: it is due within a tick, and before any entry is
\* a whole tick past its time, and as long as a run takes.
NextRun(w) ==
  /\ w.ok
  /\ w.expiry <= now + Tick
  /\ \A mac \in Macs : fdb[mac] # Nothing =>
       w.expiry < fdb[mac].agingTime + Tick + Delay

\* EntriesAgeOut alone is not inductive: an entry that is learned later must
\* not be due before the run that is under way.
RunUnderWay == timer => \E w \in waits : NextRun(w)

IInv == TypeOK /\ RunUnderWay

\* An entry is a record, and no record is Nothing.
LEMMA EntryTimes ==
  ASSUME TypeOK, NEW mac \in Macs, fdb[mac] # Nothing
  PROVE  fdb[mac] \in Entries /\ fdb[mac].agingTime \in Int
BY DEF TypeOK, Entries

\* A run of age_out starts the wait for the next one.
LEMMA AgeOutWaits ==
  ASSUME TypeOK, NEW others, others \subseteq waits, age_out(others)
  PROVE  /\ now' \in Int
         /\ fdb' \in [Macs -> Entries \cup {Nothing}]
         /\ waits' \subseteq Waits
         /\ \E w \in waits' : NextRun(w)'
<1>1. fdb' \in [Macs -> Entries \cup {Nothing}]
  BY DEF TypeOK, age_out
<1>6. PICK delay \in 0 .. Delay :
        /\ now' = now + delay
        /\ waits' = others \cup
                      {[expiry |-> now' + Tick, queued |-> FALSE, ok |-> TRUE]}
  BY DEF age_out
<1>7. now' \in Int /\ now' <= now + Delay
  BY <1>6, TimesAssumption DEF TypeOK
<1>2. PICK next \in Waits :
        /\ next.ok /\ next.expiry = now' + Tick
        /\ waits' = others \cup {next}
  <2>1. [expiry |-> now' + Tick, queued |-> FALSE, ok |-> TRUE] \in Waits
    BY <1>7, TimesAssumption DEF Waits
  <2> QED BY <1>6, <2>1
<1>3. waits' \subseteq Waits
  BY <1>2 DEF TypeOK
<1>4. ASSUME NEW mac \in Macs, fdb'[mac] # Nothing
      PROVE  now' + Tick < fdb'[mac].agingTime + Tick + Delay
  <2>1. fdb'[mac] = fdb[mac] /\ ~Expired(mac) /\ fdb[mac] # Nothing
    BY <1>4 DEF age_out
  <2>2. fdb[mac].agingTime > now
    BY <2>1, EntryTimes DEF Expired, TypeOK
  <2> QED BY <1>7, <2>1, <2>2, EntryTimes, TimesAssumption DEF TypeOK
<1>5. NextRun(next)'
  <2>1. next.ok /\ next.expiry <= now' + Tick
    BY <1>2, <1>7, TimesAssumption
  <2>2. \A mac \in Macs : fdb'[mac] # Nothing =>
          next.expiry < fdb'[mac].agingTime + Tick + Delay
    BY <1>2, <1>4
  <2> QED BY <2>1, <2>2 DEF NextRun
<1> QED BY <1>1, <1>2, <1>3, <1>5, <1>7 DEF NextRun

LEMMA InitIInv == Init => IInv
<1> SUFFICES ASSUME Init PROVE TypeOK /\ RunUnderWay
  BY DEF IInv
<1>1. ~timer /\ timer \in BOOLEAN
  BY DEF Init
<1>2. fdb \in [Macs -> Entries \cup {Nothing}]
  BY DEF Init
<1> QED BY <1>1, <1>2 DEF Init, TypeOK, RunUnderWay

LEMMA NextIInv == IInv /\ [Next]_vars => IInv'
<1> SUFFICES ASSUME TypeOK, RunUnderWay, [Next]_vars
             PROVE  TypeOK' /\ RunUnderWay'
  BY DEF IInv
<1> USE TimesAssumption
<1>1. CASE HandleHello
  <2>1. age_out(waits)
    BY <1>1 DEF HandleHello
  <2> QED BY <1>1, <2>1, AgeOutWaits DEF HandleHello, TypeOK, RunUnderWay
<1>2. ASSUME NEW source \in Macs, NEW destination \in Macs, NEW port \in Ports,
             HandlePacketIn(source, destination, port)
      PROVE  TypeOK' /\ RunUnderWay'
  <2> DEFINE entry == [port |-> port, agingTime |-> now + Aging]
  <2>1. entry \in Entries /\ entry.agingTime = now + Aging
    BY DEF Entries, TypeOK
  <2>2. /\ fdb' = [fdb EXCEPT ![source] = entry]
        /\ UNCHANGED <<now, reader, timer, waits>>
    BY <1>2 DEF HandlePacketIn, learn
  <2> HIDE DEF entry
  <2>3. fdb' \in [Macs -> Entries \cup {Nothing}]
    BY <2>1, <2>2 DEF TypeOK
  <2>4. sent' \in Ports \cup {Nothing}
    BY <1>2, <2>3 DEF HandlePacketIn, get, Entries
  <2>5. TypeOK'
    BY <2>2, <2>3, <2>4 DEF TypeOK
  <2>6. ASSUME NEW w \in waits, NextRun(w)
        PROVE  NextRun(w)'
    <3>1. ASSUME NEW mac \in Macs, fdb'[mac] # Nothing
          PROVE  w.expiry < fdb'[mac].agingTime + Tick + Delay
      <4>1. CASE mac = source
        <5>1. fdb'[mac] = entry /\ w.expiry \in Int
          BY <2>2, <4>1 DEF TypeOK, Waits
        <5> QED BY <2>1, <2>6, <5>1 DEF NextRun, TypeOK
      <4>2. CASE mac # source
        <5>1. fdb'[mac] = fdb[mac]
          BY <2>2, <4>2 DEF TypeOK
        <5> QED BY <2>6, <3>1, <5>1 DEF NextRun
      <4> QED BY <4>1, <4>2
    <3> QED BY <2>2, <2>6, <3>1 DEF NextRun
  <2> QED BY <2>2, <2>5, <2>6 DEF RunUnderWay
<1>3. CASE HandleGoodbye
  <2>1. waits' \subseteq Waits
    BY <1>3 DEF HandleGoodbye, StopAgeOutTimer, TypeOK, Waits
  <2> QED BY <1>3, <2>1 DEF HandleGoodbye, StopAgeOutTimer, TypeOK, RunUnderWay
<1>4. CASE WaitHandler
  <2>1. PICK w \in waits :
          /\ IF w.ok /\ timer THEN age_out(waits \ {w})
                              ELSE waits' = waits \ {w} /\ UNCHANGED <<now, fdb>>
          /\ UNCHANGED <<reader, timer, sent>>
    BY <1>4 DEF WaitHandler
  <2>2. CASE w.ok /\ timer
    <3>1. age_out(waits \ {w}) /\ waits \ {w} \subseteq waits
      BY <2>1, <2>2
    <3>2. /\ now' \in Int
          /\ fdb' \in [Macs -> Entries \cup {Nothing}]
          /\ waits' \subseteq Waits
          /\ \E v \in waits' : NextRun(v)'
      BY <3>1, AgeOutWaits
    <3> QED BY <2>1, <3>2 DEF TypeOK, RunUnderWay
  <2>3. CASE ~(w.ok /\ timer)
    <3>1. \A v : NextRun(v) => NextRun(v)'
      BY <2>1, <2>3 DEF NextRun
    <3>2. \A v : NextRun(v) /\ timer => v # w
      BY <2>3 DEF NextRun
    <3> QED BY <2>1, <2>3, <3>1, <3>2 DEF TypeOK, RunUnderWay
  <2> QED BY <2>2, <2>3
<1>5. CASE Expire
  <2>1. PICK w \in waits :
          /\ waits' = (waits \ {w}) \cup {[w EXCEPT !.queued = TRUE]}
          /\ UNCHANGED <<now, reader, fdb, timer, sent>>
    BY <1>5 DEF Expire
  <2> DEFINE queued == [w EXCEPT !.queued = TRUE]
  <2>2. queued \in Waits /\ queued.ok = w.ok /\ queued.expiry = w.expiry
    BY DEF TypeOK, Waits
  <2> HIDE DEF queued
  <2>3. \A v : NextRun(v) => NextRun(v)'
    BY <2>1 DEF NextRun
  <2>4. NextRun(w) => NextRun(queued)'
    BY <2>1, <2>2 DEF NextRun
  <2>5. waits' = (waits \ {w}) \cup {queued}
    BY <2>1 DEF queued
  <2>6. TypeOK'
    BY <2>1, <2>2, <2>5 DEF TypeOK
  <2>7. RunUnderWay'
    <3> SUFFICES ASSUME timer PROVE \E v \in waits' : NextRun(v)'
      BY <2>1 DEF RunUnderWay
    <3>1. PICK v \in waits : NextRun(v)
      BY DEF RunUnderWay
    <3>2. CASE v = w
      BY <2>4, <2>5, <3>1, <3>2
    <3>3. CASE v # w
      BY <2>3, <2>5, <3>1, <3>3
    <3> QED BY <3>2, <3>3
  <2> QED BY <2>6, <2>7
<1>6. CASE PassTime
  <2>1. now' = now + 1 /\ UNCHANGED <<reader, fdb, timer, waits, sent>>
    BY <1>6 DEF PassTime
  <2>2. \A w \in waits : NextRun(w) => NextRun(w)'
    BY <2>1 DEF NextRun, TypeOK, Waits
  <2> QED BY <2>1, <2>2 DEF TypeOK, RunUnderWay
<1>7. CASE UNCHANGED vars
  BY <1>7 DEF vars, TypeOK, RunUnderWay, NextRun
<1> QED BY <1>1, <1>2, <1>3, <1>4, <1>5, <1>6, <1>7 DEF Next

LEMMA Invariance == Spec => []IInv
<1> QED BY InitIInv, NextIInv, PTL DEF Spec

\* No packet leaves by an entry that is a tick and the time of a run or more
\* past its time, unless the strand itself is late: whatever is learned when,
\* and whenever the goodbye comes, the timer's next run is due before that.
THEOREM EntriesAreForgotten == Spec => []EntriesAgeOut
<1>1. IInv => EntriesAgeOut
  BY DEF IInv, RunUnderWay, NextRun, EntriesAgeOut
<1> QED BY <1>1, Invariance, PTL

=============================================================================
