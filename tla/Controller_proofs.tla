-------------------------- MODULE Controller_proofs --------------------------
(***************************************************************************)
(* Proofs about the pool of io_services and the controller over it, for    *)
(* any number of threads that use them and for pools of any size.          *)
(*                                                                         *)
(* The pool.  The mutex is held by whoever blocks in start or waits in     *)
(* reset (MutexIsHeld), and a thread that has been launched is known       *)
(* either by its future or, if a caller runs it itself, by the mutex that  *)
(* caller holds (ThreadsAreKnown).  So start, which takes the free mutex   *)
(* and finds no future, finds no thread either.                            *)
(*                                                                         *)
(* The controller.  It uses the pool as its specification demands          *)
(* (ControllerUsesPool), so what is proved of the pool holds in it.  Its   *)
(* own invariant, CInv, says what cannot have happened as long as there is *)
(* no reason to stop: no io_service is stopped, no thread has ended, and   *)
(* who launched the threads is still in run, with a work object.           *)
(***************************************************************************)
EXTENDS Controller, TLAPS

-----------------------------------------------------------------------------
(* The invariant of the pool                                               *)


PcOK == pc \in [Callers -> Places]

MutexOK == mutex \in Callers \cup {Nobody}

ThreadOK == thread \in [ThreadIds -> {"none", "launched", "running", "ended"}]

NextOK ==
  /\ next \in [Callers -> Nat]
  /\ \A c \in Callers : pc[c] \in {"reset", "join"} => next[c] = 0

StoppedOK == stopped \in [ServiceIds -> BOOLEAN]

CauseOK == cause \in BOOLEAN

MutexIsHeld == \A c \in Callers : pc[c] \in {"blocked", "join"} => mutex = c

Blocked == mutex \in Callers /\ pc[mutex] = "blocked"

ThreadsAreKnown ==
  \A i \in ThreadIds : thread[i] # "none" => i \in futures \/ (i = 0 /\ Blocked)

\* Enough for OneGenerationAtATime.
KInv == PcOK /\ MutexOK /\ ThreadOK /\ MutexIsHeld /\ ThreadsAreKnown

\* As long as start and reset have not overlapped, one caller at a time is in start or reset ...
OneInControl ==
  \A c, d \in Callers : pc[c] \in Control /\ pc[d] \in Control => c = d

\* ... so nothing is launched during the second half of reset ...
RestWhileRenewed ==
  \A c \in Callers : pc[c] = "renew" => \A i \in ThreadIds : thread[i] = "none"

\* ... and a stopped flag is either due to be cleared by that reset, or was
\* set after the wait of the last one.
StoppedForACause ==
  \A s \in ServiceIds : stopped[s] =>
    cause \/ \E c \in Callers : pc[c] = "renew" /\ next[c] <= s

EndedForACause == \A i \in ThreadIds : thread[i] = "ended" => cause

SInv ==
  /\ KInv
  /\ NextOK /\ StoppedOK /\ CauseOK
  /\ OneInControl
  /\ RestWhileRenewed
  /\ StoppedForACause
  /\ EndedForACause

\* Enough for RenewedWhenAtRest and RunsUntilStopped.
RInv == ~overlapped => SInv

-----------------------------------------------------------------------------
(* KInv                                                                    *)

LEMMA ThreadZero == 0 \in ThreadIds
BY SizeAssumption, SMT DEF ThreadIds

LEMMA KInvInit == Init => KInv
BY CallersAssumption DEF Init, KInv, PcOK, MutexOK, ThreadOK, MutexIsHeld,
                         ThreadsAreKnown, Places

\* A start or a reset that finds the mutex free, and a start that finds no
\* future, finds no thread.
LEMMA NothingRuns ==
  ASSUME KInv, mutex = Nobody, futures = {}
  PROVE  \A i \in ThreadIds : thread[i] = "none"
BY CallersAssumption DEF KInv, ThreadsAreKnown, Blocked

LEMMA KInvStep == KInv /\ [Next]_vars => KInv'
<1> SUFFICES ASSUME KInv, [Next]_vars
             PROVE  KInv'
    OBVIOUS
<1> USE CallersAssumption
<1> USE DEF KInv
<1>1. ASSUME NEW c \in Callers,
             NEW place \in {"start", "start_block", "stop", "reset"},
             Call(c, place)
      PROVE  KInv'
      BY <1>1 DEF Call, PcOK, MutexOK, ThreadOK, MutexIsHeld, ThreadsAreKnown,
                  Blocked, Places
<1>2. ASSUME NEW c \in Callers, StartRefused(c)
      PROVE  KInv'
      BY <1>2 DEF StartRefused, PcOK, MutexOK, ThreadOK, MutexIsHeld,
                  ThreadsAreKnown, Blocked, Places
<1>3. ASSUME NEW c \in Callers, Launch(c)
      PROVE  KInv'
  <2>1. thread' = [i \in ThreadIds |-> "launched"]
        BY <1>3 DEF Launch
  <2>2. CASE pc[c] = "start_block"
    <3>1. /\ futures' = ThreadIds \ {0}
          /\ pc' = [pc EXCEPT ![c] = "blocked"] /\ mutex' = c
          BY <1>3, <2>2 DEF Launch
    <3>2. mutex = Nobody
          BY <1>3 DEF Launch
    <3>3. Blocked'
          BY <3>1 DEF Blocked, PcOK
    <3>4. QED
          BY <2>1, <3>1, <3>2, <3>3
          DEF PcOK, MutexOK, ThreadOK, MutexIsHeld, ThreadsAreKnown, Places
  <2>3. CASE pc[c] = "start"
    <3>1. /\ futures' = ThreadIds
          /\ pc' = [pc EXCEPT ![c] = "idle"] /\ UNCHANGED mutex
          BY <1>3, <2>3 DEF Launch
    <3>2. QED
          BY <2>1, <3>1
          DEF PcOK, MutexOK, ThreadOK, MutexIsHeld, ThreadsAreKnown, Places
  <2>4. QED
        BY <1>3, <2>2, <2>3 DEF Launch
<1>4. ASSUME NEW c \in Callers, LaunchFails(c)
      PROVE  KInv'
  <2>1. /\ pc' = [pc EXCEPT ![c] = "idle"] /\ UNCHANGED mutex
        /\ mutex = Nobody /\ futures = {}
        /\ thread' = [i \in ThreadIds |-> IF i \in futures' THEN "launched"
                                                            ELSE thread[i]]
        BY <1>4 DEF LaunchFails
  <2>2. \A i \in ThreadIds : thread[i] = "none"
        BY <2>1, NothingRuns
  <2>3. QED
        BY <2>1, <2>2 DEF PcOK, MutexOK, ThreadOK, MutexIsHeld, ThreadsAreKnown,
                          Places
<1>5. ASSUME NEW c \in Callers, StartReturns(c)
      PROVE  KInv'
  <2>1. mutex = c
        BY <1>5 DEF StartReturns, MutexIsHeld
  <2>2. QED
        BY <1>5, <2>1, ThreadZero
        DEF StartReturns, PcOK, MutexOK, ThreadOK, MutexIsHeld, ThreadsAreKnown,
            Blocked, Places
<1>6. ASSUME NEW c \in Callers, StopOne(c)
      PROVE  KInv'
      BY <1>6 DEF StopOne, PcOK, MutexOK, ThreadOK, MutexIsHeld,
                  ThreadsAreKnown, Blocked, Places
<1>7. ASSUME NEW c \in Callers, LockReset(c)
      PROVE  KInv'
      BY <1>7 DEF LockReset, PcOK, MutexOK, ThreadOK, MutexIsHeld,
                  ThreadsAreKnown, Blocked, Places
<1>8. ASSUME NEW c \in Callers, Join(c)
      PROVE  KInv'
  <2>1. mutex = c /\ ~Blocked
        BY <1>8 DEF Join, MutexIsHeld, Blocked
  <2>2. \A i \in ThreadIds : thread'[i] = "none"
        BY <1>8, <2>1 DEF Join, ThreadsAreKnown, ThreadOK
  <2>3. QED
        BY <1>8, <2>1, <2>2
        DEF Join, PcOK, MutexOK, ThreadOK, MutexIsHeld, ThreadsAreKnown, Places
<1>9. ASSUME NEW c \in Callers, RenewOne(c)
      PROVE  KInv'
  <2>1. /\ pc[c] = "renew"
        /\ pc' = [pc EXCEPT ![c] = "idle"] \/ pc' = pc
        /\ UNCHANGED <<mutex, futures, thread>>
        BY <1>9 DEF RenewOne
  <2>2. QED
        BY <2>1 DEF PcOK, MutexOK, ThreadOK, MutexIsHeld, ThreadsAreKnown,
                    Blocked, Places
<1>10. ASSUME NEW i \in ThreadIds, ThreadStep(i)
       PROVE  KInv'
  <2>1. /\ thread[i] \in {"launched", "running"}
        /\ \/ thread' = [thread EXCEPT ![i] = "ended"]
           \/ thread' = [thread EXCEPT ![i] = "running"]
        /\ UNCHANGED <<pc, mutex, futures>>
        BY <1>10 DEF ThreadStep, EnterRun, LeaveRun, HandlerThrows, RunOutOfWork
  <2>2. QED
        BY <2>1 DEF PcOK, MutexOK, ThreadOK, MutexIsHeld, ThreadsAreKnown, Blocked
<1>11. CASE ChangeWork
       BY <1>11 DEF ChangeWork, PcOK, MutexOK, ThreadOK, MutexIsHeld,
                    ThreadsAreKnown, Blocked
<1>12. CASE Destroy
       BY <1>12 DEF Destroy, PcOK, MutexOK, ThreadOK, MutexIsHeld,
                    ThreadsAreKnown, Blocked
<1>13. CASE DestroyMembers
       BY <1>13 DEF DestroyMembers, PcOK, MutexOK, ThreadOK, MutexIsHeld,
                    ThreadsAreKnown, Blocked
<1>14. CASE UNCHANGED vars
       BY <1>14 DEF vars, PcOK, MutexOK, ThreadOK, MutexIsHeld, ThreadsAreKnown,
                    Blocked
<1>15. QED
       BY <1>1, <1>2, <1>3, <1>4, <1>5, <1>6, <1>7, <1>8, <1>9, <1>10, <1>11,
          <1>12, <1>13, <1>14 DEF Next, CallerStep

LEMMA KInvHolds == Spec => []KInv
BY KInvInit, KInvStep, PTL DEF Spec

-----------------------------------------------------------------------------
(* OneGenerationAtATime                                                    *)

\* Only start launches threads.
LEMMA OnlyStartLaunches ==
  ASSUME [Next]_vars, KInv, NEW i \in ThreadIds,
         thread[i] # "launched", thread'[i] = "launched"
  PROVE  mutex = Nobody /\ futures = {}
<1> USE DEF KInv
<1>1. ASSUME NEW c \in Callers, CallerStep(c)
      PROVE  mutex = Nobody /\ futures = {}
  <2>1. CASE StartReturns(c)
        BY <2>1 DEF StartReturns, ThreadOK
  <2>2. CASE Join(c)
        BY <2>2 DEF Join, ThreadOK
  <2>3. QED
        BY <1>1, <2>1, <2>2 DEF CallerStep, StartRefused, Launch, LaunchFails,
                                StopOne, LockReset, RenewOne
<1>2. ASSUME NEW j \in ThreadIds, ThreadStep(j)
      PROVE  FALSE
      BY <1>2 DEF ThreadStep, EnterRun, LeaveRun, HandlerThrows, RunOutOfWork,
                  ThreadOK
<1>3. QED
      BY <1>1, <1>2 DEF Next, vars, Call, ChangeWork, Destroy, DestroyMembers

\* A new generation of threads is launched only when the last one is gone,
\* whatever calls of start, stop and reset overlap.
THEOREM Generations == Spec => OneGenerationAtATime
<1>1. KInv /\ [Next]_vars
      => [(\E i \in ThreadIds : thread[i] # "launched" /\ thread'[i] = "launched")
          => Active = {}]_vars
      BY OnlyStartLaunches, NothingRuns DEF Active
<1>2. QED
      BY <1>1, KInvHolds, PTL DEF Spec, OneGenerationAtATime

-----------------------------------------------------------------------------
(* RInv                                                                    *)

\* A thread runs one of the io_services.
LEMMA ThreadsService == \A i \in ThreadIds : ServiceOf(i) \in ServiceIds
<1>1. ASSUME NEW i \in ThreadIds
      PROVE  ServiceOf(i) \in ServiceIds
  <2> DEFINE q == i \div ThreadsPer
  <2>1. /\ i \in Nat /\ Services \in Nat \ {0} /\ ThreadsPer \in Nat \ {0}
        /\ i < Services * ThreadsPer
        BY SizeAssumption, SMT DEF ThreadIds
  <2>2. q \in Nat /\ q * ThreadsPer <= i
        BY <2>1, SMTT(30)
  <2>3. q < Services
    <3>1. ASSUME Services <= q
          PROVE  FALSE
      <4> HIDE DEF q
      <4>1. Services * ThreadsPer <= q * ThreadsPer
            BY <2>1, <2>2, <3>1, SMTT(30)
      <4>2. QED
            BY <2>1, <2>2, <4>1, SMTT(30)
    <3>2. QED
          BY <2>1, <2>2, <3>1
  <2>4. QED
        BY <2>1, <2>2, <2>3 DEF ServiceOf, ServiceIds
<1>2. QED
      BY <1>1

LEMMA SInvInit == Init => SInv
<1>1. ASSUME Init
      PROVE  /\ NextOK /\ StoppedOK /\ CauseOK
             /\ OneInControl /\ RestWhileRenewed
             /\ StoppedForACause /\ EndedForACause
      BY <1>1, SizeAssumption
      DEF Init, NextOK, StoppedOK, CauseOK, OneInControl, RestWhileRenewed,
          StoppedForACause, EndedForACause, Control
<1>2. QED
      BY <1>1, KInvInit DEF SInv

LEMMA SInvStep == ~overlapped' /\ SInv /\ [Next]_vars => SInv'
<1> SUFFICES ASSUME ~overlapped', SInv, [Next]_vars
             PROVE  SInv'
    OBVIOUS
<1> USE CallersAssumption, SizeAssumption
<1>k. KInv /\ KInv'
      BY KInvStep DEF SInv
<1>p. PcOK /\ ThreadOK
      BY <1>k DEF KInv
<1>i. /\ NextOK /\ StoppedOK /\ CauseOK /\ OneInControl /\ RestWhileRenewed
      /\ StoppedForACause /\ EndedForACause
      BY DEF SInv
<1> SUFFICES /\ NextOK' /\ StoppedOK' /\ CauseOK' /\ OneInControl'
             /\ RestWhileRenewed' /\ StoppedForACause' /\ EndedForACause'
    BY <1>k DEF SInv
<1> USE <1>p, <1>i
<1> USE DEF PcOK, ThreadOK, NextOK, StoppedOK, CauseOK
<1>1. ASSUME NEW c \in Callers,
             NEW place \in {"start", "start_block", "stop", "reset"},
             Call(c, place)
      PROVE  SInv'
  <2>1. NextOK' /\ StoppedOK' /\ CauseOK'
        BY <1>1 DEF Call, ServiceIds
  <2>2. OneInControl'
        BY <1>1 DEF Call, OneInControl, Control
  <2>3. RestWhileRenewed'
        BY <1>1 DEF Call, RestWhileRenewed
  <2>4. StoppedForACause' /\ EndedForACause'
        BY <1>1 DEF Call, StoppedForACause, EndedForACause
  <2>5. QED
        BY <1>k, <2>1, <2>2, <2>3, <2>4 DEF SInv
<1>2. ASSUME NEW c \in Callers, StartRefused(c)
      PROVE  SInv'
  <2>1. /\ pc[c] \in {"start", "start_block"} /\ pc' = [pc EXCEPT ![c] = "idle"]
        /\ UNCHANGED <<next, thread, stopped, cause>>
        BY <1>2 DEF StartRefused
  <2>2. NextOK' /\ StoppedOK' /\ CauseOK' /\ OneInControl'
        BY <2>1 DEF OneInControl, Control
  <2>3. RestWhileRenewed' /\ StoppedForACause' /\ EndedForACause'
        BY <2>1 DEF RestWhileRenewed, StoppedForACause, EndedForACause
  <2>4. QED
        BY <1>k, <2>2, <2>3 DEF SInv
<1>3. ASSUME NEW c \in Callers, Launch(c) \/ LaunchFails(c)
      PROVE  SInv'
  <2>1. /\ pc[c] \in {"start", "start_block"} /\ mutex = Nobody /\ futures = {}
        /\ \/ pc' = [pc EXCEPT ![c] = "idle"]
           \/ pc' = [pc EXCEPT ![c] = "blocked"]
        /\ UNCHANGED <<next, stopped, cause>>
        BY <1>3 DEF Launch, LaunchFails
  <2>2. \A i \in ThreadIds : thread[i] = "none"
        BY <1>k, <2>1, NothingRuns
  <2>3. \A i \in ThreadIds : thread'[i] # "ended"
        BY <1>3, <2>2 DEF Launch, LaunchFails
  <2>4. \A d \in Callers : pc'[d] # "renew"
        BY <2>1 DEF OneInControl, Control
  <2>5. \A d \in Callers : pc[d] # "renew"
        BY <2>1 DEF OneInControl, Control
  <2>6. NextOK' /\ StoppedOK' /\ CauseOK' /\ OneInControl'
        BY <2>1 DEF OneInControl, Control
  <2>7. StoppedForACause'
        BY <2>1, <2>5 DEF StoppedForACause
  <2>8. RestWhileRenewed' /\ EndedForACause'
        BY <2>3, <2>4 DEF RestWhileRenewed, EndedForACause
  <2>9. QED
        BY <1>k, <2>6, <2>7, <2>8 DEF SInv
<1>4. ASSUME NEW c \in Callers, StartReturns(c)
      PROVE  SInv'
  <2>1. /\ pc[c] = "blocked" /\ pc' = [pc EXCEPT ![c] = "idle"]
        /\ thread' = [thread EXCEPT ![0] = "none"]
        /\ UNCHANGED <<next, stopped, cause>>
        BY <1>4 DEF StartReturns
  <2>2. NextOK' /\ StoppedOK' /\ CauseOK' /\ OneInControl'
        BY <2>1 DEF OneInControl, Control
  <2>3. RestWhileRenewed' /\ StoppedForACause' /\ EndedForACause'
        BY <2>1, ThreadZero
        DEF RestWhileRenewed, StoppedForACause, EndedForACause
  <2>4. QED
        BY <1>k, <2>2, <2>3 DEF SInv
<1>5. ASSUME NEW c \in Callers, StopOne(c)
      PROVE  SInv'
  <2>1. /\ pc[c] = "stop" /\ cause' = TRUE /\ UNCHANGED thread
        /\ stopped' = [stopped EXCEPT ![next[c]] = TRUE]
        /\ next' = [next EXCEPT ![c] = @ + 1]
        /\ pc' = [pc EXCEPT ![c] = "idle"] \/ pc' = pc
        BY <1>5 DEF StopOne
  <2>n. NextOK'
        BY <2>1
  <2>2. StoppedOK' /\ CauseOK' /\ OneInControl'
        BY <2>1 DEF OneInControl, Control
  <2>3. RestWhileRenewed' /\ StoppedForACause' /\ EndedForACause'
        BY <2>1 DEF RestWhileRenewed, StoppedForACause, EndedForACause
  <2>4. QED
        BY <1>k, <2>n, <2>2, <2>3 DEF SInv
<1>6. ASSUME NEW c \in Callers, LockReset(c)
      PROVE  SInv'
  <2>1. /\ pc[c] = "reset" /\ pc' = [pc EXCEPT ![c] = "join"]
        /\ UNCHANGED <<next, thread, stopped, cause>>
        BY <1>6 DEF LockReset
  <2>2. NextOK' /\ StoppedOK' /\ CauseOK' /\ OneInControl'
        BY <2>1 DEF OneInControl, Control
  <2>3. RestWhileRenewed' /\ StoppedForACause' /\ EndedForACause'
        BY <2>1 DEF RestWhileRenewed, StoppedForACause, EndedForACause
  <2>4. QED
        BY <1>k, <2>2, <2>3 DEF SInv
<1>7. ASSUME NEW c \in Callers, Join(c)
      PROVE  SInv'
  <2>1. /\ pc[c] = "join" /\ pc' = [pc EXCEPT ![c] = "renew"] /\ cause' = FALSE
        /\ UNCHANGED <<next, stopped>>
        BY <1>7 DEF Join
  <2>2. mutex = c /\ ~Blocked
        BY <1>k, <2>1 DEF KInv, MutexIsHeld, Blocked
  <2>3. \A i \in ThreadIds : thread'[i] = "none"
        BY <1>k, <1>7, <2>2 DEF Join, KInv, ThreadsAreKnown
  <2>4. NextOK' /\ StoppedOK' /\ CauseOK' /\ OneInControl'
        BY <2>1 DEF OneInControl, Control
  <2>5. next'[c] = 0 /\ pc'[c] = "renew"
        BY <2>1
  <2>6. StoppedForACause'
        BY <2>5 DEF StoppedForACause, ServiceIds
  <2>7. RestWhileRenewed' /\ EndedForACause'
        BY <2>3 DEF RestWhileRenewed, EndedForACause
  <2>8. QED
        BY <1>k, <2>4, <2>6, <2>7 DEF SInv
<1>8. ASSUME NEW c \in Callers, RenewOne(c)
      PROVE  SInv'
  <2>1. /\ pc[c] = "renew" /\ UNCHANGED <<thread, cause>>
        /\ stopped' = [stopped EXCEPT ![next[c]] = FALSE]
        /\ next' = [next EXCEPT ![c] = @ + 1]
        /\ \/ pc' = [pc EXCEPT ![c] = "idle"] /\ next'[c] = Services
           \/ pc' = pc
        BY <1>8 DEF RenewOne
  <2>2. StoppedOK' /\ CauseOK' /\ OneInControl'
        BY <2>1 DEF OneInControl, Control
  <2>3. NextOK'
        BY <2>1
  <2>4. \A d \in Callers : pc[d] = "renew" => d = c
        BY <2>1 DEF OneInControl, Control
  <2>5. ASSUME NEW s \in ServiceIds, stopped'[s], ~cause
        PROVE  pc'[c] = "renew" /\ next'[c] <= s
    <3>1. stopped[s] /\ s # next[c]
          BY <2>1, <2>5
    <3>2. next[c] <= s
          BY <2>4, <2>5, <3>1 DEF StoppedForACause
    <3>3. next'[c] <= s /\ s < Services
          BY <2>1, <3>1, <3>2 DEF ServiceIds
    <3>4. QED
          BY <2>1, <3>3 DEF ServiceIds
  <2>6. StoppedForACause'
        BY <2>1, <2>5 DEF StoppedForACause
  <2>7. RestWhileRenewed' /\ EndedForACause'
        BY <2>1 DEF RestWhileRenewed, EndedForACause
  <2>8. QED
        BY <1>k, <2>2, <2>3, <2>6, <2>7 DEF SInv
<1>9. ASSUME NEW i \in ThreadIds, ThreadStep(i)
      PROVE  SInv'
  <2>1. thread[i] # "none" /\ UNCHANGED <<pc, next>>
        BY <1>9 DEF ThreadStep, EnterRun, LeaveRun, HandlerThrows, RunOutOfWork
  <2>2. \A c \in Callers : pc[c] # "renew"
        BY <2>1 DEF RestWhileRenewed
  <2>3. /\ \/ UNCHANGED stopped
           \/ stopped' = [stopped EXCEPT ![ServiceOf(i)] = TRUE] /\ cause'
        /\ cause' = cause \/ cause' = TRUE
        BY <1>9 DEF ThreadStep, EnterRun, LeaveRun, HandlerThrows, RunOutOfWork
  <2>4. NextOK' /\ StoppedOK' /\ CauseOK' /\ OneInControl' /\ RestWhileRenewed'
        BY <2>1, <2>2, <2>3 DEF OneInControl, RestWhileRenewed
  <2>5. StoppedForACause'
        BY <2>1, <2>2, <2>3 DEF StoppedForACause
  <2>6. \/ thread' = [thread EXCEPT ![i] = "running"] /\ UNCHANGED cause
        \/ thread' = [thread EXCEPT ![i] = "ended"] /\ cause'
    <3>1. CASE EnterRun(i) \/ LeaveRun(i)
      <4>1. stopped[ServiceOf(i)] => cause
            BY <2>2, ThreadsService DEF StoppedForACause
      <4>2. QED
            BY <3>1, <4>1 DEF EnterRun, LeaveRun
    <3>2. CASE HandlerThrows(i) \/ RunOutOfWork(i)
          BY <3>2 DEF HandlerThrows, RunOutOfWork
    <3>3. QED
          BY <1>9, <3>1, <3>2 DEF ThreadStep
  <2>7. EndedForACause'
        BY <2>6 DEF EndedForACause
  <2>8. QED
        BY <1>k, <2>4, <2>5, <2>7 DEF SInv
<1>10. CASE ChangeWork
       BY <1>k, <1>10 DEF SInv, ChangeWork, OneInControl, RestWhileRenewed,
                          StoppedForACause, EndedForACause
<1>11. CASE Destroy
  <2>1. /\ cause' = TRUE /\ UNCHANGED <<pc, next, thread>>
        /\ stopped' = [s \in ServiceIds |-> TRUE]
        BY <1>11 DEF Destroy
  <2>2. QED
        BY <1>k, <2>1 DEF SInv, OneInControl, RestWhileRenewed,
                          StoppedForACause, EndedForACause
<1>12. CASE DestroyMembers
  <2>1. /\ UNCHANGED <<pc, next, stopped, cause>>
        /\ thread' = [i \in ThreadIds |-> "none"]
        BY <1>12 DEF DestroyMembers
  <2>2. QED
        BY <1>k, <2>1 DEF SInv, OneInControl, RestWhileRenewed,
                          StoppedForACause, EndedForACause
<1>13. CASE UNCHANGED vars
       BY <1>k, <1>13 DEF SInv, vars, OneInControl, RestWhileRenewed,
                          StoppedForACause, EndedForACause
<1>14. QED
       BY <1>1, <1>2, <1>3, <1>4, <1>5, <1>6, <1>7, <1>8, <1>9, <1>10, <1>11,
          <1>12, <1>13 DEF Next, CallerStep, SInv

LEMMA RInvHolds == Spec => []RInv
<1>1. overlapped /\ [Next]_vars => overlapped'
  <2> SUFFICES ASSUME overlapped, [Next]_vars
               PROVE  overlapped'
      OBVIOUS
  <2>1. ASSUME NEW c \in Callers, CallerStep(c)
        PROVE  overlapped'
        BY <2>1 DEF CallerStep, StartRefused, Launch, LaunchFails, StartReturns,
                    StopOne, LockReset, Join, RenewOne
  <2>2. ASSUME NEW i \in ThreadIds, ThreadStep(i)
        PROVE  overlapped'
        BY <2>2
        DEF ThreadStep, EnterRun, LeaveRun, HandlerThrows, RunOutOfWork
  <2>3. QED
        BY <2>1, <2>2
        DEF Next, Call, ChangeWork, Destroy, DestroyMembers, vars
<1>2. Init => RInv
      BY SInvInit DEF RInv
<1>3. RInv /\ [Next]_vars => RInv'
      BY <1>1, SInvStep DEF RInv
<1>4. QED
      BY <1>2, <1>3, PTL DEF Spec

\* As long as start and reset have not overlapped, a thread of the pool runs
\* until there is a cause to stop.
THEOREM RunsLast == Spec => []RunsUntilStopped
<1>1. RInv => RunsUntilStopped
      BY DEF RInv, SInv, EndedForACause, RunsUntilStopped
<1>2. QED
      BY <1>1, RInvHolds, PTL

\* As long as start and reset have not overlapped, no io_service is reset under
\* a run.
THEOREM RenewalsAreSafe == Spec => RenewedWhenAtRest
<1>1. RInv /\ [Next]_vars
      => [~overlapped => \A s \in ServiceIds :
            stopped[s] /\ ~stopped'[s] => \A i \in Active : ServiceOf(i) # s]_vars
  <2>1. ASSUME SInv, Next, NEW s \in ServiceIds, stopped[s], ~stopped'[s]
        PROVE  Active = {}
    <3> USE DEF SInv, StoppedOK
    <3>1. ASSUME NEW c \in Callers, RenewOne(c)
          PROVE  Active = {}
          BY <2>1, <3>1 DEF RenewOne, RestWhileRenewed, Active
    <3>2. ASSUME NEW c \in Callers, StopOne(c)
          PROVE  FALSE
          BY <2>1, <3>2 DEF StopOne
    <3>3. ASSUME NEW i \in ThreadIds, ThreadStep(i)
          PROVE  FALSE
          BY <2>1, <3>3
          DEF ThreadStep, EnterRun, LeaveRun, HandlerThrows, RunOutOfWork
    <3>4. CASE Destroy
          BY <2>1, <3>4 DEF Destroy
    <3>5. QED
          BY <2>1, <3>1, <3>2, <3>3, <3>4
          DEF Next, CallerStep, Call, StartRefused, Launch, LaunchFails,
              StartReturns, LockReset, Join, ChangeWork, DestroyMembers
  <2>2. QED
        BY <2>1 DEF RInv
<1>2. QED
      BY <1>1, RInvHolds, PTL DEF Spec, RenewedWhenAtRest

-----------------------------------------------------------------------------
(* The invariant of the controller                                         *)

AtOK == at \in [Callers -> Sites]

\* What a caller does in the pool is what it came from the controller for.
CallsMatch ==
  \A c \in Callers :
    /\ pc[c] \in {"idle", "start", "start_block", "blocked", "stop"}
    /\ pc[c] \in {"start", "start_block", "blocked"} => at[c] = "in_pool"
    /\ pc[c] = "start" => own_io_service
    /\ pc[c] = "stop" => at[c] = "stopping"

RunsListen ==
  \A c \in Callers : c \in Running \/ at[c] = "make_work" => listening

WorkIsHeld == Running # {} => work

NoReasonYet ==
  /\ ~io_stopped
  /\ \A c \in Callers : at[c] \notin {"leaving", "stopping"}
  /\ \A s \in ServiceIds : ~stopped[s]
  /\ \A i \in ThreadIds : thread[i] # "ended"
  /\ Running = {} => \A i \in ThreadIds : thread[i] = "none"
  /\ ~own_io_service => /\ futures # {} => Blocked
                      /\ \A c \in Callers : at[c] = "in_pool" => pc[c] # "idle"

CInv ==
  /\ KInv /\ StoppedOK /\ AtOK
  /\ life = "alive" /\ work \in BOOLEAN
  /\ CallsMatch /\ RunsListen /\ WorkIsHeld
  /\ OneAcceptWhileListening
  /\ reason \/ NoReasonYet

-----------------------------------------------------------------------------
(* The controller and its pool                                             *)

\* Every step of the controller is one of the pool, or none.
LEMMA StepsOfThePool ==
  ASSUME life = "alive", work \in BOOLEAN, [ControllerNext]_allvars
  PROVE  [Next]_vars
<1>1. ASSUME NEW c \in Callers, Enter(c) \/ ControllerStep(c) \/ OwnRunThrows(c)
      PROVE  [Next]_vars
  <2>1. CASE RunPool(c) \/ Stop(c)
        BY <2>1 DEF RunPool, Stop, Next
  <2>2. CASE MakeWork(c) \/ RunReturns(c) \/ RunThrows(c) \/ OwnRunReturns(c)
             \/ OwnRunThrows(c)
    <3>1. /\ work' \in BOOLEAN
          /\ UNCHANGED <<pc, next, mutex, futures, thread, stopped, life, calls,
                         dirty, overlapped, cause>>
          BY <2>2 DEF MakeWork, RunReturns, RunThrows, OwnRunReturns,
                      OwnRunThrows, LeaveControllerRun
    <3>2. CASE work' = work
          BY <3>1, <3>2 DEF vars
    <3>3. CASE work' = ~work
          BY <3>1, <3>3 DEF ChangeWork, Next
    <3>4. QED
          BY <3>1, <3>2, <3>3
  <2>3. CASE PoolStep(c) \/ RunPoolThrows(c)
        BY <2>3 DEF PoolStep, RunPoolThrows, CallerStep, Next
  <2>4. CASE \/ Enter(c) \/ Listen(c) \/ RunOwnIoService(c) \/ StopReturned(c)
             \/ StopTooEarly(c)
        BY <2>4 DEF Enter, Listen, RunOwnIoService, StopReturned, StopTooEarly
  <2>5. QED
        BY <1>1, <2>1, <2>2, <2>3, <2>4 DEF ControllerStep
<1>2. ASSUME NEW i \in ThreadIds,
             PoolThreadStep(i) \/ PoolHandlerThrows(i) \/ PoolRunsOutOfWork(i)
      PROVE  [Next]_vars
      BY <1>2 DEF PoolThreadStep, PoolHandlerThrows, PoolRunsOutOfWork,
                  ThreadStep, Next
<1>3. QED
      BY <1>1, <1>2 DEF ControllerNext, HandleAccept, allvars

LEMMA CInvInit == ControllerInit => CInv
<1>1. ASSUME ControllerInit
      PROVE  CInv
  <2>1. KInv
        BY <1>1, KInvInit DEF ControllerInit
  <2>2. StoppedOK /\ AtOK /\ life = "alive" /\ work \in BOOLEAN /\ CallsMatch
        BY <1>1 DEF ControllerInit, Init, StoppedOK, AtOK, Sites, CallsMatch
  <2>3. Running = {}
        BY <1>1 DEF ControllerInit, Running
  <2>4. RunsListen /\ WorkIsHeld /\ OneAcceptWhileListening
        BY <1>1, <2>3
        DEF ControllerInit, RunsListen, WorkIsHeld, OneAcceptWhileListening
  <2>5. NoReasonYet
        BY <1>1 DEF ControllerInit, Init, NoReasonYet
  <2>6. QED
        BY <2>1, <2>2, <2>4, <2>5 DEF CInv
<1>2. QED
      BY <1>1

\* A step in which neither the pool nor a reason changes, and nobody comes
\* into or out of a run.
LEMMA QuietStep ==
  ASSUME CInv, UNCHANGED vars, AtOK',
         UNCHANGED <<own_io_service, accepts, listening, io_stopped, reason>>,
         \A c \in Callers :
           \/ at'[c] = at[c]
           \/ /\ pc[c] = "idle"
              /\ at[c] \in {"out", "listen", "run", "stop", "stopping"}
              /\ at'[c] \in {"out", "listen", "run", "stop"}
  PROVE  CInv'
<1> USE DEF CInv
<1>1. KInv' /\ StoppedOK' /\ life' = "alive" /\ work' \in BOOLEAN
      BY DEF vars, KInv, PcOK, MutexOK, ThreadOK, MutexIsHeld, ThreadsAreKnown,
             Blocked, StoppedOK
<1>2. CallsMatch'
      BY DEF vars, CallsMatch
<1>3. Running' = Running
      BY DEF Running
<1>4. RunsListen'
      BY <1>3 DEF RunsListen
<1>5. WorkIsHeld' /\ OneAcceptWhileListening'
      BY <1>3 DEF WorkIsHeld, vars, OneAcceptWhileListening
<1>6. NoReasonYet => NoReasonYet'
      BY <1>3 DEF NoReasonYet, vars, Blocked
<1>7. QED
      BY <1>1, <1>2, <1>4, <1>5, <1>6

\* A run ends, for a reason that there is already or that comes with it.
LEMMA LeavingStep ==
  ASSUME CInv, NEW c \in Callers, c \in Running, LeaveControllerRun(c),
         pc[c] = "idle", reason'
  PROVE  CInv'
<1> USE DEF CInv
<1>1. /\ UNCHANGED <<own_io_service, pc, mutex, futures, thread, stopped, life,
                     accepts, listening>>
      /\ at' = [at EXCEPT ![c] = "out"] /\ work' = (Running # {c})
      BY DEF LeaveControllerRun, Go
<1>2. KInv' /\ StoppedOK' /\ life' = "alive" /\ work' \in BOOLEAN
      BY <1>1 DEF KInv, PcOK, MutexOK, ThreadOK, MutexIsHeld, ThreadsAreKnown,
                  Blocked, StoppedOK
<1>3. AtOK' /\ CallsMatch'
      BY <1>1 DEF AtOK, Sites, CallsMatch
<1>4. Running' = Running \ {c}
      BY <1>1 DEF Running, AtOK
<1>5. RunsListen' /\ OneAcceptWhileListening'
      BY <1>1, <1>4 DEF RunsListen, AtOK, OneAcceptWhileListening
<1>6. WorkIsHeld'
      BY <1>1, <1>4 DEF WorkIsHeld
<1>7. QED
      BY <1>2, <1>3, <1>5, <1>6

\* The steps of callers in the controller.
LEMMA CallersKeepCInv ==
  ASSUME CInv, NEW c \in Callers,
         \/ Enter(c) \/ Listen(c) \/ MakeWork(c) \/ RunOwnIoService(c)
         \/ RunReturns(c) \/ RunThrows(c) \/ OwnRunReturns(c) \/ OwnRunThrows(c)
         \/ StopReturned(c) \/ StopTooEarly(c)
  PROVE  CInv'
<1> USE DEF CInv
<1>0. at[c] # "in_pool" /\ at[c] # "stopping" => pc[c] = "idle"
      BY DEF CallsMatch
<1>1. CASE Enter(c)
  <2>1. PICK site \in {"listen", "run", "stop"} : Go(c, site)
        BY <1>1 DEF Enter
  <2>2. QED
        BY <1>0, <1>1, <2>1, QuietStep DEF Enter, Go, AtOK, Sites
<1>2. CASE StopReturned(c) \/ StopTooEarly(c)
      BY <1>0, <1>2, QuietStep DEF StopReturned, StopTooEarly, Go, AtOK, Sites
<1>3. CASE Listen(c)
  <2>1. /\ UNCHANGED <<vars, own_io_service, io_stopped, reason>>
        /\ at[c] \in {"listen", "run"}
        /\ \/ at' = [at EXCEPT ![c] = "out"]
           \/ at' = [at EXCEPT ![c] = "make_work"] /\ listening'
        /\ \/ UNCHANGED <<accepts, listening>>
           \/ accepts' = accepts + 1 /\ listening' = TRUE /\ ~listening
        BY <1>3 DEF Listen, Go, StartListening, FailToListen
  <2>2. KInv' /\ StoppedOK' /\ life' = "alive" /\ work' \in BOOLEAN
        BY <2>1 DEF vars, KInv, PcOK, MutexOK, ThreadOK, MutexIsHeld,
                    ThreadsAreKnown, Blocked, StoppedOK
  <2>3. AtOK' /\ CallsMatch'
        BY <1>0, <2>1 DEF vars, AtOK, Sites, CallsMatch
  <2>4. Running' = Running
        BY <2>1 DEF Running, AtOK
  <2>5. OneAcceptWhileListening'
        BY <2>1 DEF OneAcceptWhileListening
  <2>6. WorkIsHeld'
        BY <2>1, <2>4 DEF vars, WorkIsHeld
  <2>7. RunsListen'
        BY <2>1, <2>4 DEF RunsListen, AtOK
  <2>8. NoReasonYet => NoReasonYet'
        BY <1>0, <2>1, <2>4 DEF NoReasonYet, vars, Blocked, AtOK
  <2>9. QED
        BY <2>1, <2>2, <2>3, <2>5, <2>6, <2>7, <2>8
<1>4. CASE MakeWork(c)
  <2>1. /\ UNCHANGED <<own_io_service, pc, mutex, futures, thread, stopped,
                       life, accepts, listening, io_stopped, reason>>
        /\ work' = TRUE
        /\ at[c] = "make_work" /\ at' = [at EXCEPT ![c] = "run_pool"]
        BY <1>4 DEF MakeWork, Go
  <2>2. KInv' /\ StoppedOK' /\ life' = "alive" /\ work' \in BOOLEAN
        BY <2>1 DEF KInv, PcOK, MutexOK, ThreadOK, MutexIsHeld,
                    ThreadsAreKnown, Blocked, StoppedOK
  <2>3. AtOK' /\ CallsMatch'
        BY <1>0, <2>1 DEF AtOK, Sites, CallsMatch
  <2>4. RunsListen' /\ OneAcceptWhileListening' /\ WorkIsHeld'
        BY <2>1 DEF Running, RunsListen, OneAcceptWhileListening, WorkIsHeld, AtOK
  <2>5. Running' # {}
        BY <2>1 DEF Running, AtOK
  <2>6. NoReasonYet => NoReasonYet'
        BY <1>0, <2>1, <2>5 DEF NoReasonYet, Blocked, AtOK
  <2>7. QED
        BY <2>1, <2>2, <2>3, <2>4, <2>6
<1>5. CASE RunOwnIoService(c)
  <2>1. /\ UNCHANGED <<own_io_service, vars, accepts, listening, io_stopped,
                       reason>>
        /\ at[c] = "in_pool" /\ pc[c] = "idle" /\ own_io_service
        /\ at' = [at EXCEPT ![c] = "in_io"]
        BY <1>5 DEF RunOwnIoService, Go
  <2>2. KInv' /\ StoppedOK' /\ life' = "alive" /\ work' \in BOOLEAN
        BY <2>1 DEF vars, KInv, PcOK, MutexOK, ThreadOK, MutexIsHeld,
                    ThreadsAreKnown, Blocked, StoppedOK
  <2>3. AtOK' /\ CallsMatch'
        BY <2>1 DEF vars, AtOK, Sites, CallsMatch
  <2>4. Running' = Running
        BY <2>1 DEF Running, AtOK
  <2>5. RunsListen' /\ OneAcceptWhileListening' /\ WorkIsHeld'
        BY <2>1, <2>4 DEF vars, RunsListen, OneAcceptWhileListening, WorkIsHeld, AtOK
  <2>6. NoReasonYet => NoReasonYet'
        BY <2>1, <2>4 DEF NoReasonYet, vars, Blocked, AtOK
  <2>7. QED
        BY <2>1, <2>2, <2>3, <2>5, <2>6
<1>6. CASE RunReturns(c) \/ RunThrows(c) \/ OwnRunReturns(c) \/ OwnRunThrows(c)
  <2>1. c \in Running /\ LeaveControllerRun(c) /\ pc[c] = "idle"
        BY <1>0, <1>6
        DEF RunReturns, RunThrows, OwnRunReturns, OwnRunThrows, Running
  <2>2. OwnRunReturns(c) => io_stopped
        BY <2>1 DEF OwnRunReturns, RunsListen, OneAcceptWhileListening
  <2>3. reason'
        BY <1>6, <2>2
        DEF RunReturns, RunThrows, OwnRunReturns, OwnRunThrows, NoReasonYet
  <2>4. QED
        BY <2>1, <2>3, LeavingStep
<1>7. QED
      BY <1>1, <1>2, <1>3, <1>4, <1>5, <1>6

\* The steps of callers in the pool, and into it.
LEMMA PoolCallsKeepCInv ==
  ASSUME CInv, KInv', NEW c \in Callers,
         RunPool(c) \/ Stop(c) \/ PoolStep(c) \/ RunPoolThrows(c)
  PROVE  CInv'
<1> USE CallersAssumption
<1> USE DEF CInv
<1>p. PcOK /\ ThreadOK /\ MutexIsHeld /\ ThreadsAreKnown
      BY DEF KInv
<1>1. CASE RunPool(c)
  <2>1. /\ UNCHANGED <<own_io_service, mutex, futures, thread, stopped, work,
                       life, accepts, listening, io_stopped, reason>>
        /\ pc[c] = "idle"
        /\ pc' = [pc EXCEPT ![c] = IF own_io_service THEN "start" ELSE "start_block"]
        /\ at[c] = "run_pool" /\ at' = [at EXCEPT ![c] = "in_pool"]
        BY <1>1 DEF RunPool, Call, Go
  <2>2. StoppedOK' /\ AtOK' /\ CallsMatch'
        BY <1>p, <2>1 DEF StoppedOK, AtOK, Sites, CallsMatch, PcOK
  <2>3. Running' = Running
        BY <2>1 DEF Running, AtOK
  <2>4. RunsListen' /\ OneAcceptWhileListening' /\ WorkIsHeld'
        BY <2>1, <2>3 DEF RunsListen, OneAcceptWhileListening, WorkIsHeld, AtOK
  <2>5. Blocked => Blocked'
        BY <1>p, <2>1 DEF Blocked, PcOK
  <2>6. NoReasonYet => NoReasonYet'
        BY <1>p, <2>1, <2>3, <2>5 DEF NoReasonYet, AtOK, PcOK
  <2>7. QED
        BY <2>1, <2>2, <2>4, <2>6
<1>2. CASE Stop(c)
  <2>1. /\ UNCHANGED <<own_io_service, stopped, work, life, accepts, listening>>
        /\ reason' = TRUE
        /\ pc[c] = "idle" /\ pc' = [pc EXCEPT ![c] = "stop"]
        /\ at[c] = "stop" /\ at' = [at EXCEPT ![c] = "stopping"]
        BY <1>2 DEF Stop, Call, Go
  <2>2. StoppedOK' /\ AtOK' /\ CallsMatch'
        BY <1>p, <2>1 DEF StoppedOK, AtOK, Sites, CallsMatch, PcOK
  <2>3. Running' = Running
        BY <2>1 DEF Running, AtOK
  <2>4. RunsListen' /\ OneAcceptWhileListening' /\ WorkIsHeld'
        BY <2>1, <2>3 DEF RunsListen, OneAcceptWhileListening, WorkIsHeld, AtOK
  <2>5. QED
        BY <2>1, <2>2, <2>4
<1>3. CASE RunPoolThrows(c)
  <2>1. /\ UNCHANGED <<own_io_service, stopped, work, life, accepts, listening>>
        /\ reason' = TRUE
        /\ pc[c] \in {"start", "start_block"} /\ pc' = [pc EXCEPT ![c] = "idle"]
        /\ at' = [at EXCEPT ![c] = "leaving"]
        BY <1>3 DEF RunPoolThrows, LaunchFails, Go
  <2>2. StoppedOK' /\ AtOK' /\ CallsMatch'
        BY <1>p, <2>1 DEF StoppedOK, AtOK, Sites, CallsMatch, PcOK
  <2>3. at[c] = "in_pool"
        BY <2>1 DEF CallsMatch
  <2>4. Running' = Running
        BY <2>1, <2>3 DEF Running, AtOK
  <2>5. RunsListen' /\ OneAcceptWhileListening' /\ WorkIsHeld'
        BY <2>1, <2>4 DEF RunsListen, OneAcceptWhileListening, WorkIsHeld, AtOK
  <2>6. QED
        BY <2>1, <2>2, <2>5
<1>4. CASE PoolStep(c)
  <2>1. /\ UNCHANGED <<own_io_service, work, life, at, accepts, listening,
                       io_stopped, reason>>
        /\ StartRefused(c) \/ Launch(c) \/ StartReturns(c) \/ StopOne(c)
        BY <1>4 DEF PoolStep, cvars, StartRefused, Launch, StartReturns, StopOne
  <2>2. Running' = Running
        BY <2>1 DEF Running
  <2>3. AtOK' /\ RunsListen' /\ OneAcceptWhileListening' /\ WorkIsHeld'
        BY <2>1, <2>2
        DEF AtOK, RunsListen, OneAcceptWhileListening, WorkIsHeld
  <2>4. CASE StartRefused(c)
    <3>1. /\ UNCHANGED <<mutex, futures, thread, stopped>>
          /\ pc[c] \in {"start", "start_block"} /\ mutex = Nobody /\ futures # {}
          /\ pc' = [pc EXCEPT ![c] = "idle"]
          BY <2>4 DEF StartRefused
    <3>2. StoppedOK' /\ CallsMatch'
          BY <1>p, <3>1, <2>1 DEF StoppedOK, CallsMatch, PcOK
    <3>3. ~Blocked
          BY <3>1 DEF Blocked
    <3>4. NoReasonYet => NoReasonYet'
          BY <2>1, <2>2, <3>1, <3>3 DEF NoReasonYet
    <3>5. QED
          BY <2>1, <2>3, <3>2, <3>4
  <2>5. CASE Launch(c)
    <3>1. /\ mutex = Nobody /\ UNCHANGED stopped
          /\ thread' = [i \in ThreadIds |-> "launched"]
          /\ \/ /\ pc[c] = "start_block" /\ pc' = [pc EXCEPT ![c] = "blocked"]
                /\ mutex' = c
             \/ pc[c] = "start" /\ pc' = [pc EXCEPT ![c] = "idle"]
          BY <2>5 DEF Launch
    <3>2. StoppedOK' /\ CallsMatch'
          BY <1>p, <3>1, <2>1 DEF StoppedOK, CallsMatch, PcOK
    <3>3. Running' # {}
          BY <2>1, <3>1 DEF Running, CallsMatch
    <3>4. ~own_io_service => pc[c] = "start_block"
          BY <3>1 DEF CallsMatch
    <3>5. ~own_io_service => Blocked'
          BY <1>p, <3>1, <3>4 DEF Blocked, PcOK
    <3>6. ~own_io_service /\ NoReasonYet =>
            \A d \in Callers : at'[d] = "in_pool" => pc'[d] # "idle"
          BY <1>p, <2>1, <3>1, <3>4 DEF NoReasonYet, PcOK
    <3>7. NoReasonYet => NoReasonYet'
          BY <2>1, <3>1, <3>3, <3>5, <3>6 DEF NoReasonYet
    <3>8. QED
          BY <2>1, <2>3, <3>2, <3>7
  <2>6. CASE StartReturns(c)
    <3>1. /\ thread[0] = "ended" /\ UNCHANGED stopped
          /\ pc[c] = "blocked" /\ pc' = [pc EXCEPT ![c] = "idle"]
          BY <2>6 DEF StartReturns
    <3>2. StoppedOK' /\ CallsMatch'
          BY <1>p, <3>1, <2>1 DEF StoppedOK, CallsMatch, PcOK
    <3>3. reason
          BY <3>1, ThreadZero DEF NoReasonYet
    <3>4. QED
          BY <2>1, <2>3, <3>2, <3>3
  <2>7. CASE StopOne(c)
    <3>1. /\ pc[c] = "stop" /\ stopped' = [stopped EXCEPT ![next[c]] = TRUE]
          /\ pc' = [pc EXCEPT ![c] = "idle"] \/ pc' = pc
          BY <1>p, <2>7 DEF StopOne, PcOK
    <3>2. StoppedOK' /\ CallsMatch'
          BY <1>p, <3>1, <2>1 DEF StoppedOK, CallsMatch, PcOK
    <3>3. reason
          BY <3>1 DEF CallsMatch, NoReasonYet
    <3>4. QED
          BY <2>1, <2>3, <3>2, <3>3
  <2>8. QED
        BY <2>1, <2>4, <2>5, <2>6, <2>7
<1>5. QED
      BY <1>1, <1>2, <1>3, <1>4

\* The threads' steps, and accepted connections.
LEMMA ThreadsKeepCInv ==
  ASSUME CInv, KInv',
         \/ HandleAccept
         \/ \E i \in ThreadIds : \/ PoolThreadStep(i) \/ PoolHandlerThrows(i)
                                 \/ PoolRunsOutOfWork(i)
  PROVE  CInv'
<1> USE DEF CInv
<1>p. PcOK /\ ThreadOK
      BY DEF KInv
<1>1. CASE HandleAccept
      BY <1>1, QuietStep DEF HandleAccept, AtOK
<1>2. ASSUME NEW i \in ThreadIds,
             PoolThreadStep(i) \/ PoolHandlerThrows(i) \/ PoolRunsOutOfWork(i)
      PROVE  CInv'
  <2>1. /\ UNCHANGED <<own_io_service, pc, mutex, futures, work, life, at,
                       accepts, listening, io_stopped>>
        /\ thread[i] \in {"launched", "running"}
        /\ \/ UNCHANGED stopped
           \/ stopped' = [stopped EXCEPT ![ServiceOf(i)] = TRUE]
        BY <1>2 DEF PoolThreadStep, PoolHandlerThrows, PoolRunsOutOfWork,
                    EnterRun, LeaveRun, HandlerThrows, RunOutOfWork, cvars
  <2>2. StoppedOK' /\ AtOK' /\ CallsMatch' /\ Running' = Running
        BY <1>p, <2>1 DEF StoppedOK, AtOK, CallsMatch, Running
  <2>3. RunsListen' /\ OneAcceptWhileListening' /\ WorkIsHeld'
        BY <2>1, <2>2 DEF RunsListen, OneAcceptWhileListening, WorkIsHeld
  <2>4. NoReasonYet => Running # {} /\ work
        BY <2>1 DEF NoReasonYet, WorkIsHeld
  <2>5. reason' \/ NoReasonYet'
    <3>1. CASE PoolHandlerThrows(i)
          BY <3>1 DEF PoolHandlerThrows
    <3>2. CASE PoolRunsOutOfWork(i)
          BY <2>4, <3>2 DEF PoolRunsOutOfWork, RunOutOfWork, cvars
    <3>3. CASE PoolThreadStep(i)
      <4>1. UNCHANGED <<reason, stopped>>
            BY <3>3 DEF PoolThreadStep, EnterRun, LeaveRun, cvars
      <4>2. NoReasonYet => thread' = [thread EXCEPT ![i] = "running"]
            BY <3>3, ThreadsService
            DEF PoolThreadStep, EnterRun, LeaveRun, NoReasonYet
      <4>3. NoReasonYet => NoReasonYet'
            BY <1>p, <2>1, <2>2, <2>4, <4>1, <4>2 DEF NoReasonYet, Blocked, ThreadOK
      <4>4. QED
            BY <4>1, <4>3
    <3>4. QED
          BY <1>2, <3>1, <3>2, <3>3
  <2>6. QED
        BY <2>1, <2>2, <2>3, <2>5
<1>3. QED
      BY <1>1, <1>2

LEMMA CInvStep == CInv /\ [ControllerNext]_allvars => CInv'
<1> SUFFICES ASSUME CInv, [ControllerNext]_allvars
             PROVE  CInv'
    OBVIOUS
<1>1. KInv'
      BY StepsOfThePool, KInvStep DEF CInv
<1>2. CASE UNCHANGED allvars
      BY <1>2, QuietStep DEF allvars, cvars, CInv, AtOK
<1>3. CASE ControllerNext
      BY <1>1, <1>3, CallersKeepCInv, PoolCallsKeepCInv, ThreadsKeepCInv
      DEF ControllerNext, ControllerStep
<1>4. QED
      BY <1>2, <1>3

LEMMA CInvHolds == ControllerSpec => []CInv
BY CInvInit, CInvStep, PTL DEF ControllerSpec

-----------------------------------------------------------------------------
(* Theorems                                                                *)

\* The controller uses the pool as its specification allows: a behaviour of the
\* controller is, seen from the pool, one of the pool.
THEOREM ControllerUsesPool == ControllerSpec => Spec
<1>1. ControllerInit => Init
      BY DEF ControllerInit
<1>2. CInv /\ [ControllerNext]_allvars => [Next]_vars
      BY StepsOfThePool DEF CInv
<1>3. QED
      BY <1>1, <1>2, CInvHolds, PTL DEF ControllerSpec, Spec

\* There is one async_accept as long as the controller listens.
THEOREM AcceptingGoesOn == ControllerSpec => []OneAcceptWhileListening
<1>1. CInv => OneAcceptWhileListening
      BY DEF CInv
<1>2. QED
      BY <1>1, CInvHolds, PTL

\* No thread of the pool goes home without a reason.
THEOREM ThreadsGoOn == ControllerSpec => []ThreadsServe
<1>1. CInv => ThreadsServe
      BY DEF CInv, NoReasonYet, ThreadsServe
<1>2. QED
      BY <1>1, CInvHolds, PTL

\* No run that has begun to serve returns without a reason.
THEOREM RunGoesOn == ControllerSpec => RunLasts
<1>1. CInv /\ CInv' /\ [ControllerNext]_allvars
      => [\A c \in Callers : c \in Running /\ at'[c] = "out" => reason']_allvars
  <2> SUFFICES ASSUME CInv, ControllerNext, NEW c \in Callers,
                      c \in Running, at'[c] = "out", ~reason'
               PROVE  FALSE
      OBVIOUS
  <2> USE DEF CInv, AtOK, Running
  <2>1. ASSUME NEW d \in Callers, Enter(d) \/ ControllerStep(d) \/ OwnRunThrows(d)
        PROVE  FALSE
    <3>1. CASE \/ Enter(d) \/ Listen(d) \/ MakeWork(d) \/ RunPool(d)
               \/ RunOwnIoService(d) \/ Stop(d) \/ StopReturned(d)
               \/ StopTooEarly(d) \/ RunPoolThrows(d)
          BY <3>1 DEF Enter, Listen, MakeWork, RunPool, RunOwnIoService, Stop,
                      StopReturned, StopTooEarly, RunPoolThrows, Go
    <3>2. CASE PoolStep(d)
          BY <3>2 DEF PoolStep, cvars
    <3>3. CASE RunReturns(d) \/ RunThrows(d) \/ OwnRunReturns(d) \/ OwnRunThrows(d)
      <4>1. d \in Callers /\ at[d] \in {"in_pool", "leaving", "in_io"}
            BY <3>3 DEF RunReturns, RunThrows, OwnRunReturns, OwnRunThrows
      <4>2. OwnRunReturns(d) => io_stopped
            BY <4>1 DEF OwnRunReturns, RunsListen, OneAcceptWhileListening
      <4>3. QED
            BY <3>3, <4>2
            DEF RunReturns, RunThrows, OwnRunReturns, OwnRunThrows, NoReasonYet
    <3>4. QED
          BY <2>1, <3>1, <3>2, <3>3 DEF ControllerStep
  <2>2. ASSUME NEW i \in ThreadIds,
               PoolThreadStep(i) \/ PoolHandlerThrows(i) \/ PoolRunsOutOfWork(i)
        PROVE  FALSE
        BY <2>2 DEF PoolThreadStep, PoolHandlerThrows, PoolRunsOutOfWork, cvars
  <2>3. QED
        BY <2>1, <2>2 DEF ControllerNext, HandleAccept
<1>2. QED
      BY <1>1, CInvHolds, PTL DEF ControllerSpec, RunLasts
=============================================================================
