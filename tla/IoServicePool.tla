---------------------------- MODULE IoServicePool ----------------------------
(***************************************************************************)
(* The pool of io_services and of the threads that run them: start, stop   *)
(* and reset, called from any number of threads.                           *)
(*                                                                         *)
(* start and reset meet in a mutex; stop takes none.  start(true) runs the *)
(* first io_service in the caller's own thread, and keeps the mutex while  *)
(* it does.  A step is a critical section, a call on one io_service, or    *)
(* what a thread does in io_service::run.                                  *)
(***************************************************************************)
EXTENDS Integers, FiniteSets

CONSTANTS Callers,        \* threads that use the pool
          Services,       \* how many io_services: 0 .. Services - 1
          ThreadsPer,     \* nthreads_per_io_srv_
          Nobody,         \* holds the mutex when it is free
          MaxCalls        \* bound: calls made by all callers together

ASSUME SizeAssumption ==
  Services \in Nat \ {0} /\ ThreadsPer \in Nat \ {0} /\ MaxCalls \in Nat
ASSUME CallersAssumption == Nobody \notin Callers

VARIABLES
  pc,        \* what each caller is doing
  next,      \* the io_service its loop has come to
  mutex,     \* mutex_
  futures,   \* the threads futures_ stands for
  thread,    \* the state of each thread
  stopped,   \* the stopped flag of each io_service
  work,      \* whether an object of class work keeps the io_services busy
  life,      \* of the pool itself
  calls,     \* how many calls have been made
  dirty,     \* the pool has been run, and no reset has been completed since
  overlapped,\* start or reset has been called with the other under way
  cause      \* since the wait of the last reset, something has happened that
             \* ends a thread

vars == <<pc, next, mutex, futures, thread, stopped, work, life, calls, dirty,
          overlapped, cause>>

ServiceIds == 0 .. Services - 1

ThreadIds == 0 .. Services * ThreadsPer - 1

\* The io_service thread i runs
ServiceOf(i) == i \div ThreadsPer

Places == {"idle", "start", "start_block", "blocked", "stop", "reset", "join",
           "renew"}

TypeOK ==
  /\ pc \in [Callers -> Places]
  /\ next \in [Callers -> 0 .. Services]
  /\ mutex \in Callers \cup {Nobody}
  /\ futures \subseteq ThreadIds
  /\ thread \in [ThreadIds -> {"none", "launched", "running", "ended"}]
  /\ stopped \in [ServiceIds -> BOOLEAN]
  /\ work \in BOOLEAN
  /\ life \in {"alive", "joining", "destroyed"}
  /\ calls \in 0 .. MaxCalls
  /\ dirty \in BOOLEAN /\ overlapped \in BOOLEAN /\ cause \in BOOLEAN

Init ==
  /\ pc = [c \in Callers |-> "idle"]
  /\ next = [c \in Callers |-> 0]
  /\ mutex = Nobody
  /\ futures = {}
  /\ thread = [i \in ThreadIds |-> "none"]
  /\ stopped = [s \in ServiceIds |-> FALSE]
  /\ work = FALSE
  /\ life = "alive"
  /\ calls = 0
  /\ dirty = FALSE /\ overlapped = FALSE /\ cause = FALSE

-----------------------------------------------------------------------------
(* Calls                                                                   *)

\* In start or reset, other than in a run of their own.
Control == {"start", "start_block", "reset", "join", "renew"}

\* A caller enters one of the pool's functions.
Call(c, place) ==
  /\ life = "alive" /\ pc[c] = "idle" /\ calls < MaxCalls
  /\ pc' = [pc EXCEPT ![c] = place]
  /\ next' = [next EXCEPT ![c] = 0]
  /\ calls' = calls + 1
  /\ overlapped' = \/ overlapped
                   \/ place \in Control /\ \E d \in Callers : pc[d] \in Control
  /\ UNCHANGED <<mutex, futures, thread, stopped, work, life, dirty, cause>>

-----------------------------------------------------------------------------
(* start                                                                   *)

\* The test that futures_ is not empty: "already running or not reset yet"
StartRefused(c) ==
  /\ pc[c] \in {"start", "start_block"} /\ mutex = Nobody
  /\ futures # {}
  /\ pc' = [pc EXCEPT ![c] = "idle"]
  /\ UNCHANGED <<next, mutex, futures, thread, stopped, work, life, calls,
                 dirty, cause, overlapped>>

\* Mutant: the futures of the threads are not kept.
LaunchDetached(c) ==
  /\ pc[c] \in {"start", "start_block"} /\ mutex = Nobody
  /\ futures = {}
  /\ thread' = [i \in ThreadIds |-> "launched"]
  /\ dirty' = TRUE
  /\ \/ pc[c] = "start_block"
        /\ pc' = [pc EXCEPT ![c] = "blocked"] /\ mutex' = c
     \/ pc[c] = "start" /\ pc' = [pc EXCEPT ![c] = "idle"] /\ UNCHANGED mutex
  /\ UNCHANGED <<next, futures, stopped, work, life, calls, cause, overlapped>>

\* Launch a thread for each of the others, or for all but the first, which
\* the caller then is itself.
Launch(c) ==
  /\ pc[c] \in {"start", "start_block"} /\ mutex = Nobody
  /\ futures = {}
  /\ thread' = [i \in ThreadIds |-> "launched"]
  /\ dirty' = TRUE
  /\ \/ /\ pc[c] = "start_block"
        /\ futures' = ThreadIds \ {0}
        /\ pc' = [pc EXCEPT ![c] = "blocked"] /\ mutex' = c
     \/ /\ pc[c] = "start"
        /\ futures' = ThreadIds
        /\ pc' = [pc EXCEPT ![c] = "idle"] /\ UNCHANGED mutex
  /\ UNCHANGED <<next, stopped, work, life, calls, cause, overlapped>>

\* The system refuses a thread: start throws, and those launched before run on.
LaunchFails(c) ==
  /\ pc[c] \in {"start", "start_block"} /\ mutex = Nobody
  /\ futures = {}
  /\ LET first == IF pc[c] = "start_block" THEN 1 ELSE 0
     IN  \E end \in first .. Services * ThreadsPer - 1 :
           /\ futures' = first .. end - 1
           /\ thread' = [i \in ThreadIds |-> IF i \in futures' THEN "launched"
                                                             ELSE thread[i]]
           /\ dirty' = (dirty \/ futures' # {})
  /\ pc' = [pc EXCEPT ![c] = "idle"]
  /\ UNCHANGED <<next, mutex, stopped, work, life, calls, cause, overlapped>>

\* The caller's own run has ended.
StartReturns(c) ==
  /\ pc[c] = "blocked" /\ thread[0] = "ended"
  /\ thread' = [thread EXCEPT ![0] = "none"]
  /\ pc' = [pc EXCEPT ![c] = "idle"] /\ mutex' = Nobody
  /\ UNCHANGED <<next, futures, stopped, work, life, calls, dirty, cause,
                 overlapped>>

-----------------------------------------------------------------------------
(* io_service::run, in thread i                                            *)

\* A stopped io_service returns at once.
EnterRun(i) ==
  /\ thread[i] = "launched"
  /\ thread' = [thread EXCEPT ![i] = IF stopped[ServiceOf(i)]
                                     THEN "ended" ELSE "running"]
  /\ UNCHANGED <<pc, next, mutex, futures, stopped, work, life, calls, dirty,
                 cause, overlapped>>

\* The thread finds its io_service stopped.
LeaveRun(i) ==
  /\ thread[i] = "running" /\ stopped[ServiceOf(i)]
  /\ thread' = [thread EXCEPT ![i] = "ended"]
  /\ UNCHANGED <<pc, next, mutex, futures, stopped, work, life, calls, dirty,
                 cause, overlapped>>

\* A handler throws: the exception ends this thread alone, and is kept in its
\* future, or leaves start.
HandlerThrows(i) ==
  /\ thread[i] = "running"
  /\ thread' = [thread EXCEPT ![i] = "ended"]
  /\ cause' = TRUE
  /\ UNCHANGED <<pc, next, mutex, futures, stopped, work, life, calls, dirty,
                 overlapped>>

\* The last handler has run, and no work object is left: run stops the
\* io_service itself.
RunOutOfWork(i) ==
  /\ thread[i] = "running" /\ ~work
  /\ stopped' = [stopped EXCEPT ![ServiceOf(i)] = TRUE]
  /\ thread' = [thread EXCEPT ![i] = "ended"]
  /\ cause' = TRUE
  /\ UNCHANGED <<pc, next, mutex, futures, work, life, calls, dirty,
                 overlapped>>

\* A work object is made, or destroyed.
ChangeWork ==
  /\ life = "alive"
  /\ work' = ~work
  /\ UNCHANGED <<pc, next, mutex, futures, thread, stopped, life, calls, dirty,
                 cause, overlapped>>

-----------------------------------------------------------------------------
(* stop                                                                    *)

\* Mutant: stop takes the mutex, as start and reset do.
StopOneLocked(c) ==
  /\ pc[c] = "stop" /\ mutex = Nobody
  /\ stopped' = [stopped EXCEPT ![next[c]] = TRUE]
  /\ next' = [next EXCEPT ![c] = @ + 1]
  /\ pc' = [pc EXCEPT ![c] = IF next'[c] = Services THEN "idle" ELSE @]
  /\ cause' = TRUE
  /\ UNCHANGED <<mutex, futures, thread, work, life, calls, dirty, overlapped>>

\* Mutant: the loop stops the first io_service only.
StopFirst(c) ==
  /\ pc[c] = "stop"
  /\ stopped' = [stopped EXCEPT ![0] = TRUE]
  /\ next' = [next EXCEPT ![c] = Services]
  /\ pc' = [pc EXCEPT ![c] = "idle"]
  /\ cause' = TRUE
  /\ UNCHANGED <<mutex, futures, thread, work, life, calls, dirty, overlapped>>

\* One round of the loop of stop.
StopOne(c) ==
  /\ pc[c] = "stop"
  /\ stopped' = [stopped EXCEPT ![next[c]] = TRUE]
  /\ next' = [next EXCEPT ![c] = @ + 1]
  /\ pc' = [pc EXCEPT ![c] = IF next'[c] = Services THEN "idle" ELSE @]
  /\ cause' = TRUE
  /\ UNCHANGED <<mutex, futures, thread, work, life, calls, dirty, overlapped>>

-----------------------------------------------------------------------------
(* reset                                                                   *)

\* wait_for_all_threads_to_stop_completely takes the mutex ...
LockReset(c) ==
  /\ pc[c] = "reset" /\ mutex = Nobody
  /\ mutex' = c
  /\ pc' = [pc EXCEPT ![c] = "join"]
  /\ UNCHANGED <<next, futures, thread, stopped, work, life, calls, dirty,
                 cause, overlapped>>

\* Mutant: it clears futures_ without waiting.
JoinAtOnce(c) ==
  /\ pc[c] = "join"
  /\ futures' = {}
  /\ mutex' = Nobody
  /\ pc' = [pc EXCEPT ![c] = "renew"] /\ cause' = FALSE
  /\ UNCHANGED <<next, thread, stopped, work, life, calls, dirty, overlapped>>

\* ... waits for every future, clears futures_ and lets the mutex go.
Join(c) ==
  /\ pc[c] = "join"
  /\ \A i \in futures : thread[i] = "ended"
  /\ thread' = [i \in ThreadIds |-> IF i \in futures THEN "none" ELSE thread[i]]
  /\ futures' = {}
  /\ mutex' = Nobody
  /\ pc' = [pc EXCEPT ![c] = "renew"] /\ cause' = FALSE
  /\ UNCHANGED <<next, stopped, work, life, calls, dirty, overlapped>>

\* Mutant: the last io_service is forgotten.
RenewOneButLast(c) ==
  /\ pc[c] = "renew"
  /\ stopped' = [stopped EXCEPT ![next[c]] = (next[c] = Services - 1 /\ @)]
  /\ next' = [next EXCEPT ![c] = @ + 1]
  /\ IF next'[c] = Services
     THEN pc' = [pc EXCEPT ![c] = "idle"] /\ dirty' = FALSE
     ELSE UNCHANGED <<pc, dirty>>
  /\ UNCHANGED <<mutex, futures, thread, work, life, calls, cause, overlapped>>

\* One round of the loop of reset, without the mutex: io_service::reset.
RenewOne(c) ==
  /\ pc[c] = "renew"
  /\ stopped' = [stopped EXCEPT ![next[c]] = FALSE]
  /\ next' = [next EXCEPT ![c] = @ + 1]
  /\ IF next'[c] = Services
     THEN pc' = [pc EXCEPT ![c] = "idle"] /\ dirty' = FALSE
     ELSE UNCHANGED <<pc, dirty>>
  /\ UNCHANGED <<mutex, futures, thread, work, life, calls, cause, overlapped>>

-----------------------------------------------------------------------------
(* The destructor                                                          *)

\* Mutant: the destructor does not stop the io_services.
DestroyUnstopped ==
  /\ life = "alive" /\ \A c \in Callers : pc[c] = "idle"
  /\ life' = "joining"
  /\ UNCHANGED <<pc, next, mutex, futures, thread, stopped, work, calls, dirty,
                 cause, overlapped>>

\* The destructor's body.  Nobody may be in a function of the pool any more.
Destroy ==
  /\ life = "alive" /\ \A c \in Callers : pc[c] = "idle"
  /\ stopped' = [s \in ServiceIds |-> TRUE] /\ cause' = TRUE
  /\ life' = "joining"
  /\ UNCHANGED <<pc, next, mutex, futures, thread, work, calls, dirty,
                 overlapped>>

\* The destructors of the members: those of the futures wait for the threads,
\* and only then are the io_services destroyed.
DestroyMembers ==
  /\ life = "joining" /\ \A i \in futures : thread[i] = "ended"
  /\ life' = "destroyed" /\ futures' = {}
  /\ thread' = [i \in ThreadIds |-> "none"]
  /\ UNCHANGED <<pc, next, mutex, stopped, work, calls, dirty, cause,
                 overlapped>>

-----------------------------------------------------------------------------
(* The specification                                                       *)

CallerStep(c) ==
  \/ StartRefused(c) \/ Launch(c) \/ LaunchFails(c) \/ StartReturns(c)
  \/ StopOne(c)
  \/ LockReset(c) \/ Join(c) \/ RenewOne(c)

ThreadStep(i) ==
  EnterRun(i) \/ LeaveRun(i) \/ HandlerThrows(i) \/ RunOutOfWork(i)

Next ==
  \/ \E c \in Callers :
       (\E place \in {"start", "start_block", "stop", "reset"} : Call(c, place))
       \/ CallerStep(c)
  \/ \E i \in ThreadIds : ThreadStep(i)
  \/ ChangeWork
  \/ Destroy \/ DestroyMembers

Spec == Init /\ [][Next]_vars

\* A caller does not stop in the middle of a function it can go on with, nor a
\* thread before it notices that its io_service is stopped.  Nobody is made to
\* call, to throw or to run out of work.
Fairness ==
  /\ \A c \in Callers : WF_vars(CallerStep(c))
  /\ \A i \in ThreadIds : WF_vars(EnterRun(i)) /\ WF_vars(LeaveRun(i))
  /\ WF_vars(DestroyMembers)

FairSpec == Spec /\ Fairness

-----------------------------------------------------------------------------
(* Properties                                                              *)

\* The threads in, or on their way into, io_service::run.
Active == {i \in ThreadIds : thread[i] \in {"launched", "running"}}

\* Nobody launches threads while a thread of an earlier start is still at work:
\* start refuses to, and reset forgets no future before its thread has ended.
\* A start that blocks forgets one: its own run is guarded by the mutex alone.
OneGenerationAtATime ==
  [][(\E i \in ThreadIds : thread[i] # "launched" /\ thread'[i] = "launched")
     => Active = {}]_vars

\* reset calls io_service::reset, which must not be called under a run, only
\* when no thread runs that io_service: as long as nobody calls start while
\* reset, which has let the mutex go, is in its second half.
RenewedWhenAtRest ==
  [][~overlapped => \A s \in ServiceIds :
       stopped[s] /\ ~stopped'[s] => \A i \in Active : ServiceOf(i) # s]_vars

\* What start promises, as long as start and reset do not overlap: a thread's
\* run ends only if, since the last reset, somebody called stop, a handler
\* threw, or the io_service ran out of work.
RunsUntilStopped ==
  ~overlapped => \A i \in ThreadIds : thread[i] = "ended" => cause

StopIsCalled(c) == pc[c] = "stop" /\ next[c] = 0

\* A stop gets every thread out of every run, unless a reset undoes it.
StopEndsThreads ==
  (\E c \in Callers : StopIsCalled(c))
  ~> (Active = {} \/ \E d \in Callers : pc[d] = "renew")

\* A reset that waits for running threads returns when somebody calls stop,
\* which waits for nobody, not for a start that keeps the mutex while it runs.
StopLetsResetReturn ==
  \A d \in Callers :
    (pc[d] \in {"reset", "join"} /\ \E c \in Callers : StopIsCalled(c))
    ~> (pc[d] = "idle" \/ overlapped)

\* The destructor does not hang, whatever the threads were doing.
DestructorEnds == (life = "joining") ~> (life = "destroyed")

\* What the comment in start says of a call that comes before a reset: it does
\* not run the io_services again.
NotRunAgainBeforeReset ==
  [][(\E i \in ThreadIds : thread[i] # "launched" /\ thread'[i] = "launched")
     => ~dirty]_vars
=============================================================================
