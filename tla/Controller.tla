----------------------------- MODULE Controller -----------------------------
(***************************************************************************)
(* The controller: run, listen and stop, called from any number of threads,*)
(* on top of the pool of io_services it runs.                              *)
(*                                                                         *)
(* The pool's actions are those of IoServicePool, its callers the threads  *)
(* in run or stop.  With the io_service option the acceptor is on an       *)
(* io_service of its own, which run runs in the caller's thread while the  *)
(* pool runs in threads of the pool.  Without it the acceptor is on one of *)
(* the pool's io_services, and run blocks in the pool's start.             *)
(*                                                                         *)
(* Only the controller uses the pool and the io_service, and it is not     *)
(* destroyed: that needs every call to be over.                            *)
(***************************************************************************)
EXTENDS IoServicePool

CONSTANTS AcceptorService,  \* the io_service of the pool that get_io_service
                            \* gives, if there is no other
          MaxOps,           \* bound: calls of run, listen and stop together
          MaxConnections    \* bound: switches that connect

ASSUME ControllerAssumption ==
  /\ AcceptorService \in ServiceIds
  /\ MaxOps \in Nat /\ MaxConnections \in Nat
  /\ MaxOps <= MaxCalls

VARIABLES
  own_io_service,   \* the io_service option is given
  at,               \* what each caller is doing in the controller
  listening_mutex,  \* listening_mutex_
  listening,        \* listening_
  acceptor,         \* the state of acceptor_
  accepts,          \* async_accepts under way
  setups,           \* connections whose set-up has been started
  io_stopped,       \* the stopped flag of the controller's own io_service
  ops,              \* how many calls have been made
  reason            \* stop was called in time, or something has been thrown

cvars == <<own_io_service, at, listening_mutex, listening, acceptor, accepts,
           setups, io_stopped, ops, reason>>

allvars == <<vars, cvars>>

Sites == {"out", "listen", "run", "make_work", "run_pool", "in_pool", "in_io",
          "leaving", "stop", "stopping"}

\* Callers of run that hold a work object.
Running == {c \in Callers : at[c] \in {"run_pool", "in_pool", "in_io", "leaving"}}

ControllerTypeOK ==
  /\ TypeOK
  /\ own_io_service \in BOOLEAN
  /\ at \in [Callers -> Sites]
  /\ listening_mutex \in Callers \cup {Nobody}
  /\ listening \in BOOLEAN
  /\ acceptor \in {"closed", "open", "listening"}
  /\ accepts \in 0 .. 1
  /\ setups \in 0 .. MaxConnections
  /\ io_stopped \in BOOLEAN
  /\ ops \in 0 .. MaxOps
  /\ reason \in BOOLEAN

ControllerInit ==
  /\ Init
  /\ own_io_service \in BOOLEAN
  /\ at = [c \in Callers |-> "out"]
  /\ listening_mutex = Nobody
  /\ listening = FALSE
  /\ acceptor = "closed"
  /\ accepts = 0
  /\ setups = 0
  /\ io_stopped = FALSE
  /\ ops = 0
  /\ reason = FALSE

Go(c, site) == at' = [at EXCEPT ![c] = site]

\* A thread calls listen, run or stop.
Enter(c) ==
  /\ at[c] = "out" /\ ops < MaxOps
  /\ \E site \in {"listen", "run", "stop"} : Go(c, site)
  /\ ops' = ops + 1
  /\ UNCHANGED <<vars, listening_mutex, listening, acceptor, accepts, setups,
                 io_stopped, reason, own_io_service>>

-----------------------------------------------------------------------------
(* listen                                                                  *)

\* start_listening succeeds: the first async_accept is made.
StartListening ==
  /\ acceptor = "closed"
  /\ acceptor' = "listening" /\ accepts' = accepts + 1 /\ listening' = TRUE

\* start_listening fails.  If the address does not resolve, or open fails, as
\* it does on an acceptor left open, nothing changes; if bind or listen fails
\* the acceptor is left open.
FailToListen ==
  /\ acceptor' \in IF acceptor = "closed" THEN {"closed", "open"} ELSE {acceptor}
  /\ UNCHANGED <<accepts, listening>>

\* The whole of listen is one critical section.  It throws, out of run too, if
\* the controller does not listen at its end.
Listen(c) ==
  /\ at[c] \in {"listen", "run"} /\ listening_mutex = Nobody
  /\ \/ listening /\ UNCHANGED <<acceptor, accepts, listening>>
     \/ ~listening /\ (StartListening \/ FailToListen)
  /\ Go(c, IF at[c] = "run" /\ listening' THEN "make_work" ELSE "out")
  /\ UNCHANGED <<vars, own_io_service, listening_mutex, setups, io_stopped, ops,
                 reason>>

-----------------------------------------------------------------------------
(* run                                                                     *)

\* Mutant: run makes no work object.
MakeNoWork(c) ==
  /\ at[c] = "make_work" /\ Go(c, "run_pool")
  /\ UNCHANGED <<vars, listening_mutex, listening, acceptor, accepts, setups,
                 io_stopped, ops, reason, own_io_service>>

MakeWork(c) ==
  /\ at[c] = "make_work" /\ Go(c, "run_pool")
  /\ work' = TRUE
  /\ UNCHANGED <<pc, next, mutex, futures, thread, stopped, life, calls, dirty,
                 cause, listening_mutex, listening, acceptor, accepts, setups,
                 io_stopped, ops, reason, overlapped, own_io_service>>

\* run(false) of the pool if the controller has an io_service of its own,
\* run(true) if not.
RunPool(c) ==
  /\ at[c] = "run_pool" /\ Go(c, "in_pool")
  /\ Call(c, IF own_io_service THEN "start" ELSE "start_block")
  /\ UNCHANGED <<listening_mutex, listening, acceptor, accepts, setups,
                 io_stopped, ops, reason, own_io_service>>

\* The pool's run has returned, and the controller's own io_service is next.
RunOwnIoService(c) ==
  /\ at[c] = "in_pool" /\ pc[c] = "idle" /\ own_io_service
  /\ Go(c, "in_io")
  /\ UNCHANGED <<vars, listening_mutex, listening, acceptor, accepts, setups,
                 io_stopped, ops, reason, own_io_service>>

\* What the end of run, by a return or an exception, does: destroy the work
\* object.
LeaveControllerRun(c) ==
  /\ Go(c, "out")
  /\ work' = (Running # {c})
  /\ UNCHANGED <<pc, next, mutex, futures, thread, stopped, life, calls, dirty,
                 cause, listening_mutex, listening, acceptor, accepts, setups,
                 io_stopped, ops, overlapped, own_io_service>>

\* Without an io_service of its own, run returns when the pool's does.
RunReturns(c) ==
  /\ at[c] = "in_pool" /\ pc[c] = "idle" /\ ~own_io_service
  /\ LeaveControllerRun(c) /\ UNCHANGED reason

\* The pool's run could not launch its threads.
RunThrows(c) ==
  /\ at[c] = "leaving"
  /\ LeaveControllerRun(c) /\ UNCHANGED reason

\* With one, when that is stopped or has nothing left to do: an async_accept
\* under way keeps it busy.
OwnRunReturns(c) ==
  /\ at[c] = "in_io" /\ (io_stopped \/ accepts = 0)
  /\ LeaveControllerRun(c) /\ UNCHANGED reason

\* A handler it runs throws.
OwnRunThrows(c) ==
  /\ at[c] = "in_io" /\ ~io_stopped
  /\ LeaveControllerRun(c) /\ reason' = TRUE

-----------------------------------------------------------------------------
(* stop                                                                    *)

\* Mutant: the controller's own io_service is not stopped.
StopPoolOnly(c) ==
  /\ at[c] = "stop" /\ listening_mutex = Nobody /\ listening
  /\ Go(c, "stopping") /\ listening_mutex' = c
  /\ Call(c, "stop")
  /\ reason' = TRUE
  /\ UNCHANGED <<listening, acceptor, accepts, setups, io_stopped, ops,
                 own_io_service>>

\* stop keeps the mutex while it stops the pool.
Stop(c) ==
  /\ at[c] = "stop" /\ listening_mutex = Nobody /\ listening
  /\ Go(c, "stopping") /\ listening_mutex' = c
  /\ io_stopped' = own_io_service
  /\ Call(c, "stop")
  /\ reason' = TRUE
  /\ UNCHANGED <<listening, acceptor, accepts, setups, ops, own_io_service>>

StopReturned(c) ==
  /\ at[c] = "stopping" /\ pc[c] = "idle"
  /\ Go(c, "out") /\ listening_mutex' = Nobody
  /\ UNCHANGED <<vars, listening, acceptor, accepts, setups, io_stopped, ops,
                 reason, own_io_service>>

\* A stop that comes before listen does nothing, and is not remembered.
StopTooEarly(c) ==
  /\ at[c] = "stop" /\ listening_mutex = Nobody /\ ~listening
  /\ Go(c, "out")
  /\ UNCHANGED <<vars, listening_mutex, listening, acceptor, accepts, setups,
                 io_stopped, ops, reason, own_io_service>>

-----------------------------------------------------------------------------
(* The handler of async_accept                                             *)

\* A thread runs the io_service the acceptor is on.
AcceptorIsRun ==
  IF own_io_service THEN ~io_stopped /\ \E c \in Callers : at[c] = "in_io"
  ELSE \E i \in ThreadIds : ServiceOf(i) = AcceptorService /\ thread[i] = "running"

\* Mutant: the handler accepts again only if it had no error.
HandleAcceptOnce ==
  /\ accepts > 0 /\ AcceptorIsRun
  /\ \/ setups < MaxConnections /\ setups' = setups + 1 /\ UNCHANGED accepts
     \/ accepts' = accepts - 1 /\ UNCHANGED setups
  /\ UNCHANGED <<vars, at, listening_mutex, listening, acceptor, io_stopped,
                 ops, reason, own_io_service>>

\* A connection is accepted and its set-up posted to its strand, or there is
\* an error; the next async_accept is made in either case.
HandleAccept ==
  /\ accepts > 0 /\ AcceptorIsRun
  /\ \/ setups < MaxConnections /\ setups' = setups + 1
     \/ UNCHANGED setups
  /\ UNCHANGED <<vars, at, listening_mutex, listening, acceptor, accepts,
                 io_stopped, ops, reason, own_io_service>>

-----------------------------------------------------------------------------
(* The pool                                                                *)

\* The pool's start could not launch its threads and throws, out of run.
RunPoolThrows(c) ==
  /\ LaunchFails(c) /\ Go(c, "leaving")
  /\ reason' = TRUE
  /\ UNCHANGED <<listening_mutex, listening, acceptor, accepts, setups,
                 io_stopped, ops, own_io_service>>

\* A handler run by the pool throws.
PoolHandlerThrows(i) ==
  /\ HandlerThrows(i)
  /\ reason' = TRUE
  /\ UNCHANGED <<at, listening_mutex, listening, acceptor, accepts, setups,
                 io_stopped, ops, own_io_service>>

\* An io_service that has an async_accept to wait for does not run out of work.
PoolRunsOutOfWork(i) ==
  /\ ~own_io_service /\ ServiceOf(i) = AcceptorService => accepts = 0
  /\ RunOutOfWork(i)
  /\ UNCHANGED cvars

PoolStep(c) ==
  /\ StartRefused(c) \/ Launch(c) \/ StartReturns(c) \/ StopOne(c)
  /\ UNCHANGED cvars

PoolThreadStep(i) ==
  /\ EnterRun(i) \/ LeaveRun(i)
  /\ UNCHANGED cvars

-----------------------------------------------------------------------------
(* The specification                                                       *)

ControllerStep(c) ==
  \/ Listen(c)
  \/ MakeWork(c) \/ RunPool(c) \/ RunOwnIoService(c)
  \/ RunReturns(c) \/ RunThrows(c) \/ OwnRunReturns(c)
  \/ Stop(c) \/ StopReturned(c) \/ StopTooEarly(c)
  \/ PoolStep(c) \/ RunPoolThrows(c)

ControllerNext ==
  \/ \E c \in Callers : Enter(c) \/ ControllerStep(c) \/ OwnRunThrows(c)
  \/ \E i \in ThreadIds :
       PoolThreadStep(i) \/ PoolHandlerThrows(i) \/ PoolRunsOutOfWork(i)
  \/ HandleAccept

ControllerSpec == ControllerInit /\ [][ControllerNext]_allvars

\* A thread that can go on does, and notices that what it runs is stopped.
\* Resolving, binding and listening end.  Nobody is made to call anything, no
\* handler to throw and no switch to connect.
ControllerFairness ==
  /\ \A c \in Callers : WF_allvars(ControllerStep(c))
  /\ \A i \in ThreadIds : WF_allvars(PoolThreadStep(i))

FairControllerSpec == ControllerSpec /\ ControllerFairness

-----------------------------------------------------------------------------
(* Properties                                                              *)

\* As long as the controller listens there is exactly one async_accept, however
\* many threads listen or run, and whatever becomes of a connection: switches
\* can always connect, and no endpoint is filled in by two accepts at once.
OneAcceptWhileListening == accepts = IF listening THEN 1 ELSE 0

\* While nobody stops the controller and nothing throws, every thread of the
\* pool serves connections: the work object keeps idle io_services running.
ThreadsServe == \A i \in ThreadIds : thread[i] = "ended" => reason

\* ... and a run that has begun to serve does not return.
RunLasts ==
  [][\A c \in Callers : c \in Running /\ at'[c] = "out" => reason']_allvars

\* Once the controller listens, a call of stop makes every run under way come
\* back, also one that has not got as far as the pool.
StopEndsRuns ==
  \A d \in Callers :
    (/\ listening /\ \E c \in Callers : at[c] = "stop"
     /\ d \in Running \/ at[d] = "make_work")
    ~> (at[d] = "out")
=============================================================================
