--------------------------- MODULE SetupConnection ---------------------------
(***************************************************************************)
(* The set-up of one accepted connection: send a hello, receive the        *)
(* switch's hello in one or two reads, choose the highest version both     *)
(* sides know, and hand the socket to a channel of that version.  A        *)
(* connection timeout is armed for every step but the last error message.  *)
(*                                                                         *)
(* Every handler runs in the connection's strand, so an action is one      *)
(* handler.  Between the moment an operation or a timer completes and the  *)
(* moment its handler runs, others may run: that is where a timeout and a  *)
(* late answer race.                                                       *)
(***************************************************************************)
EXTENDS Integers, FiniteSets, FiniteSetsExt

CONSTANTS Versions,   \* the protocol versions there are
          Supported,  \* those of the controller (ControllerHandler::versions)
          NoVersion   \* no channel has been started

ASSUME VersionsAssumption ==
  /\ Versions \subseteq Nat /\ Supported \subseteq Versions
  /\ IsFiniteSet(Supported) /\ NoVersion \notin Versions

\* What the switch sends: whether its hello's header is acceptable, whether
\* elements follow the header, and what hello::support says.
Hellos == [valid : BOOLEAN, elements : BOOLEAN, versions : SUBSET Versions]

VARIABLES
  peer,       \* the hello of the switch
  op,         \* the operation started on the socket, if any
  io,         \* whether it is under way, or how it completed
  socket,     \* socket_: open, closed, or moved into a channel
  timeoutId,  \* timer::timeout_id_
  waits,      \* handlers of the timer that have not run
  closes,     \* how often close was called, and why
  channel     \* the version of the channel started

vars == <<peer, op, io, socket, timeoutId, waits, closes, channel>>

Steps == {"send_hello", "receive_header", "receive_elements"}

Reasons == {"io", "invalid", "incompatible", "timeout"}

\* A timer handler remembers the id the timer had when it was made; "step" is
\* the operation the timeout guards (no such field in the code).
Waits == [id : Nat, step : Steps, st : {"waiting", "expired", "cancelled"}]

TypeOK ==
  /\ peer \in Hellos
  /\ op \in Steps \cup {"start", "send_error", "none"}
  /\ io \in {"pending", "ok", "failed"}
  /\ socket \in {"open", "closed", "moved"}
  /\ timeoutId \in Nat
  /\ waits \subseteq Waits /\ IsFiniteSet(waits)
  /\ closes \in [Reasons -> Nat]
  /\ channel \in Supported \cup {NoVersion}

Init ==
  /\ peer \in Hellos
  /\ op = "start" /\ io = "ok"
  /\ socket = "open"
  /\ timeoutId = 0 /\ waits = {}
  /\ closes = [r \in Reasons |-> 0]
  /\ channel = NoVersion

-----------------------------------------------------------------------------
(* The socket                                                              *)

\* An operation started on a closed socket fails at once.
StartOperation(name, closed) ==
  /\ op' = name
  /\ io' = IF closed THEN "failed" ELSE "pending"

\* It ends: with an error, or as it should.
CompleteOperation(result) ==
  /\ op # "none" /\ io = "pending"
  /\ io' = result
  /\ UNCHANGED <<peer, op, socket, timeoutId, waits, closes, channel>>

NoOperation == op' = "none" /\ io' = "ok"

\* close: close the socket and write the reason.  An operation under way is
\* aborted, one that has completed keeps its result; a socket that was moved
\* away is not there to close.
Close(reason) ==
  /\ socket' = IF socket = "open" THEN "closed" ELSE socket
  /\ closes' = [closes EXCEPT ![reason] = @ + 1]

-----------------------------------------------------------------------------
(* The timer                                                               *)

\* Mutant: timer::cancel leaves the id, and relies on timer_.cancel() alone.
CancelledKeepingId == timeoutId

\* The id after timer::cancel, and what timer_.cancel() does to the waits:
\* a handler already queued by an expiry is not called back.
Cancelled == timeoutId + 1

CancelWaits ==
  { IF w.st = "waiting" THEN [w EXCEPT !.st = "cancelled"] ELSE w : w \in waits }

\* cancel_connection_timeout, at the start of every handler
CancelTimeout == timeoutId' = Cancelled /\ waits' = CancelWaits

\* cancel_connection_timeout, and then set_connection_timeout for a new step
RearmTimeout(step) ==
  /\ timeoutId' = Cancelled + 1
  /\ waits' = CancelWaits \cup
                {[id |-> Cancelled + 1, step |-> step, st |-> "waiting"]}

Expire(w) ==
  /\ w.st = "waiting"
  /\ waits' = (waits \ {w}) \cup {[w EXCEPT !.st = "expired"]}
  /\ UNCHANGED <<peer, op, io, socket, timeoutId, closes, channel>>

\* Mutant: the handler trusts its error code and does not check the id.
TimeoutHandlerUnchecked(w) ==
  /\ w.st # "waiting"
  /\ waits' = waits \ {w}
  /\ IF w.st = "expired"
     THEN /\ Close("timeout")
          /\ io' = IF io = "pending" THEN "failed" ELSE io
     ELSE UNCHANGED <<io, socket, closes>>
  /\ UNCHANGED <<peer, op, timeoutId, channel>>

\* timeout_check_handler: an expiry that cancel() could not call back any
\* more is known by its id.
TimeoutHandler(w) ==
  /\ w.st # "waiting"
  /\ waits' = waits \ {w}
  /\ IF w.st = "expired" /\ w.id = timeoutId
     THEN /\ Close("timeout")
          /\ io' = IF io = "pending" THEN "failed" ELSE io
     ELSE UNCHANGED <<io, socket, closes>>
  /\ UNCHANGED <<peer, op, timeoutId, channel>>

-----------------------------------------------------------------------------
(* The steps                                                               *)

\* start_setup: send the hello with version_bitmap, arm the timeout.
StartSetup ==
  /\ op = "start"
  /\ StartOperation("send_hello", socket = "closed")
  /\ timeoutId' = timeoutId + 1
  /\ waits' = {[id |-> timeoutId + 1, step |-> "send_hello", st |-> "waiting"]}
  /\ UNCHANGED <<peer, socket, closes, channel>>

\* A handler that finds an error, or a header that is no hello's, closes.
FailStep(reason) ==
  /\ CancelTimeout
  /\ NoOperation
  /\ Close(reason)
  /\ UNCHANGED <<peer, channel>>

\* Mutant: the next read is not guarded.
NextStepUnguarded(step) ==
  /\ CancelTimeout
  /\ StartOperation(step, socket = "closed")
  /\ UNCHANGED <<peer, socket, closes, channel>>

\* A handler starts the next operation and arms the timeout for it.
NextStep(step) ==
  /\ RearmTimeout(step)
  /\ StartOperation(step, socket = "closed")
  /\ UNCHANGED <<peer, socket, closes, channel>>

\* The handler of async_send_hello
HelloSent ==
  /\ op = "send_hello"
  /\ \/ io = "failed" /\ FailStep("io")
     \/ io = "ok" /\ NextStep("receive_header")

Common == Supported \cap peer.versions

\* Mutant: for_each goes through the versions in ascending order.
LowestVersion == Min(Common)

\* supported_versions is sorted in descending order: the first match wins.
ChosenVersion == Max(Common)

\* channel_starter: move the socket into a channel and run it, which calls
\* the controller's hello handler.
StartChannel ==
  /\ Common # {}
  /\ channel' = ChosenVersion
  /\ socket' = "moved"
  /\ NoOperation
  /\ UNCHANGED closes

\* async_send_incompatible_error: nothing guards this write.
SendIncompatibleError ==
  /\ Common = {}
  /\ StartOperation("send_error", socket = "closed")
  /\ UNCHANGED <<socket, closes, channel>>

\* handle_hello, the end of the handlers of the two reads
HandleHello ==
  /\ CancelTimeout
  /\ StartChannel \/ SendIncompatibleError
  /\ UNCHANGED peer

\* The handler of async_receive_hello
HeaderReceived ==
  /\ op = "receive_header"
  /\ \/ io = "failed" /\ FailStep("io")
     \/ io = "ok" /\ ~peer.valid /\ FailStep("invalid")
     \/ io = "ok" /\ peer.valid /\ ~peer.elements /\ HandleHello
     \/ io = "ok" /\ peer.valid /\ peer.elements /\ NextStep("receive_elements")

\* The handler of async_receive_hello_elements
ElementsReceived ==
  /\ op = "receive_elements"
  /\ \/ io = "failed" /\ FailStep("io")
     \/ io = "ok" /\ HandleHello

\* Mutant: the connection is left open after the error message.
ErrorSentKeepingSocket ==
  /\ op = "send_error" /\ io # "pending"
  /\ NoOperation
  /\ UNCHANGED <<peer, socket, timeoutId, waits, closes, channel>>

\* The handler of async_send_incompatible_error ignores its error code.
ErrorSent ==
  /\ op = "send_error" /\ io # "pending"
  /\ NoOperation
  /\ Close("incompatible")
  /\ UNCHANGED <<peer, timeoutId, waits, channel>>

-----------------------------------------------------------------------------
Handler == HelloSent \/ HeaderReceived \/ ElementsReceived \/ ErrorSent

Next ==
  \/ StartSetup \/ HelloSent \/ HeaderReceived \/ ElementsReceived \/ ErrorSent
  \/ \E result \in {"ok", "failed"} : CompleteOperation(result)
  \/ \E w \in waits : Expire(w) \/ TimeoutHandler(w)

Spec == Init /\ [][Next]_vars

(***************************************************************************)
(* The io_service runs handlers that are ready, and the clock goes on.     *)
(* The switch owes nothing: it need not read, nor send a hello.  Only the  *)
(* short error message, which no timeout guards, is assumed to be written  *)
(* or to fail in the end.                                                  *)
(***************************************************************************)
Fairness ==
  /\ WF_vars(StartSetup) /\ WF_vars(Handler)
  /\ WF_vars(\E w \in waits : Expire(w))
  /\ WF_vars(\E w \in waits : TimeoutHandler(w))
  /\ WF_vars(op = "send_error"
               /\ \E result \in {"ok", "failed"} : CompleteOperation(result))

FairSpec == Spec /\ Fairness

-----------------------------------------------------------------------------
(* Safety                                                                  *)

\* The channel speaks the highest version both sides know.
HighestCommonVersion ==
  channel # NoVersion =>
    /\ channel \in Supported \cap peer.versions
    /\ \A v \in Supported \cap peer.versions : v <= channel

\* While the set-up waits for the switch, a timeout that is still good is on
\* its way: no step can take for ever.  (The error message is not such a step.)
EveryStepIsGuarded ==
  op \in Steps /\ io = "pending" =>
    \E w \in waits : /\ w.id = timeoutId /\ w.step = op
                     /\ w.st \in {"waiting", "expired"}

\* A timeout never interferes with a later step than its own, even when the
\* timer expired just before the step's handler cancelled it: whenever it
\* closes the connection, its step has not been handled.
TimeoutsCloseTheirStep ==
  [][\A w \in waits :
       w \notin waits' /\ closes'["timeout"] > closes["timeout"]
         => w.step = op]_vars

\* Once a channel has the socket, or the set-up has closed it after a failure,
\* a refusal or a timeout, a handler that is still queued does not touch the
\* connection again.
HandoverIsFinal ==
  [][channel # NoVersion \/ op = "none" =>
       UNCHANGED <<channel, socket, closes, op>>]_vars

-----------------------------------------------------------------------------
(* Liveness                                                                *)

\* The set-up ends, whatever the switch does or omits: with a channel, or
\* with the socket closed and nothing left to run that would keep the
\* setup_connection object alive.
SetupEnds ==
  <>[](/\ op = "none" /\ waits = {}
       /\ channel # NoVersion \/ socket = "closed")

=============================================================================
