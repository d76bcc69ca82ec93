------------------------ MODULE SetupConnection_proofs ------------------------
(***************************************************************************)
(* Proofs about the timeouts of SetupConnection and the version it         *)
(* chooses, for any versions and any interleaving of expiries, completions *)
(* and handlers.                                                           *)
(***************************************************************************)
EXTENDS SetupConnection, FiniteSetTheorems, WellFoundedInduction, TLAPS

SetupType ==
  /\ timeoutId \in Nat
  /\ waits \subseteq Waits
  /\ io \in {"pending", "ok", "failed"}
  /\ closes \in [Reasons -> Nat]

\* The id of the timer names the step under way: a handler made for an
\* earlier step has an earlier id, and only such a handler is cancelled.
TimerInv ==
  /\ \A w \in waits : w.id <= timeoutId
  /\ \A w \in waits : w.id = timeoutId => w.step = op /\ w.st # "cancelled"

\* A channel has been started only when nothing is left to do.
ChannelInv == channel # NoVersion => op = "none"

SetupInv == SetupType /\ TimerInv /\ ChannelInv /\ EveryStepIsGuarded

LEMMA InitSetupInv == Init => SetupInv
BY DEF Init, SetupInv, SetupType, TimerInv, ChannelInv, EveryStepIsGuarded,
       Steps

-----------------------------------------------------------------------------
\* Cancelling changes nothing of a wait but its state, and makes it old.
LEMMA CancelWaitsKeeps ==
  ASSUME SetupType, TimerInv
  PROVE  \A w \in CancelWaits : w \in Waits /\ w.id <= timeoutId
<1> SUFFICES ASSUME NEW w \in CancelWaits PROVE w \in Waits /\ w.id <= timeoutId
  OBVIOUS
<1>1. PICK u \in waits :
        w = IF u.st = "waiting" THEN [u EXCEPT !.st = "cancelled"] ELSE u
  BY DEF CancelWaits
<1>2. u \in Waits /\ u.id <= timeoutId
  BY DEF SetupType, TimerInv
<1>3. [u EXCEPT !.st = "cancelled"] \in Waits
        /\ [u EXCEPT !.st = "cancelled"].id = u.id
  BY <1>2 DEF Waits
<1> QED BY <1>1, <1>2, <1>3

LEMMA CancelTimeoutKeeps ==
  ASSUME SetupType, TimerInv, CancelTimeout
  PROVE  /\ timeoutId' \in Nat /\ waits' \subseteq Waits
         /\ \A w \in waits' : w.id < timeoutId'
<1>1. timeoutId' = timeoutId + 1 /\ waits' = CancelWaits
  BY DEF CancelTimeout, Cancelled
<1>2. \A w \in CancelWaits : w \in Waits /\ w.id \in Nat /\ w.id <= timeoutId
  BY CancelWaitsKeeps DEF Waits
<1> QED BY <1>1, <1>2 DEF SetupType

LEMMA FailStepKeeps ==
  ASSUME SetupInv, NEW reason \in Reasons, FailStep(reason)
  PROVE  SetupInv'
<1>1. /\ timeoutId' \in Nat /\ waits' \subseteq Waits
      /\ \A w \in waits' : w.id < timeoutId'
  BY CancelTimeoutKeeps DEF SetupInv, FailStep
<1>2. op' = "none" /\ io' = "ok" /\ closes' \in [Reasons -> Nat]
  BY DEF SetupInv, SetupType, FailStep, NoOperation, Close
<1>3. TimerInv'
  <2>1. \A w \in waits' : w.id \in Nat
    BY <1>1 DEF Waits
  <2> QED BY <1>1, <2>1 DEF TimerInv
<1> QED BY <1>1, <1>2, <1>3
    DEF SetupInv, SetupType, ChannelInv, EveryStepIsGuarded, Steps

LEMMA NextStepKeeps ==
  ASSUME SetupInv, NEW step \in Steps, NextStep(step), channel = NoVersion
  PROVE  SetupInv'
<1> DEFINE new == [id |-> timeoutId + 2, step |-> step, st |-> "waiting"]
<1>1. /\ timeoutId \in Nat /\ timeoutId' = timeoutId + 2
      /\ waits' = CancelWaits \cup {new}
  BY DEF SetupInv, SetupType, NextStep, RearmTimeout, Cancelled
<1>2. /\ op' = step /\ io' \in {"pending", "ok", "failed"}
      /\ UNCHANGED <<closes, channel>>
  BY DEF NextStep, StartOperation
<1>3. \A w \in CancelWaits : w \in Waits /\ w.id \in Nat /\ w.id < timeoutId'
  BY <1>1, CancelWaitsKeeps DEF SetupInv, Waits
<1>4. new \in Waits
  BY <1>1 DEF Waits
<1>5. SetupType'
  BY <1>1, <1>2, <1>3, <1>4 DEF SetupInv, SetupType
<1>6. TimerInv'
  BY <1>1, <1>2, <1>3 DEF TimerInv
<1>7. EveryStepIsGuarded'
  <2>1. /\ new \in waits' /\ new.id = timeoutId' /\ new.step = op'
        /\ new.st \in {"waiting", "expired"}
    BY <1>1, <1>2
  <2> QED BY <2>1 DEF EveryStepIsGuarded
<1> QED BY <1>2, <1>5, <1>6, <1>7 DEF SetupInv, ChannelInv

LEMMA HandleHelloKeeps ==
  ASSUME SetupInv, HandleHello, channel = NoVersion
  PROVE  SetupInv'
<1>1. /\ timeoutId' \in Nat /\ waits' \subseteq Waits
      /\ \A w \in waits' : w.id < timeoutId'
  BY CancelTimeoutKeeps DEF SetupInv, HandleHello
<1>2. /\ io' \in {"pending", "ok", "failed"} /\ closes' = closes
      /\ op' \in {"none", "send_error"}
      /\ channel' # NoVersion => op' = "none"
  BY DEF HandleHello, StartChannel, SendIncompatibleError, StartOperation,
         NoOperation
<1>3. TimerInv'
  <2>1. \A w \in waits' : w.id \in Nat
    BY <1>1 DEF Waits
  <2> QED BY <1>1, <2>1 DEF TimerInv
<1> QED BY <1>1, <1>2, <1>3
    DEF SetupInv, SetupType, ChannelInv, EveryStepIsGuarded, Steps

-----------------------------------------------------------------------------
LEMMA StartSetupKeeps ==
  ASSUME SetupInv, StartSetup
  PROVE  SetupInv'
<1> DEFINE new == [id |-> timeoutId + 1, step |-> "send_hello", st |-> "waiting"]
<1>1. /\ timeoutId \in Nat /\ timeoutId' = timeoutId + 1 /\ waits' = {new}
      /\ op' = "send_hello" /\ io' \in {"pending", "failed"}
      /\ UNCHANGED <<closes, channel>> /\ op = "start"
  BY DEF SetupInv, SetupType, StartSetup, StartOperation
<1>2. new \in Waits
  <2>1. "send_hello" \in Steps
    BY DEF Steps
  <2> QED BY <1>1, <2>1 DEF Waits
<1>3. /\ new.id = timeoutId' /\ new.step = op' /\ new.st = "waiting"
      /\ waits' = {new}
  BY <1>1
<1>4. SetupType' /\ ChannelInv'
  BY <1>1, <1>2 DEF SetupInv, SetupType, ChannelInv
<1>5. TimerInv' /\ EveryStepIsGuarded'
  BY <1>1, <1>3 DEF TimerInv, EveryStepIsGuarded
<1> QED BY <1>4, <1>5 DEF SetupInv

LEMMA CompleteOperationKeeps ==
  ASSUME SetupInv, NEW result \in {"ok", "failed"}, CompleteOperation(result)
  PROVE  SetupInv'
BY DEF SetupInv, SetupType, TimerInv, ChannelInv, EveryStepIsGuarded,
       CompleteOperation

LEMMA ExpireKeeps ==
  ASSUME SetupInv, NEW w \in waits, Expire(w)
  PROVE  SetupInv'
<1> DEFINE late == [w EXCEPT !.st = "expired"]
<1>1. /\ w.st = "waiting" /\ waits' = (waits \ {w}) \cup {late}
      /\ UNCHANGED <<op, io, timeoutId, closes, channel>>
  BY DEF Expire
<1>2. w \in Waits
  BY DEF SetupInv, SetupType
<1>3. /\ late \in Waits /\ late.id = w.id /\ late.step = w.step
      /\ late.st = "expired"
  BY <1>2 DEF Waits
<1>4. SetupType' /\ ChannelInv'
  BY <1>1, <1>3 DEF SetupInv, SetupType, ChannelInv
<1>5. TimerInv'
  BY <1>1, <1>3 DEF SetupInv, TimerInv
<1>6. EveryStepIsGuarded'
  <2> SUFFICES ASSUME op \in Steps, io = "pending"
               PROVE  \E u \in waits' : /\ u.id = timeoutId /\ u.step = op
                                        /\ u.st \in {"waiting", "expired"}
    BY <1>1 DEF EveryStepIsGuarded
  <2>1. PICK u \in waits : /\ u.id = timeoutId /\ u.step = op
                           /\ u.st \in {"waiting", "expired"}
    BY DEF SetupInv, EveryStepIsGuarded
  <2> QED BY <1>1, <1>3, <2>1
<1> QED BY <1>4, <1>5, <1>6 DEF SetupInv

LEMMA TimeoutHandlerKeeps ==
  ASSUME SetupInv, NEW w \in waits, TimeoutHandler(w)
  PROVE  SetupInv'
<1>1. waits' = waits \ {w} /\ UNCHANGED <<op, timeoutId, channel>>
  BY DEF TimeoutHandler
<1>2. SetupType' /\ TimerInv' /\ ChannelInv'
  <2>1. closes' \in [Reasons -> Nat]
    BY DEF SetupInv, SetupType, TimeoutHandler, Close, Reasons
  <2>2. io' \in {"pending", "ok", "failed"}
    BY DEF SetupInv, SetupType, TimeoutHandler
  <2> QED BY <1>1, <2>1, <2>2 DEF SetupInv, SetupType, TimerInv, ChannelInv
<1>3. EveryStepIsGuarded'
  <2>1. CASE w.st = "expired" /\ w.id = timeoutId
    <3>1. io' # "pending"
      BY <2>1 DEF TimeoutHandler
    <3> QED BY <3>1 DEF EveryStepIsGuarded
  <2>2. CASE ~(w.st = "expired" /\ w.id = timeoutId)
    <3>1. w.st # "waiting" /\ io' = io
      BY <2>2 DEF TimeoutHandler
    <3> SUFFICES ASSUME op \in Steps, io = "pending"
                 PROVE  \E u \in waits' : /\ u.id = timeoutId /\ u.step = op
                                          /\ u.st \in {"waiting", "expired"}
      BY <1>1, <3>1 DEF EveryStepIsGuarded
    <3>2. PICK u \in waits : /\ u.id = timeoutId /\ u.step = op
                             /\ u.st \in {"waiting", "expired"}
      BY DEF SetupInv, EveryStepIsGuarded
    <3>3. u # w
      BY <2>2, <3>1, <3>2
    <3> QED BY <1>1, <3>2, <3>3
  <2> QED BY <2>1, <2>2
<1> QED BY <1>2, <1>3 DEF SetupInv

LEMMA ErrorSentKeeps ==
  ASSUME SetupInv, ErrorSent
  PROVE  SetupInv'
<1>1. /\ op' = "none" /\ io' = "ok" /\ op = "send_error"
      /\ UNCHANGED <<timeoutId, waits, channel>>
  BY DEF ErrorSent, NoOperation
<1>2. closes' \in [Reasons -> Nat]
  <2>1. "incompatible" \in Reasons
    BY DEF Reasons
  <2> QED BY <2>1 DEF SetupInv, SetupType, ErrorSent, Close
<1>3. \A w \in waits : w.step \in Steps
  BY DEF SetupInv, SetupType, Waits
<1> QED BY <1>1, <1>2, <1>3 DEF SetupInv, SetupType, TimerInv, ChannelInv,
                                EveryStepIsGuarded, Steps

LEMMA NextSetupInv == SetupInv /\ [Next]_vars => SetupInv'
<1> SUFFICES ASSUME SetupInv, [Next]_vars PROVE SetupInv'
  OBVIOUS
<1>1. CASE StartSetup
  BY <1>1, StartSetupKeeps
<1>2. CASE HelloSent
  <2>1. channel = NoVersion
    BY <1>2 DEF HelloSent, SetupInv, ChannelInv
  <2> QED BY <1>2, <2>1, FailStepKeeps, NextStepKeeps
      DEF HelloSent, Reasons, Steps
<1>3. CASE HeaderReceived
  <2>1. channel = NoVersion
    BY <1>3 DEF HeaderReceived, SetupInv, ChannelInv
  <2> QED BY <1>3, <2>1, FailStepKeeps, NextStepKeeps, HandleHelloKeeps
      DEF HeaderReceived, Reasons, Steps
<1>4. CASE ElementsReceived
  <2>1. channel = NoVersion
    BY <1>4 DEF ElementsReceived, SetupInv, ChannelInv
  <2> QED BY <1>4, <2>1, FailStepKeeps, HandleHelloKeeps
      DEF ElementsReceived, Reasons
<1>5. CASE ErrorSent
  BY <1>5, ErrorSentKeeps
<1>6. CASE \E result \in {"ok", "failed"} : CompleteOperation(result)
  BY <1>6, CompleteOperationKeeps
<1>7. CASE \E w \in waits : Expire(w) \/ TimeoutHandler(w)
  BY <1>7, ExpireKeeps, TimeoutHandlerKeeps
<1>8. CASE UNCHANGED vars
  BY <1>8 DEF vars, SetupInv, SetupType, TimerInv, ChannelInv,
              EveryStepIsGuarded
<1> QED BY <1>1, <1>2, <1>3, <1>4, <1>5, <1>6, <1>7, <1>8 DEF Next

LEMMA SetupInvariance == Spec => []SetupInv
BY InitSetupInv, NextSetupInv, PTL DEF Spec

-----------------------------------------------------------------------------
\* As long as the set-up waits for the switch, a timeout that will be heeded
\* is on its way.
THEOREM NoStepIsUnguarded == Spec => []EveryStepIsGuarded
<1>1. SetupInv => EveryStepIsGuarded
  BY DEF SetupInv
<1> QED BY <1>1, SetupInvariance, PTL

\* timeout_check_handler does what it is for: a timeout that was queued
\* before its step ended closes nothing of a later step.
THEOREM TimeoutsAreNotLate == Spec => TimeoutsCloseTheirStep
<1> DEFINE A == \A w \in waits :
                  w \notin waits' /\ closes'["timeout"] > closes["timeout"]
                    => w.step = op
<1>1. SetupInv /\ [Next]_vars => [A]_vars
  <2> SUFFICES ASSUME SetupInv, Next, NEW w \in waits, w \notin waits',
                      closes'["timeout"] > closes["timeout"]
               PROVE  w.step = op
    OBVIOUS
  <2>1. closes \in [Reasons -> Nat] /\ closes["timeout"] \in Nat
    BY DEF SetupInv, SetupType, Reasons
  <2>2. closes' # closes
    BY <2>1
  <2>3. ASSUME NEW reason \in Reasons \ {"timeout"}, Close(reason) PROVE FALSE
    BY <2>1, <2>3 DEF Close
  <2>4. \E u \in waits : TimeoutHandler(u)
    BY <2>2, <2>3
    DEF Next, StartSetup, HelloSent, HeaderReceived, ElementsReceived,
        ErrorSent, FailStep, NextStep, HandleHello, StartChannel,
        SendIncompatibleError, CompleteOperation, Expire, Reasons
  <2>5. PICK u \in waits : TimeoutHandler(u)
    BY <2>4
  <2>6. w = u /\ u.id = timeoutId
    BY <2>2, <2>5 DEF TimeoutHandler
  <2> QED BY <2>6 DEF SetupInv, TimerInv
<1> QED BY <1>1, SetupInvariance, PTL DEF Spec, TimeoutsCloseTheirStep

\* Once a channel has been started, or the set-up has given up, the handlers of
\* the set-up that are still queued leave the connection as it is.
THEOREM HandoverHolds == Spec => HandoverIsFinal
<1> DEFINE A == channel # NoVersion \/ op = "none" =>
                  UNCHANGED <<channel, socket, closes, op>>
<1>1. SetupInv /\ [Next]_vars => [A]_vars
  <2> SUFFICES ASSUME SetupInv, Next, channel # NoVersion \/ op = "none"
               PROVE  UNCHANGED <<channel, socket, closes, op>>
    OBVIOUS
  <2>1. op = "none"
    BY DEF SetupInv, ChannelInv
  <2>2. CASE \E w \in waits : Expire(w) \/ TimeoutHandler(w)
    <3>1. PICK w \in waits : Expire(w) \/ TimeoutHandler(w)
      BY <2>2
    <3>2. w.id # timeoutId
      BY <2>1 DEF SetupInv, SetupType, TimerInv, Waits, Steps
    <3> QED BY <3>1, <3>2 DEF Expire, TimeoutHandler
  <2> QED BY <2>1, <2>2 DEF Next, StartSetup, HelloSent, HeaderReceived,
                            ElementsReceived, ErrorSent, CompleteOperation
<1> QED BY <1>1, SetupInvariance, PTL DEF Spec, HandoverIsFinal

-----------------------------------------------------------------------------
(* The version                                                             *)

\* A finite set of numbers has a greatest: one with the fewest above it.
LEMMA MaxOfFinite ==
  ASSUME NEW S, S \subseteq Nat, IsFiniteSet(S), S # {}
  PROVE  Max(S) \in S /\ \A v \in S : v <= Max(S)
<1> DEFINE Above(v) == {w \in S : w > v}
           T == {Above(v) : v \in S}
<1>1. T \subseteq FiniteSubsetsOf(S) /\ T # {}
  <2>1. \A v \in S : Above(v) \subseteq S
    OBVIOUS
  <2>2. \A v \in S : Above(v) \in FiniteSubsetsOf(S)
    BY <2>1, FS_FiniteSubsetsOfFinite
  <2> QED BY <2>2
<1>2. PICK t \in T : \A u \in T : ~(<<u, t>> \in StrictSubsetOrdering(S))
  <2> HIDE DEF T
  <2> QED BY <1>1, FS_StrictSubsetOrderingWellFounded, WFMin
<1>3. PICK v \in S : t = Above(v)
  BY <1>2
<1>4. \A w \in S : w <= v
  <2> SUFFICES ASSUME NEW w \in S, w > v PROVE FALSE
    OBVIOUS
  <2>1. Above(w) \subseteq Above(v) /\ w \in Above(v) /\ w \notin Above(w)
    <3>1. v \in Nat /\ w \in Nat /\ \A x \in S : x \in Nat
      OBVIOUS
    <3>2. \A x \in S : x > w => x > v
      BY <3>1
    <3>3. ~(w > w)
      BY <3>1
    <3> QED BY <3>2, <3>3
  <2>2. <<Above(w), Above(v)>> \in StrictSubsetOrdering(S)
    BY <2>1 DEF StrictSubsetOrdering
  <2> QED BY <1>2, <1>3, <2>2
<1>5. \E x \in S : \A y \in S : x >= y
  BY <1>4
<1> QED BY <1>5 DEF Max

\* What is chosen is common, and nothing that is common is higher.
LEMMA ChosenIsHighest ==
  ASSUME Common # {}
  PROVE  ChosenVersion \in Common /\ \A v \in Common : v <= ChosenVersion
<1>1. Common \subseteq Nat /\ IsFiniteSet(Common)
  BY VersionsAssumption, FS_Subset DEF Common
<1> QED BY <1>1, MaxOfFinite DEF ChosenVersion

\* The channel that is started speaks the highest version that both the
\* controller and the switch know.
THEOREM VersionIsHighest == Spec => []HighestCommonVersion
<1>1. Init => HighestCommonVersion
  BY DEF Init, HighestCommonVersion
<1>2. HighestCommonVersion /\ [Next]_vars => HighestCommonVersion'
  <2> SUFFICES ASSUME HighestCommonVersion, [Next]_vars
               PROVE  HighestCommonVersion'
    OBVIOUS
  <2>1. UNCHANGED peer
    BY DEF Next, vars, StartSetup, HelloSent, HeaderReceived, ElementsReceived,
           ErrorSent, FailStep, NextStep, HandleHello, CompleteOperation,
           Expire, TimeoutHandler
  <2>2. \/ UNCHANGED channel
        \/ Common # {} /\ channel' = ChosenVersion
    BY DEF Next, vars, StartSetup, HelloSent, HeaderReceived, ElementsReceived,
           ErrorSent, FailStep, NextStep, HandleHello, StartChannel,
           SendIncompatibleError, CompleteOperation, Expire, TimeoutHandler
  <2> QED BY <2>1, <2>2, ChosenIsHighest DEF HighestCommonVersion, Common
<1> QED BY <1>1, <1>2, PTL DEF Spec

=============================================================================
