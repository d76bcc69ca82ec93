---------------------------- MODULE Transactions ----------------------------
(***************************************************************************)
(* What the transaction decorator promises the application that made the   *)
(* requests: a request gets at most one answer, a receive ends once, and a *)
(* receive that ends after its request was answered ends with the answer,  *)
(* however the timer and the answer raced.  There is no table, strand,     *)
(* timer or reference count here.                                          *)
(*                                                                         *)
(* The answer's contents go to the first receive that ends with it; a      *)
(* later one gets the message without its contents ("hollow").             *)
(***************************************************************************)
EXTENDS Integers

CONSTANTS Requests, MaxReceives

VARIABLES answer,   \* what the switch answered to a request, if anything
          taken,    \* whether a receive took the answer's contents
          outcome   \* how a receive ended, if it has been made and has ended

vars == <<answer, taken, outcome>>

Calls == Requests \X (1..MaxReceives)

Init ==
  /\ answer = [r \in Requests |-> "empty"]
  /\ taken = [r \in Requests |-> FALSE]
  /\ outcome = [c \in Calls |-> "none"]

Answer(r, kind) ==
  /\ answer[r] = "empty"
  /\ answer' = [answer EXCEPT ![r] = kind]
  /\ UNCHANGED <<taken, outcome>>

Receive(c) ==
  /\ outcome[c] = "none"
  /\ outcome' = [outcome EXCEPT ![c] = "pending"]
  /\ UNCHANGED <<answer, taken>>

\* A receive may end in the very step that makes it.
Take(c) ==
  /\ outcome[c] \in {"none", "pending"} /\ answer[c[1]] # "empty"
  /\ outcome' = [outcome EXCEPT
                   ![c] = IF taken[c[1]] THEN "hollow" ELSE "answer"]
  /\ taken' = [taken EXCEPT ![c[1]] = TRUE]
  /\ UNCHANGED answer

TimeOut(c) ==
  /\ outcome[c] = "pending" /\ answer[c[1]] = "empty"
  /\ outcome' = [outcome EXCEPT ![c] = "timeout"]
  /\ UNCHANGED <<answer, taken>>

\* A receive gives way to another one on the same request.
Abort(c) ==
  /\ outcome[c] = "pending" /\ answer[c[1]] = "empty"
  /\ \E d \in Calls : d # c /\ d[1] = c[1] /\ outcome[d] # "none"
  /\ outcome' = [outcome EXCEPT ![c] = "aborted"]
  /\ UNCHANGED <<answer, taken>>

Next ==
  \/ \E r \in Requests, kind \in {"reply", "error"} : Answer(r, kind)
  \/ \E c \in Calls : Receive(c) \/ Take(c) \/ TimeOut(c) \/ Abort(c)

Spec == Init /\ [][Next]_vars

FairSpec ==
  Spec /\ \A c \in Calls : WF_vars(outcome[c] = "pending" /\ Take(c))

=============================================================================
