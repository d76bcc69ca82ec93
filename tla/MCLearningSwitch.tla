-------------------------- MODULE MCLearningSwitch --------------------------
(***************************************************************************)
(* Two stations, and times in half ticks: an entry outlasts one tick.      *)
(***************************************************************************)
EXTENDS LearningSwitch

CONSTANTS a, b

=============================================================================
