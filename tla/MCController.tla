---------------------------- MODULE MCController ----------------------------
(***************************************************************************)
(* An instance of Controller: two threads that call it, and a pool of two  *)
(* io_services with a thread each.  The acceptor is on the second, which   *)
(* run does not run itself.                                                *)
(***************************************************************************)
EXTENDS Controller

CONSTANTS c1, c2

TwoCallers == {c1, c2}
=============================================================================
