--------------------------- MODULE MCIoServicePool ---------------------------
(***************************************************************************)
(* Instances of IoServicePool: three threads use a pool of two io_services,*)
(* and two a pool of one.                                                  *)
(***************************************************************************)
EXTENDS IoServicePool

CONSTANTS c1, c2, c3

TwoCallers == {c1, c2}
ThreeCallers == {c1, c2, c3}
=============================================================================
