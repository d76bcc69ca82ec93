-------------------------- MODULE MCSetupConnection --------------------------
(***************************************************************************)
(* An instance of SetupConnection: three protocol versions, of which the   *)
(* controller supports two (OpenFlow 1.0 and 1.3 in the examples).         *)
(***************************************************************************)
EXTENDS SetupConnection
=============================================================================
