---------------------------- MODULE MCSupervisor ----------------------------
(***************************************************************************)
(* Supervisor with a few workers and signals, for TLC.                     *)
(***************************************************************************)
EXTENDS Supervisor
=============================================================================
