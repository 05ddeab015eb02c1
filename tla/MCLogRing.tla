----------------------------- MODULE MCLogRing -----------------------------
(* Small instances of LogRing: the thread of the loop, and that of the     *)
(* health probes.                                                          *)
EXTENDS LogRing
=============================================================================
