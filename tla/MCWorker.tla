------------------------------ MODULE MCWorker ------------------------------
(***************************************************************************)
(* Worker with few and with many descriptors, for TLC.                     *)
(***************************************************************************)
EXTENDS Worker

FewAndMany == {7, 9}
Few == {7}
Many == {9}
=============================================================================
