--------------------------- MODULE MCConnManager ---------------------------
(* Small instances of ConnManager.  Connections, slots and backends are    *)
(* interchangeable.                                                        *)
EXTENDS ConnManager, TLC

Symmetry == Permutations(Conns) \cup Permutations(Slots) \cup Permutations(Backends)
=============================================================================
