--------------------------- MODULE MCBackendPool ---------------------------
(* Small instances of BackendPool.  Connections are interchangeable.       *)
EXTENDS BackendPool, TLC

Even   == [i \in Servers |-> 1]
Uneven == [i \in Servers |-> IF i = 0 THEN 2 ELSE 1]

Symmetry == Permutations(Conns)
=============================================================================
