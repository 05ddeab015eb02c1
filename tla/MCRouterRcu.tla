---------------------------- MODULE MCRouterRcu ----------------------------
(* Small instances of RouterRcu.  Routers and connections are              *)
(* interchangeable.                                                        *)
EXTENDS RouterRcu, TLC

Symmetry == Permutations(Routers) \cup Permutations(Conns)
=============================================================================
