----------------------------- MODULE MCEdgePool -----------------------------
(* Model-checking instances of the edge connection pool.                    *)
EXTENDS EdgePool, TLC

Symmetry == Permutations(Requests)
=============================================================================
