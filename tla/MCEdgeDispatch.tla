--------------------------- MODULE MCEdgeDispatch ---------------------------
(* Model-checking instances of the edge dispatch queue.                     *)
EXTENDS EdgeDispatch, TLC

CONSTANTS r1, r2, c1, c2, c3

\* Two callers of one invocation and, with c3, one of another
McTarget(c) == IF c = c3 THEN r2 ELSE r1
Symmetry == Permutations({c1, c2})
=============================================================================
