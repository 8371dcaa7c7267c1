--------------------------- MODULE MCEdgeJournal ---------------------------
(* Model-checking instances of the edge invocation journal.                 *)
EXTENDS EdgeJournal, TLC

Symmetry == Permutations(Requests)
=============================================================================
