--------------------------- MODULE MCInteraction ---------------------------
(* Two approvals: of a batch of two edge calls, or of one edge call and one   *)
(* server tool.                                                               *)
EXTENDS Interaction

CONSTANTS r1, r2

MCBatches == {<<r1, r2>>, <<r1>>}
=============================================================================
