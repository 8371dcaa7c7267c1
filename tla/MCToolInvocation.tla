-------------------------- MODULE MCToolInvocation --------------------------
(* ToolInvocation on a small instance: attempts are interchangeable.          *)
EXTENDS ToolInvocation, TLC

CallSymmetry == Permutations(Calls)
=============================================================================
