------------------------------ MODULE MCMailbox ------------------------------
(* Model-checking instance of the durable mailbox: one direct and one        *)
(* broadcast message, with the payloads and lifetimes that differ in what    *)
(* the agent does with them.                                                 *)
EXTENDS Mailbox
CONSTANTS d1, b1

MCKinds == {[semantic |-> {d1, b1}, ttl |-> {b1}], [semantic |-> {b1}, ttl |-> {d1}]}
=============================================================================
