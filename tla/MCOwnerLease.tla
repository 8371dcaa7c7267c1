---------------------------- MODULE MCOwnerLease ----------------------------
(* Model-checking instance of the owner-lease heartbeat.                    *)
EXTENDS OwnerLease
=============================================================================
