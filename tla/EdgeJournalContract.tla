------------------------ MODULE EdgeJournalContract ------------------------
(***************************************************************************)
(* What the edge invocation journal promises, with no files in it: one     *)
(* durable record per request that changes one legal step at a time, an    *)
(* execution that starts only with a fresh record, a stored result that is *)
(* at most once replaced, by the evidence that the outcome is unknown, and *)
(* a record that disappears only after the server has acknowledged its     *)
(* result.                                                                 *)
(***************************************************************************)
EXTENDS Naturals

CONSTANTS Requests, MaxGen, NoRecord

VARIABLES
    records,   \* the record of each request, or NoRecord
    told,      \* results sent and not yet acknowledged
    runs       \* executions since the last acknowledgement

vars == <<records, told, runs>>

Gens == 1..MaxGen
Terminal == {"completed", "unknown"}
Stored == {r \in Requests : records[r] # NoRecord /\ records[r].state \in Terminal}
Message(r) == [id |-> r, gen |-> records[r].gen, result |-> records[r].result]

Init ==
    /\ records = [r \in Requests |-> NoRecord]
    /\ told = {} /\ runs = [r \in Requests |-> 0]

\* A fresh record is running, or is a refusal that never ran.
Fresh(g) == {[state |-> "running", gen |-> g, exec |-> g, result |-> "none"],
             [state |-> "completed", gen |-> g, exec |-> 0, result |-> "rejected"]}

Admit(r) ==
    /\ records[r] = NoRecord
    /\ \E g \in Gens : \E rec \in Fresh(g) :
         /\ records' = [records EXCEPT ![r] = rec]
         /\ runs' \in {runs} \cup
              IF rec.state = "running" THEN {[runs EXCEPT ![r] = @ + 1]} ELSE {}
    /\ told' \in {told, told \cup {Message(r)'}}

Readdress(r) ==
    /\ records[r] # NoRecord
    /\ \E g \in Gens : records' = [records EXCEPT ![r] = [@ EXCEPT !.gen = g]]
    /\ told' \in {told} \cup IF r \in Stored THEN {told \cup {Message(r)'}} ELSE {}
    /\ UNCHANGED runs

\* A tool's result that the new delivery cannot carry is withdrawn.
Withdraw(r) ==
    /\ r \in Stored /\ records[r].result = "done"
    /\ \E g \in Gens : records' =
         [records EXCEPT ![r] = [@ EXCEPT !.gen = g, !.state = "unknown", !.result = "unknown"]]
    /\ told' \in {told, told \cup {Message(r)'}}
    /\ UNCHANGED runs

Settle(r) ==
    /\ records[r] # NoRecord /\ records[r].state = "running"
    /\ \E s \in Terminal, x \in {"done", "unknown", "rejected"} :
         records' = [records EXCEPT ![r] = [@ EXCEPT !.state = s, !.result = x]]
    /\ told' \in {told, told \cup {Message(r)'}}
    /\ UNCHANGED runs

Replay ==
    /\ told' = told \cup {Message(r) : r \in Stored}
    /\ UNCHANGED <<records, runs>>

Acknowledged(r) ==
    /\ r \in Stored
    /\ told' = {m \in told : m.id # r}
    /\ runs' = [runs EXCEPT ![r] = 0]
    /\ UNCHANGED records

Forget(r) ==
    /\ r \in Stored /\ runs[r] = 0
    /\ \A m \in told : m.id # r
    /\ records' = [records EXCEPT ![r] = NoRecord]
    /\ UNCHANGED <<told, runs>>

Next ==
    \/ \E r \in Requests :
         \/ Admit(r) \/ Readdress(r) \/ Withdraw(r) \/ Settle(r)
         \/ Acknowledged(r) \/ Forget(r)
    \/ Replay

Spec == Init /\ [][Next]_vars
=============================================================================
