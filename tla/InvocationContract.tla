------------------------- MODULE InvocationContract -------------------------
(* What the tool-invocation ledger promises of one logical tool call, however *)
(* often it is attempted and whoever dies on the way: its effect happens at   *)
(* most once; a record that says the tool was not dispatched is final and no  *)
(* effect precedes or follows it; an outcome, once recorded, is never         *)
(* replaced; doubt may only be resolved into an outcome.                      *)
EXTENDS Naturals

CONSTANTS Invs,     \* logical tool invocations
          Outcomes  \* outcomes a provider can answer with

VARIABLES record,   \* invocation -> what the caller can find out about it
          effects   \* invocation -> how often the provider has run it

Verdicts == {"absent", "open", "unknown", "declined"} \cup Outcomes

ContractInit ==
  /\ record = [i \in Invs |-> "absent"]
  /\ effects = [i \in Invs |-> 0]

Open(i)    == record[i] = "absent" /\ record' = [record EXCEPT ![i] = "open"]
Doubt(i)   == record[i] = "open" /\ record' = [record EXCEPT ![i] = "unknown"]
Decline(i) == /\ record[i] = "open" /\ effects[i] = 0
              /\ record' = [record EXCEPT ![i] = "declined"]
Answer(i)  == /\ record[i] \in {"open", "unknown"}
              /\ \E o \in Outcomes : record' = [record EXCEPT ![i] = o]
Effect(i)  == /\ record[i] \in {"open", "unknown"} /\ effects[i] = 0
              /\ effects' = [effects EXCEPT ![i] = 1]

\* One invocation's record moves
Move(i) == (Open(i) \/ Doubt(i) \/ Decline(i) \/ Answer(i)) /\ UNCHANGED effects

(* Closing a run moves the records of all its invocations in one transaction: *)
(* the ones not yet dispatched are declined, the expired ones are in doubt.   *)
CloseRun ==
  /\ \A i \in Invs :
       \/ record'[i] = record[i]
       \/ record[i] = "open" /\ record'[i] = "unknown"
       \/ record[i] = "open" /\ effects[i] = 0 /\ record'[i] = "declined"
  /\ record' \in [Invs -> Verdicts]
  /\ UNCHANGED effects

ContractNext ==
  \/ CloseRun
  \/ \E i \in Invs : Move(i) \/ (Effect(i) /\ UNCHANGED record)

ContractSpec == ContractInit /\ [][ContractNext]_<<record, effects>>
=============================================================================
