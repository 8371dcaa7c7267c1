--------------------------- MODULE ToolInvocation ---------------------------
(* The durable tool-invocation ledger of one run, and the calls that go       *)
(* through it.  A call is one attempt at one logical invocation, on behalf of *)
(* the executor of one run generation: it prepares the ledger row, may be     *)
(* answered from the semantic read cache, claims the dispatch together with   *)
(* the run's action grant, runs the tool, and persists the outcome before it  *)
(* answers.  The call is also the dispatch owner its row names.  Every action *)
(* is one transaction of services/src/tool_invocation_ledger.rs, or the step  *)
(* of runtime/src/server/tool_invocation_runtime.rs between two of them, so a *)
(* run may be paused, cancelled, recovered or closed between any two steps.   *)
EXTENDS RunAuthority, FiniteSets

CONSTANTS Invs,      \* logical invocations of the run, in the order of their identity keys
          Calls,     \* attempts; each draws a fresh dispatch-owner id
          NoCall,    \* the NULL dispatch_owner
          Answers,   \* outcomes the tools of this instance answer with
          DTtl,      \* dispatch lease duration, in clock ticks
          Batch,     \* rows moved by one compaction transaction
          Oversized  \* sets of results that are too large for one archive chunk

Outcomes == {"succeeded", "failed", "rejected"}

ASSUME LedgerConstants == /\ NoCall \notin Calls /\ Answers \subseteq Outcomes
                          /\ DTtl \in Nat \ {0} /\ Batch \in Nat \ {0}
                          /\ Invs \subseteq Nat /\ Invs /= {} /\ Oversized \subseteq SUBSET Invs

VARIABLES
  hot,           \* tool_invocation_ledger.state; "absent": there is no row
  certainty,     \* dispatch_certainty of the row
  attempts,      \* attempt_count of the row
  dOwner,        \* dispatch_owner of the row
  dLease,        \* dispatch_lease_expires_at - NOW(6) of the row
  granted,       \* the run holds an action grant for the invocation
  archived,      \* state in the archive; "absent": not archived
  archivedCert,  \* dispatch_certainty in the archive
  effects,       \* history: how often a provider has run the invocation
  pc,            \* call -> the transaction it is about to make
  callInv, callGen, callEpoch,   \* its invocation, generation, control epoch
  result         \* what it got from its provider and then told its caller

rowsOf     == <<hot, certainty, attempts, dOwner, dLease>>
archiveOf  == <<archived, archivedCert>>
callsOf    == <<pc, callInv, callGen, callEpoch, result>>
ledgerVars == <<rowsOf, granted, archiveOf, effects, callsOf>>
vars       == <<runVars, ledgerVars>>

States  == {"absent", "prepared", "dispatched", "outcome_unknown"} \cup Outcomes
Settled(s) == s \in Outcomes

-----------------------------------------------------------------------------
\* What the ledger answers, and how a call ends

\* get: the hot row, else the archived one
Record(i)          == IF hot[i] /= "absent" THEN hot[i] ELSE archived[i]
RecordCertainty(i) == IF hot[i] /= "absent" THEN certainty[i] ELSE archivedCert[i]

Goto(c, l) == pc' = [pc EXCEPT ![c] = l] /\ UNCHANGED <<callInv, callGen, callEpoch, result>>

\* Its generation and epoch matter to a call until its claim is decided
Forget(c) == /\ callGen' = [callGen EXCEPT ![c] = 0]
             /\ callEpoch' = [callEpoch EXCEPT ![c] = 0]

\* The call returns; it tells its caller a settled outcome, or none
Return(c, r) ==
  /\ pc' = [pc EXCEPT ![c] = "done"]
  /\ result' = [result EXCEPT ![c] = IF Settled(r) THEN r ELSE "none"]
  /\ Forget(c) /\ UNCHANGED callInv

\* The row of i changes its state and what it says about the dispatch
Write(i, s, d) == /\ hot' = [hot EXCEPT ![i] = s]
                  /\ certainty' = [certainty EXCEPT ![i] = d]

ReleaseDispatch(i) == /\ dOwner' = [dOwner EXCEPT ![i] = NoCall]
                      /\ dLease' = [dLease EXCEPT ![i] = -1]

\* Mutant: the owner's updates do not look at the state of the row
OwnsDispatchAnyState(c, i) == dOwner[i] = c
OwnsDispatch(c, i) == hot[i] = "dispatched" /\ dOwner[i] = c
LeaseExpired(i)    == dLease[i] <= 0

\* Mutant: a row counts as undispatched until it is settled
UndispatchedUntilSettled(i) == hot[i] \in {"prepared", "dispatched"}
Undispatched(i) == hot[i] = "prepared" /\ attempts[i] = 0

-----------------------------------------------------------------------------
\* Preparation and the semantic read cache

(* An executor starts a call with the guidance cursor it has reached: it has  *)
(* taken in every intent up to that index.                                    *)
StartCall(c, i, g, e) ==
  /\ pc[c] = "idle" /\ executor[g] = "running"
  /\ e <= lastIdx /\ \A k \in DOMAIN intent : k <= e => intent[k] /= "pending"
  /\ pc' = [pc EXCEPT ![c] = "prepare"]
  /\ callInv' = [callInv EXCEPT ![c] = i]
  /\ callGen' = [callGen EXCEPT ![c] = g]
  /\ callEpoch' = [callEpoch EXCEPT ![c] = e]
  /\ UNCHANGED <<runVars, rowsOf, granted, archiveOf, effects, result>>

\* Mutant: rows are inserted whatever the status of the run
MayInsertAlways(i) == hot[i] = "absent"
\* Only a running run takes new rows; the archive is not consulted for it
MayInsert(i) == hot[i] = "absent" /\ status = "running"

PrepareNew(c) ==
  LET i == callInv[c] IN
  /\ pc[c] = "prepare" /\ MayInsert(i)
  /\ Write(i, "prepared", "not_dispatched")
  /\ attempts' = [attempts EXCEPT ![i] = 0]
  /\ ReleaseDispatch(i)
  /\ Goto(c, "dispatch")
  /\ UNCHANGED <<runVars, granted, archiveOf, effects>>

\* Mutant: a retry of a dispatched row runs the tool again
PrepareExistingRedispatches(c) ==
  LET i == callInv[c] IN
  /\ pc[c] = "prepare" /\ ~MayInsert(i)
  /\ \/ hot[i] = "prepared" /\ Goto(c, "dispatch")
     \/ hot[i] = "dispatched" /\ Goto(c, "execute")
     \/ hot[i] \notin {"prepared", "dispatched"} /\ Return(c, Record(i))
  /\ UNCHANGED <<runVars, rowsOf, granted, archiveOf, effects>>

\* A row that is dispatched or settled is projected, never dispatched again
PrepareExisting(c) ==
  LET i == callInv[c] IN
  /\ pc[c] = "prepare" /\ ~MayInsert(i)
  /\ \/ hot[i] = "prepared" /\ Goto(c, "dispatch")
     \/ hot[i] = "dispatched" /\ Goto(c, "expire")
     \/ hot[i] \notin {"prepared", "dispatched"} /\ Return(c, Record(i))
  /\ UNCHANGED <<runVars, rowsOf, granted, archiveOf, effects>>

\* reconcile_expired_dispatch: nobody renews the row any more
ReconcileExpiredDispatch(c) ==
  LET i == callInv[c] IN
  /\ pc[c] = "expire"
  /\ IF hot[i] = "dispatched" /\ LeaseExpired(i)
       THEN Write(i, "outcome_unknown", "unknown") ELSE UNCHANGED <<hot, certainty>>
  /\ Return(c, hot[i])
  /\ UNCHANGED <<runVars, attempts, dOwner, dLease, granted, archiveOf, effects>>

\* An equal read has been observed: the row is completed without a dispatch
CompleteFromSemanticReadCache(c) ==
  LET i == callInv[c] IN
  /\ pc[c] = "dispatch"
  /\ IF Undispatched(i) /\ dOwner[i] = NoCall
       THEN Write(i, "succeeded", "not_dispatched") /\ Return(c, "succeeded")
       ELSE UNCHANGED <<hot, certainty>> /\ Return(c, Record(i))
  /\ UNCHANGED <<runVars, attempts, dOwner, dLease, granted, archiveOf, effects>>

-----------------------------------------------------------------------------
\* The dispatch claim

\* Mutant: the first intent after the epoch is overlooked
SupersededOffByOne(c) == \E k \in DOMAIN intent : k > callEpoch[c] + 1 /\ intent[k] /= "none"
\* admit_run_action_in_existing_transaction, in the order it decides
Superseded(c) == \E k \in DOMAIN intent : k > callEpoch[c] /\ intent[k] /= "none"
Admission(c) ==
  IF ~MayAdmitAction(callGen[c]) THEN "inactive"
  ELSE IF granted[callInv[c]] THEN "already_started"
  ELSE IF Superseded(c) THEN "superseded" ELSE "granted"

\* The grant and the claim of the row commit together or not at all
CommitClaim(c) ==
  LET i == callInv[c] IN
  /\ AdmitRunAction(callGen[c])
  /\ granted' = [granted EXCEPT ![i] = TRUE]
  /\ Write(i, "dispatched", "dispatched")
  /\ attempts' = [attempts EXCEPT ![i] = @ + 1]
  /\ dOwner' = [dOwner EXCEPT ![i] = c]
  /\ dLease' = [dLease EXCEPT ![i] = DTtl]

\* The acknowledgement of the COMMIT may be lost, whether or not it committed
ClaimDispatch(c) ==
  /\ pc[c] = "dispatch"
  /\ Admission(c) = "granted" /\ hot[callInv[c]] = "prepared"
  /\ \/ CommitClaim(c) /\ (Goto(c, "execute") \/ Goto(c, "recover"))
     \/ UNCHANGED <<runVars, rowsOf, granted>> /\ Goto(c, "recover")
  /\ UNCHANGED <<archiveOf, effects>>

\* Guidance came after the decision: the row is closed without a dispatch
ClaimSuperseded(c) ==
  LET i == callInv[c] IN
  /\ pc[c] = "dispatch" /\ Admission(c) = "superseded"
  /\ IF Undispatched(i)
       THEN Write(i, "rejected", "not_dispatched") /\ ReleaseDispatch(i)
       ELSE UNCHANGED <<hot, certainty, dOwner, dLease>>
  /\ Return(c, "none")
  /\ UNCHANGED <<runVars, attempts, granted, archiveOf, effects>>

\* The claim is refused, or the row has moved on: whatever it says is projected
ClaimRefused(c) ==
  LET i == callInv[c] IN
  /\ pc[c] = "dispatch"
  /\ \/ Admission(c) \in {"inactive", "already_started"}
     \/ Admission(c) = "granted" /\ hot[i] /= "prepared"
  /\ Return(c, IF Admission(c) = "granted" THEN Record(i) ELSE "none")
  /\ UNCHANGED <<runVars, rowsOf, granted, archiveOf, effects>>

\* Mutant: any live claim of the row passes for the call's own
AnyLiveClaim(c) ==
  LET i == callInv[c] IN hot[i] = "dispatched" /\ attempts[i] = 1 /\ dLease[i] >= 0
\* The claim found in the ledger is exactly this call's own and still live
OwnLiveClaim(c) ==
  LET i == callInv[c] IN OwnsDispatch(c, i) /\ attempts[i] = 1 /\ dLease[i] >= 0

(* recover_dispatch_claim_after_commit_error: the claim is made again if it   *)
(* had not committed, and taken up if it is found.  The recovery's own COMMIT *)
(* may fail too; then the call gives up without running the tool.             *)
RecoverDispatchClaim(c) ==
  LET i == callInv[c] IN
  /\ pc[c] = "recover"
  /\ \/ /\ Admission(c) = "granted" /\ hot[i] = "prepared"
        /\ CommitClaim(c)
        /\ Goto(c, "execute") \/ Return(c, "none")
     \/ /\ Admission(c) = "already_started" /\ OwnLiveClaim(c)
        /\ dLease' = [dLease EXCEPT ![i] = DTtl]
        /\ Goto(c, "execute") \/ Return(c, "none")
        /\ UNCHANGED <<runVars, hot, certainty, attempts, dOwner, granted>>
     \/ Return(c, "none") /\ UNCHANGED <<runVars, rowsOf, granted>>
  /\ UNCHANGED <<archiveOf, effects>>

-----------------------------------------------------------------------------
\* Execution and completion

\* The tool runs; its transport may leave the outcome unknown
ExecuteRoute(c) ==
  /\ pc[c] = "execute"
  /\ effects' = [effects EXCEPT ![callInv[c]] = @ + 1]
  /\ \E r \in Answers \cup {"unknown"} : result' = [result EXCEPT ![c] = r]
  /\ pc' = [pc EXCEPT ![c] = "finish"] /\ Forget(c)
  /\ UNCHANGED <<runVars, rowsOf, granted, archiveOf, callInv>>

\* The dispatch deadline has passed meanwhile: refused without running the tool
RejectPastDeadline(c) ==
  /\ pc[c] = "execute"
  /\ result' = [result EXCEPT ![c] = "rejected"]
  /\ pc' = [pc EXCEPT ![c] = "finish"] /\ Forget(c)
  /\ UNCHANGED <<runVars, rowsOf, granted, archiveOf, effects, callInv>>

\* Mutant: the renewal adds to the old expiry instead of to the current time
RenewDispatchAdding(c) ==
  LET i == callInv[c] IN
  /\ pc[c] \in {"execute", "finish"} /\ OwnsDispatch(c, i)
  /\ dLease' = [dLease EXCEPT ![i] = @ + DTtl]
  /\ UNCHANGED <<runVars, hot, certainty, attempts, dOwner, granted, archiveOf, effects, callsOf>>

\* The heartbeat of the call, from the claim to the completion
RenewDispatch(c) ==
  LET i == callInv[c] IN
  /\ pc[c] \in {"execute", "finish"} /\ OwnsDispatch(c, i)
  /\ dLease' = [dLease EXCEPT ![i] = DTtl]
  /\ UNCHANGED <<runVars, hot, certainty, attempts, dOwner, granted, archiveOf, effects, callsOf>>

\* compare_and_complete: the outcome and its state in one update
CompareAndComplete(i, o) ==
  Write(i, o, "dispatched") /\ UNCHANGED <<attempts, dOwner, dLease>>

\* mark_outcome_unknown, for the owner of a dispatched row
MarkOutcomeUnknown(c) ==
  LET i == callInv[c] IN
  IF OwnsDispatch(c, i)
    THEN Write(i, "outcome_unknown", "unknown") /\ UNCHANGED <<attempts, dOwner, dLease>>
    ELSE UNCHANGED rowsOf

\* finish: persist first, answer afterwards; any of the updates may be lost
Finish(c) ==
  /\ pc[c] = "finish"
  /\ \/ /\ result[c] = "unknown"
        /\ MarkOutcomeUnknown(c) \/ UNCHANGED rowsOf
        /\ Return(c, "none")
     \/ /\ Settled(result[c]) /\ OwnsDispatch(c, callInv[c])
        /\ CompareAndComplete(callInv[c], result[c])
        /\ Return(c, result[c]) \/ Goto(c, "reread")   \* a lost acknowledgement
     \/ Settled(result[c]) /\ UNCHANGED rowsOf /\ Goto(c, "reread")
  /\ UNCHANGED <<runVars, granted, archiveOf, effects>>

\* The completion failed: the row, if it can be read, decides what is left to do
Reread(c) ==
  LET i == callInv[c] IN
  /\ pc[c] = "reread"
  /\ \/ Record(i) = "outcome_unknown" /\ Goto(c, "reconcile")
     \/ Settled(Record(i)) /\ Return(c, Record(i))
     \/ Goto(c, "doubt")
  /\ UNCHANGED <<runVars, rowsOf, granted, archiveOf, effects>>

\* reconcile_complete: the acknowledged outcome replaces the doubt; no owner
ReconcileComplete(c) ==
  LET i == callInv[c] IN
  /\ pc[c] = "reconcile"
  /\ \/ /\ hot[i] = "outcome_unknown"
        /\ CompareAndComplete(i, result[c])
        /\ Return(c, result[c]) \/ Return(c, "none")
     \/ UNCHANGED rowsOf /\ Return(c, "none")
  /\ UNCHANGED <<runVars, granted, archiveOf, effects>>

\* The last resort of finish
FinishInDoubt(c) ==
  /\ pc[c] = "doubt"
  /\ MarkOutcomeUnknown(c) \/ UNCHANGED rowsOf
  /\ Return(c, "none")
  /\ UNCHANGED <<runVars, granted, archiveOf, effects>>

\* The process of the call dies, or the call is aborted with its executor
CallDies(c) ==
  /\ pc[c] \notin {"idle", "done"}
  /\ Return(c, "none")
  /\ UNCHANGED <<runVars, rowsOf, granted, archiveOf, effects>>

-----------------------------------------------------------------------------
\* The sweep over terminal runs

\* Mutant: the sweep takes over rows without an owner, never expired ones
AbandonedUnowned(i) == hot[i] = "dispatched" /\ dOwner[i] = NoCall
Abandoned(i) == hot[i] = "dispatched" /\ (dOwner[i] = NoCall \/ LeaseExpired(i))

ReconcileTerminalRun ==
  LET rejected == {i \in Invs : Undispatched(i)}
      doubted  == {i \in Invs : (hot[i] = "prepared" /\ attempts[i] > 0) \/ Abandoned(i)}
      closed   == rejected \cup doubted
  IN
  /\ Terminal(status) /\ closed /= {}
  /\ hot' = [i \in Invs |-> IF i \in rejected THEN "rejected"
                            ELSE IF i \in doubted THEN "outcome_unknown" ELSE hot[i]]
  /\ certainty' = [i \in Invs |-> IF i \in rejected THEN "not_dispatched"
                                  ELSE IF i \in doubted THEN "unknown" ELSE certainty[i]]
  /\ dOwner' = [i \in Invs |-> IF i \in closed THEN NoCall ELSE dOwner[i]]
  /\ dLease' = [i \in Invs |-> IF i \in closed THEN -1 ELSE dLease[i]]
  /\ UNCHANGED <<runVars, attempts, granted, archiveOf, effects, callsOf>>

\* A terminal run none of whose calls is under way
Quiescent == Terminal(status) /\ \A i \in Invs : hot[i] \notin {"prepared", "dispatched"}

\* The settled rows with the first identity keys
FirstRows ==
  LET rows == {i \in Invs : Settled(hot[i])} IN
  {i \in rows : Cardinality({j \in rows : j < i}) < Batch}

\* The results in a chunk give it its size; a rejection has none
ChunkTooLarge == {i \in FirstRows : hot[i] /= "rejected"} \in Oversized

(* Settled rows of a quiescent run move to the archive, doubt stays hot.  A   *)
(* batch whose chunk is too large is refused and stays: the next sweep tries  *)
(* the same rows.                                                             *)
CompactTerminalRunBatch ==
  /\ Quiescent /\ FirstRows /= {} /\ ~ChunkTooLarge
  /\ archived' = [i \in Invs |-> IF i \in FirstRows THEN hot[i] ELSE archived[i]]
  /\ archivedCert' = [i \in Invs |-> IF i \in FirstRows THEN certainty[i] ELSE archivedCert[i]]
  /\ hot' = [i \in Invs |-> IF i \in FirstRows THEN "absent" ELSE hot[i]]
  /\ UNCHANGED <<runVars, certainty, attempts, dOwner, dLease, granted, effects, callsOf>>

-----------------------------------------------------------------------------
\* Both leases are compared with the clock of the database
Clock ==
  /\ LeaseRuns \/ \E i \in Invs : dLease[i] > -1
  /\ Tick \/ (~LeaseRuns /\ UNCHANGED runVars)
  /\ dLease' = [i \in Invs |-> IF dLease[i] > -1 THEN dLease[i] - 1 ELSE dLease[i]]
  /\ UNCHANGED <<hot, certainty, attempts, dOwner, granted, archiveOf, effects, callsOf>>

Init ==
  /\ RunInit
  /\ hot = [i \in Invs |-> "absent"] /\ certainty = [i \in Invs |-> "not_dispatched"]
  /\ attempts = [i \in Invs |-> 0] /\ dOwner = [i \in Invs |-> NoCall]
  /\ dLease = [i \in Invs |-> -1] /\ granted = [i \in Invs |-> FALSE]
  /\ archived = [i \in Invs |-> "absent"]
  /\ archivedCert = [i \in Invs |-> "not_dispatched"]
  /\ effects = [i \in Invs |-> 0]
  /\ pc = [c \in Calls |-> "idle"] /\ callInv = [c \in Calls |-> CHOOSE i \in Invs : TRUE]
  /\ callGen = [c \in Calls |-> 0] /\ callEpoch = [c \in Calls |-> 0]
  /\ result = [c \in Calls |-> "none"]

CallStep(c) ==
  \/ PrepareNew(c) \/ PrepareExisting(c) \/ ReconcileExpiredDispatch(c)
  \/ CompleteFromSemanticReadCache(c)
  \/ ClaimDispatch(c) \/ ClaimSuperseded(c) \/ ClaimRefused(c) \/ RecoverDispatchClaim(c)
  \/ ExecuteRoute(c) \/ RejectPastDeadline(c)
  \/ Finish(c) \/ Reread(c) \/ ReconcileComplete(c) \/ FinishInDoubt(c)

Next ==
  \/ RunStep /\ UNCHANGED ledgerVars
  \/ \E c \in Calls : \/ \E i \in Invs, g \in Generations, e \in 0..MaxIdx : StartCall(c, i, g, e)
                      \/ CallStep(c) \/ RenewDispatch(c) \/ CallDies(c)
  \/ ReconcileTerminalRun \/ CompactTerminalRunBatch
  \/ Clock

Spec == Init /\ [][Next]_vars

(* A call that is under way ends (tools have time limits, the process may     *)
(* die), the clock runs and the sweep over terminal runs is repeated.         *)
FairSpec == /\ Spec /\ WF_vars(Clock)
            /\ WF_vars(ReconcileTerminalRun) /\ WF_vars(CompactTerminalRunBatch)
            /\ \A c \in Calls : WF_vars(CallStep(c))

-----------------------------------------------------------------------------
\* Properties

LedgerTypeOK ==
  /\ hot \in [Invs -> States] /\ archived \in [Invs -> States]
  /\ certainty \in [Invs -> {"not_dispatched", "dispatched", "unknown"}]
  /\ archivedCert \in [Invs -> {"not_dispatched", "dispatched", "unknown"}]
  /\ attempts \in [Invs -> Nat] /\ effects \in [Invs -> Nat]
  /\ dOwner \in [Invs -> Calls \cup {NoCall}] /\ dLease \in [Invs -> -1..DTtl]
  /\ granted \in [Invs -> BOOLEAN]
  /\ pc \in [Calls -> {"idle", "prepare", "expire", "dispatch", "recover", "execute",
                       "finish", "reread", "reconcile", "doubt", "done"}]
  /\ callInv \in [Calls -> Invs] /\ callGen \in [Calls -> Generations]
  /\ callEpoch \in [Calls -> 0..MaxIdx]
  /\ result \in [Calls -> Outcomes \cup {"none", "unknown"}]

(* No tool runs twice for one logical invocation, although attempts race,     *)
(* acknowledgements are lost, leases expire and executors are replaced.       *)
AtMostOnceEffect == \A i \in Invs : effects[i] <= 1

(* A record that says "not dispatched", in the ledger or in the archive, is   *)
(* true: no provider has run the tool.                                        *)
NotDispatchedIsTruthful ==
  \A i \in Invs : Record(i) /= "absent" /\ RecordCertainty(i) = "not_dispatched"
                    => effects[i] = 0

(* Whatever settled outcome a caller has been told is the outcome on record,  *)
(* also after a late completion, the closure of the run and the move to the   *)
(* archive.                                                                   *)
ReportedIsDurable ==
  \A c \in Calls : pc[c] = "done" /\ Settled(result[c]) => Record(callInv[c]) = result[c]

(* An archived invocation never gets a second live row: preparation does not  *)
(* look into the archive of a running run, so this rests on terminal runs     *)
(* staying terminal.                                                          *)
NoResurrection == \A i \in Invs : archived[i] /= "absent" => hot[i] = "absent"

(* No tool is dispatched while guidance the executor has not taken in is      *)
(* waiting, even if it was admitted after the decision to call the tool.      *)
NoDispatchOverGuidance ==
  [][\A i \in Invs : ~granted[i] /\ granted'[i]
       => \A k \in DOMAIN intent : intent[k] /= "pending"]_vars

\* What a reader of the ledger makes of a record and its dispatch certainty
Verdict(s, d) ==
  CASE s \in {"prepared", "dispatched"} -> "open"
    [] s = "outcome_unknown" -> "unknown"
    [] Settled(s) /\ d = "not_dispatched" -> "declined"
    [] OTHER -> s

Readings == [i \in Invs |-> Verdict(Record(i), RecordCertainty(i))]
Contract == INSTANCE InvocationContract WITH record <- Readings

(* The ledger keeps the contract of a logical invocation: at most one effect, *)
(* final verdicts, doubt resolved only by the provider's answer.              *)
ImplementsContract == Contract!ContractSpec

(* Once the run has ended its ledger comes to rest: every invocation is       *)
(* archived, except the ones whose outcome nobody knows, whoever died holding *)
(* a row.  Only the byte bound of a chunk keeps it from that: then the run is *)
(* quiescent and its first rows together exceed the bound, at every sweep.    *)
LedgerComesToRest ==
  Terminal(status) ~> \/ \A i \in Invs : hot[i] \in {"absent", "outcome_unknown"}
                      \/ Quiescent /\ ChunkTooLarge
=============================================================================
