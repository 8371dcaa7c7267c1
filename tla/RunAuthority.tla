---------------------------- MODULE RunAuthority ----------------------------
(* The durable row of one agent run: who may execute it, what its status is,  *)
(* whether it has been asked to stop, and which pieces of user guidance it    *)
(* still has in custody.  Every action is one database transaction of         *)
(* services/src/runs.rs (or the in-process step around it), evaluated under   *)
(* the row lock the code takes.                                               *)
(*                                                                            *)
(* An executor is named by the run generation it was started for: the code's  *)
(* capability is (pod, generation), and a generation is claimed by one pod.   *)
(* A superseded executor keeps running until it notices, so every guarded     *)
(* action is offered to every generation, not only to the current one.        *)
EXTENDS Integers

CONSTANTS Pods,     \* server processes
          NoPod,    \* the NULL owner_pod_id
          Ttl,      \* owner lease duration, in clock ticks
          MaxGen,   \* bound: the last generation that is ever claimed
          MaxIdx,   \* bound: event index up to which ordinary events are appended
          IsChild,  \* the run has a parent_run_id, so an ancestor can be cancelled
          SessionStop  \* the stop command of the session is used too

ASSUME RunConstants == /\ Pods /= {} /\ NoPod \notin Pods
                       /\ Ttl \in Nat \ {0} /\ MaxGen \in Nat
                       /\ MaxIdx \in Nat /\ IsChild \in BOOLEAN /\ SessionStop \in BOOLEAN

VARIABLES
  status,            \* agent_runs.status
  waitingFor,        \* agent_runs.waiting_for IS NOT NULL
  generation,        \* agent_runs.run_generation
  owner,             \* agent_runs.owner_pod_id
  lease,             \* owner_lease_expires_at - NOW(6); NoLease stands for NULL
  lastIdx,           \* last_event_idx; one unit per transaction that appends events
  cancelRequested,   \* cancellation_requested_at IS NOT NULL
  ancestorCancelled, \* some ancestor carries a cancellation marker
  intent,            \* user_intent event index -> its durable disposition
  executor,          \* generation -> what its process-local executor is doing
  podOf,             \* generation -> the pod that claimed it
  claimed,           \* the status the last recovery claim read
  orphanRead,        \* a control call has read this status off a run with no live executor
  cancelCall,        \* how far a cancel_run call has come: idle, read or marked
  cancelGen          \* the generation that call has read

rowVars  == <<status, waitingFor, generation, owner, lease, lastIdx,
              cancelRequested, ancestorCancelled, intent>>
procVars == <<executor, podOf, claimed, orphanRead, cancelCall, cancelGen>>
runVars  == <<rowVars, procVars>>

Active       == {"running", "waiting", "paused"}
TerminalSet  == {"completed", "delegated", "failed", "cancelled"}
Terminal(s)  == s \in TerminalSet
Generations  == 0..MaxGen
NoFence      == -1
NoLease      == -(Ttl + 1)
Dispositions == {"none", "pending", "applied", "returned"}

-----------------------------------------------------------------------------
\* Predicates of the row, as the UPDATE statements spell them

BlocksSession == status \in {"running", "waiting"} \/ (status = "paused" /\ waitingFor)
LeaseLive     == owner /= NoPod /\ lease >= 0
OwnedBy(g)    == generation = g /\ owner = podOf[g]
Markers       == cancelRequested \/ ancestorCancelled

\* Mutant: the heartbeat does not look at the cancellation marker
LiveAuthorityIgnoringMarker(g, S) == OwnedBy(g) /\ status \in S /\ LeaseLive

\* The exact live authority of an executor, in any of the statuses S
LiveAuthority(g, S) == OwnedBy(g) /\ ~cancelRequested /\ status \in S /\ LeaseLive

\* Mutant: only the run's own marker is looked at, not its ancestors'
MarkersAdmitOwnOnly(origin) == IF origin = "user" THEN Markers ELSE ~cancelRequested

\* A transition to cancelled on the user's behalf needs a marker in the
\* lineage; every other transition needs that there is none
MarkersAdmit(origin) == IF origin = "user" THEN Markers ELSE ~Markers

\* Mutant: guidance is handed back although the run has applied it
ReturnAllIntents == [k \in DOMAIN intent |->
                       IF intent[k] /= "none" THEN "returned" ELSE intent[k]]

\* The user intents whose disposition is still open go back to the user
ReturnIntents == [k \in DOMAIN intent |->
                    IF intent[k] = "pending" THEN "returned" ELSE intent[k]]

ClearOwner == owner' = NoPod /\ lease' = NoLease
KeepOwner  == UNCHANGED <<owner, lease>>

-----------------------------------------------------------------------------
\* The transitions of the status column

\* Mutant: the row is updated by its owner fence alone, whatever its status
TransitionAdmittedUnchecked(expected, fence, to, origin) ==
  /\ MarkersAdmit(origin)
  /\ fence /= NoFence => OwnedBy(fence) /\ LeaseLive

\* The compare-and-set of a transition; fence is a generation or NoFence
TransitionAdmitted(expected, fence, to, origin) ==
  /\ status \in expected
  /\ Terminal(status) => to = status
  /\ MarkersAdmit(origin)
  /\ fence /= NoFence => OwnedBy(fence) /\ LeaseLive

\* frees says that the event releases the session slot
TransitionRunStatus(expected, fence, to, wf, origin, frees) ==
  /\ TransitionAdmitted(expected, fence, to, origin)
  /\ status' = to /\ waitingFor' = wf
  /\ lastIdx' = lastIdx + 1
  /\ intent' = IF Terminal(to) \/ frees THEN ReturnIntents ELSE intent
  /\ UNCHANGED <<generation, cancelRequested, ancestorCancelled>>

(* The owner-fenced terminal commit.  A run the user has paused is not        *)
(* completed or failed over the pause: only a cancellation may be.            *)
ClaimCanonicalTerminal(g, to) ==
  /\ executor[g] = "running"
  /\ status \in (IF to = "cancelled" THEN Active ELSE {"running", "waiting"})
  /\ OwnedBy(g) /\ LeaseLive
  /\ MarkersAdmit(IF to = "cancelled" THEN "user" ELSE "none")
  /\ status' = to /\ waitingFor' = FALSE
  /\ lastIdx' = lastIdx + 1
  /\ intent' = ReturnIntents
  /\ ClearOwner
  /\ executor' = [executor EXCEPT ![g] = "settled"]
  /\ UNCHANGED <<generation, cancelRequested, ancestorCancelled,
                 podOf, claimed, orphanRead, cancelCall, cancelGen>>

\* The runtime cancels its own live run: no user marker may be involved
CancelIfExactLiveOwner(g) ==
  /\ executor[g] = "running"
  /\ LiveAuthority(g, Active) /\ ~Markers
  /\ status' = "cancelled" /\ waitingFor' = FALSE
  /\ lastIdx' = lastIdx + 1
  /\ intent' = ReturnIntents
  /\ ClearOwner
  /\ executor' = [executor EXCEPT ![g] = "settled"]
  /\ UNCHANGED <<generation, cancelRequested, ancestorCancelled,
                 podOf, claimed, orphanRead, cancelCall, cancelGen>>

(* The loop ends in a resumable state: the owner parks the run, with a wait   *)
(* reason if a debugger pause asks for an intervention.                       *)
ParkExecution(g) ==
  /\ executor[g] = "running"
  /\ \E wf \in BOOLEAN :
       TransitionRunStatus({"running", "waiting"}, g, "paused", wf, "none", FALSE)
  /\ KeepOwner
  /\ executor' = [executor EXCEPT ![g] = "settled"]
  /\ UNCHANGED <<podOf, claimed, orphanRead, cancelCall, cancelGen>>

\* The loop ends behind a manual pause: the pause is kept, nothing is written
SettleBehindPause(g) ==
  /\ executor[g] = "running" /\ OwnedBy(g)
  /\ status = "paused" /\ waitingFor
  /\ executor' = [executor EXCEPT ![g] = "settled"]
  /\ UNCHANGED <<rowVars, podOf, claimed, orphanRead, cancelCall, cancelGen>>

\* The executor asks the user something and waits for the answer
BeginInteractionWait(g) ==
  /\ executor[g] = "running" /\ lastIdx < MaxIdx
  /\ LiveAuthority(g, {"running"})
  /\ status' = "waiting" /\ waitingFor' = TRUE
  /\ lastIdx' = lastIdx + 1
  /\ UNCHANGED <<generation, owner, lease, cancelRequested, ancestorCancelled,
                 intent, procVars>>

\* The answer releases the wait only of the live generation that asked
ResolveInteraction ==
  /\ lastIdx < MaxIdx
  /\ status = "waiting" /\ waitingFor /\ ~cancelRequested /\ LeaseLive
  /\ executor[generation] \notin {"recovering", "retired"}
  /\ status' = "running" /\ waitingFor' = FALSE
  /\ lastIdx' = lastIdx + 1
  /\ UNCHANGED <<generation, owner, lease, cancelRequested, ancestorCancelled,
                 intent, procVars>>

-----------------------------------------------------------------------------
\* User controls: pause, resume, cancel

(* pause_run found a live executor and leaves a manual pause behind.  Only    *)
(* the status is compared when it commits: the executor it saw may be gone.   *)
PauseLive ==
  /\ lastIdx < MaxIdx
  /\ TransitionRunStatus({"running"}, NoFence, "paused", TRUE, "none", FALSE)
  /\ KeepOwner /\ UNCHANGED procVars

\* pause_run or resume_run reads a run whose executor is not live ...
ReadOrphan ==
  /\ orphanRead = "none"
  /\ BlocksSession /\ status \in {"running", "paused"} /\ ~LeaseLive
  /\ orphanRead' = status
  /\ UNCHANGED <<rowVars, executor, podOf, claimed, cancelCall, cancelGen>>

\* ... and later parks it, checking nothing but the status it read
ReconcileOrphanedExecution ==
  /\ orphanRead /= "none"
  /\ orphanRead' = "none"
  /\ \/ /\ TransitionRunStatus({orphanRead}, NoFence, "paused", FALSE, "none", TRUE)
        /\ KeepOwner
     \/ /\ status /= orphanRead \/ Markers
        /\ UNCHANGED rowVars
  /\ UNCHANGED <<executor, podOf, claimed, cancelCall, cancelGen>>

\* resume_run releases the pause of a run whose owner lease is live
ResumeLive ==
  /\ lastIdx < MaxIdx
  /\ status = "paused" /\ LeaseLive /\ ~Markers
  /\ status' = "running" /\ waitingFor' = FALSE
  /\ lastIdx' = lastIdx + 1
  /\ UNCHANGED <<generation, owner, lease, cancelRequested, ancestorCancelled,
                 intent, procVars>>

\* resume_run starts a new generation from the checkpoint of a parked run
ActivateExecutionResume(p) ==
  /\ generation < MaxGen
  /\ status = "paused" /\ ~waitingFor /\ ~cancelRequested
  /\ owner = p \/ ~LeaseLive
  /\ status' = "running" /\ waitingFor' = FALSE
  /\ owner' = p /\ lease' = Ttl
  /\ generation' = generation + 1 /\ lastIdx' = lastIdx + 1
  /\ executor' = [executor EXCEPT ![generation + 1] = "running"]
  /\ podOf' = [podOf EXCEPT ![generation + 1] = p]
  /\ UNCHANGED <<cancelRequested, ancestorCancelled, intent, claimed, orphanRead, cancelCall, cancelGen>>

\* cancel_run looks the run up
ReadForCancel ==
  /\ cancelCall = "idle" /\ status \in Active
  /\ cancelCall' = "read" /\ cancelGen' = generation
  /\ UNCHANGED <<rowVars, executor, podOf, claimed, orphanRead>>

(* cancel_run stores the marker.  With an executor live in this process it    *)
(* leaves the rest to it; otherwise it goes on to try the orphan transition.  *)
(* A run that has ended meanwhile takes no marker.                            *)
RequestCancellation ==
  /\ cancelCall = "read"
  /\ \/ /\ status \in Active
        /\ cancelRequested' = TRUE
        /\ \/ /\ \E g \in Generations : executor[g] \in {"running", "settled"}
              /\ cancelCall' = "idle"
           \/ cancelCall' = "marked"
     \/ /\ Terminal(status)
        /\ cancelCall' = "idle" /\ UNCHANGED cancelRequested
  /\ UNCHANGED <<status, waitingFor, generation, owner, lease, lastIdx,
                 ancestorCancelled, intent, executor, podOf, claimed, orphanRead>>
  /\ cancelGen' = IF cancelCall' = "idle" THEN 0 ELSE cancelGen

(* The stop command of the session marks every active run in one statement.   *)
(* The cancel_run calls it then makes are best effort: it waits one second.   *)
RequestSessionCancellation ==
  /\ SessionStop /\ status \in Active /\ ~cancelRequested
  /\ cancelRequested' = TRUE
  /\ UNCHANGED <<status, waitingFor, generation, owner, lease, lastIdx,
                 ancestorCancelled, intent, procVars>>

\* An ancestor of a child run is cancelled: the marker is on the ancestor's row
CancelAncestor ==
  /\ IsChild /\ ~ancestorCancelled
  /\ ancestorCancelled' = TRUE
  /\ UNCHANGED <<status, waitingFor, generation, owner, lease, lastIdx,
                 cancelRequested, intent, procVars>>

\* The cascade of a cancelled ancestor reaches this run, whoever owns it
CancelDescendant ==
  /\ IsChild /\ ancestorCancelled
  /\ TransitionRunStatus(Active, NoFence, "cancelled", FALSE, "user", FALSE)
  /\ KeepOwner /\ UNCHANGED procVars

\* The condition under which nobody owns generation g of a run to be cancelled
OrphanCancellable(g) == generation = g /\ status \in Active /\ Markers /\ ~LeaseLive

(* The rest of cancel_run: retire the run if nobody owns it.  A call that     *)
(* lost the race to a new claim, or finds a live owner, has no effect.        *)
TerminalizeOrphanedCancellation ==
  /\ cancelCall = "marked" /\ cancelCall' = "idle"
  /\ \/ /\ OrphanCancellable(cancelGen)
        /\ status' = "cancelled" /\ waitingFor' = FALSE
        /\ cancelRequested' = TRUE
        /\ ClearOwner
        /\ lastIdx' = lastIdx + 1
        /\ intent' = ReturnIntents
        /\ UNCHANGED <<generation, ancestorCancelled>>
     \/ ~OrphanCancellable(cancelGen) /\ UNCHANGED rowVars
  /\ cancelGen' = 0
  /\ UNCHANGED <<executor, podOf, claimed, orphanRead>>

\* A session refresh settles a child whose marker nobody has acted on
ReconcileAgentCancellation ==
  /\ IsChild
  /\ TransitionRunStatus(Active, NoFence, "cancelled", FALSE, "user", FALSE)
  /\ KeepOwner /\ UNCHANGED procVars

-----------------------------------------------------------------------------
\* User guidance

\* Mutant: guidance is admitted on the strength of the lease alone
AdmitGuidanceAnyStatus ==
  /\ lastIdx < MaxIdx /\ LeaseLive
  /\ lastIdx' = lastIdx + 1
  /\ intent' = [intent EXCEPT ![lastIdx + 1] = "pending"]
  /\ UNCHANGED <<status, waitingFor, generation, owner, lease, cancelRequested,
                 ancestorCancelled, procVars>>

AdmitGuidance ==
  /\ lastIdx < MaxIdx
  /\ BlocksSession /\ LeaseLive
  /\ lastIdx' = lastIdx + 1
  /\ intent' = [intent EXCEPT ![lastIdx + 1] = "pending"]
  /\ UNCHANGED <<status, waitingFor, generation, owner, lease, cancelRequested,
                 ancestorCancelled, procVars>>

\* The owner takes every intent it has read into its next step
ApplyUserIntents(g) ==
  /\ executor[g] = "running" /\ lastIdx < MaxIdx
  /\ OwnedBy(g) /\ LeaseLive /\ status = "running"
  /\ \E k \in DOMAIN intent :
       /\ intent[k] = "pending"
       /\ intent' = [j \in DOMAIN intent |->
                       IF j <= k /\ intent[j] = "pending" THEN "applied" ELSE intent[j]]
  /\ lastIdx' = lastIdx + 1
  /\ UNCHANGED <<status, waitingFor, generation, owner, lease, cancelRequested,
                 ancestorCancelled, procVars>>

\* The run admits one action of its live owner: a grant event is appended
MayAdmitAction(g) == LiveAuthority(g, {"running"}) /\ ~Markers
AdmitRunAction(g) ==
  /\ executor[g] = "running" /\ lastIdx < MaxIdx
  /\ MayAdmitAction(g)
  /\ lastIdx' = lastIdx + 1
  /\ UNCHANGED <<status, waitingFor, generation, owner, lease, cancelRequested,
                 ancestorCancelled, intent, procVars>>

-----------------------------------------------------------------------------
\* Leases, crashes and recovery

LeaseRuns == owner /= NoPod /\ lease > NoLease
Tick ==
  /\ LeaseRuns
  /\ lease' = lease - 1
  /\ UNCHANGED <<status, waitingFor, generation, owner, lastIdx, cancelRequested,
                 ancestorCancelled, intent, procVars>>

\* Mutant: the renewal adds to the old expiry instead of to the current time
RenewOwnerLeaseAdding(g) ==
  /\ executor[g] = "running"
  /\ LiveAuthority(g, Active)
  /\ lease' = lease + Ttl
  /\ UNCHANGED <<status, waitingFor, generation, owner, lastIdx, cancelRequested,
                 ancestorCancelled, intent, procVars>>

\* The heartbeat, and the renewal in front of every provider call
RenewOwnerLease(g) ==
  /\ executor[g] = "running"
  /\ LiveAuthority(g, Active)
  /\ lease' = Ttl
  /\ UNCHANGED <<status, waitingFor, generation, owner, lastIdx, cancelRequested,
                 ancestorCancelled, intent, procVars>>

ReleaseOwnerLease(g) == IF OwnedBy(g) THEN ClearOwner ELSE KeepOwner

\* The executor has settled its outcome and leaves, releasing the lease
ExecutorExit(g) ==
  /\ executor[g] = "settled"
  /\ executor' = [executor EXCEPT ![g] = "gone"]
  /\ ReleaseOwnerLease(g)
  /\ UNCHANGED <<status, waitingFor, generation, lastIdx, cancelRequested,
                 ancestorCancelled, intent, podOf, claimed, orphanRead, cancelCall, cancelGen>>

(* The heartbeat is refused, or its attempts time out; it fences the executor *)
(* and the executor leaves unsettled.  Bound: a timeout with the authority    *)
(* intact happens only while a later generation can still recover the run.    *)
ExecutorFenced(g) ==
  /\ executor[g] = "running"
  /\ ~LiveAuthority(g, Active) \/ generation < MaxGen
  /\ executor' = [executor EXCEPT ![g] = "gone"]
  /\ ReleaseOwnerLease(g)
  /\ UNCHANGED <<status, waitingFor, generation, lastIdx, cancelRequested,
                 ancestorCancelled, intent, podOf, claimed, orphanRead, cancelCall, cancelGen>>

\* A process dies; bound: only while a later generation can still recover
ExecutorCrash(g) ==
  /\ generation < MaxGen
  /\ \/ /\ executor[g] \in {"running", "settled"}
        /\ executor' = [executor EXCEPT ![g] = "gone"]
     \/ /\ executor[g] = "recovering"
        /\ executor' = [executor EXCEPT ![g] = "retired"]
  /\ UNCHANGED <<rowVars, podOf, claimed, orphanRead, cancelCall, cancelGen>>

(* A restarted pod claims at once what it owned itself (its executors died    *)
(* with the process) and what has expired; the periodic sweep of a running    *)
(* pod waits a whole further lease.                                           *)
StartupMayClaim(p) ==
  /\ \A g \in Generations : podOf[g] = p => executor[g] \in {"gone", "retired"}
  /\ owner \in {NoPod, p} \/ lease < 0
\* Mutant: the sweep looks for released runs only, never for expired ones
PeriodicMayClaimReleased == owner = NoPod
PeriodicMayClaim == owner = NoPod \/ lease < -Ttl

ClaimRecovery(p) ==
  /\ generation < MaxGen
  /\ BlocksSession
  /\ StartupMayClaim(p) \/ PeriodicMayClaim
  /\ owner' = p /\ lease' = Ttl
  /\ generation' = generation + 1
  /\ executor' = [executor EXCEPT ![generation + 1] = "recovering"]
  /\ podOf' = [podOf EXCEPT ![generation + 1] = p]
  /\ claimed' = status
  /\ UNCHANGED <<status, waitingFor, lastIdx, cancelRequested, ancestorCancelled,
                 intent, orphanRead, cancelCall, cancelGen>>

(* settle_recovered_run: a cancelled lineage ends the run; a run that waited, *)
(* was paused or left a checkpoint is parked for the session to continue; any *)
(* other running run has failed.  The claim and its status fence all three.   *)
SettleRecovered(g) ==
  /\ executor[g] = "recovering"
  /\ \/ TransitionRunStatus({claimed}, g, "cancelled", FALSE, "user", FALSE)
     \/ TransitionRunStatus({claimed}, g, "paused", FALSE, "none", TRUE)
     \/ /\ claimed = "running"
        /\ TransitionRunStatus({claimed}, g, "failed", FALSE, "none", FALSE)
  /\ ClearOwner
  /\ executor' = [executor EXCEPT ![g] = "retired"]
  /\ claimed' = "none"
  /\ UNCHANGED <<podOf, orphanRead, cancelCall, cancelGen>>

(* recovery_conflict_current_run: the settlement missed, because a control    *)
(* call changed the status or stored a marker after recovery had looked, or   *)
(* the claim expired.  The claim is retired only if the winner left the run   *)
(* idle; otherwise it stays until it expires.                                 *)
RecoveryConflict(g) ==
  /\ executor[g] = "recovering"
  /\ \/ ~(OwnedBy(g) /\ LeaseLive /\ status = claimed)
     \/ Markers /\ generation < MaxGen
  /\ executor' = [executor EXCEPT ![g] = "retired"]
  /\ claimed' = IF generation = g THEN "none" ELSE claimed
  /\ IF OwnedBy(g) /\ ~BlocksSession
       THEN ClearOwner \/ (status = "paused" /\ KeepOwner)  \* kept for a handoff checkpoint
       ELSE KeepOwner
  /\ UNCHANGED <<status, waitingFor, generation, lastIdx, cancelRequested,
                 ancestorCancelled, intent, podOf, orphanRead, cancelCall, cancelGen>>

-----------------------------------------------------------------------------
RunInit ==
  \E p \in Pods :
    /\ status = "running" /\ waitingFor = FALSE
    /\ generation = 0 /\ owner = p /\ lease = Ttl /\ lastIdx = 0
    /\ cancelRequested = FALSE /\ ancestorCancelled = FALSE
    /\ intent = [k \in 1..MaxIdx |-> "none"]
    /\ executor = [g \in Generations |-> IF g = 0 THEN "running" ELSE "none"]
    /\ podOf = [g \in Generations |-> IF g = 0 THEN p ELSE NoPod]
    /\ claimed = "none" /\ orphanRead = "none"
    /\ cancelCall = "idle" /\ cancelGen = 0

ExecutorStep(g) ==
  \/ \E to \in TerminalSet : ClaimCanonicalTerminal(g, to)
  \/ CancelIfExactLiveOwner(g) \/ ParkExecution(g) \/ SettleBehindPause(g)
  \/ BeginInteractionWait(g) \/ ApplyUserIntents(g) \/ RenewOwnerLease(g)
  \/ AdmitRunAction(g)
  \/ ExecutorExit(g) \/ ExecutorFenced(g) \/ ExecutorCrash(g)
  \/ SettleRecovered(g) \/ RecoveryConflict(g)

ControlStep ==
  \/ PauseLive \/ ReadOrphan \/ ReconcileOrphanedExecution \/ ResumeLive
  \/ ReadForCancel \/ RequestCancellation \/ TerminalizeOrphanedCancellation
  \/ RequestSessionCancellation \/ CancelAncestor \/ CancelDescendant
  \/ ReconcileAgentCancellation \/ AdmitGuidance \/ ResolveInteraction

\* Every step of the run but the clock's
RunStep ==
  \/ \E g \in Generations : ExecutorStep(g)
  \/ ControlStep
  \/ \E p \in Pods : ActivateExecutionResume(p) \/ ClaimRecovery(p)

RunNext == RunStep \/ Tick

RunSpec == RunInit /\ [][RunNext]_runVars

(* The fairness the deployment provides: the clock runs, a settled executor   *)
(* leaves, one whose renewal is refused is fenced, the periodic sweep runs,   *)
(* a recovery settles its claim or gives it up, and a cancel call returns.  A *)
(* user, a child reconciliation or a second cancel call is never assumed.     *)
LosesAuthority(g) == ~LiveAuthority(g, Active) /\ ExecutorFenced(g)
PeriodicRecovery  == PeriodicMayClaim /\ \E p \in Pods : ClaimRecovery(p)
RunFairness ==
  /\ WF_runVars(Tick) /\ WF_runVars(PeriodicRecovery)
  /\ WF_runVars(RequestCancellation) /\ WF_runVars(TerminalizeOrphanedCancellation)
  /\ \A g \in Generations :
       /\ WF_runVars(ExecutorExit(g)) /\ WF_runVars(LosesAuthority(g))
       /\ WF_runVars(SettleRecovered(g)) /\ WF_runVars(RecoveryConflict(g))

FairRunSpec == RunSpec /\ RunFairness

-----------------------------------------------------------------------------
\* Properties

RunTypeOK ==
  /\ status \in Active \cup TerminalSet /\ waitingFor \in BOOLEAN
  /\ generation \in Generations
  /\ owner \in Pods \cup {NoPod} /\ lease \in NoLease..Ttl
  /\ lastIdx \in Nat
  /\ cancelRequested \in BOOLEAN /\ ancestorCancelled \in BOOLEAN
  /\ intent \in [1..MaxIdx -> Dispositions]
  /\ executor \in [Generations -> {"none", "running", "settled", "gone",
                                   "recovering", "retired"}]
  /\ podOf \in [Generations -> Pods \cup {NoPod}]
  /\ claimed \in Active \cup {"none"}
  /\ orphanRead \in {"none", "running", "paused"}
  /\ cancelCall \in {"idle", "read", "marked"} /\ cancelGen \in Generations

(* Once a run has reached a terminal status no late executor, recovery claim, *)
(* pause, resume or cancellation moves it again, hands it to a new generation *)
(* or changes what became of a user's guidance.                               *)
TerminalIsFinal ==
  [][Terminal(status) => UNCHANGED <<status, generation, intent>>]_runVars

(* A stored cancellation marker decides the outcome: whoever ends the run     *)
(* after it, the owner, a recovery or an orphan call, ends it as cancelled.   *)
CancellationWins ==
  [][~Terminal(status) /\ Terminal(status') /\ Markers => status' = "cancelled"]_runVars

(* Every piece of guidance the run accepted has been applied or handed back   *)
(* when the run ends, by whichever of the terminal paths it ended.            *)
NoGuidanceLost == Terminal(status) => \A k \in DOMAIN intent : intent[k] /= "pending"

(* Guidance is never both applied and returned: the first disposition stays,  *)
(* although an executor may apply while recovery or a control call returns.   *)
DispositionIsFinal ==
  [][\A k \in DOMAIN intent :
       intent[k] \in {"applied", "returned"} => intent'[k] = intent[k]]_runVars

Orphaned == BlocksSession /\ ~\E g \in Generations : executor[g] \in {"running", "settled", "recovering"}

(* A run whose executor died or left without settling it is taken over by a   *)
(* recovery (or settled by a control call): it does not hold its session      *)
(* forever.  MaxGen bounds the recoveries.                                    *)
OrphanIsRecovered == (Orphaned /\ generation < MaxGen) ~> ~Orphaned

(* A cancellation stored on a run that occupies its session ends the run,     *)
(* whether its executor observes the marker, is fenced by it, or has died.    *)
CancelOfBlockingRunConverges ==
  (cancelRequested /\ BlocksSession) ~> (Terminal(status) \/ generation = MaxGen)

(* What cancel_run promises when it leaves the run to a live executor: a      *)
(* stored cancellation marker leads to a terminal run.                        *)
CancelConverges == cancelRequested ~> (Terminal(status) \/ generation = MaxGen)
=============================================================================
