---------------------------- MODULE Interaction ----------------------------
(* How a run asks its user for approval of a tool call, and how the answer    *)
(* reaches the call.  A request is registered, the run parks on it, and one   *)
(* answer is recorded for it; the answers of several clients, the deadline of *)
(* the asking executor, newer guidance, a lost lease, a cancellation and the  *)
(* end of the run all compete to be that one.  An answer that comes before    *)
(* the run waits for it is queued and promoted later.                         *)
(*                                                                            *)
(* Every transaction of services/src/runs.rs is one action.  The executors    *)
(* are the approval gate of server tools and the batch of edge tools that is  *)
(* registered at once and waited for one call at a time.  Of the event log    *)
(* the model keeps each request's facts and, for every index the code         *)
(* compares, how many pieces of guidance lie before it.                       *)
EXTENDS Naturals, Sequences, Functions

CONSTANTS Pods,           \* server processes
          FirstPod,       \* the pod that starts the run
          Requests,       \* the approvals the run asks for
          Batches,        \* which of them, in which order, one batch of edge calls may ask for
          None,           \* an absent fact
          MaxGen,         \* bound: the last owner generation
          MaxIntents      \* bound: pieces of guidance the user sends

\* The authority of a request: who asked, in which generation, after how much guidance
Authority == [gen: Nat, pod: Pods, epoch: Nat]

UserAnswers == {"allow", "deny"}
\* what the executor itself answers, and what the end of the run answers
Answers     == UserAnswers \cup {"timeout", "stale", "closed"}
Resolutions ==
  [answer: Answers, disposition: {"resumed", "superseded", "lost"},
   at: {None} \cup [gen: Nat, seen: Nat]]

ASSUME InteractionConstants ==
  /\ FirstPod \in Pods /\ None \notin Pods /\ None \notin Requests
  /\ None \notin Authority \cup Answers \cup Resolutions
  /\ Batches \subseteq Seq(Requests)
  /\ MaxGen \in Nat /\ MaxIntents \in Nat

VARIABLES
  batch,           \* the edge calls of the run; its other requests are server tools
  status,          \* agent_runs.status; waiting stands for waiting_for = tool_approval
  owner,           \* owner_pod_id
  generation,      \* run_generation
  leased,          \* owner_lease_expires_at >= NOW(6)
  cancelRequested, \* cancellation_requested_at IS NOT NULL
  intents,         \* how many user_intent events the log holds
  settled,         \* how many of them have been applied or returned
  recovering,      \* a recovery claim has not been settled yet
  log,             \* the requests in the order of their approval_required events
  frontier,        \* the request of the latest interaction_wait_started event
  fact,            \* request -> its authority, queued response, wait and resolution
  gate,            \* request -> the executor that asks
  loops,           \* the pods whose executor has not been stopped
  accepted         \* request -> the answers whose senders were told they stand

runRow  == <<status, owner, generation, leased, cancelRequested, recovering>>
facts   == <<batch, log, frontier, fact>>
control == <<intents, settled>>
vars    == <<runRow, facts, control, gate, loops, accepted>>

Finished    == {"denied", "approved"}
Idle        == [stage |-> "idle", pod |-> None, gen |-> 0, epoch |-> 0]
Gone        == [Idle EXCEPT !.stage = "denied"]
NoFact      == [auth |-> None, queued |-> None, wait |-> None, resolved |-> None]

Init ==
  /\ status = "running" /\ owner = FirstPod /\ generation = 0 /\ leased = TRUE
  /\ cancelRequested = FALSE /\ recovering = FALSE
  /\ intents = 0 /\ settled = 0
  /\ batch \in Batches /\ log = <<>> /\ frontier = None
  /\ fact = [r \in Requests |-> NoFact]
  /\ gate = [r \in Requests |-> Idle]
  /\ loops = {FirstPod}
  /\ accepted = [r \in Requests |-> {}]

-----------------------------------------------------------------------------
\* What a transaction reads under the row lock

Live == status \in {"running", "waiting"}

\* interaction_superseding_intent_tx: guidance newer than control epoch e
Newer(e) == intents > e

\* The authority a request was registered or waited for with still owns the run
Holds(a) == /\ Live /\ leased
            /\ generation = a.gen /\ owner = a.pod

AtFrontier(r) == status = "waiting" /\ fact[r].wait /= None /\ frontier = r

\* The index of the first registered request that has no resolution
Earliest(r) == \A i \in DOMAIN log :
                 log[i] = r => \A j \in 1..(i - 1) : fact[log[j]].resolved /= None

-----------------------------------------------------------------------------
\* resolve_run_interaction: one transaction records an answer

(* Mutant: an answer to a run that waits is recorded without looking for      *)
(* guidance the user has sent since the question.                             *)
VerdictOverGuidance(r) ==
  LET f == fact[r] IN
  IF AtFrontier(r) THEN IF Holds(f.wait) THEN "resumed" ELSE "lost"
  ELSE IF f.wait /= None \/ ~Holds(f.auth) THEN "lost"
  ELSE IF Newer(f.auth.epoch) THEN "superseded" ELSE "queued"

(* What becomes of an answer.  On the frontier it resumes the run, unless the *)
(* authority is gone or newer guidance supersedes it.  Before the wait it is  *)
(* queued, under the same two conditions.  After it, it has come too late.    *)
Verdict(r) ==
  LET f == fact[r] IN
  IF AtFrontier(r)
    THEN IF ~Holds(f.wait) THEN "lost"
         ELSE IF Newer(f.wait.epoch) THEN "superseded" ELSE "resumed"
  ELSE IF f.wait /= None \/ ~Holds(f.auth) THEN "lost"
  ELSE IF Newer(f.auth.epoch) THEN "superseded" ELSE "queued"

\* Mutant: a second answer is not compared with the queued one
RecordableOverQueued(r, a) ==
  /\ fact[r].auth /= None /\ fact[r].resolved = None
  /\ ~cancelRequested

Recordable(r, a) ==
  /\ fact[r].auth /= None /\ fact[r].resolved = None
  /\ fact[r].queued \in {None, a}
  /\ ~cancelRequested

(* The receipt of an answer that resumes says under which generation and      *)
(* after how much guidance; of the others the disposition is all that counts. *)
Resolution(a, disposition) ==
  [answer |-> a, disposition |-> disposition,
   at |-> IF disposition = "resumed" THEN [gen |-> generation, seen |-> intents] ELSE None]

\* Mutant: a superseded answer leaves the run waiting
ReleasesUnsuperseded(r) == AtFrontier(r) /\ Verdict(r) = "resumed"

\* The wait is released by the answer that is superseded, too
Releases(r) == AtFrontier(r) /\ Verdict(r) \in {"resumed", "superseded"}

ResolveRunInteraction(r, a) ==
  IF ~Recordable(r, a) THEN UNCHANGED <<fact, status>>
  ELSE IF Verdict(r) = "queued"
    THEN fact' = [fact EXCEPT ![r].queued = a] /\ UNCHANGED status
    ELSE /\ fact' = [fact EXCEPT ![r].resolved = Resolution(a, Verdict(r))]
         /\ status' = IF Releases(r) THEN "running" ELSE status

\* The outcome is Resolved, Idempotent or Queued: the answer stands
Stands(r, a, f) ==
  IF f.resolved /= None
    THEN f.resolved.answer = a /\ f.resolved.disposition = "resumed"
    ELSE f.queued = a /\ Verdict(r) = "queued"

(* A client answers, for the first time or again.  A client whose reply is    *)
(* lost claims less, so every reply is taken to arrive.                       *)
ClientAnswers(r, a) ==
  /\ ResolveRunInteraction(r, a)
  /\ accepted' = [accepted EXCEPT ![r] = @ \cup (IF Stands(r, a, fact'[r]) THEN {a} ELSE {})]
  /\ UNCHANGED <<owner, generation, leased, cancelRequested, recovering,
                 batch, log, frontier, control, gate, loops>>

-----------------------------------------------------------------------------
\* The executor that asks

Own(r)       == [gen |-> gate[r].gen, pod |-> gate[r].pod, epoch |-> gate[r].epoch]
SetStage(r, s) == gate' = [gate EXCEPT ![r].stage = s]
Deny(r)      == gate' = [gate EXCEPT ![r] = Gone]
InBatch(r)   == r \in Range(batch)
InFlight(r)  == gate[r].stage \notin Finished \cup {"idle"}
(* An edge batch that cannot go on closes every call it has not started.  The *)
(* gate of a server tool has only its own call to give up.                    *)
StopBatch ==
  gate' = [q \in Requests |->
            IF InBatch(q) /\ InFlight(q) THEN [gate[q] EXCEPT !.stage = "closing"] ELSE gate[q]]
GiveUp(r) == IF InBatch(r) THEN StopBatch ELSE Deny(r)

(* The executor reads the generation and the control epoch its request belongs*)
(* to.  Calls that need an approval are made one at a time.                   *)
Load(R, p) ==
  /\ p \in loops /\ status = "running" /\ R /= {}
  /\ \A r \in R : gate[r].stage = "idle"
  /\ \A r \in Requests : ~(InFlight(r) /\ gate[r].pod = p /\ gate[r].gen = generation)
  /\ gate' = [r \in Requests |->
               IF r \notin R THEN gate[r]
               ELSE [stage |-> "loaded", pod |-> p, gen |-> generation, epoch |-> intents]]
  /\ UNCHANGED <<runRow, facts, control, loops, accepted>>

(* register_guarded_interaction_batch: all requests of a batch or none.  The  *)
(* executor may fail to learn that the registration has committed.            *)
RegisterBatch(S) ==
  LET r == S[1] IN
  /\ \A i \in DOMAIN S : gate[S[i]].stage = "loaded"
  /\ \/ /\ Holds(Own(r)) /\ ~Newer(gate[r].epoch) /\ ~cancelRequested
        /\ log' = log \o S
        /\ fact' = [q \in Requests |->
                     IF q \in Range(S) THEN [fact[q] EXCEPT !.auth = Own(r)] ELSE fact[q]]
        /\ \/ gate' = [q \in Requests |->
                        IF q \in Range(S) THEN [gate[q] EXCEPT !.stage = "registered"] ELSE gate[q]]
           \/ GiveUp(r)
     \/ /\ ~(Holds(Own(r)) /\ ~Newer(gate[r].epoch) /\ ~cancelRequested)
        /\ GiveUp(r) /\ UNCHANGED <<log, fact>>
  /\ UNCHANGED <<runRow, batch, frontier, control, loops, accepted>>

\* begin_run_interaction_wait may open a wait for r
MayOpen(r) ==
  /\ Holds(Own(r)) /\ ~Newer(gate[r].epoch)
  /\ Earliest(r) /\ status = "running" /\ ~cancelRequested

\* ... or finds it open already, after an acknowledgement was lost
MayRejoin(r) ==
  /\ AtFrontier(r) /\ Holds(Own(r)) /\ ~Newer(gate[r].epoch) /\ Earliest(r)

Queued(r)      == fact[r].queued /= None /\ fact[r].resolved = None
QueuedStale(r) == Queued(r) /\ (~Holds(fact[r].auth) \/ Newer(fact[r].auth.epoch))

\* A queued answer that no longer counts is recorded as such, and read
FinalizeQueued(r) ==
  /\ QueuedStale(r)
  /\ fact' = [fact EXCEPT ![r].resolved =
                Resolution(fact[r].queued, IF Holds(fact[r].auth) THEN "superseded" ELSE "lost")]
  /\ SetStage(r, "answered")
  /\ UNCHANGED <<status, frontier>>

\* A queued answer is promoted: the wait begins and ends in one transaction
PromoteQueued(r) ==
  /\ Queued(r) /\ MayOpen(r)
  /\ fact' = [fact EXCEPT ![r].wait = fact[r].auth,
                          ![r].resolved = Resolution(fact[r].queued, "resumed")]
  /\ frontier' = r
  /\ SetStage(r, "answered") \/ GiveUp(r)
  /\ UNCHANGED status

\* Only the gate of a server tool looks for guidance once more before it polls
Opened(r) == SetStage(r, IF InBatch(r) THEN "polling" ELSE "opened")

(* The run parks.  If the commit is not acknowledged the call starts again,   *)
(* once; then the executor gives up on a wait that may be open.               *)
OpenWait(r) ==
  /\ fact[r].resolved = None /\ fact[r].queued = None /\ fact[r].wait = None
  /\ MayOpen(r)
  /\ fact' = [fact EXCEPT ![r].wait = Own(r)]
  /\ status' = "waiting" /\ frontier' = r
  /\ Opened(r) \/ UNCHANGED gate \/ GiveUp(r)

\* Nothing is written: the answer is there, the wait is open, or neither can be
JoinWait(r) ==
  /\ \/ fact[r].resolved /= None /\ SetStage(r, "answered")
     \/ fact[r].resolved = None /\ MayRejoin(r) /\ Opened(r)
     \/ /\ fact[r].resolved = None /\ ~MayRejoin(r) /\ ~QueuedStale(r)
        /\ ~(MayOpen(r) /\ (Queued(r) \/ fact[r].wait = None))
        /\ GiveUp(r)
  /\ UNCHANGED <<fact, status, frontier>>

BeginRunInteractionWait(r) ==
  /\ gate[r].stage = "registered"
  /\ \A i, j \in DOMAIN batch :
       batch[i] = r /\ j < i => gate[batch[j]].stage \in Finished
  /\ FinalizeQueued(r) \/ PromoteQueued(r) \/ OpenWait(r) \/ JoinWait(r)
  /\ UNCHANGED <<owner, generation, leased, cancelRequested, recovering, batch, log,
                 control, loops, accepted>>

CheckGuidance(r) ==
  /\ gate[r].stage = "opened"
  /\ SetStage(r, IF intents > settled THEN "closing" ELSE "polling")
  /\ UNCHANGED <<runRow, facts, control, loops, accepted>>

\* The poll finds the resolution
ReadResolution(r) ==
  /\ gate[r].stage = "polling" /\ fact[r].resolved /= None
  /\ SetStage(r, "answered")
  /\ UNCHANGED <<runRow, facts, control, loops, accepted>>

\* The poll finds guidance newer than the question, or a new permission mode
Withdraw(r) ==
  /\ gate[r].stage = "polling"
  /\ \/ InBatch(r) /\ StopBatch
     \/ ~InBatch(r) /\ Newer(gate[r].epoch) /\ SetStage(r, "closing")
  /\ UNCHANGED <<runRow, facts, control, loops, accepted>>

\* The run was cancelled, has ended, or its executor was stopped
Abandon(r) ==
  /\ gate[r].stage = "polling"
  /\ cancelRequested \/ gate[r].pod \notin loops \/ ~Live
  /\ GiveUp(r)
  /\ UNCHANGED <<runRow, facts, control, loops, accepted>>

\* An executor that gave up records that, if nobody has answered
CloseApproval(r) ==
  /\ gate[r].stage = "closing"
  /\ ResolveRunInteraction(r, "stale")
  /\ Deny(r)
  /\ UNCHANGED <<owner, generation, leased, cancelRequested, recovering,
                 batch, log, frontier, control, loops, accepted>>

(* The deadline passes.  Whatever the transaction finds or records decides:   *)
(* an answer that came first wins over the timeout.                           *)
Expire(r) ==
  /\ gate[r].stage = "polling"
  /\ ResolveRunInteraction(r, "timeout")
  /\ LET d == fact'[r].resolved IN
     IF d /= None /\ d.disposition \in {"resumed", "superseded"}
       THEN SetStage(r, "answered")
       ELSE GiveUp(r)
  /\ UNCHANGED <<owner, generation, leased, cancelRequested, recovering,
                 batch, log, frontier, control, loops, accepted>>

(* authorize_resolved_decision.  An answer without authority stops the whole  *)
(* executor; an allowed call of a server tool is checked against guidance     *)
(* once more.                                                                 *)
Decide(r) ==
  LET d == fact[r].resolved IN
  /\ gate[r].stage = "answered"
  /\ \/ /\ d.disposition = "lost"
        /\ GiveUp(r)
        /\ loops' = IF InBatch(r) THEN loops ELSE loops \ {gate[r].pod}
     \/ /\ d.disposition = "superseded"
        /\ Deny(r) \/ (InBatch(r) /\ StopBatch)
        /\ UNCHANGED loops
     \/ /\ d.disposition = "resumed"
        /\ IF d.answer = "allow" /\ (InBatch(r) \/ intents = settled)
             THEN SetStage(r, "approved") ELSE Deny(r)
        /\ UNCHANGED loops
  /\ UNCHANGED <<runRow, facts, control, accepted>>

-----------------------------------------------------------------------------
\* The run around the question

AdmitGuidance ==
  /\ Live /\ leased /\ intents < MaxIntents
  /\ intents' = intents + 1
  /\ UNCHANGED <<runRow, facts, settled, gate, loops, accepted>>

\* Guidance is applied between two steps of the owner's loop
ApplyGuidance ==
  /\ status = "running" /\ leased /\ owner \in loops
  /\ \A r \in Requests : gate[r].pod = owner => ~InFlight(r)
  /\ settled < intents /\ settled' = intents
  /\ UNCHANGED <<runRow, facts, intents, gate, loops, accepted>>

RequestCancellation ==
  /\ status \in {"running", "waiting", "paused"} /\ ~cancelRequested
  /\ cancelRequested' = TRUE
  /\ UNCHANGED <<status, owner, generation, leased, recovering, facts, control,
                 gate, loops, accepted>>

\* terminal_interaction_closure_events_tx: the end of the run answers everything
CloseUnresolved ==
  fact' = [r \in Requests |->
            IF fact[r].auth /= None /\ fact[r].resolved = None
              THEN [fact[r] EXCEPT !.resolved = Resolution("closed", "lost")]
              ELSE fact[r]]

Terminate ==
  /\ status \in {"running", "waiting", "paused"}
  /\ leased \/ cancelRequested \/ recovering
  /\ status' = "done" /\ recovering' = FALSE /\ leased' = FALSE
  /\ settled' = intents
  /\ CloseUnresolved
  /\ UNCHANGED <<owner, generation, cancelRequested, batch, log, frontier, intents,
                 gate, loops, accepted>>

PauseRun ==
  /\ status = "running" /\ ~cancelRequested
  /\ status' = "paused"
  /\ UNCHANGED <<owner, generation, leased, cancelRequested, recovering, facts,
                 control, gate, loops, accepted>>

\* The owner is still there: the pause is lifted
ResumeRun ==
  /\ status = "paused" /\ leased /\ ~recovering /\ ~cancelRequested
  /\ status' = "running"
  /\ UNCHANGED <<owner, generation, leased, cancelRequested, recovering, facts,
                 control, gate, loops, accepted>>

\* A parked run continues as a new generation
ContinueRun(p) ==
  /\ status = "paused" /\ ~leased /\ ~cancelRequested /\ generation < MaxGen
  /\ status' = "running" /\ owner' = p /\ generation' = generation + 1 /\ leased' = TRUE
  /\ loops' = loops \cup {p}
  /\ UNCHANGED <<cancelRequested, recovering, facts, control, gate, accepted>>

LeaseExpires ==
  /\ leased /\ leased' = FALSE
  /\ UNCHANGED <<status, owner, generation, cancelRequested, recovering, facts,
                 control, gate, loops, accepted>>

\* The sweep claims a run that nobody renews; its status is kept until it settles
ClaimRecovery(p) ==
  /\ Live /\ ~leased /\ generation < MaxGen
  /\ owner' = p /\ generation' = generation + 1 /\ leased' = TRUE /\ recovering' = TRUE
  /\ UNCHANGED <<status, cancelRequested, facts, control, gate, loops, accepted>>

SettleRecovered ==
  /\ recovering /\ Live /\ leased /\ ~cancelRequested
  /\ status' = "paused" /\ recovering' = FALSE /\ leased' = FALSE
  /\ settled' = intents
  /\ UNCHANGED <<owner, generation, cancelRequested, facts, intents, gate, loops, accepted>>

Crash(p) ==
  /\ p \in loops
  /\ loops' = loops \ {p}
  /\ gate' = [r \in Requests |->
               IF gate[r].pod = p /\ InFlight(r) THEN Gone ELSE gate[r]]
  /\ UNCHANGED <<runRow, facts, control, accepted>>

GateStep(r) ==
  \/ BeginRunInteractionWait(r) \/ CheckGuidance(r) \/ ReadResolution(r)
  \/ Withdraw(r) \/ Abandon(r) \/ CloseApproval(r) \/ Expire(r) \/ Decide(r)

RunStep ==
  \/ AdmitGuidance \/ ApplyGuidance \/ RequestCancellation \/ Terminate
  \/ PauseRun \/ ResumeRun \/ LeaseExpires \/ SettleRecovered
  \/ \E p \in Pods : ContinueRun(p) \/ ClaimRecovery(p) \/ Crash(p)

Next ==
  \/ \E r \in Requests, a \in UserAnswers : ClientAnswers(r, a)
  \/ \E r \in Requests \ Range(batch), p \in Pods : Load({r}, p)
  \/ \E p \in Pods : Load(Range(batch), p)
  \/ \E r \in Requests \ Range(batch) : RegisterBatch(<<r>>)
  \/ batch /= <<>> /\ RegisterBatch(batch)
  \/ \E r \in Requests : GateStep(r)
  \/ RunStep

Spec == Init /\ [][Next]_vars

-----------------------------------------------------------------------------
\* Properties

(* A tool runs on an approval only if the one resolution of its request says  *)
(* allow, and that resolution was recorded while the generation that asked    *)
(* still owned the run and before any guidance newer than the question.       *)
ApprovalIsCurrent ==
  \A r \in Requests : gate[r].stage = "approved" =>
    LET d == fact[r].resolved IN
    /\ d /= None
    /\ d.answer = "allow" /\ d.disposition = "resumed"
    /\ d.at = [gen |-> gate[r].gen, seen |-> gate[r].epoch]

(* Two clients never both hear that their different answers stand, and what a *)
(* client has heard is what is recorded in the end, by whatever path (queue,  *)
(* promotion, deadline, late close), unless the run ended first.              *)
AcceptedAnswerStands ==
  \A r \in Requests :
    /\ \A a, b \in accepted[r] : a = b
    /\ accepted[r] /= {} /\ fact[r].resolved /= None =>
         fact[r].resolved.answer \in accepted[r] \cup {"closed"}

(* A run that waits can still be answered: the request on its frontier has no *)
(* resolution, unless the owner that waits has lost the run.                  *)
WaitIsAnswerable ==
  status = "waiting" =>
    /\ frontier /= None /\ fact[frontier].wait /= None
    /\ Holds(fact[frontier].wait) => fact[frontier].resolved = None

=============================================================================
