------------------------- MODULE InteractionProofs -------------------------
(***************************************************************************)
(* Proofs about approvals, for any requests, batches, pods, generations    *)
(* and amounts of guidance.  The argument follows one request: what its    *)
(* executor is at, what the log holds of it, and that the two agree on     *)
(* whose request it is and after how much guidance it was asked.           *)
(***************************************************************************)
EXTENDS Interaction, TLAPS

Stages == {"idle", "loaded", "registered", "opened", "polling", "answered", "closing"} \cup Finished
Statuses == {"running", "waiting", "paused", "done"}
Gates == [stage: Stages, pod: Pods \cup {None}, gen: Nat, epoch: Nat]
Facts == [auth: {None} \cup Authority, queued: {None} \cup Answers,
          wait: {None} \cup Authority, resolved: {None} \cup Resolutions]

-----------------------------------------------------------------------------
(* The inductive invariant *)

RunShape ==
  /\ status \in Statuses /\ owner \in Pods /\ generation \in Nat
  /\ intents \in Nat /\ frontier \in Requests \cup {None}

RequestShape ==
  /\ gate \in [Requests -> Gates] /\ fact \in [Requests -> Facts]
  /\ accepted \in [Requests -> SUBSET UserAnswers]
  /\ batch \in Seq(Requests)

InteractionShape == RunShape /\ RequestShape

\* Nothing is on record for a request before it is registered; from then on its
\* record bears the generation and the control epoch its executor has read.
Signed(r) ==
  /\ gate[r].stage \notin {"idle", "denied"} => gate[r].pod \in Pods
  /\ gate[r].stage \in {"idle", "loaded"} => fact[r] = NoFact
  /\ gate[r].stage \in {"registered", "opened", "polling", "answered", "approved"}
       => fact[r].auth = Own(r)
  /\ fact[r].wait \in {None, fact[r].auth}

\* What was read is not newer than what there is.
Past(r) ==
  /\ gate[r].gen <= generation /\ gate[r].epoch <= intents
  /\ fact[r].auth /= None => fact[r].auth.gen <= generation /\ fact[r].auth.epoch <= intents

\* The calls of a batch read the same generation and control epoch.
LoadedAlike ==
  \A q, r \in Range(batch) :
    gate[q].stage = "loaded" /\ gate[r].stage = "loaded" => Own(q) = Own(r)

\* A receipt that resumes was written under the authority of the request, and the
\* executor acts on nothing but a receipt.
Receipt(r) ==
  LET d == fact[r].resolved IN
  /\ d /= None /\ d.disposition = "resumed" =>
       d.at = [gen |-> fact[r].auth.gen, seen |-> fact[r].auth.epoch]
  /\ gate[r].stage \in {"answered", "approved"} => d /= None
  /\ gate[r].stage = "approved" => d.answer = "allow" /\ d.disposition = "resumed"

\* An answer is queued only before the wait, and is promoted as the wait begins.
QueuedBefore(r) == fact[r].queued /= None /\ fact[r].wait /= None => fact[r].resolved /= None

\* What the clients were told is one answer, and it is queued or recorded.
Kept(r) ==
  /\ \A a, b \in accepted[r] : a = b
  /\ \A a \in accepted[r] : IF fact[r].resolved = None THEN fact[r].queued = a
                                                      ELSE fact[r].resolved.answer \in {a, "closed"}

Sound(r) == Signed(r) /\ Past(r) /\ Receipt(r) /\ QueuedBefore(r) /\ Kept(r)

InteractionInv ==
  InteractionShape /\ LoadedAlike /\ (\A r \in Requests : Sound(r)) /\ WaitIsAnswerable

-----------------------------------------------------------------------------
(* What may become of a request: its record, ... *)

\* register_guarded_interaction_batch
Registers(r) ==
  /\ gate[r].stage = "loaded" /\ fact[r] = NoFact
  /\ fact'[r] = [NoFact EXCEPT !.auth = Own(r)]
  /\ gate'[r].stage \notin {"idle", "loaded"}

\* resolve_run_interaction: before the wait, and otherwise
Queues(r, a) ==
  /\ Recordable(r, a) /\ Verdict(r) = "queued"
  /\ fact'[r] = [fact[r] EXCEPT !.queued = a]
Records(r, a) ==
  /\ Recordable(r, a) /\ Verdict(r) /= "queued"
  /\ fact'[r] = [fact[r] EXCEPT !.resolved = Resolution(a, Verdict(r))]
  /\ status' = IF Releases(r) THEN "running" ELSE status

\* begin_run_interaction_wait: with a queued answer that is stale, with one that
\* counts, and with none
Finalizes(r) ==
  /\ QueuedStale(r) /\ gate[r].stage = "registered"
  /\ \E v \in {"superseded", "lost"} :
       fact'[r] = [fact[r] EXCEPT !.resolved = Resolution(fact[r].queued, v)]
Promotes(r) ==
  /\ gate[r].stage = "registered" /\ Queued(r) /\ MayOpen(r)
  /\ fact'[r] = [fact[r] EXCEPT !.wait = fact[r].auth,
                                !.resolved = Resolution(fact[r].queued, "resumed")]
Opens(r) ==
  /\ gate[r].stage = "registered" /\ MayOpen(r)
  /\ fact[r].resolved = None /\ fact[r].queued = None /\ fact[r].wait = None
  /\ fact'[r] = [fact[r] EXCEPT !.wait = Own(r)]

\* terminal_interaction_closure_events_tx
Closes(r) ==
  /\ fact[r].auth /= None /\ fact[r].resolved = None
  /\ fact'[r] = [fact[r] EXCEPT !.resolved = Resolution("closed", "lost")]
  /\ status' = "done"

FactMove(r) ==
  \/ fact'[r] = fact[r] \/ Registers(r)
  \/ \E a \in Answers : Queues(r, a) \/ Records(r, a)
  \/ Finalizes(r) \/ Promotes(r) \/ Opens(r) \/ Closes(r)

(* ... its executor, ... *)

Moves(r, st) == gate'[r] = [gate[r] EXCEPT !.stage = st]

\* One server tool, or the whole batch, reads its generation and control epoch.
Loading == \E R, p : Load(R, p) /\ (R = Range(batch) \/ \E u \in Requests \ Range(batch) : R = {u})

GateMove(r) ==
  \/ gate'[r] = gate[r] \/ gate'[r] = Gone
  \/ Moves(r, "closing") /\ InFlight(r)
  \/ /\ gate[r].stage = "idle" /\ fact' = fact /\ Loading
     /\ \E p \in Pods :
          gate'[r] = [stage |-> "loaded", pod |-> p, gen |-> generation, epoch |-> intents]
  \/ Moves(r, "registered") /\ Registers(r)
  \/ gate[r].stage \in {"registered", "opened"} /\ \E st \in {"opened", "polling"} : Moves(r, st)
  \/ gate[r].stage \in {"registered", "polling"} /\ Moves(r, "answered") /\ fact'[r].resolved /= None
  \/ /\ gate[r].stage = "answered" /\ Moves(r, "approved") /\ fact' = fact
     /\ fact[r].resolved.disposition = "resumed" /\ fact[r].resolved.answer = "allow"

(* ... and its clients. *)

AcceptedMove(r) ==
  \/ accepted'[r] = accepted[r]
  \/ \E a \in UserAnswers : /\ accepted'[r] \in {accepted[r], accepted[r] \cup {a}}
                            /\ a \in accepted'[r] \ accepted[r] => Stands(r, a, fact'[r])
                            /\ fact'[r] = fact[r] \/ Queues(r, a) \/ Records(r, a)

-----------------------------------------------------------------------------
LEMMA ResolutionType ==
  ASSUME RunShape, NEW a \in Answers, NEW v \in {"resumed", "superseded", "lost"}
  PROVE  /\ Resolution(a, v) \in Resolutions /\ Resolution(a, v) /= None
         /\ Resolution(a, v).answer = a /\ Resolution(a, v).disposition = v
         /\ v = "resumed" => Resolution(a, v).at = [gen |-> generation, seen |-> intents]
<1>1. Resolution(a, v) \in Resolutions
  BY DEF RunShape, Resolution, Resolutions
<1> QED
  BY <1>1, InteractionConstants DEF Resolution

LEMMA ResolveMoves ==
  ASSUME RequestShape, NEW q \in Requests, NEW a \in Answers, ResolveRunInteraction(q, a),
         NEW r \in Requests
  PROVE  \/ fact'[r] = fact[r]
         \/ r = q /\ (Queues(r, a) \/ Records(r, a))
BY DEF RequestShape, ResolveRunInteraction, Queues, Records

\* One call registers the batch or one request.
LEMMA CallShape ==
  ASSUME RequestShape, NEW S, (S = batch /\ batch /= <<>>) \/ \E q \in Requests : S = <<q>>
  PROVE  S \in Seq(Requests) /\ S[1] \in Range(S)
<1>1. CASE S = batch /\ batch /= <<>>
  BY <1>1 DEF RequestShape, Range
<1>2. ASSUME NEW q \in Requests, S = <<q>> PROVE S \in Seq(Requests) /\ S[1] \in Range(S)
  BY <1>2 DEF Range
<1> QED
  BY <1>1, <1>2

\* The requests that one call registers are all loaded with the authority of the first.
LEMMA RegisteredAlike ==
  ASSUME RequestShape, LoadedAlike, NEW S, RegisterBatch(S),
         (S = batch /\ batch /= <<>>) \/ \E q \in Requests : S = <<q>>,
         NEW r \in Range(S)
  PROVE  /\ S[1] \in Range(S) /\ r \in Requests /\ S[1] \in Requests
         /\ gate[r].stage = "loaded" /\ Own(r) = Own(S[1])
<1>1. S \in Seq(Requests)
  BY CallShape
<1>3. \A q \in Range(S) : q \in Requests /\ gate[q].stage = "loaded"
  BY <1>1 DEF Range, RegisterBatch
<1>4. S[1] \in Range(S)
  BY CallShape
<1>5. CASE S = batch
  BY <1>3, <1>4, <1>5 DEF LoadedAlike
<1>6. CASE \E q \in Requests : S = <<q>>
  <2>1. r = S[1]
    BY <1>6 DEF Range
  <2> QED
    BY <1>3, <1>4, <2>1
<1> QED
  BY <1>5, <1>6

\* Giving up closes the calls of a batch, or denies one.
LEMMA GiveUpMoves ==
  ASSUME RequestShape, NEW q \in Requests, GiveUp(q), NEW r \in Requests
  PROVE  /\ \/ gate'[r] = gate[r] \/ gate'[r] = Gone
            \/ Moves(r, "closing") /\ InFlight(r)
         /\ r = q \/ (q \in Range(batch) /\ r \in Range(batch)) =>
              gate'[r].stage \in {"closing", "denied", "approved", "idle"}
BY DEF RequestShape, Gates, GiveUp, StopBatch, Deny, InBatch, InFlight, Moves, Gone, Idle, Finished,
   Stages

LEMMA RegisterMoves ==
  ASSUME RequestShape, LoadedAlike, \A q \in Requests : Sound(q), NEW S, RegisterBatch(S),
         (S = batch /\ batch /= <<>>) \/ \E q \in Requests : S = <<q>>,
         NEW r \in Requests
  PROVE  /\ fact'[r] = fact[r] \/ Registers(r)
         /\ GateMove(r)
<1>1. \A q \in Range(S) : /\ S[1] \in Range(S) /\ q \in Requests /\ S[1] \in Requests
                          /\ gate[q].stage = "loaded" /\ Own(q) = Own(S[1])
  BY RegisteredAlike
<1>2. \A q \in Range(S) : fact[q] = NoFact
  BY <1>1 DEF Sound, Signed
<1>3. S[1] \in Range(S)
  BY CallShape
<1>4. CASE /\ fact' = [q \in Requests |->
                         IF q \in Range(S) THEN [fact[q] EXCEPT !.auth = Own(S[1])] ELSE fact[q]]
           /\ gate' = [q \in Requests |->
                         IF q \in Range(S) THEN [gate[q] EXCEPT !.stage = "registered"] ELSE gate[q]]
  <2>1. CASE r \in Range(S)
    <3>1. gate'[r] = [gate[r] EXCEPT !.stage = "registered"] /\ gate[r] \in Gates
      BY <1>4, <2>1 DEF RequestShape
    <3>2. fact'[r] = [NoFact EXCEPT !.auth = Own(r)]
      BY <1>1, <1>2, <1>4, <2>1
    <3>3. gate'[r].stage = "registered"
      BY <3>1 DEF Gates
    <3>4. Registers(r)
      BY <1>1, <1>2, <2>1, <3>2, <3>3 DEF Registers
    <3> QED
      BY <3>1, <3>4 DEF GateMove, Moves
  <2>2. CASE r \notin Range(S)
    BY <1>4, <2>2 DEF GateMove
  <2> QED
    BY <2>1, <2>2
<1>5. CASE /\ fact' = [q \in Requests |->
                         IF q \in Range(S) THEN [fact[q] EXCEPT !.auth = Own(S[1])] ELSE fact[q]]
           /\ GiveUp(S[1])
  <2>1. GateMove(r)
    BY <1>1, <1>3, <1>5, GiveUpMoves DEF GateMove
  <2>2. CASE r \in Range(S)
    <3>1. fact'[r] = [NoFact EXCEPT !.auth = Own(r)]
      BY <1>1, <1>2, <1>5, <2>2
    <3>2. r = S[1] \/ (S[1] \in Range(batch) /\ r \in Range(batch))
      <4>1. CASE S = batch
        BY <1>3, <2>2, <4>1
      <4>2. CASE \E q \in Requests : S = <<q>>
        BY <2>2, <4>2 DEF Range
      <4> QED
        BY <4>1, <4>2
    <3>3. gate[r].stage = "loaded"
      BY <1>1, <2>2
    <3>4. gate'[r].stage \in {"closing", "denied"}
      <4>1. gate'[r].stage \in {"closing", "denied", "approved", "idle"}
        BY <1>1, <1>3, <1>5, <3>2, GiveUpMoves
      <4>2. gate'[r] = gate[r] \/ gate'[r] = Gone \/ Moves(r, "closing")
        BY <1>1, <1>3, <1>5, GiveUpMoves
      <4> QED
        BY <3>3, <4>1, <4>2 DEF Gone, Idle, Moves, RequestShape, Gates
    <3> QED
      BY <1>2, <2>1, <2>2, <3>1, <3>3, <3>4 DEF Registers
  <2>3. CASE r \notin Range(S)
    BY <1>5, <2>1, <2>3
  <2> QED
    BY <2>2, <2>3
<1>6. CASE GiveUp(S[1]) /\ fact' = fact
  BY <1>1, <1>3, <1>6, GiveUpMoves DEF GateMove
<1> QED
  BY <1>4, <1>5, <1>6 DEF RegisterBatch

\* Every step moves the record of a request in one of these ways.
LEMMA FactMoves ==
  ASSUME RequestShape, LoadedAlike, \A q \in Requests : Sound(q), [Next]_vars, NEW r \in Requests
  PROVE  FactMove(r)
<1> USE DEF FactMove
<1>1. ASSUME NEW q \in Requests, NEW a \in UserAnswers, ClientAnswers(q, a) PROVE FactMove(r)
  BY <1>1, ResolveMoves DEF ClientAnswers, Answers
<1>2. ASSUME NEW S, RegisterBatch(S),
             (S = batch /\ batch /= <<>>) \/ \E q \in Requests : S = <<q>>
      PROVE  FactMove(r)
  BY <1>2, RegisterMoves
<1>3. ASSUME NEW q \in Requests, BeginRunInteractionWait(q) PROVE FactMove(r)
  <2>1. CASE r /= q
    BY <1>3, <2>1 DEF RequestShape, BeginRunInteractionWait, FinalizeQueued, PromoteQueued,
       OpenWait, JoinWait
  <2>2. CASE r = q
    <3> USE <2>2 DEF RequestShape
    <3>1. CASE FinalizeQueued(q)
      BY <1>3, <3>1 DEF BeginRunInteractionWait, FinalizeQueued, Finalizes
    <3>2. CASE PromoteQueued(q)
      BY <1>3, <3>2 DEF BeginRunInteractionWait, PromoteQueued, Promotes
    <3>3. CASE OpenWait(q)
      BY <1>3, <3>3 DEF BeginRunInteractionWait, OpenWait, Opens
    <3>4. CASE JoinWait(q)
      BY <3>4 DEF JoinWait
    <3> QED
      BY <1>3, <3>1, <3>2, <3>3, <3>4 DEF BeginRunInteractionWait
  <2> QED
    BY <2>1, <2>2
<1>4. ASSUME NEW q \in Requests, CloseApproval(q) \/ Expire(q) PROVE FactMove(r)
  BY <1>4, ResolveMoves DEF CloseApproval, Expire, Answers
<1>5. ASSUME Terminate PROVE FactMove(r)
  BY <1>5 DEF Terminate, CloseUnresolved, Closes
<1>6. ASSUME fact' = fact PROVE FactMove(r)
  BY <1>6
<1>7. CASE \E R, p : Load(R, p)
  BY <1>6, <1>7 DEF Load, facts
<1>8. CASE \E q \in Requests : GateStep(q)
  BY <1>3, <1>4, <1>6, <1>8 DEF GateStep, CheckGuidance, ReadResolution, Withdraw, Abandon, Decide,
     facts
<1>9. CASE RunStep
  BY <1>5, <1>6, <1>9 DEF RunStep, AdmitGuidance, ApplyGuidance, RequestCancellation, PauseRun,
     ResumeRun,
     LeaseExpires, SettleRecovered, ContinueRun, ClaimRecovery, Crash, facts
<1>10. CASE UNCHANGED vars
  BY <1>6, <1>10 DEF vars, facts
<1> QED
  BY <1>1, <1>2, <1>7, <1>8, <1>9, <1>10 DEF Next

\* Every step moves its executor in one of these.
LEMMA GateMoves ==
  ASSUME RunShape, RequestShape, LoadedAlike, \A q \in Requests : Sound(q), [Next]_vars,
         NEW r \in Requests
  PROVE  GateMove(r)
<1>1. ASSUME gate' = gate PROVE GateMove(r)
  BY <1>1 DEF GateMove
<1>2. ASSUME NEW S, RegisterBatch(S),
             (S = batch /\ batch /= <<>>) \/ \E q \in Requests : S = <<q>>
      PROVE  GateMove(r)
  BY <1>2, RegisterMoves
<1>3. ASSUME NEW R, NEW p \in Pods, Load(R, p),
             R = Range(batch) \/ \E u \in Requests \ Range(batch) : R = {u}
      PROVE  GateMove(r)
  <2>1. Loading
    BY <1>3 DEF Loading
  <2> QED
    BY <1>3, <2>1 DEF Load, GateMove, facts
<1>4. ASSUME NEW q \in Requests, GiveUp(q) PROVE GateMove(r)
  BY <1>4, GiveUpMoves DEF GateMove
<1>5. ASSUME NEW q \in Requests, Deny(q) PROVE GateMove(r)
  BY <1>5 DEF RequestShape, Deny, GateMove
<1>6. ASSUME NEW q \in Requests, NEW st, SetStage(q, st)
      PROVE  IF r = q THEN Moves(r, st) ELSE gate'[r] = gate[r]
  BY <1>6 DEF RequestShape, SetStage, Moves
<1>7. ASSUME StopBatch PROVE GateMove(r)
  BY <1>7 DEF RequestShape, StopBatch, InFlight, GateMove, Moves
<1>8. ASSUME NEW q \in Requests, BeginRunInteractionWait(q) PROVE GateMove(r)
  <2>1. gate[q].stage = "registered"
    BY <1>8 DEF BeginRunInteractionWait
  <2>2. CASE FinalizeQueued(q)
    <3>1. fact'[q].resolved /= None /\ SetStage(q, "answered")
      <4>1. \A v \in {"superseded", "lost"} : Resolution(fact[q].queued, v) /= None
        BY <2>2, ResolutionType DEF FinalizeQueued, RequestShape, Facts, QueuedStale, Queued
      <4> QED
        BY <2>2, <4>1 DEF FinalizeQueued, RequestShape, Facts
    <3> QED
      BY <1>6, <2>1, <3>1 DEF GateMove
  <2>3. CASE PromoteQueued(q)
    <3>1. fact'[q].resolved /= None
      <4>1. Resolution(fact[q].queued, "resumed") /= None
        BY <2>3, ResolutionType DEF PromoteQueued, RequestShape, Facts, Queued
      <4> QED
        BY <2>3, <4>1 DEF PromoteQueued, RequestShape, Facts
    <3>2. SetStage(q, "answered") \/ GiveUp(q)
      BY <2>3 DEF PromoteQueued
    <3> QED
      BY <1>4, <1>6, <2>1, <3>1, <3>2 DEF GateMove
  <2>4. CASE OpenWait(q)
    BY <1>1, <1>4, <1>6, <2>1, <2>4 DEF OpenWait, Opened, GateMove
  <2>5. CASE JoinWait(q)
    BY <1>4, <1>6, <2>1, <2>5 DEF JoinWait, Opened, GateMove
  <2> QED
    BY <1>8, <2>2, <2>3, <2>4, <2>5 DEF BeginRunInteractionWait
<1>9. ASSUME NEW q \in Requests, CheckGuidance(q) \/ ReadResolution(q) PROVE GateMove(r)
  BY <1>6, <1>9 DEF CheckGuidance, ReadResolution, GateMove, InFlight, Finished, facts
<1>10. ASSUME NEW q \in Requests, Withdraw(q) PROVE GateMove(r)
  BY <1>6, <1>7, <1>10 DEF Withdraw, GateMove, InFlight, Finished
<1>11. ASSUME NEW q \in Requests, Abandon(q) \/ CloseApproval(q) PROVE GateMove(r)
  BY <1>4, <1>5, <1>11 DEF Abandon, CloseApproval
<1>12. ASSUME NEW q \in Requests, Expire(q) PROVE GateMove(r)
  BY <1>4, <1>6, <1>12 DEF Expire, GateMove
<1>13. ASSUME NEW q \in Requests, Decide(q) PROVE GateMove(r)
  <2>1. \/ GiveUp(q) \/ Deny(q) \/ StopBatch
        \/ /\ SetStage(q, "approved") /\ gate[q].stage = "answered" /\ fact' = fact
           /\ fact[q].resolved.disposition = "resumed" /\ fact[q].resolved.answer = "allow"
    BY <1>13 DEF Decide, facts
  <2> QED
    BY <1>4, <1>5, <1>6, <1>7, <2>1 DEF GateMove
<1>14. ASSUME NEW p \in Pods, Crash(p) PROVE GateMove(r)
  BY <1>14 DEF Crash, GateMove
<1>15. ASSUME NEW q \in Requests, NEW a \in UserAnswers, ClientAnswers(q, a) PROVE GateMove(r)
  BY <1>1, <1>15 DEF ClientAnswers
<1>16. CASE RunStep
  BY <1>1, <1>14, <1>16 DEF RunStep, AdmitGuidance, ApplyGuidance, RequestCancellation, Terminate,
     PauseRun,
     ResumeRun, LeaseExpires, SettleRecovered, ContinueRun, ClaimRecovery
<1>17. CASE UNCHANGED vars
  BY <1>1, <1>17 DEF vars
<1>18. CASE \E q \in Requests : GateStep(q)
  BY <1>8, <1>9, <1>10, <1>11, <1>12, <1>13, <1>18 DEF GateStep
<1> QED
  BY <1>2, <1>3, <1>15, <1>16, <1>17, <1>18 DEF Next

\* A client hears that its answer stands from the transaction that took it.
LEMMA AcceptedMoves ==
  ASSUME RequestShape, [Next]_vars, NEW r \in Requests
  PROVE  AcceptedMove(r)
<1>1. ASSUME accepted' = accepted PROVE AcceptedMove(r)
  BY <1>1 DEF AcceptedMove
<1>2. ASSUME NEW q \in Requests, NEW a \in UserAnswers, ClientAnswers(q, a) PROVE AcceptedMove(r)
  <2>1. CASE r /= q
    BY <1>2, <2>1 DEF ClientAnswers, RequestShape, AcceptedMove
  <2>2. CASE r = q
    <3>1. accepted'[r] = accepted[r] \cup (IF Stands(r, a, fact'[r]) THEN {a} ELSE {})
      BY <1>2, <2>2 DEF ClientAnswers, RequestShape
    <3>2. fact'[r] = fact[r] \/ Queues(r, a) \/ Records(r, a)
      BY <1>2, <2>2, ResolveMoves DEF ClientAnswers, Answers
    <3> QED
      BY <3>1, <3>2 DEF AcceptedMove
  <2> QED
    BY <2>1, <2>2
<1>3. CASE \E q \in Requests : GateStep(q)
  BY <1>1, <1>3 DEF GateStep, BeginRunInteractionWait, CheckGuidance, ReadResolution, Withdraw,
     Abandon,
     CloseApproval, Expire, Decide
<1>4. CASE RunStep
  BY <1>1, <1>4 DEF RunStep, AdmitGuidance, ApplyGuidance, RequestCancellation, Terminate, PauseRun,
     ResumeRun, LeaseExpires, SettleRecovered, ContinueRun, ClaimRecovery, Crash
<1>5. CASE UNCHANGED vars \/ \E R, p : Load(R, p) \/ \E S : RegisterBatch(S)
  BY <1>1, <1>5 DEF vars, Load, RegisterBatch
<1> QED
  BY <1>2, <1>3, <1>4, <1>5 DEF Next

\* The run moves on: a lease that has gone comes back only under a new generation.
LEMMA RunMoves ==
  ASSUME RunShape, [Next]_vars
  PROVE  /\ generation' \in Nat /\ intents' \in Nat /\ owner' \in Pods
         /\ generation <= generation' /\ intents <= intents'
         /\ generation' = generation => owner' = owner /\ (leased' => leased)
<1> USE DEF RunShape
<1>1. ASSUME UNCHANGED <<generation, intents, owner>>, leased' \in {leased, FALSE}
      PROVE  /\ generation' \in Nat /\ intents' \in Nat /\ owner' \in Pods
             /\ generation <= generation' /\ intents <= intents'
             /\ generation' = generation => owner' = owner /\ (leased' => leased)
  <2>1. leased' => leased
    BY <1>1, Zenon
  <2> QED
    BY <1>1, <2>1
<1>2. CASE \E q \in Requests : GateStep(q)
  BY <1>1, <1>2 DEF GateStep, BeginRunInteractionWait, CheckGuidance, ReadResolution, Withdraw,
     Abandon,
     CloseApproval, Expire, Decide, runRow, control
<1>3. CASE \/ UNCHANGED vars \/ (\E R, p : Load(R, p)) \/ (\E S : RegisterBatch(S))
           \/ \E q, a : ClientAnswers(q, a)
  BY <1>1, <1>3 DEF vars, runRow, control, Load, RegisterBatch, ClientAnswers
<1>4. CASE RunStep
  <2>1. CASE AdmitGuidance
    BY <2>1 DEF AdmitGuidance, runRow
  <2>2. ASSUME NEW p \in Pods, ContinueRun(p) \/ ClaimRecovery(p)
        PROVE  /\ generation' \in Nat /\ intents' \in Nat /\ owner' \in Pods
               /\ generation <= generation' /\ intents <= intents'
               /\ generation' = generation => owner' = owner /\ (leased' => leased)
    <3>1. generation' = generation + 1 /\ intents' = intents /\ owner' = p
      BY <2>2 DEF ContinueRun, ClaimRecovery, control
    <3> QED
      BY <3>1
  <2>3. CASE ~AdmitGuidance /\ ~\E p \in Pods : ContinueRun(p) \/ ClaimRecovery(p)
    BY <1>1, <1>4, <2>3 DEF RunStep, ApplyGuidance, RequestCancellation, Terminate, PauseRun,
       ResumeRun,
       LeaseExpires, SettleRecovered, Crash, runRow, control
  <2> QED
    BY <2>1, <2>2, <2>3
<1> QED
  BY <1>2, <1>3, <1>4 DEF Next

\* A run begins to wait only as begin_run_interaction_wait opens the wait.
LEMMA WaitMoves ==
  ASSUME RunShape, RequestShape, [Next]_vars
  PROVE  /\ status' \in Statuses /\ frontier' \in Requests \cup {None} /\ batch' = batch
         /\ status' = "waiting" => \/ status = "waiting" /\ frontier' = frontier
                                   \/ \E q \in Requests : Opens(q) /\ frontier' = q
<1> USE DEF RunShape, RequestShape, Statuses
<1>1. ASSUME frontier' = frontier, batch' = batch, status' \in {status, "running", "paused", "done"}
      PROVE  /\ status' \in Statuses /\ frontier' \in Requests \cup {None} /\ batch' = batch
             /\ status' = "waiting" => \/ status = "waiting" /\ frontier' = frontier
                                       \/ \E q \in Requests : Opens(q) /\ frontier' = q
  BY <1>1
<1>2. ASSUME NEW q, NEW a, ResolveRunInteraction(q, a) PROVE status' \in {status, "running"}
  BY <1>2 DEF ResolveRunInteraction
<1>3. ASSUME NEW q \in Requests, BeginRunInteractionWait(q)
      PROVE  /\ status' \in Statuses /\ frontier' \in Requests \cup {None} /\ batch' = batch
             /\ status' = "waiting" => \/ status = "waiting" /\ frontier' = frontier
                                       \/ \E u \in Requests : Opens(u) /\ frontier' = u
  <2>1. batch' = batch
    BY <1>3 DEF BeginRunInteractionWait
  <2>2. CASE FinalizeQueued(q) \/ JoinWait(q)
    BY <1>1, <2>1, <2>2 DEF FinalizeQueued, JoinWait
  <2>3. CASE PromoteQueued(q)
    BY <2>1, <2>3 DEF PromoteQueued, MayOpen
  <2>4. CASE OpenWait(q)
    <3>1. Opens(q)
      BY <1>3, <2>4 DEF BeginRunInteractionWait, OpenWait, Opens
    <3> QED
      BY <2>1, <2>4, <3>1 DEF OpenWait
  <2> QED
    BY <1>3, <2>2, <2>3, <2>4 DEF BeginRunInteractionWait
<1>4. CASE \E q \in Requests : GateStep(q)
  BY <1>1, <1>2, <1>3, <1>4 DEF GateStep, CheckGuidance, ReadResolution, Withdraw, Abandon,
     CloseApproval, Expire, Decide, runRow, facts
<1>5. CASE \/ UNCHANGED vars \/ (\E R, p : Load(R, p)) \/ (\E S : RegisterBatch(S))
           \/ \E q, a : ClientAnswers(q, a)
  BY <1>1, <1>2, <1>5 DEF vars, runRow, facts, Load, RegisterBatch, ClientAnswers
<1>6. CASE RunStep
  BY <1>1, <1>6 DEF RunStep, AdmitGuidance, ApplyGuidance, RequestCancellation, Terminate, PauseRun,
     ResumeRun,
     LeaseExpires, SettleRecovered, ContinueRun, ClaimRecovery, Crash, runRow, facts
<1> QED
  BY <1>4, <1>5, <1>6 DEF Next

-----------------------------------------------------------------------------
(* Types *)

LEMMA StillFunctions ==
  ASSUME RequestShape, [Next]_vars
  PROVE  /\ gate' = [q \in Requests |-> gate'[q]] /\ fact' = [q \in Requests |-> fact'[q]]
         /\ accepted' = [q \in Requests |-> accepted'[q]]
<1> DEFINE OK(g) == g = [q \in Requests |-> g[q]]
<1>1. OK(gate) /\ OK(fact) /\ OK(accepted)
  BY DEF RequestShape
<1>2. ASSUME NEW q, NEW st, SetStage(q, st) PROVE OK(gate')
  BY <1>2 DEF RequestShape, SetStage
<1>3. ASSUME NEW q, GiveUp(q) \/ Deny(q) \/ StopBatch PROVE OK(gate')
  BY <1>3 DEF RequestShape, GiveUp, Deny, StopBatch
<1>4. ASSUME NEW q, NEW a, ResolveRunInteraction(q, a) PROVE OK(fact')
  BY <1>1, <1>4 DEF RequestShape, ResolveRunInteraction
<1>5. OK(gate')
  <2>1. CASE gate' = gate
    BY <1>1, <2>1
  <2>2. CASE \E R, p : Load(R, p)
    BY <2>2 DEF Load
  <2>3. CASE \E S : RegisterBatch(S)
    BY <1>3, <2>3 DEF RegisterBatch
  <2>4. CASE \E q \in Requests : GateStep(q)
    BY <1>2, <1>3, <2>1, <2>4 DEF GateStep, BeginRunInteractionWait, FinalizeQueued, PromoteQueued,
       OpenWait,
       JoinWait, Opened, CheckGuidance, ReadResolution, Withdraw, Abandon, CloseApproval, Expire, Decide
  <2>5. CASE \E p : Crash(p)
    BY <2>5 DEF Crash
  <2> QED
    BY <2>1, <2>2, <2>3, <2>4, <2>5 DEF Next, vars, RunStep, ClientAnswers, AdmitGuidance,
       ApplyGuidance,
       RequestCancellation, Terminate, PauseRun, ResumeRun, LeaseExpires, SettleRecovered, ContinueRun,
       ClaimRecovery
<1>6. OK(fact')
  <2>1. CASE fact' = fact
    BY <1>1, <2>1
  <2>2. CASE \E S : RegisterBatch(S)
    BY <2>1, <2>2 DEF RegisterBatch
  <2>3. ASSUME NEW q, FinalizeQueued(q) \/ PromoteQueued(q) \/ OpenWait(q) PROVE OK(fact')
    BY <2>3 DEF RequestShape, FinalizeQueued, PromoteQueued, OpenWait
  <2>4. CASE \E q \in Requests : GateStep(q)
    BY <1>4, <2>1, <2>3, <2>4 DEF GateStep, BeginRunInteractionWait, JoinWait, CheckGuidance,
       ReadResolution,
       Withdraw, Abandon, CloseApproval, Expire, Decide, facts
  <2>5. CASE Terminate
    BY <2>5 DEF Terminate, CloseUnresolved
  <2>6. CASE \E q, a : ClientAnswers(q, a)
    BY <1>4, <2>6 DEF ClientAnswers
  <2> QED
    BY <2>1, <2>2, <2>4, <2>5, <2>6 DEF Next, vars, facts, RunStep, Load, AdmitGuidance,
       ApplyGuidance,
       RequestCancellation, PauseRun, ResumeRun, LeaseExpires, SettleRecovered, ContinueRun,
       ClaimRecovery, Crash
<1>7. OK(accepted')
  <2>1. CASE accepted' = accepted
    BY <1>1, <2>1
  <2>2. CASE \E q, a : ClientAnswers(q, a)
    BY <2>2 DEF ClientAnswers, RequestShape
  <2>3. CASE \E q \in Requests : GateStep(q)
    BY <2>1, <2>3 DEF GateStep, BeginRunInteractionWait, CheckGuidance, ReadResolution, Withdraw,
       Abandon,
       CloseApproval, Expire, Decide
  <2> QED
    BY <2>1, <2>2, <2>3 DEF Next, vars, RunStep, Load, RegisterBatch, AdmitGuidance, ApplyGuidance,
       RequestCancellation, Terminate, PauseRun, ResumeRun, LeaseExpires, SettleRecovered, ContinueRun,
       ClaimRecovery, Crash
<1> QED
  BY <1>5, <1>6, <1>7

LEMMA VerdictType == ASSUME NEW r PROVE Verdict(r) \in {"resumed", "superseded", "lost", "queued"}
BY DEF Verdict

LEMMA FactType ==
  ASSUME RunShape, RequestShape, NEW r \in Requests, Sound(r), FactMove(r)
  PROVE  fact'[r] \in Facts
<1> USE DEF RequestShape
<1>1. fact[r] \in Facts /\ gate[r] \in Gates
  OBVIOUS
<1>2. gate[r].stage \notin {"idle", "denied"} => Own(r) \in Authority
  BY <1>1 DEF Sound, Signed, Own, Gates, Authority
<1>3. CASE fact'[r] = fact[r]
  BY <1>1, <1>3
<1>4. CASE Registers(r)
  BY <1>2, <1>4 DEF Registers, NoFact, Facts
<1>5. ASSUME NEW a \in Answers, Queues(r, a) PROVE fact'[r] \in Facts
  BY <1>1, <1>5 DEF Queues, Facts
<1>6. ASSUME NEW a \in Answers, Records(r, a) PROVE fact'[r] \in Facts
  <2>1. Resolution(a, Verdict(r)) \in Resolutions
    BY <1>6, VerdictType, ResolutionType DEF Records
  <2> QED
    BY <1>1, <1>6, <2>1 DEF Records, Facts
<1>7. CASE Finalizes(r)
  <2>1. fact[r].queued \in Answers
    BY <1>1, <1>7 DEF Finalizes, QueuedStale, Queued, Facts
  <2>2. \A v \in {"superseded", "lost"} : Resolution(fact[r].queued, v) \in Resolutions
    BY <2>1, ResolutionType
  <2> QED
    BY <1>1, <1>7, <2>2 DEF Finalizes, Facts
<1>8. CASE Promotes(r)
  <2>1. fact[r].queued \in Answers
    BY <1>1, <1>8 DEF Promotes, Queued, Facts
  <2>2. Resolution(fact[r].queued, "resumed") \in Resolutions
    BY <2>1, ResolutionType
  <2> QED
    BY <1>1, <1>8, <2>2 DEF Promotes, Facts
<1>9. CASE Opens(r)
  BY <1>1, <1>2, <1>9 DEF Opens, Facts
<1>10. CASE Closes(r)
  <2>1. Resolution("closed", "lost") \in Resolutions
    BY ResolutionType DEF Answers
  <2> QED
    BY <1>1, <1>10, <2>1 DEF Closes, Facts
<1> QED
  BY <1>3, <1>4, <1>5, <1>6, <1>7, <1>8, <1>9, <1>10 DEF FactMove

LEMMA GateType ==
  ASSUME RunShape, RequestShape, NEW r \in Requests, GateMove(r)
  PROVE  gate'[r] \in Gates
<1>1. gate[r] \in Gates
  BY DEF RequestShape
<1>2. Gone \in Gates
  BY DEF Gone, Idle, Gates, Stages, Finished
<1>3. \A st \in Stages : Moves(r, st) => gate'[r] \in Gates
  BY <1>1 DEF Moves, Gates
<1>4. \A p \in Pods : [stage |-> "loaded", pod |-> p, gen |-> generation, epoch |-> intents] \in Gates
  BY DEF RunShape, Gates, Stages
<1>5. {"closing", "registered", "opened", "polling", "answered", "approved"} \subseteq Stages
  BY DEF Stages, Finished
<1> QED
  BY <1>1, <1>2, <1>3, <1>4, <1>5 DEF GateMove

\* A move along the stages keeps what the executor has read.
KeepsOwn(r) ==
  /\ Own(r)' = Own(r) /\ gate'[r].pod = gate[r].pod
  /\ gate'[r].gen = gate[r].gen /\ gate'[r].epoch = gate[r].epoch

LEMMA GateCases ==
  ASSUME RequestShape, NEW r \in Requests, GateMove(r)
  PROVE  \/ gate'[r] = gate[r] /\ KeepsOwn(r)
         \/ gate'[r].stage = "denied" /\ gate'[r] = Gone
         \/ gate'[r].stage = "closing" /\ KeepsOwn(r) /\ gate[r].stage \notin {"idle", "denied"}
         \/ /\ gate[r].stage = "idle" /\ gate'[r].stage = "loaded" /\ fact' = fact /\ Loading
            /\ gate'[r].pod \in Pods /\ gate'[r].gen = generation /\ gate'[r].epoch = intents
         \/ gate[r].stage = "loaded" /\ gate'[r].stage = "registered" /\ KeepsOwn(r) /\ Registers(r)
         \/ /\ gate[r].stage \in {"registered", "opened"} /\ gate'[r].stage \in {"opened", "polling"}
            /\ KeepsOwn(r)
         \/ /\ gate[r].stage \in {"registered", "polling"} /\ gate'[r].stage = "answered" /\ KeepsOwn(r)
            /\ fact'[r].resolved /= None
         \/ /\ gate[r].stage = "answered" /\ gate'[r].stage = "approved" /\ KeepsOwn(r) /\ fact' = fact
            /\ fact[r].resolved.disposition = "resumed" /\ fact[r].resolved.answer = "allow"
<1>1. \A st : Moves(r, st) => gate'[r].stage = st /\ KeepsOwn(r)
  BY DEF RequestShape, Moves, Gates, Own, KeepsOwn
<1>2. gate'[r] = gate[r] => KeepsOwn(r)
  BY DEF Own, KeepsOwn
<1>3. Gone.stage = "denied"
  BY DEF Gone, Idle
<1>4. InFlight(r) => gate[r].stage \notin {"idle", "denied"}
  BY DEF InFlight, Finished
<1>5. Registers(r) => gate[r].stage = "loaded"
  BY DEF Registers
<1>6. ASSUME NEW p \in Pods,
             gate'[r] = [stage |-> "loaded", pod |-> p, gen |-> generation, epoch |-> intents]
      PROVE  /\ gate'[r].stage = "loaded" /\ gate'[r].pod \in Pods
             /\ gate'[r].gen = generation /\ gate'[r].epoch = intents
  BY <1>6
<1>7. CASE gate'[r] = gate[r] \/ gate'[r] = Gone
  BY <1>2, <1>3, <1>7
<1>8. CASE Moves(r, "closing") /\ InFlight(r)
  BY <1>1, <1>4, <1>8
<1>9. CASE \/ Moves(r, "registered") /\ Registers(r)
           \/ /\ gate[r].stage \in {"registered", "opened"}
              /\ Moves(r, "opened") \/ Moves(r, "polling")
  BY <1>1, <1>5, <1>9
<1>10. CASE \/ gate[r].stage \in {"registered", "polling"} /\ Moves(r, "answered")
               /\ fact'[r].resolved /= None
            \/ /\ gate[r].stage = "answered" /\ Moves(r, "approved") /\ fact' = fact
               /\ fact[r].resolved.disposition = "resumed" /\ fact[r].resolved.answer = "allow"
  BY <1>1, <1>10
<1> QED
  BY <1>6, <1>7, <1>8, <1>9, <1>10 DEF GateMove

LEMMA ShapeStep ==
  ASSUME InteractionShape, LoadedAlike, \A q \in Requests : Sound(q), [Next]_vars
  PROVE  InteractionShape'
<1> USE DEF InteractionShape
<1>1. RunShape'
  BY RunMoves, WaitMoves DEF RunShape
<1>2. gate' \in [Requests -> Gates]
  BY GateMoves, GateType, StillFunctions
<1>3. fact' \in [Requests -> Facts]
  BY FactMoves, FactType, StillFunctions
<1>4. \A r \in Requests : accepted'[r] \subseteq UserAnswers
  BY AcceptedMoves DEF AcceptedMove, RequestShape
<1>5. accepted' \in [Requests -> SUBSET UserAnswers]
  BY <1>4, StillFunctions
<1>6. batch' \in Seq(Requests)
  BY WaitMoves DEF RequestShape
<1> QED
  BY <1>1, <1>2, <1>3, <1>5, <1>6 DEF RequestShape

-----------------------------------------------------------------------------
(* The record, the executor and the clients of one request *)

LEMMA AuthorityKept ==
  ASSUME RequestShape, NEW r \in Requests, FactMove(r)
  PROVE  Registers(r) \/ fact'[r].auth = fact[r].auth
<1>1. fact[r] \in Facts
  BY DEF RequestShape
<1> QED
  BY <1>1 DEF FactMove, Queues, Records, Finalizes, Promotes, Opens, Closes, Facts

LEMMA SignedStep ==
  ASSUME RunShape, RequestShape, NEW r \in Requests, Sound(r), FactMove(r), GateMove(r)
  PROVE  Signed(r)'
<1>1. fact[r] \in Facts /\ gate[r] \in Gates /\ gate'[r] \in Gates /\ fact'[r] \in Facts
  BY FactType, GateType DEF RequestShape
<1>2. Signed(r)
  BY DEF Sound
<1>3. gate'[r].stage \notin {"idle", "denied"} => gate'[r].pod \in Pods
  BY <1>2, GateCases DEF Signed, KeepsOwn
<1>4. Registers(r) \/ fact'[r].auth = fact[r].auth
  BY AuthorityKept
<1>5. fact'[r].wait \in {None, fact'[r].auth}
  BY <1>1, <1>2 DEF Signed, FactMove, Registers, Queues, Records, Finalizes, Promotes, Opens,
     Closes,
     NoFact, Facts
<1>6. gate'[r].stage \in {"idle", "loaded"} => fact'[r] = NoFact
  <2>1. ASSUME gate[r].stage \in {"idle", "loaded"}, gate'[r].stage \in {"idle", "loaded"}
        PROVE  fact'[r] = NoFact
    <3>1. fact[r] = NoFact
      BY <1>2, <2>1 DEF Signed
    <3> QED
      BY <2>1, <3>1 DEF FactMove, Registers, Queues, Records, Finalizes, Promotes, Opens, Closes,
         NoFact, Recordable, QueuedStale, Queued
  <2>2. gate'[r].stage \in {"idle", "loaded"} => gate[r].stage \in {"idle", "loaded"}
    BY GateCases
  <2> QED
    BY <2>1, <2>2
<1>7. gate'[r].stage \in {"registered", "opened", "polling", "answered", "approved"}
        => fact'[r].auth = Own(r)'
  <2>1. CASE Registers(r)
    BY <1>4, <2>1, GateCases DEF KeepsOwn, Registers, NoFact
  <2>2. CASE fact'[r].auth = fact[r].auth /\ ~Registers(r)
    BY <1>2, <2>2, GateCases DEF KeepsOwn, Signed
  <2> QED
    BY <1>4, <2>1, <2>2
<1> QED
  BY <1>3, <1>5, <1>6, <1>7 DEF Signed

LEMMA PastStep ==
  ASSUME RunShape, RequestShape, NEW r \in Requests, Sound(r), FactMove(r), GateMove(r), [Next]_vars
  PROVE  Past(r)'
<1>1. fact[r] \in Facts /\ gate[r] \in Gates /\ gate'[r] \in Gates /\ fact'[r] \in Facts
  BY FactType, GateType DEF RequestShape
<1>2. Past(r)
  BY DEF Sound
<1>3. /\ generation \in Nat /\ generation' \in Nat /\ generation <= generation'
      /\ intents \in Nat /\ intents' \in Nat /\ intents <= intents'
  BY RunMoves DEF RunShape
<1>4. gate[r].gen \in Nat /\ gate[r].epoch \in Nat
  BY <1>1 DEF Gates
<1>5. gate'[r].gen <= generation' /\ gate'[r].epoch <= intents'
  BY <1>2, <1>3, <1>4, GateCases DEF Past, KeepsOwn, Gone, Idle
<1>6. fact'[r].auth = fact[r].auth \/ fact'[r].auth = Own(r)
  BY AuthorityKept DEF Registers, NoFact
<1>7. CASE fact'[r].auth = fact[r].auth /\ fact[r].auth /= None
  <2>1. fact[r].auth.gen \in Nat /\ fact[r].auth.epoch \in Nat
    BY <1>1, <1>7 DEF Facts, Authority
  <2> QED
    BY <1>2, <1>3, <1>5, <1>7, <2>1 DEF Past
<1>8. CASE fact'[r].auth = Own(r)
  <2>1. Own(r).gen = gate[r].gen /\ Own(r).epoch = gate[r].epoch
    BY DEF Own
  <2> QED
    BY <1>2, <1>3, <1>4, <1>5, <1>8, <2>1 DEF Past
<1> QED
  BY <1>5, <1>6, <1>7, <1>8 DEF Past

\* What a move does to the queued answer and to the resolution.
LEMMA ResolvedOnce ==
  ASSUME RunShape, RequestShape, NEW r \in Requests, FactMove(r)
  PROVE  \/ fact'[r].resolved = fact[r].resolved
         \/ /\ fact[r].resolved = None /\ fact'[r].resolved \in Resolutions
            /\ fact[r].auth /= None \/ gate[r].stage = "registered"
            /\ fact'[r].resolved.answer = "closed" \/ fact[r].queued \in {None, fact'[r].resolved.answer}
<1>1. fact[r] \in Facts
  BY DEF RequestShape
<1>2. CASE \/ fact'[r] = fact[r] \/ Registers(r) \/ Opens(r) \/ \E a \in Answers : Queues(r, a)
  BY <1>1, <1>2 DEF Registers, Opens, Queues, NoFact, Facts
<1>3. ASSUME NEW a \in Answers, Records(r, a)
      PROVE  /\ fact[r].resolved = None /\ fact'[r].resolved \in Resolutions
             /\ fact[r].auth /= None /\ fact[r].queued \in {None, fact'[r].resolved.answer}
  <2>1. Resolution(a, Verdict(r)) \in Resolutions /\ Resolution(a, Verdict(r)).answer = a
    BY <1>3, VerdictType, ResolutionType DEF Records
  <2>2. fact'[r].resolved = Resolution(a, Verdict(r))
    BY <1>1, <1>3 DEF Records, Facts
  <2> QED
    BY <1>3, <2>1, <2>2 DEF Records, Recordable
<1>4. ASSUME Finalizes(r) \/ Promotes(r)
      PROVE  /\ fact[r].resolved = None /\ fact'[r].resolved \in Resolutions
             /\ gate[r].stage = "registered" /\ fact[r].queued = fact'[r].resolved.answer
  <2>1. fact[r].queued \in Answers /\ fact[r].resolved = None /\ gate[r].stage = "registered"
    BY <1>1, <1>4 DEF Finalizes, Promotes, QueuedStale, Queued, Facts
  <2>2. \A v \in {"resumed", "superseded", "lost"} :
          /\ Resolution(fact[r].queued, v) \in Resolutions
          /\ Resolution(fact[r].queued, v).answer = fact[r].queued
    BY <2>1, ResolutionType
  <2>3. \E v \in {"resumed", "superseded", "lost"} : fact'[r].resolved = Resolution(fact[r].queued, v)
    BY <1>1, <1>4 DEF Finalizes, Promotes, Facts
  <2> QED
    BY <2>1, <2>2, <2>3
<1>5. ASSUME Closes(r)
      PROVE  /\ fact[r].resolved = None /\ fact'[r].resolved \in Resolutions
             /\ fact[r].auth /= None /\ fact'[r].resolved.answer = "closed"
  <2>1. Resolution("closed", "lost") \in Resolutions /\ Resolution("closed", "lost").answer = "closed"
    BY ResolutionType DEF Answers
  <2>2. fact'[r].resolved = Resolution("closed", "lost")
    BY <1>1, <1>5 DEF Closes, Facts
  <2> QED
    BY <1>5, <2>1, <2>2 DEF Closes
<1> QED
  BY <1>2, <1>3, <1>4, <1>5 DEF FactMove

\* A receipt that resumes is written under the authority of its request.
LEMMA ResumedInTime ==
  ASSUME RunShape, RequestShape, NEW r \in Requests, Sound(r), FactMove(r),
         fact[r].resolved = None, fact'[r].resolved /= None, fact'[r].resolved.disposition = "resumed"
  PROVE  fact'[r].resolved.at = [gen |-> fact'[r].auth.gen, seen |-> fact'[r].auth.epoch]
<1>1. fact[r] \in Facts
  BY DEF RequestShape
<1>2. /\ Past(r) /\ fact[r].wait \in {None, fact[r].auth}
      /\ gate[r].stage = "registered" => fact[r].auth = Own(r)
  BY DEF Sound, Signed
<1>3. generation \in Nat /\ intents \in Nat
  BY DEF RunShape
<1>a. ~(fact'[r] = fact[r] \/ Registers(r) \/ Opens(r) \/ \E a \in Answers : Queues(r, a))
  BY <1>1 DEF Registers, Opens, Queues, NoFact, Facts
<1>4. ASSUME NEW a \in Answers, Records(r, a)
      PROVE  fact'[r].resolved.at = [gen |-> fact'[r].auth.gen, seen |-> fact'[r].auth.epoch]
  <2>1. fact'[r].resolved = Resolution(a, Verdict(r)) /\ fact'[r].auth = fact[r].auth
    BY <1>1, <1>4 DEF Records, Facts
  <2>2. Verdict(r) = "resumed"
    BY <1>4, <2>1, VerdictType, ResolutionType DEF Records
  <2>3. AtFrontier(r) /\ Holds(fact[r].wait) /\ ~Newer(fact[r].wait.epoch)
    BY <2>2 DEF Verdict
  <2>4. fact[r].wait = fact[r].auth /\ fact[r].auth /= None
    BY <1>2, <2>3 DEF AtFrontier
  <2>5. generation = fact[r].auth.gen /\ ~(intents > fact[r].auth.epoch)
    BY <2>3, <2>4 DEF Holds, Newer
  <2>6. fact[r].auth.epoch \in Nat /\ fact[r].auth.epoch <= intents
    BY <1>1, <1>2, <2>4 DEF Past, Facts, Authority
  <2>7. intents = fact[r].auth.epoch
    BY <1>3, <2>5, <2>6
  <2>8. fact'[r].resolved.at = [gen |-> generation, seen |-> intents]
    BY <2>1, <2>2, ResolutionType
  <2> QED
    BY <2>1, <2>5, <2>7, <2>8
<1>5. ASSUME Promotes(r)
      PROVE  fact'[r].resolved.at = [gen |-> fact'[r].auth.gen, seen |-> fact'[r].auth.epoch]
  <2>1. fact'[r].resolved = Resolution(fact[r].queued, "resumed") /\ fact'[r].auth = fact[r].auth
    BY <1>1, <1>5 DEF Promotes, Facts
  <2>2. fact[r].queued \in Answers /\ gate[r].stage = "registered" /\ MayOpen(r)
    BY <1>1, <1>5 DEF Promotes, Queued, Facts
  <2>3. fact'[r].resolved.at = [gen |-> generation, seen |-> intents]
    BY <2>1, <2>2, ResolutionType
  <2>4. fact[r].auth.gen = gate[r].gen /\ fact[r].auth.epoch = gate[r].epoch
    BY <1>2, <2>2 DEF Own
  <2>5. generation = gate[r].gen
    BY <2>2 DEF MayOpen, Holds, Own
  <2>6. gate[r].epoch \in Nat /\ gate[r].epoch <= intents /\ ~(intents > gate[r].epoch)
    BY <1>2, <2>2 DEF MayOpen, Newer, Past, RequestShape, Gates
  <2>7. intents = gate[r].epoch
    BY <1>3, <2>6
  <2> QED
    BY <2>1, <2>3, <2>4, <2>5, <2>7
<1>6. ASSUME Finalizes(r) PROVE FALSE
  <2>1. fact[r].queued \in Answers
    BY <1>1, <1>6 DEF Finalizes, QueuedStale, Queued, Facts
  <2>2. \E v \in {"superseded", "lost"} : fact'[r].resolved = Resolution(fact[r].queued, v)
    BY <1>1, <1>6 DEF Finalizes, Facts
  <2> QED
    BY <2>1, <2>2, ResolutionType
<1>7. ASSUME Closes(r) PROVE FALSE
  <2>1. fact'[r].resolved = Resolution("closed", "lost")
    BY <1>1, <1>7 DEF Closes, Facts
  <2> QED
    BY <2>1, ResolutionType DEF Answers
<1> QED
  BY <1>a, <1>4, <1>5, <1>6, <1>7 DEF FactMove

LEMMA ReceiptStep ==
  ASSUME RunShape, RequestShape, NEW r \in Requests, Sound(r), FactMove(r), GateMove(r)
  PROVE  Receipt(r)'
<1>1. Receipt(r) /\ Signed(r) /\ fact[r] \in Facts
  BY DEF Sound, RequestShape
<1>2. fact[r].resolved /= None => fact'[r].resolved = fact[r].resolved
  BY ResolvedOnce
<1>3. fact'[r].auth = fact[r].auth \/ (fact[r].resolved = None /\ fact'[r].resolved = None)
  <2>1. Registers(r) => fact[r].resolved = None
    BY DEF Registers, NoFact
  <2>2. Registers(r) => fact'[r].resolved = None
    BY DEF Registers, NoFact
  <2> QED
    BY <2>1, <2>2, AuthorityKept
<1>4. fact'[r].resolved /= None /\ fact'[r].resolved.disposition = "resumed" =>
        fact'[r].resolved.at = [gen |-> fact'[r].auth.gen, seen |-> fact'[r].auth.epoch]
  BY <1>1, <1>2, <1>3, ResumedInTime DEF Receipt
<1>5. gate'[r].stage \in {"answered", "approved"} => fact'[r].resolved /= None
  BY <1>1, <1>2, GateCases DEF Receipt
<1>6. gate'[r].stage = "approved" =>
        fact'[r].resolved.answer = "allow" /\ fact'[r].resolved.disposition = "resumed"
  BY <1>1, <1>2, GateCases DEF Receipt
<1> QED
  BY <1>4, <1>5, <1>6 DEF Receipt

LEMMA QueuedStep ==
  ASSUME RunShape, RequestShape, NEW r \in Requests, Sound(r), FactMove(r), GateMove(r)
  PROVE  QueuedBefore(r)'
<1>1. QueuedBefore(r) /\ Signed(r) /\ fact[r] \in Facts
  BY DEF Sound, RequestShape
<1>2. fact'[r].resolved = None => fact[r].resolved = None
  BY ResolvedOnce
<1> SUFFICES ASSUME fact'[r].resolved = None, fact'[r].queued /= None, fact'[r].wait /= None
             PROVE  FALSE
  BY DEF QueuedBefore
<1>3. CASE fact'[r] = fact[r]
  BY <1>1, <1>3 DEF QueuedBefore
<1>4. CASE Registers(r) \/ Opens(r)
  BY <1>1, <1>4 DEF Registers, Opens, NoFact, Facts
<1>5. ASSUME NEW a \in Answers, Queues(r, a) PROVE FALSE
  <2>1. fact[r].wait /= None
    BY <1>1, <1>5 DEF Queues, Facts
  <2> QED
    BY <1>5, <2>1 DEF Queues, Verdict
<1>6. fact'[r].resolved \notin Resolutions
  BY InteractionConstants
<1>7. ASSUME NEW a \in Answers, Records(r, a) PROVE FALSE
  <2>1. fact'[r].resolved = Resolution(a, Verdict(r))
    BY <1>1, <1>7 DEF Records, Facts
  <2> QED
    BY <1>7, <1>6, <2>1, VerdictType, ResolutionType DEF Records
<1>8. CASE Finalizes(r) \/ Promotes(r)
  <2>1. fact[r].queued \in Answers
    BY <1>1, <1>8 DEF Finalizes, Promotes, QueuedStale, Queued, Facts
  <2>2. \E v \in {"resumed", "superseded", "lost"} : fact'[r].resolved = Resolution(fact[r].queued, v)
    BY <1>1, <1>8 DEF Finalizes, Promotes, Facts
  <2> QED
    BY <1>6, <2>1, <2>2, ResolutionType
<1>9. CASE Closes(r)
  <2>1. fact'[r].resolved = Resolution("closed", "lost")
    BY <1>1, <1>9 DEF Closes, Facts
  <2> QED
    BY <1>6, <2>1, ResolutionType DEF Answers
<1> QED
  BY <1>3, <1>4, <1>5, <1>7, <1>8, <1>9 DEF FactMove

\* What clients were told before the step is kept by it ...
LEMMA OldKept ==
  ASSUME RunShape, RequestShape, NEW r \in Requests, Sound(r), FactMove(r), NEW b \in accepted[r]
  PROVE  IF fact'[r].resolved = None THEN fact'[r].queued = b
                                     ELSE fact'[r].resolved.answer \in {b, "closed"}
<1>1. Kept(r) /\ fact[r] \in Facts /\ b \in UserAnswers
  BY DEF Sound, RequestShape
<1>2. b /= None
  BY <1>1, InteractionConstants DEF Answers
<1>3. CASE fact[r].resolved /= None
  BY <1>1, <1>3, ResolvedOnce DEF Kept
<1>4. CASE fact[r].resolved = None
  <2>1. fact[r].queued = b
    BY <1>1, <1>4 DEF Kept
  <2>2. CASE fact'[r].resolved = fact[r].resolved
    <3>1. fact'[r].queued = fact[r].queued
      <4>1. ~Registers(r) /\ ~Opens(r)
        BY <1>2, <2>1 DEF Registers, Opens, NoFact
      <4>2. ASSUME NEW a \in Answers, Queues(r, a) PROVE fact'[r].queued = fact[r].queued
        BY <1>1, <1>2, <2>1, <4>2 DEF Queues, Recordable, Facts
      <4>3. ASSUME \/ Finalizes(r) \/ Promotes(r) \/ Closes(r) \/ \E a \in Answers : Records(r, a)
            PROVE  fact'[r].queued = fact[r].queued
        BY <1>1, <4>3 DEF Finalizes, Promotes, Closes, Records, Facts
      <4> QED
        BY <4>1, <4>2, <4>3 DEF FactMove
    <3> QED
      BY <1>4, <2>1, <2>2, <3>1
  <2>3. CASE fact'[r].resolved /= fact[r].resolved
    BY <1>2, <1>4, <2>1, <2>3, ResolvedOnce
  <2> QED
    BY <2>2, <2>3
<1> QED
  BY <1>3, <1>4

\* ... and what a client is told agrees with what others were told before.
LEMMA KeptStep ==
  ASSUME RunShape, RequestShape, NEW r \in Requests, Sound(r), FactMove(r), AcceptedMove(r)
  PROVE  Kept(r)'
<1>1. \A b \in accepted[r] : IF fact'[r].resolved = None THEN fact'[r].queued = b
                                                         ELSE fact'[r].resolved.answer \in {b, "closed"}
  BY OldKept
<1>2. ASSUME NEW a, Stands(r, a, fact'[r])
      PROVE  IF fact'[r].resolved = None THEN fact'[r].queued = a
                                         ELSE fact'[r].resolved.answer \in {a, "closed"}
  BY <1>2 DEF Stands
<1>3. \A b \in accepted'[r] : \/ b \in accepted[r]
                              \/ b \in UserAnswers /\ Stands(r, b, fact'[r])
  BY DEF AcceptedMove
<1>4. \A a, b \in accepted[r] : a = b
  BY DEF Sound, Kept
<1>5. ASSUME NEW a \in UserAnswers, Stands(r, a, fact'[r]), NEW b \in accepted[r] PROVE a = b
  BY <1>1, <1>5 DEF Stands, UserAnswers
<1>6. \A a, b \in accepted'[r] : a = b
  BY <1>4, <1>5 DEF AcceptedMove
<1> QED
  BY <1>1, <1>2, <1>3, <1>6 DEF Kept

-----------------------------------------------------------------------------
(* The run as a whole *)

LEMMA AlikeStep ==
  ASSUME InteractionShape, LoadedAlike, \A q \in Requests : Sound(q), [Next]_vars
  PROVE  LoadedAlike'
<1> USE DEF InteractionShape
<1>1. Range(batch)' = Range(batch) /\ Range(batch) \subseteq Requests
  BY WaitMoves DEF Range, RequestShape
<1>2. ASSUME NEW q \in Requests, gate'[q].stage = "loaded"
      PROVE  \/ gate[q].stage = "loaded" /\ Own(q)' = Own(q)
             \/ Loading
  BY <1>2, GateMoves, GateCases DEF KeepsOwn
<1>3. CASE Loading
  <2>1. PICK R, p : Load(R, p) /\ (R = Range(batch) \/ \E u \in Requests \ Range(batch) : R = {u})
    BY <1>3 DEF Loading
  <2>2. \A q \in Requests : gate'[q] =
          IF q \notin R THEN gate[q]
          ELSE [stage |-> "loaded", pod |-> p, gen |-> generation, epoch |-> intents]
    BY <2>1 DEF Load
  <2>3. \A q \in Requests : Own(q)' =
          IF q \notin R THEN Own(q) ELSE [gen |-> generation, pod |-> p, epoch |-> intents]
    BY <2>2 DEF Own
  <2> QED
    BY <1>1, <2>1, <2>2, <2>3 DEF LoadedAlike
<1>4. CASE ~Loading
  <2>1. \A q \in Requests : gate'[q].stage = "loaded" => gate[q].stage = "loaded" /\ Own(q)' = Own(q)
    BY <1>2, <1>4
  <2> QED
    BY <1>1, <2>1 DEF LoadedAlike
<1> QED
  BY <1>3, <1>4

LEMMA AnswerableStep ==
  ASSUME InteractionShape, LoadedAlike, \A q \in Requests : Sound(q), WaitIsAnswerable, [Next]_vars
  PROVE  WaitIsAnswerable'
<1> USE DEF InteractionShape
<1> SUFFICES ASSUME status' = "waiting"
             PROVE  /\ frontier' /= None /\ fact'[frontier'].wait /= None
                    /\ Holds(fact[frontier].wait)' => fact'[frontier'].resolved = None
  BY DEF WaitIsAnswerable
<1>1. ASSUME NEW q \in Requests, Opens(q), frontier' = q
      PROVE  /\ frontier' /= None /\ fact'[frontier'].wait /= None
             /\ fact'[frontier'].resolved = None
  <2>1. gate[q].stage = "registered" /\ fact[q].resolved = None
    BY <1>1 DEF Opens
  <2>2. Own(q) \in Authority
    BY <2>1 DEF Own, Authority, Sound, Signed, RequestShape, Gates
  <2>3. fact[q] \in Facts
    BY DEF RequestShape
  <2>4. fact'[q].wait = Own(q) /\ fact'[q].resolved = None
    BY <1>1, <2>1, <2>3 DEF Opens, Facts
  <2> QED
    BY <1>1, <2>2, <2>4, InteractionConstants
<1>2. ASSUME status = "waiting", frontier' = frontier
      PROVE  /\ frontier' /= None /\ fact'[frontier'].wait /= None
             /\ Holds(fact[frontier].wait)' => fact'[frontier'].resolved = None
  <2> DEFINE g == frontier
  <2>1. g \in Requests /\ fact[g].wait /= None /\ (Holds(fact[g].wait) => fact[g].resolved = None)
    BY <1>2 DEF WaitIsAnswerable, RunShape
  <2>2. fact[g] \in Facts /\ Sound(g) /\ FactMove(g)
    BY <2>1, FactMoves DEF RequestShape
  <2>3. AtFrontier(g)
    BY <1>2, <2>1 DEF AtFrontier
  <2>4. fact[g].wait = fact[g].auth /\ fact[g].wait.gen \in Nat /\ fact[g].wait.gen <= generation
    BY <2>1, <2>2 DEF Sound, Signed, Past, Facts, Authority
  <2>5. ASSUME fact'[g].wait = fact[g].wait, Holds(fact[g].wait)' PROVE Holds(fact[g].wait)
    <3>1. leased' /\ generation' = fact[g].wait.gen /\ owner' = fact[g].wait.pod
      BY <1>2, <2>5 DEF Holds
    <3>2. generation' = generation
      BY <2>4, <3>1, RunMoves DEF RunShape
    <3> QED
      BY <1>2, <3>1, <3>2, RunMoves DEF Holds, Live
  <2>6. CASE fact'[g] = fact[g]
    BY <1>2, <2>1, <2>5, <2>6, InteractionConstants
  <2>7. CASE Registers(g) \/ Promotes(g) \/ Opens(g)
    BY <1>2, <2>1, <2>7 DEF Registers, Promotes, Opens, MayOpen, NoFact
  <2>8. ASSUME NEW a \in Answers, Queues(g, a) PROVE FALSE
    BY <2>3, <2>8 DEF Queues, Verdict
  <2>9. ASSUME NEW a \in Answers, Records(g, a)
        PROVE  fact'[g].wait = fact[g].wait /\ ~Holds(fact[g].wait)
    <3>1. ~Releases(g) /\ fact'[g].wait = fact[g].wait
      BY <2>2, <2>9 DEF Records, Facts
    <3>2. Verdict(g) = "lost"
      BY <2>3, <2>9, <3>1, VerdictType DEF Records, Releases
    <3> QED
      BY <2>3, <3>1, <3>2 DEF Verdict
  <2>10. CASE Finalizes(g)
    BY <2>1, <2>2, <2>10 DEF Finalizes, QueuedStale, Queued, Sound, QueuedBefore
  <2>11. CASE Closes(g)
    BY <2>11 DEF Closes
  <2> QED
    BY <1>2, <2>1, <2>2, <2>5, <2>6, <2>7, <2>8, <2>9, <2>10, <2>11, InteractionConstants DEF
       FactMove
<1> QED
  BY <1>1, <1>2, WaitMoves

LEMMA InteractionInvInit == Init => InteractionInv
<1> SUFFICES ASSUME Init PROVE InteractionInv
  OBVIOUS
<1> USE InteractionConstants DEF Init
<1>1. RunShape
  BY DEF RunShape, Statuses
<1>2. Idle \in Gates /\ NoFact \in Facts
  BY DEF Idle, Gates, Stages, NoFact, Facts
<1>3. RequestShape
  BY <1>2 DEF RequestShape
<1>4. LoadedAlike
  <2>1. Range(batch) \subseteq Requests
    BY DEF Range
  <2> QED
    BY <2>1 DEF LoadedAlike, Idle
<1>5. ASSUME NEW r \in Requests PROVE Sound(r)
  <2>1. gate[r] = Idle /\ fact[r] = NoFact /\ accepted[r] = {}
    OBVIOUS
  <2>2. Signed(r)
    BY <2>1 DEF Signed, Idle, NoFact
  <2>3. Past(r)
    BY <2>1 DEF Past, Idle, NoFact
  <2>4. Receipt(r) /\ QueuedBefore(r)
    BY <2>1 DEF Receipt, QueuedBefore, Idle, NoFact
  <2>5. Kept(r)
    BY <2>1 DEF Kept
  <2> QED
    BY <2>2, <2>3, <2>4, <2>5 DEF Sound
<1>6. WaitIsAnswerable
  BY DEF WaitIsAnswerable
<1> QED
  BY <1>1, <1>3, <1>4, <1>5, <1>6 DEF InteractionInv, InteractionShape

LEMMA InteractionInvStep == ASSUME InteractionInv, [Next]_vars PROVE InteractionInv'
<1> USE DEF InteractionInv, InteractionShape
<1>1. InteractionShape' /\ LoadedAlike' /\ WaitIsAnswerable'
  BY ShapeStep, AlikeStep, AnswerableStep
<1>2. ASSUME NEW r \in Requests PROVE Sound(r)'
  <2>1. Sound(r) /\ FactMove(r) /\ GateMove(r) /\ AcceptedMove(r)
    BY FactMoves, GateMoves, AcceptedMoves
  <2> QED
    BY <2>1, SignedStep, PastStep, ReceiptStep, QueuedStep, KeptStep DEF Sound
<1> QED
  BY <1>1, <1>2

LEMMA InteractionInvariant == Spec => []InteractionInv
BY InteractionInvInit, InteractionInvStep, PTL DEF Spec

-----------------------------------------------------------------------------
(* The theorems *)

\* authorize_resolved_decision never lets a tool run on an answer that was recorded
\* under another generation, or after guidance newer than the question.
THEOREM ApprovalsAreCurrent == Spec => []ApprovalIsCurrent
<1>1. InteractionInv => ApprovalIsCurrent
  <2> SUFFICES ASSUME InteractionInv, NEW r \in Requests, gate[r].stage = "approved"
               PROVE  LET d == fact[r].resolved IN
                      /\ d /= None
                      /\ d.answer = "allow" /\ d.disposition = "resumed"
                      /\ d.at = [gen |-> gate[r].gen, seen |-> gate[r].epoch]
    BY DEF ApprovalIsCurrent
  <2>1. Signed(r) /\ Receipt(r)
    BY DEF InteractionInv, Sound
  <2>2. fact[r].auth = Own(r)
    BY <2>1 DEF Signed
  <2> QED
    BY <2>1, <2>2 DEF Receipt, Own
<1> QED
  BY <1>1, InteractionInvariant, PTL

\* resolve_run_interaction tells at most one answer that it stands, and keeps it
\* through the queue, its promotion, the deadline and a late close.
THEOREM AcceptedAnswersStand == Spec => []AcceptedAnswerStands
<1>1. InteractionInv => AcceptedAnswerStands
  <2> SUFFICES ASSUME InteractionInv, NEW r \in Requests
               PROVE  /\ \A a, b \in accepted[r] : a = b
                      /\ accepted[r] /= {} /\ fact[r].resolved /= None =>
                           fact[r].resolved.answer \in accepted[r] \cup {"closed"}
    BY DEF AcceptedAnswerStands
  <2>1. Kept(r)
    BY DEF InteractionInv, Sound
  <2> QED
    BY <2>1 DEF Kept
<1> QED
  BY <1>1, InteractionInvariant, PTL

\* Neither a superseding answer, a queued one nor a lost authority leaves the owner
\* of a run waiting for a request that can no longer be answered.
THEOREM WaitsAreAnswerable == Spec => []WaitIsAnswerable
<1>1. InteractionInv => WaitIsAnswerable
  BY DEF InteractionInv
<1> QED
  BY <1>1, InteractionInvariant, PTL
=============================================================================
