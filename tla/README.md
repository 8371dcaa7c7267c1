# Astra: a TLA+ verification project

Astra is an agent server. A user's turn becomes a *run*, executed by one of
several server processes (pods) against one MySQL-compatible database. The
database is the only thing the pods share: every promise about a run (who may
execute it, whether it was cancelled, whether a tool has already been called) is
kept by conditional `UPDATE`s and row locks. Some tools run on *edge* devices,
which connect to any pod by websocket and keep a journal of their own. This
project models the durable authority over a run, the ledger of its tool calls,
the heartbeat that keeps a run's lease, the approvals it asks for, the whole path
of a tool call to an edge device and back, and the mailbox of an agent; it
model-checks each on small instances and proves the safety properties of all of
them, and both refinements, for every size.

Paths below are relative to `src/crates/`.

## 1. Inventory

| Component | State | Operations | What is hard | What makes it correct |
|---|---|---|---|---|
| **Durable run row**: `services/src/runs.rs`, `runs/terminal.rs` | status, `waiting_for`, `run_generation`, `owner_pod_id`, `owner_lease_expires_at`, `cancellation_requested_at`, event log with `last_event_idx` | status transitions, canonical terminal commit, recovery claim, resume activation, marker, guidance admission / application / return, action grant | executors of several generations run at once; control calls read, then write | a terminal status is final; a marker decides the outcome; guidance gets exactly one disposition |
| **Run engine**: `runtime/src/server/run/engine.rs` | heartbeat per execution, recovery worker | renew, fence, release, claim and settle orphans | a renewal times out with the lease intact; a settlement misses | an orphan is always taken over, by one claimant |
| **Run lifecycle service**: `runtime/src/server/run/lifecycle/` | process-local run table | pause, resume, cancel, session stop, cancel descendants, loop settlement | "is the executor live?" is read long before it is used | no control call undoes another; a cancellation converges |
| **Tool-invocation ledger**: `services/src/tool_invocation_ledger.rs` | hot rows (state, certainty, attempts, owner, lease) and archive | prepare, cache completion, claim, renew, expire, complete, mark unknown, close run, compact | lost acknowledgements of COMMIT; late answers; closure of the run under a running tool | a tool runs at most once; records and reports are true and final |
| **Tool dispatch runtime**: `runtime/src/server/tool_invocation_runtime.rs`, `runtime_tool_executor.rs` | one call at a time per attempt | prepare / dispatch / execute / finish | every step between two transactions can be the last | persist before answering |
| **Agentic loop**: `runtime/src/turn/agentic_loop/` | guidance cursor (control epoch) | tool phase | guidance arrives between decision and dispatch | no dispatch over unread guidance |
| **Interaction protocol**: `services/src/runs.rs`, `runtime/src/server/run/lifecycle/mod.rs`, `runtime/src/server/server_loop_host.rs` | per request: registration, queued answer, wait, resolution; the frontier of waits | register a batch, begin wait, resolve, queue, promote, supersede, time out, close | an answer earlier than its wait, or to an older generation; deadline, guidance and user race for one resolution | one resolution per request; a tool is approved only by a current answer; a parked run can be answered |
| **Edge dispatch queue**: `services/src/multi_agent/edge_dispatch.rs`, `runtime/src/server/tool_edge_transport.rs` | `edge_pending_dispatch` rows | admit, claim for a socket, poll by a relay, deliver, fail, expire, delete | two claimants; lost commits, frames and acknowledgements | sent once, run once, answered truthfully |
| **Edge connection pool**: `astra-server-types/src/edge_connection_pool.rs`, `runtime/src/server/edge/edge_ws_handler.rs` | entry per edge, waiters, pending requests, forward task per socket | look up, reserve, send, cancel, deliver, reconnect, abort, clean up, drain | cleanup of an old connection races its replacement | waiters are handed over; no cancellation overtakes its request |
| **Edge invocation journal**: `astra-edge/src/invocation_journal.rs`, `lib.rs` | snapshot file, log, records in memory | prepare, complete, acknowledge, replay, compact, recover | process exit or power loss between any two I/O operations | a started tool is never started again; whatever survives can be replayed |
| **Messaging**: `astra-messaging/src/`, `runtime/src/turn/agentic_loop/lifecycle.rs` | mailbox rows with claims, the loop's retained context | send, claim, deliver, confirm, requeue, dead-letter | redelivery while the first consumer is still working | no message confirmed before it was taken in; every direct message is settled |
| **Sync outbox**: `services/src/sync_outbox.rs` | batches with lease and attempts | enqueue, lease, retry, acknowledge | backoff, duplicate send | order and eventual delivery |
| **Sweeper leases**: `runtime/src/server/sweeper_lease.rs` | one lease per sweep | acquire, renew, release | two pods sweep | one holder |
| **Resource governor, weighted admission**: `services/src/` | permits and waiters | acquire, release, cancel waiter | a waiter cancelled at hand-over | permits are conserved; no starvation |
| **Cooldown, circuit breaker, fan-out groups**: `astra-turn-core/src/` | counters and deadlines | observe, trip, reset; join | boundaries of windows | small sequential machines |
| **Sessions, work orchestration, inference records, ingestion** | several tables each | | | see section 8 |
| **CLI, TUI, web, SDK, tools, sandbox, MCP** | | | input/output | not protocol state |

Interactions: the loop runs under an owner lease kept alive by the engine's
heartbeat; each tool call goes through the dispatch runtime, whose claim locks both
the ledger row and the run row and commits the *action grant* and the *dispatch*
together. A tool that needs approval first asks through the interaction protocol. A
tool bound to an edge device is admitted to the dispatch queue and sent through the
pool of the pod that holds the socket; the edge records it in its journal before it
runs it, and the result is stored before it is acknowledged. Agents send each other
messages through the mailbox table. User controls reach the run through the
lifecycle service, on any pod. The recovery worker of any pod claims runs whose
lease has run out. The compactor closes the ledger of ended runs and moves it to the
archive.

`PROJECT.json` lists every component, and under `hazards` what can go wrong at
which line, with the properties that would show it.

## 2. Modules

| Module | Contents |
|---|---|
| `RunAuthority` | the run's row, its executors, leases, crashes, recovery, and the user's controls |
| `ToolInvocation` | extends `RunAuthority` with the ledger, the archive and the calls: the composition of both components over the same clock |
| `InvocationContract` | abstract: what the ledger promises of a logical invocation |
| `OwnerLease` | the heartbeat of one executor: database lease, local deadline, retries, the mutex with terminal settlement |
| `Interaction` | approval requests of a run: registration, wait, answers, deadline, guidance, recovery |
| `EdgeDispatch` | the durable dispatch queue with callers, relays, read loop, sweep and the edge |
| `EdgePool` | one edge's entry in the connection pool: callers, forward tasks, reconnects, cleanup |
| `EdgeJournal`, `EdgeJournalContract` | the edge's snapshot and log under crashes; abstract: one durable record per request |
| `Mailbox` | one agent's mailbox rows, poll loops, stale-claim sweep and agentic loops |
| `MC*` | symmetry sets and value sets for TLC; the `.cfg` files choose the constants |
| `RunAuthorityProofs`, `ToolInvocationProofs`, `OwnerLeaseProofs`, `InteractionProofs`, `EdgeDispatchProofs`, `EdgePoolProofs`, `EdgeJournalProofs`, `MailboxProofs` | theorems about the module each is named after, checked by TLAPS |

### RunAuthority and the code

One action is one transaction, evaluated under the row lock the code takes, or
one step between two transactions. `PROJECT.json` maps every definition to its
lines. The choices that matter:

* An **executor is named by its generation**. The code's capability is (pod,
  generation), and a generation is claimed by one pod, which `podOf` remembers.
  A superseded executor goes on until it notices; every owner action is offered
  to every generation and must be refused by its fence.
* **Leases** are kept relative to the database clock (`expires_at - NOW(6)`), so
  that `Tick` lowers them and the state space is finite. `LeaseLive` uses `>=`
  like the SQL. The periodic sweep waits a whole further lease beyond expiry; a
  restarted pod takes back at once what it owned (`StartupMayClaim`), which is
  sound only because its own executors died with it: that is its first conjunct.
* **Two-step controls.** `pause_run`/`resume_run` decide that nobody executes
  the run (`ReadOrphan`) and later park it by status alone
  (`ReconcileOrphanedExecution`). `cancel_run` reads the generation, stores the
  marker, then tries to retire exactly that generation (`ReadForCancel`,
  `RequestCancellation`, `TerminalizeOrphanedCancellation`).
* **The lineage's markers**: an ancestor's marker is on another row
  (`ancestorCancelled`). `MarkersAdmit` is the code's rule: a user cancellation
  needs a marker in the lineage, every other transition needs that there is none.
* **Guidance** is an event index with a disposition. `AdmitGuidance` opens it,
  `ApplyUserIntents` applies all that were read, and every terminal commit, and
  every transition that frees the session slot, returns what is still open, in
  the same transaction.
* **Crashes**: `ExecutorCrash` ends a process between any two steps and leaves
  its lease to expire. It also stands for an executor that hangs after it was
  fenced, and for a release that fails. `ExecutorFenced` is a heartbeat that was
  refused or timed out.
* `ParkExecution` leaves a wait reason when a debugger pause asks for an
  intervention, and none otherwise.
* `RequestSessionCancellation` is the session's stop command: one statement marks
  every active run. Its `cancel_run` calls afterwards are best effort (it waits
  one second), so nothing relies on them.

### ToolInvocation and the code

A *call* is one attempt at one logical invocation, on behalf of an executor
generation, carrying the control epoch its executor had reached. Its `pc` names
the transaction it will make next:

```
prepare -> dispatch -> execute -> finish -> done
   |          |  \-> recover -^      \-> reread -> reconcile | doubt -> done
   \-> expire -> done
```

* `ClaimDispatch` commits the run's action grant and the row's claim together;
  the acknowledgement may be lost whether or not it committed. In `recover` the
  claim is repeated or found again; a claim counts as one's own only if it is
  exactly that (`OwnLiveClaim`).
* `Finish` persists first and answers afterwards; every update, or its
  acknowledgement, may be lost, and then the row decides (`Reread`).
* `ReconcileTerminalRun` and `CompactTerminalRunBatch` are the sweep's two
  transactions over an ended run. A batch is the first `Batch` settled rows and
  becomes one archive chunk, which has a byte bound: `Oversized` says which sets of
  results exceed it. Such a batch is refused (`ChunkTooLarge`), and the next sweep
  meets the same rows.
* `effects` is a history variable: how often a provider really ran the tool.
* A call may die at any point (`CallDies`); a call may also outlive its executor,
  which over-approximates the code's cancellation of child tasks.
* A call past its dispatch deadline is claimed and then completed as rejected
  without running the tool (`RejectPastDeadline`), as the executor does.

`RunWithLedgerIsRun` (proved) says that the composed system, seen through the
run's variables alone, is still a `RunAuthority` run, so everything shown of the
run holds with the ledger beside it.

### OwnerLease and the code

The policy's arithmetic (`SafetyMargin`, `Slack`, `AttemptWait`, `NextRenewal`)
is `OwnerLeasePolicy`, with saturating subtraction. Clocks are kept as the time
left, and `Tick` lowers them all: database and process may disagree about the
date but not about the length of a second. The local deadline counts from the
*start* of the renewal that succeeded, the database lease from its execution. An
`UPDATE` whose answer was given up may still run (`LateRenewRuns`). `timely`,
chosen in `Init`, says whether the scheduler keeps within the policy's slack:
`lag` counts the time the task was ready and did not run in the present window,
and what it was late in reading the answer that opened a window counts in that
window. Only `BudgetSuffices` depends on it. Terminal settlement shares the operation
mutex, may be given a grace at the deadline, and retires the authority with a
receipt: of its own commit, of one found by reading the row again after an
uncertain answer, or of a terminal status that somebody else has set. The change of
status leaves owner and lease in the row: see section 5.

### Interaction and the code

A request's facts are its registration (generation, pod, control epoch), a queued
answer, its wait and its one resolution; every transaction of
`resolve_run_interaction_with_attachment`, `begin_run_interaction_wait` and
`register_guarded_interaction_batch` is one action. Event indices are compared
only with guidance, so an epoch is the number of pieces of guidance before it. The
executors are the gate of a server tool, which asks for one call at a time and
looks for guidance again after it has parked and after it has read an answer, and
a batch of edge calls, which is registered as a whole and waited for in order. A
wait is made with the authority of its registration. The commits of registration,
wait and promotion may lose their acknowledgement. A client's lost reply is not
modelled, since it only makes the client claim less. What follows an approval is
the dispatch claim of `ToolInvocation`, which checks authority and guidance again.

### EdgeDispatch, EdgePool, EdgeJournal and the code

Together they are the path of one call to an edge device; each sees the others
through what the code lets it see. `EdgeDispatch` uses the pool as "certainly not
sent" or "possibly sent", which is what `EdgePool!NotSentIsTruthful` justifies,
and the edge as a journal with one record per request, which is
`EdgeJournalContract`, implemented by `EdgeJournal`.

* `EdgeDispatch`: a row is claimed by a direct caller or by the relay of a
  connection, in a transaction whose acknowledgement may be lost; a frame is lost
  when the edge has left its connection. A frame is delivered once per connection. A
  call that meets a row with another payload is refused (`AdmissionRejected`); since
  the payload holds the time left, a repeated call may or may not differ from the
  first, and both are modelled. The run's end permits the sweep to delete its rows;
  a waiter may poll at any time, so the wait coordinator's wake-ups are left out.
* `EdgePool`: one edge key. A map of waiters outlives the connection that created
  it, since a reconnect inherits it; maps are named by the generation that made
  them. The forward task scans the cancellations, takes from its channel, writes
  and marks the request forwarded in separate steps. Aborting a forward task takes
  effect at once. `MaxPending` is not reached with two requests: the refusal it
  causes is the same as that of a missing connection.
* `EdgeJournal`: each append is a write and a sync, each compaction a rename, a
  directory sync and a truncation. `snapCrash` and `walCrash` are the contents a
  power loss may leave: a write adds a candidate, a sync leaves only the visible
  one. Each behaviour is exposed to one of the `FaultModels`. After an I/O error
  the owner is fenced and the journal reopened. A redelivery commits the record
  again under its new delivery generation; when that makes the envelope of a stored
  result too large for the wire, the result is replaced by an unknown outcome (the
  second choice of `Redeliver`, and `Withdraw` of the contract).

### Mailbox and the code

A claim token is unique; here it is the subscription and the number of the claim.
`buffer` is what the loop will receive, in order: first the mailbox's own queue
`buffered`, of length `peeked`, then the stream's channel. A drain takes from its
head until it is empty or `DrainCap` deliveries were taken; asking whether there is
more moves one further delivery from the channel to `buffered`. Deliveries that find
the context full of what the provider has not seen are parked, and `RetryDeferred`
puts them back *behind* whatever is in `buffered`. `overtaken` is a history
variable: the loops in which such a step found a peeked delivery there. A crash is
`EndLoop` and a `StopPolling` that releases nothing. Time is left out: any claim may
be found stale by the sweep. Not distinguished: signals, messages too large for the
context, the retention of settled rows, and the in-process transport.

## 3. Properties

Run: `TerminalIsFinal`, `CancellationWins`, `DispositionIsFinal` (action
properties), `NoGuidanceLost` (invariant), `OrphanIsRecovered`,
`CancelOfBlockingRunConverges` (liveness).

Ledger: `AtMostOnceEffect`, `NotDispatchedIsTruthful`, `ReportedIsDurable`,
`NoResurrection` (invariants), `NoDispatchOverGuidance` (action property),
`ImplementsContract` (refinement), `LedgerComesToRest` (liveness).

Heartbeat: `AuthorityIsExclusive`, `BudgetSuffices`, `RetiredIsEnded`
(invariants), `LoserIsFenced` (liveness). `RetirementFreesRun` is what a comment
says and the code does not do.

Approvals: `ApprovalIsCurrent`, `AcceptedAnswerStands`, `WaitIsAnswerable`
(invariants).

Edge: `DispatchedAtMostOnce`, `AnswersAreTrue`, `SuccessIsDurable` (invariants)
and `ForgetsOnlyStored` (action property) of the queue; `NotSentIsTruthful`
(invariant), `CancelNeverOvertakesRequest`, `HandoverKeepsWaiters` (action
properties) and `CancellationIsForwarded` (liveness) of the pool;
`RecoveryIsTotal`, `ExecutedAtMostOnce`, `ReportedResultSurvives` (invariants) and
`JournalImplementsContract` (refinement) of the journal. `AnswersAreTrue` is about
every answer but the refusal of a conflicting repeated call;
`RejectionMeansNotDispatched` is about that one, and is violated.
`ReportedResultSurvives` allows an unknown outcome in place of the result, which is
what a redelivery may make of it, and never a record that has not run.

Mailbox: `AcknowledgedWasConsumed` (invariant), `ConfirmationNotAbandoned` (action
property), `DirectIsSettled` (liveness). `ConfirmationNotAbandoned` has one exception,
for a loop that was `overtaken`: there a confirmation may be exchanged for that of an
earlier claim of the same message (section 5), and for nothing else.

`LedgerComesToRest` names the one thing that can keep the rows of an ended run hot
for good: a first batch that exceeds the byte bound.

`NoResurrection` deserves a remark: preparation of a new row does not consult the
archive, so that an archived tool is not run again depends entirely on a terminal
run never running again, that is on `TerminalIsFinal`. The proof makes that
dependence explicit.

## 4. Runs

| Run | Instance | Shows |
|---|---|---|
| `run_authority` | 1 pod, 3 generations, 2 ordinary events, a cancellable ancestor, session stop, fair; 556 k states | the run's safety properties; orphans are recovered; cancellation of a run that occupies its session converges |
| `cancel_of_parked_run` | 1 pod, 3 generations | `CancelConverges` is violated: see section 5 |
| `tool_at_most_once` | 1 invocation, 2 attempts, 2 generations; 2.1 M states | the ledger's invariants; refinement of `InvocationContract` |
| `tool_rest` | 1 call, 2 generations, 2 events, a result that exceeds the archive chunk, fair; 733 k states | the ledger of an ended run comes to rest; guidance against dispatch |
| `owner_lease` | lease 9, interval 2, timeouts up to 6, slack 1, 2 attempts; 1.4 M states | local authority against the lease; the time budget; the loser is fenced |
| `retired_ownership` | as `owner_lease` | `RetirementFreesRun` is violated: see section 5 |
| `interaction` | 2 pods, 2 generations, 2 requests as one batch or as a batch and a single call, 1 piece of guidance; 3.3 M states | approvals against answers, deadline, guidance and recovery |
| `edge_dispatch` | 2 invocations, 3 callers (two of the same invocation), 2 connections; 819 k states | the queue's four properties |
| `refused_repeat` | 1 invocation, 2 callers, 1 connection | `RejectionMeansNotDispatched` is violated: see section 5 |
| `edge_pool` | 2 callers, 2 connections, a channel of 1, shutdown; 310 k states | waiters, cancellations, "not sent" |
| `edge_journal` | 2 requests, 2 delivery generations, a log of 3 entries compacted at 2, 5 mutations, 3 fault models; 2.2 M states | recovery and the refinement |
| `mailbox` | a direct and a broadcast message, 2 subscriptions, 2 attempts, a buffer and a drain of 2, a context of 1; 583 k states | confirmation and settlement |

**Bounds and why they are enough.** `MaxGen` bounds the generations: two
take-overs suffice for a superseded executor, its successor and a recovery of
the successor to act in any order. One pod is enough for that, since the fence is
the generation and an old executor of a pod runs beside its successor; the proofs
are for any number of pods. `MaxIdx` bounds the *ordinary* events
(guidance, pauses, grants, waits); settlements are never bounded, so no run is
stuck because the bound was reached. With two events a piece of guidance can be
admitted, and then applied, overtaken by a pause or returned. `Ttl` and `DTtl` of
1 give each lease the instants before, at and after its expiry, and the sweep's
further lease. In `ExecutorFenced`, `ExecutorCrash` and `RecoveryConflict` the
guard `generation < MaxGen` keeps the last generation from being lost with nobody
left to recover it; the liveness properties name the bound. Two attempts are the
least that race. Invocations meet only in a batch of compaction, and what a batch
does to several rows at once is covered by the proofs; with one invocation and a
result that exceeds the chunk a batch is refused, and with a rejection it is not.

The durations of `owner_lease` are the tightest the policy can produce: the margin
is the interval, the attempt timeout is a third of what the slack leaves of the
window, and three attempts and the slack fill the window exactly. In `interaction` one
take-over and one piece of guidance suffice for a request to be asked in one
generation and answered in the next, and before or after newer guidance; the
second request is what the earliest-unresolved rule and the batch need. Two
connections are the least for a replacement and the cleanup of its predecessor,
and with three callers two of them want the same row. The journal's five
mutations hold two records through admission, completion and compaction twice.
One direct message with two attempts reaches the dead letter. A context of one is
full with the second message; a buffer and a drain limit of two are the least with
which a peeked redelivery stands before a parked delivery of the same message, and
without its exception `ConfirmationNotAbandoned` is violated on this instance.

Deadlock is not checked except of the journal: a run that has ended and whose
ledger is at rest, a stopped heartbeat, a settled mailbox do nothing more.

Each property has a mutant, defined beside the definition it replaces, that
breaks it: a dropped status check, the ancestors' markers ignored, a renewal
added to the old expiry, guidance admitted on the lease alone, and so on.

## 5. Where the code and what is said of it differ

**A cancellation of a parked run** (`cancel_of_parked_run`). `cancel_run`
(`runtime/src/server/run/lifecycle/mod.rs:17341`) says "A live executor receives the
durable marker and owns convergence" and, of a claim that raced it, that "its owner
observes the already-durable cancellation marker" (17436-17441).
`cancel_of_parked_run` shows a fair behaviour in which a marker is stored on a run
that is parked at that moment, by its executor or by a recovery: the
exact-generation transition then refuses or is not tried, recovery does not look at
parked runs (they do not occupy the session), resume refuses a marked one, and
nobody is left to observe the marker. The run stays paused with the cancellation
pending until someone cancels it again. For runs that do occupy their session the
convergence holds (`CancelOfBlockingRunConverges`).

**A refused repetition** (`refused_repeat`). A call whose invocation already has a row
is rejected when its payload differs from the stored one, whatever the row's status
(`services/src/multi_agent/edge_dispatch.rs:938`, `:1065`). The payload holds
`execution_timeout_ms`, the time left when the call is made
(`runtime/src/server/tool_transport_plan.rs:294`), so a repetition normally differs.
Its caller is answered "The tool was not dispatched"
(`runtime/src/server/tool_edge_transport.rs:906`), and a test asks for that wording
since "a proven admission rejection must not claim the tool may have executed"
(`runtime/src/server/tool_transport/tests.rs:3772`). The run shows the answer about
an invocation whose request the first call has handed to the edge. The tool still
runs once; it is the answer that is not true.

**Ownership after retirement** (`retired_ownership`). The heartbeat skips the release
of its lease when a terminal receipt has retired its authority, because "The exact
terminal receipt already cleared durable ownership"
(`runtime/src/server/run/engine.rs:1661`). The executor's terminal path commits
through `update_run_status_with_events_if_current` (`services/src/runs.rs:19057`),
which passes `release_recovery_owner = false`, and the `UPDATE` (`runs.rs:11649`)
leaves owner and lease in the terminal row. Nothing is lost by it, since no recovery
looks at a terminal run and `RetiredIsEnded` says that the run is one.

### Behaviours the models show and no property forbids

* `EdgeInvocationJournal::open` replays a log line that a reader sees but no sync
  has made durable (`astra-edge/src/invocation_journal.rs:323`). A result reported
  from it may be gone after a power loss; the tool is then recorded as having an
  unknown outcome and is not run again. `ReportedResultSurvives` is therefore
  stated of the fault models in which this does not arise.
* A caller that meets a closed sender removes the pool's entry by key
  (`edge_connection_pool.rs:1173`), after it has let go of the entry: a connection
  installed in between goes with it, and the waiters of the removed entry stay in
  a map nobody holds. `HandoverKeepsWaiters` excepts that step.
* `request_forwarded` wakes only the connection that wrote the request
  (`edge_connection_pool.rs:1518`). A replacement that has already made its scan
  does not learn of the cancellation until something else wakes it.
* Results of rows that have failed are never acknowledged
  (`edge_dispatch.rs:1385`, `edge_ws_handler.rs:1083`): the edge keeps them and
  sends them again on every connection.
* A redelivery whose new generation makes its envelope exceed the wire limit turns a
  stored, perhaps already reported, result into an unknown outcome
  (`invocation_journal.rs:606-620`; the test at 1002-1075 asserts it).
* A batch of settled rows that exceeds the byte bound of an archive chunk is refused
  (`tool_invocation_ledger.rs:859-864`), and every sweep retries the same first rows:
  they, and the rows after them, stay hot.
* When a drain meets its limit it leaves a peeked delivery in `buffered`
  (`astra-messaging/src/router.rs:403-406`), and parked deliveries are queued behind it
  (`:433`). If a parked message was meanwhile requeued and is also the peeked one, its
  second claim is adopted first and then replaced by the first, which no longer holds:
  the code replaces the envelope so that "its current claim token remains the one being
  confirmed" (`:439-452`), which assumes that the later delivery comes later. The
  confirmation then updates no row, counts as success, and the claim waits for the
  sweep to requeue it.
* A claim of a mailbox message that was never delivered counts as an attempt; a
  slow loop's prefetched messages are requeued and delivered again; broadcasts
  have no limit of attempts.
* At the heartbeat's deadline a late `retire()` may make an executor both lost and
  retired. An executor may start with a deadline that is partly used up (that of
  its start receipt, or of the heartbeat it shares), and a settlement may hold the
  mutex through a window: such a window may be lost without a failure of the
  database. `short` marks them, and `BudgetSuffices` is about the others.
* An approval request that was registered and then abandoned before its wait
  (guidance in between, a crash, an ambiguous registration, or a sibling of a
  stopped edge batch whose close was only queued) stays unresolved, and since only
  the earliest unresolved request may be waited for (`runs.rs:21112`) the run
  cannot park on another approval until a client answers it or the run ends.

## 6. Fairness

`RunFairness` and `FairSpec` assume weak fairness of: the clock; a settled
executor leaving (its guard is dropped); a heartbeat whose authority is gone
fencing its executor (it polls on an interval); the periodic recovery sweep and
the settlement of what it claimed; the return of a cancel call; a tool call under
way ending (every tool has a time limit, and a process may die); the sweep over
ended runs, which repeats. Not assumed: that an executor ever finishes, a user
ever acts, a child reconciliation runs, or the stop command's follow-up succeeds.

`EdgePool!LiveSpec` assumes weak fairness of each connection's forward task (a
spawned task that is always runnable), `OwnerLease!LiveSpec` of the clock and of
the heartbeat's task, not of the database or the settlement; `Mailbox!LiveSpec` of
the poll loops, the sweep and the loops' own steps, not of senders, providers that
answer, or restarts.

## 7. Proofs

Every invariant, action property and refinement that a passing run checks is also
a theorem, for arbitrary constants under the assumptions of the modules:
non-empty pods, positive leases and capacities, `NULL`s outside the sets they
extend, outcomes among the three terminal states (`RunConstants`,
`LedgerConstants`, `LeaseAssumption`, `InteractionConstants`, `PoolAssumption`,
`JournalAssumption`, `MailboxAssumption`), and callers that are not connections
(`DispatchAssumption`: both are claimants of rows, under ids of different kinds).
`RenewalBudget` alone assumes more: two attempts, which is
`OWNER_LEASE_MAX_ATTEMPTS`, and a lease of at least seven units of the clock. Each
inductive invariant was checked with TLC, on the instance of a run, before it was
proved.

**Run.** The lemma `EveryStepMoves` shows that each of the actions does one of
four things to the row: it passes leaving status and intents alone in the ways
that matter, hands open guidance back, applies guidance, or admits it at the next
event index. `TerminalFinal`, `CancellationDecides` and `GuidanceKept` follow by
looking at those four cases instead of at every action. `DispositionFinal` needs a
strengthening, `IntentsAreOld`: no intent lies beyond `last_event_idx`. Without it
an admission could overwrite a settled disposition.

**Ledger.** `AtMostOnceEffect` is not inductive: it says nothing about a call
about to run the tool. The inductive invariant `LedgerInv` adds `OneHolder` (at
most one call per invocation holds its claim, also one whose acknowledgement was
lost, and the tool has not run while it does) and, per row, `OnceGranted`
(without a grant no dispatch and no effect; with one the row is never `prepared`
again), `GrantShows` (a granted invocation is on record, and not as undispatched)
and `ArchiveIsClosed` (an archived invocation has an ended run and no row).
`AtMostOnce`, `DenialsAreTrue`, `ArchivedStaysArchived` and `ReportsAreDurable`
follow from it. `DispatchFollowsGuidance` uses `CursorIsRead`: whatever lies at
or below a call's epoch was disposed of when the call started, and dispositions
do not reopen.

`LedgerRefines` is the refinement of `InvocationContract`. Every write of a row is
one of five kinds (`WriteSimulates`), each a step of the contract or, for the
claim, none; compaction and the clock change no reading. The step that needs an
invariant of its own is the effect: the contract allows it only while the record
is open or in doubt, and the ledger runs the tool without looking at the row
again. `HolderIsShown` says that while a call may run the tool its row is its own
dispatch or in doubt, `AnswersFollow` that nobody else has an answer with which
`reconcile_complete` could settle the row underneath it.

**Heartbeat.** `AuthorityExclusive` and `RetirementIsTerminal` hold for every lease
policy: whatever the lease, the margin and the attempt timeout are, an executor
that believes it owns the run is never contradicted by the row. The inductive
invariant `LeaseInv` adds what the executor's own variables do not show:
`LeaseCoversFence` (while it believes in its authority the row is ours or the run
has ended, and the lease outlives the local deadline by the margin),
`LeaseCoversAnswer` (so it will after an answer still to come: the deadline counts
from the start of the attempt, the lease from its execution), `ClosedIsInactive`
(the lease is released only by a heartbeat that has ended the authority) and
`ReceiptIsTerminal` (a receipt, and the retirement it causes, exist only where the
run has ended). `PolicyFacts` and
`RenewalWithinInterval` are the arithmetic of the saturating subtractions.

`RenewalBudget` (`BudgetSuffices`): in a full window, with a scheduler that keeps
within the slack, the heartbeat never gives up for want of time. The argument is
that of the policy's division by three (`WindowHoldsThreeAttempts`): one attempt's
time is gone before the deadline that it set is known, and two attempts and the
slack remain. `Reserve` states what remains at each place of the loop, less the
lag that is used up; `LoopShape` is what the loop, the mutex and the settlement
say of each other. A proof attempt showed that a late reading of an answer has to
count against the window that the answer opens, which the model now does.

**Approvals.** `InteractionInv` follows one request at a time (`Sound`): its record
bears the generation and control epoch its executor has read (`Signed`), nothing
read is newer than what there is (`Past`), a receipt that resumes was written
under the authority of the request (`Receipt`), an answer is queued only before
the wait (`QueuedBefore`), and what clients were told is one answer, still queued
or recorded (`Kept`). `LoadedAlike` is needed for a batch, whose calls are
registered together under one authority. `ApprovalIsCurrent` alone is not
inductive: it says nothing of a receipt that has not been read yet.

**Edge dispatch.** The right to send a row is a claim with one holder (`OneHolder`,
`ClaimedHolds`), used up by the first frame, and only that frame can run the tool
(`RightIsSpent`); result frames, completed rows and acknowledgements are true
(`ReportsAreTrue`, `AcksAreStored`), and an answer "not executed" is of a request
that can no longer be sent (`AnswersAreFinal`). A conflict refusal changes no row
and is, like in the property, not one of these answers. `AtMostOneDispatch`,
`TrueAnswers`, `DurableSuccess` and the action property `ForgettingIsSafe` follow.

**Edge pool.** A request lies with no connection but the one its caller has read,
and only once (`PlacedAtHome`, `OneCopy`); before the hand-over it has left no
trace (`EarlyIsUntouched`, which is what makes "not sent" true), and once it may
be cancelled on a connection it waits on none (`CancelFollows`). `WaiterAtHome`
ties each waiter to the map its caller has read: a reconnect that inherits the map
inherits the waiter.

**Edge journal.** What `replay_wal` computes is defined by recursion over the log.
The library's induction theorems take a predicate as a parameter; here induction is
over a *set* of numbers (`LeastNumber`, `Induction`), which needs none, and gives
what replay does with an empty log, a longer log, a shorter one and a log that a
newer snapshot covers. The invariant says that every snapshot that may survive reads
the visible log to the same state (`SnapshotsAgree`), that no surviving log reaches
beyond it (`LogsBounded`), that an open journal has that state in memory, one
mutation apart while it is being synced (`MemoryIsVisible`), and that the mutation
in progress keeps executions and reported results (`MutationKeepsExecution`,
`MutationKeepsResult`). From it follow `RecoveryTotal`, `ExecutionOnce` and
`ResultsSurvive`, for every combination of faults and every capacity.
`JournalRefines` is the refinement of `EdgeJournalContract`, with the records in
memory (or, while closed, the ones a reopening would read) as the abstract ones. A
redelivery is one of two legal changes: the record gets its new generation and keeps
its result, or the result is withdrawn in favour of an unknown outcome (`Withdrawn`,
the contract's `Withdraw`). The refinement needs further that the mutation in
progress is a legal one, that a fenced journal's files are at most one legal
mutation ahead of its memory, and that a power loss is in doubt only about that one
(`ChangesInv`). Like `ReportedResultSurvives` it is about behaviours with one kind
of restart: see section 5.

**Mailbox.** A confirmation that is owed is for a message the provider has seen or
will be shown before it is due (`OwedIsShown`), which gives `AcknowledgedWasConsumed`.
`ConfirmationNotAbandoned` needs the order of deliveries: what is parked, buffered
and in hand is in the order of its claims (`InLine`), and later than what is to be
confirmed (`OwedIsOldest`); a message is parked only while the context is full of what
nobody has seen (`ParkedWaits`), so no later delivery overtakes it there. The order
holds until `RetryDeferred` queues parked deliveries behind a peeked one;
that is when, and the only place where, a loop becomes `overtaken`
(`RetryFacts`), and from then on only the bounds by the last claim remain, which give
the property's exception.

**Only model-checked**: the liveness properties, which are beyond the prover:
`OrphanIsRecovered`, `CancelOfBlockingRunConverges`, `LedgerComesToRest`,
`LoserIsFenced`, `CancellationIsForwarded` and `DirectIsSettled`. And the
violations of `CancelConverges`, `RejectionMeansNotDispatched` and
`RetirementFreesRun`, which are behaviours.

## 8. What is not modelled

* Within the modelled parts: guidance bound to a native provider invocation
  (`apply_run_user_intents` with a dispatch owner); answers that release no wait
  any more, which only append a receipt; checkpoint contents; the retention of
  archive artifacts; the process-local ledger used without a database; the
  execution-binding generation of a call; the compactor's cursor. In the
  interaction protocol: questions of the ask_user tool, provider inputs,
  interactions of remote tool invocations and the in-memory store. On the edge
  path: provider-stage inputs, capacity requests, socket heartbeats, the HTTP
  callback route, the durable edge registry and `cleanup_stale`, which only tests
  call.
* In the run: a recovery for an execution hand-over parks the run and keeps owner and
  lease (`runs.rs:16519-16538`), where `SettleRecovered` always clears them. In the
  ledger: `seal_forced_takeover_effects` (`session_handoff.rs:1640-1652`), which marks
  rows unknown at a forced take-over of the session.
* In the interaction protocol: the refusals for want of an execution slot when a wait
  begins or a run is resumed (`runs.rs:21404-21419`, `22010-22021`), the bound of 1024
  on the requests one close handles (`12565-12572`), and the cancellation of a
  descendant, which needs neither a lease nor a marker of its own
  (`lifecycle/mod.rs:6636-6651`).
* On the edge path: the match of `materialization_id`
  (`edge_connection_pool.rs:1367-1374`, `1456-1463`), the refusal of a second active
  delivery of an invocation (`1754-1758`) and the cap per user; rejections of requests
  with an incomplete identity or invalid JSON, which never reach a row; the journal's
  refusals that write nothing (another identity under a known key, a request too
  large, a full journal, the state and log limits), the record too large that is
  committed again while opening (`invocation_journal.rs:368-385`), and restarts of both
  kinds in one behaviour for `ReportedResultSurvives` and the refinement.
* `executor[generation] \notin {"recovering", "retired"}` in `ResolveInteraction`
  stands for "the generation that asked is still the current one".
* Whole components: see `PROJECT.json`. User interfaces, tool implementations,
  the sandbox, MCP and the SDKs are input/output; session, work, inference and
  ingestion services are left for later.

## 9. Plan

1. (done) `RunAuthority`; `ToolInvocation` over it; `InvocationContract`; the
   theorems above.
2. (done) `OwnerLease`, `Interaction`, `EdgeDispatch`, `EdgePool`, `EdgeJournal`
   with `EdgeJournalContract`, `Mailbox`, model-checked.
3. (done) The safety properties of every module and the two refinements, as
   theorems.
4. Next: the assume-guarantee links between the edge modules. `EdgeDispatch` takes
   "certainly not sent" from the pool and one record per request from the journal
   contract; both are theorems of their own modules, but the composition of the
   three is an argument in section 2 and not a theorem.
5. Not planned: `SyncOutbox`, `SweeperLease`, `WeightedAdmission`, `Cooldown`,
   `CircuitBreaker` and `FanoutGroup` are small sequential machines or repeat the
   lease pattern of the modules above; sessions, work orchestration, inference
   records and ingestion are separate subsystems with their own tables.
