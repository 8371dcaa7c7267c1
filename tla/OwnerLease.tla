----------------------------- MODULE OwnerLease -----------------------------
(***************************************************************************)
(* The owner-lease heartbeat of one executor                               *)
(* (crates/runtime/src/server/run/engine.rs): the lease of the run's row,  *)
(* which other processes respect until it expires, and its process-local   *)
(* mirror, a deadline that model calls and terminal settlement consult     *)
(* instead of the database. The heartbeat renews the lease, shares a mutex *)
(* with terminal settlement and fences the executor when it may have lost  *)
(* the run.                                                                *)
(*                                                                         *)
(* Clocks are kept as the time that is left, in an arbitrary unit; the     *)
(* database and the process may disagree about the date, not about the     *)
(* length of a unit.                                                       *)
(***************************************************************************)
EXTENDS Integers

CONSTANTS
    LeaseDuration,      \* lease_ttl
    RenewalInterval,
    MaxAttemptWait,     \* OWNER_LEASE_MAX_ATTEMPT_WAIT
    MaxSlack,           \* OWNER_LEASE_MAX_SCHEDULING_SLACK
    MaxAttempts         \* OWNER_LEASE_MAX_ATTEMPTS

ASSUME LeaseAssumption ==
    /\ LeaseDuration \in Nat \ {0} /\ RenewalInterval \in Nat \ {0}
    /\ MaxAttemptWait \in Nat \ {0} /\ MaxSlack \in Nat \ {0} /\ MaxAttempts \in Nat \ {0}

Lesser(a, b) == IF a <= b THEN a ELSE b
Greater(a, b) == IF a >= b THEN a ELSE b
Minus(a, b) == Greater(a - b, 0)

-----------------------------------------------------------------------------
(* OwnerLeasePolicy *)

SafetyMargin == Lesser(RenewalInterval, LeaseDuration \div 2)
Slack == Lesser(MaxSlack, Greater(SafetyMargin \div 3, 1))
AttemptWait ==
    Greater(Lesser(MaxAttemptWait, Minus(Minus(LeaseDuration, SafetyMargin), Slack) \div 3), 1)
Window == Minus(LeaseDuration, SafetyMargin)

\* Mutant: only one attempt is reserved before the deadline.
NextRenewalSingle(left) ==
    Lesser(RenewalInterval, Minus(left, AttemptWait + Slack))

\* next_renewal_at: early enough for every attempt before the deadline
NextRenewal(left) ==
    Lesser(RenewalInterval, Minus(left, MaxAttempts * AttemptWait + Slack))

AttemptFits(left) == AttemptWait <= left

-----------------------------------------------------------------------------
VARIABLES
    owner,      \* owner of the row: "me", "none" or "other", which stands for a later generation
    lease,      \* time left until owner_lease_expires_at; -1 once it has passed
    ended,      \* the row is terminal
    cancelReq,  \* cancellation_requested_at is set
    fence,      \* time left until the local deadline
    active,     \* the local authority is active
    retired,    \* a terminal receipt has retired it
    changed,    \* the heartbeat has yet to see a change of the local authority
    hb,         \* what the heartbeat does
    next,       \* time left until the next renewal
    attempt,    \* number of the attempt under way
    age,        \* time since it began
    sql,        \* its UPDATE: "sent", "renewed" or "refused"
    late,       \* an UPDATE that was given up and may still run
    wait,       \* time left of the settlement grace, or of the wait for the executor
    why,        \* why the heartbeat left its loop
    lock,       \* holder of the operation mutex: "free", "hb" or "term"
    term,       \* terminal settlement: "none", "want", "open"
    termSql,    \* its transaction: "idle", "sent", or a terminal "receipt"
    exec,       \* the executor: "running", "dropping" its guard, "gone"
    lost,       \* execution_lease_lost is set and the executor is cancelled
    lag,        \* how long the heartbeat's task was kept from running in this window
    timely,     \* the scheduler keeps within the slack of the policy
    short       \* the window was not a full one, or a settlement held the mutex in it

row == <<owner, lease, ended, cancelReq>>
local == <<active, retired, changed>>
beat == <<hb, next, attempt, age, sql, late, wait, why>>
settlement == <<term, termSql>>
env == <<timely, short>>
vars == <<row, fence, local, beat, lock, settlement, exec, lost, lag, env>>

Looping == {"idle", "due", "attempt", "grace"}

\* The executor starts with a confirmed authority: the deadline of a start receipt,
\* of an activation renewal or of the heartbeat it shares, each anchored before the
\* write it stands for.
Init ==
    /\ fence \in 1..Window /\ lease \in (fence + SafetyMargin)..LeaseDuration
    /\ owner = "me" /\ ended = FALSE /\ cancelReq = FALSE
    /\ active = TRUE /\ retired = FALSE /\ changed = FALSE
    /\ hb = "idle" /\ next = NextRenewal(fence) /\ attempt = 0 /\ age = 0 /\ sql = "idle"
    /\ late = FALSE /\ wait = 0 /\ why = "none"
    /\ lock = "free" /\ term = "none" /\ termSql = "idle"
    /\ exec = "running" /\ lost = FALSE /\ lag = 0
    /\ timely \in BOOLEAN /\ short = (fence < Window - AttemptWait)

-----------------------------------------------------------------------------
(* Time *)

\* The heartbeat's task has something to do.
Ready ==
    \/ hb \in {"idle", "due"} /\ (fence = 0 \/ changed \/ exec = "gone")
    \/ hb = "idle" /\ next = 0
    \/ hb = "due" /\ lock = "free"
    \/ hb = "attempt" /\ age >= AttemptWait

Tick ==
    /\ timely /\ Ready => lag < Slack
    /\ lag' = IF timely /\ Ready THEN lag + 1 ELSE lag
    /\ lease' = Greater(lease - 1, -1)
    /\ fence' = Minus(fence, 1) /\ next' = Minus(next, 1) /\ wait' = Minus(wait, 1)
    /\ age' = IF hb = "attempt" THEN Lesser(age + 1, LeaseDuration) ELSE 0
    /\ UNCHANGED <<owner, ended, cancelReq, local, hb, attempt, sql, late, why, lock,
                   settlement, exec, lost, env>>

-----------------------------------------------------------------------------
(* The row *)

\* renew_owner_lease matches the row
Renewable == owner = "me" /\ lease >= 0 /\ ~ended /\ ~cancelReq

RenewRuns ==
    /\ hb = "attempt" /\ sql = "sent"
    /\ sql' = IF Renewable THEN "renewed" ELSE "refused"
    /\ lease' = IF Renewable THEN LeaseDuration ELSE lease
    /\ UNCHANGED <<owner, ended, cancelReq, fence, local, hb, next, attempt, age, late, wait,
                   why, lock, settlement, exec, lost, lag, env>>

\* An UPDATE whose caller has given up runs after all.
LateRenewRuns ==
    /\ late /\ late' = FALSE
    /\ lease' = IF Renewable THEN LeaseDuration ELSE lease
    /\ UNCHANGED <<owner, ended, cancelReq, fence, local, hb, next, attempt, age, sql, wait,
                   why, lock, settlement, exec, lost, lag, env>>

RequestCancellation ==
    /\ ~cancelReq /\ ~ended /\ cancelReq' = TRUE
    /\ UNCHANGED <<owner, lease, ended, fence, local, beat, lock, settlement, exec, lost, lag, env>>

\* The recovery sweep of another process claims the run (module RunAuthority).
ClaimRecovery ==
    /\ ~ended /\ owner # "other" /\ (owner = "none" \/ lease < 0)
    /\ owner' = "other"
    /\ UNCHANGED <<lease, ended, cancelReq, fence, local, beat, lock, settlement, exec, lost,
                   lag, env>>

\* Another process ends the run, in whatever generation: a cancel of a run that does
\* not own itself, or a settlement that clears the owner.
EndElsewhere ==
    /\ ~ended /\ ended' = TRUE
    /\ owner' \in {owner, IF owner = "me" THEN "none" ELSE owner}
    /\ UNCHANGED <<lease, cancelReq, fence, local, beat, lock, settlement, exec, lost, lag, env>>

-----------------------------------------------------------------------------
(* start_owner_lease_heartbeat *)

\* The select is biased: the executor's exit first, then the deadline, then a
\* change of the authority, then the timer and the mutex.
Selecting == hb \in {"idle", "due"} /\ exec # "gone"

LeaveLoop(reason) ==
    /\ hb' = "closing" /\ why' = reason
    /\ lock' = IF lock = "hb" THEN "free" ELSE lock
    /\ late' = (late \/ (hb = "attempt" /\ sql = "sent"))
    /\ next' = 0 /\ attempt' = 0 /\ age' = 0 /\ sql' = "idle" /\ wait' = 0

HbStop ==
    /\ hb \in Looping /\ exec = "gone"
    /\ LeaveLoop("exit")
    /\ UNCHANGED <<row, fence, local, settlement, exec, lost, lag, env>>

\* Mutant: while the heartbeat waits for the mutex it does not watch the deadline.
HbFenceWhenIdle ==
    /\ Selecting /\ hb = "idle" /\ fence = 0 /\ term # "open"
    /\ LeaveLoop(IF retired THEN "retired" ELSE "fence")
    /\ UNCHANGED <<row, fence, local, settlement, exec, lost, lag, env>>

\* The deadline passes.
HbFence ==
    /\ Selecting /\ fence = 0 /\ term # "open"
    /\ LeaveLoop(IF retired THEN "retired" ELSE "fence")
    /\ UNCHANGED <<row, fence, local, settlement, exec, lost, lag, env>>

\* The deadline passes while a settlement is under way: it gets the safety margin.
HbGrace ==
    /\ Selecting /\ fence = 0 /\ term = "open"
    /\ hb' = "grace" /\ wait' = SafetyMargin /\ next' = 0
    /\ UNCHANGED <<row, fence, local, attempt, age, sql, late, why, lock, settlement,
                   exec, lost, lag, env>>

HbGraceEnds ==
    /\ hb = "grace" /\ exec # "gone" /\ (term # "open" \/ wait = 0)
    /\ LeaveLoop(IF term # "open" /\ retired THEN "retired" ELSE "fence")
    /\ UNCHANGED <<row, fence, local, settlement, exec, lost, lag, env>>

HbChanged ==
    /\ Selecting /\ fence > 0 /\ changed /\ active
    /\ changed' = FALSE /\ hb' = "idle" /\ next' = NextRenewal(fence)
    /\ UNCHANGED <<row, fence, active, retired, attempt, age, sql, late, wait, why, lock,
                   settlement, exec, lost, lag, env>>

HbInactive ==
    /\ Selecting /\ fence > 0 /\ ~active /\ (changed \/ (hb = "due" /\ lock = "free"))
    /\ LeaveLoop(IF retired THEN "retired" ELSE "dropped")
    /\ UNCHANGED <<row, fence, local, settlement, exec, lost, lag, env>>

HbDue ==
    /\ Selecting /\ hb = "idle" /\ fence > 0 /\ ~changed /\ next = 0
    /\ hb' = "due"
    /\ UNCHANGED <<row, fence, local, next, attempt, age, sql, late, wait, why, lock,
                   settlement, exec, lost, lag, env>>

BeginAttempt(n) ==
    /\ hb' = "attempt" /\ lock' = "hb" /\ attempt' = n /\ age' = 0 /\ sql' = "sent"
    /\ UNCHANGED <<next, wait, why>>

\* The mutex is taken and the first attempt begins.
HbAttempt ==
    /\ Selecting /\ hb = "due" /\ fence > 0 /\ ~changed /\ active /\ lock = "free"
    /\ \/ AttemptFits(fence) /\ BeginAttempt(1) /\ UNCHANGED late
       \/ ~AttemptFits(fence) /\ LeaveLoop("budget")
    /\ UNCHANGED <<row, fence, local, settlement, exec, lost, lag, env>>

\* Mutant: the new deadline is counted from the answer.
HbRenewedFromAnswer ==
    /\ hb = "attempt" /\ sql = "renewed" /\ exec # "gone"
    /\ fence' = Window /\ next' = NextRenewal(fence')
    /\ hb' = "idle" /\ lock' = "free" /\ changed' = FALSE /\ short' = FALSE
    /\ lag' = Lesser(lag, Minus(age, AttemptWait))
    /\ attempt' = 0 /\ age' = 0 /\ sql' = "idle"
    /\ UNCHANGED <<row, active, retired, late, wait, why, settlement, exec,
                   lost, timely>>

\* The answer to a renewal: the new deadline is counted from the attempt's start, and
\* the slack the heartbeat used up in reading the answer late is the new window's.
HbRenewed ==
    /\ hb = "attempt" /\ sql = "renewed" /\ exec # "gone"
    /\ fence' = Minus(Window, age) /\ next' = NextRenewal(fence')
    /\ hb' = "idle" /\ lock' = "free" /\ changed' = FALSE /\ short' = FALSE
    /\ lag' = Lesser(lag, Minus(age, AttemptWait))
    /\ attempt' = 0 /\ age' = 0 /\ sql' = "idle"
    /\ UNCHANGED <<row, active, retired, late, wait, why, settlement, exec,
                   lost, timely>>

HbRefused ==
    /\ hb = "attempt" /\ sql = "refused" /\ exec # "gone"
    /\ LeaveLoop("refused")
    /\ UNCHANGED <<row, fence, local, settlement, exec, lost, lag, env>>

\* Mutant: attempts go on as long as they fit.
HbAttemptFailsAgain ==
    /\ hb = "attempt" /\ exec # "gone"
    /\ \/ /\ AttemptFits(fence)
          /\ BeginAttempt(attempt + 1)
          /\ late' = (late \/ sql = "sent")
       \/ ~AttemptFits(fence) /\ LeaveLoop("budget")
    /\ UNCHANGED <<row, fence, local, settlement, exec, lost, lag, env>>

\* The attempt fails or times out, whatever became of its UPDATE. There is one
\* retry, if a whole attempt still fits.
HbAttemptFails ==
    /\ hb = "attempt" /\ exec # "gone"
    /\ \/ /\ attempt < MaxAttempts /\ AttemptFits(fence)
          /\ BeginAttempt(attempt + 1)
          /\ late' = (late \/ sql = "sent")
       \/ /\ attempt < MaxAttempts /\ ~AttemptFits(fence)
          /\ LeaveLoop("budget")
       \/ attempt = MaxAttempts /\ LeaveLoop("attempts")
    /\ UNCHANGED <<row, fence, local, settlement, exec, lost, lag, env>>

\* After the loop: the authority is deactivated, and the executor told if the run
\* may be lost. The lease is kept until the executor has gone.
HbClose ==
    /\ hb = "closing"
    /\ active' = FALSE
    /\ lost' = (lost \/ why \in {"fence", "budget", "refused", "attempts"})
    /\ hb' = IF why = "exit" THEN (IF retired THEN "done" ELSE "release")
             ELSE IF lost' \/ retired THEN "awaiting" ELSE "release"
    /\ wait' = LeaseDuration
    /\ UNCHANGED <<row, fence, retired, changed, next, attempt, age, sql, late, why, lock,
                   settlement, exec, lag, env>>

HbAwaited ==
    /\ hb = "awaiting" /\ (exec = "gone" \/ wait = 0)
    /\ hb' = IF exec = "gone" /\ ~retired THEN "release" ELSE "done"
    /\ UNCHANGED <<row, fence, local, next, attempt, age, sql, late, wait, why, lock,
                   settlement, exec, lost, lag, env>>

\* release_owner_lease, which may be lost, or run after the heartbeat has given up
HbRelease ==
    /\ hb = "release" /\ hb' = "done"
    /\ owner' \in {owner, IF owner = "me" THEN "none" ELSE owner}
    /\ UNCHANGED <<lease, ended, cancelReq, fence, local, next, attempt, age, sql, late, wait,
                   why, lock, settlement, exec, lost, lag, env>>

-----------------------------------------------------------------------------
(* RunOwnerLeaseTerminalAuthority and RunOwnerLeaseTerminalOperation *)

Authorized == active /\ fence > 0

TermBegin ==
    /\ exec = "running" /\ term = "none" /\ Authorized
    /\ term' = "want"
    /\ UNCHANGED <<row, fence, local, beat, lock, termSql, exec, lost, lag, env>>

\* The mutex is taken and the authority looked at again.
TermOpen ==
    /\ term = "want" /\ lock = "free" /\ Authorized
    /\ term' = "open" /\ lock' = "term" /\ changed' = TRUE /\ short' = TRUE
    /\ UNCHANGED <<row, fence, active, retired, beat, termSql, exec, lost, lag, timely>>

\* The wait for the mutex times out, or the authority is gone.
TermGivesUp ==
    /\ term = "want" /\ term' = "none"
    /\ UNCHANGED <<row, fence, local, beat, lock, termSql, exec, lost, lag, env>>

TermSend ==
    /\ term = "open" /\ termSql = "idle" /\ termSql' = "sent"
    /\ UNCHANGED <<row, fence, local, beat, lock, term, exec, lost, lag, env>>

\* The transaction takes effect under the generation and the live lease, or not at
\* all; its answer may be lost, or its caller have given up. The canonical terminal and the cancel of the
\* exact owner clear the owner; the guarded change of status keeps it.
TermCommits ==
    /\ termSql = "sent"
    /\ \/ /\ owner = "me" /\ lease >= 0 /\ ~ended
          /\ termSql' \in (IF term = "open" THEN {"receipt", "idle"} ELSE {"idle"})
          /\ ended' = TRUE /\ owner' \in {"me", "none"}
       \/ termSql' = "idle" /\ UNCHANGED <<ended, owner>>
    /\ UNCHANGED <<lease, cancelReq, fence, local, beat, lock, term, exec, lost, lag, env>>

\* The transaction lost, or its answer did, and the row is read again: somebody has
\* ended the run in this generation.
TermSuperseded ==
    /\ term = "open" /\ termSql # "receipt" /\ ended /\ owner # "other"
    /\ termSql' = "receipt"
    /\ UNCHANGED <<row, fence, local, beat, lock, term, exec, lost, lag, env>>

\* Mutant: the authority is retired once the transaction is sent.
TermRetireEarly ==
    /\ term = "open" /\ termSql # "idle"
    /\ term' = "none" /\ lock' = "free" /\ changed' = TRUE
    /\ active' = FALSE /\ retired' = (retired \/ active) /\ termSql' = "idle"
    /\ UNCHANGED <<row, fence, beat, exec, lost, lag, env>>

\* retire: a receipt of this generation's terminal, whoever committed it
TermRetire ==
    /\ term = "open" /\ termSql = "receipt"
    /\ term' = "none" /\ lock' = "free" /\ changed' = TRUE
    /\ active' = FALSE /\ retired' = (retired \/ active) /\ termSql' = "idle"
    /\ UNCHANGED <<row, fence, beat, exec, lost, lag, env>>

\* Not committed, or nobody knows: the operation is dropped.
TermDrop ==
    /\ term = "open" /\ termSql # "receipt"
    /\ term' = "none" /\ lock' = "free" /\ changed' = TRUE
    /\ UNCHANGED <<row, fence, active, retired, beat, termSql, exec, lost, lag, env>>

-----------------------------------------------------------------------------
(* The executor *)

\* The guard is dropped: the authority first, then the stop signal.
ExecDrops ==
    /\ exec = "running" /\ term = "none"
    /\ exec' = "dropping" /\ active' = FALSE /\ changed' = TRUE
    /\ UNCHANGED <<row, fence, retired, beat, lock, settlement, lost, lag, env>>

ExecStops ==
    /\ exec = "dropping" /\ exec' = "gone"
    /\ UNCHANGED <<row, fence, local, beat, lock, settlement, lost, lag, env>>

\* The process dies.
Crash ==
    /\ hb # "done"
    /\ hb' = "done" /\ exec' = "gone" /\ active' = FALSE /\ lock' = "free" /\ term' = "none"
    /\ late' = (late \/ (hb = "attempt" /\ sql = "sent"))
    /\ next' = 0 /\ attempt' = 0 /\ age' = 0 /\ sql' = "idle" /\ wait' = 0
    /\ termSql' = IF termSql = "sent" THEN "sent" ELSE "idle"
    /\ UNCHANGED <<row, fence, retired, changed, why, lost, lag, env>>

-----------------------------------------------------------------------------
HbStep ==
    \/ HbStop \/ HbFence \/ HbGrace \/ HbGraceEnds \/ HbChanged \/ HbInactive \/ HbDue
    \/ HbAttempt \/ HbRenewed \/ HbRefused \/ HbAttemptFails \/ HbClose \/ HbAwaited \/ HbRelease

Next ==
    \/ Tick \/ RenewRuns \/ LateRenewRuns \/ RequestCancellation \/ ClaimRecovery
    \/ EndElsewhere
    \/ HbStep
    \/ TermBegin \/ TermOpen \/ TermGivesUp \/ TermSend \/ TermCommits \/ TermSuperseded
    \/ TermRetire \/ TermDrop
    \/ ExecDrops \/ ExecStops \/ Crash

Spec == Init /\ [][Next]_vars

\* Time passes and the heartbeat's task runs. Nothing is assumed of the database,
\* of terminal settlement or of the executor.
LiveSpec == Spec /\ WF_vars(Tick) /\ WF_vars(HbStep)

-----------------------------------------------------------------------------
\* The state is well formed: no clock runs past its range and no renewal takes more
\* attempts than the policy reserves time for.
LeaseTypeOK ==
    /\ owner \in {"me", "other", "none"} /\ lease \in -1..LeaseDuration
    /\ ended \in BOOLEAN /\ cancelReq \in BOOLEAN
    /\ fence \in 0..Window /\ active \in BOOLEAN /\ retired \in BOOLEAN /\ changed \in BOOLEAN
    /\ hb \in Looping \cup {"closing", "awaiting", "release", "done"}
    /\ next \in 0..RenewalInterval /\ attempt \in 0..MaxAttempts /\ age \in 0..LeaseDuration
    /\ sql \in {"idle", "sent", "renewed", "refused"} /\ late \in BOOLEAN
    /\ wait \in 0..LeaseDuration
    /\ lock \in {"free", "hb", "term"} /\ term \in {"none", "want", "open"}
    /\ termSql \in {"idle", "sent", "receipt"} /\ exec \in {"running", "dropping", "gone"}
    /\ lost \in BOOLEAN /\ lag \in 0..Slack /\ timely \in BOOLEAN /\ short \in BOOLEAN

\* While the local authority would let the executor call a model or settle the run,
\* nobody else owns it: however slow the renewals, however late their answers and
\* the heartbeat itself, the local deadline never outlives the lease in the row.
AuthorityIsExclusive == Authorized => owner # "other"

\* A scheduler that keeps within the policy's slack never makes the heartbeat give
\* up a run for want of time: after every renewal there is time for all attempts,
\* each with its full timeout.
BudgetSuffices == timely /\ ~short => why \notin {"budget", "fence"}

\* A heartbeat that skips the release because a receipt retired its authority
\* leaves behind no live run, which nobody could recover until the lease expires:
\* whatever the settlement's answers and whoever ended the run, it has ended.
RetiredIsEnded == retired => ended

\* The comment on the skipped release in start_owner_lease_heartbeat: the receipt has
\* cleared the owner in the row.
RetirementFreesRun == retired => owner # "me"

\* An executor whose run was claimed by another process is told so, or has gone,
\* even if a settlement keeps the mutex for ever or the database never answers.
LoserIsFenced == owner = "other" ~> (lost \/ exec # "running")
=============================================================================
