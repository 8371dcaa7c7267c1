---------------------------- MODULE EdgeJournal ----------------------------
(***************************************************************************)
(* The edge process's invocation journal: a snapshot file, a write-ahead   *)
(* log of numbered mutations, and the protocol that appends, syncs,        *)
(* replays and compacts them (crates/astra-edge/src/invocation_journal.rs),*)
(* together with the custody the connection owner keeps around it          *)
(* (crates/astra-edge/src/lib.rs): the fence after an I/O error, the       *)
(* running tool tasks, and the replay of unacknowledged results.           *)
(*                                                                         *)
(* What the disk may hold after a power loss is a set: snapCrash holds the *)
(* snapshots and walCrash the logs that may survive. A write adds a        *)
(* candidate, a sync leaves only what is visible.                          *)
(***************************************************************************)
EXTENDS Naturals, Sequences, FiniteSets

CONSTANTS
    Requests,        \* tool requests the server may deliver
    MaxGen,          \* bound: delivery generations
    MaxRecords,      \* MAX_RECORDS
    WalCapacity,     \* MAX_WAL_BYTES, in entries
    CompactAt,       \* WAL_COMPACTION_ENTRY_THRESHOLD
    MaxSeq,          \* bound: journal mutations in a behaviour
    FaultModels      \* sets of faults, one of which a behaviour is exposed to

ASSUME JournalAssumption ==
    /\ IsFiniteSet(Requests)
    /\ MaxGen \in Nat /\ MaxRecords \in Nat \ {0}
    /\ WalCapacity \in Nat \ {0} /\ CompactAt \in Nat \ {0} /\ MaxSeq \in Nat
    /\ FaultModels \subseteq SUBSET {"exit", "power", "write", "sync"}

VARIABLES
    faults,     \* the faults that may happen in this behaviour
    phase,      \* "closed" | "recovering" | "open" | "fenced" | "corrupt"
    mem,        \* JournalFile in memory: [seq |-> last_sequence, recs |-> records]
    snap,       \* the snapshot file a reader sees
    snapCrash,  \* snapshots a power loss may leave
    wal,        \* the log a reader sees
    walCrash,   \* logs a power loss may leave
    torn,       \* the visible log ends in an incomplete line
    op,         \* the journal call in progress and its next I/O step
    tasks,      \* requests whose tool task is running or has an unread completion
    told,       \* results sent to the server and not yet acknowledged
    runs        \* executions of a request since its last acknowledgement

diskVars == <<snap, snapCrash, wal, walCrash, torn>>
vars == <<faults, phase, mem, snap, snapCrash, wal, walCrash, torn, op, tasks, told, runs>>

Gens == 1..MaxGen
Terminal == {"completed", "unknown"}
Results == {"done", "unknown", "rejected"}

NoRecord == [state |-> "absent", gen |-> 0, exec |-> 0, result |-> "none"]
Record == [state: {"running"} \cup Terminal, gen: Gens, exec: 0..MaxGen,
           result: Results \cup {"none"}]

Idle == [kind |-> "idle", step |-> "none", id |-> "none", rec |-> NoRecord]

(***************************************************************************)
(* replay_wal: apply the entries above the snapshot's sequence in order.   *)
(* A line that is not a mutation, and a gap in the numbering, are corrupt. *)
(***************************************************************************)
Corrupt == [seq |-> 0, recs |-> [r \in Requests |-> NoRecord], ok |-> FALSE]

ApplyEntry(state, e) ==
    IF ~state.ok \/ (~e.garbage /\ e.seq <= state.seq) THEN state
    ELSE IF ~e.garbage /\ e.seq = state.seq + 1
           THEN [state EXCEPT !.seq = e.seq, !.recs[e.id] = e.rec]
           ELSE Corrupt

replay_wal(snapshot, log) ==
    LET upTo[n \in 0..Len(log)] ==
            IF n = 0 THEN [seq |-> snapshot.seq, recs |-> snapshot.recs, ok |-> TRUE]
                     ELSE ApplyEntry(upTo[n - 1], log[n])
    IN  upTo[Len(log)]

\* Everything a restart may find: after a power loss any surviving pair, after
\* a process exit the pair a reader sees.
Recoveries == {replay_wal(s, w) : s \in snapCrash, w \in walCrash}
                 \cup {replay_wal(snap, wal)}

\* A line that was read before it was synced is not durable: restarts are of one
\* kind when none that leaves unsynced lines readable can precede a power loss.
OneKindOfRestart == ~("power" \in faults /\ faults \cap {"exit", "sync"} # {})
Bound == IF OneKindOfRestart THEN MaxSeq ELSE MaxSeq - 1

Live(recs) == {r \in Requests : recs[r] # NoRecord}

Init ==
    /\ faults \in FaultModels
    /\ phase = "closed"
    /\ mem = [seq |-> 0, recs |-> [r \in Requests |-> NoRecord]]
    /\ snap = mem /\ snapCrash = {mem}
    /\ wal = <<>> /\ walCrash = {<<>>} /\ torn = FALSE
    /\ op = Idle /\ tasks = {} /\ told = {} /\ runs = [r \in Requests |-> 0]

-----------------------------------------------------------------------------
(* commit_record and compact, one I/O operation per step *)

\* Mutant: the log is allowed one entry more than it may hold
CommitOneTooMany(kind, r, rec) ==
    op' = [kind |-> kind, id |-> r, rec |-> rec,
           step |-> IF Len(wal) > WalCapacity THEN "rename" ELSE "append"]

\* The commit_record call of a journal operation: compact first when the line
\* would not fit, otherwise append.
Commit(kind, r, rec) ==
    op' = [kind |-> kind, id |-> r, rec |-> rec,
           step |-> IF Len(wal) + 1 > WalCapacity THEN "rename" ELSE "append"]

Entry == [seq |-> mem.seq + 1, id |-> op.id, rec |-> op.rec, garbage |-> torn]

\* wal.write_all(&line)
WriteLine ==
    /\ op.step = "append"
    /\ wal' = Append(wal, Entry)
    /\ walCrash' = walCrash \cup {wal'}
    /\ torn' = FALSE
    /\ op' = [op EXCEPT !.step = "sync"]
    /\ UNCHANGED <<phase, mem, snap, snapCrash, tasks, told, runs>>

Message(r, rec) == [id |-> r, gen |-> rec.gen, result |-> rec.result]

\* What the caller of commit_record does once the mutation is durable: a new
\* running record starts its task, or is completed at once as not dispatched
\* when its deadline has passed; a terminal record is sent to the server; a
\* removal may be followed by a compaction.
Respond ==
    CASE op.kind = "admit" ->
            \/ /\ tasks' = tasks \cup {op.id}
               /\ runs' = [runs EXCEPT ![op.id] = @ + 1]
               /\ op' = Idle
               /\ UNCHANGED told
            \/ /\ Commit("complete", op.id,
                         [op.rec EXCEPT !.state = "completed", !.result = "rejected"])
               /\ UNCHANGED <<tasks, told, runs>>
      [] op.kind \in {"redeliver", "complete"} ->
            /\ told' = IF op.rec.state \in Terminal
                         THEN told \cup {Message(op.id, op.rec)} ELSE told
            /\ op' = Idle
            /\ UNCHANGED <<tasks, runs>>
      [] op.kind = "ack" ->
            /\ op' = IF Len(wal) >= CompactAt
                       THEN [Idle EXCEPT !.kind = "compact", !.step = "rename"] ELSE Idle
            /\ UNCHANGED <<tasks, told, runs>>
      [] op.kind = "recover" ->
            op' = Idle /\ UNCHANGED <<tasks, told, runs>>

\* Mutant: the caller is answered before the line is synced
SyncLineUnsynced ==
    /\ op.step = "sync"
    /\ mem' = [seq |-> mem.seq + 1, recs |-> [mem.recs EXCEPT ![op.id] = op.rec]]
    /\ Respond
    /\ UNCHANGED <<phase, snap, snapCrash, wal, walCrash, torn>>

\* wal.sync_data(), then the in-memory state moves to the new sequence
SyncLine ==
    /\ op.step = "sync"
    /\ walCrash' = {wal}
    /\ mem' = [seq |-> mem.seq + 1, recs |-> [mem.recs EXCEPT ![op.id] = op.rec]]
    /\ Respond
    /\ UNCHANGED <<phase, snap, snapCrash, wal, torn>>

\* Mutant: the log is truncated without syncing the directory first
RenameSnapshotUnsynced ==
    /\ op.step = "rename"
    /\ snap' = mem
    /\ snapCrash' = snapCrash \cup {mem}
    /\ op' = [op EXCEPT !.step = "truncate"]
    /\ UNCHANGED <<phase, mem, wal, walCrash, torn, tasks, told, runs>>

\* compact: rename the synced temporary file over the snapshot
RenameSnapshot ==
    /\ op.step = "rename"
    /\ snap' = mem
    /\ snapCrash' = snapCrash \cup {mem}
    /\ op' = [op EXCEPT !.step = "dirsync"]
    /\ UNCHANGED <<phase, mem, wal, walCrash, torn, tasks, told, runs>>

\* compact: sync_directory(parent)
SyncDirectory ==
    /\ op.step = "dirsync"
    /\ snapCrash' = {snap}
    /\ op' = [op EXCEPT !.step = "truncate"]
    /\ UNCHANGED <<phase, mem, snap, wal, walCrash, torn, tasks, told, runs>>

\* compact: wal.set_len(0)
TruncateWal ==
    /\ op.step = "truncate"
    /\ wal' = <<>>
    /\ walCrash' = walCrash \cup {<<>>}
    /\ op' = [op EXCEPT !.step = "truncsync"]
    /\ UNCHANGED <<phase, mem, snap, snapCrash, torn, tasks, told, runs>>

\* compact: wal.sync_data(); a commit that had to make room now appends
SyncTruncation ==
    /\ op.step = "truncsync"
    /\ walCrash' = {wal}
    /\ op' = IF op.kind = "compact" THEN Idle ELSE [op EXCEPT !.step = "append"]
    /\ UNCHANGED <<phase, mem, snap, snapCrash, wal, torn, tasks, told, runs>>

Compaction == RenameSnapshot \/ SyncDirectory \/ TruncateWal \/ SyncTruncation

\* Mutant: the journal stays writable after an I/O error
IoErrorUnfenced ==
    /\ op' = Idle
    /\ UNCHANGED <<phase, mem, snap, snapCrash, wal, walCrash, tasks, told, runs>>

\* JournalError::Io: the call returns early. An error in open leaves the
\* journal closed; a later one fences the owner (journal_writable = false).
IoError ==
    /\ phase' = IF phase = "recovering" THEN "closed" ELSE "fenced"
    /\ op' = Idle
    /\ UNCHANGED <<mem, snap, snapCrash, wal, walCrash, tasks, told, runs>>

\* write_all fails: nothing, or a part of the line, is in the log.
WriteFails ==
    /\ "write" \in faults
    /\ op.step = "append"
    /\ torn' \in {torn, TRUE}
    /\ IoError

\* A sync fails: what was written stays visible and may or may not survive.
SyncFails ==
    /\ "sync" \in faults
    /\ op.step \in {"sync", "dirsync", "truncsync"}
    /\ IoError
    /\ UNCHANGED torn

-----------------------------------------------------------------------------
(* The journal's operations *)

Ready == phase = "open" /\ op = Idle
Room(n) == mem.seq + n <= Bound

\* EdgeInvocationJournal::prepare for a request the journal does not know. With
\* no execution permit the record is born completed with a rejection.
Admit(r, g) ==
    /\ Ready /\ Room(2)   \* an admission may take two mutations
    /\ mem.recs[r] = NoRecord
    /\ Cardinality(Live(mem.recs)) < MaxRecords
    /\ \/ Commit("admit", r, [state |-> "running", gen |-> g, exec |-> g, result |-> "none"])
       \/ Commit("redeliver", r,
                 [state |-> "completed", gen |-> g, exec |-> 0, result |-> "rejected"])
    /\ UNCHANGED <<phase, mem, diskVars, tasks, told, runs>>

\* prepare for a known request: adopt the delivery's generation, then join the
\* running task or answer with the stored result. A later generation makes a
\* longer envelope: commit_record replaces a result that no longer fits by the
\* evidence that the outcome is unknown.
Redeliver(r, g) ==
    /\ Ready /\ Room(2)
    /\ mem.recs[r] # NoRecord
    /\ \/ Commit("redeliver", r, [mem.recs[r] EXCEPT !.gen = g])
       \/ /\ mem.recs[r].result = "done" /\ g > mem.recs[r].gen
          /\ Commit("redeliver", r,
                    [mem.recs[r] EXCEPT !.gen = g, !.state = "unknown", !.result = "unknown"])
    /\ UNCHANGED <<phase, mem, diskVars, tasks, told, runs>>

\* finish_if_current and complete: the task's result, or, when it does not fit
\* the transport, the evidence that the outcome is unknown.
Complete(r) ==
    /\ Ready /\ Room(1)
    /\ r \in tasks
    /\ mem.recs[r].state = "running"
    /\ \/ Commit("complete", r, [mem.recs[r] EXCEPT !.state = "completed", !.result = "done"])
       \/ Commit("complete", r, [mem.recs[r] EXCEPT !.state = "unknown", !.result = "unknown"])
    /\ tasks' = tasks \ {r}
    /\ UNCHANGED <<phase, mem, diskVars, told, runs>>

\* acknowledge: the server has made the result durable. Another generation's
\* acknowledgement is ignored.
Acknowledge(r, g) ==
    /\ Ready /\ Room(1)
    /\ \E m \in told : m.id = r /\ m.gen = g
    /\ mem.recs[r].gen = g /\ mem.recs[r].state \in Terminal
    /\ Commit("ack", r, NoRecord)
    /\ told' = {m \in told : m.id # r}
    /\ runs' = [runs EXCEPT ![r] = 0]
    /\ UNCHANGED <<phase, mem, diskVars, tasks>>

\* A new connection starts by sending every stored result.
ReplayPending ==
    /\ Ready
    /\ told' = told \cup {Message(r, mem.recs[r]) :
                            r \in {x \in Requests : mem.recs[x].state \in Terminal}}
    /\ told' # told
    /\ UNCHANGED <<phase, mem, diskVars, op, tasks, runs>>

\* The owner is dropped: its tasks are joined and, under the fence, their
\* completions discarded.
Close ==
    /\ \/ phase = "fenced"
       \/ phase = "open" /\ op = Idle /\ tasks = {}
    /\ phase' = "closed"
    /\ tasks' = {}
    /\ UNCHANGED <<mem, diskVars, op, told, runs>>

\* open: read the snapshot, replay the log, cut an incomplete last line.
Open ==
    /\ phase = "closed"
    /\ LET found == replay_wal(snap, wal) IN
         IF found.ok
           THEN /\ phase' = "recovering"
                /\ mem' = [seq |-> found.seq, recs |-> found.recs]
           ELSE /\ phase' = "corrupt" /\ UNCHANGED mem
    /\ torn' = FALSE
    /\ walCrash' = IF torn THEN {wal} ELSE walCrash
    /\ UNCHANGED <<snap, snapCrash, wal, op, tasks, told, runs>>

\* Mutant: recovery drops a running record instead of keeping the evidence
RecoverRunningForgetting(r) ==
    /\ phase = "recovering" /\ op = Idle /\ Room(1)
    /\ mem.recs[r].state = "running"
    /\ Commit("recover", r, NoRecord)
    /\ UNCHANGED <<phase, mem, diskVars, tasks, told, runs>>

\* open: a record that is still running has lost its process.
RecoverRunning(r) ==
    /\ phase = "recovering" /\ op = Idle /\ Room(1)
    /\ mem.recs[r].state = "running"
    /\ Commit("recover", r, [mem.recs[r] EXCEPT !.state = "unknown", !.result = "unknown"])
    /\ UNCHANGED <<phase, mem, diskVars, tasks, told, runs>>

\* open: no running record is left; compact if the log has grown.
Opened ==
    /\ phase = "recovering" /\ op = Idle
    /\ \A r \in Requests : mem.recs[r].state # "running"
    /\ phase' = "open"
    /\ op' = IF Len(wal) >= CompactAt
               THEN [Idle EXCEPT !.kind = "compact", !.step = "rename"] ELSE Idle
    /\ UNCHANGED <<mem, diskVars, tasks, told, runs>>

\* The process dies; the files keep what a reader saw.
ProcessExit ==
    /\ "exit" \in faults
    /\ phase \in {"recovering", "open", "fenced"}
    /\ phase' = "closed" /\ op' = Idle /\ tasks' = {}
    /\ UNCHANGED <<mem, diskVars, told, runs>>

\* The machine dies; the disk keeps one of the candidates of each file.
PowerLoss ==
    /\ "power" \in faults
    /\ phase # "corrupt"
    /\ phase' = "closed" /\ op' = Idle /\ tasks' = {}
    /\ snap' \in snapCrash /\ snapCrash' = {snap'}
    /\ wal' \in walCrash /\ walCrash' = {wal'}
    /\ torn' = FALSE
    /\ UNCHANGED <<mem, told, runs>>

Step ==
    \/ WriteLine \/ SyncLine \/ Compaction
    \/ WriteFails \/ SyncFails
    \/ \E r \in Requests, g \in Gens : Admit(r, g) \/ Redeliver(r, g) \/ Acknowledge(r, g)
    \/ \E r \in Requests : Complete(r) \/ RecoverRunning(r)
    \/ ReplayPending \/ Close \/ Open \/ Opened
    \/ ProcessExit \/ PowerLoss

Next == Step /\ UNCHANGED faults

Spec == Init /\ [][Next]_vars

-----------------------------------------------------------------------------
\* The journal's files, its call in progress and its history are well formed, and
\* the log never holds more than its capacity (commit_record compacts first).
JournalTypeOK ==
    /\ phase \in {"closed", "recovering", "open", "fenced", "corrupt"}
    /\ mem.seq \in 0..MaxSeq /\ mem.recs \in [Requests -> Record \cup {NoRecord}]
    /\ torn \in BOOLEAN /\ tasks \subseteq Requests
    /\ Len(wal) <= WalCapacity
    /\ snapCrash # {} /\ walCrash # {}
    /\ told \subseteq [id: Requests, gen: Gens, result: Results]
    /\ runs \in [Requests -> Nat]

\* Whatever a crash leaves on disk, replay_wal reads it without a gap, a merged
\* line or a duplicate: invocation_journal.rs's open never reports corruption
\* of its own making.
RecoveryIsTotal == \A s \in Recoveries : s.ok

\* A tool runs at most once between two acknowledgements, and once it has
\* started every possible restart finds a record of it that says so: prepare
\* commits the running record before the task is spawned.
ExecutedAtMostOnce ==
    \A r \in Requests :
        /\ runs[r] <= 1
        /\ runs[r] = 1 => \A s \in Recoveries :
                             s.recs[r] # NoRecord /\ s.recs[r].exec # 0

\* After any restart a request whose result the server has been sent still has a
\* stored result, and it is that result or the evidence that the outcome is
\* unknown (the server may see a result withdrawn by a redelivery it no longer
\* fits, never contradicted and never lost before its acknowledgement), as long
\* as restarts are of one kind: open reads unsynced lines without syncing them.
ReportedResultSurvives ==
    OneKindOfRestart =>
        \A m \in told, s \in IF "power" \in faults THEN Recoveries
                              ELSE {replay_wal(snap, wal)} :
            s.recs[m.id].state \in Terminal /\ s.recs[m.id].result \in {m.result, "unknown"}

\* The records as the connection sees them: in memory, or as the next open will
\* find them.
Held == IF phase \in {"closed", "corrupt"} THEN replay_wal(snap, wal).recs ELSE mem.recs

\* The files implement the record-at-a-time journal that the connection relies
\* on, through every crash.
Contract == INSTANCE EdgeJournalContract WITH records <- Held

JournalImplementsContract ==
    Contract!Init /\ [][OneKindOfRestart => Contract!Next]_(Contract!vars)
=============================================================================
