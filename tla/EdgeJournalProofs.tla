-------------------------- MODULE EdgeJournalProofs --------------------------
(***************************************************************************)
(* What the edge's invocation journal guarantees for every set of          *)
(* requests, every capacity and every combination of faults.  The log is   *)
(* replayed by a recursive function, so the first part proves what that    *)
(* function computes.  The last part shows that the files implement the    *)
(* record-at-a-time journal of EdgeJournalContract.                        *)
(***************************************************************************)
EXTENDS EdgeJournal, WellFoundedInduction, TLAPS

(* What the files, the log's lines and the states read from them hold. *)
Records ==
  {NoRecord} \cup {x \in Record : x.state = "running" <=> x.result = "none"}
Line == [seq: Nat, id: Requests, rec: Records, garbage: {FALSE}]
Snapshot == [seq: Nat, recs: [Requests -> Records]]
State == [seq: Nat, recs: [Requests -> Records], ok: BOOLEAN]

Start(s) == [seq |-> s.seq, recs |-> s.recs, ok |-> TRUE]

(* What a reader of the files finds, and what it will find once the mutation in *)
(* progress is in the log.                                                      *)
Visible == replay_wal(snap, wal)
Mutated == [seq |-> mem.seq + 1, recs |-> [mem.recs EXCEPT ![op.id] = op.rec]]

Mutating == op.kind \in {"admit", "redeliver", "complete", "ack", "recover"}

-----------------------------------------------------------------------------
(* The inductive invariant.  The files are well formed and the visible ones     *)
(* are among those that may survive.                                            *)
FilesShape ==
  /\ snap \in snapCrash /\ snapCrash \subseteq Snapshot
  /\ wal \in walCrash /\ walCrash \subseteq Seq(Line)
  /\ \A u \in walCrash : Len(u) <= WalCapacity

(* The call in progress: it belongs to an open journal, it has room in the log  *)
(* and below the bound, and an admission is the first execution.                *)
CallShape ==
  /\ mem \in Snapshot /\ mem.seq <= MaxSeq
  /\ phase \in {"closed", "recovering", "open", "fenced", "corrupt"}
  /\ torn \in BOOLEAN /\ (torn => phase \in {"closed", "fenced"})
  /\ op = [kind |-> op.kind, step |-> op.step, id |-> op.id, rec |-> op.rec]
  /\ op # Idle => phase \in {"recovering", "open"}
  /\ \/ op = Idle
     \/ op.kind = "compact" /\ op.step \in {"rename", "dirsync", "truncate", "truncsync"}
     \/ /\ Mutating
        /\ op.step \in {"rename", "dirsync", "truncate", "truncsync", "append", "sync"}
        /\ op.id \in Requests /\ op.rec \in Records /\ mem.seq + 1 <= MaxSeq
  /\ op.kind = "admit" => /\ op.rec.state = "running" /\ op.rec.exec # 0 /\ runs[op.id] = 0
                          /\ mem.seq + 2 <= MaxSeq
  /\ op.step = "append" => Len(wal) + 1 <= WalCapacity
  /\ op.step \in {"dirsync", "truncate", "truncsync"} => snap = mem
  /\ op.step \in {"truncate", "truncsync"} => snapCrash = {snap}
  /\ op.step = "truncsync" => wal = <<>>

(* Every snapshot that may survive reads the visible log to the same state, no  *)
(* log that may survive reaches beyond it, and an open journal has it in memory. *)
SnapshotsAgree == \A s \in snapCrash : replay_wal(s, wal) = Visible

LogsBounded == \A u \in walCrash : \A i \in 1..Len(u) : u[i].seq <= Visible.seq

MemoryIsVisible ==
  phase \in {"recovering", "open"} =>
    Visible = Start(IF op.step = "sync" THEN Mutated ELSE mem)

(* What every restart finds. *)
RestartsBounded == \A x \in Recoveries : x.ok /\ x.seq <= MaxSeq

(* The history of executions and results. *)
HistoryShape ==
  /\ tasks \subseteq Requests
  /\ told \subseteq [id: Requests, gen: Gens, result: Results]
  /\ runs \in [Requests -> Nat]

MutationKeepsExecution ==
  Mutating /\ runs[op.id] = 1 => op.rec # NoRecord /\ op.rec.exec # 0

MutationKeepsResult ==
  OneKindOfRestart /\ Mutating =>
    \A m \in told : m.id = op.id => op.rec.state \in Terminal /\ op.rec.result \in {m.result, "unknown"}

(* Without exits and failed syncs, only a call in progress leaves a doubt about *)
(* the log.                                                                     *)
SyncedBetweenCalls ==
  OneKindOfRestart /\ "power" \in faults /\ op.step \notin {"sync", "truncsync"} =>
    walCrash = {wal}

JournalInv ==
  /\ FilesShape /\ CallShape /\ HistoryShape
  /\ SnapshotsAgree /\ LogsBounded /\ MemoryIsVisible /\ RestartsBounded
  /\ ExecutedAtMostOnce /\ MutationKeepsExecution
  /\ ReportedResultSurvives /\ MutationKeepsResult /\ SyncedBetweenCalls

-----------------------------------------------------------------------------
(* Induction over the numbers, for sets instead of predicates: the least       *)
(* number outside a set that is closed under successor would have a            *)
(* predecessor in it.                                                          *)
LEMMA LeastNumber ==
  ASSUME NEW T, T \subseteq Nat, T # {}
  PROVE  \E x \in T : \A y \in T : x <= y
<1> DEFINE R == OpToRel(<, Nat)
<1>1. IsWellFoundedOn(R, Nat)
  BY NatLessThanWellFounded
<1>2. \A x, y \in Nat : <<y, x>> \in R <=> y < x
  BY DEF OpToRel
<1> HIDE DEF R
<1>3. \E x \in T : \A y \in T : ~(<<y, x>> \in R)
  BY <1>1, WFMin
<1>4. PICK x \in T : \A y \in T : ~(<<y, x>> \in R)
  BY <1>3
<1>5. \A y \in T : ~(y < x)
  BY <1>2, <1>4, Zenon
<1>6. \A y \in T : x <= y
  BY <1>5
<1> QED
  BY <1>6

LEMMA Induction ==
  ASSUME NEW S, 0 \in S, \A n \in Nat : n \in S => n + 1 \in S
  PROVE  \A n \in Nat : n \in S
<1> SUFFICES ASSUME ~(\A n \in Nat : n \in S) PROVE FALSE
  OBVIOUS
<1> DEFINE T == {n \in Nat : n \notin S}
<1>1. PICK x \in T : \A y \in T : x <= y
  BY LeastNumber
<1>2. x # 0 /\ x \in Nat /\ x - 1 \in Nat /\ x - 1 \notin T
  BY <1>1
<1>3. x - 1 \in S /\ x = (x - 1) + 1
  BY <1>2
<1> QED
  BY <1>1, <1>2, <1>3

-----------------------------------------------------------------------------
(* The recursive function of replay_wal, as far as line k. *)
IsReplay(f, s, w, k) ==
  f = [n \in 0..k |-> IF n = 0 THEN Start(s) ELSE ApplyEntry(f[n - 1], w[n])]

LEMMA ReplayAt ==
  ASSUME NEW f, NEW s, NEW w, NEW k \in Nat, IsReplay(f, s, w, k)
  PROVE  /\ DOMAIN f = 0..k /\ f[0] = Start(s)
         /\ \A n \in Nat : n + 1 <= k => f[n + 1] = ApplyEntry(f[n], w[n + 1])
<1> DEFINE F(g) == [n \in 0..k |-> IF n = 0 THEN Start(s) ELSE ApplyEntry(g[n - 1], w[n])]
<1>1. f = F(f)
  BY Zenon DEF IsReplay
<1>2. DOMAIN F(f) = 0..k /\ F(f)[0] = Start(s)
  OBVIOUS
<1>3. \A n \in Nat : n + 1 <= k => F(f)[n + 1] = ApplyEntry(f[n], w[n + 1])
  <2> SUFFICES ASSUME NEW n \in Nat, n + 1 <= k PROVE F(f)[n + 1] = ApplyEntry(f[n], w[n + 1])
    OBVIOUS
  <2>1. n + 1 \in 0..k /\ n + 1 # 0 /\ (n + 1) - 1 = n
    OBVIOUS
  <2> QED
    BY <2>1
<1> HIDE DEF F
<1> QED
  BY <1>1, <1>2, <1>3

LEMMA ReplayFrom ==
  ASSUME NEW f, NEW s, NEW w, NEW k \in Nat,
         DOMAIN f = 0..k, f = [n \in 0..k |-> f[n]], f[0] = Start(s),
         \A n \in Nat : n + 1 <= k => f[n + 1] = ApplyEntry(f[n], w[n + 1])
  PROVE  IsReplay(f, s, w, k)
<1> DEFINE g == [n \in 0..k |-> IF n = 0 THEN Start(s) ELSE ApplyEntry(f[n - 1], w[n])]
<1>1. \A n \in 0..k : f[n] = g[n]
  <2> TAKE n \in 0..k
  <2>1. CASE n = 0
    BY <2>1
  <2>2. CASE n # 0
    <3>1. n - 1 \in Nat /\ (n - 1) + 1 = n /\ n <= k
      BY <2>2
    <3>2. f[n] = ApplyEntry(f[n - 1], w[n])
      BY <3>1
    <3> QED
      BY <2>2, <3>2
  <2> QED
    BY <2>1, <2>2
<1>2. f = g
  BY <1>1
<1> QED
  BY <1>2 DEF IsReplay

LEMMA ReplayExists ==
  ASSUME NEW s, NEW w
  PROVE  \A k \in Nat : \E f : IsReplay(f, s, w, k)
<1> DEFINE S == {k \in Nat : \E f : IsReplay(f, s, w, k)}
<1>1. 0 \in S
  <2> DEFINE f == [n \in 0..0 |-> Start(s)]
  <2>1. IsReplay(f, s, w, 0)
    <3>1. DOMAIN f = 0..0 /\ f = [n \in 0..0 |-> f[n]] /\ f[0] = Start(s)
      OBVIOUS
    <3>2. 0 \in Nat /\ \A n \in Nat : n + 1 <= 0 => f[n + 1] = ApplyEntry(f[n], w[n + 1])
      OBVIOUS
    <3> HIDE DEF f
    <3> QED
      BY <3>1, <3>2, ReplayFrom, Zenon
  <2> QED
    BY <2>1
<1>2. ASSUME NEW k \in Nat, k \in S PROVE k + 1 \in S
  <2>1. PICK f : IsReplay(f, s, w, k)
    BY <1>2
  <2>2. /\ DOMAIN f = 0..k /\ f[0] = Start(s)
        /\ \A n \in Nat : n + 1 <= k => f[n + 1] = ApplyEntry(f[n], w[n + 1])
    BY <2>1, ReplayAt
  <2> DEFINE g == [n \in 0..(k + 1) |-> IF n = k + 1 THEN ApplyEntry(f[k], w[k + 1]) ELSE f[n]]
  <2>3. DOMAIN g = 0..(k + 1) /\ g = [n \in 0..(k + 1) |-> g[n]] /\ g[0] = Start(s)
    BY <2>2
  <2>4. \A n \in Nat : n + 1 <= k + 1 => g[n + 1] = ApplyEntry(g[n], w[n + 1])
    <3> SUFFICES ASSUME NEW n \in Nat, n + 1 <= k + 1
                 PROVE  g[n + 1] = ApplyEntry(g[n], w[n + 1])
      OBVIOUS
    <3>1. g[n] = f[n]
      OBVIOUS
    <3>2. CASE n = k
      BY <3>1, <3>2
    <3>3. CASE n # k
      <4>1. n + 1 <= k /\ g[n + 1] = f[n + 1]
        BY <3>3
      <4> QED
        BY <4>1, <3>1, <2>2
    <3> QED
      BY <3>2, <3>3
  <2> HIDE DEF g
  <2>5. IsReplay(g, s, w, k + 1)
    <3>1. k + 1 \in Nat
      OBVIOUS
    <3> QED
      BY <2>3, <2>4, <3>1, ReplayFrom, Zenon
  <2> QED
    BY <2>5
<1> HIDE DEF S
<1>3. \A k \in Nat : k \in S
  BY <1>1, <1>2, Induction
<1> QED
  BY <1>3 DEF S

(* replay_wal is the last value of such a function. *)
LEMMA ReplayIs ==
  ASSUME NEW s, NEW w, Len(w) \in Nat
  PROVE  \E f : IsReplay(f, s, w, Len(w)) /\ replay_wal(s, w) = f[Len(w)]
<1> DEFINE g == CHOOSE f : IsReplay(f, s, w, Len(w))
<1>1. IsReplay(g, s, w, Len(w))
  BY ReplayExists, Zenon
<1>2. replay_wal(s, w) = g[Len(w)]
  BY Zenon DEF replay_wal, IsReplay, Start
<1> QED
  BY <1>1, <1>2

(* Logs that begin alike are read alike. *)
LEMMA ReplayAlike ==
  ASSUME NEW s, NEW w, NEW v, NEW k \in Nat, NEW l \in Nat, k <= l,
         \A i \in 1..k : w[i] = v[i],
         NEW f, IsReplay(f, s, w, k), NEW g, IsReplay(g, s, v, l)
  PROVE  f[k] = g[k]
<1> DEFINE S == {n \in Nat : n <= k => f[n] = g[n]}
<1>1. /\ f[0] = Start(s) /\ g[0] = Start(s)
      /\ \A n \in Nat : n + 1 <= k => f[n + 1] = ApplyEntry(f[n], w[n + 1])
      /\ \A n \in Nat : n + 1 <= l => g[n + 1] = ApplyEntry(g[n], v[n + 1])
  BY ReplayAt
<1>2. 0 \in S
  BY <1>1
<1>3. ASSUME NEW n \in Nat, n \in S PROVE n + 1 \in S
  <2> SUFFICES ASSUME n + 1 <= k PROVE f[n + 1] = g[n + 1]
    OBVIOUS
  <2>1. f[n] = g[n] /\ n + 1 <= l /\ w[n + 1] = v[n + 1]
    BY <1>3
  <2> QED
    BY <1>1, <2>1
<1> HIDE DEF S
<1>4. \A n \in Nat : n \in S
  BY <1>2, <1>3, Induction
<1> QED
  BY <1>4 DEF S

LEMMA ReplayEmpty ==
  ASSUME NEW s
  PROVE  replay_wal(s, <<>>) = Start(s)
<1>1. Len(<<>>) = 0
  OBVIOUS
<1>2. PICK f : IsReplay(f, s, <<>>, 0) /\ replay_wal(s, <<>>) = f[0]
  BY <1>1, ReplayIs
<1> QED
  BY <1>2, ReplayAt

(* One more line is one more mutation. *)
LEMMA ReplayAppend ==
  ASSUME NEW s, NEW w \in Seq(Line), NEW e \in Line
  PROVE  replay_wal(s, Append(w, e)) = ApplyEntry(replay_wal(s, w), e)
<1> DEFINE v == Append(w, e)
           k == Len(w)
<1>1. k \in Nat /\ Len(v) = k + 1 /\ v[k + 1] = e /\ \A i \in 1..k : w[i] = v[i]
  OBVIOUS
<1> HIDE DEF v, k
<1>2. PICK f : IsReplay(f, s, w, k) /\ replay_wal(s, w) = f[k]
  BY <1>1, ReplayIs DEF k
<1>3. PICK g : IsReplay(g, s, v, k + 1) /\ replay_wal(s, v) = g[k + 1]
  BY <1>1, ReplayIs
<1>4. f[k] = g[k]
  BY <1>1, <1>2, <1>3, ReplayAlike
<1>5. g[k + 1] = ApplyEntry(g[k], v[k + 1])
  BY <1>1, <1>3, ReplayAt
<1> QED
  BY <1>1, <1>2, <1>3, <1>4, <1>5 DEF v

(* What a line does to a state: nothing, if the state is past it; its mutation, *)
(* if it is the next one.                                                       *)
LEMMA ApplyOld ==
  ASSUME NEW x \in State, NEW e \in Line, x.ok, e.seq <= x.seq
  PROVE  ApplyEntry(x, e) = x
  BY DEF ApplyEntry, State, Line

LEMMA ApplyNext ==
  ASSUME NEW x \in State, NEW e \in Line, x.ok, e.seq = x.seq + 1
  PROVE  ApplyEntry(x, e)
           = [seq |-> e.seq, recs |-> [x.recs EXCEPT ![e.id] = e.rec], ok |-> TRUE]
<1>1. e.seq \in Nat /\ x.seq \in Nat /\ e.garbage = FALSE
  BY DEF State, Line
<1>2. ~(e.seq <= x.seq)
  BY <1>1
<1>3. ApplyEntry(x, e) = [x EXCEPT !.seq = e.seq, !.recs[e.id] = e.rec]
  BY <1>1, <1>2 DEF ApplyEntry
<1> QED
  BY <1>3 DEF State

(* The states that are read are well formed. *)
LEMMA ApplyTypes ==
  ASSUME NEW x \in State, NEW e \in Line
  PROVE  ApplyEntry(x, e) \in State
<1>1. NoRecord \in Records
  BY DEF Records
<1>2. [x.recs EXCEPT ![e.id] = e.rec] \in [Requests -> Records]
  BY DEF State, Line
<1>3. e.seq \in Nat /\ x.seq \in Nat /\ e.garbage = FALSE
  BY DEF State, Line
<1>4. CASE ~x.ok \/ e.seq <= x.seq
  <2>1. ApplyEntry(x, e) = x
    BY <1>3, <1>4 DEF ApplyEntry
  <2> QED
    BY <2>1
<1>5. CASE x.ok /\ ~(e.seq <= x.seq) /\ e.seq = x.seq + 1
  <2>1. ApplyEntry(x, e)
          = [seq |-> e.seq, recs |-> [x.recs EXCEPT ![e.id] = e.rec], ok |-> TRUE]
    BY <1>5, ApplyNext
  <2> QED
    BY <1>2, <1>3, <2>1 DEF State
<1>6. CASE x.ok /\ ~(e.seq <= x.seq) /\ e.seq # x.seq + 1
  <2>1. ApplyEntry(x, e) = Corrupt
    BY <1>3, <1>6 DEF ApplyEntry
  <2> QED
    BY <1>1, <2>1 DEF Corrupt, State
<1> QED
  BY <1>4, <1>5, <1>6 DEF State

(* A line that can be read is within the state it leads to. *)
LEMMA ApplyReaches ==
  ASSUME NEW x \in State, NEW e \in Line, ApplyEntry(x, e).ok
  PROVE  /\ x.ok /\ x.seq <= ApplyEntry(x, e).seq /\ e.seq <= ApplyEntry(x, e).seq
<1>1. e.seq \in Nat /\ x.seq \in Nat /\ e.garbage = FALSE
  BY DEF State, Line
<1>2. x.ok
  BY <1>1 DEF ApplyEntry
<1>3. CASE e.seq <= x.seq
  BY <1>1, <1>2, <1>3, ApplyOld
<1>4. CASE e.seq = x.seq + 1
  BY <1>1, <1>2, <1>4, ApplyNext
<1>5. CASE ~(e.seq <= x.seq) /\ e.seq # x.seq + 1
  <2>1. ApplyEntry(x, e) = Corrupt
    BY <1>1, <1>2, <1>5 DEF ApplyEntry
  <2> QED
    BY <2>1 DEF Corrupt
<1> QED
  BY <1>2, <1>3, <1>4, <1>5

LEMMA StartTypes ==
  ASSUME NEW s \in Snapshot
  PROVE  /\ Start(s) \in State /\ Start(s).ok /\ Start(s).seq = s.seq /\ Start(s).recs = s.recs
         /\ s.seq \in Nat /\ s.recs \in [Requests -> Records]
  BY DEF Start, State, Snapshot

LEMMA ReplayTypes ==
  ASSUME NEW s \in Snapshot, NEW w \in Seq(Line)
  PROVE  replay_wal(s, w) \in State
<1>1. Len(w) \in Nat /\ \A i \in 1..Len(w) : w[i] \in Line
  OBVIOUS
<1>2. PICK f : IsReplay(f, s, w, Len(w)) /\ replay_wal(s, w) = f[Len(w)]
  BY <1>1, ReplayIs
<1>3. f[0] = Start(s) /\ \A n \in Nat : n + 1 <= Len(w) => f[n + 1] = ApplyEntry(f[n], w[n + 1])
  BY <1>1, <1>2, ReplayAt
<1> DEFINE S == {n \in Nat : n <= Len(w) => f[n] \in State}
<1>4. 0 \in S
  BY <1>3, StartTypes
<1>5. ASSUME NEW n \in Nat, n \in S PROVE n + 1 \in S
  <2> SUFFICES ASSUME n + 1 <= Len(w) PROVE f[n + 1] \in State
    OBVIOUS
  <2>1. f[n] \in State /\ w[n + 1] \in Line
    BY <1>1, <1>5
  <2> QED
    BY <1>3, <2>1, ApplyTypes
<1> HIDE DEF S
<1>6. \A n \in Nat : n \in S
  BY <1>4, <1>5, Induction
<1> QED
  BY <1>1, <1>2, <1>6 DEF S

(* A snapshot that is past every line of a log is what is read. *)
LEMMA ReplayOld ==
  ASSUME NEW s \in Snapshot, NEW w \in Seq(Line), \A i \in 1..Len(w) : w[i].seq <= s.seq
  PROVE  replay_wal(s, w) = Start(s)
<1>1. Len(w) \in Nat /\ \A i \in 1..Len(w) : w[i] \in Line
  OBVIOUS
<1>2. PICK f : IsReplay(f, s, w, Len(w)) /\ replay_wal(s, w) = f[Len(w)]
  BY <1>1, ReplayIs
<1>3. f[0] = Start(s) /\ \A n \in Nat : n + 1 <= Len(w) => f[n + 1] = ApplyEntry(f[n], w[n + 1])
  BY <1>1, <1>2, ReplayAt
<1> DEFINE S == {n \in Nat : n <= Len(w) => f[n] = Start(s)}
<1>4. 0 \in S
  BY <1>3
<1>5. ASSUME NEW n \in Nat, n \in S PROVE n + 1 \in S
  <2> SUFFICES ASSUME n + 1 <= Len(w) PROVE f[n + 1] = Start(s)
    OBVIOUS
  <2>1. f[n] = Start(s) /\ w[n + 1] \in Line /\ w[n + 1].seq <= s.seq
    BY <1>1, <1>5
  <2>2. ApplyEntry(Start(s), w[n + 1]) = Start(s)
    BY <2>1, StartTypes, ApplyOld
  <2> QED
    BY <1>3, <2>1, <2>2
<1> HIDE DEF S
<1>6. \A n \in Nat : n \in S
  BY <1>4, <1>5, Induction
<1> QED
  BY <1>1, <1>2, <1>6 DEF S

(* A log that can be read leads past the snapshot and past every line of it. *)
LEMMA ReplayReaches ==
  ASSUME NEW s \in Snapshot, NEW w \in Seq(Line), replay_wal(s, w).ok
  PROVE  \A i \in 1..Len(w) : w[i].seq <= replay_wal(s, w).seq
<1>1. Len(w) \in Nat /\ \A i \in 1..Len(w) : w[i] \in Line
  OBVIOUS
<1>2. PICK f : IsReplay(f, s, w, Len(w)) /\ replay_wal(s, w) = f[Len(w)]
  BY <1>1, ReplayIs
<1>3. f[0] = Start(s) /\ \A n \in Nat : n + 1 <= Len(w) => f[n + 1] = ApplyEntry(f[n], w[n + 1])
  BY <1>1, <1>2, ReplayAt
<1> DEFINE P(n) == f[n] \in State /\ (f[n].ok => \A i \in 1..n : w[i].seq <= f[n].seq)
           S == {n \in Nat : n <= Len(w) => P(n)}
<1>4. 0 \in S
  BY <1>3, StartTypes
<1>5. ASSUME NEW n \in Nat, n \in S PROVE n + 1 \in S
  <2> SUFFICES ASSUME n + 1 <= Len(w) PROVE P(n + 1)
    OBVIOUS
  <2>1. P(n) /\ w[n + 1] \in Line /\ f[n + 1] = ApplyEntry(f[n], w[n + 1])
    BY <1>1, <1>3, <1>5
  <2>2. f[n + 1] \in State
    BY <2>1, ApplyTypes
  <2>3. ASSUME f[n + 1].ok, NEW i \in 1..(n + 1) PROVE w[i].seq <= f[n + 1].seq
    <3>1. f[n].ok /\ f[n].seq <= f[n + 1].seq /\ w[n + 1].seq <= f[n + 1].seq
      BY <2>1, <2>3, ApplyReaches
    <3>2. CASE i = n + 1
      BY <3>1, <3>2
    <3>3. CASE i # n + 1
      <4>1. i \in 1..n /\ i \in 1..Len(w)
        BY <3>3, <1>1
      <4>2. w[i].seq <= f[n].seq
        BY <2>1, <3>1, <4>1
      <4>3. w[i].seq \in Nat /\ f[n].seq \in Nat /\ f[n + 1].seq \in Nat
        BY <1>1, <2>1, <2>2, <4>1 DEF Line, State
      <4> QED
        BY <3>1, <4>2, <4>3
    <3> QED
      BY <3>2, <3>3
  <2> QED
    BY <2>2, <2>3
<1> HIDE DEF S
<1>6. \A n \in Nat : n \in S
  BY <1>4, <1>5, Induction
<1> QED
  BY <1>1, <1>2, <1>6 DEF S

-----------------------------------------------------------------------------
(* The part of the invariant that is about the files. *)
DiskInv ==
  FilesShape /\ SnapshotsAgree /\ LogsBounded /\ RestartsBounded

(* The visible files are among those that may survive. *)
LEMMA RestartsAre ==
  ASSUME FilesShape
  PROVE  /\ Recoveries = {replay_wal(s, u) : s \in snapCrash, u \in walCrash}
         /\ Visible \in Recoveries
         /\ Recoveries \subseteq State
<1>1. Recoveries = {replay_wal(s, u) : s \in snapCrash, u \in walCrash}
  BY DEF FilesShape, Recoveries
<1>2. Visible \in Recoveries
  BY DEF Recoveries, Visible
<1>3. \A s \in snapCrash, u \in walCrash : replay_wal(s, u) \in State
  BY ReplayTypes DEF FilesShape
<1> QED
  BY <1>1, <1>2, <1>3

(* A step that leaves fewer candidates and the same visible files. *)
LEMMA FewerCandidates ==
  ASSUME FilesShape, SnapshotsAgree, LogsBounded, snap' = snap, wal' = wal,
         snapCrash' \subseteq snapCrash, snap \in snapCrash',
         walCrash' \subseteq walCrash, wal \in walCrash'
  PROVE  /\ FilesShape' /\ SnapshotsAgree' /\ LogsBounded'
         /\ Recoveries' \subseteq Recoveries /\ Visible' = Visible
<1>1. FilesShape'
  BY DEF FilesShape
<1>2. Visible' = Visible
  BY DEF Visible
<1>3. SnapshotsAgree' /\ LogsBounded'
  BY <1>2 DEF SnapshotsAgree, LogsBounded
<1>4. Recoveries' = {replay_wal(s, u) : s \in snapCrash', u \in walCrash'}
  BY <1>1 DEF FilesShape, Recoveries
<1>5. Recoveries = {replay_wal(s, u) : s \in snapCrash, u \in walCrash}
  BY RestartsAre
<1> QED
  BY <1>1, <1>2, <1>3, <1>4, <1>5

(* The line that is written reads as the mutation, whatever snapshot survives. *)
LEMMA WriteLineDisk ==
  ASSUME JournalInv, WriteLine
  PROVE  /\ FilesShape' /\ SnapshotsAgree' /\ LogsBounded'
         /\ Recoveries' \subseteq Recoveries \cup {Start(Mutated)}
         /\ Visible' = Start(Mutated)
<1> DEFINE e == Entry
<1>1. /\ Mutating /\ op.id \in Requests /\ op.rec \in Records /\ mem \in Snapshot
      /\ torn = FALSE /\ Len(wal) + 1 <= WalCapacity /\ op.step = "append"
      /\ phase \in {"recovering", "open"}
  BY DEF JournalInv, CallShape, WriteLine, Idle, Mutating
<1>2. e \in Line /\ e.seq = mem.seq + 1 /\ e.id = op.id /\ e.rec = op.rec
  <2>1. mem.seq + 1 \in Nat
    BY <1>1 DEF Snapshot
  <2>2. e = [seq |-> mem.seq + 1, id |-> op.id, rec |-> op.rec, garbage |-> FALSE]
    BY <1>1 DEF Entry
  <2> HIDE DEF e
  <2> QED
    BY <1>1, <2>1, <2>2 DEF Line
<1>3. Visible = Start(mem) /\ Start(mem) \in State /\ Start(mem).ok
      /\ Start(mem).seq = mem.seq /\ Start(mem).recs = mem.recs /\ mem.seq \in Nat
  BY <1>1, StartTypes DEF JournalInv, MemoryIsVisible
<1>4. ApplyEntry(Visible, e) = Start(Mutated)
  <2> HIDE DEF e
  <2>1. ApplyEntry(Visible, e)
          = [seq |-> e.seq, recs |-> [mem.recs EXCEPT ![e.id] = e.rec], ok |-> TRUE]
    BY <1>2, <1>3, ApplyNext
  <2> QED
    BY <1>2, <2>1 DEF Start, Mutated
<1>5. wal \in Seq(Line) /\ snap' = snap /\ snapCrash' = snapCrash
      /\ wal' = Append(wal, e) /\ walCrash' = walCrash \cup {wal'}
  BY DEF JournalInv, FilesShape, WriteLine
<1>6. \A s \in snapCrash : replay_wal(s, wal') = Start(Mutated)
  <2> TAKE s \in snapCrash
  <2>1. replay_wal(s, wal') = ApplyEntry(replay_wal(s, wal), e)
    BY <1>2, <1>5, ReplayAppend
  <2>2. replay_wal(s, wal) = Visible
    BY DEF JournalInv, SnapshotsAgree
  <2> QED
    BY <2>1, <2>2, <1>4
<1>7. FilesShape'
  <2>1. wal' \in Seq(Line) /\ Len(wal') = Len(wal) + 1
    BY <1>2, <1>5
  <2> QED
    BY <1>1, <1>5, <2>1 DEF JournalInv, FilesShape
<1>8. Visible' = Start(Mutated) /\ SnapshotsAgree'
  BY <1>5, <1>6, <1>7 DEF FilesShape, Visible, SnapshotsAgree
<1>9. LogsBounded'
  <2>1. Visible'.seq = mem.seq + 1
    BY <1>8 DEF Start, Mutated
  <2>2. ASSUME NEW u \in walCrash, NEW i \in 1..Len(u) PROVE u[i].seq <= Visible'.seq
    <3>1. u \in Seq(Line) /\ u[i].seq <= mem.seq
      BY <1>3, <2>2 DEF JournalInv, LogsBounded, FilesShape
    <3>2. u[i] \in Line
      BY <3>1
    <3>3. u[i].seq \in Nat
      BY <3>2 DEF Line
    <3> QED
      BY <1>3, <2>1, <3>1, <3>3
  <2>3. ASSUME NEW i \in 1..Len(wal') PROVE wal'[i].seq <= Visible'.seq
    <3> HIDE DEF e
    <3>1. CASE i \in 1..Len(wal)
      <4>1. wal'[i] = wal[i] /\ wal \in walCrash
        BY <1>2, <1>5, <3>1 DEF JournalInv, FilesShape
      <4> QED
        BY <2>2, <3>1, <4>1
    <3>2. CASE i \notin 1..Len(wal)
      <4>1. Len(wal) \in Nat /\ Len(wal') = Len(wal) + 1
        BY <1>2, <1>5
      <4>2. i = Len(wal) + 1
        BY <3>2, <4>1
      <4>3. wal'[i] = e
        BY <1>2, <1>5, <4>2
      <4> QED
        BY <1>2, <1>3, <2>1, <4>3
    <3> QED
      BY <3>1, <3>2
  <2> QED
    BY <1>5, <2>2, <2>3 DEF LogsBounded
<1>10. Recoveries' \subseteq Recoveries \cup {Start(Mutated)}
  <2>1. Recoveries' = {replay_wal(s, u) : s \in snapCrash', u \in walCrash'}
    BY <1>7 DEF FilesShape, Recoveries
  <2>2. Recoveries = {replay_wal(s, u) : s \in snapCrash, u \in walCrash}
    BY RestartsAre DEF JournalInv
  <2>3. ASSUME NEW s \in snapCrash, NEW u \in walCrash'
        PROVE  replay_wal(s, u) \in Recoveries \cup {Start(Mutated)}
    <3>1. CASE u = wal'
      BY <1>6, <3>1
    <3>2. CASE u \in walCrash
      BY <2>2, <3>2
    <3> QED
      BY <1>5, <3>1, <3>2
  <2> HIDE DEF e
  <2> QED
    BY <1>5, <2>1, <2>3
<1> QED
  BY <1>7, <1>8, <1>9, <1>10

(* The snapshot that is renamed is past every log that may survive. *)
LEMMA RenameDisk ==
  ASSUME JournalInv, RenameSnapshot
  PROVE  /\ FilesShape' /\ SnapshotsAgree' /\ LogsBounded'
         /\ Recoveries' \subseteq Recoveries /\ Visible' = Visible
<1>1. /\ mem \in Snapshot /\ Visible = Start(mem)
      /\ snap' = mem /\ snapCrash' = snapCrash \cup {mem} /\ UNCHANGED <<wal, walCrash>>
  BY DEF JournalInv, CallShape, RenameSnapshot, MemoryIsVisible, Idle
<1>2. Visible.seq = mem.seq
  BY <1>1, StartTypes
<1>3. \A u \in walCrash : replay_wal(mem, u) = Start(mem)
  BY <1>1, <1>2, ReplayOld DEF JournalInv, FilesShape, LogsBounded
<1>4. FilesShape'
  BY <1>1 DEF JournalInv, FilesShape
<1>5. Visible' = Visible
  BY <1>1, <1>3 DEF JournalInv, FilesShape, Visible
<1>6. SnapshotsAgree' /\ LogsBounded'
  BY <1>1, <1>3, <1>5 DEF JournalInv, FilesShape, SnapshotsAgree, LogsBounded
<1>7. Recoveries' \subseteq Recoveries
  <2>1. Recoveries' = {replay_wal(s, u) : s \in snapCrash', u \in walCrash'}
    BY <1>4 DEF FilesShape, Recoveries
  <2>2. Recoveries = {replay_wal(s, u) : s \in snapCrash, u \in walCrash} /\ Visible \in Recoveries
    BY RestartsAre DEF JournalInv
  <2> QED
    BY <1>1, <1>3, <2>1, <2>2
<1> QED
  BY <1>4, <1>5, <1>6, <1>7

(* The log is emptied only once the snapshot has taken its place. *)
LEMMA TruncateDisk ==
  ASSUME JournalInv, TruncateWal
  PROVE  /\ FilesShape' /\ SnapshotsAgree' /\ LogsBounded'
         /\ Recoveries' \subseteq Recoveries /\ Visible' = Visible
<1>1. /\ mem \in Snapshot /\ Visible = Start(mem) /\ snap = mem /\ snapCrash = {snap}
      /\ wal' = <<>> /\ walCrash' = walCrash \cup {<<>>} /\ UNCHANGED <<snap, snapCrash>>
  BY DEF JournalInv, CallShape, TruncateWal, MemoryIsVisible, Idle
<1>2. replay_wal(mem, <<>>) = Start(mem)
  BY ReplayEmpty
<1>3. FilesShape'
  <2>1. <<>> \in Seq(Line) /\ Len(<<>>) <= WalCapacity
    BY JournalAssumption
  <2> QED
    BY <1>1, <2>1 DEF JournalInv, FilesShape
<1>4. Visible' = Visible
  BY <1>1, <1>2 DEF Visible
<1>5. SnapshotsAgree' /\ LogsBounded'
  BY <1>1, <1>2, <1>4 DEF JournalInv, SnapshotsAgree, LogsBounded
<1>6. Recoveries' \subseteq Recoveries
  <2>1. Recoveries' = {replay_wal(s, u) : s \in snapCrash', u \in walCrash'}
    BY <1>3 DEF FilesShape, Recoveries
  <2>2. Recoveries = {replay_wal(s, u) : s \in snapCrash, u \in walCrash} /\ Visible \in Recoveries
    BY RestartsAre DEF JournalInv
  <2> QED
    BY <1>1, <1>2, <2>1, <2>2
<1> QED
  BY <1>3, <1>4, <1>5, <1>6

(* After a power loss there is one candidate of each file. *)
LEMMA PowerLossDisk ==
  ASSUME JournalInv, PowerLoss
  PROVE  /\ FilesShape' /\ SnapshotsAgree' /\ LogsBounded'
         /\ Recoveries' = {Visible'} /\ Visible' \in Recoveries
<1>1. /\ snap' \in snapCrash /\ snapCrash' = {snap'}
      /\ wal' \in walCrash /\ walCrash' = {wal'}
  BY DEF PowerLoss
<1>2. FilesShape'
  BY <1>1 DEF JournalInv, FilesShape
<1>3. Recoveries' = {Visible'}
  BY <1>1 DEF Recoveries, Visible
<1>4. Visible' \in Recoveries
  BY <1>1 DEF Recoveries, Visible
<1>5. SnapshotsAgree'
  BY <1>1 DEF SnapshotsAgree, Visible
<1>6. LogsBounded'
  <2>1. replay_wal(snap', wal').ok /\ snap' \in Snapshot /\ wal' \in Seq(Line)
    BY <1>1, <1>4 DEF JournalInv, RestartsBounded, FilesShape, Visible
  <2> QED
    BY <1>1, <2>1, ReplayReaches DEF LogsBounded, Visible
<1> QED
  BY <1>2, <1>3, <1>4, <1>5, <1>6

-----------------------------------------------------------------------------
(* The histories.  What holds of every restart holds of fewer restarts. *)
FewerRestarts ==
  /\ faults' = faults
  /\ Recoveries' \subseteq Recoveries /\ Visible' \in Recoveries
  /\ "power" \notin faults => Visible' = Visible
  /\ told' \subseteq told
  /\ \A r \in Requests : runs'[r] = runs[r] \/ runs'[r] = 0

LEMMA HistoriesKept ==
  ASSUME JournalInv, FewerRestarts
  PROVE  RestartsBounded' /\ ExecutedAtMostOnce' /\ ReportedResultSurvives'
<1>1. RestartsBounded'
  BY DEF JournalInv, RestartsBounded, FewerRestarts
<1>2. ExecutedAtMostOnce'
  <2> SUFFICES ASSUME NEW r \in Requests
               PROVE  /\ runs'[r] <= 1
                      /\ runs'[r] = 1 => \A s \in Recoveries' :
                                            s.recs[r] # NoRecord /\ s.recs[r].exec # 0
    BY DEF ExecutedAtMostOnce
  <2>1. /\ runs[r] <= 1
        /\ runs[r] = 1 => \A s \in Recoveries : s.recs[r] # NoRecord /\ s.recs[r].exec # 0
    BY DEF JournalInv, ExecutedAtMostOnce
  <2>2. Recoveries' \subseteq Recoveries /\ (runs'[r] = runs[r] \/ runs'[r] = 0)
    BY DEF FewerRestarts
  <2> QED
    BY <2>1, <2>2
<1>3. ReportedResultSurvives'
  <2> SUFFICES ASSUME OneKindOfRestart', NEW m \in told',
                      NEW s \in IF "power" \in faults' THEN Recoveries'
                                ELSE {replay_wal(snap', wal')}
               PROVE  s.recs[m.id].state \in Terminal /\ s.recs[m.id].result \in {m.result, "unknown"}
    BY DEF ReportedResultSurvives
  <2>1. OneKindOfRestart /\ m \in told
    BY DEF FewerRestarts, OneKindOfRestart
  <2>2. s \in IF "power" \in faults THEN Recoveries ELSE {replay_wal(snap, wal)}
    BY DEF FewerRestarts, Visible
  <2> QED
    BY <2>1, <2>2 DEF JournalInv, ReportedResultSurvives
<1> QED
  BY <1>1, <1>2, <1>3

(* A step that leaves fewer restarts. *)
LEMMA FrameStep ==
  ASSUME JournalInv, FewerRestarts, FilesShape', SnapshotsAgree', LogsBounded',
         CallShape', HistoryShape', MemoryIsVisible', SyncedBetweenCalls',
         MutationKeepsExecution', MutationKeepsResult'
  PROVE  JournalInv'
  BY HistoriesKept DEF JournalInv

(* The memory of an open journal between two calls is what every history is about. *)
LEMMA MemoryFacts ==
  ASSUME JournalInv, phase \in {"recovering", "open"}, op.step # "sync"
  PROVE  /\ mem \in Snapshot /\ mem.recs \in [Requests -> Records]
         /\ mem.seq \in Nat /\ Visible = Start(mem)
         /\ \A r \in Requests : /\ runs[r] \in {0, 1}
                                /\ runs[r] = 1 => mem.recs[r] # NoRecord /\ mem.recs[r].exec # 0
         /\ OneKindOfRestart => \A m \in told : /\ mem.recs[m.id].state \in Terminal
                                                /\ mem.recs[m.id].result \in {m.result, "unknown"}
<1>1. mem \in Snapshot /\ Visible = Start(mem)
  BY DEF JournalInv, CallShape, MemoryIsVisible
<1>2. mem.recs \in [Requests -> Records] /\ mem.seq \in Nat /\ Visible.recs = mem.recs
  BY <1>1, StartTypes
<1>3. Visible \in Recoveries
  BY RestartsAre DEF JournalInv
<1>4. \A r \in Requests : /\ runs[r] \in {0, 1}
                          /\ runs[r] = 1 => mem.recs[r] # NoRecord /\ mem.recs[r].exec # 0
  <2> TAKE r \in Requests
  <2>1. runs[r] \in Nat /\ runs[r] <= 1
    BY DEF JournalInv, HistoryShape, ExecutedAtMostOnce
  <2>2. runs[r] = 1 => Visible.recs[r] # NoRecord /\ Visible.recs[r].exec # 0
    BY <1>3 DEF JournalInv, ExecutedAtMostOnce
  <2> QED
    BY <1>2, <2>1, <2>2
<1>5. OneKindOfRestart => \A m \in told : /\ mem.recs[m.id].state \in Terminal
                                          /\ mem.recs[m.id].result \in {m.result, "unknown"}
  <2> SUFFICES ASSUME OneKindOfRestart, NEW m \in told
               PROVE  mem.recs[m.id].state \in Terminal /\ mem.recs[m.id].result \in {m.result, "unknown"}
    OBVIOUS
  <2>1. Visible \in IF "power" \in faults THEN Recoveries ELSE {replay_wal(snap, wal)}
    BY <1>3 DEF Visible
  <2> QED
    BY <1>2, <2>1 DEF JournalInv, ReportedResultSurvives
<1> QED
  BY <1>1, <1>2, <1>4, <1>5

(* The files stay as they are. *)
LEMMA SameFiles ==
  ASSUME JournalInv, UNCHANGED <<snap, snapCrash, wal, walCrash>>
  PROVE  /\ FilesShape' /\ SnapshotsAgree' /\ LogsBounded'
         /\ Recoveries' = Recoveries /\ Visible' = Visible /\ Visible \in Recoveries
<1>1. FilesShape' /\ SnapshotsAgree' /\ LogsBounded' /\ Visible' = Visible
  BY FewerCandidates DEF JournalInv, FilesShape
<1>2. Recoveries' = Recoveries
  BY DEF Recoveries
<1> QED
  BY <1>1, <1>2, RestartsAre DEF JournalInv

-----------------------------------------------------------------------------
(* The operations.  Each begins a mutation from an idle journal and keeps what *)
(* the record said about executions and results.                               *)
LEMMA CommitStep ==
  ASSUME JournalInv, phase \in {"recovering", "open"}, op = Idle,
         UNCHANGED <<faults, phase, mem, diskVars>>, HistoryShape',
         NEW kind \in {"admit", "redeliver", "complete", "ack", "recover"},
         NEW r \in Requests, NEW rec \in Records, Commit(kind, r, rec), Room(1),
         told' \subseteq told, \A q \in Requests : runs'[q] = runs[q] \/ runs'[q] = 0,
         kind = "admit" => /\ Room(2) /\ rec.state = "running" /\ rec.exec # 0
                           /\ runs'[r] = 0,
         runs'[r] = 1 => rec # NoRecord /\ rec.exec # 0,
         OneKindOfRestart => \A m \in told' : m.id = r =>
                                rec.state \in Terminal /\ rec.result \in {m.result, "unknown"}
  PROVE  JournalInv'
<1>1. /\ FilesShape' /\ SnapshotsAgree' /\ LogsBounded'
      /\ Recoveries' = Recoveries /\ Visible' = Visible /\ Visible \in Recoveries
  BY SameFiles DEF diskVars
<1>2. FewerRestarts
  BY <1>1 DEF FewerRestarts
<1>3. /\ op'.kind = kind /\ op'.id = r /\ op'.rec = rec /\ op'.step \in {"rename", "append"}
      /\ op'.step = "append" => ~(Len(wal) + 1 > WalCapacity)
  BY DEF Commit
<1>4. CallShape'
  <2>1. /\ phase' = phase /\ mem' = mem /\ wal' = wal /\ torn' = torn
        /\ mem \in Snapshot /\ torn \in BOOLEAN /\ mem.seq <= MaxSeq
        /\ torn => phase \in {"closed", "fenced"}
    BY DEF JournalInv, CallShape, diskVars
  <2>2. mem.seq + 1 <= MaxSeq /\ (kind = "admit" => mem.seq + 2 <= MaxSeq)
    <3>1. mem.seq \in Nat /\ MaxSeq \in Nat /\ Bound <= MaxSeq /\ Bound \in Int
      BY <2>1, JournalAssumption DEF Snapshot, Bound
    <3> QED
      BY <3>1 DEF Room
  <2>3. Len(wal) \in Nat /\ WalCapacity \in Nat
    BY JournalAssumption DEF JournalInv, FilesShape
  <2>4. op'.step = "append" => Len(wal') + 1 <= WalCapacity
    BY <1>3, <2>1, <2>3
  <2>5. Mutating'
    BY <1>3 DEF Mutating
  <2>6. op'.kind = "admit" => /\ op'.rec.state = "running" /\ op'.rec.exec # 0
                              /\ runs'[op'.id] = 0 /\ mem'.seq + 2 <= MaxSeq
    BY <1>3, <2>1, <2>2
  <2>7. op' = [kind |-> op'.kind, step |-> op'.step, id |-> op'.id, rec |-> op'.rec]
    BY DEF Commit
  <2> QED
    BY <1>3, <2>1, <2>2, <2>4, <2>5, <2>6, <2>7 DEF CallShape
<1>5. MemoryIsVisible'
  <2>1. Visible = Start(mem)
    BY MemoryFacts DEF Idle
  <2> QED
    BY <1>1, <1>3, <2>1 DEF MemoryIsVisible
<1>6. SyncedBetweenCalls'
  BY DEF JournalInv, SyncedBetweenCalls, OneKindOfRestart, Idle, diskVars
<1>7. MutationKeepsExecution'
  BY <1>3 DEF MutationKeepsExecution
<1>8. MutationKeepsResult'
  BY <1>3 DEF MutationKeepsResult, OneKindOfRestart
<1> QED
  BY <1>1, <1>2, <1>4, <1>5, <1>6, <1>7, <1>8, FrameStep

LEMMA AdmitStep ==
  ASSUME JournalInv, UNCHANGED faults, NEW r \in Requests, NEW g \in Gens, Admit(r, g)
  PROVE  JournalInv'
<1> DEFINE a == [state |-> "running", gen |-> g, exec |-> g, result |-> "none"]
           b == [state |-> "completed", gen |-> g, exec |-> 0, result |-> "rejected"]
<1>1. /\ phase = "open" /\ op = Idle /\ Room(2) /\ mem.recs[r] = NoRecord
      /\ Commit("admit", r, a) \/ Commit("redeliver", r, b)
      /\ UNCHANGED <<faults, phase, mem, diskVars, tasks, told, runs>>
  BY DEF Admit, Ready
<1>2. a \in Records /\ b \in Records /\ a.state = "running" /\ a.exec # 0
  <2>1. g \in 1..MaxGen /\ g \in 0..MaxGen /\ 0 \in 0..MaxGen /\ g # 0
    BY JournalAssumption DEF Gens
  <2>2. a \in Record
    BY <2>1 DEF Record, Gens, Results, Terminal
  <2>3. b \in Record
    BY <2>1 DEF Record, Gens, Results, Terminal
  <2>4. a.state = "running" /\ a.result = "none" /\ b.state # "running" /\ b.result # "none"
        /\ a.exec # 0
    BY <2>1
  <2> HIDE DEF a, b
  <2> QED
    BY <2>2, <2>3, <2>4 DEF Records
<1> HIDE DEF a, b
<1>3. HistoryShape'
  BY <1>1 DEF JournalInv, HistoryShape
<1>4. /\ runs'[r] = 0 /\ told' = told /\ runs' = runs
      /\ OneKindOfRestart => \A m \in told : m.id # r
  BY <1>1, MemoryFacts DEF Idle, NoRecord, Terminal
<1>5. Room(1)
  <2>1. mem.seq \in Nat /\ Bound \in Int
    BY <1>1, MemoryFacts, JournalAssumption DEF Idle, Bound
  <2> QED
    BY <1>1, <2>1 DEF Room
<1>6. CASE Commit("admit", r, a)
  BY <1>1, <1>2, <1>3, <1>4, <1>5, <1>6, CommitStep
<1>7. CASE Commit("redeliver", r, b)
  BY <1>1, <1>2, <1>3, <1>4, <1>5, <1>7, CommitStep
<1> QED
  BY <1>1, <1>6, <1>7

(* A record delivered again is the same record but for its generation. *)
LEMMA RecordReaddressed ==
  ASSUME NEW x \in Records, x # NoRecord, NEW g \in Gens, NEW y, y = [x EXCEPT !.gen = g]
  PROVE  /\ y \in Records /\ y # NoRecord /\ y.exec = x.exec
         /\ y.state = x.state /\ y.result = x.result
<1>1. x \in Record /\ x.state # "absent"
  BY DEF Records, Record, Terminal
<1>2. x.state = "running" <=> x.result = "none"
  BY DEF Records
<1>3. y \in Record /\ y.exec = x.exec /\ y.state = x.state /\ y.result = x.result
  BY <1>1 DEF Record
<1> QED
  BY <1>1, <1>2, <1>3 DEF Records, NoRecord

(* A result that is withdrawn leaves the execution it is the result of. *)
LEMMA RecordWithdrawn ==
  ASSUME NEW x \in Records, x # NoRecord, x.result = "done", NEW g \in Gens, NEW y,
         y = [x EXCEPT !.gen = g, !.state = "unknown", !.result = "unknown"]
  PROVE  /\ y \in Records /\ y # NoRecord /\ y.exec = x.exec
         /\ y.state = "unknown" /\ y.result = "unknown" /\ x.state \in Terminal
<1>1. x \in Record /\ x.state # "absent"
  BY DEF Records, Record, Terminal
<1>2. x.state \in Terminal
  BY <1>1 DEF Records, Record
<1>3. y \in Record /\ y.exec = x.exec /\ y.state = "unknown" /\ y.result = "unknown"
  BY <1>1 DEF Record, Terminal, Results
<1> QED
  BY <1>2, <1>3 DEF Records, NoRecord

LEMMA RedeliverStep ==
  ASSUME JournalInv, UNCHANGED faults, NEW r \in Requests, NEW g \in Gens, Redeliver(r, g)
  PROVE  JournalInv'
<1>x. PICK x : x = mem.recs[r]
  OBVIOUS
<1>y. PICK y : y = [x EXCEPT !.gen = g]
  OBVIOUS
<1>z. PICK z : z = [x EXCEPT !.gen = g, !.state = "unknown", !.result = "unknown"]
  OBVIOUS
<1>1. /\ phase = "open" /\ op = Idle /\ Room(2) /\ x # NoRecord
      /\ Commit("redeliver", r, y) \/ (x.result = "done" /\ Commit("redeliver", r, z))
      /\ UNCHANGED <<faults, phase, mem, diskVars, tasks, told, runs>>
  BY <1>x, <1>y, <1>z DEF Redeliver, Ready
<1>2. x \in Records
  BY <1>x, <1>1, MemoryFacts DEF Idle
<1>3. /\ y \in Records /\ y # NoRecord /\ y.exec = x.exec
      /\ y.state = x.state /\ y.result = x.result
  BY <1>y, <1>1, <1>2, RecordReaddressed
<1>4. x.result = "done" => /\ z \in Records /\ z # NoRecord /\ z.exec = x.exec
                           /\ z.state = "unknown" /\ z.result = "unknown"
  BY <1>z, <1>1, <1>2, RecordWithdrawn
<1>5. HistoryShape'
  BY <1>1 DEF JournalInv, HistoryShape
<1>6. Room(1)
  <2>1. mem.seq \in Nat /\ Bound \in Int
    BY <1>1, MemoryFacts, JournalAssumption DEF Idle, Bound
  <2> QED
    BY <1>1, <2>1 DEF Room
<1>7. /\ runs'[r] = 1 => x.exec # 0
      /\ OneKindOfRestart => \A m \in told' : m.id = r =>
                                x.state \in Terminal /\ x.result \in {m.result, "unknown"}
  BY <1>x, <1>1, MemoryFacts DEF Idle
<1>8. told' \subseteq told /\ \A q \in Requests : runs'[q] = runs[q] \/ runs'[q] = 0
  BY <1>1
<1>9. CASE Commit("redeliver", r, y)
  BY <1>1, <1>3, <1>5, <1>6, <1>7, <1>8, <1>9, CommitStep
<1>10. CASE x.result = "done" /\ Commit("redeliver", r, z)
  <2>1. OneKindOfRestart => \A m \in told' : m.id = r =>
          z.state \in Terminal /\ z.result \in {m.result, "unknown"}
    BY <1>4, <1>10 DEF Terminal
  <2> QED
    BY <1>1, <1>4, <1>5, <1>6, <1>7, <1>8, <1>10, <2>1, CommitStep
<1> QED
  BY <1>1, <1>9, <1>10

(* A task's result, or the evidence that a record has lost its process: no *)
(* result of a running record has been reported.                           *)
LEMMA SettleStep ==
  ASSUME JournalInv, UNCHANGED <<faults, phase, mem, diskVars, told, runs>>,
         phase \in {"recovering", "open"}, op = Idle, Room(1), tasks' \subseteq tasks,
         NEW r \in Requests, mem.recs[r].state = "running",
         NEW kind \in {"complete", "recover"}, NEW s \in Terminal, NEW v \in Results,
         Commit(kind, r, [mem.recs[r] EXCEPT !.state = s, !.result = v])
  PROVE  JournalInv'
<1>x. PICK x : x = mem.recs[r]
  OBVIOUS
<1>0. PICK y : y = [x EXCEPT !.state = s, !.result = v]
  OBVIOUS
<1>1. mem.recs[r] \in Records /\ mem.recs[r] # NoRecord
  BY MemoryFacts DEF Idle, NoRecord
<1>2. /\ y \in Records /\ y # NoRecord /\ y.exec = mem.recs[r].exec
  <2>1. x \in Records /\ x # NoRecord
    BY <1>x, <1>1
  <2>2. x \in Record
    BY <2>1 DEF Records
  <2>3. y \in Record /\ y.exec = x.exec /\ y.state = s /\ y.result = v
    BY <1>0, <2>2 DEF Record
  <2>4. y.state # "running" /\ y.result # "none" /\ y.state # "absent"
    BY <2>3 DEF Terminal, Results
  <2> QED
    BY <1>x, <2>3, <2>4 DEF Records, NoRecord
<1>3. Commit(kind, r, y)
  BY <1>x, <1>0
<1>4. HistoryShape'
  BY DEF JournalInv, HistoryShape
<1>5. /\ runs'[r] = 1 => y # NoRecord /\ y.exec # 0
      /\ OneKindOfRestart => \A m \in told' : m.id # r
  BY <1>2, MemoryFacts DEF Idle, Terminal
<1>6. told' \subseteq told /\ \A q \in Requests : runs'[q] = runs[q] \/ runs'[q] = 0
  OBVIOUS
<1> QED
  BY <1>2, <1>3, <1>4, <1>5, <1>6, CommitStep

LEMMA CompleteStep ==
  ASSUME JournalInv, UNCHANGED faults, NEW r \in Requests, Complete(r)
  PROVE  JournalInv'
<1>1. /\ phase = "open" /\ op = Idle /\ Room(1) /\ mem.recs[r].state = "running"
      /\ \/ Commit("complete", r, [mem.recs[r] EXCEPT !.state = "completed", !.result = "done"])
         \/ Commit("complete", r, [mem.recs[r] EXCEPT !.state = "unknown", !.result = "unknown"])
      /\ tasks' \subseteq tasks /\ UNCHANGED <<faults, phase, mem, diskVars, told, runs>>
  BY DEF Complete, Ready
<1> QED
  BY <1>1, SettleStep DEF Terminal, Results

LEMMA RecoverRunningStep ==
  ASSUME JournalInv, UNCHANGED faults, NEW r \in Requests, RecoverRunning(r)
  PROVE  JournalInv'
<1>1. /\ phase = "recovering" /\ op = Idle /\ Room(1) /\ mem.recs[r].state = "running"
      /\ Commit("recover", r, [mem.recs[r] EXCEPT !.state = "unknown", !.result = "unknown"])
      /\ tasks' \subseteq tasks /\ UNCHANGED <<faults, phase, mem, diskVars, told, runs>>
  BY DEF RecoverRunning
<1> QED
  BY <1>1, SettleStep DEF Terminal, Results

LEMMA AcknowledgeStep ==
  ASSUME JournalInv, UNCHANGED faults, NEW r \in Requests, NEW g \in Gens, Acknowledge(r, g)
  PROVE  JournalInv'
<1>1. /\ phase = "open" /\ op = Idle /\ Room(1)
      /\ Commit("ack", r, NoRecord)
      /\ told' = {m \in told : m.id # r} /\ runs' = [runs EXCEPT ![r] = 0]
      /\ UNCHANGED <<faults, phase, mem, diskVars, tasks>>
  BY DEF Acknowledge, Ready
<1>2. NoRecord \in Records
  BY DEF Records
<1>3. HistoryShape'
  BY <1>1 DEF JournalInv, HistoryShape
<1>4. /\ told' \subseteq told /\ \A m \in told' : m.id # r
      /\ \A q \in Requests : runs'[q] = runs[q] \/ runs'[q] = 0
      /\ runs'[r] = 0
  BY <1>1 DEF JournalInv, HistoryShape
<1> QED
  BY <1>1, <1>2, <1>3, <1>4, CommitStep

-----------------------------------------------------------------------------
(* Compaction.  The call in progress and the memory stay; only the files move. *)
LEMMA CompactionStep ==
  ASSUME JournalInv, UNCHANGED <<faults, phase, mem, torn, tasks, told, runs>>,
         FilesShape', SnapshotsAgree', LogsBounded',
         Recoveries' \subseteq Recoveries, Visible' = Visible,
         op # Idle, op.step # "sync", op'.step # "sync",
         Mutating' => Mutating /\ op'.id = op.id /\ op'.rec = op.rec,
         CallShape', SyncedBetweenCalls'
  PROVE  JournalInv'
<1>1. FewerRestarts
  BY RestartsAre DEF FewerRestarts, JournalInv
<1>2. HistoryShape'
  BY DEF JournalInv, HistoryShape
<1>3. MemoryIsVisible'
  BY DEF JournalInv, MemoryIsVisible
<1>4. MutationKeepsExecution'
  BY DEF JournalInv, MutationKeepsExecution
<1>5. MutationKeepsResult'
  BY DEF JournalInv, MutationKeepsResult, OneKindOfRestart
<1> QED
  BY <1>1, <1>2, <1>3, <1>4, <1>5, FrameStep

(* The next step of the call in progress. *)
LEMMA NextCallShape ==
  ASSUME CallShape, UNCHANGED <<phase, mem, torn, runs>>, op # Idle,
         NEW st \in {"dirsync", "truncate", "truncsync", "append"},
         op' = [op EXCEPT !.step = st], op.kind = "compact" => st # "append",
         st = "append" => Len(wal') + 1 <= WalCapacity,
         st \in {"dirsync", "truncate", "truncsync"} => snap' = mem,
         st \in {"truncate", "truncsync"} => snapCrash' = {snap'},
         st = "truncsync" => wal' = <<>>
  PROVE  CallShape' /\ op'.step = st /\ (Mutating' <=> Mutating) /\ op' # Idle
         /\ (Mutating => op'.id = op.id /\ op'.rec = op.rec)
<1>1. op = [kind |-> op.kind, step |-> op.step, id |-> op.id, rec |-> op.rec]
  BY DEF CallShape
<1>2. op' = [kind |-> op.kind, step |-> st, id |-> op.id, rec |-> op.rec]
  BY <1>1
<1>3. /\ op'.kind = op.kind /\ op'.id = op.id /\ op'.rec = op.rec /\ op'.step = st
      /\ op' = [kind |-> op'.kind, step |-> op'.step, id |-> op'.id, rec |-> op'.rec]
  BY <1>2
<1>4. (Mutating' <=> Mutating) /\ op' # Idle
  BY <1>3 DEF Mutating, Idle
<1>5. CallShape'
  <2>1. \/ op'.kind = "compact" /\ op'.step \in {"rename", "dirsync", "truncate", "truncsync"}
        \/ /\ Mutating'
           /\ op'.step \in {"rename", "dirsync", "truncate", "truncsync", "append", "sync"}
           /\ op'.id \in Requests /\ op'.rec \in Records /\ mem'.seq + 1 <= MaxSeq
    BY <1>3, <1>4 DEF CallShape
  <2>2. op'.kind = "admit" => /\ op'.rec.state = "running" /\ op'.rec.exec # 0
                              /\ runs'[op'.id] = 0 /\ mem'.seq + 2 <= MaxSeq
    BY <1>3 DEF CallShape
  <2> QED
    BY <1>3, <1>4, <2>1, <2>2 DEF CallShape
<1> QED
  BY <1>3, <1>4, <1>5

LEMMA RenameStep ==
  ASSUME JournalInv, UNCHANGED faults, RenameSnapshot
  PROVE  JournalInv'
<1>1. /\ FilesShape' /\ SnapshotsAgree' /\ LogsBounded'
      /\ Recoveries' \subseteq Recoveries /\ Visible' = Visible
  BY RenameDisk
<1>2. /\ op.step = "rename" /\ op # Idle /\ snap' = mem /\ op' = [op EXCEPT !.step = "dirsync"]
      /\ UNCHANGED <<faults, phase, mem, wal, walCrash, torn, tasks, told, runs>>
  BY DEF RenameSnapshot, Idle
<1>3. CallShape' /\ op'.step = "dirsync" /\ (Mutating' <=> Mutating)
      /\ (Mutating => op'.id = op.id /\ op'.rec = op.rec)
  BY <1>2, NextCallShape DEF JournalInv
<1>4. SyncedBetweenCalls'
  BY <1>2, <1>3 DEF JournalInv, SyncedBetweenCalls, OneKindOfRestart
<1> QED
  BY <1>1, <1>2, <1>3, <1>4, CompactionStep

LEMMA SyncDirectoryStep ==
  ASSUME JournalInv, UNCHANGED faults, SyncDirectory
  PROVE  JournalInv'
<1>1. /\ op.step = "dirsync" /\ op # Idle /\ snapCrash' = {snap}
      /\ op' = [op EXCEPT !.step = "truncate"]
      /\ UNCHANGED <<faults, phase, mem, snap, wal, walCrash, torn, tasks, told, runs>>
  BY DEF SyncDirectory, Idle
<1>2. /\ FilesShape' /\ SnapshotsAgree' /\ LogsBounded'
      /\ Recoveries' \subseteq Recoveries /\ Visible' = Visible
  BY <1>1, FewerCandidates DEF JournalInv, FilesShape
<1>3. snap' = mem
  BY <1>1 DEF JournalInv, CallShape
<1>4. CallShape' /\ op'.step = "truncate" /\ (Mutating' <=> Mutating)
      /\ (Mutating => op'.id = op.id /\ op'.rec = op.rec)
  BY <1>1, <1>3, NextCallShape DEF JournalInv
<1>5. SyncedBetweenCalls'
  BY <1>1, <1>4 DEF JournalInv, SyncedBetweenCalls, OneKindOfRestart
<1> QED
  BY <1>1, <1>2, <1>4, <1>5, CompactionStep

LEMMA TruncateStep ==
  ASSUME JournalInv, UNCHANGED faults, TruncateWal
  PROVE  JournalInv'
<1>1. /\ op.step = "truncate" /\ op # Idle /\ wal' = <<>>
      /\ op' = [op EXCEPT !.step = "truncsync"]
      /\ UNCHANGED <<faults, phase, mem, snap, snapCrash, torn, tasks, told, runs>>
  BY DEF TruncateWal, Idle
<1>2. /\ FilesShape' /\ SnapshotsAgree' /\ LogsBounded'
      /\ Recoveries' \subseteq Recoveries /\ Visible' = Visible
  BY TruncateDisk
<1>3. snap' = mem /\ snapCrash' = {snap'}
  BY <1>1 DEF JournalInv, CallShape
<1>4. CallShape' /\ op'.step = "truncsync" /\ (Mutating' <=> Mutating)
      /\ (Mutating => op'.id = op.id /\ op'.rec = op.rec)
  BY <1>1, <1>3, NextCallShape DEF JournalInv
<1>5. SyncedBetweenCalls'
  BY <1>4 DEF SyncedBetweenCalls
<1> QED
  BY <1>1, <1>2, <1>4, <1>5, CompactionStep

LEMMA SyncTruncationStep ==
  ASSUME JournalInv, UNCHANGED faults, SyncTruncation
  PROVE  JournalInv'
<1>1. /\ op.step = "truncsync" /\ op # Idle /\ walCrash' = {wal}
      /\ op' = IF op.kind = "compact" THEN Idle ELSE [op EXCEPT !.step = "append"]
      /\ UNCHANGED <<faults, phase, mem, snap, snapCrash, wal, torn, tasks, told, runs>>
  BY DEF SyncTruncation, Idle
<1>2. /\ FilesShape' /\ SnapshotsAgree' /\ LogsBounded'
      /\ Recoveries' \subseteq Recoveries /\ Visible' = Visible
  BY <1>1, FewerCandidates DEF JournalInv, FilesShape
<1>3. SyncedBetweenCalls'
  BY <1>1 DEF SyncedBetweenCalls
<1>4. CASE op.kind = "compact"
  <2>1. op' = Idle /\ op'.step # "sync" /\ ~Mutating'
    BY <1>1, <1>4 DEF Idle, Mutating
  <2>2. CallShape'
    BY <1>1, <2>1 DEF JournalInv, CallShape, Idle
  <2> QED
    BY <1>1, <1>2, <1>3, <2>1, <2>2, CompactionStep
<1>5. CASE op.kind # "compact"
  <2>1. wal' = <<>> /\ Len(wal') + 1 <= WalCapacity
    <3>1. wal' = <<>>
      BY <1>1 DEF JournalInv, CallShape
    <3> QED
      BY <3>1, JournalAssumption
  <2>2. CallShape' /\ op'.step = "append" /\ (Mutating' <=> Mutating)
        /\ (Mutating => op'.id = op.id /\ op'.rec = op.rec)
    BY <1>1, <1>5, <2>1, NextCallShape DEF JournalInv
  <2> QED
    BY <1>1, <1>2, <1>3, <2>2, CompactionStep
<1> QED
  BY <1>4, <1>5

-----------------------------------------------------------------------------
(* Appending a line. *)
LEMMA WriteLineStep ==
  ASSUME JournalInv, UNCHANGED faults, WriteLine
  PROVE  JournalInv'
<1>1. /\ FilesShape' /\ SnapshotsAgree' /\ LogsBounded'
      /\ Recoveries' \subseteq Recoveries \cup {Start(Mutated)}
      /\ Visible' = Start(Mutated)
  BY WriteLineDisk
<1>2. /\ op.step = "append" /\ op # Idle /\ torn' = FALSE /\ op' = [op EXCEPT !.step = "sync"]
      /\ UNCHANGED <<faults, phase, mem, snap, snapCrash, tasks, told, runs>>
  BY DEF WriteLine, Idle
<1>3. /\ Mutating /\ op.id \in Requests /\ op.rec \in Records /\ mem.seq + 1 <= MaxSeq
      /\ phase \in {"recovering", "open"} /\ mem \in Snapshot
  BY <1>2 DEF JournalInv, CallShape, Mutating
<1>4. /\ op'.kind = op.kind /\ op'.id = op.id /\ op'.rec = op.rec /\ op'.step = "sync"
      /\ op' = [kind |-> op'.kind, step |-> op'.step, id |-> op'.id, rec |-> op'.rec]
  <2>1. op = [kind |-> op.kind, step |-> op.step, id |-> op.id, rec |-> op.rec]
    BY DEF JournalInv, CallShape
  <2>2. op' = [kind |-> op.kind, step |-> "sync", id |-> op.id, rec |-> op.rec]
    BY <1>2, <2>1
  <2> QED
    BY <2>2
<1>5. CallShape'
  <2>1. Mutating'
    BY <1>3, <1>4 DEF Mutating
  <2>2. op'.kind = "admit" => /\ op'.rec.state = "running" /\ op'.rec.exec # 0
                              /\ runs'[op'.id] = 0 /\ mem'.seq + 2 <= MaxSeq
    BY <1>2, <1>4 DEF JournalInv, CallShape
  <2> QED
    BY <1>2, <1>3, <1>4, <2>1, <2>2 DEF JournalInv, CallShape
<1>6. HistoryShape'
  BY <1>2 DEF JournalInv, HistoryShape
<1>7. MemoryIsVisible'
  <2>1. Mutated' = Mutated
    BY <1>2, <1>4 DEF Mutated
  <2> QED
    BY <1>1, <1>4, <2>1 DEF MemoryIsVisible
<1>8. /\ Start(Mutated).ok /\ Start(Mutated).seq = mem.seq + 1
      /\ \A r \in Requests :
           Start(Mutated).recs[r] = IF r = op.id THEN op.rec ELSE mem.recs[r]
  BY <1>3 DEF Start, Mutated, Snapshot
<1> DEFINE z == Start(Mutated)
<1> HIDE DEF z
<1>9. z.ok /\ z.seq <= MaxSeq
      /\ \A r \in Requests : z.recs[r] = IF r = op.id THEN op.rec ELSE mem.recs[r]
  BY <1>3, <1>8 DEF z
<1>10. Recoveries' \subseteq Recoveries \cup {z}
  BY <1>1 DEF z
<1>11. RestartsBounded'
  BY <1>9, <1>10 DEF JournalInv, RestartsBounded
<1>12. MutationKeepsExecution' /\ MutationKeepsResult'
  BY <1>2, <1>3, <1>4 DEF JournalInv, MutationKeepsExecution, MutationKeepsResult,
                          OneKindOfRestart
<1>13. ExecutedAtMostOnce'
  <2> SUFFICES ASSUME NEW r \in Requests
               PROVE  /\ runs'[r] <= 1
                      /\ runs'[r] = 1 => \A s \in Recoveries' :
                                            s.recs[r] # NoRecord /\ s.recs[r].exec # 0
    BY DEF ExecutedAtMostOnce
  <2>1. /\ runs[r] <= 1
        /\ runs[r] = 1 => \A s \in Recoveries : s.recs[r] # NoRecord /\ s.recs[r].exec # 0
    BY DEF JournalInv, ExecutedAtMostOnce
  <2>2. runs[r] = 1 => mem.recs[r] # NoRecord /\ mem.recs[r].exec # 0
    BY <1>2, <1>3, MemoryFacts
  <2>3. runs[r] = 1 /\ r = op.id => op.rec # NoRecord /\ op.rec.exec # 0
    BY <1>3 DEF JournalInv, MutationKeepsExecution
  <2>4. runs[r] = 1 => z.recs[r] # NoRecord /\ z.recs[r].exec # 0
    BY <1>9, <2>2, <2>3
  <2> QED
    BY <1>2, <1>10, <2>1, <2>4
<1>14. ReportedResultSurvives'
  <2> SUFFICES ASSUME OneKindOfRestart', NEW m \in told',
                      NEW s \in IF "power" \in faults' THEN Recoveries'
                                ELSE {replay_wal(snap', wal')}
               PROVE  s.recs[m.id].state \in Terminal /\ s.recs[m.id].result \in {m.result, "unknown"}
    BY DEF ReportedResultSurvives
  <2>1. OneKindOfRestart /\ m \in told /\ m.id \in Requests
    BY <1>2 DEF OneKindOfRestart, JournalInv, HistoryShape
  <2>2. z.recs[m.id].state \in Terminal /\ z.recs[m.id].result \in {m.result, "unknown"}
    <3>1. mem.recs[m.id].state \in Terminal /\ mem.recs[m.id].result \in {m.result, "unknown"}
      BY <1>2, <1>3, <2>1, MemoryFacts
    <3>2. m.id = op.id => op.rec.state \in Terminal /\ op.rec.result \in {m.result, "unknown"}
      BY <1>3, <2>1 DEF JournalInv, MutationKeepsResult
    <3> QED
      BY <1>9, <2>1, <3>1, <3>2
  <2>3. s = z \/ (s \in Recoveries /\ "power" \in faults)
    BY <1>1, <1>2, <1>10 DEF Visible, z
  <2> QED
    BY <2>1, <2>2, <2>3 DEF JournalInv, ReportedResultSurvives
<1>15. SyncedBetweenCalls'
  BY <1>4 DEF SyncedBetweenCalls
<1> QED
  BY <1>1, <1>5, <1>6, <1>7, <1>11, <1>12, <1>13, <1>14, <1>15 DEF JournalInv

-----------------------------------------------------------------------------
(* Failures and restarts: the call in progress is lost. *)
LEMMA StopStep ==
  ASSUME JournalInv, UNCHANGED <<faults, mem, told, runs>>, tasks' \subseteq tasks,
         op' = Idle, phase' \in {"closed", "fenced"}, torn' \in BOOLEAN,
         FilesShape', SnapshotsAgree', LogsBounded',
         Recoveries' \subseteq Recoveries, Visible' \in Recoveries,
         "power" \notin faults => Visible' = Visible,
         OneKindOfRestart /\ "power" \in faults => walCrash' = {wal'}
  PROVE  JournalInv'
<1>1. FewerRestarts
  BY DEF FewerRestarts
<1>2. CallShape'
  BY DEF JournalInv, CallShape, Idle
<1>3. HistoryShape'
  BY DEF JournalInv, HistoryShape
<1>4. MemoryIsVisible'
  BY DEF MemoryIsVisible
<1>5. SyncedBetweenCalls'
  BY DEF SyncedBetweenCalls, OneKindOfRestart
<1>6. ~Mutating'
  BY DEF Mutating, Idle
<1>7. MutationKeepsExecution' /\ MutationKeepsResult'
  BY <1>6 DEF MutationKeepsExecution, MutationKeepsResult
<1> QED
  BY <1>1, <1>2, <1>3, <1>4, <1>5, <1>7, FrameStep

(* A failed call, a closed owner and a process that exits leave the files alone. *)
LEMMA SameFilesStop ==
  ASSUME JournalInv, UNCHANGED <<faults, mem, snap, snapCrash, wal, walCrash, told, runs>>,
         tasks' \subseteq tasks, op' = Idle, phase' \in {"closed", "fenced"},
         torn' \in BOOLEAN,
         OneKindOfRestart /\ "power" \in faults => op.step \notin {"sync", "truncsync"}
  PROVE  JournalInv'
<1>1. /\ FilesShape' /\ SnapshotsAgree' /\ LogsBounded'
      /\ Recoveries' = Recoveries /\ Visible' = Visible /\ Visible \in Recoveries
  BY SameFiles
<1>2. OneKindOfRestart /\ "power" \in faults => walCrash' = {wal'}
  BY DEF JournalInv, SyncedBetweenCalls
<1> QED
  BY <1>1, <1>2, StopStep

LEMMA WriteFailsStep ==
  ASSUME JournalInv, UNCHANGED faults, WriteFails
  PROVE  JournalInv'
<1>1. torn' \in BOOLEAN
  BY DEF WriteFails, JournalInv, CallShape
<1> QED
  BY <1>1, SameFilesStop DEF WriteFails, IoError

LEMMA SyncFailsStep ==
  ASSUME JournalInv, UNCHANGED faults, SyncFails
  PROVE  JournalInv'
<1>1. torn' \in BOOLEAN
  BY DEF SyncFails, JournalInv, CallShape
<1>2. ~(OneKindOfRestart /\ "power" \in faults)
  BY DEF SyncFails, OneKindOfRestart
<1> QED
  BY <1>1, <1>2, SameFilesStop DEF SyncFails, IoError

LEMMA ProcessExitStep ==
  ASSUME JournalInv, UNCHANGED faults, ProcessExit
  PROVE  JournalInv'
<1>1. torn' \in BOOLEAN
  BY DEF ProcessExit, diskVars, JournalInv, CallShape
<1>2. ~(OneKindOfRestart /\ "power" \in faults)
  BY DEF ProcessExit, OneKindOfRestart
<1> QED
  BY <1>1, <1>2, SameFilesStop DEF ProcessExit, diskVars

LEMMA CloseStep ==
  ASSUME JournalInv, UNCHANGED faults, Close
  PROVE  JournalInv'
<1>1. torn' \in BOOLEAN
  BY DEF Close, diskVars, JournalInv, CallShape
<1>2. op = Idle
  BY DEF Close, JournalInv, CallShape
<1>3. /\ UNCHANGED <<mem, snap, snapCrash, wal, walCrash, told, runs>>
      /\ tasks' \subseteq tasks /\ op' = Idle /\ phase' \in {"closed", "fenced"}
  BY <1>2 DEF Close, diskVars
<1>4. op.step \notin {"sync", "truncsync"}
  BY <1>2 DEF Idle
<1> QED
  BY <1>1, <1>3, <1>4, SameFilesStop

LEMMA PowerLossStep ==
  ASSUME JournalInv, UNCHANGED faults, PowerLoss
  PROVE  JournalInv'
<1>1. /\ FilesShape' /\ SnapshotsAgree' /\ LogsBounded'
      /\ Recoveries' = {Visible'} /\ Visible' \in Recoveries
  BY PowerLossDisk
<1>2. /\ "power" \in faults /\ walCrash' = {wal'} /\ torn' \in BOOLEAN /\ op' = Idle
      /\ phase' \in {"closed", "fenced"} /\ tasks' \subseteq tasks
      /\ UNCHANGED <<faults, mem, told, runs>>
  BY DEF PowerLoss
<1> QED
  BY <1>1, <1>2, StopStep

-----------------------------------------------------------------------------
(* Opening the journal. *)
LEMMA OpenStep ==
  ASSUME JournalInv, UNCHANGED faults, Open
  PROVE  JournalInv'
<1>1. /\ phase = "closed" /\ torn' = FALSE
      /\ walCrash' = IF torn THEN {wal} ELSE walCrash
      /\ UNCHANGED <<faults, snap, snapCrash, wal, op, tasks, told, runs>>
  BY DEF Open
<1>2. op = Idle /\ op.step # "sync"
  BY <1>1 DEF JournalInv, CallShape, Idle
<1>3. /\ FilesShape' /\ SnapshotsAgree' /\ LogsBounded'
      /\ Recoveries' \subseteq Recoveries /\ Visible' = Visible
  BY <1>1, FewerCandidates DEF JournalInv, FilesShape
<1>4. Visible \in Recoveries /\ Visible \in State
  BY RestartsAre DEF JournalInv
<1>5. Visible.ok /\ Visible.seq <= MaxSeq
  BY <1>4 DEF JournalInv, RestartsBounded
<1>6. phase' = "recovering" /\ mem' = [seq |-> Visible.seq, recs |-> Visible.recs]
  BY <1>5 DEF Open, Visible
<1>7. mem' \in Snapshot /\ mem'.seq <= MaxSeq /\ Start(mem') = Visible
  BY <1>4, <1>5, <1>6 DEF State, Snapshot, Start
<1>8. FewerRestarts
  BY <1>1, <1>3, <1>4 DEF FewerRestarts
<1>9. CallShape'
  BY <1>1, <1>2, <1>6, <1>7 DEF CallShape, Idle
<1>10. HistoryShape'
  BY <1>1 DEF JournalInv, HistoryShape
<1>11. MemoryIsVisible'
  BY <1>1, <1>2, <1>3, <1>7 DEF MemoryIsVisible
<1>12. SyncedBetweenCalls'
  BY <1>1 DEF JournalInv, SyncedBetweenCalls, OneKindOfRestart
<1>13. ~Mutating'
  BY <1>1, <1>2 DEF Mutating, Idle
<1>14. MutationKeepsExecution' /\ MutationKeepsResult'
  BY <1>13 DEF MutationKeepsExecution, MutationKeepsResult
<1> QED
  BY <1>3, <1>8, <1>9, <1>10, <1>11, <1>12, <1>14, FrameStep

LEMMA CompactCall ==
  [Idle EXCEPT !.kind = "compact", !.step = "rename"]
    = [kind |-> "compact", step |-> "rename", id |-> "none", rec |-> NoRecord]
<1>1. PICK i : i = Idle
  OBVIOUS
<1>2. i \in [kind: {"idle"}, step: {"none"}, id: {"none"}, rec: {NoRecord}]
  BY <1>1 DEF Idle
<1>3. PICK y : y = [i EXCEPT !.kind = "compact", !.step = "rename"]
  OBVIOUS
<1>4. y \in [kind: {"compact"}, step: {"rename"}, id: {"none"}, rec: {NoRecord}]
  BY <1>2, <1>3
<1> QED
  BY <1>1, <1>3, <1>4

LEMMA OpenedStep ==
  ASSUME JournalInv, UNCHANGED faults, Opened
  PROVE  JournalInv'
<1> DEFINE c == [Idle EXCEPT !.kind = "compact", !.step = "rename"]
<1>1. /\ phase = "recovering" /\ op = Idle /\ phase' = "open" /\ op' \in {c, Idle}
      /\ UNCHANGED <<faults, mem, snap, snapCrash, wal, walCrash, torn, tasks, told, runs>>
  BY DEF Opened, diskVars
<1>2. /\ op' = [kind |-> op'.kind, step |-> op'.step, id |-> op'.id, rec |-> op'.rec]
      /\ op' = Idle \/ (op'.kind = "compact" /\ op'.step = "rename")
      /\ ~Mutating' /\ op'.kind # "admit" /\ op'.step \in {"rename", "none"}
  <2>1. c = [kind |-> "compact", step |-> "rename", id |-> "none", rec |-> NoRecord]
    BY CompactCall
  <2> HIDE DEF c
  <2>2. CASE op' = c
    BY <2>1, <2>2 DEF Mutating
  <2>3. CASE op' = Idle
    BY <2>3 DEF Idle, Mutating
  <2> QED
    BY <1>1, <2>2, <2>3
<1> HIDE DEF c
<1>3. /\ FilesShape' /\ SnapshotsAgree' /\ LogsBounded'
      /\ Recoveries' = Recoveries /\ Visible' = Visible /\ Visible \in Recoveries
  BY <1>1, SameFiles
<1>4. FewerRestarts
  BY <1>1, <1>3 DEF FewerRestarts
<1>5. CallShape'
  BY <1>1, <1>2 DEF JournalInv, CallShape
<1>6. HistoryShape'
  BY <1>1 DEF JournalInv, HistoryShape
<1>7. MemoryIsVisible'
  <2>1. Visible = Start(mem)
    BY <1>1, MemoryFacts DEF Idle
  <2> QED
    BY <1>1, <1>2, <1>3, <2>1 DEF MemoryIsVisible
<1>8. SyncedBetweenCalls'
  BY <1>1 DEF JournalInv, SyncedBetweenCalls, OneKindOfRestart, Idle
<1>9. MutationKeepsExecution' /\ MutationKeepsResult'
  BY <1>2 DEF MutationKeepsExecution, MutationKeepsResult
<1> QED
  BY <1>3, <1>4, <1>5, <1>6, <1>7, <1>8, <1>9, FrameStep

-----------------------------------------------------------------------------
(* A stored result is sent again.  Between two calls every restart that can     *)
(* happen finds the memory.                                                     *)
LEMMA ReplayPendingStep ==
  ASSUME JournalInv, UNCHANGED faults, ReplayPending
  PROVE  JournalInv'
<1> DEFINE pending == {x \in Requests : mem.recs[x].state \in Terminal}
<1>1. /\ phase = "open" /\ op = Idle
      /\ told' = told \cup {Message(r, mem.recs[r]) : r \in pending}
      /\ UNCHANGED <<faults, phase, mem, snap, snapCrash, wal, walCrash, torn, op, tasks, runs>>
  BY DEF ReplayPending, Ready, diskVars
<1>2. /\ FilesShape' /\ SnapshotsAgree' /\ LogsBounded'
      /\ Recoveries' = Recoveries /\ Visible' = Visible /\ Visible \in Recoveries
  BY <1>1, SameFiles
<1>3. /\ mem.recs \in [Requests -> Records] /\ Visible = Start(mem) /\ mem \in Snapshot
  BY <1>1, MemoryFacts DEF Idle
<1>4. Visible.recs = mem.recs
  BY <1>3, StartTypes
<1>5. CallShape' /\ MemoryIsVisible' /\ SyncedBetweenCalls' /\ ExecutedAtMostOnce'
      /\ RestartsBounded'
  <2>1. CallShape'
    BY <1>1 DEF JournalInv, CallShape
  <2>2. MemoryIsVisible'
    BY <1>1, <1>2, <1>3 DEF MemoryIsVisible, Idle
  <2>3. SyncedBetweenCalls'
    BY <1>1 DEF JournalInv, SyncedBetweenCalls, OneKindOfRestart
  <2>4. ExecutedAtMostOnce' /\ RestartsBounded'
    BY <1>1, <1>2 DEF JournalInv, ExecutedAtMostOnce, RestartsBounded
  <2> QED
    BY <2>1, <2>2, <2>3, <2>4
<1>6. MutationKeepsExecution' /\ MutationKeepsResult'
  BY <1>1 DEF MutationKeepsExecution, MutationKeepsResult, Mutating, Idle
<1>7. \A r \in pending : /\ Message(r, mem.recs[r]) \in [id: Requests, gen: Gens, result: Results]
                         /\ Message(r, mem.recs[r]).id = r
                         /\ Message(r, mem.recs[r]).result = mem.recs[r].result
  <2> TAKE r \in pending
  <2>1. mem.recs[r] \in Records /\ mem.recs[r].state \in Terminal /\ r \in Requests
    BY <1>3
  <2>2. mem.recs[r].gen \in Gens /\ mem.recs[r].result \in Results
    BY <2>1 DEF Records, Record, NoRecord, Terminal
  <2> QED
    BY <2>1, <2>2 DEF Message
<1> HIDE DEF pending
<1>8. HistoryShape'
  BY <1>1, <1>7 DEF JournalInv, HistoryShape
<1>9. ReportedResultSurvives'
  <2> SUFFICES ASSUME OneKindOfRestart', NEW m \in told',
                      NEW s \in IF "power" \in faults' THEN Recoveries'
                                ELSE {replay_wal(snap', wal')}
               PROVE  s.recs[m.id].state \in Terminal /\ s.recs[m.id].result \in {m.result, "unknown"}
    BY DEF ReportedResultSurvives
  <2>1. OneKindOfRestart
    BY <1>1 DEF OneKindOfRestart
  <2>2. s = Visible
    <3>1. CASE "power" \in faults
      <4>1. walCrash = {wal}
        BY <1>1, <2>1, <3>1 DEF JournalInv, SyncedBetweenCalls, Idle
      <4>2. Recoveries = {replay_wal(x, u) : x \in snapCrash, u \in walCrash}
        BY RestartsAre DEF JournalInv
      <4> QED
        BY <1>1, <1>2, <3>1, <4>1, <4>2 DEF JournalInv, SnapshotsAgree
    <3>2. CASE "power" \notin faults
      BY <1>1, <3>2 DEF Visible
    <3> QED
      BY <3>1, <3>2
  <2>3. CASE m \in told
    BY <1>4, <1>1, <2>1, <2>2, <2>3, MemoryFacts DEF Idle
  <2>4. CASE m \notin told
    <3>1. PICK r \in pending : m = Message(r, mem.recs[r])
      BY <1>1, <2>4
    <3>2. mem.recs[r].state \in Terminal
      BY DEF pending
    <3> QED
      BY <1>4, <1>7, <2>2, <3>1, <3>2
  <2> QED
    BY <2>3, <2>4
<1> QED
  BY <1>2, <1>5, <1>6, <1>8, <1>9 DEF JournalInv

-----------------------------------------------------------------------------
(* The line is synced: the only restart left finds the mutation, and the caller *)
(* is answered from it.                                                         *)
LEMMA SyncLineFacts ==
  ASSUME JournalInv, SyncLine
  PROVE  /\ FilesShape' /\ SnapshotsAgree' /\ LogsBounded'
         /\ Recoveries' = {Visible} /\ Visible' = Visible /\ Visible \in Recoveries
         /\ mem' \in Snapshot /\ mem'.seq = mem.seq + 1 /\ mem'.seq <= MaxSeq
         /\ Visible = Start(mem')
         /\ Mutating /\ op.id \in Requests /\ op.rec \in Records
         /\ mem'.recs[op.id] = op.rec
         /\ phase \in {"recovering", "open"} /\ torn = FALSE /\ mem \in Snapshot
<1>1. /\ op.step = "sync" /\ walCrash' = {wal} /\ mem' = Mutated
      /\ UNCHANGED <<phase, snap, snapCrash, wal, torn>>
  BY DEF SyncLine, Mutated
<1>2. /\ Mutating /\ op.id \in Requests /\ op.rec \in Records /\ mem.seq + 1 <= MaxSeq
      /\ mem \in Snapshot /\ phase \in {"recovering", "open"} /\ torn = FALSE
  BY <1>1 DEF JournalInv, CallShape, Idle
<1>3. /\ FilesShape' /\ SnapshotsAgree' /\ LogsBounded' /\ Visible' = Visible
  BY <1>1, FewerCandidates DEF JournalInv, FilesShape
<1>4. Recoveries' = {replay_wal(s, u) : s \in snapCrash', u \in walCrash'}
  BY <1>3 DEF FilesShape, Recoveries
<1>5. Recoveries' = {Visible}
  BY <1>1, <1>3, <1>4 DEF JournalInv, SnapshotsAgree, FilesShape
<1>6. Visible = Start(mem')
  BY <1>1, <1>2 DEF JournalInv, MemoryIsVisible
<1>7. mem' \in Snapshot /\ mem'.seq = mem.seq + 1 /\ mem'.recs[op.id] = op.rec
  <2>1. mem.seq \in Nat /\ mem.recs \in [Requests -> Records]
    BY <1>2, StartTypes
  <2>2. [mem.recs EXCEPT ![op.id] = op.rec] \in [Requests -> Records]
        /\ [mem.recs EXCEPT ![op.id] = op.rec][op.id] = op.rec
    BY <1>2, <2>1
  <2> QED
    BY <1>1, <2>1, <2>2 DEF Mutated, Snapshot
<1>8. mem'.seq <= MaxSeq
  BY <1>2, <1>7
<1> QED
  BY <1>1, <1>2, <1>3, <1>5, <1>6, <1>7, <1>8, RestartsAre DEF JournalInv

LEMMA SyncedStep ==
  ASSUME JournalInv, UNCHANGED faults, SyncLine, op'.step # "sync",
         CallShape', HistoryShape', MutationKeepsExecution', MutationKeepsResult',
         \A r \in Requests : /\ runs'[r] <= 1
                             /\ runs'[r] = 1 => mem'.recs[r] # NoRecord /\ mem'.recs[r].exec # 0,
         OneKindOfRestart => \A m \in told' : /\ mem'.recs[m.id].state \in Terminal
                                              /\ mem'.recs[m.id].result \in {m.result, "unknown"}
  PROVE  JournalInv'
<1>1. /\ FilesShape' /\ SnapshotsAgree' /\ LogsBounded'
      /\ Recoveries' = {Visible} /\ Visible' = Visible /\ Visible = Start(mem')
      /\ mem' \in Snapshot /\ mem'.seq <= MaxSeq
  BY SyncLineFacts
<1>2. Visible.recs = mem'.recs /\ Visible.ok /\ Visible.seq <= MaxSeq
  <2>1. ASSUME NEW n \in Snapshot, Visible = Start(n)
        PROVE  Visible.recs = n.recs /\ Visible.ok /\ Visible.seq = n.seq
    BY <2>1, StartTypes
  <2> QED
    BY <1>1, <2>1
<1>3. MemoryIsVisible'
  BY <1>1 DEF MemoryIsVisible
<1>4. RestartsBounded' /\ ExecutedAtMostOnce'
  BY <1>1, <1>2 DEF RestartsBounded, ExecutedAtMostOnce
<1>5. ReportedResultSurvives'
  <2>1. OneKindOfRestart' <=> OneKindOfRestart
    BY DEF OneKindOfRestart
  <2>2. replay_wal(snap', wal') = Visible
    BY <1>1 DEF Visible
  <2> QED
    BY <1>1, <1>2, <2>1, <2>2 DEF ReportedResultSurvives
<1>6. SyncedBetweenCalls'
  BY DEF SyncLine, SyncedBetweenCalls
<1> QED
  BY <1>1, <1>3, <1>4, <1>5, <1>6 DEF JournalInv

(* What the histories said of the restarts holds of the synced memory. *)
LEMMA SyncedHistory ==
  ASSUME JournalInv, SyncLine
  PROVE  /\ \A r \in Requests : /\ runs[r] \in {0, 1}
                                /\ runs[r] = 1 => mem'.recs[r] # NoRecord /\ mem'.recs[r].exec # 0
         /\ OneKindOfRestart => \A m \in told : /\ mem'.recs[m.id].state \in Terminal
                                                /\ mem'.recs[m.id].result \in {m.result, "unknown"}
<1>1. Visible = Start(mem') /\ mem' \in Snapshot /\ Visible \in Recoveries
  BY SyncLineFacts
<1>2. Visible.recs = mem'.recs
  <2>1. ASSUME NEW n \in Snapshot, Visible = Start(n) PROVE Visible.recs = n.recs
    BY <2>1, StartTypes
  <2> QED
    BY <1>1, <2>1
<1>3. ASSUME NEW r \in Requests
      PROVE  /\ runs[r] \in {0, 1}
             /\ runs[r] = 1 => mem'.recs[r] # NoRecord /\ mem'.recs[r].exec # 0
  <2>1. runs[r] \in Nat /\ runs[r] <= 1
    BY DEF JournalInv, HistoryShape, ExecutedAtMostOnce
  <2>2. runs[r] = 1 => Visible.recs[r] # NoRecord /\ Visible.recs[r].exec # 0
    BY <1>1 DEF JournalInv, ExecutedAtMostOnce
  <2> QED
    BY <1>2, <2>1, <2>2
<1>4. ASSUME OneKindOfRestart, NEW m \in told
      PROVE  mem'.recs[m.id].state \in Terminal /\ mem'.recs[m.id].result \in {m.result, "unknown"}
  <2>1. Visible \in IF "power" \in faults THEN Recoveries ELSE {replay_wal(snap, wal)}
    BY <1>1 DEF Visible
  <2> QED
    BY <1>2, <1>4, <2>1 DEF JournalInv, ReportedResultSurvives
<1> QED
  BY <1>3, <1>4

(* The caller is answered and no mutation is in progress. *)
LEMMA AnsweredStep ==
  ASSUME JournalInv, UNCHANGED faults, SyncLine, HistoryShape',
         op' \in {Idle, [Idle EXCEPT !.kind = "compact", !.step = "rename"]},
         \A r \in Requests : /\ runs'[r] <= 1
                             /\ runs'[r] = 1 => mem'.recs[r] # NoRecord /\ mem'.recs[r].exec # 0,
         OneKindOfRestart => \A m \in told' : /\ mem'.recs[m.id].state \in Terminal
                                              /\ mem'.recs[m.id].result \in {m.result, "unknown"}
  PROVE  JournalInv'
<1>1. /\ op' = [kind |-> op'.kind, step |-> op'.step, id |-> op'.id, rec |-> op'.rec]
      /\ op' = Idle \/ (op'.kind = "compact" /\ op'.step = "rename")
      /\ ~Mutating' /\ op'.kind # "admit" /\ op'.step \in {"rename", "none"}
  <2>1. PICK c : c = [kind |-> "compact", step |-> "rename", id |-> "none", rec |-> NoRecord]
    OBVIOUS
  <2>2. CASE op' = c
    BY <2>1, <2>2 DEF Mutating
  <2>3. CASE op' = Idle
    BY <2>3 DEF Idle, Mutating
  <2> QED
    BY <2>1, <2>2, <2>3, CompactCall
<1>2. /\ phase' = phase /\ torn' = torn /\ mem' \in Snapshot /\ mem'.seq <= MaxSeq
      /\ phase \in {"recovering", "open"} /\ torn = FALSE
  BY SyncLineFacts DEF SyncLine
<1>3. CallShape'
  BY <1>1, <1>2 DEF CallShape
<1>4. MutationKeepsExecution' /\ MutationKeepsResult'
  BY <1>1 DEF MutationKeepsExecution, MutationKeepsResult
<1> QED
  BY <1>1, <1>3, <1>4, SyncedStep

(* A task is started: its record is durable and says that it runs. *)
LEMMA SpawnStep ==
  ASSUME JournalInv, UNCHANGED faults, SyncLine, op.kind = "admit",
         tasks' = tasks \cup {op.id}, runs' = [runs EXCEPT ![op.id] = @ + 1],
         op' = Idle, UNCHANGED told
  PROVE  JournalInv'
<1>1. op.id \in Requests /\ mem'.recs[op.id] = op.rec
  BY SyncLineFacts
<1>2. runs[op.id] = 0 /\ op.rec # NoRecord /\ op.rec.exec # 0
  BY DEF JournalInv, CallShape, NoRecord
<1>3. HistoryShape'
  BY <1>1, <1>2 DEF JournalInv, HistoryShape
<1>4. \A r \in Requests : runs'[r] = IF r = op.id THEN 1 ELSE runs[r]
  BY <1>1, <1>2 DEF JournalInv, HistoryShape
<1>5. \A r \in Requests : /\ runs'[r] <= 1
                          /\ runs'[r] = 1 => mem'.recs[r] # NoRecord /\ mem'.recs[r].exec # 0
  BY <1>1, <1>2, <1>4, SyncedHistory
<1>6. OneKindOfRestart => \A m \in told' : /\ mem'.recs[m.id].state \in Terminal
                                           /\ mem'.recs[m.id].result \in {m.result, "unknown"}
  BY SyncedHistory
<1> QED
  BY <1>3, <1>5, <1>6, AnsweredStep

(* A result is sent: it is the one in the durable record. *)
LEMMA TellStep ==
  ASSUME JournalInv, UNCHANGED faults, SyncLine, op' = Idle, UNCHANGED <<tasks, runs>>,
         told' = IF op.rec.state \in Terminal THEN told \cup {Message(op.id, op.rec)} ELSE told
  PROVE  JournalInv'
<1>1. op.id \in Requests /\ mem'.recs[op.id] = op.rec /\ op.rec \in Records
  BY SyncLineFacts
<1>2. op.rec.state \in Terminal =>
        /\ Message(op.id, op.rec) \in [id: Requests, gen: Gens, result: Results]
        /\ Message(op.id, op.rec).id = op.id /\ Message(op.id, op.rec).result = op.rec.result
  <2> SUFFICES ASSUME op.rec.state \in Terminal
               PROVE  /\ Message(op.id, op.rec) \in [id: Requests, gen: Gens, result: Results]
                      /\ Message(op.id, op.rec).id = op.id
                      /\ Message(op.id, op.rec).result = op.rec.result
    OBVIOUS
  <2>1. op.rec.gen \in Gens /\ op.rec.result \in Results
    BY <1>1 DEF Records, Record, NoRecord, Terminal
  <2> QED
    BY <1>1, <2>1 DEF Message
<1>3. HistoryShape'
  BY <1>2 DEF JournalInv, HistoryShape
<1>4. \A r \in Requests : /\ runs'[r] <= 1
                          /\ runs'[r] = 1 => mem'.recs[r] # NoRecord /\ mem'.recs[r].exec # 0
  BY SyncedHistory
<1>5. OneKindOfRestart => \A m \in told' : /\ mem'.recs[m.id].state \in Terminal
                                           /\ mem'.recs[m.id].result \in {m.result, "unknown"}
  <2> SUFFICES ASSUME OneKindOfRestart, NEW m \in told'
               PROVE  mem'.recs[m.id].state \in Terminal /\ mem'.recs[m.id].result \in {m.result, "unknown"}
    OBVIOUS
  <2>1. CASE m \in told
    BY <2>1, SyncedHistory
  <2>2. CASE m \notin told
    BY <1>1, <1>2, <2>2
  <2> QED
    BY <2>1, <2>2
<1> QED
  BY <1>3, <1>4, <1>5, AnsweredStep

(* A task whose deadline has passed is settled at once: the second mutation of *)
(* its admission has room, and nothing was reported of its record.             *)
LEMMA RejectStep ==
  ASSUME JournalInv, UNCHANGED faults, SyncLine, op.kind = "admit",
         Commit("complete", op.id, [op.rec EXCEPT !.state = "completed", !.result = "rejected"]),
         UNCHANGED <<tasks, told, runs>>
  PROVE  JournalInv'
<1>1. /\ op.id \in Requests /\ mem'.recs[op.id] = op.rec /\ op.rec \in Records
      /\ phase \in {"recovering", "open"} /\ torn = FALSE
      /\ mem' \in Snapshot /\ mem'.seq = mem.seq + 1 /\ mem'.seq <= MaxSeq /\ mem \in Snapshot
  BY SyncLineFacts
<1>2. runs[op.id] = 0 /\ op.rec.state = "running" /\ mem.seq + 2 <= MaxSeq
  BY DEF JournalInv, CallShape
<1>3. PICK x : x = op.rec
  OBVIOUS
<1>4. PICK y : y = [x EXCEPT !.state = "completed", !.result = "rejected"]
  OBVIOUS
<1>5. y \in Records
  <2>1. x \in Record
    BY <1>1, <1>2, <1>3 DEF Records, NoRecord
  <2>2. y \in Record /\ y.state = "completed" /\ y.result = "rejected"
    BY <1>4, <2>1 DEF Record, Terminal, Results
  <2> QED
    BY <2>2 DEF Records
<1>6. Commit("complete", op.id, y)
  BY <1>3, <1>4
<1>7. /\ op'.kind = "complete" /\ op'.id = op.id /\ op'.rec = y /\ op'.step \in {"rename", "append"}
      /\ op'.step = "append" => ~(Len(wal) + 1 > WalCapacity)
      /\ op' = [kind |-> op'.kind, step |-> op'.step, id |-> op'.id, rec |-> op'.rec]
  BY <1>6 DEF Commit
<1>8. CallShape'
  <2>1. phase' = phase /\ torn' = torn /\ wal' = wal
    BY DEF SyncLine
  <2>2. Len(wal) \in Nat /\ WalCapacity \in Nat
    BY JournalAssumption DEF JournalInv, FilesShape
  <2>3. op'.step = "append" => Len(wal') + 1 <= WalCapacity
    BY <1>7, <2>1, <2>2
  <2>4. Mutating'
    BY <1>7 DEF Mutating
  <2>5. mem'.seq + 1 <= MaxSeq
    BY <1>1, <1>2, JournalAssumption DEF Snapshot
  <2> QED
    BY <1>1, <1>5, <1>7, <2>1, <2>3, <2>4, <2>5 DEF CallShape
<1>9. HistoryShape'
  BY DEF JournalInv, HistoryShape
<1>10. MutationKeepsExecution'
  BY <1>2, <1>7 DEF MutationKeepsExecution
<1>11. MutationKeepsResult'
  <2>1. OneKindOfRestart => \A m \in told : m.id # op.id
    BY <1>1, <1>2, SyncedHistory DEF Terminal
  <2> QED
    BY <1>7, <2>1 DEF MutationKeepsResult, OneKindOfRestart
<1>12. \A r \in Requests : /\ runs'[r] <= 1
                           /\ runs'[r] = 1 => mem'.recs[r] # NoRecord /\ mem'.recs[r].exec # 0
  BY SyncedHistory
<1>13. OneKindOfRestart => \A m \in told' : /\ mem'.recs[m.id].state \in Terminal
                                            /\ mem'.recs[m.id].result \in {m.result, "unknown"}
  BY SyncedHistory
<1> QED
  BY <1>7, <1>8, <1>9, <1>10, <1>11, <1>12, <1>13, SyncedStep

LEMMA SyncLineStep ==
  ASSUME JournalInv, UNCHANGED faults, SyncLine
  PROVE  JournalInv'
<1>1. Respond
  BY DEF SyncLine
<1>2. op.kind \in {"admit", "redeliver", "complete", "ack", "recover"}
  BY SyncLineFacts DEF Mutating
<1>3. CASE op.kind = "admit"
  BY <1>1, <1>3, SpawnStep, RejectStep DEF Respond
<1>4. CASE op.kind \in {"redeliver", "complete"}
  BY <1>1, <1>4, TellStep DEF Respond
<1>5. CASE op.kind \in {"ack", "recover"}
  <2>1. /\ op' \in {Idle, [Idle EXCEPT !.kind = "compact", !.step = "rename"]}
        /\ UNCHANGED <<tasks, told, runs>>
    BY <1>1, <1>5 DEF Respond
  <2>2. HistoryShape'
    BY <2>1 DEF JournalInv, HistoryShape
  <2>3. \A r \in Requests : /\ runs'[r] <= 1
                            /\ runs'[r] = 1 => mem'.recs[r] # NoRecord /\ mem'.recs[r].exec # 0
    BY <2>1, SyncedHistory
  <2>4. OneKindOfRestart => \A m \in told' : /\ mem'.recs[m.id].state \in Terminal
                                             /\ mem'.recs[m.id].result \in {m.result, "unknown"}
    BY <2>1, SyncedHistory
  <2> QED
    BY <2>1, <2>2, <2>3, <2>4, AnsweredStep
<1> QED
  BY <1>2, <1>3, <1>4, <1>5

-----------------------------------------------------------------------------
LEMMA JournalStart == Init => JournalInv
<1> SUFFICES ASSUME Init PROVE JournalInv
  OBVIOUS
<1>1. /\ phase = "closed" /\ snap = mem /\ snapCrash = {mem} /\ wal = <<>> /\ walCrash = {<<>>}
      /\ torn = FALSE /\ op = Idle /\ tasks = {} /\ told = {} /\ runs = [r \in Requests |-> 0]
      /\ mem = [seq |-> 0, recs |-> [r \in Requests |-> NoRecord]]
  BY DEF Init
<1>2. mem \in Snapshot /\ mem.seq = 0
  BY <1>1 DEF Snapshot, Records
<1>3. FilesShape
  <2>1. <<>> \in Seq(Line) /\ Len(<<>>) <= WalCapacity
    BY JournalAssumption
  <2> QED
    BY <1>1, <1>2, <2>1 DEF FilesShape
<1>4. Visible = Start(mem)
  BY <1>1, ReplayEmpty DEF Visible
<1>5. Recoveries = {Visible}
  BY <1>1 DEF Recoveries, Visible
<1>6. SnapshotsAgree /\ LogsBounded /\ MemoryIsVisible
  BY <1>1, <1>2 DEF SnapshotsAgree, LogsBounded, MemoryIsVisible, Visible
<1>7. RestartsBounded
  <2>1. Visible.ok /\ Visible.seq = 0
    BY <1>2, <1>4, StartTypes
  <2> QED
    BY <1>5, <2>1, JournalAssumption DEF RestartsBounded
<1>8. CallShape
  <2>1. /\ op.kind = "idle" /\ op.step = "none"
        /\ op = [kind |-> op.kind, step |-> op.step, id |-> op.id, rec |-> op.rec]
    BY <1>1 DEF Idle
  <2>2. mem.seq <= MaxSeq
    BY <1>2, JournalAssumption
  <2> QED
    BY <1>1, <1>2, <2>1, <2>2 DEF CallShape
<1>9. HistoryShape /\ ExecutedAtMostOnce
  BY <1>1 DEF HistoryShape, ExecutedAtMostOnce
<1>10. MutationKeepsExecution /\ MutationKeepsResult
  BY <1>1 DEF MutationKeepsExecution, MutationKeepsResult, Mutating, Idle
<1>11. ReportedResultSurvives /\ SyncedBetweenCalls
  BY <1>1 DEF ReportedResultSurvives, SyncedBetweenCalls
<1> QED
  BY <1>3, <1>6, <1>7, <1>8, <1>9, <1>10, <1>11 DEF JournalInv

LEMMA JournalStep == JournalInv /\ [Next]_vars => JournalInv'
<1> SUFFICES ASSUME JournalInv, [Next]_vars PROVE JournalInv'
  OBVIOUS
<1>1. CASE UNCHANGED vars
  <2>1. FilesShape' /\ CallShape' /\ HistoryShape' /\ SnapshotsAgree' /\ LogsBounded'
    BY <1>1 DEF JournalInv, vars, FilesShape, CallShape, HistoryShape, SnapshotsAgree,
                LogsBounded, Visible, Mutating
  <2>2. MemoryIsVisible' /\ RestartsBounded' /\ ExecutedAtMostOnce' /\ ReportedResultSurvives'
    BY <1>1 DEF JournalInv, vars, MemoryIsVisible, RestartsBounded, ExecutedAtMostOnce,
                ReportedResultSurvives, Visible, Mutated, Recoveries, OneKindOfRestart
  <2>3. MutationKeepsExecution' /\ MutationKeepsResult' /\ SyncedBetweenCalls'
    BY <1>1 DEF JournalInv, vars, MutationKeepsExecution, MutationKeepsResult,
                SyncedBetweenCalls, Mutating, OneKindOfRestart
  <2> QED
    BY <2>1, <2>2, <2>3 DEF JournalInv
<1>2. CASE Next
  <2>1. UNCHANGED faults /\ Step
    BY <1>2 DEF Next
  <2>2. CASE WriteLine
    BY <2>1, <2>2, WriteLineStep
  <2>3. CASE SyncLine
    BY <2>1, <2>3, SyncLineStep
  <2>4. CASE Compaction
    BY <2>1, <2>4, RenameStep, SyncDirectoryStep, TruncateStep, SyncTruncationStep DEF Compaction
  <2>5. CASE WriteFails \/ SyncFails
    BY <2>1, <2>5, WriteFailsStep, SyncFailsStep
  <2>6. CASE \E r \in Requests, g \in Gens : Admit(r, g) \/ Redeliver(r, g) \/ Acknowledge(r, g)
    BY <2>1, <2>6, AdmitStep, RedeliverStep, AcknowledgeStep
  <2>7. CASE \E r \in Requests : Complete(r) \/ RecoverRunning(r)
    BY <2>1, <2>7, CompleteStep, RecoverRunningStep
  <2>8. CASE ReplayPending \/ Close \/ Open \/ Opened
    BY <2>1, <2>8, ReplayPendingStep, CloseStep, OpenStep, OpenedStep
  <2>9. CASE ProcessExit \/ PowerLoss
    BY <2>1, <2>9, ProcessExitStep, PowerLossStep
  <2> QED
    BY <2>1, <2>2, <2>3, <2>4, <2>5, <2>6, <2>7, <2>8, <2>9 DEF Step
<1> QED
  BY <1>1, <1>2

LEMMA JournalAlways == Spec => []JournalInv
<1>1. Init => JournalInv
  BY JournalStart
<1>2. JournalInv /\ [Next]_vars => JournalInv'
  BY JournalStep
<1> QED
  BY <1>1, <1>2, PTL DEF Spec

(* The journal is well formed, its log keeps within its capacity, and its        *)
(* sequence never passes the mutations the behaviour may make (commit_record).   *)
THEOREM JournalTypes == Spec => []JournalTypeOK
<1>1. JournalInv => JournalTypeOK
  <2> SUFFICES ASSUME JournalInv PROVE JournalTypeOK
    OBVIOUS
  <2>1. mem.seq \in 0..MaxSeq /\ mem.recs \in [Requests -> Record \cup {NoRecord}]
    BY JournalAssumption DEF JournalInv, CallShape, Snapshot, Records
  <2>2. /\ phase \in {"closed", "recovering", "open", "fenced", "corrupt"} /\ torn \in BOOLEAN
    BY DEF JournalInv, CallShape
  <2>3. Len(wal) <= WalCapacity /\ snapCrash # {} /\ walCrash # {}
    BY DEF JournalInv, FilesShape
  <2> QED
    BY <2>1, <2>2, <2>3 DEF JournalInv, HistoryShape, JournalTypeOK
<1> QED
  BY <1>1, JournalAlways, PTL

(* Whatever exits, power losses and failed writes and syncs leave on disk, open   *)
(* replays it without reporting corruption.                                       *)
THEOREM RecoveryTotal == Spec => []RecoveryIsTotal
<1>1. JournalInv => RecoveryIsTotal
  BY DEF JournalInv, RestartsBounded, RecoveryIsTotal
<1> QED
  BY <1>1, JournalAlways, PTL

(* A tool runs at most once between two acknowledgements, and every restart       *)
(* finds the record of its execution (prepare, open).                             *)
THEOREM ExecutionOnce == Spec => []ExecutedAtMostOnce
<1>1. JournalInv => ExecutedAtMostOnce
  BY DEF JournalInv
<1> QED
  BY <1>1, JournalAlways, PTL

(* A result that was sent is the result every restart sends again, until it is    *)
(* acknowledged, as long as restarts are of one kind.                             *)
THEOREM ResultsSurvive == Spec => []ReportedResultSurvives
<1>1. JournalInv => ReportedResultSurvives
  BY DEF JournalInv
<1> QED
  BY <1>1, JournalAlways, PTL

-----------------------------------------------------------------------------
(* The record-at-a-time journal.  What a mutation may do to a record. *)
Kinds == {"admit", "redeliver", "complete", "ack", "recover"}

Running(g) == [state |-> "running", gen |-> g, exec |-> g, result |-> "none"]
Refused(g) == [state |-> "completed", gen |-> g, exec |-> 0, result |-> "rejected"]

Fresh(kind, x, y) ==
  x = NoRecord /\ \E g \in Gens : y = IF kind = "admit" THEN Running(g) ELSE Refused(g)
Readdressed(x, y) == x # NoRecord /\ \E g \in Gens : y = [x EXCEPT !.gen = g]
Withdrawn(x, y) ==
  /\ x # NoRecord /\ x.state \in Terminal /\ x.result = "done"
  /\ \E g \in Gens : y = [x EXCEPT !.gen = g, !.state = "unknown", !.result = "unknown"]
Settled(x, y) ==
  /\ x # NoRecord /\ x.state = "running"
  /\ \E s \in Terminal, v \in Results : y = [x EXCEPT !.state = s, !.result = v]
Forgotten(r, x, y) ==
  /\ x # NoRecord /\ x.state \in Terminal /\ y = NoRecord
  /\ runs[r] = 0 /\ \A m \in told : m.id # r

Legal(kind, r, x, y) ==
  \/ kind \in {"admit", "redeliver"} /\ Fresh(kind, x, y)
  \/ kind = "redeliver" /\ (Readdressed(x, y) \/ Withdrawn(x, y))
  \/ kind \in {"complete", "recover"} /\ Settled(x, y)
  \/ kind = "ack" /\ Forgotten(r, x, y)

(* The mutation in progress is legal; a fenced journal's files hold its memory  *)
(* with at most one legal mutation more; and a power loss is in doubt only about *)
(* the mutation in progress.                                                    *)
LegalMutation == Mutating => Legal(op.kind, op.id, mem.recs[op.id], op.rec)

OneAhead ==
  \/ Visible.recs = mem.recs
  \/ \E kind \in Kinds, r \in Requests, y \in Records :
       Legal(kind, r, mem.recs[r], y) /\ Visible.recs = [mem.recs EXCEPT ![r] = y]
FencedHolds == phase = "fenced" => OneAhead

OneDoubt ==
  OneKindOfRestart /\ "power" \in faults /\ op.step \in {"sync", "truncsync"} =>
    Recoveries \subseteq {Start(mem), Visible}

ChangesInv == LegalMutation /\ FencedHolds /\ OneDoubt

(* What a step does to the records: a step of the record-at-a-time journal. *)
Simulated == OneKindOfRestart => Contract!Next \/ UNCHANGED <<Held, told, runs>>

LEMMA LegalIsAllowed ==
  ASSUME NEW kind \in Kinds, NEW r \in Requests, NEW y, NEW x, Legal(kind, r, x, y),
         x = Held[r], Held' = [Held EXCEPT ![r] = y], UNCHANGED <<told, runs>>
  PROVE  Contract!Next
<1>1. CASE Fresh(kind, x, y)
  <2>1. PICK g \in Gens : y = IF kind = "admit" THEN Running(g) ELSE Refused(g)
    BY <1>1 DEF Fresh
  <2>2. y \in Contract!Fresh(g)
    BY <2>1 DEF Contract!Fresh, Running, Refused
  <2>3. Contract!Admit(r)
    BY <1>1, <2>2 DEF Contract!Admit, Fresh, Contract!Gens, Gens
  <2> QED
    BY <2>3 DEF Contract!Next
<1>2. CASE Readdressed(x, y)
  <2>1. PICK g \in Gens : y = [x EXCEPT !.gen = g]
    BY <1>2 DEF Readdressed
  <2>2. Contract!Readdress(r)
    BY <1>2, <2>1 DEF Contract!Readdress, Readdressed, Contract!Gens, Gens
  <2> QED
    BY <2>2 DEF Contract!Next
<1>3. CASE Settled(x, y)
  <2>1. PICK s \in Terminal, v \in Results : y = [x EXCEPT !.state = s, !.result = v]
    BY <1>3 DEF Settled
  <2>2. Held' = [Held EXCEPT ![r] = [Held[r] EXCEPT !.state = s, !.result = v]]
    BY <2>1
  <2>3. Contract!Settle(r)
    BY <1>3, <2>2 DEF Contract!Settle, Settled, Contract!Terminal, Terminal, Results
  <2> QED
    BY <2>3 DEF Contract!Next
<1>4. CASE Forgotten(r, x, y)
  <2>1. Contract!Forget(r)
    BY <1>4 DEF Contract!Forget, Contract!Stored, Forgotten, Contract!Terminal, Terminal
  <2> QED
    BY <2>1 DEF Contract!Next
<1>5. CASE Withdrawn(x, y)
  <2>1. PICK g \in Gens : y = [x EXCEPT !.gen = g, !.state = "unknown", !.result = "unknown"]
    BY <1>5 DEF Withdrawn
  <2>2. Held' = [Held EXCEPT ![r] =
                   [Held[r] EXCEPT !.gen = g, !.state = "unknown", !.result = "unknown"]]
    BY <2>1
  <2>3. r \in Contract!Stored /\ Held[r].result = "done"
    BY <1>5 DEF Withdrawn, Contract!Stored, Contract!Terminal, Terminal
  <2>4. Contract!Withdraw(r)
    BY <2>2, <2>3 DEF Contract!Withdraw, Contract!Gens, Gens
  <2> QED
    BY <2>4 DEF Contract!Next
<1> QED
  BY <1>1, <1>2, <1>3, <1>4, <1>5 DEF Legal

(* Between two calls no mutation is in progress. *)
LEMMA IdleChanges ==
  ASSUME op'.kind \notin Kinds, op'.step \notin {"sync", "truncsync"}, phase' # "fenced"
  PROVE  ChangesInv'
  BY DEF ChangesInv, LegalMutation, FencedHolds, OneDoubt, Mutating, Kinds

(* Synced files leave one restart. *)
LEMMA SyncedRestarts ==
  ASSUME JournalInv, OneKindOfRestart, "power" \in faults, op.step \notin {"sync", "truncsync"}
  PROVE  Recoveries = {Visible}
<1>1. walCrash = {wal}
  BY DEF JournalInv, SyncedBetweenCalls
<1>2. Recoveries = {replay_wal(x, u) : x \in snapCrash, u \in walCrash} /\ Visible \in Recoveries
  BY RestartsAre DEF JournalInv
<1> QED
  BY <1>1, <1>2 DEF JournalInv, SnapshotsAgree

LEMMA HeldStays ==
  ASSUME UNCHANGED <<phase, mem>>, phase \notin {"closed", "corrupt"}
  PROVE  Held' = Held /\ Held = mem.recs
  BY DEF Held

(* A mutation begins. *)
LEMMA CommitChanges ==
  ASSUME JournalInv, ChangesInv, phase \in {"recovering", "open"}, UNCHANGED <<phase, mem>>,
         NEW kind \in Kinds, NEW r \in Requests, NEW x, NEW y, x = mem.recs[r],
         Commit(kind, r, y), Legal(kind, r, x, y)'
  PROVE  ChangesInv' /\ Held' = Held
<1>1. op'.kind = kind /\ op'.id = r /\ op'.rec = y /\ op'.step \in {"rename", "append"}
  BY DEF Commit
<1>2. mem'.recs[r] = x
  OBVIOUS
<1>3. LegalMutation'
  BY <1>1, <1>2 DEF LegalMutation
<1>4. FencedHolds' /\ OneDoubt'
  BY <1>1 DEF FencedHolds, OneDoubt
<1> QED
  BY <1>3, <1>4, HeldStays DEF ChangesInv

LEMMA AdmitChanges ==
  ASSUME JournalInv, ChangesInv, NEW r \in Requests, NEW g \in Gens, Admit(r, g)
  PROVE  ChangesInv' /\ Simulated
<1>1. /\ phase = "open" /\ mem.recs[r] = NoRecord
      /\ Commit("admit", r, Running(g)) \/ Commit("redeliver", r, Refused(g))
      /\ UNCHANGED <<phase, mem, told, runs>>
  BY DEF Admit, Ready, Running, Refused
<1>2. /\ Legal("admit", r, NoRecord, Running(g))'
      /\ Legal("redeliver", r, NoRecord, Refused(g))'
  BY DEF Legal, Fresh
<1>3. PICK a, b : a = Running(g) /\ b = Refused(g)
  OBVIOUS
<1>4. CASE Commit("admit", r, a)
  BY <1>1, <1>2, <1>3, <1>4, CommitChanges DEF Simulated, Kinds
<1>5. CASE Commit("redeliver", r, b)
  BY <1>1, <1>2, <1>3, <1>5, CommitChanges DEF Simulated, Kinds
<1> QED
  BY <1>1, <1>3, <1>4, <1>5

LEMMA RedeliverChanges ==
  ASSUME JournalInv, ChangesInv, NEW r \in Requests, NEW g \in Gens, Redeliver(r, g)
  PROVE  ChangesInv' /\ Simulated
<1>x. PICK x : x = mem.recs[r]
  OBVIOUS
<1>y. PICK y : y = [x EXCEPT !.gen = g]
  OBVIOUS
<1>z. PICK z : z = [x EXCEPT !.gen = g, !.state = "unknown", !.result = "unknown"]
  OBVIOUS
<1>1. /\ phase = "open" /\ op = Idle /\ x # NoRecord
      /\ Commit("redeliver", r, y) \/ (x.result = "done" /\ Commit("redeliver", r, z))
      /\ UNCHANGED <<phase, mem, told, runs>>
  BY <1>x, <1>y, <1>z DEF Redeliver, Ready
<1>2. x \in Records
  BY <1>x, <1>1, MemoryFacts DEF Idle
<1>3. CASE Commit("redeliver", r, y)
  <2>1. Legal("redeliver", r, x, y)'
    BY <1>y, <1>1 DEF Legal, Readdressed
  <2> QED
    BY <1>x, <1>1, <1>3, <2>1, CommitChanges DEF Simulated, Kinds
<1>4. CASE x.result = "done" /\ Commit("redeliver", r, z)
  <2>1. x.state \in Terminal
    BY <1>1, <1>2, <1>4 DEF Records, Record
  <2>2. Legal("redeliver", r, x, z)'
    BY <1>z, <1>1, <1>4, <2>1 DEF Legal, Withdrawn
  <2> QED
    BY <1>x, <1>1, <1>4, <2>2, CommitChanges DEF Simulated, Kinds
<1> QED
  BY <1>1, <1>3, <1>4

LEMMA SettleChanges ==
  ASSUME JournalInv, ChangesInv, UNCHANGED <<phase, mem, told, runs>>,
         phase \in {"recovering", "open"}, NEW r \in Requests, mem.recs[r].state = "running",
         NEW kind \in {"complete", "recover"}, NEW s \in Terminal, NEW v \in Results,
         Commit(kind, r, [mem.recs[r] EXCEPT !.state = s, !.result = v])
  PROVE  ChangesInv' /\ Simulated
<1>1. PICK x : x = mem.recs[r]
  OBVIOUS
<1>2. PICK y : y = [x EXCEPT !.state = s, !.result = v]
  OBVIOUS
<1>3. Commit(kind, r, y) /\ x # NoRecord /\ x.state = "running"
  BY <1>1, <1>2 DEF NoRecord
<1>4. Legal(kind, r, x, y)'
  BY <1>2, <1>3 DEF Legal, Settled
<1> QED
  BY <1>1, <1>3, <1>4, CommitChanges DEF Simulated, Kinds

LEMMA CompleteChanges ==
  ASSUME JournalInv, ChangesInv, NEW r \in Requests, Complete(r)
  PROVE  ChangesInv' /\ Simulated
<1>1. /\ phase = "open" /\ mem.recs[r].state = "running"
      /\ \/ Commit("complete", r, [mem.recs[r] EXCEPT !.state = "completed", !.result = "done"])
         \/ Commit("complete", r, [mem.recs[r] EXCEPT !.state = "unknown", !.result = "unknown"])
      /\ UNCHANGED <<phase, mem, told, runs>>
  BY DEF Complete, Ready
<1> QED
  BY <1>1, SettleChanges DEF Terminal, Results

LEMMA RecoverRunningChanges ==
  ASSUME JournalInv, ChangesInv, NEW r \in Requests, RecoverRunning(r)
  PROVE  ChangesInv' /\ Simulated
<1>1. /\ phase = "recovering" /\ mem.recs[r].state = "running"
      /\ Commit("recover", r, [mem.recs[r] EXCEPT !.state = "unknown", !.result = "unknown"])
      /\ UNCHANGED <<phase, mem, told, runs>>
  BY DEF RecoverRunning
<1> QED
  BY <1>1, SettleChanges DEF Terminal, Results

(* The acknowledgement is a step of its own: the record goes with the mutation. *)
LEMMA AcknowledgeChanges ==
  ASSUME JournalInv, ChangesInv, NEW r \in Requests, NEW g \in Gens, Acknowledge(r, g)
  PROVE  ChangesInv' /\ Simulated
<1>1. /\ phase = "open" /\ mem.recs[r].state \in Terminal /\ Commit("ack", r, NoRecord)
      /\ told' = {m \in told : m.id # r} /\ runs' = [runs EXCEPT ![r] = 0]
      /\ UNCHANGED <<phase, mem>>
  BY DEF Acknowledge, Ready
<1>2. PICK x, y : x = mem.recs[r] /\ y = NoRecord
  OBVIOUS
<1>3. x # NoRecord /\ x.state \in Terminal
  BY <1>1, <1>2 DEF NoRecord, Terminal
<1>4. runs'[r] = 0 /\ \A m \in told' : m.id # r
  BY <1>1 DEF JournalInv, HistoryShape
<1>5. Legal("ack", r, x, y)'
  BY <1>2, <1>3, <1>4 DEF Legal, Forgotten
<1>6. ChangesInv' /\ Held' = Held
  BY <1>1, <1>2, <1>5, CommitChanges DEF Kinds
<1>7. Held[r] = x
  BY <1>1, <1>2, HeldStays
<1>8. Contract!Acknowledged(r)
  BY <1>1, <1>3, <1>6, <1>7 DEF Contract!Acknowledged, Contract!Stored, Contract!Terminal, Terminal
<1> QED
  BY <1>6, <1>8 DEF Simulated, Contract!Next

LEMMA ReplayPendingChanges ==
  ASSUME JournalInv, ChangesInv, ReplayPending
  PROVE  ChangesInv' /\ Simulated
<1>1. /\ phase = "open" /\ op = Idle
      /\ told' = told \cup {Message(r, mem.recs[r]) :
                              r \in {x \in Requests : mem.recs[x].state \in Terminal}}
      /\ UNCHANGED <<phase, mem, op, runs>>
  BY DEF ReplayPending, Ready
<1>2. ChangesInv'
  BY <1>1, IdleChanges DEF Idle, Kinds
<1>3. Held' = Held /\ Held = mem.recs
  BY <1>1, HeldStays
<1>4. Contract!Stored = {x \in Requests : mem.recs[x].state \in Terminal}
  BY <1>3 DEF Contract!Stored, Contract!Terminal, Terminal, NoRecord
<1>5. \A r \in Requests : Contract!Message(r) = Message(r, mem.recs[r])
  BY <1>3 DEF Contract!Message, Message
<1>6. Contract!Replay
  <2>1. told' = told \cup {Contract!Message(r) : r \in Contract!Stored}
    BY <1>1, <1>4, <1>5
  <2> QED
    BY <1>1, <1>3, <2>1 DEF Contract!Replay
<1> QED
  BY <1>2, <1>6 DEF Simulated, Contract!Next

-----------------------------------------------------------------------------
(* A call that goes on, or ends, without touching the memory. *)
LEMMA SameMutation ==
  ASSUME JournalInv, ChangesInv, UNCHANGED <<phase, mem, told, runs>>, op # Idle,
         op'.kind \in Kinds => op'.kind = op.kind /\ op'.id = op.id /\ op'.rec = op.rec,
         OneDoubt'
  PROVE  ChangesInv' /\ Simulated
<1>1. phase \in {"recovering", "open"}
  BY DEF JournalInv, CallShape
<1>2. LegalMutation'
  <2> SUFFICES ASSUME Mutating' PROVE Legal(op.kind, op.id, mem.recs[op.id], op.rec)'
    BY DEF LegalMutation
  <2>1. op'.kind = op.kind /\ op'.id = op.id /\ op'.rec = op.rec /\ Mutating
    BY DEF Mutating, Kinds
  <2>2. PICK k, r, x, y : k = op.kind /\ r = op.id /\ x = mem.recs[r] /\ y = op.rec
    OBVIOUS
  <2>3. Legal(k, r, x, y)
    BY <2>1, <2>2 DEF ChangesInv, LegalMutation
  <2>4. Legal(k, r, x, y)'
    BY <2>3 DEF Legal, Fresh, Readdressed, Withdrawn, Settled, Forgotten
  <2>5. mem'.recs[op'.id] = x
    BY <2>1, <2>2
  <2> QED
    BY <2>1, <2>2, <2>4, <2>5
<1>3. FencedHolds'
  BY <1>1 DEF FencedHolds
<1>4. UNCHANGED <<Held, told, runs>>
  BY <1>1, HeldStays
<1> QED
  BY <1>2, <1>3, <1>4 DEF ChangesInv, Simulated

LEMMA WriteLineChanges ==
  ASSUME JournalInv, ChangesInv, UNCHANGED faults, WriteLine
  PROVE  ChangesInv' /\ Simulated
<1>1. /\ op.step = "append" /\ op # Idle /\ op' = [op EXCEPT !.step = "sync"]
      /\ UNCHANGED <<faults, phase, mem, told, runs>>
  BY DEF WriteLine, Idle
<1>2. op'.kind = op.kind /\ op'.id = op.id /\ op'.rec = op.rec
  <2>1. op = [kind |-> op.kind, step |-> op.step, id |-> op.id, rec |-> op.rec]
    BY DEF JournalInv, CallShape
  <2>2. op' = [kind |-> op.kind, step |-> "sync", id |-> op.id, rec |-> op.rec]
    BY <1>1, <2>1
  <2> QED
    BY <2>2
<1>3. phase \in {"recovering", "open"}
  BY <1>1 DEF JournalInv, CallShape
<1>4. OneDoubt'
  <2> SUFFICES ASSUME OneKindOfRestart', "power" \in faults'
               PROVE  Recoveries' \subseteq {Start(mem'), Visible'}
    BY DEF OneDoubt
  <2>1. OneKindOfRestart /\ "power" \in faults
    BY <1>1 DEF OneKindOfRestart
  <2>2. Recoveries = {Visible}
    BY <1>1, <2>1, SyncedRestarts
  <2>3. Visible = Start(mem) /\ Start(mem') = Start(mem)
    BY <1>1, <1>3, MemoryFacts
  <2>4. Recoveries' \subseteq Recoveries \cup {Start(Mutated)} /\ Visible' = Start(Mutated)
    BY WriteLineDisk
  <2> QED
    BY <2>2, <2>3, <2>4
<1> QED
  BY <1>1, <1>2, <1>4, SameMutation

LEMMA CompactionChanges ==
  ASSUME JournalInv, ChangesInv, UNCHANGED faults, Compaction
  PROVE  ChangesInv' /\ Simulated
<1>1. op # Idle /\ op = [kind |-> op.kind, step |-> op.step, id |-> op.id, rec |-> op.rec]
  BY DEF JournalInv, CallShape, Compaction, RenameSnapshot, SyncDirectory, TruncateWal,
         SyncTruncation, Idle
<1>2. UNCHANGED <<faults, phase, mem, told, runs>>
  BY DEF Compaction, RenameSnapshot, SyncDirectory, TruncateWal, SyncTruncation
<1>3. ASSUME NEW st \in {"dirsync", "truncate", "truncsync", "append"},
             op' = [op EXCEPT !.step = st]
      PROVE  op'.kind = op.kind /\ op'.id = op.id /\ op'.rec = op.rec /\ op'.step = st
  <2>1. op' = [kind |-> op.kind, step |-> st, id |-> op.id, rec |-> op.rec]
    BY <1>1, <1>3
  <2> QED
    BY <2>1
<1>4. CASE RenameSnapshot \/ SyncDirectory
  <2>1. op'.kind = op.kind /\ op'.id = op.id /\ op'.rec = op.rec
        /\ op'.step \in {"dirsync", "truncate"}
    BY <1>3, <1>4 DEF RenameSnapshot, SyncDirectory
  <2>2. OneDoubt'
    BY <2>1 DEF OneDoubt
  <2> QED
    BY <1>1, <1>2, <2>1, <2>2, SameMutation
<1>5. CASE TruncateWal
  <2>1. op'.kind = op.kind /\ op'.id = op.id /\ op'.rec = op.rec /\ op.step = "truncate"
    BY <1>3, <1>5 DEF TruncateWal
  <2>2. OneDoubt'
    <3> SUFFICES ASSUME OneKindOfRestart', "power" \in faults'
                 PROVE  Recoveries' \subseteq {Start(mem'), Visible'}
      BY DEF OneDoubt
    <3>1. Recoveries = {Visible}
      BY <1>2, <2>1, SyncedRestarts DEF OneKindOfRestart
    <3>2. Recoveries' \subseteq Recoveries /\ Visible' = Visible
      BY <1>5, TruncateDisk
    <3> QED
      BY <3>1, <3>2
  <2> QED
    BY <1>1, <1>2, <2>1, <2>2, SameMutation
<1>6. CASE SyncTruncation
  <2>1. op' = Idle \/ op' = [op EXCEPT !.step = "append"]
    BY <1>6 DEF SyncTruncation
  <2>2. /\ op'.kind \in Kinds => op'.kind = op.kind /\ op'.id = op.id /\ op'.rec = op.rec
        /\ op'.step \notin {"sync", "truncsync"}
    BY <1>3, <2>1 DEF Idle, Kinds
  <2>3. OneDoubt'
    BY <2>2 DEF OneDoubt
  <2> QED
    BY <1>1, <1>2, <2>2, <2>3, SameMutation
<1> QED
  BY <1>4, <1>5, <1>6 DEF Compaction

-----------------------------------------------------------------------------
(* The mutation takes effect. *)
LEMMA SyncLineRecords ==
  ASSUME JournalInv, ChangesInv, SyncLine
  PROVE  /\ op.id \in Requests /\ op.kind \in Kinds /\ phase' # "fenced"
         /\ Held = mem.recs /\ Held \in [Requests -> Records]
         /\ Held' = [Held EXCEPT ![op.id] = op.rec] /\ Held'[op.id] = op.rec
         /\ Legal(op.kind, op.id, Held[op.id], op.rec)
<1>1. /\ op.id \in Requests /\ Mutating /\ phase \in {"recovering", "open"} /\ mem \in Snapshot
      /\ phase' = phase /\ mem' = Mutated
  BY SyncLineFacts DEF SyncLine, Mutated
<1>2. Held = mem.recs /\ Held' = mem'.recs /\ mem.recs \in [Requests -> Records]
  BY <1>1 DEF Held, Snapshot
<1>3. Held' = [Held EXCEPT ![op.id] = op.rec]
  BY <1>1, <1>2 DEF Mutated
<1>4. Legal(op.kind, op.id, Held[op.id], op.rec)
  BY <1>1, <1>2 DEF ChangesInv, LegalMutation
<1>5. Held'[op.id] = op.rec
  BY <1>1, <1>2, <1>3
<1> QED
  BY <1>1, <1>2, <1>3, <1>4, <1>5 DEF Mutating, Kinds

LEMMA SpawnChanges ==
  ASSUME JournalInv, ChangesInv, SyncLine, op.kind = "admit",
         runs' = [runs EXCEPT ![op.id] = @ + 1], op' = Idle, UNCHANGED told
  PROVE  ChangesInv' /\ Simulated
<1>1. ChangesInv'
  BY SyncLineRecords, IdleChanges DEF Idle, Kinds
<1>2. PICK r : r = op.id /\ r \in Requests
  BY SyncLineRecords
<1>3. /\ Held[r] = NoRecord /\ Held' = [Held EXCEPT ![r] = op.rec]
      /\ \E g \in Gens : op.rec = Running(g)
  BY <1>2, SyncLineRecords DEF Legal, Fresh
<1>4. PICK g \in Gens : op.rec = Running(g)
  BY <1>3
<1>5. op.rec \in Contract!Fresh(g) /\ op.rec.state = "running"
  BY <1>4 DEF Contract!Fresh, Running
<1>6. Contract!Admit(r)
  BY <1>2, <1>3, <1>5 DEF Contract!Admit, Contract!Gens, Gens
<1> QED
  BY <1>1, <1>2, <1>6 DEF Simulated, Contract!Next

LEMMA RejectChanges ==
  ASSUME JournalInv, ChangesInv, SyncLine, op.kind = "admit",
         Commit("complete", op.id, [op.rec EXCEPT !.state = "completed", !.result = "rejected"]),
         UNCHANGED <<told, runs>>
  PROVE  ChangesInv' /\ Simulated
<1>1. /\ op.id \in Requests /\ phase' # "fenced" /\ Held' = [Held EXCEPT ![op.id] = op.rec]
      /\ Legal("admit", op.id, Held[op.id], op.rec)
  BY SyncLineRecords
<1>2. PICK r, w, x : r = op.id /\ w = op.rec /\ x = Held[r]
  OBVIOUS
<1>3. Simulated
  BY <1>1, <1>2, LegalIsAllowed DEF Simulated, Kinds
<1>4. PICK y : y = [w EXCEPT !.state = "completed", !.result = "rejected"]
  OBVIOUS
<1>5. /\ op'.kind = "complete" /\ op'.id = r /\ op'.rec = y /\ op'.step \in {"rename", "append"}
  BY <1>2, <1>4 DEF Commit
<1>6. mem'.recs[r] = w
  BY <1>2, SyncLineFacts
<1>7. w.state = "running" /\ w # NoRecord
  BY <1>2 DEF JournalInv, CallShape, NoRecord
<1>8. Legal("complete", r, w, y)'
  BY <1>4, <1>7 DEF Legal, Settled, Terminal, Results
<1>9. LegalMutation'
  BY <1>5, <1>6, <1>8 DEF LegalMutation
<1>10. FencedHolds' /\ OneDoubt'
  BY <1>1, <1>5 DEF FencedHolds, OneDoubt
<1> QED
  BY <1>3, <1>9, <1>10 DEF ChangesInv

LEMMA TellChanges ==
  ASSUME JournalInv, ChangesInv, SyncLine, op.kind \in {"redeliver", "complete"},
         told' = IF op.rec.state \in Terminal THEN told \cup {Message(op.id, op.rec)} ELSE told,
         op' = Idle, UNCHANGED runs
  PROVE  ChangesInv' /\ Simulated
<1>1. ChangesInv'
  BY SyncLineRecords, IdleChanges DEF Idle, Kinds
<1>2. PICK r, x, y : r = op.id /\ x = Held[r] /\ y = op.rec
  OBVIOUS
<1>3. /\ r \in Requests /\ Held' = [Held EXCEPT ![r] = y] /\ Held'[r] = y /\ x \in Records
      /\ Legal(op.kind, r, x, y)
  BY <1>2, SyncLineRecords
<1>4. Contract!Message(r)' = Message(op.id, op.rec)
  BY <1>2, <1>3 DEF Contract!Message, Message
<1>5. told' = IF y.state \in Terminal THEN told \cup {Contract!Message(r)'} ELSE told
  BY <1>2, <1>4
<1>6. CASE Fresh(op.kind, x, y)
  <2>1. PICK g \in Gens : y = Refused(g)
    BY <1>6 DEF Fresh
  <2>2. y \in Contract!Fresh(g)
    BY <2>1 DEF Contract!Fresh, Refused
  <2>3. Contract!Admit(r)
    BY <1>2, <1>3, <1>5, <1>6, <2>2 DEF Contract!Admit, Fresh, Contract!Gens, Gens
  <2> QED
    BY <1>1, <1>3, <2>3 DEF Simulated, Contract!Next
<1>7. CASE Readdressed(x, y)
  <2>1. PICK g \in Gens : y = [x EXCEPT !.gen = g]
    BY <1>7 DEF Readdressed
  <2>2. y.state = x.state /\ x # NoRecord
    BY <1>3, <1>7, <2>1, RecordReaddressed DEF Readdressed
  <2>3. y.state \in Terminal => r \in Contract!Stored
    BY <1>2, <1>3, <2>2 DEF Contract!Stored, Contract!Terminal, Terminal
  <2>4. Contract!Readdress(r)
    BY <1>2, <1>3, <1>5, <2>1, <2>2, <2>3 DEF Contract!Readdress, Contract!Gens, Gens
  <2> QED
    BY <1>1, <1>3, <2>4 DEF Simulated, Contract!Next
<1>8. CASE Settled(x, y)
  <2>1. PICK s \in Terminal, v \in Results : y = [x EXCEPT !.state = s, !.result = v]
    BY <1>8 DEF Settled
  <2>2. Held' = [Held EXCEPT ![r] = [Held[r] EXCEPT !.state = s, !.result = v]]
    BY <1>2, <1>3, <2>1
  <2>3. Contract!Settle(r)
    BY <1>2, <1>5, <1>8, <2>2 DEF Contract!Settle, Settled, Contract!Terminal, Terminal, Results
  <2> QED
    BY <1>1, <1>3, <2>3 DEF Simulated, Contract!Next
<1>9. CASE Withdrawn(x, y)
  <2>1. PICK g \in Gens : y = [x EXCEPT !.gen = g, !.state = "unknown", !.result = "unknown"]
    BY <1>9 DEF Withdrawn
  <2>2. Held' = [Held EXCEPT ![r] =
                   [Held[r] EXCEPT !.gen = g, !.state = "unknown", !.result = "unknown"]]
    BY <1>2, <1>3, <2>1
  <2>3. r \in Contract!Stored /\ Held[r].result = "done"
    BY <1>2, <1>3, <1>9 DEF Withdrawn, Contract!Stored, Contract!Terminal, Terminal
  <2>4. Contract!Withdraw(r)
    BY <1>5, <2>2, <2>3 DEF Contract!Withdraw, Contract!Gens, Gens
  <2> QED
    BY <1>1, <1>3, <2>4 DEF Simulated, Contract!Next
<1> QED
  BY <1>3, <1>6, <1>7, <1>8, <1>9 DEF Legal

LEMMA SyncLineChanges ==
  ASSUME JournalInv, ChangesInv, SyncLine
  PROVE  ChangesInv' /\ Simulated
<1>1. Respond
  BY DEF SyncLine
<1>2. op.kind \in Kinds
  BY SyncLineRecords
<1>3. CASE op.kind = "admit"
  BY <1>1, <1>3, SpawnChanges, RejectChanges DEF Respond
<1>4. CASE op.kind \in {"redeliver", "complete"}
  BY <1>1, <1>4, TellChanges DEF Respond
<1>5. CASE op.kind \in {"ack", "recover"}
  <2>1. /\ op' \in {Idle, [Idle EXCEPT !.kind = "compact", !.step = "rename"]}
        /\ UNCHANGED <<told, runs>>
    BY <1>1, <1>5 DEF Respond
  <2>2. op'.kind \notin Kinds /\ op'.step \notin {"sync", "truncsync"}
    <3>1. PICK c : c = [kind |-> "compact", step |-> "rename", id |-> "none", rec |-> NoRecord]
      OBVIOUS
    <3>2. CASE op' = c
      BY <3>1, <3>2 DEF Kinds
    <3>3. CASE op' = Idle
      BY <3>3 DEF Idle, Kinds
    <3> QED
      BY <2>1, <3>1, <3>2, <3>3, CompactCall
  <2>3. ChangesInv'
    BY <2>2, SyncLineRecords, IdleChanges
  <2>4. PICK k, r, x, y : k = op.kind /\ r = op.id /\ x = Held[r] /\ y = op.rec
    OBVIOUS
  <2>5. /\ k \in Kinds /\ r \in Requests /\ Legal(k, r, x, y) /\ Held' = [Held EXCEPT ![r] = y]
    BY <2>4, SyncLineRecords
  <2>6. Contract!Next
    BY <2>1, <2>4, <2>5, LegalIsAllowed
  <2> QED
    BY <2>3, <2>6 DEF Simulated
<1> QED
  BY <1>2, <1>3, <1>4, <1>5 DEF Kinds

-----------------------------------------------------------------------------
(* Failures and restarts.  The files of a journal that is not closed are at    *)
(* most one legal mutation ahead of its memory.                                *)
LEMMA FilesAreClose ==
  ASSUME JournalInv, ChangesInv, phase \in {"recovering", "open", "fenced"}
  PROVE  OneAhead
<1>1. CASE phase = "fenced"
  BY <1>1 DEF ChangesInv, FencedHolds
<1>2. CASE phase \in {"recovering", "open"} /\ op.step # "sync"
  <2>1. Visible = Start(mem) /\ mem \in Snapshot
    BY <1>2, MemoryFacts
  <2>2. Visible.recs = mem.recs
    BY <2>1, StartTypes
  <2> QED
    BY <2>2 DEF OneAhead
<1>3. CASE phase \in {"recovering", "open"} /\ op.step = "sync"
  <2>1. Visible = Start(Mutated) /\ Mutating /\ op.id \in Requests /\ op.rec \in Records
    BY <1>3 DEF JournalInv, MemoryIsVisible, CallShape, Idle
  <2>2. Visible.recs = [mem.recs EXCEPT ![op.id] = op.rec]
    BY <2>1 DEF Start, Mutated
  <2>3. Legal(op.kind, op.id, mem.recs[op.id], op.rec) /\ op.kind \in Kinds
    BY <2>1 DEF ChangesInv, LegalMutation, Mutating, Kinds
  <2> QED
    BY <2>1, <2>2, <2>3 DEF OneAhead
<1> QED
  BY <1>1, <1>2, <1>3

LEMMA AheadStays ==
  ASSUME OneAhead, UNCHANGED <<Visible, mem, told, runs>>
  PROVE  OneAhead'
<1>1. CASE Visible.recs = mem.recs
  BY <1>1 DEF OneAhead
<1>2. CASE Visible.recs # mem.recs
  <2>1. PICK kind \in Kinds, r \in Requests, y \in Records :
          Legal(kind, r, mem.recs[r], y) /\ Visible.recs = [mem.recs EXCEPT ![r] = y]
    BY <1>2 DEF OneAhead
  <2>2. Legal(kind, r, mem.recs[r], y)'
    BY <2>1 DEF Legal, Fresh, Readdressed, Withdrawn, Settled, Forgotten
  <2> QED
    BY <2>1, <2>2 DEF OneAhead
<1> QED
  BY <1>1, <1>2

(* A restart that finds the visible files. *)
LEMMA RestartSimulated ==
  ASSUME JournalInv, ChangesInv, phase' = "closed", op' = Idle,
         Visible' = Visible, UNCHANGED <<told, runs>>
  PROVE  ChangesInv' /\ Simulated
<1>1. ChangesInv'
  BY IdleChanges DEF Idle, Kinds
<1>2. Held' = Visible.recs
  BY DEF Held, Visible
<1>3. CASE phase \in {"closed", "corrupt"}
  BY <1>1, <1>2, <1>3 DEF Held, Visible, Simulated
<1>4. CASE phase \in {"recovering", "open", "fenced"}
  <2>1. Held = mem.recs
    BY <1>4 DEF Held
  <2>2. OneAhead
    BY <1>4, FilesAreClose
  <2>3. CASE Visible.recs = mem.recs
    BY <1>1, <1>2, <2>1, <2>3 DEF Simulated
  <2>4. CASE Visible.recs # mem.recs
    <3>1. PICK kind \in Kinds, r \in Requests, y \in Records :
            Legal(kind, r, mem.recs[r], y) /\ Visible.recs = [mem.recs EXCEPT ![r] = y]
      BY <2>2, <2>4 DEF OneAhead
    <3>2. PICK x : x = mem.recs[r]
      OBVIOUS
    <3>3. Contract!Next
      BY <1>2, <2>1, <3>1, <3>2, LegalIsAllowed
    <3> QED
      BY <1>1, <3>3 DEF Simulated
  <2> QED
    BY <2>3, <2>4
<1> QED
  BY <1>3, <1>4 DEF JournalInv, CallShape

LEMMA IoErrorChanges ==
  ASSUME JournalInv, ChangesInv, IoError, op # Idle
  PROVE  ChangesInv' /\ Simulated
<1>1. /\ phase' = IF phase = "recovering" THEN "closed" ELSE "fenced"
      /\ op' = Idle /\ UNCHANGED <<mem, snap, snapCrash, wal, walCrash, told, runs>>
  BY DEF IoError
<1>2. phase \in {"recovering", "open"}
  BY DEF JournalInv, CallShape
<1>3. Visible' = Visible
  BY <1>1 DEF Visible
<1>4. CASE phase = "recovering"
  BY <1>1, <1>3, <1>4, RestartSimulated
<1>5. CASE phase = "open"
  <2>1. Held' = Held
    BY <1>1, <1>5 DEF Held
  <2>2. OneAhead
    BY <1>5, FilesAreClose
  <2>3. OneAhead'
    BY <1>1, <1>3, <2>2, AheadStays
  <2>4. LegalMutation' /\ OneDoubt'
    BY <1>1 DEF LegalMutation, Mutating, OneDoubt, Idle
  <2> QED
    BY <1>1, <2>1, <2>3, <2>4 DEF ChangesInv, FencedHolds, Simulated
<1> QED
  BY <1>2, <1>4, <1>5

LEMMA FailureChanges ==
  ASSUME JournalInv, ChangesInv, WriteFails \/ SyncFails
  PROVE  ChangesInv' /\ Simulated
<1>1. IoError /\ op # Idle
  <2>1. op.step # "none"
    BY DEF WriteFails, SyncFails
  <2>2. op # Idle
    BY <2>1 DEF Idle
  <2>3. IoError
    BY Zenon DEF WriteFails, SyncFails
  <2> QED
    BY <2>2, <2>3
<1> QED
  BY <1>1, IoErrorChanges

LEMMA ExitChanges ==
  ASSUME JournalInv, ChangesInv, ProcessExit \/ Close
  PROVE  ChangesInv' /\ Simulated
<1>1. /\ phase' = "closed" /\ UNCHANGED <<snap, wal, told, runs>>
  BY DEF ProcessExit, Close, diskVars
<1>2. op' = Idle
  <2>1. CASE ProcessExit
    BY <2>1 DEF ProcessExit
  <2>2. CASE Close
    BY <2>2 DEF Close, JournalInv, CallShape
  <2> QED
    BY <2>1, <2>2
<1>3. Visible' = Visible
  BY <1>1 DEF Visible
<1> QED
  BY <1>1, <1>2, <1>3, RestartSimulated

LEMMA PowerLossChanges ==
  ASSUME JournalInv, ChangesInv, PowerLoss
  PROVE  ChangesInv' /\ Simulated
<1>1. /\ "power" \in faults /\ phase' = "closed" /\ op' = Idle /\ UNCHANGED <<told, runs>>
  BY DEF PowerLoss
<1>2. ChangesInv'
  BY <1>1, IdleChanges DEF Idle, Kinds
<1>3. Visible' \in Recoveries
  BY PowerLossDisk
<1>4. CASE Visible' = Visible
  BY <1>1, <1>4, RestartSimulated
<1>5. CASE Visible' # Visible /\ OneKindOfRestart
  <2>1. op.step \in {"sync", "truncsync"}
    BY <1>1, <1>3, <1>5, SyncedRestarts
  <2>2. Visible' = Start(mem)
    BY <1>1, <1>3, <1>5, <2>1 DEF ChangesInv, OneDoubt
  <2>3. phase \in {"recovering", "open"} /\ mem \in Snapshot
    BY <2>1 DEF JournalInv, CallShape, Idle
  <2>4. Held = mem.recs /\ Held' = Visible'.recs
    BY <1>1, <2>3 DEF Held, Visible
  <2>5. Visible'.recs = mem.recs
    BY <2>2, <2>3, StartTypes
  <2> QED
    BY <1>1, <1>2, <2>4, <2>5 DEF Simulated
<1> QED
  BY <1>2, <1>4, <1>5 DEF Simulated

LEMMA OpenChanges ==
  ASSUME JournalInv, ChangesInv, Open
  PROVE  ChangesInv' /\ Simulated
<1>1. phase = "closed" /\ UNCHANGED <<snap, wal, op, told, runs>>
  BY DEF Open
<1>2. op = Idle
  BY <1>1 DEF JournalInv, CallShape
<1>3. Visible.ok
  BY RestartsAre DEF JournalInv, RestartsBounded
<1>4. phase' = "recovering" /\ mem' = [seq |-> Visible.seq, recs |-> Visible.recs]
  BY <1>3 DEF Open, Visible
<1>5. Held' = Held
  BY <1>1, <1>4 DEF Held, Visible
<1>6. ChangesInv'
  BY <1>1, <1>2, <1>4, IdleChanges DEF Idle, Kinds
<1> QED
  BY <1>1, <1>5, <1>6 DEF Simulated

LEMMA OpenedChanges ==
  ASSUME JournalInv, ChangesInv, Opened
  PROVE  ChangesInv' /\ Simulated
<1>1. /\ phase = "recovering" /\ phase' = "open" /\ UNCHANGED <<mem, told, runs>>
      /\ op' \in {Idle, [Idle EXCEPT !.kind = "compact", !.step = "rename"]}
  BY DEF Opened
<1>2. op'.kind \notin Kinds /\ op'.step \notin {"sync", "truncsync"}
  <2>1. PICK c : c = [kind |-> "compact", step |-> "rename", id |-> "none", rec |-> NoRecord]
    OBVIOUS
  <2>2. CASE op' = c
    BY <2>1, <2>2 DEF Kinds
  <2>3. CASE op' = Idle
    BY <2>3 DEF Idle, Kinds
  <2> QED
    BY <1>1, <2>1, <2>2, <2>3, CompactCall
<1>3. ChangesInv' /\ Held' = Held
  BY <1>1, <1>2, IdleChanges DEF Held
<1> QED
  BY <1>1, <1>3 DEF Simulated

LEMMA ChangesStep ==
  ASSUME JournalInv, ChangesInv, [Next]_vars
  PROVE  ChangesInv' /\ Simulated
<1>1. CASE UNCHANGED vars
  <2>1. UNCHANGED <<Held, Visible, Recoveries, phase, mem, op, told, runs, faults>>
    BY <1>1 DEF vars, Held, Visible, Recoveries
  <2>2. LegalMutation' /\ FencedHolds' /\ OneDoubt'
    <3>1. LegalMutation'
      <4> SUFFICES ASSUME Mutating' PROVE Legal(op.kind, op.id, mem.recs[op.id], op.rec)'
        BY DEF LegalMutation
      <4>1. Legal(op.kind, op.id, mem.recs[op.id], op.rec)
        BY <2>1 DEF ChangesInv, LegalMutation, Mutating
      <4> QED
        BY <2>1, <4>1 DEF Legal, Fresh, Readdressed, Withdrawn, Settled, Forgotten
    <3>2. FencedHolds'
      <4> SUFFICES ASSUME phase' = "fenced" PROVE OneAhead'
        BY DEF FencedHolds
      <4>1. OneAhead
        BY <2>1 DEF ChangesInv, FencedHolds
      <4> QED
        BY <2>1, <4>1, AheadStays
    <3>3. OneDoubt'
      BY <2>1 DEF ChangesInv, OneDoubt, OneKindOfRestart, Start
    <3> QED
      BY <3>1, <3>2, <3>3
  <2> QED
    BY <2>1, <2>2 DEF ChangesInv, Simulated
<1>2. CASE Next
  <2>1. UNCHANGED faults /\ Step
    BY <1>2 DEF Next
  <2>2. CASE WriteLine \/ SyncLine \/ Compaction
    BY <2>1, <2>2, WriteLineChanges, SyncLineChanges, CompactionChanges
  <2>3. CASE WriteFails \/ SyncFails
    BY <2>3, FailureChanges
  <2>4. CASE \E r \in Requests, g \in Gens : Admit(r, g) \/ Redeliver(r, g) \/ Acknowledge(r, g)
    BY <2>4, AdmitChanges, RedeliverChanges, AcknowledgeChanges
  <2>5. CASE \E r \in Requests : Complete(r) \/ RecoverRunning(r)
    BY <2>5, CompleteChanges, RecoverRunningChanges
  <2>6. CASE ReplayPending \/ Open \/ Opened
    BY <2>6, ReplayPendingChanges, OpenChanges, OpenedChanges
  <2>7. CASE ProcessExit \/ Close \/ PowerLoss
    BY <2>7, ExitChanges, PowerLossChanges
  <2> QED
    BY <2>1, <2>2, <2>3, <2>4, <2>5, <2>6, <2>7 DEF Step
<1> QED
  BY <1>1, <1>2

(* The snapshot, the log and the calls that append, sync, compact and replay     *)
(* them implement a journal that changes one record at a time: through every      *)
(* exit, power loss and failed write or sync, as long as restarts are of one      *)
(* kind, each step is a legal change of one record or leaves the records alone.   *)
THEOREM JournalRefines == Spec => JournalImplementsContract
<1>1. Init => JournalInv /\ ChangesInv /\ Contract!Init
  <2> SUFFICES ASSUME Init PROVE JournalInv /\ ChangesInv /\ Contract!Init
    OBVIOUS
  <2>1. ChangesInv
    BY DEF Init, ChangesInv, LegalMutation, FencedHolds, OneDoubt, Mutating, Idle
  <2>2. Held = [r \in Requests |-> NoRecord]
    <3>1. replay_wal(snap, wal) = Start(mem) /\ phase = "closed"
      BY ReplayEmpty DEF Init
    <3> QED
      BY <3>1 DEF Held, Start, Init
  <2>3. Contract!Init
    BY <2>2 DEF Init, Contract!Init
  <2> QED
    BY <2>1, <2>3, JournalStart
<1>2. JournalInv /\ ChangesInv /\ [Next]_vars
        => (JournalInv /\ ChangesInv)' /\ [OneKindOfRestart => Contract!Next]_(Contract!vars)
  BY JournalStep, ChangesStep DEF Simulated, Contract!vars
<1> QED
  BY <1>1, <1>2, PTL DEF Spec, JournalImplementsContract

=============================================================================
