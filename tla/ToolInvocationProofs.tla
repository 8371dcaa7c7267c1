------------------------ MODULE ToolInvocationProofs ------------------------
(* Theorems about the tool-invocation ledger, for every number of pods,       *)
(* invocations and attempts, all lease durations and all bounds.              *)
EXTENDS ToolInvocation, RunAuthorityProofs

-----------------------------------------------------------------------------
\* Type correctness, by the groups of variables that change together

Certainties == {"not_dispatched", "dispatched", "unknown"}
Steps == {"idle", "prepare", "expire", "dispatch", "recover", "execute",
          "finish", "reread", "reconcile", "doubt", "done"}

WritesTyped == hot \in [Invs -> States] /\ certainty \in [Invs -> Certainties]
LeasesTyped == /\ attempts \in [Invs -> Nat]
               /\ dOwner \in [Invs -> Calls \cup {NoCall}] /\ dLease \in [Invs -> -1..DTtl]
StoreTyped  == /\ archived \in [Invs -> States] /\ archivedCert \in [Invs -> Certainties]
               /\ effects \in [Invs -> Nat] /\ granted \in [Invs -> BOOLEAN]
CallsTyped  == /\ pc \in [Calls -> Steps]
               /\ callInv \in [Calls -> Invs] /\ callGen \in [Calls -> Generations]
               /\ callEpoch \in [Calls -> 0..MaxIdx]
               /\ result \in [Calls -> Outcomes \cup {"none", "unknown"}]

LEMMA TypeGroups == LedgerTypeOK <=> WritesTyped /\ LeasesTyped /\ StoreTyped /\ CallsTyped
  BY DEF LedgerTypeOK, WritesTyped, LeasesTyped, StoreTyped, CallsTyped, Certainties, Steps

(* A call that has to look at the row again knows a settled outcome.          *)
AnswersKnown == \A c \in Calls : pc[c] \in {"reread", "reconcile"} => Settled(result[c])

LEMMA GotoTyped ==
  ASSUME CallsTyped, AnswersKnown, NEW c \in Calls, NEW l \in Steps, Goto(c, l),
         l \in {"reread", "reconcile"} => Settled(result[c])
  PROVE  CallsTyped' /\ AnswersKnown'
  BY DEF Goto, CallsTyped, AnswersKnown

LEMMA ReturnsTyped ==
  ASSUME CallsTyped, AnswersKnown, NEW c \in Calls, NEW r, Return(c, r)
  PROVE  CallsTyped' /\ AnswersKnown'
<1>1. 0 \in Generations /\ 0 \in 0..MaxIdx
  BY RunConstants DEF Generations
<1>2. "done" \in Steps /\ "done" \notin {"reread", "reconcile"}
  BY DEF Steps
<1>3. (IF Settled(r) THEN r ELSE "none") \in Outcomes \cup {"none", "unknown"}
  BY DEF Settled
<1> QED
  BY <1>1, <1>2, <1>3 DEF Return, Forget, CallsTyped, AnswersKnown

LEMMA WriteTyped ==
  ASSUME WritesTyped, NEW i \in Invs, NEW s \in States, NEW d \in Certainties, Write(i, s, d)
  PROVE  WritesTyped'
  BY DEF Write, WritesTyped

LEMMA ReleaseTyped ==
  ASSUME LeasesTyped, NEW i \in Invs, ReleaseDispatch(i), UNCHANGED attempts
  PROVE  LeasesTyped'
  BY LedgerConstants DEF ReleaseDispatch, LeasesTyped

LEMMA CommitTyped ==
  ASSUME LedgerTypeOK, NEW c \in Calls, CommitClaim(c), UNCHANGED <<archiveOf, effects>>
  PROVE  WritesTyped' /\ LeasesTyped' /\ StoreTyped'
<1> DEFINE i == callInv[c]
<1>1. i \in Invs /\ WritesTyped /\ LeasesTyped /\ StoreTyped
  BY TypeGroups DEF CallsTyped
<1>2. WritesTyped'
  BY <1>1, WriteTyped DEF CommitClaim, States, Certainties
<1>3. LeasesTyped'
  <2>1. DTtl \in -1..DTtl
    BY LedgerConstants
  <2> QED
    BY <1>1, <2>1 DEF CommitClaim, LeasesTyped
<1>4. granted' \in [Invs -> BOOLEAN]
  BY <1>1 DEF CommitClaim, StoreTyped
<1> QED
  BY <1>1, <1>2, <1>3, <1>4 DEF StoreTyped, archiveOf

\* A compaction takes nothing but settled rows.
LEMMA FirstRowsSettled == \A i \in Invs : i \in FirstRows => Settled(hot[i])
  BY DEF FirstRows

LEMMA TypeStep == LedgerTypeOK /\ AnswersKnown /\ [Next]_vars => (LedgerTypeOK /\ AnswersKnown)'
<1> SUFFICES ASSUME LedgerTypeOK, AnswersKnown, [Next]_vars
             PROVE  LedgerTypeOK' /\ AnswersKnown'
  OBVIOUS
<1> DEFINE Typed == WritesTyped' /\ LeasesTyped' /\ StoreTyped' /\ CallsTyped' /\ AnswersKnown'
<1>0. WritesTyped /\ LeasesTyped /\ StoreTyped /\ CallsTyped
  BY TypeGroups
<1>s. Steps = {"idle", "prepare", "expire", "dispatch", "recover", "execute",
               "finish", "reread", "reconcile", "doubt", "done"}
  BY DEF Steps
<1>t. SUFFICES Typed
  BY DEF LedgerTypeOK, WritesTyped, LeasesTyped, StoreTyped, CallsTyped, Certainties, Steps
<1>1. CASE UNCHANGED ledgerVars
  BY <1>0, <1>1 DEF ledgerVars, rowsOf, archiveOf, callsOf, WritesTyped, LeasesTyped, StoreTyped,
                    CallsTyped, AnswersKnown
<1>2. ASSUME NEW c \in Calls, NEW i \in Invs, NEW g \in Generations, NEW e \in 0..MaxIdx,
             StartCall(c, i, g, e)
      PROVE  Typed
  <2>1. WritesTyped' /\ LeasesTyped' /\ StoreTyped'
    BY <1>0, <1>2 DEF StartCall, rowsOf, archiveOf, WritesTyped, LeasesTyped, StoreTyped
  <2>2. CallsTyped' /\ AnswersKnown'
    BY <1>0, <1>2, <1>s DEF StartCall, CallsTyped, AnswersKnown
  <2> QED
    BY <2>1, <2>2
<1>3. ASSUME NEW c \in Calls, CallStep(c) \/ RenewDispatch(c) \/ CallDies(c) PROVE Typed
  <2> DEFINE i == callInv[c]
  <2>0. i \in Invs /\ result[c] \in Outcomes \cup {"none", "unknown"}
    BY <1>0 DEF CallsTyped
  <2>1. CASE PrepareNew(c)
    <3>1. WritesTyped'
      BY <1>0, <2>0, <2>1, WriteTyped DEF PrepareNew, States, Certainties
    <3>2. LeasesTyped'
      BY <1>0, <2>0, <2>1, LedgerConstants DEF PrepareNew, ReleaseDispatch, LeasesTyped
    <3>3. CallsTyped' /\ AnswersKnown'
      BY <1>0, <1>s, <2>1, GotoTyped DEF PrepareNew
    <3> QED
      BY <1>0, <2>1, <3>1, <3>2, <3>3 DEF PrepareNew, archiveOf, StoreTyped
  <2>2. CASE PrepareExisting(c)
    <3>1. CallsTyped' /\ AnswersKnown'
      BY <1>0, <1>s, <2>2, GotoTyped, ReturnsTyped DEF PrepareExisting
    <3> QED
      BY <1>0, <2>2, <3>1
         DEF PrepareExisting, rowsOf, archiveOf, WritesTyped, LeasesTyped, StoreTyped
  <2>3. CASE ReconcileExpiredDispatch(c)
    <3>1. WritesTyped'
      BY <1>0, <2>0, <2>3, WriteTyped DEF ReconcileExpiredDispatch, WritesTyped, States, Certainties
    <3>2. CallsTyped' /\ AnswersKnown'
      BY <1>0, <2>3, ReturnsTyped DEF ReconcileExpiredDispatch
    <3> QED
      BY <1>0, <2>3, <3>1, <3>2
         DEF ReconcileExpiredDispatch, archiveOf, LeasesTyped, StoreTyped
  <2>4. CASE CompleteFromSemanticReadCache(c)
    <3>1. WritesTyped'
      BY <1>0, <2>0, <2>4, WriteTyped
         DEF CompleteFromSemanticReadCache, WritesTyped, States, Outcomes, Certainties
    <3>2. CallsTyped' /\ AnswersKnown'
      BY <1>0, <2>4, ReturnsTyped DEF CompleteFromSemanticReadCache
    <3> QED
      BY <1>0, <2>4, <3>1, <3>2
         DEF CompleteFromSemanticReadCache, archiveOf, LeasesTyped, StoreTyped
  <2>5. CASE ClaimDispatch(c)
    <3>1. CallsTyped' /\ AnswersKnown'
      BY <1>0, <1>s, <2>5, GotoTyped DEF ClaimDispatch
    <3>2. CASE CommitClaim(c)
      BY <2>5, <3>1, <3>2, CommitTyped DEF ClaimDispatch
    <3>3. CASE UNCHANGED <<rowsOf, granted>>
      BY <1>0, <2>5, <3>1, <3>3
         DEF ClaimDispatch, rowsOf, archiveOf, WritesTyped, LeasesTyped, StoreTyped
    <3> QED
      BY <2>5, <3>2, <3>3 DEF ClaimDispatch
  <2>6. CASE ClaimSuperseded(c)
    <3>1. WritesTyped'
      BY <1>0, <2>0, <2>6, WriteTyped
         DEF ClaimSuperseded, WritesTyped, States, Outcomes, Certainties
    <3>2. LeasesTyped'
      BY <1>0, <2>0, <2>6, ReleaseTyped DEF ClaimSuperseded, LeasesTyped
    <3>3. CallsTyped' /\ AnswersKnown'
      BY <1>0, <2>6, ReturnsTyped DEF ClaimSuperseded
    <3> QED
      BY <1>0, <2>6, <3>1, <3>2, <3>3 DEF ClaimSuperseded, archiveOf, StoreTyped
  <2>7. CASE ClaimRefused(c) \/ CallDies(c)
    <3>1. CallsTyped' /\ AnswersKnown'
      BY <1>0, <2>7, ReturnsTyped DEF ClaimRefused, CallDies
    <3> QED
      BY <1>0, <2>7, <3>1
         DEF ClaimRefused, CallDies, rowsOf, archiveOf, WritesTyped, LeasesTyped, StoreTyped
  <2>8. CASE RecoverDispatchClaim(c)
    <3>1. CallsTyped' /\ AnswersKnown'
      BY <1>0, <1>s, <2>8, GotoTyped, ReturnsTyped DEF RecoverDispatchClaim
    <3>2. CASE CommitClaim(c)
      BY <2>8, <3>1, <3>2, CommitTyped DEF RecoverDispatchClaim
    <3>3. CASE dLease' = [dLease EXCEPT ![i] = DTtl]
               /\ UNCHANGED <<runVars, hot, certainty, attempts, dOwner, granted>>
      <4>1. LeasesTyped'
        BY <1>0, <2>0, <3>3, LedgerConstants DEF LeasesTyped
      <4> QED
        BY <1>0, <2>8, <3>1, <3>3, <4>1
           DEF RecoverDispatchClaim, archiveOf, WritesTyped, StoreTyped
    <3>4. CASE UNCHANGED <<rowsOf, granted>>
      BY <1>0, <2>8, <3>1, <3>4
         DEF RecoverDispatchClaim, rowsOf, archiveOf, WritesTyped, LeasesTyped, StoreTyped
    <3> QED
      BY <2>8, <3>2, <3>3, <3>4 DEF RecoverDispatchClaim
  <2>9. CASE ExecuteRoute(c) \/ RejectPastDeadline(c)
    <3>1. 0 \in Generations /\ 0 \in 0..MaxIdx
      BY RunConstants DEF Generations
    <3>2. CallsTyped' /\ AnswersKnown'
      BY <1>0, <1>s, <2>9, <3>1, LedgerConstants
         DEF ExecuteRoute, RejectPastDeadline, Forget, CallsTyped, AnswersKnown, Outcomes
    <3> QED
      BY <1>0, <2>0, <2>9, <3>2
         DEF ExecuteRoute, RejectPastDeadline, rowsOf, archiveOf, WritesTyped, LeasesTyped, StoreTyped
  <2>10. CASE RenewDispatch(c)
    BY <1>0, <2>0, <2>10, LedgerConstants
       DEF RenewDispatch, archiveOf, callsOf, WritesTyped, LeasesTyped, StoreTyped, CallsTyped,
           AnswersKnown
  <2>11. CASE Finish(c)
    <3>1. CallsTyped' /\ AnswersKnown'
      BY <1>0, <1>s, <2>11, GotoTyped, ReturnsTyped DEF Finish
    <3>2. WritesTyped' /\ UNCHANGED <<attempts, dOwner, dLease>>
      BY <1>0, <2>0, <2>11, WriteTyped
         DEF Finish, MarkOutcomeUnknown, CompareAndComplete, Settled, rowsOf, WritesTyped, States,
             Certainties
    <3> QED
      BY <1>0, <2>11, <3>1, <3>2 DEF Finish, archiveOf, LeasesTyped, StoreTyped
  <2>12. CASE Reread(c)
    <3>1. CallsTyped' /\ AnswersKnown'
      BY <1>0, <1>s, <2>12, GotoTyped, ReturnsTyped DEF Reread, AnswersKnown
    <3> QED
      BY <1>0, <2>12, <3>1
         DEF Reread, rowsOf, archiveOf, WritesTyped, LeasesTyped, StoreTyped
  <2>13. CASE ReconcileComplete(c)
    <3>1. CallsTyped' /\ AnswersKnown'
      BY <1>0, <2>13, ReturnsTyped DEF ReconcileComplete
    <3>2. WritesTyped' /\ UNCHANGED <<attempts, dOwner, dLease>>
      BY <1>0, <2>0, <2>13, WriteTyped
         DEF ReconcileComplete, CompareAndComplete, AnswersKnown, Settled, rowsOf, WritesTyped,
             States, Certainties
    <3> QED
      BY <1>0, <2>13, <3>1, <3>2 DEF ReconcileComplete, archiveOf, LeasesTyped, StoreTyped
  <2>14. CASE FinishInDoubt(c)
    <3>1. CallsTyped' /\ AnswersKnown'
      BY <1>0, <2>14, ReturnsTyped DEF FinishInDoubt
    <3>2. WritesTyped' /\ UNCHANGED <<attempts, dOwner, dLease>>
      BY <1>0, <2>0, <2>14, WriteTyped
         DEF FinishInDoubt, MarkOutcomeUnknown, rowsOf, WritesTyped, States, Certainties
    <3> QED
      BY <1>0, <2>14, <3>1, <3>2 DEF FinishInDoubt, archiveOf, LeasesTyped, StoreTyped
  <2> QED
    BY <1>3, <2>1, <2>2, <2>3, <2>4, <2>5, <2>6, <2>7, <2>8, <2>9, <2>10, <2>11, <2>12, <2>13,
       <2>14 DEF CallStep
<1>4. CASE ReconcileTerminalRun
  <2>1. WritesTyped'
    BY <1>0, <1>4 DEF ReconcileTerminalRun, WritesTyped, States, Outcomes, Certainties
  <2>2. LeasesTyped'
    BY <1>0, <1>4, LedgerConstants DEF ReconcileTerminalRun, LeasesTyped
  <2> QED
    BY <1>0, <1>4, <2>1, <2>2
       DEF ReconcileTerminalRun, archiveOf, callsOf, StoreTyped, CallsTyped, AnswersKnown
<1>5. CASE CompactTerminalRunBatch
  <2>1. WritesTyped' /\ StoreTyped'
    BY <1>0, <1>5 DEF CompactTerminalRunBatch, WritesTyped, StoreTyped, States
  <2> QED
    BY <1>0, <1>5, <2>1
       DEF CompactTerminalRunBatch, callsOf, LeasesTyped, CallsTyped, AnswersKnown
<1>6. CASE Clock
  <2>1. LeasesTyped'
    <3>1. \A i \in Invs : (IF dLease[i] > -1 THEN dLease[i] - 1 ELSE dLease[i]) \in -1..DTtl
      BY <1>0, LedgerConstants DEF LeasesTyped
    <3> QED
      BY <1>0, <1>6, <3>1 DEF Clock, LeasesTyped
  <2> QED
    BY <1>0, <1>6, <2>1
       DEF Clock, archiveOf, callsOf, WritesTyped, StoreTyped, CallsTyped, AnswersKnown
<1> QED
  BY <1>1, <1>2, <1>3, <1>4, <1>5, <1>6 DEF Next, vars

(* The ledger, the archive and the calls stay well typed: above all, only a   *)
(* settled outcome ever replaces a doubt, and no dispatch lease outlasts its  *)
(* duration.                                                                  *)
THEOREM LedgerTypeCorrect == Spec => [](LedgerTypeOK /\ AnswersKnown)
<1>1. Init => LedgerTypeOK /\ AnswersKnown
  <2> SUFFICES ASSUME Init PROVE LedgerTypeOK /\ AnswersKnown
    OBVIOUS
  <2>1. 0 \in Generations /\ 0 \in 0..MaxIdx
    BY RunConstants DEF Generations
  <2>2. WritesTyped /\ LeasesTyped
    BY LedgerConstants DEF Init, WritesTyped, LeasesTyped, States, Certainties
  <2>3. granted \in [Invs -> BOOLEAN]
    BY Zenon DEF Init
  <2>4. StoreTyped
    BY <2>3 DEF Init, StoreTyped, States, Certainties
  <2>5. CallsTyped
    <3>1. (CHOOSE i \in Invs : TRUE) \in Invs
      BY LedgerConstants
    <3> QED
      BY <2>1, <3>1 DEF Init, CallsTyped, Steps
  <2>6. AnswersKnown
    BY DEF Init, AnswersKnown
  <2> QED
    BY <2>2, <2>4, <2>5, <2>6, TypeGroups
<1> QED
  BY <1>1, TypeStep, PTL DEF Spec

-----------------------------------------------------------------------------
(* A step of the ledger is a step of its run or leaves the run alone.         *)
LEMMA LedgerStepsRun == LedgerTypeOK /\ [Next]_vars => [RunNext]_runVars
<1> SUFFICES ASSUME LedgerTypeOK, [Next]_vars PROVE [RunNext]_runVars
  OBVIOUS
<1>1. CASE RunStep
  BY <1>1 DEF RunNext
<1>2. ASSUME NEW c \in Calls, CallStep(c) \/ RenewDispatch(c) \/ CallDies(c)
      PROVE  [RunNext]_runVars
  <2>1. CASE ClaimDispatch(c) \/ RecoverDispatchClaim(c)
    <3>1. CommitClaim(c) \/ UNCHANGED runVars
      BY <2>1 DEF ClaimDispatch, RecoverDispatchClaim
    <3>2. CASE CommitClaim(c)
      <4>1. AdmitRunAction(callGen[c]) /\ callGen[c] \in Generations
        BY <3>2 DEF CommitClaim, LedgerTypeOK
      <4> QED
        BY <4>1 DEF RunNext, RunStep, ExecutorStep
    <3> QED
      BY <3>1, <3>2
  <2> QED
    BY <1>2, <2>1
       DEF CallStep, PrepareNew, PrepareExisting, ReconcileExpiredDispatch,
           CompleteFromSemanticReadCache, ClaimSuperseded, ClaimRefused, ExecuteRoute,
           RejectPastDeadline, Finish, Reread, ReconcileComplete, FinishInDoubt,
           RenewDispatch, CallDies
<1> QED
  BY <1>1, <1>2
     DEF Next, StartCall, ReconcileTerminalRun, CompactTerminalRunBatch, Clock, RunNext, vars

(* The run with its ledger implements the run: whatever is proved of the run  *)
(* alone (that terminal is final, that a marker decides, that no guidance is  *)
(* lost) holds while tool calls race with it.                                 *)
THEOREM RunWithLedgerIsRun == Spec => RunSpec
<1>1. Init => RunInit
  BY DEF Init
<1> QED
  BY <1>1, LedgerStepsRun, LedgerTypeCorrect, PTL DEF Spec, RunSpec

-----------------------------------------------------------------------------
\* The inductive invariant of at most one effect

\* The call may still run the tool: it holds the claim, or will find it its own
Holds(c) == pc[c] = "execute" \/ (pc[c] = "recover" /\ OwnsDispatch(c, callInv[c]))

\* Without a grant there is no dispatch and no effect; with one, no way back
OnceGranted == \A i \in Invs :
  /\ ~granted[i] => effects[i] = 0 /\ hot[i] /= "dispatched"
  /\ granted[i] => hot[i] /= "prepared"

\* A granted invocation is on record, and not as undispatched
GrantShows == \A i \in Invs : granted[i] =>
  /\ hot[i] /= "absent" => certainty[i] /= "not_dispatched"
  /\ hot[i] = "absent" => archived[i] /= "absent" /\ archivedCert[i] /= "not_dispatched"

\* Archived rows are not hot, and their run has ended
ArchiveIsClosed == \A i \in Invs : archived[i] /= "absent" => hot[i] = "absent" /\ Terminal(status)

\* The claim of an invocation has one holder at most, before its effect
OneHolder ==
  /\ \A c \in Calls : Holds(c) => granted[callInv[c]] /\ effects[callInv[c]] = 0
  /\ \A c, d \in Calls : Holds(c) /\ Holds(d) /\ callInv[c] = callInv[d] => c = d

RowsInv   == OnceGranted /\ GrantShows /\ ArchiveIsClosed
LedgerInv == RowsInv /\ OneHolder /\ AtMostOnceEffect

(* A step that leaves rows, grants, archive and effects alone keeps RowsInv.  *)
LEMMA RowsKept ==
  ASSUME RowsInv, UNCHANGED <<hot, certainty, granted, archiveOf, effects>>,
         Terminal(status) => Terminal(status')
  PROVE  RowsInv'
  BY DEF RowsInv, OnceGranted, GrantShows, ArchiveIsClosed, archiveOf, Terminal

(* So does one that settles a row, or puts it in doubt, if it admits to the   *)
(* dispatch of a row that is past preparation.                                *)
LEMMA RowSettled ==
  ASSUME RowsInv, LedgerTypeOK, NEW i \in Invs, NEW s, NEW d, Write(i, s, d),
         hot[i] /= "absent", s \notin {"absent", "prepared", "dispatched"},
         d /= "not_dispatched" \/ hot[i] = "prepared",
         UNCHANGED <<granted, archiveOf, effects>>, Terminal(status) => Terminal(status')
  PROVE  RowsInv'
<1>1. \A j \in Invs : /\ hot'[j] = IF j = i THEN s ELSE hot[j]
                      /\ certainty'[j] = IF j = i THEN d ELSE certainty[j]
  BY DEF Write, LedgerTypeOK
<1>2. granted' = granted /\ archived' = archived /\ archivedCert' = archivedCert
      /\ effects' = effects
  BY DEF archiveOf
<1>3. OnceGranted'
  BY <1>1, <1>2 DEF RowsInv, OnceGranted
<1>4. GrantShows'
  BY <1>1, <1>2 DEF RowsInv, OnceGranted, GrantShows
<1>5. ArchiveIsClosed'
  BY <1>1, <1>2 DEF RowsInv, ArchiveIsClosed, Terminal
<1> QED
  BY <1>3, <1>4, <1>5 DEF RowsInv

(* Where nobody becomes a holder and no effect happens, OneHolder stays.      *)
LEMMA HoldersKept ==
  ASSUME OneHolder, UNCHANGED <<granted, effects>>,
         \A c \in Calls : Holds(c)' => Holds(c) /\ callInv'[c] = callInv[c]
  PROVE  OneHolder'
  BY DEF OneHolder

(* The claim makes its call the only holder, and grants what nobody had.      *)
LEMMA CommitKeeps ==
  ASSUME LedgerTypeOK, RowsInv, OneHolder, NEW c \in Calls, NEW l,
         CommitClaim(c), ~granted[callInv[c]], hot[callInv[c]] = "prepared",
         pc' = [pc EXCEPT ![c] = l], UNCHANGED <<callInv, archiveOf, effects>>,
         Terminal(status) => Terminal(status')
  PROVE  RowsInv' /\ OneHolder'
<1> DEFINE i == callInv[c]
<1>1. i \in Invs
  BY DEF LedgerTypeOK
<1>2. \A j \in Invs : /\ hot'[j] = IF j = i THEN "dispatched" ELSE hot[j]
                      /\ certainty'[j] = IF j = i THEN "dispatched" ELSE certainty[j]
                      /\ granted'[j] <=> (j = i \/ granted[j])
  BY <1>1 DEF CommitClaim, Write, LedgerTypeOK
<1>3. archived' = archived /\ archivedCert' = archivedCert /\ effects' = effects
  BY DEF archiveOf
<1>4. OnceGranted'
  BY <1>2, <1>3 DEF RowsInv, OnceGranted
<1>5. GrantShows'
  BY <1>2, <1>3 DEF RowsInv, OnceGranted, GrantShows
<1>6. ArchiveIsClosed'
  BY <1>2, <1>3 DEF RowsInv, ArchiveIsClosed, Terminal
<1>7. \A d \in Calls : Holds(d)' => callInv[d] \in Invs /\ (d = c \/ (Holds(d) /\ callInv[d] /= i))
  <2> SUFFICES ASSUME NEW d \in Calls, Holds(d)', d /= c
               PROVE  Holds(d) /\ callInv[d] /= i
    BY DEF LedgerTypeOK
  <2>1. pc'[d] = pc[d] /\ callInv'[d] = callInv[d] /\ callInv[d] \in Invs
    BY DEF LedgerTypeOK
  <2>2. CASE callInv[d] = i
    <3>1. dOwner'[i] = c
      BY <1>1 DEF CommitClaim, LedgerTypeOK
    <3>2. pc[d] = "execute"
      BY <2>1, <2>2, <3>1 DEF Holds, OwnsDispatch
    <3> QED
      BY <2>2, <3>2 DEF Holds, OneHolder
  <2>3. CASE callInv[d] /= i
    <3>1. dOwner'[callInv[d]] = dOwner[callInv[d]] /\ hot'[callInv[d]] = hot[callInv[d]]
      BY <1>1, <1>2, <2>1, <2>3 DEF CommitClaim, LedgerTypeOK
    <3> QED
      BY <2>1, <2>3, <3>1 DEF Holds, OwnsDispatch
  <2> QED
    BY <2>2, <2>3
<1>8. OneHolder'
  BY <1>1, <1>2, <1>3, <1>7 DEF OneHolder, RowsInv, OnceGranted
<1> QED
  BY <1>4, <1>5, <1>6, <1>8 DEF RowsInv

\* Nobody comes to own a dispatched row by this step
NoNewOwner == \A d \in Calls, j \in Invs : OwnsDispatch(d, j)' => OwnsDispatch(d, j)

(* A call that goes anywhere but to its execution or recovery, or that held   *)
(* the claim already, makes no new holder.                                    *)
LEMMA NoNewHolder ==
  ASSUME LedgerTypeOK, NoNewOwner, NEW c \in Calls, NEW l,
         pc' = [pc EXCEPT ![c] = l], UNCHANGED callInv,
         l \in {"execute", "recover"} => Holds(c) \/ (l = "recover" /\ ~OwnsDispatch(c, callInv[c]))
  PROVE  \A d \in Calls : Holds(d)' => Holds(d) /\ callInv'[d] = callInv[d]
<1> SUFFICES ASSUME NEW d \in Calls, Holds(d)' PROVE Holds(d)
  OBVIOUS
<1>1. callInv[d] \in Invs /\ callInv'[d] = callInv[d] /\ pc'[d] = IF d = c THEN l ELSE pc[d]
  BY DEF LedgerTypeOK
<1>2. OwnsDispatch(d, callInv[d])' => OwnsDispatch(d, callInv[d])
  BY <1>1 DEF NoNewOwner, OwnsDispatch
<1> QED
  BY <1>1, <1>2 DEF Holds

LEMMA OwnersKept ==
  ASSUME UNCHANGED <<hot, dOwner>> PROVE NoNewOwner
  BY DEF NoNewOwner, OwnsDispatch

LEMMA OwnersAfterWrite ==
  ASSUME LedgerTypeOK, NEW i \in Invs, NEW s, NEW d, Write(i, s, d), s /= "dispatched",
         UNCHANGED dOwner \/ ReleaseDispatch(i)
  PROVE  NoNewOwner
<1> SUFFICES ASSUME NEW c \in Calls, NEW j \in Invs, OwnsDispatch(c, j)' PROVE OwnsDispatch(c, j)
  BY DEF NoNewOwner
<1>1. hot'[j] = IF j = i THEN s ELSE hot[j]
  BY DEF Write, LedgerTypeOK
<1>2. j /= i => dOwner'[j] = dOwner[j]
  BY DEF ReleaseDispatch, LedgerTypeOK
<1> QED
  BY <1>1, <1>2 DEF OwnsDispatch

LEMMA LedgerStep ==
  RunTypeOK /\ LedgerTypeOK /\ AnswersKnown /\ LedgerInv /\ [Next]_vars => LedgerInv'
<1> SUFFICES ASSUME RunTypeOK, LedgerTypeOK, AnswersKnown, LedgerInv, [Next]_vars PROVE LedgerInv'
  OBVIOUS
<1>0. Terminal(status) => Terminal(status')
  BY LedgerStepsRun, EveryStepMoves DEF RowMove, Passes, HandsBack, Applies, Admits
<1>a. RowsInv /\ OneHolder /\ AtMostOnceEffect
  BY DEF LedgerInv
<1>b. UNCHANGED effects => AtMostOnceEffect'
  BY <1>a DEF AtMostOnceEffect
<1>1. CASE UNCHANGED ledgerVars
  <2>1. \A c \in Calls : Holds(c)' => Holds(c) /\ callInv'[c] = callInv[c]
    BY <1>1 DEF ledgerVars, rowsOf, callsOf, Holds, OwnsDispatch
  <2> QED
    BY <1>0, <1>a, <1>b, <1>1, <2>1, RowsKept, HoldersKept DEF ledgerVars, rowsOf, LedgerInv
<1>2. ASSUME NEW c \in Calls, NEW i \in Invs, NEW g, NEW e, StartCall(c, i, g, e)
      PROVE  LedgerInv'
  <2>1. \A d \in Calls : Holds(d)' => Holds(d) /\ callInv'[d] = callInv[d]
    BY <1>2 DEF StartCall, rowsOf, LedgerTypeOK, Holds, OwnsDispatch
  <2> QED
    BY <1>0, <1>a, <1>b, <1>2, <2>1, RowsKept, HoldersKept DEF StartCall, rowsOf, LedgerInv
<1>3. ASSUME NEW c \in Calls, CallStep(c) \/ RenewDispatch(c) \/ CallDies(c) PROVE LedgerInv'
  <2> DEFINE i == callInv[c]
  <2>0. i \in Invs
    BY DEF LedgerTypeOK
  <2>1. CASE PrepareNew(c)
    <3>1. /\ hot[i] = "absent" /\ status = "running" /\ Write(i, "prepared", "not_dispatched")
          /\ UNCHANGED <<granted, archiveOf, effects, callInv>> /\ pc' = [pc EXCEPT ![c] = "dispatch"]
          /\ ReleaseDispatch(i)
      BY <2>1 DEF PrepareNew, MayInsert, Goto
    <3>2. archived[i] = "absent" /\ ~granted[i]
      BY <1>a, <2>0, <3>1 DEF RowsInv, ArchiveIsClosed, GrantShows, Terminal, TerminalSet
    <3>3. \A j \in Invs : /\ hot'[j] = IF j = i THEN "prepared" ELSE hot[j]
                          /\ certainty'[j] = IF j = i THEN "not_dispatched" ELSE certainty[j]
      BY <3>1 DEF Write, LedgerTypeOK
    <3>4. OnceGranted'
      BY <1>a, <3>1, <3>2, <3>3 DEF RowsInv, OnceGranted
    <3>5. GrantShows'
      BY <1>a, <3>1, <3>2, <3>3 DEF RowsInv, GrantShows, archiveOf
    <3>6. ArchiveIsClosed'
      BY <1>0, <1>a, <3>1, <3>2, <3>3 DEF RowsInv, ArchiveIsClosed, archiveOf
    <3>7. OneHolder'
      BY <1>a, <2>0, <3>1, OwnersAfterWrite, NoNewHolder, HoldersKept
    <3> QED
      BY <1>b, <3>1, <3>4, <3>5, <3>6, <3>7 DEF LedgerInv, RowsInv
  <2>2. CASE PrepareExisting(c) \/ ClaimRefused(c) \/ CallDies(c) \/ Reread(c)
    <3>1. UNCHANGED <<hot, certainty, dOwner, granted, archiveOf, effects, callInv>>
      BY <2>2 DEF PrepareExisting, ClaimRefused, CallDies, Reread, Goto, Return, rowsOf
    <3>2. PICK l \in {"dispatch", "expire", "done", "reconcile", "doubt"} : pc' = [pc EXCEPT ![c] = l]
      BY <2>2 DEF PrepareExisting, ClaimRefused, CallDies, Reread, Goto, Return
    <3>3. OneHolder'
      BY <1>a, <3>1, <3>2, OwnersKept, NoNewHolder, HoldersKept
    <3> QED
      BY <1>0, <1>a, <1>b, <3>1, <3>3, RowsKept DEF LedgerInv
  <2>3. CASE ReconcileExpiredDispatch(c) \/ CompleteFromSemanticReadCache(c)
    <3>1. /\ UNCHANGED <<dOwner, granted, archiveOf, effects, callInv>>
          /\ pc' = [pc EXCEPT ![c] = "done"]
      BY <2>3 DEF ReconcileExpiredDispatch, CompleteFromSemanticReadCache, Return
    <3>2. \/ hot[i] = "dispatched" /\ Write(i, "outcome_unknown", "unknown")
          \/ hot[i] = "prepared" /\ Write(i, "succeeded", "not_dispatched")
          \/ UNCHANGED <<hot, certainty>>
      BY <2>3 DEF ReconcileExpiredDispatch, CompleteFromSemanticReadCache, Undispatched
    <3>3. NoNewOwner
      BY <2>0, <3>1, <3>2, OwnersKept, OwnersAfterWrite
    <3>4. OneHolder'
      BY <1>a, <3>1, <3>3, NoNewHolder, HoldersKept
    <3>5. RowsInv'
      BY <1>0, <1>a, <2>0, <3>1, <3>2, RowsKept, RowSettled
    <3> QED
      BY <1>b, <3>1, <3>4, <3>5 DEF LedgerInv
  <2>4. CASE ClaimDispatch(c) \/ RecoverDispatchClaim(c)
    <3>1. UNCHANGED <<archiveOf, effects, callInv>>
      BY <2>4 DEF ClaimDispatch, RecoverDispatchClaim, Goto, Return
    <3>2. PICK l \in {"execute", "recover", "done"} : pc' = [pc EXCEPT ![c] = l]
      BY <2>4 DEF ClaimDispatch, RecoverDispatchClaim, Goto, Return
    <3>3. CASE CommitClaim(c) /\ Admission(c) = "granted" /\ hot[i] = "prepared"
      <4>1. ~granted[i]
        BY <3>3 DEF Admission
      <4> QED
        BY <1>0, <1>a, <1>b, <3>1, <3>2, <3>3, <4>1, CommitKeeps DEF LedgerInv
    <3>4. CASE UNCHANGED <<hot, certainty, dOwner, granted>>
               /\ (l = "execute" => pc[c] = "recover" /\ OwnsDispatch(c, i))
               /\ (l = "recover" => hot[i] = "prepared")
      <4>1. l \in {"execute", "recover"} => Holds(c) \/ (l = "recover" /\ ~OwnsDispatch(c, i))
        BY <3>4 DEF Holds, OwnsDispatch
      <4>2. OneHolder'
        BY <1>a, <3>1, <3>2, <3>4, <4>1, OwnersKept, NoNewHolder, HoldersKept
      <4> QED
        BY <1>0, <1>a, <1>b, <3>1, <3>4, <4>2, RowsKept DEF LedgerInv
    <3>5. CASE ClaimDispatch(c)
      <4>1. CommitClaim(c) \/ (UNCHANGED rowsOf /\ UNCHANGED granted /\ pc' = [pc EXCEPT ![c] = "recover"])
        BY <3>5 DEF ClaimDispatch, Goto
      <4>2. Admission(c) = "granted" /\ hot[i] = "prepared"
        BY <3>5 DEF ClaimDispatch
      <4>3. pc'[c] = l
        BY <3>2 DEF LedgerTypeOK
      <4>4. pc' = [pc EXCEPT ![c] = "recover"] => pc'[c] = "recover"
        BY DEF LedgerTypeOK
      <4> QED
        BY <3>3, <3>4, <4>1, <4>2, <4>3, <4>4 DEF rowsOf
    <3>6. CASE RecoverDispatchClaim(c)
      <4>1. \/ CommitClaim(c) /\ Admission(c) = "granted" /\ hot[i] = "prepared"
            \/ /\ UNCHANGED <<hot, certainty, dOwner, granted>>
               /\ OwnsDispatch(c, i) \/ pc' = [pc EXCEPT ![c] = "done"]
        BY <3>6 DEF RecoverDispatchClaim, OwnLiveClaim, Return, rowsOf
      <4>2. pc[c] = "recover" /\ pc'[c] = l /\ pc'[c] /= "recover"
        BY <3>2, <3>6 DEF RecoverDispatchClaim, Goto, Return, LedgerTypeOK
      <4>3. pc' = [pc EXCEPT ![c] = "done"] => pc'[c] = "done"
        BY DEF LedgerTypeOK
      <4> QED
        BY <3>3, <3>4, <4>1, <4>2, <4>3
    <3> QED
      BY <2>4, <3>5, <3>6
  <2>5. CASE ClaimSuperseded(c)
    <3>1. /\ UNCHANGED <<granted, archiveOf, effects, callInv>>
          /\ pc' = [pc EXCEPT ![c] = "done"]
      BY <2>5 DEF ClaimSuperseded, Return
    <3>2. \/ hot[i] = "prepared" /\ Write(i, "rejected", "not_dispatched") /\ ReleaseDispatch(i)
          \/ UNCHANGED <<hot, certainty, dOwner>>
      BY <2>5 DEF ClaimSuperseded, Undispatched
    <3>3. NoNewOwner
      BY <2>0, <3>2, OwnersKept, OwnersAfterWrite
    <3>4. OneHolder'
      BY <1>a, <3>1, <3>3, NoNewHolder, HoldersKept
    <3>5. RowsInv'
      BY <1>0, <1>a, <2>0, <3>1, <3>2, RowsKept, RowSettled
    <3> QED
      BY <1>b, <3>1, <3>4, <3>5 DEF LedgerInv
  <2>6. CASE ExecuteRoute(c)
    <3>1. /\ pc[c] = "execute" /\ pc' = [pc EXCEPT ![c] = "finish"]
          /\ UNCHANGED <<hot, certainty, dOwner, granted, archiveOf, callInv>>
          /\ effects' = [effects EXCEPT ![i] = @ + 1]
      BY <2>6 DEF ExecuteRoute, rowsOf
    <3>2. granted[i] /\ effects[i] = 0
          /\ \A d \in Calls : Holds(d) /\ callInv[d] = i => d = c
      BY <1>a, <3>1 DEF OneHolder, Holds
    <3>3. \A j \in Invs : effects'[j] = IF j = i THEN 1 ELSE effects[j]
      BY <2>0, <3>1, <3>2 DEF LedgerTypeOK
    <3>4. RowsInv'
      BY <1>0, <1>a, <3>1, <3>2, <3>3
         DEF RowsInv, OnceGranted, GrantShows, ArchiveIsClosed, archiveOf, Terminal
    <3>5. AtMostOnceEffect'
      BY <1>a, <3>3 DEF AtMostOnceEffect
    <3>6. \A d \in Calls : Holds(d)' => Holds(d) /\ d /= c /\ callInv'[d] = callInv[d]
      BY <3>1 DEF Holds, OwnsDispatch, LedgerTypeOK
    <3>7. \A d \in Calls : callInv[d] \in Invs
      BY DEF LedgerTypeOK
    <3>8. OneHolder'
      BY <1>a, <3>1, <3>2, <3>3, <3>6, <3>7 DEF OneHolder
    <3> QED
      BY <3>4, <3>5, <3>8 DEF LedgerInv
  <2>7. CASE RejectPastDeadline(c)
    <3>1. /\ UNCHANGED <<hot, certainty, dOwner, granted, archiveOf, effects, callInv>>
          /\ pc' = [pc EXCEPT ![c] = "finish"]
      BY <2>7 DEF RejectPastDeadline, rowsOf
    <3>2. OneHolder'
      BY <1>a, <3>1, OwnersKept, NoNewHolder, HoldersKept
    <3> QED
      BY <1>0, <1>a, <1>b, <3>1, <3>2, RowsKept DEF LedgerInv
  <2>8. CASE RenewDispatch(c)
    <3>1. UNCHANGED <<hot, certainty, dOwner, granted, archiveOf, effects, pc, callInv>>
      BY <2>8 DEF RenewDispatch, callsOf
    <3>2. OneHolder'
      BY <1>a, <3>1, HoldersKept DEF Holds, OwnsDispatch
    <3> QED
      BY <1>0, <1>a, <1>b, <3>1, <3>2, RowsKept DEF LedgerInv
  <2>9. CASE Finish(c) \/ ReconcileComplete(c) \/ FinishInDoubt(c)
    <3>1. UNCHANGED <<dOwner, granted, archiveOf, effects, callInv>>
      BY <2>9 DEF Finish, ReconcileComplete, FinishInDoubt, MarkOutcomeUnknown, CompareAndComplete,
                  Goto, Return, rowsOf
    <3>2. PICK l \in {"done", "reread"} : pc' = [pc EXCEPT ![c] = l]
      BY <2>9 DEF Finish, ReconcileComplete, FinishInDoubt, Goto, Return
    <3>3. \/ hot[i] = "dispatched" /\ Write(i, "outcome_unknown", "unknown")
          \/ /\ hot[i] \in {"dispatched", "outcome_unknown"} /\ Settled(result[c])
             /\ Write(i, result[c], "dispatched")
          \/ UNCHANGED <<hot, certainty>>
      BY <2>9 DEF Finish, ReconcileComplete, FinishInDoubt, MarkOutcomeUnknown, CompareAndComplete,
                  OwnsDispatch, AnswersKnown, rowsOf
    <3>4. Settled(result[c]) => result[c] \notin {"absent", "prepared", "dispatched"}
      BY DEF Settled, Outcomes
    <3>5. NoNewOwner
      BY <2>0, <3>1, <3>3, <3>4, OwnersKept, OwnersAfterWrite
    <3>6. OneHolder'
      BY <1>a, <3>1, <3>2, <3>5, NoNewHolder, HoldersKept
    <3>7. RowsInv'
      BY <1>0, <1>a, <2>0, <3>1, <3>3, <3>4, RowsKept, RowSettled
    <3> QED
      BY <1>b, <3>1, <3>6, <3>7 DEF LedgerInv
  <2> QED
    BY <1>3, <2>1, <2>2, <2>3, <2>4, <2>5, <2>6, <2>7, <2>8, <2>9 DEF CallStep
<1>4. CASE ReconcileTerminalRun
  <2>1. UNCHANGED <<granted, archiveOf, effects, pc, callInv>> /\ Terminal(status)
    BY <1>4 DEF ReconcileTerminalRun, callsOf
  <2>2. \A i \in Invs :
          \/ hot'[i] = hot[i] /\ certainty'[i] = certainty[i] /\ dOwner'[i] = dOwner[i]
          \/ hot[i] = "prepared" /\ hot'[i] = "rejected"
          \/ /\ hot[i] \in {"prepared", "dispatched"} /\ hot'[i] = "outcome_unknown"
             /\ certainty'[i] = "unknown"
    BY <1>4 DEF ReconcileTerminalRun, Undispatched, Abandoned
  <2>3. OnceGranted'
    BY <1>a, <2>1, <2>2 DEF RowsInv, OnceGranted
  <2>4. GrantShows'
    BY <1>a, <2>1, <2>2 DEF RowsInv, OnceGranted, GrantShows, archiveOf
  <2>5. ArchiveIsClosed'
    BY <1>0, <1>a, <2>1, <2>2 DEF RowsInv, ArchiveIsClosed, archiveOf
  <2>6. NoNewOwner
    BY <2>2 DEF NoNewOwner, OwnsDispatch
  <2>7. \A c \in Calls : Holds(c)' => Holds(c) /\ callInv'[c] = callInv[c]
    BY <2>1, <2>6 DEF Holds, NoNewOwner, OwnsDispatch, LedgerTypeOK
  <2> QED
    BY <1>a, <1>b, <2>1, <2>3, <2>4, <2>5, <2>7, HoldersKept DEF LedgerInv, RowsInv
<1>5. CASE CompactTerminalRunBatch
  <2>1. UNCHANGED <<certainty, dOwner, granted, effects, pc, callInv>> /\ Terminal(status)
    BY <1>5 DEF CompactTerminalRunBatch, Quiescent, callsOf
  <2>2. \A i \in Invs :
          \/ /\ hot'[i] = hot[i] /\ archived'[i] = archived[i]
             /\ archivedCert'[i] = archivedCert[i]
          \/ /\ Settled(hot[i]) /\ hot'[i] = "absent" /\ archived'[i] = hot[i]
             /\ archivedCert'[i] = certainty[i]
    BY <1>5, FirstRowsSettled DEF CompactTerminalRunBatch
  <2>3. \A i \in Invs : Settled(hot[i]) => hot[i] \notin {"absent", "prepared", "dispatched"}
    BY DEF Settled, Outcomes
  <2>4. OnceGranted'
    BY <1>a, <2>1, <2>2, <2>3 DEF RowsInv, OnceGranted
  <2>5. GrantShows'
    BY <1>a, <2>1, <2>2, <2>3 DEF RowsInv, GrantShows
  <2>6. ArchiveIsClosed'
    BY <1>0, <1>a, <2>1, <2>2 DEF RowsInv, ArchiveIsClosed
  <2>7. \A c \in Calls : Holds(c)' => Holds(c) /\ callInv'[c] = callInv[c]
    BY <2>1, <2>2 DEF Holds, OwnsDispatch, LedgerTypeOK
  <2> QED
    BY <1>a, <1>b, <2>1, <2>4, <2>5, <2>6, <2>7, HoldersKept DEF LedgerInv, RowsInv
<1>6. CASE Clock
  <2>1. UNCHANGED <<hot, certainty, dOwner, granted, archiveOf, effects, pc, callInv>>
    BY <1>6 DEF Clock, callsOf
  <2>2. OneHolder'
    BY <1>a, <2>1, HoldersKept DEF Holds, OwnsDispatch
  <2> QED
    BY <1>0, <1>a, <1>b, <2>1, <2>2, RowsKept DEF LedgerInv
<1> QED
  BY <1>1, <1>2, <1>3, <1>4, <1>5, <1>6 DEF Next, vars

LEMMA LedgerInvariant == Spec => []LedgerInv
<1>1. Init => LedgerInv
  BY DEF Init, LedgerInv, RowsInv, OnceGranted, GrantShows, ArchiveIsClosed, OneHolder, Holds,
         AtMostOnceEffect
<1>2. Spec => []RunTypeOK
  BY RunWithLedgerIsRun, TypeCorrect, PTL
<1> QED
  BY <1>1, <1>2, LedgerStep, LedgerTypeCorrect, PTL DEF Spec

(* However many attempts race for an invocation, whatever acknowledgements    *)
(* are lost and whoever takes the run over: its tool runs at most once.       *)
THEOREM AtMostOnce == Spec => []AtMostOnceEffect
<1>1. LedgerInv => AtMostOnceEffect
  BY DEF LedgerInv
<1> QED
  BY <1>1, LedgerInvariant, PTL

(* A record, hot or archived, that denies the dispatch tells the truth.       *)
THEOREM DenialsAreTrue == Spec => []NotDispatchedIsTruthful
<1>1. LedgerTypeOK /\ LedgerInv => NotDispatchedIsTruthful
  BY DEF LedgerInv, RowsInv, OnceGranted, GrantShows, NotDispatchedIsTruthful, Record,
         RecordCertainty, LedgerTypeOK
<1> QED
  BY <1>1, LedgerInvariant, LedgerTypeCorrect, PTL

(* No archived invocation comes back as a live row.                           *)
THEOREM ArchivedStaysArchived == Spec => []NoResurrection
<1>1. LedgerInv => NoResurrection
  BY DEF LedgerInv, RowsInv, ArchiveIsClosed, NoResurrection
<1> QED
  BY <1>1, LedgerInvariant, PTL

-----------------------------------------------------------------------------
\* What a caller has been told stays on record

\* A settled record is never replaced, neither in the ledger nor by archiving
RecordsStay == \A i \in Invs : Settled(Record(i)) => Record(i)' = Record(i)

LEMMA RecordsKept ==
  ASSUME UNCHANGED <<hot, archiveOf>> PROVE RecordsStay
  BY DEF RecordsStay, Record, archiveOf

LEMMA RecordsAfterWrite ==
  ASSUME LedgerTypeOK, NEW i \in Invs, NEW s, NEW d, Write(i, s, d), UNCHANGED archiveOf,
         ~Settled(Record(i)), s /= "absent"
  PROVE  RecordsStay /\ Record(i)' = s
  BY DEF RecordsStay, Record, archiveOf, Write, LedgerTypeOK

(* The call does not touch calls that have returned, and what it now returns  *)
(* itself is on record.                                                       *)
LEMMA OthersReported ==
  ASSUME LedgerTypeOK, ReportedIsDurable, RecordsStay, NEW c \in Calls, NEW r,
         Return(c, r), Settled(r) => Record(callInv[c])' = r
  PROVE  ReportedIsDurable'
<1> SUFFICES ASSUME NEW d \in Calls, pc'[d] = "done", Settled(result'[d])
             PROVE  Record(callInv[d])' = result'[d]
  BY DEF ReportedIsDurable, Return, Record
<1>1. callInv[d] \in Invs
  BY DEF LedgerTypeOK
<1>2. CASE d = c
  BY <1>2 DEF Return, LedgerTypeOK, Settled, Outcomes
<1>3. CASE d /= c
  <2>1. pc[d] = "done" /\ result'[d] = result[d] /\ callInv'[d] = callInv[d]
    BY <1>3 DEF Return, LedgerTypeOK
  <2>2. Record(callInv[d]) = result[d] /\ Settled(Record(callInv[d]))
    BY <2>1 DEF ReportedIsDurable
  <2> QED
    BY <1>1, <2>1, <2>2 DEF RecordsStay, Record
<1> QED
  BY <1>2, <1>3

LEMMA NobodyReports ==
  ASSUME LedgerTypeOK, ReportedIsDurable, RecordsStay, NEW c \in Calls, NEW l, l /= "done",
         pc' = [pc EXCEPT ![c] = l], UNCHANGED callInv,
         \A d \in Calls : d /= c => result'[d] = result[d]
  PROVE  ReportedIsDurable'
<1> SUFFICES ASSUME NEW d \in Calls, pc'[d] = "done", Settled(result'[d])
             PROVE  Record(callInv[d])' = result'[d]
  BY DEF ReportedIsDurable, Record
<1>1. d /= c /\ pc[d] = "done" /\ result'[d] = result[d] /\ callInv[d] \in Invs
  BY DEF LedgerTypeOK
<1> QED
  BY <1>1 DEF ReportedIsDurable, RecordsStay

LEMMA ReportedStep ==
  /\ LedgerTypeOK /\ AnswersKnown /\ LedgerInv /\ ReportedIsDurable /\ [Next]_vars
  => ReportedIsDurable'
<1> SUFFICES ASSUME LedgerTypeOK, AnswersKnown, LedgerInv, ReportedIsDurable, [Next]_vars
             PROVE  ReportedIsDurable'
  OBVIOUS
<1>0. RowsInv
  BY DEF LedgerInv
<1>a. \A s : Settled(s) => s \notin {"absent", "prepared", "dispatched", "outcome_unknown", "none"}
  BY DEF Settled, Outcomes
<1>b. \A i \in Invs : hot[i] /= "absent" => Record(i) = hot[i]
  BY DEF Record
<1>1. CASE UNCHANGED ledgerVars
  BY <1>1 DEF ledgerVars, rowsOf, archiveOf, callsOf, ReportedIsDurable, Record
<1>2. ASSUME NEW c \in Calls, NEW i \in Invs, NEW g, NEW e, StartCall(c, i, g, e)
      PROVE  ReportedIsDurable'
  <2> SUFFICES ASSUME NEW d \in Calls, pc'[d] = "done", Settled(result'[d])
               PROVE  Record(callInv[d])' = result'[d]
    BY DEF ReportedIsDurable, Record
  <2>1. d /= c /\ pc[d] = "done" /\ result'[d] = result[d] /\ callInv'[d] = callInv[d]
    BY <1>2 DEF StartCall, LedgerTypeOK
  <2> QED
    BY <1>2, <2>1 DEF StartCall, rowsOf, archiveOf, ReportedIsDurable, Record
<1>3. ASSUME NEW c \in Calls, CallStep(c) \/ RenewDispatch(c) \/ CallDies(c)
      PROVE  ReportedIsDurable'
  <2> DEFINE i == callInv[c]
  <2>0. i \in Invs
    BY DEF LedgerTypeOK
  <2>1. CASE PrepareNew(c)
    <3>1. /\ hot[i] = "absent" /\ status = "running" /\ Write(i, "prepared", "not_dispatched")
          /\ UNCHANGED archiveOf /\ Goto(c, "dispatch")
      BY <2>1 DEF PrepareNew, MayInsert
    <3>2. ~Settled(Record(i))
      BY <1>0, <1>a, <2>0, <3>1 DEF RowsInv, ArchiveIsClosed, Terminal, TerminalSet, Record
    <3>3. RecordsStay
      BY <2>0, <3>1, <3>2, RecordsAfterWrite
    <3> QED
      BY <3>1, <3>3, NobodyReports DEF Goto
  <2>2. CASE PrepareExisting(c) \/ ClaimRefused(c) \/ CallDies(c) \/ Reread(c)
    <3>1. UNCHANGED <<hot, archiveOf>>
      BY <2>2 DEF PrepareExisting, ClaimRefused, CallDies, Reread, rowsOf
    <3>2. \/ \E l \in {"dispatch", "expire", "reconcile", "doubt"} : Goto(c, l)
          \/ Return(c, Record(i)) \/ Return(c, "none")
      BY <2>2 DEF PrepareExisting, ClaimRefused, CallDies, Reread
    <3>3. RecordsStay
      BY <3>1, RecordsKept
    <3>4. ASSUME NEW l \in {"dispatch", "expire", "reconcile", "doubt"}, Goto(c, l)
          PROVE  ReportedIsDurable'
      BY <3>3, <3>4, NobodyReports DEF Goto
    <3>5. CASE Return(c, Record(i))
      <4>1. callInv' = callInv
        BY <3>5 DEF Return
      <4>2. Settled(Record(i)) => Record(callInv[c])' = Record(i)
        BY <2>0, <3>3, <4>1 DEF RecordsStay, Record
      <4> QED
        BY <3>3, <3>5, <4>2, OthersReported
    <3>6. CASE Return(c, "none")
      BY <1>a, <3>3, <3>6, OthersReported
    <3> QED
      BY <3>2, <3>4, <3>5, <3>6
  <2>3. CASE ReconcileExpiredDispatch(c)
    <3>1. UNCHANGED archiveOf /\ Return(c, hot[i]) /\ callInv' = callInv
      BY <2>3 DEF ReconcileExpiredDispatch, Return
    <3>2. \/ hot[i] = "dispatched" /\ Write(i, "outcome_unknown", "unknown")
          \/ UNCHANGED hot
      BY <2>3 DEF ReconcileExpiredDispatch
    <3>3. RecordsStay
      BY <1>a, <1>b, <2>0, <3>1, <3>2, RecordsKept, RecordsAfterWrite
    <3>4. Settled(hot[i]) => Record(callInv[c])' = hot[i]
      BY <1>a, <1>b, <2>0, <3>1, <3>3 DEF RecordsStay, Record
    <3> QED
      BY <3>1, <3>3, <3>4, OthersReported
  <2>4. CASE CompleteFromSemanticReadCache(c)
    <3>1. UNCHANGED archiveOf /\ callInv' = callInv
      BY <2>4 DEF CompleteFromSemanticReadCache, Return
    <3>2. CASE hot[i] = "prepared" /\ Write(i, "succeeded", "not_dispatched") /\ Return(c, "succeeded")
      <4>1. RecordsStay /\ Record(i)' = "succeeded"
        BY <1>a, <1>b, <2>0, <3>1, <3>2, RecordsAfterWrite
      <4>2. Record(callInv[c])' = "succeeded"
        BY <3>1, <4>1 DEF Record
      <4> QED
        BY <3>2, <4>1, <4>2, OthersReported
    <3>3. CASE UNCHANGED hot /\ Return(c, Record(i))
      <4>1. RecordsStay
        BY <3>1, <3>3, RecordsKept
      <4>2. Settled(Record(i)) => Record(callInv[c])' = Record(i)
        BY <2>0, <3>1, <4>1 DEF RecordsStay, Record
      <4> QED
        BY <3>3, <4>1, <4>2, OthersReported
    <3> QED
      BY <2>4, <3>2, <3>3 DEF CompleteFromSemanticReadCache, Undispatched
  <2>5. CASE ClaimDispatch(c) \/ RecoverDispatchClaim(c)
    <3>1. UNCHANGED archiveOf
          /\ (Return(c, "none") \/ \E l \in {"execute", "recover"} : Goto(c, l))
      BY <2>5 DEF ClaimDispatch, RecoverDispatchClaim
    <3>2. \/ hot[i] = "prepared" /\ Write(i, "dispatched", "dispatched")
          \/ UNCHANGED hot
      BY <2>5 DEF ClaimDispatch, RecoverDispatchClaim, CommitClaim, rowsOf
    <3>3. RecordsStay
      BY <1>a, <1>b, <2>0, <3>1, <3>2, RecordsKept, RecordsAfterWrite
    <3>4. CASE Return(c, "none")
      BY <1>a, <3>3, <3>4, OthersReported
    <3>5. ASSUME NEW l \in {"execute", "recover"}, Goto(c, l) PROVE ReportedIsDurable'
      BY <3>3, <3>5, NobodyReports DEF Goto
    <3> QED
      BY <3>1, <3>4, <3>5
  <2>6. CASE ClaimSuperseded(c)
    <3>1. UNCHANGED archiveOf /\ Return(c, "none")
      BY <2>6 DEF ClaimSuperseded
    <3>2. \/ hot[i] = "prepared" /\ Write(i, "rejected", "not_dispatched")
          \/ UNCHANGED hot
      BY <2>6 DEF ClaimSuperseded, Undispatched
    <3>3. RecordsStay
      BY <1>a, <1>b, <2>0, <3>1, <3>2, RecordsKept, RecordsAfterWrite
    <3> QED
      BY <1>a, <3>1, <3>3, OthersReported
  <2>7. CASE ExecuteRoute(c) \/ RejectPastDeadline(c)
    <3>1. /\ UNCHANGED <<hot, archiveOf, callInv>> /\ pc' = [pc EXCEPT ![c] = "finish"]
          /\ \E r : result' = [result EXCEPT ![c] = r]
      BY <2>7 DEF ExecuteRoute, RejectPastDeadline, rowsOf
    <3>2. \A d \in Calls : d /= c => result'[d] = result[d]
      BY <3>1 DEF LedgerTypeOK
    <3> QED
      BY <3>1, <3>2, RecordsKept, NobodyReports
  <2>8. CASE RenewDispatch(c)
    BY <2>8 DEF RenewDispatch, archiveOf, callsOf, ReportedIsDurable, Record
  <2>9. CASE Finish(c) \/ ReconcileComplete(c) \/ FinishInDoubt(c)
    <3>1. UNCHANGED archiveOf
      BY <2>9 DEF Finish, ReconcileComplete, FinishInDoubt
    <3>2. \/ /\ \/ hot[i] = "dispatched" /\ Write(i, "outcome_unknown", "unknown")
                \/ UNCHANGED hot
             /\ Return(c, "none") \/ Goto(c, "reread")
          \/ /\ hot[i] \in {"dispatched", "outcome_unknown"} /\ Settled(result[c])
             /\ Write(i, result[c], "dispatched")
             /\ Return(c, "none") \/ Return(c, result[c]) \/ Goto(c, "reread")
      BY <2>9 DEF Finish, ReconcileComplete, FinishInDoubt, MarkOutcomeUnknown, CompareAndComplete,
                  OwnsDispatch, AnswersKnown, rowsOf
    <3>3. RecordsStay
      BY <1>a, <1>b, <2>0, <3>1, <3>2, RecordsKept, RecordsAfterWrite
    <3>4. CASE Return(c, "none")
      BY <1>a, <3>3, <3>4, OthersReported
    <3>5. CASE Goto(c, "reread")
      BY <3>3, <3>5, NobodyReports DEF Goto
    <3>6. CASE /\ hot[i] \in {"dispatched", "outcome_unknown"} /\ Settled(result[c])
               /\ Write(i, result[c], "dispatched") /\ Return(c, result[c])
      <4>1. callInv' = callInv
        BY <3>6 DEF Return
      <4>2. Record(callInv[c])' = result[c]
        BY <1>a, <1>b, <2>0, <3>1, <3>6, <4>1, RecordsAfterWrite DEF Record
      <4> QED
        BY <3>3, <3>6, <4>2, OthersReported
    <3> QED
      BY <3>2, <3>4, <3>5, <3>6
  <2> QED
    BY <1>3, <2>1, <2>2, <2>3, <2>4, <2>5, <2>6, <2>7, <2>8, <2>9 DEF CallStep
<1>4. CASE ReconcileTerminalRun
  <2>1. UNCHANGED <<archiveOf, pc, callInv, result>>
    BY <1>4 DEF ReconcileTerminalRun, callsOf
  <2>2. \A i \in Invs : hot'[i] = hot[i] \/ hot[i] \in {"prepared", "dispatched"}
    BY <1>4 DEF ReconcileTerminalRun, Undispatched, Abandoned
  <2> QED
    BY <1>a, <2>1, <2>2 DEF ReportedIsDurable, Record, archiveOf, LedgerTypeOK
<1>5. CASE CompactTerminalRunBatch
  <2>1. UNCHANGED <<pc, callInv, result>>
    BY <1>5 DEF CompactTerminalRunBatch, callsOf
  <2>2. \A i \in Invs : Record(i)' = Record(i)
    BY <1>5, <1>a, FirstRowsSettled DEF CompactTerminalRunBatch, Record
  <2> QED
    BY <2>1, <2>2 DEF ReportedIsDurable, Record, LedgerTypeOK
<1>6. CASE Clock
  BY <1>6 DEF Clock, archiveOf, callsOf, ReportedIsDurable, Record
<1> QED
  BY <1>1, <1>2, <1>3, <1>4, <1>5, <1>6 DEF Next, vars

(* An outcome a caller has been told is the outcome on record, from then on.  *)
THEOREM ReportsAreDurable == Spec => []ReportedIsDurable
<1>1. Init => ReportedIsDurable
  BY DEF Init, ReportedIsDurable
<1> QED
  BY <1>1, ReportedStep, LedgerTypeCorrect, LedgerInvariant, PTL DEF Spec

-----------------------------------------------------------------------------
\* Guidance and the dispatch claim

(* The strengthening: guidance up to the cursor a call was started with has   *)
(* left custody, and later guidance lies beyond the cursor.                   *)
CursorIsRead == \A c \in Calls : pc[c] /= "idle" =>
  /\ callEpoch[c] <= lastIdx
  /\ \A k \in 1..MaxIdx : k <= callEpoch[c] => intent[k] /= "pending"

LEMMA CursorStep ==
  RunTypeOK /\ LedgerTypeOK /\ CursorIsRead /\ [Next]_vars => CursorIsRead'
<1> SUFFICES ASSUME RunTypeOK, LedgerTypeOK, CursorIsRead, [Next]_vars,
                    NEW c \in Calls, pc'[c] /= "idle"
             PROVE  /\ callEpoch'[c] <= lastIdx'
                    /\ \A k \in 1..MaxIdx : k <= callEpoch'[c] => intent'[k] /= "pending"
  BY DEF CursorIsRead
<1>0. RowMove
  BY LedgerStepsRun, EveryStepMoves
<1>1. /\ lastIdx' >= lastIdx /\ lastIdx \in Nat /\ lastIdx' \in Nat
      /\ \A k \in 1..MaxIdx : k <= lastIdx /\ intent[k] /= "pending" => intent'[k] /= "pending"
  <2>1. CASE Passes
    BY <2>1 DEF Passes, RunTypeOK
  <2>2. CASE HandsBack
    BY <2>2 DEF HandsBack, ReturnIntents, RunTypeOK
  <2>3. CASE Applies
    BY <2>3 DEF Applies, RunTypeOK
  <2>4. CASE Admits
    BY <2>4 DEF Admits, RunTypeOK
  <2> QED
    BY <1>0, <2>1, <2>2, <2>3, <2>4 DEF RowMove
<1> DEFINE Kept    == pc[c] /= "idle" /\ callEpoch'[c] \in {callEpoch[c], 0}
           Started == /\ callEpoch'[c] <= lastIdx /\ UNCHANGED <<intent, lastIdx>>
                      /\ \A k \in 1..MaxIdx : k <= callEpoch'[c] => intent[k] /= "pending"
<1>2. Kept \/ Started
  <2>1. CASE UNCHANGED <<pc, callEpoch>>
    BY <2>1
  <2>2. ASSUME NEW d \in Calls, NEW i \in Invs, NEW g, NEW e \in 0..MaxIdx, StartCall(d, i, g, e)
        PROVE  Kept \/ Started
    <3>1. CASE d = c
      <4>1. callEpoch'[c] = e /\ DOMAIN intent = 1..MaxIdx
        BY <2>2, <3>1 DEF StartCall, LedgerTypeOK, RunTypeOK
      <4> QED
        BY <2>2, <4>1 DEF StartCall, runVars, rowVars
    <3>2. CASE d /= c
      BY <2>2, <3>2 DEF StartCall, LedgerTypeOK
    <3> QED
      BY <3>1, <3>2
  <2>3. ASSUME NEW d \in Calls, CallStep(d) \/ CallDies(d) PROVE Kept \/ Started
    <3>1. /\ pc[d] /= "idle" /\ \E l : pc' = [pc EXCEPT ![d] = l]
          /\ callEpoch' = callEpoch \/ callEpoch' = [callEpoch EXCEPT ![d] = 0]
      BY <2>3 DEF CallStep, PrepareNew, PrepareExisting, ReconcileExpiredDispatch,
           CompleteFromSemanticReadCache, ClaimDispatch, ClaimSuperseded, ClaimRefused,
           RecoverDispatchClaim, ExecuteRoute, RejectPastDeadline, Finish, Reread,
           ReconcileComplete, FinishInDoubt, CallDies, Goto, Return, Forget
    <3> QED
      BY <3>1 DEF LedgerTypeOK
  <2> QED
    BY <2>1, <2>2, <2>3
       DEF Next, RenewDispatch, ReconcileTerminalRun, CompactTerminalRunBatch, Clock,
           ledgerVars, callsOf, vars
<1>3. callEpoch[c] \in 0..MaxIdx
  BY DEF LedgerTypeOK
<1>4. CASE Kept
  BY <1>1, <1>3, <1>4 DEF CursorIsRead
<1> QED
  BY <1>2, <1>4

(* A tool is only dispatched when the executor has taken in all the guidance  *)
(* the run has accepted, also that which came while the call was under way.   *)
THEOREM DispatchFollowsGuidance == Spec => NoDispatchOverGuidance
<1>1. Init => CursorIsRead
  BY DEF Init, CursorIsRead
<1>2. Spec => []RunTypeOK
  BY RunWithLedgerIsRun, TypeCorrect, PTL
<1>3. RunTypeOK /\ LedgerTypeOK /\ CursorIsRead /\ [Next]_vars
        => [\A i \in Invs : ~granted[i] /\ granted'[i]
              => \A k \in DOMAIN intent : intent[k] /= "pending"]_vars
  <2> SUFFICES ASSUME RunTypeOK, LedgerTypeOK, CursorIsRead, Next,
                      NEW i \in Invs, ~granted[i], granted'[i], NEW k \in DOMAIN intent
               PROVE  intent[k] /= "pending"
    OBVIOUS
  <2>1. PICK c \in Calls : CommitClaim(c) /\ pc[c] /= "idle" /\ Admission(c) = "granted"
    BY DEF Next, StartCall, CallStep, PrepareNew, PrepareExisting, ReconcileExpiredDispatch,
           CompleteFromSemanticReadCache, ClaimDispatch, ClaimSuperseded, ClaimRefused,
           RecoverDispatchClaim, ExecuteRoute, RejectPastDeadline, Finish, Reread,
           ReconcileComplete, FinishInDoubt, CallDies, RenewDispatch, ReconcileTerminalRun,
           CompactTerminalRunBatch, Clock, ledgerVars
  <2>2. ~Superseded(c)
    BY <2>1 DEF Admission
  <2>3. callEpoch[c] \in 0..MaxIdx /\ k \in 1..MaxIdx
    BY DEF LedgerTypeOK, RunTypeOK
  <2>4. CASE k > callEpoch[c]
    BY <2>2, <2>4 DEF Superseded
  <2>5. CASE k <= callEpoch[c]
    BY <2>1, <2>3, <2>5 DEF CursorIsRead
  <2> QED
    BY <2>3, <2>4, <2>5
<1> QED
  BY <1>1, <1>2, <1>3, CursorStep, LedgerTypeCorrect, PTL DEF Spec, NoDispatchOverGuidance

-----------------------------------------------------------------------------
\* The contract of a logical invocation

\* The call has the answer of the provider, or a refusal, and has to persist it
Answering(c) == pc[c] \in {"finish", "reread", "reconcile", "doubt"}

\* The claim of a holder is on record, as its own or in doubt: never settled
HolderIsShown == \A c \in Calls : Holds(c) =>
  /\ hot[callInv[c]] \in {"dispatched", "outcome_unknown"}
  /\ hot[callInv[c]] = "dispatched" => dOwner[callInv[c]] = c

\* Where a call has its answer, nobody holds the claim any more
AnswersFollow == \A d \in Calls : Answering(d) =>
  /\ granted[callInv[d]]
  /\ \A c \in Calls : Holds(c) => callInv[c] /= callInv[d]

ClaimsInv == HolderIsShown /\ AnswersFollow

\* The row of j stays, or falls into doubt, or belonged to no holder
RowStands(j) == \/ hot'[j] = hot[j] /\ dOwner'[j] = dOwner[j]
                \/ hot'[j] = "outcome_unknown"
                \/ \A c \in Calls : Holds(c) => callInv[c] /= j

(* Where nobody becomes a holder or gets an answer, and the rows of holders   *)
(* stand, the claims stay as they are described.                              *)
LEMMA ClaimsKept ==
  ASSUME LedgerTypeOK, ClaimsInv, UNCHANGED granted, \A j \in Invs : RowStands(j),
         \A d \in Calls : Holds(d)' => Holds(d) /\ callInv'[d] = callInv[d],
         \A d \in Calls : Answering(d)' => Answering(d) /\ callInv'[d] = callInv[d]
  PROVE  ClaimsInv'
<1>1. \A d \in Calls : callInv[d] \in Invs
  BY DEF LedgerTypeOK
<1>2. HolderIsShown'
  BY <1>1 DEF ClaimsInv, HolderIsShown, RowStands
<1>3. AnswersFollow'
  BY <1>1 DEF ClaimsInv, AnswersFollow
<1> QED
  BY <1>2, <1>3 DEF ClaimsInv

(* The same for the step of one call, to a place where it has no new answer.  *)
LEMMA ClaimsAfterCall ==
  ASSUME LedgerTypeOK, ClaimsInv, UNCHANGED <<granted, callInv>>, NoNewOwner,
         \A j \in Invs : RowStands(j), NEW c \in Calls, NEW l, pc' = [pc EXCEPT ![c] = l],
         l \in {"execute", "recover"} => Holds(c) \/ (l = "recover" /\ ~OwnsDispatch(c, callInv[c])),
         l \in {"finish", "reread", "reconcile", "doubt"} => Answering(c)
  PROVE  ClaimsInv'
<1>1. \A d \in Calls : Holds(d)' => Holds(d) /\ callInv'[d] = callInv[d]
  BY NoNewHolder
<1>2. \A d \in Calls : pc'[d] = IF d = c THEN l ELSE pc[d]
  BY DEF LedgerTypeOK
<1>3. \A d \in Calls : Answering(d)' => Answering(d) /\ callInv'[d] = callInv[d]
  BY <1>2 DEF Answering
<1> QED
  BY <1>1, <1>3, ClaimsKept

LEMMA RowsStandAfterWrite ==
  ASSUME LedgerTypeOK, NEW i \in Invs, NEW s, NEW d, Write(i, s, d),
         UNCHANGED dOwner \/ ReleaseDispatch(i),
         s = "outcome_unknown" \/ \A c \in Calls : Holds(c) => callInv[c] /= i
  PROVE  \A j \in Invs : RowStands(j)
<1> SUFFICES ASSUME NEW j \in Invs PROVE RowStands(j)
  OBVIOUS
<1>1. hot'[j] = IF j = i THEN s ELSE hot[j]
  BY DEF Write, LedgerTypeOK
<1>2. j /= i => dOwner'[j] = dOwner[j]
  BY DEF ReleaseDispatch, LedgerTypeOK
<1> QED
  BY <1>1, <1>2 DEF RowStands

LEMMA RowsStandStill ==
  ASSUME UNCHANGED <<hot, dOwner>> PROVE \A j \in Invs : RowStands(j)
  BY DEF RowStands

(* The claim is made for a row that had no holder and no answer.              *)
LEMMA CommitClaims ==
  ASSUME LedgerTypeOK, RowsInv, OneHolder, ClaimsInv, NEW c \in Calls, NEW l,
         CommitClaim(c), ~granted[callInv[c]], pc' = [pc EXCEPT ![c] = l], ~Answering(c),
         l \notin {"finish", "reread", "reconcile", "doubt"}, UNCHANGED callInv
  PROVE  ClaimsInv'
<1> DEFINE i == callInv[c]
<1>1. i \in Invs /\ \A d \in Calls : callInv[d] \in Invs
  BY DEF LedgerTypeOK
<1>2. \A j \in Invs : /\ hot'[j] = IF j = i THEN "dispatched" ELSE hot[j]
                      /\ dOwner'[j] = IF j = i THEN c ELSE dOwner[j]
                      /\ granted'[j] <=> (j = i \/ granted[j])
  BY <1>1 DEF CommitClaim, Write, LedgerTypeOK
<1>3. \A d \in Calls : pc'[d] = IF d = c THEN l ELSE pc[d]
  BY DEF LedgerTypeOK
<1>4. \A d \in Calls : Holds(d) \/ Answering(d) => callInv[d] /= i
  BY DEF OneHolder, ClaimsInv, AnswersFollow
<1>5. \A d \in Calls : Holds(d)' => d = c \/ Holds(d)
  <2> SUFFICES ASSUME NEW d \in Calls, Holds(d)', d /= c PROVE Holds(d)
    OBVIOUS
  <2>1. pc'[d] = pc[d] /\ callInv'[d] = callInv[d] /\ callInv[d] \in Invs
    BY <1>1, <1>3
  <2> QED
    BY <1>2, <2>1 DEF Holds, OwnsDispatch
<1>6. \A d \in Calls : Answering(d)' => d /= c /\ Answering(d)
  BY <1>3 DEF Answering
<1>7. HolderIsShown'
  BY <1>1, <1>2, <1>4, <1>5 DEF ClaimsInv, HolderIsShown
<1>8. AnswersFollow'
  BY <1>1, <1>2, <1>4, <1>5, <1>6 DEF ClaimsInv, AnswersFollow
<1> QED
  BY <1>7, <1>8 DEF ClaimsInv

(* The holder has its answer: it was the only one, and holds no longer.       *)
LEMMA AnswerClaims ==
  ASSUME LedgerTypeOK, OneHolder, ClaimsInv, NEW c \in Calls, pc[c] = "execute",
         pc' = [pc EXCEPT ![c] = "finish"], UNCHANGED <<hot, dOwner, granted, callInv>>
  PROVE  ClaimsInv'
<1>1. \A d \in Calls : pc'[d] = IF d = c THEN "finish" ELSE pc[d]
  BY DEF LedgerTypeOK
<1>2. Holds(c) /\ \A d \in Calls : Holds(d)' => Holds(d) /\ d /= c
  BY <1>1 DEF Holds, OwnsDispatch
<1>3. \A d \in Calls : Answering(d)' => d = c \/ Answering(d)
  BY <1>1 DEF Answering
<1>4. HolderIsShown'
  BY <1>2 DEF ClaimsInv, HolderIsShown
<1>5. AnswersFollow'
  BY <1>2, <1>3 DEF ClaimsInv, AnswersFollow, OneHolder
<1> QED
  BY <1>4, <1>5 DEF ClaimsInv

LEMMA ClaimsStep ==
  LedgerTypeOK /\ AnswersKnown /\ LedgerInv /\ ClaimsInv /\ [Next]_vars => ClaimsInv'
<1> SUFFICES ASSUME LedgerTypeOK, AnswersKnown, LedgerInv, ClaimsInv, [Next]_vars PROVE ClaimsInv'
  OBVIOUS
<1>a. RowsInv /\ OneHolder
  BY DEF LedgerInv
<1>b. \A c \in Calls : Holds(c) => hot[callInv[c]] \in {"dispatched", "outcome_unknown"}
  BY DEF ClaimsInv, HolderIsShown
<1>c. \A j \in Invs : hot[j] \notin {"dispatched", "outcome_unknown"}
                        => \A c \in Calls : Holds(c) => callInv[c] /= j
  BY <1>b
<1>1. CASE UNCHANGED <<hot, dOwner, granted, pc, callInv>>
  BY <1>1, RowsStandStill, ClaimsKept DEF Holds, Answering, OwnsDispatch
<1>2. ASSUME NEW c \in Calls, NEW i \in Invs, NEW g, NEW e, StartCall(c, i, g, e)
      PROVE  ClaimsInv'
  <2>1. \A d \in Calls : /\ pc'[d] = IF d = c THEN "prepare" ELSE pc[d]
                         /\ d /= c => callInv'[d] = callInv[d]
    BY <1>2 DEF StartCall, LedgerTypeOK
  <2>2. UNCHANGED <<hot, dOwner, granted>>
    BY <1>2 DEF StartCall, rowsOf
  <2>3. \A d \in Calls : Holds(d)' => Holds(d) /\ callInv'[d] = callInv[d]
    BY <2>1, <2>2 DEF Holds, OwnsDispatch
  <2>4. \A d \in Calls : Answering(d)' => Answering(d) /\ callInv'[d] = callInv[d]
    BY <2>1 DEF Answering
  <2> QED
    BY <2>2, <2>3, <2>4, RowsStandStill, ClaimsKept
<1>3. ASSUME NEW c \in Calls, CallStep(c) \/ CallDies(c) PROVE ClaimsInv'
  <2> DEFINE i == callInv[c]
  <2>0. i \in Invs
    BY DEF LedgerTypeOK
  <2>1. CASE PrepareNew(c)
    <3>1. /\ hot[i] = "absent" /\ Write(i, "prepared", "not_dispatched") /\ ReleaseDispatch(i)
          /\ UNCHANGED <<granted, callInv>> /\ pc' = [pc EXCEPT ![c] = "dispatch"]
      BY <2>1 DEF PrepareNew, MayInsert, Goto
    <3>2. \A j \in Invs : RowStands(j)
      BY <1>c, <2>0, <3>1, RowsStandAfterWrite
    <3> QED
      BY <2>0, <3>1, <3>2, OwnersAfterWrite, ClaimsAfterCall
  <2>2. CASE PrepareExisting(c) \/ ClaimRefused(c) \/ CallDies(c) \/ Reread(c)
    <3>1. UNCHANGED <<hot, dOwner, granted, callInv>>
      BY <2>2 DEF PrepareExisting, ClaimRefused, CallDies, Reread, Goto, Return, rowsOf
    <3>2. PICK l \in {"dispatch", "expire", "done", "reconcile", "doubt"} :
            /\ pc' = [pc EXCEPT ![c] = l]
            /\ l \in {"reconcile", "doubt"} => Answering(c)
      BY <2>2 DEF PrepareExisting, ClaimRefused, CallDies, Reread, Goto, Return, Answering
    <3> QED
      BY <3>1, <3>2, OwnersKept, RowsStandStill, ClaimsAfterCall
  <2>3. CASE ReconcileExpiredDispatch(c) \/ CompleteFromSemanticReadCache(c) \/ ClaimSuperseded(c)
    <3>1. UNCHANGED <<granted, callInv>> /\ pc' = [pc EXCEPT ![c] = "done"]
      BY <2>3 DEF ReconcileExpiredDispatch, CompleteFromSemanticReadCache, ClaimSuperseded, Return
    <3>2. \/ /\ \/ hot[i] = "dispatched" /\ Write(i, "outcome_unknown", "unknown")
                \/ hot[i] = "prepared" /\ Write(i, "succeeded", "not_dispatched")
                \/ hot[i] = "prepared" /\ Write(i, "rejected", "not_dispatched")
             /\ UNCHANGED dOwner \/ ReleaseDispatch(i)
          \/ UNCHANGED <<hot, dOwner>>
      BY <2>3 DEF ReconcileExpiredDispatch, CompleteFromSemanticReadCache, ClaimSuperseded,
                  Undispatched
    <3>3. NoNewOwner
      BY <2>0, <3>2, OwnersKept, OwnersAfterWrite
    <3>4. \A j \in Invs : RowStands(j)
      BY <1>c, <2>0, <3>2, RowsStandStill, RowsStandAfterWrite
    <3> QED
      BY <3>1, <3>3, <3>4, ClaimsAfterCall
  <2>4. CASE ClaimDispatch(c)
    <3>1. PICK l \in {"execute", "recover"} : pc' = [pc EXCEPT ![c] = l]
      BY <2>4 DEF ClaimDispatch, Goto
    <3>2. UNCHANGED callInv /\ ~Answering(c) /\ ~granted[i] /\ hot[i] = "prepared"
      BY <2>4 DEF ClaimDispatch, Goto, Admission, Answering
    <3>3. CASE CommitClaim(c)
      BY <1>a, <3>1, <3>2, <3>3, CommitClaims
    <3>4. CASE UNCHANGED <<hot, dOwner, granted>> /\ pc' = [pc EXCEPT ![c] = "recover"]
      <4>1. ~OwnsDispatch(c, i)
        BY <3>2 DEF OwnsDispatch
      <4> QED
        BY <3>2, <3>4, <4>1, OwnersKept, RowsStandStill, ClaimsAfterCall
    <3> QED
      BY <2>4, <3>3, <3>4 DEF ClaimDispatch, Goto, rowsOf
  <2>5. CASE RecoverDispatchClaim(c)
    <3>1. PICK l \in {"execute", "done"} : pc' = [pc EXCEPT ![c] = l] /\ UNCHANGED callInv
                                           /\ (l = "execute" => ~(pc' = [pc EXCEPT ![c] = "done"]))
      <4>1. "done" /= "execute" /\ pc \in [Calls -> Steps]
        BY TypeGroups DEF CallsTyped
      <4> QED
        BY <2>5, <4>1 DEF RecoverDispatchClaim, Goto, Return
    <3>2. ~Answering(c) /\ pc[c] = "recover"
      BY <2>5 DEF RecoverDispatchClaim, Answering
    <3>3. CASE CommitClaim(c) /\ Admission(c) = "granted"
      <4>1. ~granted[i]
        BY <3>3 DEF Admission
      <4> QED
        BY <1>a, <3>1, <3>2, <3>3, <4>1, CommitClaims
    <3>4. CASE UNCHANGED <<hot, dOwner, granted>>
               /\ (OwnsDispatch(c, i) \/ pc' = [pc EXCEPT ![c] = "done"])
      <4>1. l = "execute" => Holds(c)
        BY <3>1, <3>2, <3>4 DEF Holds
      <4> QED
        BY <3>1, <3>4, <4>1, OwnersKept, RowsStandStill, ClaimsAfterCall
    <3> QED
      BY <2>5, <3>3, <3>4 DEF RecoverDispatchClaim, OwnLiveClaim, Return, rowsOf
  <2>6. CASE ExecuteRoute(c) \/ RejectPastDeadline(c)
    BY <1>a, <2>6, AnswerClaims DEF ExecuteRoute, RejectPastDeadline, rowsOf
  <2>7. CASE Finish(c) \/ ReconcileComplete(c) \/ FinishInDoubt(c)
    <3>1. UNCHANGED <<dOwner, granted, callInv>> /\ Answering(c)
      BY <2>7 DEF Finish, ReconcileComplete, FinishInDoubt, MarkOutcomeUnknown, CompareAndComplete,
                  Goto, Return, rowsOf, Answering
    <3>2. PICK l \in {"done", "reread"} : pc' = [pc EXCEPT ![c] = l]
      BY <2>7 DEF Finish, ReconcileComplete, FinishInDoubt, Goto, Return
    <3>3. \/ Write(i, "outcome_unknown", "unknown")
          \/ Settled(result[c]) /\ Write(i, result[c], "dispatched")
          \/ UNCHANGED hot
      BY <2>7 DEF Finish, ReconcileComplete, FinishInDoubt, MarkOutcomeUnknown, CompareAndComplete,
                  AnswersKnown, rowsOf
    <3>4. Settled(result[c]) => result[c] /= "dispatched"
      BY DEF Settled, Outcomes
    <3>5. NoNewOwner
      BY <2>0, <3>1, <3>3, <3>4, OwnersKept, OwnersAfterWrite
    <3>6. \A d \in Calls : Holds(d) => callInv[d] /= i
      BY <3>1 DEF ClaimsInv, AnswersFollow
    <3>7. \A j \in Invs : RowStands(j)
      BY <2>0, <3>1, <3>3, <3>6, RowsStandStill, RowsStandAfterWrite
    <3> QED
      BY <3>1, <3>2, <3>5, <3>7, ClaimsAfterCall
  <2> QED
    BY <1>3, <2>1, <2>2, <2>3, <2>4, <2>5, <2>6, <2>7 DEF CallStep
<1>4. CASE ReconcileTerminalRun
  <2>1. UNCHANGED <<granted, pc, callInv>>
    BY <1>4 DEF ReconcileTerminalRun, callsOf
  <2>2. \A j \in Invs : \/ hot'[j] = hot[j] /\ dOwner'[j] = dOwner[j]
                        \/ hot[j] = "prepared" /\ hot'[j] = "rejected"
                        \/ hot'[j] = "outcome_unknown"
    BY <1>4 DEF ReconcileTerminalRun, Undispatched, Abandoned
  <2>3. \A j \in Invs : RowStands(j)
    BY <1>c, <2>2 DEF RowStands
  <2>4. \A c \in Calls : callInv[c] \in Invs
    BY DEF LedgerTypeOK
  <2>5. \A c \in Calls : Holds(c)' => Holds(c) /\ callInv'[c] = callInv[c]
    BY <2>1, <2>2, <2>4 DEF Holds, OwnsDispatch
  <2> QED
    BY <2>1, <2>3, <2>5, ClaimsKept DEF Answering
<1>5. CASE CompactTerminalRunBatch
  <2>1. UNCHANGED <<dOwner, granted, pc, callInv>>
    BY <1>5 DEF CompactTerminalRunBatch, callsOf
  <2>2. \A j \in Invs : hot'[j] = hot[j] \/ (Settled(hot[j]) /\ hot'[j] = "absent")
    BY <1>5, FirstRowsSettled DEF CompactTerminalRunBatch
  <2>3. \A j \in Invs : Settled(hot[j]) => hot[j] \notin {"dispatched", "outcome_unknown"}
    BY DEF Settled, Outcomes
  <2>4. \A j \in Invs : RowStands(j)
    BY <1>c, <2>1, <2>2, <2>3 DEF RowStands
  <2>5. \A c \in Calls : callInv[c] \in Invs
    BY DEF LedgerTypeOK
  <2>6. \A c \in Calls : Holds(c)' => Holds(c) /\ callInv'[c] = callInv[c]
    BY <2>1, <2>2, <2>5 DEF Holds, OwnsDispatch
  <2> QED
    BY <2>1, <2>4, <2>6, ClaimsKept DEF Answering
<1> QED
  BY <1>1, <1>2, <1>3, <1>4, <1>5
     DEF Next, RenewDispatch, Clock, ledgerVars, rowsOf, callsOf, vars

LEMMA ClaimsInvariant == Spec => []ClaimsInv
<1>1. Init => ClaimsInv
  BY DEF Init, ClaimsInv, HolderIsShown, AnswersFollow, Holds, Answering
<1> QED
  BY <1>1, ClaimsStep, LedgerInvariant, LedgerTypeCorrect, PTL DEF Spec

\* A step of the contract, seen through the ledger
ContractStep == [Contract!ContractNext]_<<Readings, effects>>

LEMMA ReadingsKept ==
  ASSUME UNCHANGED <<hot, certainty, archiveOf>> PROVE UNCHANGED Readings
  BY DEF Readings, Record, RecordCertainty, archiveOf

LEMMA ReadingsAfterWrite ==
  ASSUME LedgerTypeOK, NEW i \in Invs, NEW s, NEW d, Write(i, s, d), UNCHANGED archiveOf,
         s /= "absent"
  PROVE  Readings' = [Readings EXCEPT ![i] = Verdict(s, d)]
<1>1. \A j \in Invs : /\ hot'[j] = IF j = i THEN s ELSE hot[j]
                      /\ certainty'[j] = IF j = i THEN d ELSE certainty[j]
  BY DEF Write, LedgerTypeOK
<1>2. archived' = archived /\ archivedCert' = archivedCert
  BY DEF archiveOf
<1>3. \A j \in Invs : Record(j)' = (IF j = i THEN s ELSE Record(j))
                      /\ RecordCertainty(j)' = (IF j = i THEN d ELSE RecordCertainty(j))
  BY <1>1, <1>2 DEF Record, RecordCertainty
<1>4. \A j \in Invs : Readings'[j] = IF j = i THEN Verdict(s, d) ELSE Readings[j]
  BY <1>3 DEF Readings
<1> QED
  BY <1>4 DEF Readings

\* What the verdicts on the states of a row are
LEMMA Verdicts ==
  /\ \A d : Verdict("prepared", d) = "open" /\ Verdict("dispatched", d) = "open"
            /\ Verdict("outcome_unknown", d) = "unknown" /\ Verdict("absent", d) = "absent"
  /\ \A s \in Outcomes : /\ Verdict(s, "not_dispatched") = "declined"
                         /\ Verdict(s, "dispatched") = s
  BY DEF Verdict, Settled, Outcomes

(* A row that is written takes its invocation through one step of the         *)
(* contract.                                                                  *)
LEMMA WriteSimulates ==
  ASSUME LedgerTypeOK, RowsInv, NEW i \in Invs, NEW s, NEW d, Write(i, s, d),
         UNCHANGED <<archiveOf, effects>>,
         \/ hot[i] = "absent" /\ archived[i] = "absent" /\ s = "prepared"
         \/ hot[i] = "prepared" /\ s = "dispatched"
         \/ hot[i] = "prepared" /\ s \in Outcomes /\ d = "not_dispatched"
         \/ hot[i] = "dispatched" /\ s = "outcome_unknown"
         \/ hot[i] \in {"dispatched", "outcome_unknown"} /\ s \in Outcomes /\ d = "dispatched"
  PROVE  ContractStep
<1>1. s /= "absent"
  BY DEF Outcomes
<1>2. Readings' = [Readings EXCEPT ![i] = Verdict(s, d)]
  BY <1>1, ReadingsAfterWrite
<1>3. Readings[i] = IF hot[i] /= "absent" THEN Verdict(hot[i], certainty[i])
                    ELSE Verdict(archived[i], archivedCert[i])
  BY DEF Readings, Record, RecordCertainty
<1>4. effects' = effects /\ DOMAIN Readings = Invs
  BY DEF Readings
<1> USE DEF ContractStep, Contract!ContractNext, Contract!Move
<1>5. CASE hot[i] = "absent" /\ archived[i] = "absent" /\ s = "prepared"
  <2>1. Readings[i] = "absent"
    BY <1>3, <1>5, Verdicts
  <2>2. Readings' = [Readings EXCEPT ![i] = "open"]
    BY <1>2, <1>5, Verdicts
  <2> QED
    BY <1>4, <2>1, <2>2 DEF Contract!Open
<1>6. CASE hot[i] = "prepared" /\ s = "dispatched"
  <2>1. Readings[i] = Verdict(s, d)
    BY <1>3, <1>6, Verdicts
  <2>2. Readings' = Readings
    BY <1>2, <2>1 DEF Readings
  <2> QED
    BY <1>4, <2>2
<1>7. CASE hot[i] = "prepared" /\ s \in Outcomes /\ d = "not_dispatched"
  <2>1. effects[i] = 0
    BY <1>7 DEF RowsInv, OnceGranted
  <2>2. Readings[i] = "open"
    BY <1>3, <1>7, Verdicts
  <2>3. Readings' = [Readings EXCEPT ![i] = "declined"]
    BY <1>2, <1>7, Verdicts
  <2> QED
    BY <1>4, <2>1, <2>2, <2>3 DEF Contract!Decline
<1>8. CASE hot[i] = "dispatched" /\ s = "outcome_unknown"
  BY <1>2, <1>3, <1>4, <1>8, Verdicts DEF Contract!Doubt
<1>9. CASE hot[i] \in {"dispatched", "outcome_unknown"} /\ s \in Outcomes /\ d = "dispatched"
  <2>1. Readings[i] \in {"open", "unknown"}
    BY <1>3, <1>9, Verdicts
  <2>2. Readings' = [Readings EXCEPT ![i] = s]
    BY <1>2, <1>9, Verdicts
  <2> QED
    BY <1>4, <1>9, <2>1, <2>2 DEF Contract!Answer
<1> QED
  BY <1>5, <1>6, <1>7, <1>8, <1>9

LEMMA StepSimulates ==
  /\ LedgerTypeOK /\ AnswersKnown /\ LedgerInv /\ ClaimsInv /\ [Next]_vars
  => ContractStep
<1> SUFFICES ASSUME LedgerTypeOK, AnswersKnown, LedgerInv, ClaimsInv, [Next]_vars
             PROVE  ContractStep
  OBVIOUS
<1>a. RowsInv /\ OneHolder
  BY DEF LedgerInv
<1>b. UNCHANGED <<hot, certainty, archiveOf, effects>> => ContractStep
  BY ReadingsKept DEF ContractStep
<1>c. "succeeded" \in Outcomes /\ "rejected" \in Outcomes
  BY DEF Outcomes
<1>1. CASE UNCHANGED ledgerVars
  BY <1>1, <1>b DEF ledgerVars, rowsOf
<1>2. ASSUME NEW c \in Calls, CallStep(c) PROVE ContractStep
  <2> DEFINE i == callInv[c]
  <2>0. i \in Invs
    BY DEF LedgerTypeOK
  <2>1. CASE PrepareNew(c)
    <3>1. /\ hot[i] = "absent" /\ status = "running" /\ Write(i, "prepared", "not_dispatched")
          /\ UNCHANGED <<archiveOf, effects>>
      BY <2>1 DEF PrepareNew, MayInsert
    <3>2. archived[i] = "absent"
      BY <1>a, <2>0, <3>1 DEF RowsInv, ArchiveIsClosed, Terminal, TerminalSet
    <3> QED
      BY <1>a, <2>0, <3>1, <3>2, WriteSimulates
  <2>2. CASE PrepareExisting(c) \/ ClaimRefused(c) \/ Reread(c) \/ RejectPastDeadline(c)
    BY <1>b, <2>2 DEF PrepareExisting, ClaimRefused, Reread, RejectPastDeadline, rowsOf
  <2>3. CASE ReconcileExpiredDispatch(c) \/ CompleteFromSemanticReadCache(c) \/ ClaimSuperseded(c)
    <3>1. UNCHANGED <<archiveOf, effects>>
      BY <2>3 DEF ReconcileExpiredDispatch, CompleteFromSemanticReadCache, ClaimSuperseded
    <3>2. \/ hot[i] = "dispatched" /\ Write(i, "outcome_unknown", "unknown")
          \/ hot[i] = "prepared" /\ Write(i, "succeeded", "not_dispatched")
          \/ hot[i] = "prepared" /\ Write(i, "rejected", "not_dispatched")
          \/ UNCHANGED <<hot, certainty>>
      BY <2>3 DEF ReconcileExpiredDispatch, CompleteFromSemanticReadCache, ClaimSuperseded,
                  Undispatched
    <3> QED
      BY <1>a, <1>b, <1>c, <2>0, <3>1, <3>2, WriteSimulates
  <2>4. CASE ClaimDispatch(c) \/ RecoverDispatchClaim(c)
    <3>1. UNCHANGED <<archiveOf, effects>>
      BY <2>4 DEF ClaimDispatch, RecoverDispatchClaim
    <3>2. \/ hot[i] = "prepared" /\ Write(i, "dispatched", "dispatched")
          \/ UNCHANGED <<hot, certainty>>
      BY <2>4 DEF ClaimDispatch, RecoverDispatchClaim, CommitClaim, rowsOf
    <3> QED
      BY <1>a, <1>b, <2>0, <3>1, <3>2, WriteSimulates
  <2>5. CASE ExecuteRoute(c)
    <3>1. /\ pc[c] = "execute" /\ UNCHANGED <<hot, certainty, archiveOf>>
          /\ effects' = [effects EXCEPT ![i] = @ + 1]
      BY <2>5 DEF ExecuteRoute, rowsOf
    <3>2. effects[i] = 0 /\ hot[i] \in {"dispatched", "outcome_unknown"}
      BY <1>a, <3>1 DEF OneHolder, Holds, ClaimsInv, HolderIsShown
    <3>3. effects' = [effects EXCEPT ![i] = 1]
      BY <2>0, <3>1, <3>2 DEF LedgerTypeOK
    <3>4. Readings[i] \in {"open", "unknown"}
      BY <2>0, <3>2, Verdicts DEF Readings, Record, RecordCertainty
    <3>5. Readings' = Readings
      BY <3>1, ReadingsKept
    <3> QED
      BY <2>0, <3>2, <3>3, <3>4, <3>5
         DEF ContractStep, Contract!ContractNext, Contract!Effect
  <2>6. CASE Finish(c) \/ ReconcileComplete(c) \/ FinishInDoubt(c)
    <3>1. UNCHANGED <<archiveOf, effects>>
      BY <2>6 DEF Finish, ReconcileComplete, FinishInDoubt
    <3>2. \/ hot[i] = "dispatched" /\ Write(i, "outcome_unknown", "unknown")
          \/ /\ hot[i] \in {"dispatched", "outcome_unknown"} /\ Settled(result[c])
             /\ Write(i, result[c], "dispatched")
          \/ UNCHANGED <<hot, certainty>>
      BY <2>6 DEF Finish, ReconcileComplete, FinishInDoubt, MarkOutcomeUnknown, CompareAndComplete,
                  OwnsDispatch, AnswersKnown, rowsOf
    <3>3. Settled(result[c]) => result[c] \in Outcomes
      BY DEF Settled
    <3> QED
      BY <1>a, <1>b, <2>0, <3>1, <3>2, <3>3, WriteSimulates
  <2> QED
    BY <1>2, <2>1, <2>2, <2>3, <2>4, <2>5, <2>6 DEF CallStep
<1>3. CASE ReconcileTerminalRun
  <2>1. UNCHANGED <<granted, archiveOf, effects>>
    BY <1>3 DEF ReconcileTerminalRun
  <2>2. \A j \in Invs :
          \/ hot'[j] = hot[j] /\ certainty'[j] = certainty[j]
          \/ hot[j] = "prepared" /\ hot'[j] = "rejected" /\ certainty'[j] = "not_dispatched"
          \/ hot[j] \in {"prepared", "dispatched"} /\ hot'[j] = "outcome_unknown"
    BY <1>3 DEF ReconcileTerminalRun, Undispatched, Abandoned
  <2>3. \A j \in Invs : hot[j] = "prepared" => effects[j] = 0
    BY <1>a DEF RowsInv, OnceGranted
  <2>4. ASSUME NEW j \in Invs
        PROVE  \/ Readings'[j] = Readings[j]
               \/ Readings[j] = "open" /\ Readings'[j] = "unknown"
               \/ Readings[j] = "open" /\ effects[j] = 0 /\ Readings'[j] = "declined"
    <3>1. CASE hot'[j] = hot[j] /\ certainty'[j] = certainty[j]
      BY <2>1, <3>1 DEF Readings, Record, RecordCertainty, archiveOf
    <3>2. CASE hot[j] = "prepared" /\ hot'[j] = "rejected" /\ certainty'[j] = "not_dispatched"
      BY <1>c, <2>3, <3>2, Verdicts DEF Readings, Record, RecordCertainty
    <3>3. CASE hot[j] \in {"prepared", "dispatched"} /\ hot'[j] = "outcome_unknown"
      BY <3>3, Verdicts DEF Readings, Record, RecordCertainty
    <3> QED
      BY <2>2, <3>1, <3>2, <3>3
  <2>5. Readings \in [Invs -> Contract!Verdicts]
    BY DEF Readings, Verdict, Record, RecordCertainty, Settled, Contract!Verdicts, LedgerTypeOK,
           States
  <2>6. Readings' \in [Invs -> Contract!Verdicts]
    <3>1. \A j \in Invs : Readings'[j] \in Contract!Verdicts
      BY <2>4, <2>5 DEF Contract!Verdicts
    <3> QED
      BY <3>1 DEF Readings
  <2> QED
    BY <2>1, <2>4, <2>6 DEF ContractStep, Contract!ContractNext, Contract!CloseRun
<1>4. CASE CompactTerminalRunBatch
  <2>1. UNCHANGED <<certainty, effects>>
    BY <1>4 DEF CompactTerminalRunBatch
  <2>2. \A j \in Invs :
          \/ /\ hot'[j] = hot[j] /\ archived'[j] = archived[j]
             /\ archivedCert'[j] = archivedCert[j]
          \/ /\ Settled(hot[j]) /\ hot'[j] = "absent" /\ archived'[j] = hot[j]
             /\ archivedCert'[j] = certainty[j]
    BY <1>4, FirstRowsSettled DEF CompactTerminalRunBatch
  <2>3. \A j \in Invs : Settled(hot[j]) => hot[j] /= "absent"
    BY DEF Settled, Outcomes
  <2>4. \A j \in Invs : Record(j)' = Record(j) /\ RecordCertainty(j)' = RecordCertainty(j)
    BY <2>1, <2>2, <2>3 DEF Record, RecordCertainty
  <2>5. Readings' = Readings
    BY <2>4 DEF Readings
  <2> QED
    BY <2>1, <2>5 DEF ContractStep
<1> QED
  BY <1>1, <1>2, <1>3, <1>4, <1>b
     DEF Next, StartCall, RenewDispatch, CallDies, Clock, ledgerVars, rowsOf, vars

(* The ledger, with its archive, lost acknowledgements, expiring leases and   *)
(* the sweep over closed runs, implements the contract of one logical call:   *)
(* one effect at most, denials that are true and final, outcomes that are     *)
(* never replaced, doubt that only an answer of the provider ends.            *)
THEOREM LedgerRefines == Spec => ImplementsContract
<1>1. Init => Contract!ContractInit
  BY Verdicts DEF Init, Contract!ContractInit, Readings, Record, RecordCertainty
<1>2. LedgerTypeOK /\ AnswersKnown /\ LedgerInv /\ ClaimsInv /\ [Next]_vars
        => [Contract!ContractNext]_<<Readings, effects>>
  BY StepSimulates DEF ContractStep
<1> QED
  BY <1>1, <1>2, LedgerTypeCorrect, LedgerInvariant, ClaimsInvariant, PTL
     DEF Spec, ImplementsContract, Contract!ContractSpec
=============================================================================
