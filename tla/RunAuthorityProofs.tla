------------------------- MODULE RunAuthorityProofs -------------------------
(* Theorems about the durable run row, for every number of pods, every lease  *)
(* duration and every bound on generations and events.                        *)
EXTENDS RunAuthority, TLAPS

-----------------------------------------------------------------------------
\* What a transition of the status column does, whoever makes it

(* A compare-and-set that changes the status never leaves a terminal one, and *)
(* keeps the row well typed.                                                  *)
LEMMA TransitionTyped ==
  ASSUME RunTypeOK,
         NEW expected, NEW fence, NEW to \in Active \cup TerminalSet,
         NEW wf, NEW origin, NEW frees,
         TransitionRunStatus(expected, fence, to, wf, origin, frees)
  PROVE  /\ status' \in Active \cup TerminalSet /\ waitingFor' = wf
         /\ generation' \in Generations /\ lastIdx' \in Nat
         /\ cancelRequested' \in BOOLEAN /\ ancestorCancelled' \in BOOLEAN
         /\ intent' \in [1..MaxIdx -> Dispositions]
  BY DEF TransitionRunStatus, TransitionAdmitted, RunTypeOK, ReturnIntents, Dispositions

(* Clearing, keeping or renewing the owner columns keeps them well typed.     *)
LEMMA OwnerTyped ==
  ASSUME RunTypeOK,
         ClearOwner \/ KeepOwner \/ (\E g : ReleaseOwnerLease(g))
  PROVE  owner' \in Pods \cup {NoPod} /\ lease' \in NoLease..Ttl
  BY RunConstants DEF ClearOwner, KeepOwner, ReleaseOwnerLease, RunTypeOK, NoLease

(* Handing guidance back keeps the dispositions well typed.                   *)
LEMMA ReturnTyped ==
  ASSUME RunTypeOK PROVE ReturnIntents \in [1..MaxIdx -> Dispositions]
  BY DEF RunTypeOK, ReturnIntents, Dispositions

-----------------------------------------------------------------------------
(* Every transaction and every executor step keeps the row well typed; in     *)
(* particular a lease is never longer than its duration and the two cancel    *)
(* paths and the recovery claim only ever remember statuses they may act on.  *)
THEOREM TypeCorrect == RunSpec => []RunTypeOK
<1>1. RunInit => RunTypeOK
  <2> SUFFICES ASSUME RunInit PROVE RunTypeOK
    OBVIOUS
  <2>1. PICK p \in Pods : owner = p /\ podOf = [g \in Generations |-> IF g = 0 THEN p ELSE NoPod]
    BY DEF RunInit
  <2>2. intent \in [1..MaxIdx -> Dispositions]
    BY DEF RunInit, Dispositions
  <2>3. executor \in [Generations -> {"none", "running", "settled", "gone", "recovering", "retired"}]
    BY DEF RunInit
  <2>4. podOf \in [Generations -> Pods \cup {NoPod}] /\ owner \in Pods \cup {NoPod}
    BY <2>1
  <2>5. lease \in NoLease..Ttl /\ 0 \in Generations
    BY RunConstants DEF RunInit, NoLease, Generations
  <2>6. waitingFor \in BOOLEAN /\ cancelRequested \in BOOLEAN /\ ancestorCancelled \in BOOLEAN
    BY Zenon DEF RunInit
  <2> QED
    BY <2>2, <2>3, <2>4, <2>5, <2>6 DEF RunInit, RunTypeOK, Active, TerminalSet
<1>2. RunTypeOK /\ [RunNext]_runVars => RunTypeOK'
  <2> SUFFICES ASSUME RunTypeOK, [RunNext]_runVars PROVE RunTypeOK'
    OBVIOUS
  <2> USE RunConstants
  <2>1. ASSUME NEW g \in Generations, ExecutorStep(g) PROVE RunTypeOK'
    <3>1. ASSUME NEW to \in TerminalSet, ClaimCanonicalTerminal(g, to) PROVE RunTypeOK'
      <4>1. owner' \in Pods \cup {NoPod} /\ lease' \in NoLease..Ttl
        BY <3>1, OwnerTyped DEF ClaimCanonicalTerminal
      <4>2. intent' \in [1..MaxIdx -> Dispositions]
        BY <3>1, ReturnTyped DEF ClaimCanonicalTerminal
      <4>3. waitingFor' \in BOOLEAN
        BY <3>1, Zenon DEF ClaimCanonicalTerminal
      <4> QED
        BY <3>1, <4>1, <4>2, <4>3 DEF ClaimCanonicalTerminal, RunTypeOK
    <3>2. CASE CancelIfExactLiveOwner(g)
      <4>1. owner' \in Pods \cup {NoPod} /\ lease' \in NoLease..Ttl
        BY <3>2, OwnerTyped DEF CancelIfExactLiveOwner
      <4>2. intent' \in [1..MaxIdx -> Dispositions]
        BY <3>2, ReturnTyped DEF CancelIfExactLiveOwner
      <4>3. waitingFor' \in BOOLEAN
        BY <3>2, Zenon DEF CancelIfExactLiveOwner
      <4> QED
        BY <3>2, <4>1, <4>2, <4>3 DEF CancelIfExactLiveOwner, RunTypeOK, TerminalSet
    <3>3. CASE ParkExecution(g)
      <4>1. "paused" \in Active \cup TerminalSet
        BY DEF Active
      <4>2. PICK wf \in BOOLEAN :
              TransitionRunStatus({"running", "waiting"}, g, "paused", wf, "none", FALSE)
        BY <3>3 DEF ParkExecution
      <4> QED
        BY <3>3, <4>1, <4>2, OwnerTyped, TransitionTyped DEF ParkExecution, RunTypeOK
    <3>4. CASE SettleBehindPause(g)
      BY <3>4 DEF SettleBehindPause, RunTypeOK, rowVars
    <3>5. CASE BeginInteractionWait(g)
      BY <3>5 DEF BeginInteractionWait, RunTypeOK, procVars, Active
    <3>6. CASE ApplyUserIntents(g)
      BY <3>6 DEF ApplyUserIntents, RunTypeOK, procVars, Dispositions
    <3>7. CASE RenewOwnerLease(g)
      BY <3>7 DEF RenewOwnerLease, RunTypeOK, procVars, NoLease
    <3>8. CASE AdmitRunAction(g)
      BY <3>8 DEF AdmitRunAction, RunTypeOK, procVars
    <3>9. CASE ExecutorExit(g)
      BY <3>9, OwnerTyped DEF ExecutorExit, RunTypeOK
    <3>10. CASE ExecutorFenced(g)
      BY <3>10, OwnerTyped DEF ExecutorFenced, RunTypeOK
    <3>11. CASE ExecutorCrash(g)
      BY <3>11 DEF ExecutorCrash, RunTypeOK, rowVars
    <3>12. CASE SettleRecovered(g)
      <4>1. {"paused", "failed", "cancelled"} \subseteq Active \cup TerminalSet
        BY DEF Active, TerminalSet
      <4>2. PICK to \in Active \cup TerminalSet, origin \in {"user", "none"}, frees \in {TRUE, FALSE} :
              TransitionRunStatus({claimed}, g, to, FALSE, origin, frees)
        <5>1. CASE TransitionRunStatus({claimed}, g, "cancelled", FALSE, "user", FALSE)
          BY <4>1, <5>1
        <5>2. CASE TransitionRunStatus({claimed}, g, "paused", FALSE, "none", TRUE)
          BY <4>1, <5>2
        <5>3. CASE TransitionRunStatus({claimed}, g, "failed", FALSE, "none", FALSE)
          BY <4>1, <5>3
        <5> QED
          BY <3>12, <5>1, <5>2, <5>3 DEF SettleRecovered
      <4>3. owner' \in Pods \cup {NoPod} /\ lease' \in NoLease..Ttl
        BY <3>12, OwnerTyped DEF SettleRecovered
      <4>4. /\ status' \in Active \cup TerminalSet /\ waitingFor' = FALSE
            /\ generation' \in Generations /\ lastIdx' \in Nat
            /\ cancelRequested' \in BOOLEAN /\ ancestorCancelled' \in BOOLEAN
            /\ intent' \in [1..MaxIdx -> Dispositions]
        BY <4>2, TransitionTyped
      <4>5. /\ executor' = [executor EXCEPT ![g] = "retired"] /\ claimed' = "none"
            /\ UNCHANGED <<podOf, orphanRead, cancelCall, cancelGen>>
        BY <3>12 DEF SettleRecovered
      <4> QED
        BY <4>3, <4>4, <4>5 DEF RunTypeOK
    <3>13. CASE RecoveryConflict(g)
      BY <3>13, OwnerTyped DEF RecoveryConflict, RunTypeOK
    <3> QED
      BY <2>1, <3>1, <3>2, <3>3, <3>4, <3>5, <3>6, <3>7, <3>8, <3>9, <3>10, <3>11,
         <3>12, <3>13 DEF ExecutorStep
  <2>2. CASE ControlStep
    <3>1. CASE PauseLive
      <4>1. "paused" \in Active \cup TerminalSet
        BY DEF Active
      <4> QED
        BY <3>1, <4>1, OwnerTyped, TransitionTyped DEF PauseLive, RunTypeOK, procVars
    <3>2. CASE ReadOrphan
      BY <3>2 DEF ReadOrphan, RunTypeOK, rowVars
    <3>3. CASE ReconcileOrphanedExecution
      <4>1. "paused" \in Active \cup TerminalSet
        BY DEF Active
      <4>2. CASE TransitionRunStatus({orphanRead}, NoFence, "paused", FALSE, "none", TRUE)
                 /\ KeepOwner
        BY <3>3, <4>1, <4>2, OwnerTyped, TransitionTyped DEF ReconcileOrphanedExecution, RunTypeOK
      <4>3. CASE UNCHANGED rowVars
        BY <3>3, <4>3 DEF ReconcileOrphanedExecution, RunTypeOK, rowVars
      <4> QED
        BY <3>3, <4>2, <4>3 DEF ReconcileOrphanedExecution
    <3>4. CASE ResumeLive
      <4>1. waitingFor' \in BOOLEAN
        BY <3>4, Zenon DEF ResumeLive
      <4> QED
        BY <3>4, <4>1 DEF ResumeLive, RunTypeOK, procVars, Active
    <3>5. CASE ReadForCancel
      BY <3>5 DEF ReadForCancel, RunTypeOK, rowVars
    <3>6. CASE RequestCancellation
      <4>1. cancelRequested' \in BOOLEAN
        BY <3>6, Zenon DEF RequestCancellation, RunTypeOK
      <4> QED
        BY <3>6, <4>1 DEF RequestCancellation, RunTypeOK, Generations
    <3>7. CASE RequestSessionCancellation \/ CancelAncestor
      <4>1. cancelRequested' \in BOOLEAN /\ ancestorCancelled' \in BOOLEAN
        BY <3>7, Zenon DEF RequestSessionCancellation, CancelAncestor, RunTypeOK
      <4> QED
        BY <3>7, <4>1 DEF RequestSessionCancellation, CancelAncestor, procVars, RunTypeOK
    <3>8. CASE TerminalizeOrphanedCancellation
      <4>1. CASE OrphanCancellable(cancelGen) /\ ClearOwner /\ intent' = ReturnIntents
                 /\ status' = "cancelled" /\ waitingFor' = FALSE /\ cancelRequested' = TRUE
                 /\ lastIdx' = lastIdx + 1 /\ UNCHANGED <<generation, ancestorCancelled>>
        <5>1. owner' \in Pods \cup {NoPod} /\ lease' \in NoLease..Ttl
          BY <4>1, OwnerTyped
        <5>2. intent' \in [1..MaxIdx -> Dispositions]
          BY <4>1, ReturnTyped
        <5>3. waitingFor' \in BOOLEAN /\ cancelRequested' \in BOOLEAN
          BY <4>1, Zenon
        <5> QED
          BY <3>8, <4>1, <5>1, <5>2, <5>3
             DEF TerminalizeOrphanedCancellation, RunTypeOK, TerminalSet, Generations
      <4>2. CASE UNCHANGED rowVars
        BY <3>8, <4>2 DEF TerminalizeOrphanedCancellation, RunTypeOK, rowVars, Generations
      <4> QED
        BY <3>8, <4>1, <4>2 DEF TerminalizeOrphanedCancellation
    <3>9. CASE ReconcileAgentCancellation \/ CancelDescendant
      <4>1. "cancelled" \in Active \cup TerminalSet
        BY DEF TerminalSet
      <4>2. /\ TransitionRunStatus(Active, NoFence, "cancelled", FALSE, "user", FALSE)
            /\ KeepOwner /\ UNCHANGED procVars
        BY <3>9 DEF ReconcileAgentCancellation, CancelDescendant
      <4> QED
        BY <4>1, <4>2, OwnerTyped, TransitionTyped DEF RunTypeOK, procVars
    <3>10. CASE AdmitGuidance
      BY <3>10 DEF AdmitGuidance, RunTypeOK, procVars, Dispositions
    <3>11. CASE ResolveInteraction
      <4>1. waitingFor' \in BOOLEAN
        BY <3>11, Zenon DEF ResolveInteraction
      <4> QED
        BY <3>11, <4>1 DEF ResolveInteraction, RunTypeOK, procVars, Active
    <3> QED
      BY <2>2, <3>1, <3>2, <3>3, <3>4, <3>5, <3>6, <3>7, <3>8, <3>9, <3>10, <3>11
         DEF ControlStep
  <2>3. ASSUME NEW p \in Pods, ActivateExecutionResume(p) PROVE RunTypeOK'
    <3>1. generation' \in Generations
      BY <2>3 DEF ActivateExecutionResume, RunTypeOK, Generations
    <3>2. lease' \in NoLease..Ttl
      BY <2>3 DEF ActivateExecutionResume, NoLease
    <3>3. waitingFor' \in BOOLEAN
      BY <2>3, Zenon DEF ActivateExecutionResume
    <3> QED
      BY <2>3, <3>1, <3>2, <3>3 DEF ActivateExecutionResume, RunTypeOK, Active
  <2>4. ASSUME NEW p \in Pods, ClaimRecovery(p) PROVE RunTypeOK'
    <3>1. generation' \in Generations
      BY <2>4 DEF ClaimRecovery, RunTypeOK, Generations
    <3>2. lease' \in NoLease..Ttl
      BY <2>4 DEF ClaimRecovery, NoLease
    <3> QED
      BY <2>4, <3>1, <3>2 DEF ClaimRecovery, RunTypeOK, BlocksSession, Active
  <2>5. CASE Tick
    BY <2>5 DEF Tick, LeaseRuns, RunTypeOK, procVars, NoLease
  <2>6. CASE UNCHANGED runVars
    BY <2>6 DEF runVars, rowVars, procVars, RunTypeOK
  <2> QED
    BY <2>1, <2>2, <2>3, <2>4, <2>5, <2>6 DEF RunNext, RunStep
<1> QED
  BY <1>1, <1>2, PTL DEF RunSpec

-----------------------------------------------------------------------------
(* Every step of the system moves status, generation and guidance in one of   *)
(* four ways.  The theorems below only need to know these.                    *)

Ends(s) == Terminal(s) /\ Markers => s = "cancelled"

\* Guidance is left alone and the run does not end
Passes == /\ intent' = intent /\ lastIdx' \in {lastIdx, lastIdx + 1}
          /\ Terminal(status') => Terminal(status)
          /\ Terminal(status) => status' = status /\ generation' = generation

\* A live run ends or frees its session: guidance in custody is handed back
HandsBack == /\ ~Terminal(status) /\ Ends(status')
             /\ intent' = ReturnIntents /\ lastIdx' = lastIdx + 1

\* A live run takes guidance into its next step
Applies == /\ ~Terminal(status) /\ status' = status /\ lastIdx' = lastIdx + 1
           /\ intent' \in [1..MaxIdx -> Dispositions]
           /\ \A k \in 1..MaxIdx : intent'[k] = intent[k]
                                   \/ (intent[k] = "pending" /\ intent'[k] = "applied")

\* A live run takes guidance into custody, at the index of the event it appends
Admits == /\ ~Terminal(status) /\ status' = status
          /\ lastIdx < MaxIdx /\ lastIdx' = lastIdx + 1
          /\ intent' = [intent EXCEPT ![lastIdx + 1] = "pending"]

RowMove == Passes \/ HandsBack \/ Applies \/ Admits

(* A compare-and-set of the status column, from statuses that are not         *)
(* terminal, either passes or hands back.                                     *)
LEMMA TransitionMoves ==
  ASSUME RunTypeOK,
         NEW expected, expected \cap TerminalSet = {},
         NEW fence, NEW to \in {"paused", "failed", "cancelled"}, NEW wf,
         NEW origin, NEW frees, to = "failed" => origin = "none",
         TransitionRunStatus(expected, fence, to, wf, origin, frees)
  PROVE  RowMove
  <1>1. ~Terminal(status) /\ status' = to /\ lastIdx' = lastIdx + 1
    BY DEF TransitionRunStatus, TransitionAdmitted, Terminal
  <1>2. Ends(status')
    BY <1>1 DEF TransitionRunStatus, TransitionAdmitted, MarkersAdmit, Ends, Terminal, TerminalSet
  <1>3. intent' = ReturnIntents \/ (intent' = intent /\ ~Terminal(to))
    BY DEF TransitionRunStatus
  <1> QED
    BY <1>1, <1>2, <1>3 DEF RowMove, Passes, HandsBack

LEMMA EveryStepMoves == RunTypeOK /\ [RunNext]_runVars => RowMove
<1> SUFFICES ASSUME RunTypeOK, [RunNext]_runVars PROVE RowMove
  OBVIOUS
<1>1. ASSUME NEW g \in Generations, ExecutorStep(g) PROVE RowMove
  <2>1. ASSUME NEW to \in TerminalSet, ClaimCanonicalTerminal(g, to) PROVE RowMove
    BY <2>1 DEF ClaimCanonicalTerminal, MarkersAdmit, RowMove, HandsBack, Ends,
                Terminal, TerminalSet, Active
  <2>2. CASE CancelIfExactLiveOwner(g)
    BY <2>2 DEF CancelIfExactLiveOwner, LiveAuthority, RowMove, HandsBack, Ends,
                Terminal, TerminalSet, Active
  <2>3. CASE ParkExecution(g)
    <3>1. {"running", "waiting"} \cap TerminalSet = {}
      BY DEF TerminalSet
    <3>2. PICK wf \in BOOLEAN :
            TransitionRunStatus({"running", "waiting"}, g, "paused", wf, "none", FALSE)
      BY <2>3 DEF ParkExecution
    <3> QED
      BY <3>1, <3>2, TransitionMoves
  <2>4. CASE SettleBehindPause(g)
    BY <2>4 DEF SettleBehindPause, rowVars, RowMove, Passes
  <2>5. CASE BeginInteractionWait(g)
    BY <2>5 DEF BeginInteractionWait, LiveAuthority, RowMove, Passes, Terminal, TerminalSet
  <2>6. CASE ApplyUserIntents(g)
    <3>1. /\ status = "running" /\ status' = status /\ lastIdx' = lastIdx + 1
      BY <2>6 DEF ApplyUserIntents
    <3>2. PICK k \in DOMAIN intent :
            intent' = [j \in DOMAIN intent |->
                         IF j <= k /\ intent[j] = "pending" THEN "applied" ELSE intent[j]]
      BY <2>6 DEF ApplyUserIntents
    <3>3. DOMAIN intent = 1..MaxIdx /\ \A j \in 1..MaxIdx : intent[j] \in Dispositions
      BY DEF RunTypeOK
    <3>4. \A j \in 1..MaxIdx : intent'[j] = intent[j]
                               \/ (intent[j] = "pending" /\ intent'[j] = "applied")
      <4> TAKE j \in 1..MaxIdx
      <4>1. intent'[j] = IF j <= k /\ intent[j] = "pending" THEN "applied" ELSE intent[j]
        BY <3>2, <3>3, Zenon
      <4>2. CASE j <= k /\ intent[j] = "pending"
        BY <4>1, <4>2
      <4>3. CASE ~(j <= k /\ intent[j] = "pending")
        BY <4>1, <4>3
      <4> QED
        BY <4>2, <4>3
    <3>5. \A j \in 1..MaxIdx : intent'[j] \in Dispositions
      BY <3>3, <3>4 DEF Dispositions
    <3>6. intent' \in [1..MaxIdx -> Dispositions]
      BY <3>2, <3>3, <3>5
    <3> QED
      BY <3>1, <3>4, <3>6 DEF RowMove, Applies, Terminal, TerminalSet
  <2>7. CASE RenewOwnerLease(g)
    BY <2>7 DEF RenewOwnerLease, RowMove, Passes
  <2>8. CASE AdmitRunAction(g)
    BY <2>8 DEF AdmitRunAction, RowMove, Passes
  <2>9. CASE ExecutorExit(g) \/ ExecutorFenced(g) \/ RecoveryConflict(g)
    BY <2>9 DEF ExecutorExit, ExecutorFenced, RecoveryConflict, RowMove, Passes
  <2>10. CASE ExecutorCrash(g)
    BY <2>10 DEF ExecutorCrash, rowVars, RowMove, Passes
  <2>11. CASE SettleRecovered(g)
    <3>1. {claimed} \cap TerminalSet = {}
      BY DEF RunTypeOK, Active, TerminalSet
    <3>2. CASE TransitionRunStatus({claimed}, g, "cancelled", FALSE, "user", FALSE)
      BY <3>1, <3>2, TransitionMoves
    <3>3. CASE TransitionRunStatus({claimed}, g, "paused", FALSE, "none", TRUE)
      BY <3>1, <3>3, TransitionMoves
    <3>4. CASE TransitionRunStatus({claimed}, g, "failed", FALSE, "none", FALSE)
      BY <3>1, <3>4, TransitionMoves
    <3> QED
      BY <2>11, <3>2, <3>3, <3>4 DEF SettleRecovered
  <2> QED
    BY <1>1, <2>1, <2>2, <2>3, <2>4, <2>5, <2>6, <2>7, <2>8, <2>9, <2>10, <2>11 DEF ExecutorStep
<1>2. CASE ControlStep
  <2>1. CASE PauseLive
    <3>1. {"running"} \cap TerminalSet = {}
      BY DEF TerminalSet
    <3> QED
      BY <2>1, <3>1, TransitionMoves DEF PauseLive
  <2>2. CASE ReadOrphan \/ ReadForCancel
    BY <2>2 DEF ReadOrphan, ReadForCancel, rowVars, RowMove, Passes
  <2>3. CASE ReconcileOrphanedExecution
    <3>1. {orphanRead} \cap TerminalSet = {}
      BY DEF RunTypeOK, TerminalSet
    <3>2. CASE TransitionRunStatus({orphanRead}, NoFence, "paused", FALSE, "none", TRUE)
      BY <3>1, <3>2, TransitionMoves
    <3>3. CASE UNCHANGED rowVars
      BY <3>3 DEF rowVars, RowMove, Passes
    <3> QED
      BY <2>3, <3>2, <3>3 DEF ReconcileOrphanedExecution
  <2>4. CASE ResumeLive \/ ResolveInteraction
    BY <2>4 DEF ResumeLive, ResolveInteraction, RowMove, Passes, Terminal, TerminalSet
  <2>5. CASE RequestCancellation \/ RequestSessionCancellation \/ CancelAncestor
    BY <2>5 DEF RequestCancellation, RequestSessionCancellation, CancelAncestor, RowMove, Passes
  <2>6. CASE TerminalizeOrphanedCancellation
    BY <2>6 DEF TerminalizeOrphanedCancellation, OrphanCancellable, rowVars, RowMove, Passes,
                HandsBack, Ends, Terminal, TerminalSet, Active
  <2>7. CASE ReconcileAgentCancellation \/ CancelDescendant
    <3>1. Active \cap TerminalSet = {}
      BY DEF Active, TerminalSet
    <3>2. TransitionRunStatus(Active, NoFence, "cancelled", FALSE, "user", FALSE)
      BY <2>7 DEF ReconcileAgentCancellation, CancelDescendant
    <3> QED
      BY <3>1, <3>2, TransitionMoves
  <2>8. CASE AdmitGuidance
    BY <2>8 DEF AdmitGuidance, BlocksSession, RowMove, Admits, Terminal, TerminalSet
  <2> QED
    BY <1>2, <2>1, <2>2, <2>3, <2>4, <2>5, <2>6, <2>7, <2>8 DEF ControlStep
<1>3. ASSUME NEW p \in Pods, ActivateExecutionResume(p) \/ ClaimRecovery(p) PROVE RowMove
  BY <1>3 DEF ActivateExecutionResume, ClaimRecovery, BlocksSession, RowMove, Passes,
              Terminal, TerminalSet
<1>4. CASE Tick \/ UNCHANGED runVars
  BY <1>4 DEF Tick, runVars, rowVars, RowMove, Passes
<1> QED
  BY <1>1, <1>2, <1>3, <1>4 DEF RunNext, RunStep

-----------------------------------------------------------------------------
(* A terminal run is final: no executor that comes late, no recovery and no   *)
(* control call moves it, claims it or touches its guidance.                  *)
THEOREM TerminalFinal == RunSpec => TerminalIsFinal
<1>1. RunTypeOK /\ [RunNext]_runVars
        => [Terminal(status) => UNCHANGED <<status, generation, intent>>]_runVars
  BY EveryStepMoves DEF RowMove, Passes, HandsBack, Applies, Admits
<1> QED
  BY <1>1, TypeCorrect, PTL DEF RunSpec, TerminalIsFinal

(* A stored marker decides how the run ends, on every path to a terminal      *)
(* status.                                                                    *)
THEOREM CancellationDecides == RunSpec => CancellationWins
<1>1. RunTypeOK /\ [RunNext]_runVars
        => [~Terminal(status) /\ Terminal(status') /\ Markers => status' = "cancelled"]_runVars
  BY EveryStepMoves DEF RowMove, Passes, HandsBack, Applies, Admits, Ends
<1> QED
  BY <1>1, TypeCorrect, PTL DEF RunSpec, CancellationWins

(* A run that has ended has no guidance in custody.                           *)
THEOREM GuidanceKept == RunSpec => []NoGuidanceLost
<1>1. RunInit => NoGuidanceLost
  BY DEF RunInit, NoGuidanceLost
<1>2. RunTypeOK /\ NoGuidanceLost /\ [RunNext]_runVars => NoGuidanceLost'
  BY EveryStepMoves DEF RowMove, Passes, HandsBack, Applies, Admits, ReturnIntents,
                        NoGuidanceLost, RunTypeOK
<1> QED
  BY <1>1, <1>2, TypeCorrect, PTL DEF RunSpec

(* The strengthening: no index the run has not reached carries an intent.     *)
IntentsAreOld == \A k \in 1..MaxIdx : k > lastIdx => intent[k] = "none"

LEMMA IntentsStayOld == RunSpec => []IntentsAreOld
<1>1. RunInit => IntentsAreOld
  BY DEF RunInit, IntentsAreOld
<1>2. RunTypeOK /\ IntentsAreOld /\ [RunNext]_runVars => IntentsAreOld'
  <2> SUFFICES ASSUME RunTypeOK, IntentsAreOld, RowMove PROVE IntentsAreOld'
    BY EveryStepMoves
  <2>1. CASE Passes
    BY <2>1 DEF Passes, IntentsAreOld, RunTypeOK
  <2>2. CASE HandsBack
    BY <2>2 DEF HandsBack, ReturnIntents, IntentsAreOld, RunTypeOK
  <2>3. CASE Applies
    BY <2>3 DEF Applies, IntentsAreOld, RunTypeOK
  <2>4. CASE Admits
    BY <2>4 DEF Admits, IntentsAreOld, RunTypeOK
  <2> QED
    BY <2>1, <2>2, <2>3, <2>4 DEF RowMove
<1> QED
  BY <1>1, <1>2, TypeCorrect, PTL DEF RunSpec

(* What became of a piece of guidance never changes: it cannot be applied by  *)
(* the executor and handed back to the user as well.                          *)
THEOREM DispositionFinal == RunSpec => DispositionIsFinal
<1>1. RunTypeOK /\ IntentsAreOld /\ [RunNext]_runVars
        => [\A k \in DOMAIN intent :
              intent[k] \in {"applied", "returned"} => intent'[k] = intent[k]]_runVars
  <2> SUFFICES ASSUME RunTypeOK, IntentsAreOld, RowMove,
                      NEW k \in DOMAIN intent, intent[k] \in {"applied", "returned"}
               PROVE  intent'[k] = intent[k]
    BY EveryStepMoves
  <2>1. CASE Passes \/ HandsBack \/ Applies
    BY <2>1 DEF Passes, HandsBack, Applies, ReturnIntents, RunTypeOK
  <2>2. CASE Admits
    BY <2>2 DEF Admits, IntentsAreOld, RunTypeOK
  <2> QED
    BY <2>1, <2>2 DEF RowMove
<1> QED
  BY <1>1, TypeCorrect, IntentsStayOld, PTL DEF RunSpec, DispositionIsFinal
=============================================================================
