-------------------------- MODULE OwnerLeaseProofs --------------------------
(***************************************************************************)
(* What the heartbeat of an executor guarantees for every lease duration,  *)
(* interval, timeout and number of attempts.                               *)
(***************************************************************************)
EXTENDS OwnerLease, TLAPS

(* What the policy makes of its parameters: the margin is at most half of the *)
(* lease, and the window is the rest of it.                                   *)
LEMMA PolicyFacts ==
  /\ SafetyMargin \in Nat /\ SafetyMargin <= LeaseDuration
  /\ Window \in Nat /\ Window = LeaseDuration - SafetyMargin
  /\ Slack \in Nat /\ AttemptWait \in Nat
<1>1. SafetyMargin \in Nat /\ 2 * SafetyMargin <= LeaseDuration
  BY LeaseAssumption DEF SafetyMargin, Lesser
<1>2. Slack \in Nat
  BY <1>1, LeaseAssumption DEF Slack, Lesser, Greater
<1>3. Window \in Nat /\ Window = LeaseDuration - SafetyMargin
  BY <1>1, LeaseAssumption DEF Window, Minus, Greater
<1>4. AttemptWait \in Nat
  <2>1. Minus(Minus(LeaseDuration, SafetyMargin), Slack) \in Nat
    BY <1>1, <1>2, LeaseAssumption DEF Minus, Greater
  <2> QED
    BY <2>1, LeaseAssumption DEF AttemptWait, Lesser, Greater
<1> QED
  BY <1>1, <1>2, <1>3, <1>4, LeaseAssumption

\* The next renewal is never later than one interval from now.
LEMMA RenewalWithinInterval ==
  ASSUME NEW left \in Nat
  PROVE  NextRenewal(left) \in 0..RenewalInterval
<1>1. MaxAttempts * AttemptWait + Slack \in Nat
  BY PolicyFacts, LeaseAssumption
<1> QED
  BY <1>1, LeaseAssumption DEF NextRenewal, Lesser, Minus, Greater

-----------------------------------------------------------------------------
(* The type invariant in two parts, for the two kinds of provers. *)
LeaseFlags ==
  /\ ended \in BOOLEAN /\ cancelReq \in BOOLEAN
  /\ active \in BOOLEAN /\ retired \in BOOLEAN /\ changed \in BOOLEAN
  /\ late \in BOOLEAN /\ lost \in BOOLEAN /\ timely \in BOOLEAN /\ short \in BOOLEAN

LeaseRest ==
  /\ owner \in {"me", "other", "none"} /\ lease \in -1..LeaseDuration
  /\ fence \in 0..Window
  /\ hb \in Looping \cup {"closing", "awaiting", "release", "done"}
  /\ next \in 0..RenewalInterval /\ attempt \in 0..MaxAttempts /\ age \in 0..LeaseDuration
  /\ sql \in {"idle", "sent", "renewed", "refused"} /\ wait \in 0..LeaseDuration
  /\ lock \in {"free", "hb", "term"} /\ term \in {"none", "want", "open"}
  /\ termSql \in {"idle", "sent", "receipt"} /\ exec \in {"running", "dropping", "gone"}
  /\ lag \in 0..Slack

LEMMA TypeInit == Init => LeaseTypeOK
<1> SUFFICES ASSUME Init PROVE LeaseTypeOK
  OBVIOUS
<1>1. next \in 0..RenewalInterval
  BY PolicyFacts, RenewalWithinInterval DEF Init
<1>2. LeaseFlags
  <2>1. (fence < Window - AttemptWait) \in BOOLEAN
    OBVIOUS
  <2> QED
    BY <2>1, Zenon DEF Init, LeaseFlags
<1>3. LeaseRest
  BY <1>1, PolicyFacts, LeaseAssumption DEF Init, LeaseRest, Looping
<1> QED
  BY <1>2, <1>3 DEF LeaseTypeOK, LeaseFlags, LeaseRest

LEMMA TypeStep == LeaseTypeOK /\ [Next]_vars => LeaseTypeOK'
<1>1. LeaseTypeOK <=> LeaseFlags /\ LeaseRest
  BY DEF LeaseTypeOK, LeaseFlags, LeaseRest
<1>2. LeaseFlags /\ LeaseRest /\ [Next]_vars => LeaseFlags' /\ LeaseRest'
  <2> SUFFICES ASSUME LeaseFlags, LeaseRest, [Next]_vars PROVE LeaseFlags' /\ LeaseRest'
    OBVIOUS
  <2> USE PolicyFacts, LeaseAssumption DEF Looping
  <2>1. CASE Tick
    BY <2>1 DEF Tick, Greater, Lesser, Minus, local, settlement, env, LeaseFlags, LeaseRest
  <2>2. CASE RenewRuns
    BY <2>2 DEF RenewRuns, Renewable, local, settlement, env, LeaseFlags, LeaseRest
  <2>3. CASE LateRenewRuns
    <3>1. LeaseFlags'
      BY <2>3, Zenon DEF LateRenewRuns, Renewable, local, settlement, env, LeaseFlags
    <3>2. LeaseRest'
      BY <2>3 DEF LateRenewRuns, Renewable, local, settlement, env, LeaseRest
    <3> QED
      BY <3>1, <3>2
  <2>4. CASE RequestCancellation
    BY <2>4 DEF RequestCancellation, local, beat, settlement, env, LeaseFlags, LeaseRest
  <2>5. CASE ClaimRecovery
    BY <2>5 DEF ClaimRecovery, local, beat, settlement, env, LeaseFlags, LeaseRest
  <2>6. CASE HbStop
    BY <2>6 DEF HbStop, LeaveLoop, row, local, settlement, env, LeaseFlags, LeaseRest
  <2>7. CASE HbFence
    BY <2>7 DEF HbFence, LeaveLoop, row, local, settlement, env, LeaseFlags, LeaseRest
  <2>8. CASE HbGrace
    BY <2>8 DEF HbGrace, row, local, settlement, env, LeaseFlags, LeaseRest
  <2>9. CASE HbGraceEnds
    BY <2>9 DEF HbGraceEnds, LeaveLoop, row, local, settlement, env, LeaseFlags, LeaseRest
  <2>10. CASE HbChanged
    <3>1. LeaseFlags'
      BY <2>10, Zenon DEF HbChanged, row, settlement, env, LeaseFlags
    <3>2. LeaseRest'
      BY <2>10, RenewalWithinInterval DEF HbChanged, row, settlement, env, LeaseRest
    <3> QED
      BY <3>1, <3>2
  <2>11. CASE HbInactive
    BY <2>11 DEF HbInactive, LeaveLoop, row, local, settlement, env, LeaseFlags, LeaseRest
  <2>12. CASE HbDue
    BY <2>12 DEF HbDue, row, local, settlement, env, LeaseFlags, LeaseRest
  <2>13. CASE HbAttempt
    BY <2>13 DEF HbAttempt, LeaveLoop, BeginAttempt, row, local, settlement, env, LeaseFlags, LeaseRest
  <2>14. CASE HbRenewed
    <3>1. LeaseFlags'
      BY <2>14, Zenon DEF HbRenewed, Minus, Greater, row, settlement, LeaseFlags
    <3>2. fence' \in 0..Window
      BY <2>14 DEF HbRenewed, Minus, Greater, LeaseRest
    <3>3. next' \in 0..RenewalInterval
      BY <2>14, <3>2, RenewalWithinInterval DEF HbRenewed
    <3>4. LeaseRest'
      <4>1. lag' \in 0..Slack
        BY <2>14 DEF HbRenewed, Lesser, Minus, Greater, LeaseRest
      <4> QED
        BY <2>14, <3>2, <3>3, <4>1 DEF HbRenewed, row, settlement, LeaseRest
    <3> QED
      BY <3>1, <3>4
  <2>15. CASE HbRefused
    BY <2>15 DEF HbRefused, LeaveLoop, row, local, settlement, env, LeaseFlags, LeaseRest
  <2>16. CASE HbAttemptFails
    <3>1. LeaseFlags'
      BY <2>16, Zenon DEF HbAttemptFails, LeaveLoop, BeginAttempt, row, local, settlement, env, LeaseFlags
    <3>2. LeaseRest'
      BY <2>16 DEF HbAttemptFails, LeaveLoop, BeginAttempt, row, local, settlement, env, LeaseRest
    <3> QED
      BY <3>1, <3>2
  <2>17. CASE HbClose
    <3>1. LeaseFlags'
      BY <2>17, Zenon DEF HbClose, row, settlement, env, LeaseFlags
    <3>2. LeaseRest'
      BY <2>17 DEF HbClose, row, settlement, env, LeaseRest
    <3> QED
      BY <3>1, <3>2
  <2>18. CASE HbAwaited
    BY <2>18 DEF HbAwaited, row, local, settlement, env, LeaseFlags, LeaseRest
  <2>19. CASE HbRelease
    BY <2>19 DEF HbRelease, local, settlement, env, LeaseFlags, LeaseRest
  <2>20. CASE TermBegin
    BY <2>20 DEF TermBegin, row, local, beat, env, LeaseFlags, LeaseRest
  <2>21. CASE TermOpen
    BY <2>21 DEF TermOpen, row, beat, LeaseFlags, LeaseRest
  <2>22. CASE TermGivesUp
    BY <2>22 DEF TermGivesUp, row, local, beat, env, LeaseFlags, LeaseRest
  <2>23. CASE TermSend
    BY <2>23 DEF TermSend, row, local, beat, env, LeaseFlags, LeaseRest
  <2>24. CASE TermCommits
    <3>1. LeaseFlags'
      BY <2>24, Zenon DEF TermCommits, local, beat, env, LeaseFlags
    <3>2. LeaseRest'
      BY <2>24 DEF TermCommits, local, beat, env, LeaseRest
    <3> QED
      BY <3>1, <3>2
  <2>25. CASE TermRetire
    <3>1. LeaseFlags'
      BY <2>25, Zenon DEF TermRetire, row, beat, env, LeaseFlags
    <3>2. LeaseRest'
      BY <2>25 DEF TermRetire, row, beat, env, LeaseRest
    <3> QED
      BY <3>1, <3>2
  <2>26. CASE TermDrop
    BY <2>26 DEF TermDrop, row, beat, env, LeaseFlags, LeaseRest
  <2>27. CASE ExecDrops
    <3>1. LeaseFlags'
      BY <2>27, Zenon DEF ExecDrops, row, beat, settlement, env, LeaseFlags
    <3>2. LeaseRest'
      BY <2>27 DEF ExecDrops, row, beat, settlement, env, LeaseRest
    <3> QED
      BY <3>1, <3>2
  <2>28. CASE ExecStops
    BY <2>28 DEF ExecStops, row, local, beat, settlement, env, LeaseFlags, LeaseRest
  <2>29. CASE Crash
    <3>1. LeaseFlags'
      BY <2>29, Zenon DEF Crash, row, env, LeaseFlags
    <3>2. LeaseRest'
      BY <2>29 DEF Crash, row, env, LeaseRest
    <3> QED
      BY <3>1, <3>2
  <2>30. CASE EndElsewhere
    <3>1. LeaseFlags'
      BY <2>30, Zenon DEF EndElsewhere, local, beat, settlement, env, LeaseFlags
    <3>2. LeaseRest'
      BY <2>30 DEF EndElsewhere, local, beat, settlement, env, LeaseRest
    <3> QED
      BY <3>1, <3>2
  <2>31. CASE TermSuperseded
    BY <2>31 DEF TermSuperseded, row, local, beat, env, LeaseFlags, LeaseRest
  <2>32. CASE UNCHANGED vars
    BY <2>32 DEF vars, LeaseFlags, LeaseRest, row, local, beat, settlement, env
  <2> QED
    BY <2>1, <2>2, <2>3, <2>4, <2>5, <2>6, <2>7, <2>8, <2>9, <2>10, <2>11, <2>12,
       <2>13, <2>14, <2>15, <2>16, <2>17, <2>18, <2>19, <2>20, <2>21, <2>22, <2>23, <2>24,
       <2>25, <2>26, <2>27, <2>28, <2>29, <2>30, <2>31, <2>32 DEF Next, HbStep
<1>3. LeaseTypeOK' <=> LeaseFlags' /\ LeaseRest'
  BY DEF LeaseTypeOK, LeaseFlags, LeaseRest
<1> QED
  BY <1>1, <1>2, <1>3

(* The type invariant holds throughout: no clock leaves its range, and no     *)
(* renewal makes more attempts than MaxAttempts.                              *)
THEOREM LeaseTypeCorrect == Spec => []LeaseTypeOK
  BY TypeInit, TypeStep, PTL DEF Spec

-----------------------------------------------------------------------------
(* Why the local authority is exclusive.  As long as it holds, the row is of   *)
(* our generation, still ours or ended, and a lease of ours outlives the local *)
(* deadline by the margin.                                                     *)
LeaseCoversFence ==
  Authorized => /\ owner # "other" /\ (owner = "me" \/ ended)
                /\ owner = "me" => lease >= fence + SafetyMargin

(* So it will after an answer that is still to come: the deadline counts from *)
(* the start of the attempt, the lease from its execution.                    *)
LeaseCoversAnswer ==
  hb = "attempt" /\ sql = "renewed" /\ age < Window =>
    /\ owner # "other" /\ (owner = "me" \/ ended)
    /\ owner = "me" => lease >= LeaseDuration - age

\* The lease is released only by a heartbeat that has ended the authority.
ClosedIsInactive == hb \in {"awaiting", "release", "done"} => ~active

\* A receipt, and what it retires, exist only where the run has ended.
ReceiptIsTerminal == termSql = "receipt" \/ retired => ended

LeaseInv ==
  /\ LeaseTypeOK
  /\ LeaseCoversFence /\ LeaseCoversAnswer
  /\ ClosedIsInactive /\ ReceiptIsTerminal

LEMMA LeaseInvInit == Init => LeaseInv
  BY TypeInit, PolicyFacts, LeaseAssumption
  DEF Init, LeaseInv, LeaseCoversFence, LeaseCoversAnswer, ClosedIsInactive, ReceiptIsTerminal,
      Authorized

LEMMA LeaseInvStep == LeaseInv /\ [Next]_vars => LeaseInv'
<1> SUFFICES ASSUME LeaseInv, [Next]_vars PROVE LeaseInv'
  OBVIOUS
<1>1. LeaseTypeOK /\ LeaseTypeOK'
  BY TypeStep DEF LeaseInv
<1>2. LeaseCoversFence' /\ LeaseCoversAnswer'
  <2> USE <1>1, PolicyFacts, LeaseAssumption DEF LeaseTypeOK, Looping
  <2>1. CASE Tick
    BY <2>1 DEF Tick, Greater, Lesser, Minus, local, settlement, env,
      LeaseInv, LeaseCoversFence, LeaseCoversAnswer, ClosedIsInactive,
      Authorized
  <2>2. CASE RenewRuns
    BY <2>2 DEF RenewRuns, Renewable, local, settlement, env,
      LeaseInv, LeaseCoversFence, LeaseCoversAnswer, ClosedIsInactive,
      Authorized
  <2>3. CASE LateRenewRuns
    BY <2>3 DEF LateRenewRuns, Renewable, local, settlement, env,
      LeaseInv, LeaseCoversFence, LeaseCoversAnswer, ClosedIsInactive,
      Authorized
  <2>4. CASE ClaimRecovery
    BY <2>4 DEF ClaimRecovery, local, beat, settlement, env,
      LeaseInv, LeaseCoversFence, LeaseCoversAnswer, ClosedIsInactive,
      Authorized
  <2>5. CASE HbAttempt
    BY <2>5 DEF HbAttempt, LeaveLoop, BeginAttempt, row, local, settlement, env,
      LeaseInv, LeaseCoversFence, LeaseCoversAnswer, ClosedIsInactive,
      Authorized
  <2>6. CASE HbRenewed
    BY <2>6 DEF HbRenewed, Minus, Greater, row, settlement,
      LeaseInv, LeaseCoversFence, LeaseCoversAnswer, ClosedIsInactive,
      Authorized
  <2>7. CASE HbAttemptFails
    BY <2>7 DEF HbAttemptFails, LeaveLoop, BeginAttempt, row, local, settlement, env,
      LeaseInv, LeaseCoversFence, LeaseCoversAnswer, ClosedIsInactive,
      Authorized
  <2>8. CASE HbClose
    BY <2>8 DEF HbClose, row, settlement, env,
      LeaseInv, LeaseCoversFence, LeaseCoversAnswer, ClosedIsInactive,
      Authorized
  <2>9. CASE HbRelease
    BY <2>9 DEF HbRelease, local, settlement, env,
      LeaseInv, LeaseCoversFence, LeaseCoversAnswer, ClosedIsInactive,
      Authorized
  <2>10. CASE TermCommits
    BY <2>10 DEF TermCommits, local, beat, env,
      LeaseInv, LeaseCoversFence, LeaseCoversAnswer, ClosedIsInactive,
      Authorized
  <2>11. CASE \/ RequestCancellation \/ HbStop \/ HbFence \/ HbGrace \/ HbGraceEnds \/ HbChanged
              \/ HbInactive \/ HbDue \/ HbRefused \/ HbAwaited \/ TermBegin \/ TermOpen
              \/ TermGivesUp \/ TermSend \/ TermSuperseded \/ TermRetire \/ TermDrop \/ ExecDrops \/ ExecStops
              \/ Crash
    <3>1. /\ UNCHANGED <<owner, lease, ended, fence>>
          /\ active' => active
          /\ hb' = "attempt" => UNCHANGED <<hb, sql, age>>
      BY <2>11 DEF RequestCancellation, HbStop, HbFence, HbGrace, HbGraceEnds, HbChanged, HbInactive,
        HbDue, HbRefused, HbAwaited, TermBegin, TermOpen, TermGivesUp, TermSend,
        TermSuperseded, TermRetire, TermDrop, ExecDrops, ExecStops, Crash, LeaveLoop, BeginAttempt,
        row, local, beat, settlement, env
    <3>2. LeaseCoversFence'
      BY <3>1 DEF LeaseInv, LeaseCoversFence, Authorized
    <3>3. LeaseCoversAnswer'
      BY <3>1 DEF LeaseInv, LeaseCoversAnswer
    <3> QED
      BY <3>2, <3>3
  <2>12. CASE UNCHANGED vars
    BY <2>12 DEF vars, LeaseInv, LeaseCoversFence, LeaseCoversAnswer, ClosedIsInactive,
      Authorized, row, local, beat, settlement, env
  <2>13. CASE EndElsewhere
    BY <2>13 DEF EndElsewhere, local, beat, settlement, env,
      LeaseInv, LeaseCoversFence, LeaseCoversAnswer, ClosedIsInactive,
      Authorized
  <2> QED
    BY <2>1, <2>2, <2>3, <2>4, <2>5, <2>6, <2>7, <2>8, <2>9, <2>10, <2>11, <2>12,
       <2>13 DEF Next, HbStep
<1>3. ClosedIsInactive'
  <2>1. CASE HbClose
    BY <2>1 DEF HbClose, row, settlement, env,
      LeaseInv, ClosedIsInactive, Looping
  <2>2. CASE HbAwaited
    BY <2>2 DEF HbAwaited, row, local, settlement, env,
      LeaseInv, ClosedIsInactive, Looping
  <2>3. CASE HbRelease
    BY <2>3 DEF HbRelease, local, settlement, env,
      LeaseInv, ClosedIsInactive, Looping
  <2>4. CASE TermRetire
    BY <2>4 DEF TermRetire, row, beat, env,
      LeaseInv, ClosedIsInactive, Looping
  <2>5. CASE ExecDrops
    BY <2>5 DEF ExecDrops, row, beat, settlement, env,
      LeaseInv, ClosedIsInactive, Looping
  <2>6. CASE Crash
    BY <2>6 DEF Crash, row, env,
      LeaseInv, ClosedIsInactive, Looping
  <2>7. CASE \/ Tick \/ RenewRuns \/ LateRenewRuns \/ RequestCancellation \/ ClaimRecovery \/ HbStop
              \/ HbFence \/ HbGrace \/ HbGraceEnds \/ HbChanged \/ HbInactive \/ HbDue
              \/ HbAttempt \/ HbRenewed \/ HbRefused \/ HbAttemptFails \/ TermBegin \/ TermOpen
              \/ TermGivesUp \/ TermSend \/ TermCommits \/ TermDrop \/ ExecStops
              \/ EndElsewhere \/ TermSuperseded
    BY <2>7 DEF LeaseInv, ClosedIsInactive, Looping,
      Tick, RenewRuns, LateRenewRuns, RequestCancellation, ClaimRecovery, HbStop, HbFence,
      HbGrace, HbGraceEnds, HbChanged, HbInactive, HbDue, HbAttempt, HbRenewed,
      HbRefused, HbAttemptFails, TermBegin, TermOpen, TermGivesUp, TermSend, TermCommits,
      TermDrop, ExecStops, EndElsewhere, TermSuperseded, LeaveLoop, BeginAttempt, row, local, beat,
      settlement, env
  <2>8. CASE UNCHANGED vars
    BY <2>8 DEF vars, LeaseInv, ClosedIsInactive, Looping, row, local, beat, settlement, env
  <2> QED
    BY <2>1, <2>2, <2>3, <2>4, <2>5, <2>6, <2>7, <2>8 DEF Next, HbStep
<1>4. ReceiptIsTerminal'
  <2>0. ended \in BOOLEAN /\ retired \in BOOLEAN
    BY <1>1 DEF LeaseTypeOK
  <2>1. ended => ended'
    BY <2>0 DEF Next, HbStep, vars, row,
      Tick, RenewRuns, LateRenewRuns, RequestCancellation, ClaimRecovery, EndElsewhere,
      HbStop, HbFence, HbGrace, HbGraceEnds, HbChanged, HbInactive, HbDue, HbAttempt,
      HbRenewed, HbRefused, HbAttemptFails, HbClose, HbAwaited, HbRelease, TermBegin,
      TermOpen, TermGivesUp, TermSend, TermCommits, TermSuperseded, TermRetire, TermDrop,
      ExecDrops, ExecStops, Crash
  <2>2. CASE TermCommits
    BY <2>0, <2>1, <2>2 DEF TermCommits, local, LeaseInv, ReceiptIsTerminal
  <2>3. CASE TermSuperseded
    BY <2>0, <2>1, <2>3 DEF TermSuperseded, LeaseInv, ReceiptIsTerminal
  <2>4. CASE TermRetire
    BY <2>0, <2>1, <2>4 DEF TermRetire, LeaseInv, ReceiptIsTerminal
  <2>5. CASE ~(TermCommits \/ TermSuperseded \/ TermRetire)
    <3>1. retired' = retired /\ (termSql' = "receipt" => termSql = "receipt")
      BY <2>5 DEF Next, HbStep, vars, local, settlement,
        Tick, RenewRuns, LateRenewRuns, RequestCancellation, ClaimRecovery, EndElsewhere,
        HbStop, HbFence, HbGrace, HbGraceEnds, HbChanged, HbInactive, HbDue, HbAttempt,
        HbRenewed, HbRefused, HbAttemptFails, HbClose, HbAwaited, HbRelease, TermBegin,
        TermOpen, TermGivesUp, TermSend, TermDrop, ExecDrops, ExecStops, Crash
    <3> QED
      BY <2>0, <2>1, <3>1 DEF LeaseInv, ReceiptIsTerminal
  <2> QED
    BY <2>2, <2>3, <2>4, <2>5
<1> QED
  BY <1>1, <1>2, <1>3, <1>4 DEF LeaseInv

(* Nobody else owns the run while the local authority holds, for every lease  *)
(* policy, however slow the renewals and their answers.                       *)
THEOREM AuthorityExclusive == Spec => []AuthorityIsExclusive
<1>1. LeaseInv => AuthorityIsExclusive
  BY DEF LeaseInv, LeaseCoversFence, AuthorityIsExclusive
<1> QED
  BY LeaseInvInit, LeaseInvStep, <1>1, PTL DEF Spec

(* A heartbeat that skips the release after a receipt leaves no live run owned. *)
THEOREM RetirementIsTerminal == Spec => []RetiredIsEnded
<1>1. LeaseInv => RetiredIsEnded
  BY DEF LeaseInv, ReceiptIsTerminal, RetiredIsEnded
<1> QED
  BY LeaseInvInit, LeaseInvStep, <1>1, PTL DEF Spec

-----------------------------------------------------------------------------
(* Why the budget suffices.  OwnerLeasePolicy divides the window by three:     *)
(* one attempt may have been spent before the deadline it sets is known, two   *)
(* more and the slack must remain.  A lease of at least seven units (the code  *)
(* counts milliseconds at least) leaves room for that.                         *)
LEMMA WindowHoldsThreeAttempts ==
  ASSUME LeaseDuration >= 7
  PROVE  AttemptWait >= 1 /\ 3 * AttemptWait + Slack <= Window
<1>1. SafetyMargin \in Nat /\ 2 * SafetyMargin <= LeaseDuration
  BY LeaseAssumption DEF SafetyMargin, Lesser
<1>2. Slack \in Nat /\ (3 * Slack <= SafetyMargin \/ Slack <= 1)
  BY <1>1, LeaseAssumption DEF Slack, Lesser, Greater
<1>3. Window \in Nat /\ Window = LeaseDuration - SafetyMargin
  BY PolicyFacts
<1>4. Slack + 3 <= Window
  BY <1>1, <1>2, <1>3, LeaseAssumption
<1>5. Minus(Window, Slack) = Window - Slack
  BY <1>2, <1>3, <1>4 DEF Minus, Greater
<1>6. AttemptWait = Greater(Lesser(MaxAttemptWait, (Window - Slack) \div 3), 1)
  BY <1>5 DEF AttemptWait, Window
<1>7. (Window - Slack) \div 3 \in Nat /\ 3 * ((Window - Slack) \div 3) <= Window - Slack
      /\ (Window - Slack) \div 3 >= 1
  BY <1>2, <1>3, <1>4
<1>8. /\ AttemptWait \in Nat /\ AttemptWait >= 1
      /\ AttemptWait <= (Window - Slack) \div 3
  <2> HIDE DEF Window, Slack
  <2> DEFINE q == (Window - Slack) \div 3
  <2>1. q \in Nat /\ q >= 1
    BY <1>7
  <2> HIDE DEF q
  <2>2. /\ Greater(Lesser(MaxAttemptWait, q), 1) \in Nat
        /\ Greater(Lesser(MaxAttemptWait, q), 1) >= 1
        /\ Greater(Lesser(MaxAttemptWait, q), 1) <= q
    BY <2>1, LeaseAssumption DEF Lesser, Greater
  <2> QED
    BY <2>2, <1>6 DEF q
<1> QED
  BY <1>2, <1>3, <1>7, <1>8

(* What the parts of the heartbeat say of each other. *)
LoopShape ==
  /\ hb \in Looping => why = "none"
  /\ hb = "attempt" <=> lock = "hb"
  /\ term = "open" <=> lock = "term"
  /\ hb = "grace" => short
  /\ ~short => term # "open" /\ (changed => ~active)

(* The time left for the attempts that remain, in a window that is a full one  *)
(* and a schedule that keeps within the slack: what the heartbeat has not yet  *)
(* been late is still in reserve.                                              *)
Reserve ==
  /\ timely /\ hb = "attempt" => age <= AttemptWait + lag
  /\ timely /\ ~short =>
       /\ hb = "idle" => fence >= next + 2 * AttemptWait + Slack - lag
       /\ hb = "due" => fence >= 2 * AttemptWait + Slack - lag
       /\ hb = "attempt" =>
            /\ attempt = 1 => /\ fence + age >= 2 * AttemptWait + Slack - lag
                              /\ fence >= AttemptWait + Slack - lag
            /\ attempt # 1 => attempt = 2
       /\ why \notin {"budget", "fence"}

BudgetInv == LoopShape /\ Reserve

(* The next renewal leaves room for both attempts and the slack, or is at once. *)
LEMMA RenewalLeavesRoom ==
  ASSUME NEW left \in Nat, MaxAttempts = 2
  PROVE  /\ left >= 2 * AttemptWait + Slack =>
              left >= NextRenewal(left) + 2 * AttemptWait + Slack
         /\ left < 2 * AttemptWait + Slack => NextRenewal(left) = 0
  BY PolicyFacts, LeaseAssumption DEF NextRenewal, Lesser, Minus, Greater

LEMMA LoopShapeStep ==
  ASSUME LeaseTypeOK, LoopShape, [Next]_vars
  PROVE  LoopShape'
<1> USE DEF LeaseTypeOK, LoopShape, Looping
<1>1. CASE Tick
  BY <1>1
  DEF Tick, Ready, local, settlement, env, Greater, Lesser, Minus
<1>2. CASE RenewRuns
  BY <1>2
  DEF RenewRuns, Renewable, local, settlement, env
<1>3. CASE LateRenewRuns
  BY <1>3
  DEF LateRenewRuns, Renewable, local, settlement, env
<1>4. CASE RequestCancellation
  BY <1>4
  DEF RequestCancellation, local, beat, settlement, env
<1>5. CASE ClaimRecovery
  BY <1>5
  DEF ClaimRecovery, local, beat, settlement, env
<1>6. CASE HbStop
  BY <1>6
  DEF HbStop, LeaveLoop, row, local, settlement, env
<1>7. CASE HbFence
  BY <1>7
  DEF HbFence, LeaveLoop, Selecting, row, local, settlement, env
<1>8. CASE HbGrace
  BY <1>8
  DEF HbGrace, Selecting, row, local, settlement, env
<1>9. CASE HbGraceEnds
  BY <1>9
  DEF HbGraceEnds, LeaveLoop, row, local, settlement, env
<1>10. CASE HbChanged
  BY <1>10
  DEF HbChanged, Selecting, row, settlement, env
<1>11. CASE HbInactive
  BY <1>11
  DEF HbInactive, LeaveLoop, Selecting, row, local, settlement, env
<1>12. CASE HbDue
  BY <1>12
  DEF HbDue, Selecting, row, local, settlement, env
<1>13. CASE HbAttempt
  BY <1>13
  DEF HbAttempt, LeaveLoop, BeginAttempt, Selecting, AttemptFits, row, local,
      settlement, env
<1>14. CASE HbRenewed
  BY <1>14
  DEF HbRenewed, row, settlement, Lesser, Minus
<1>15. CASE HbRefused
  BY <1>15
  DEF HbRefused, LeaveLoop, row, local, settlement, env
<1>16. CASE HbAttemptFails
  BY <1>16
  DEF HbAttemptFails, LeaveLoop, BeginAttempt, AttemptFits, row, local, settlement,
      env
<1>17. CASE HbClose
  BY <1>17
  DEF HbClose, row, settlement, env
<1>18. CASE HbAwaited
  BY <1>18
  DEF HbAwaited, row, local, settlement, env
<1>19. CASE HbRelease
  BY <1>19
  DEF HbRelease, local, settlement, env
<1>20. CASE TermBegin
  BY <1>20
  DEF TermBegin, Authorized, row, local, beat, env
<1>21. CASE TermOpen
  BY <1>21
  DEF TermOpen, Authorized, row, beat
<1>22. CASE TermGivesUp
  BY <1>22
  DEF TermGivesUp, row, local, beat, env
<1>23. CASE TermSend
  BY <1>23
  DEF TermSend, row, local, beat, env
<1>24. CASE TermCommits
  BY <1>24
  DEF TermCommits, local, beat, env
<1>25. CASE TermRetire
  BY <1>25
  DEF TermRetire, row, beat, env
<1>26. CASE TermDrop
  BY <1>26
  DEF TermDrop, row, beat, env
<1>27. CASE ExecDrops
  BY <1>27
  DEF ExecDrops, row, beat, settlement, env
<1>28. CASE ExecStops
  BY <1>28
  DEF ExecStops, row, local, beat, settlement, env
<1>29. CASE Crash
  BY <1>29
  DEF Crash, row, env
<1>30. CASE EndElsewhere
  BY <1>30
  DEF EndElsewhere, local, beat, settlement, env
<1>31. CASE TermSuperseded
  BY <1>31
  DEF TermSuperseded, row, local, beat, env
<1>32. CASE UNCHANGED vars
  BY <1>32 DEF vars, row, local, beat, settlement, env
<1> QED
  BY <1>1, <1>2, <1>3, <1>4, <1>5, <1>6, <1>7, <1>8, <1>9, <1>10, <1>11, <1>12,
     <1>13, <1>14, <1>15, <1>16, <1>17, <1>18, <1>19, <1>20, <1>21, <1>22, <1>23,
     <1>24, <1>25, <1>26, <1>27, <1>28, <1>29, <1>30, <1>31, <1>32
  DEF Next, HbStep

LEMMA ReserveStep ==
  ASSUME LeaseDuration >= 7, MaxAttempts = 2, LeaseTypeOK, LoopShape, Reserve, [Next]_vars
  PROVE  Reserve'
<1>a. /\ AttemptWait \in Nat /\ AttemptWait >= 1 /\ Slack \in Nat /\ Window \in Nat
      /\ 3 * AttemptWait + Slack <= Window /\ Window <= LeaseDuration /\ LeaseDuration \in Nat
  BY WindowHoldsThreeAttempts, PolicyFacts, LeaseAssumption
<1> USE <1>a DEF LeaseTypeOK, LoopShape, Reserve, Looping
<1>1. CASE Tick
  <2>1. /\ UNCHANGED <<hb, attempt, why, short, timely>>
        /\ fence' = (IF fence = 0 THEN 0 ELSE fence - 1)
        /\ next' = (IF next = 0 THEN 0 ELSE next - 1)
        /\ hb = "attempt" => age' = (IF age + 1 <= LeaseDuration THEN age + 1 ELSE LeaseDuration)
        /\ lag' = (IF timely /\ Ready THEN lag + 1 ELSE lag)
    BY <1>1 DEF Tick, Greater, Lesser, Minus, env
  <2>2. timely /\ hb = "attempt" => age' <= AttemptWait + lag'
    <3>1. timely /\ hb = "attempt" /\ age >= AttemptWait => lag' = lag + 1
      BY <2>1 DEF Ready
    <3>2. lag' = lag \/ lag' = lag + 1
      BY <2>1
    <3> QED
      BY <2>1, <3>1, <3>2
  <2>3. ASSUME timely, ~short, hb = "idle"
        PROVE  fence' >= next' + 2 * AttemptWait + Slack - lag'
    <3>1. next = 0 => lag' = lag + 1
      BY <2>1, <2>3 DEF Ready
    <3>2. lag' = lag \/ lag' = lag + 1
      BY <2>1
    <3> QED
      BY <2>1, <2>3, <3>1, <3>2
  <2>4. ASSUME timely, ~short, hb = "due"
        PROVE  fence' >= 2 * AttemptWait + Slack - lag'
    <3>1. lag' = lag + 1
      BY <2>1, <2>4 DEF Ready
    <3> QED
      BY <2>1, <2>4, <3>1
  <2>5. ASSUME timely, ~short, hb = "attempt", attempt = 1
        PROVE  /\ fence' + age' >= 2 * AttemptWait + Slack - lag'
               /\ fence' >= AttemptWait + Slack - lag'
    <3>1. age >= AttemptWait => lag' = lag + 1
      BY <2>1, <2>5 DEF Ready
    <3>2. lag' = lag \/ lag' = lag + 1
      BY <2>1
    <3> QED
      BY <2>1, <2>5, <3>1, <3>2
  <2> QED
    BY <2>1, <2>2, <2>3, <2>4, <2>5
<1>2. CASE RenewRuns
  BY <1>2
  DEF RenewRuns, Renewable, local, settlement, env
<1>3. CASE LateRenewRuns
  BY <1>3
  DEF LateRenewRuns, Renewable, local, settlement, env
<1>4. CASE RequestCancellation
  BY <1>4
  DEF RequestCancellation, local, beat, settlement, env
<1>5. CASE ClaimRecovery
  BY <1>5
  DEF ClaimRecovery, local, beat, settlement, env
<1>6. CASE HbStop
  BY <1>6
  DEF HbStop, LeaveLoop, row, local, settlement, env
<1>7. CASE HbFence
  BY <1>7
  DEF HbFence, LeaveLoop, Selecting, row, local, settlement, env
<1>8. CASE HbGrace
  BY <1>8
  DEF HbGrace, Selecting, row, local, settlement, env
<1>9. CASE HbGraceEnds
  BY <1>9
  DEF HbGraceEnds, LeaveLoop, row, local, settlement, env
<1>10. CASE HbChanged
  BY <1>10
  DEF HbChanged, Selecting, row, settlement, env
<1>11. CASE HbInactive
  BY <1>11
  DEF HbInactive, LeaveLoop, Selecting, row, local, settlement, env
<1>12. CASE HbDue
  BY <1>12
  DEF HbDue, Selecting, row, local, settlement, env
<1>13. CASE HbAttempt
  BY <1>13
  DEF HbAttempt, LeaveLoop, BeginAttempt, Selecting, AttemptFits, row, local,
      settlement, env
<1>14. CASE HbRenewed
  <2>1. /\ hb = "attempt" /\ hb' = "idle" /\ why' = why /\ why = "none" /\ timely' = timely
        /\ fence' = (IF age <= Window THEN Window - age ELSE 0) /\ next' = NextRenewal(fence')
    BY <1>14 DEF HbRenewed, Minus, Greater
  <2>2. timely => lag' = (IF age >= AttemptWait THEN age - AttemptWait ELSE 0)
    BY <1>14 DEF HbRenewed, Lesser, Minus, Greater
  <2>3. fence' \in Nat
    BY <2>1
  <2>4. timely => fence' >= 2 * AttemptWait + Slack - lag'
    BY <2>1, <2>2
  <2>5. timely => fence' >= next' + 2 * AttemptWait + Slack - lag'
    <3>1. CASE fence' >= 2 * AttemptWait + Slack
      <4>1. fence' >= NextRenewal(fence') + 2 * AttemptWait + Slack
        BY <2>3, <3>1, RenewalLeavesRoom
      <4>2. NextRenewal(fence') \in Nat
        BY <2>3, RenewalWithinInterval, LeaseAssumption
      <4> QED
        BY <2>1, <2>2, <4>1, <4>2
    <3>2. CASE fence' < 2 * AttemptWait + Slack
      <4>1. NextRenewal(fence') = 0
        BY <2>3, <3>2, RenewalLeavesRoom
      <4> QED
        BY <2>1, <2>2, <2>4, <4>1
    <3> QED
      BY <2>3, <3>1, <3>2
  <2> QED
    BY <2>1, <2>5
<1>15. CASE HbRefused
  BY <1>15
  DEF HbRefused, LeaveLoop, row, local, settlement, env
<1>16. CASE HbAttemptFails
  BY <1>16
  DEF HbAttemptFails, LeaveLoop, BeginAttempt, AttemptFits, row, local, settlement,
      env
<1>17. CASE HbClose
  BY <1>17
  DEF HbClose, row, settlement, env
<1>18. CASE HbAwaited
  BY <1>18
  DEF HbAwaited, row, local, settlement, env
<1>19. CASE HbRelease
  BY <1>19
  DEF HbRelease, local, settlement, env
<1>20. CASE TermBegin
  BY <1>20
  DEF TermBegin, Authorized, row, local, beat, env
<1>21. CASE TermOpen
  BY <1>21
  DEF TermOpen, Authorized, row, beat
<1>22. CASE TermGivesUp
  BY <1>22
  DEF TermGivesUp, row, local, beat, env
<1>23. CASE TermSend
  BY <1>23
  DEF TermSend, row, local, beat, env
<1>24. CASE TermCommits
  BY <1>24
  DEF TermCommits, local, beat, env
<1>25. CASE TermRetire
  BY <1>25
  DEF TermRetire, row, beat, env
<1>26. CASE TermDrop
  BY <1>26
  DEF TermDrop, row, beat, env
<1>27. CASE ExecDrops
  BY <1>27
  DEF ExecDrops, row, beat, settlement, env
<1>28. CASE ExecStops
  BY <1>28
  DEF ExecStops, row, local, beat, settlement, env
<1>29. CASE Crash
  BY <1>29
  DEF Crash, row, env
<1>30. CASE EndElsewhere
  BY <1>30
  DEF EndElsewhere, local, beat, settlement, env
<1>31. CASE TermSuperseded
  BY <1>31
  DEF TermSuperseded, row, local, beat, env
<1>32. CASE UNCHANGED vars
  BY <1>32 DEF vars, row, local, beat, settlement, env
<1> QED
  BY <1>1, <1>2, <1>3, <1>4, <1>5, <1>6, <1>7, <1>8, <1>9, <1>10, <1>11, <1>12,
     <1>13, <1>14, <1>15, <1>16, <1>17, <1>18, <1>19, <1>20, <1>21, <1>22, <1>23,
     <1>24, <1>25, <1>26, <1>27, <1>28, <1>29, <1>30, <1>31, <1>32
  DEF Next, HbStep

LEMMA BudgetInit ==
  ASSUME LeaseDuration >= 7, MaxAttempts = 2, Init
  PROVE  BudgetInv
<1>1. AttemptWait \in Nat /\ Slack \in Nat /\ Window \in Nat /\ 3 * AttemptWait + Slack <= Window
  BY WindowHoldsThreeAttempts, PolicyFacts
<1>2. LoopShape
  BY DEF Init, LoopShape, Looping
<1>3. fence \in Nat
  BY <1>1 DEF Init
<1>4. ~short => fence >= next + 2 * AttemptWait + Slack
  <2>1. next = NextRenewal(fence) /\ short = (fence < Window - AttemptWait)
    BY DEF Init
  <2>2. ~short => fence >= 2 * AttemptWait + Slack
    <3>1. ~short => ~(fence < Window - AttemptWait)
      BY <2>1, Zenon
    <3> QED
      BY <3>1, <1>1, <1>3
  <2> QED
    BY <2>1, <2>2, <1>3, RenewalLeavesRoom
<1>5. Reserve
  BY <1>1, <1>4 DEF Init, Reserve
<1> QED
  BY <1>2, <1>5 DEF BudgetInv

(* For every lease of at least seven units, every interval, timeout and slack  *)
(* and the two attempts of the code: a heartbeat that the scheduler keeps      *)
(* within the slack never gives the run up for want of time after a full       *)
(* window in which no settlement held the mutex.                               *)
THEOREM RenewalBudget ==
  ASSUME LeaseDuration >= 7, MaxAttempts = 2
  PROVE  Spec => []BudgetSuffices
<1>1. Init => LeaseTypeOK /\ BudgetInv
  BY TypeInit, BudgetInit
<1>2. LeaseTypeOK /\ BudgetInv /\ [Next]_vars => (LeaseTypeOK /\ BudgetInv)'
  BY TypeStep, LoopShapeStep, ReserveStep DEF BudgetInv
<1>3. BudgetInv => BudgetSuffices
  BY DEF BudgetInv, Reserve, BudgetSuffices
<1> QED
  BY <1>1, <1>2, <1>3, PTL DEF Spec

=============================================================================
