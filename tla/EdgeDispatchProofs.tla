------------------------- MODULE EdgeDispatchProofs -------------------------
(***************************************************************************)
(* Proofs about the dispatch queue, for any number of requests, callers and *)
(* connections. The argument follows one request: the right to send it is   *)
(* an unclaimed row, then one holder, then nothing.                         *)
(***************************************************************************)
EXTENDS EdgeDispatch, TLAPS

\* Nobody has claimed r and has yet to send it.
Free(r) == \A h \in holds : h[2] # r

\* A poll or an admission may still claim r.
Unclaimed(r) == row[r].st = "pending" \/ (row[r].st = "none" /\ run)

\* Nothing can make the tool of r run any more, and it has not.
Dead(r) == ran[r] = 0 /\ r \notin toEdge /\ Free(r) /\ ~Unclaimed(r)

\* v says truly what became of r: it never ran, or it ran and the journal agrees.
ReportTrue(r, v) ==
    \/ v \in {"refused", "rejected"} /\ Dead(r)
    \/ v \in {"ok", "lost"} /\ ran[r] = 1 /\ edge[r] \in {v, "none"}

\* An open row has no result, and the result of a completed one is true.
RowIsTrue(r) ==
    \/ row[r].st \in {"none"} \cup Open /\ row[r].res = NoResult
    \/ row[r].st = "failed" /\ row[r].res = "failed"
    \/ row[r].st = "completed" /\ ReportTrue(r, row[r].res)

-----------------------------------------------------------------------------
(* The inductive invariant *)

DispatchTypeOK ==
    /\ row \in [Requests -> [st : {"none"} \cup Open \cup Terminal,
       res : Results \cup {NoResult}]]
    /\ holds \subseteq (Callers \cup Gens) \X Requests
    /\ caller \in [Callers -> {"idle", "waiting", "claimed", "observing", "sent", "returned"}]
    /\ answer \in [Callers -> {NoResult, "ok", "not_executed", "unknown", "conflict"}]
    /\ toEdge \subseteq Requests /\ acks \subseteq Requests
    /\ toServer \subseteq Requests \X Reports
    /\ edge \in [Requests -> {"none", "running", "ok", "lost"}]
    /\ sent \in [Requests -> Nat] /\ ran \in [Requests -> Nat]

\* A claim has one holder: the right to send is never shared.
OneHolder == \A h, k \in holds : h[2] = k[2] => h = k

ClaimedHolds == \A c \in Callers : caller[c] = "claimed" => <<c, Target(c)>> \in holds

\* The right to send is used up by the first send, and only its frame runs the tool.
RightIsSpent ==
    \A r \in Requests :
        /\ Unclaimed(r) => Free(r) /\ sent[r] = 0
        /\ ~Free(r) => sent[r] = 0
        /\ sent[r] \in {0, 1} /\ ran[r] \in {0, sent[r]}
        /\ r \in toEdge => sent[r] = 1 /\ ran[r] = 0
        /\ edge[r] # "none" => ran[r] = 1

\* Result frames and completed rows are true.
ReportsAreTrue ==
    /\ \A m \in toServer : ReportTrue(m[1], m[2])
    /\ \A r \in Requests : RowIsTrue(r)

\* Only a stored result is acknowledged.
AcksAreStored ==
    \A r \in acks : row[r].st = "completed" \/ (row[r].st = "none" /\ ~run)

\* "not executed" is of a dead request; a success has run and is stored.
AnswerTrue(c) ==
    LET r == Target(c) IN
      /\ answer[c] = "not_executed" => Dead(r)
      /\ answer[c] = "ok" =>
           /\ ran[r] = 1
           /\ \/ row[r] = [st |-> "completed", res |-> "ok"]
              \/ row[r] = NoRow /\ ~run

AnswersAreFinal == \A c \in Callers : AnswerTrue(c)

DispatchInv ==
    /\ DispatchTypeOK /\ OneHolder /\ ClaimedHolds /\ RightIsSpent
    /\ ReportsAreTrue /\ AcksAreStored /\ AnswersAreFinal

-----------------------------------------------------------------------------
(* The ways in which a step may change the row of r *)

RowMove(r) ==
    \/ row'[r] = row[r]
    \/ Unclaimed(r) /\ row'[r].st \in Open /\ row'[r].res \in {NoResult, row[r].res}
    \/ row[r].st \in Open /\ row'[r] = [st |-> "failed", res |-> "failed"]
    \/ /\ row[r].st \in Open
       /\ \/ \E c \in Callers : /\ NotSent(c) /\ r = Target(c)
                                /\ row'[r] = [st |-> "completed", res |-> "rejected"]
          \/ \E m \in toServer : r = m[1] /\ row'[r] = [st |-> "completed", res |-> m[2]]
    \/ row[r].st \in Terminal /\ ~run /\ row'[r] = NoRow

-----------------------------------------------------------------------------
LEMMA DispatchTypeInit == Init => DispatchTypeOK
BY DEF Init, DispatchTypeOK, NoRow, NoResult, Results, Reports

\* Every step keeps the types.
LEMMA DispatchTypeStep == DispatchTypeOK /\ [Next]_vars => DispatchTypeOK'
<1> SUFFICES ASSUME DispatchTypeOK, [Next]_vars PROVE DispatchTypeOK'
  OBVIOUS
<1> USE DispatchAssumption DEF Open, Terminal, Results, Reports, NoResult, Decode
<1>0. ASSUME NEW c \in Callers, AdmissionRejected(c) PROVE DispatchTypeOK'
  BY <1>0 DEF AdmissionRejected, Return, Link, DispatchTypeOK
<1>1. ASSUME NEW c \in Callers, AdmitDispatch(c) PROVE DispatchTypeOK'
  <2>1. Target(c) \in Requests
    BY DispatchAssumption
  <2>2. row' \in [Requests -> [st : {"none"} \cup Open \cup Terminal,
     res : Results \cup {NoResult}]]
    BY <1>1, <2>1 DEF AdmitDispatch, DispatchTypeOK
  <2>3. Decode(row[Target(c)].res) \in {"ok", "not_executed", "unknown"}
    OBVIOUS
  <2>4. caller' \in [Callers -> {"idle", "waiting", "claimed", "observing", "sent", "returned"}]
    BY <1>1 DEF AdmitDispatch, Return, DispatchTypeOK
  <2>5. answer' \in [Callers -> {NoResult, "ok", "not_executed", "unknown", "conflict"}]
    BY <1>1, <2>3 DEF AdmitDispatch, Return, DispatchTypeOK
  <2> QED
    BY <1>1, <2>2, <2>4, <2>5 DEF AdmitDispatch, Link, DispatchTypeOK
<1>2. ASSUME NEW c \in Callers, AdmitAndClaimDirectDispatch(c) PROVE DispatchTypeOK'
  <2>1. Target(c) \in Requests
    BY DispatchAssumption
  <2>2. row' \in [Requests -> [st : {"none"} \cup Open \cup Terminal,
     res : Results \cup {NoResult}]]
    BY <1>2, <2>1 DEF AdmitAndClaimDirectDispatch, AdmitRow, DispatchTypeOK
  <2>3. Decode(row[Target(c)].res) \in {"ok", "not_executed", "unknown"}
    OBVIOUS
  <2>4. caller' \in [Callers -> {"idle", "waiting", "claimed", "observing", "sent", "returned"}]
    BY <1>2 DEF AdmitAndClaimDirectDispatch, Return, DispatchTypeOK
  <2>5. answer' \in [Callers -> {NoResult, "ok", "not_executed", "unknown", "conflict"}]
    BY <1>2, <2>3 DEF AdmitAndClaimDirectDispatch, Return, DispatchTypeOK
  <2>6. holds' \subseteq (Callers \cup Gens) \X Requests
    BY <1>2, <2>1 DEF AdmitAndClaimDirectDispatch, DispatchTypeOK
  <2> QED
    BY <1>2, <2>2, <2>4, <2>5, <2>6 DEF AdmitAndClaimDirectDispatch, Link, DispatchTypeOK
<1>3. ASSUME NEW c \in Callers, AdmissionOutcomeUnknown(c) PROVE DispatchTypeOK'
  <2>1. Target(c) \in Requests
    BY DispatchAssumption
  <2>2. row' \in [Requests -> [st : {"none"} \cup Open \cup Terminal,
     res : Results \cup {NoResult}]]
    BY <1>3, <2>1 DEF AdmissionOutcomeUnknown, AdmitRow, DispatchTypeOK
  <2> QED
    BY <1>3, <2>2 DEF AdmissionOutcomeUnknown, Return, Link, DispatchTypeOK
<1>4. ASSUME NEW c \in Callers, AuthorizationDenied(c) PROVE DispatchTypeOK'
  BY <1>4 DEF AuthorizationDenied, Return, Failed, Link, DispatchTypeOK
<1>5. ASSUME NEW c \in Callers, NotSent(c) PROVE DispatchTypeOK'
  <2>1. Target(c) \in Requests
    BY DispatchAssumption
  <2>2. row' \in [Requests -> [st : {"none"} \cup Open \cup Terminal,
     res : Results \cup {NoResult}]]
    BY <1>5, <2>1 DEF NotSent, Completed, DispatchTypeOK
  <2> QED
    BY <1>5, <2>2 DEF NotSent, Return, Link, DispatchTypeOK
<1>6. ASSUME NEW c \in Callers, SendDirect(c) PROVE DispatchTypeOK'
  BY <1>6 DEF SendDirect, Write, DispatchTypeOK
<1>7. ASSUME NEW c \in Callers, OutcomeUnknown(c) PROVE DispatchTypeOK'
  BY <1>7 DEF OutcomeUnknown, Return, Link, DispatchTypeOK
<1>8. ASSUME NEW c \in Callers, WaitResult(c) PROVE DispatchTypeOK'
  BY <1>8 DEF WaitResult, Return, Link, DispatchTypeOK
<1>9. ASSUME NEW c \in Callers, StopWaiting(c) PROVE DispatchTypeOK'
  BY <1>9 DEF StopWaiting, Return, Failed, Link, DispatchTypeOK
<1>10. ASSUME NEW c \in Callers, CallerDies(c) PROVE DispatchTypeOK'
  BY <1>10 DEF CallerDies, Return, Link, DispatchTypeOK
<1>11. ASSUME NEW g \in Gens, PollPending(g) PROVE DispatchTypeOK'
  BY <1>11 DEF PollPending, Pending, Link, DispatchTypeOK
<1>12. ASSUME NEW g \in Gens, RelayStops(g) PROVE DispatchTypeOK'
  BY <1>12 DEF RelayStops, LetGo, DispatchTypeOK
<1>13. ASSUME NEW g \in Gens, NEW q \in Requests, RelayRejects(g, q) PROVE DispatchTypeOK'
  BY <1>13 DEF RelayRejects, Failed, Link, DispatchTypeOK
<1>14. ASSUME NEW g \in Gens, NEW q \in Requests, RelaySends(g, q) PROVE DispatchTypeOK'
  BY <1>14 DEF RelaySends, Write, DispatchTypeOK
<1>15. ASSUME NEW g \in Gens, NEW q \in Requests, RelaySendFails(g, q) PROVE DispatchTypeOK'
  BY <1>15 DEF RelaySendFails, Failed, Write, LetGo, DispatchTypeOK
<1>16. ASSUME NEW g \in Gens, NEW q \in Requests, RelayClosing(g, q) PROVE DispatchTypeOK'
  BY <1>16 DEF RelayClosing, Failed, LetGo, DispatchTypeOK
<1>17. ASSUME NEW q \in Requests, EdgeReceives(q) PROVE DispatchTypeOK'
  BY <1>17 DEF EdgeReceives, Done, DispatchTypeOK
<1>18. ASSUME NEW q \in Requests, EdgeRefuses(q) PROVE DispatchTypeOK'
  BY <1>18 DEF EdgeRefuses, DispatchTypeOK
<1>19. ASSUME NEW q \in Requests, EdgeCompletes(q) PROVE DispatchTypeOK'
  BY <1>19 DEF EdgeCompletes, DispatchTypeOK
<1>20. ASSUME NEW q \in Requests, EdgeAcknowledged(q) PROVE DispatchTypeOK'
  BY <1>20 DEF EdgeAcknowledged, DispatchTypeOK
<1>21. ASSUME NEW q \in Requests, ExpireStale(q) PROVE DispatchTypeOK'
  BY <1>21 DEF ExpireStale, Failed, Link, DispatchTypeOK
<1>22. ASSUME NEW q \in Requests, DeleteStale(q) PROVE DispatchTypeOK'
  BY <1>22 DEF DeleteStale, NoRow, Link, DispatchTypeOK
<1>23. ASSUME NEW m \in toServer, DeliverResult(m) PROVE DispatchTypeOK'
  BY <1>23 DEF DeliverResult, Completed, Accepts, Return, DispatchTypeOK
<1>24. ASSUME NEW m \in toServer, DeliverFails(m) PROVE DispatchTypeOK'
  BY <1>24 DEF DeliverFails, DispatchTypeOK
<1>25. ASSUME Connect PROVE DispatchTypeOK'
  <2>1. toServer' \subseteq Requests \X Reports
    BY <1>25 DEF Connect, Done, DispatchTypeOK
  <2> QED
    BY <1>25, <2>1 DEF Connect, DispatchTypeOK
<1>26. ASSUME Disconnect PROVE DispatchTypeOK'
  BY <1>26 DEF Disconnect, Drop, DispatchTypeOK
<1>27. ASSUME EdgeCrash PROVE DispatchTypeOK'
  BY <1>27 DEF EdgeCrash, Drop, DispatchTypeOK
<1>28. ASSUME EndRun PROVE DispatchTypeOK'
  BY <1>28 DEF EndRun, Link, DispatchTypeOK
<1>29. ASSUME UNCHANGED vars PROVE DispatchTypeOK'
  BY <1>29 DEF vars, DispatchTypeOK
<1> QED
  BY <1>0, <1>1, <1>2, <1>3, <1>4, <1>5, <1>6, <1>7, <1>8, <1>9, <1>10, <1>11, <1>12, <1>13, <1>14,
     <1>15, <1>16, <1>17, <1>18, <1>19, <1>20, <1>21, <1>22, <1>23, <1>24, <1>25, <1>26, <1>27,
     <1>28, <1>29 DEF Next, CallerStep, RelayStep, EdgeStep

-----------------------------------------------------------------------------
\* Who writes what: most steps leave most of the state alone.
LEMMA WhoWrites ==
  ASSUME [Next]_vars
  PROVE  /\ run' = run \/ ~run'
         /\ ran' = ran \/ \E q \in Requests : EdgeReceives(q)
         /\ edge' = edge \/ EdgeCrash
              \/ \E q \in Requests : EdgeReceives(q) \/ EdgeCompletes(q) \/ EdgeAcknowledged(q)
         /\ acks' \subseteq acks \/ \E m \in toServer : DeliverResult(m)
         /\ toServer' \subseteq toServer \/ Connect
              \/ \E q \in Requests : EdgeReceives(q) \/ EdgeRefuses(q) \/ EdgeCompletes(q)
<1> USE DEF Next, CallerStep, RelayStep, EdgeStep, vars, Link, Drop, AdmitDispatch,
            AdmitAndClaimDirectDispatch, AdmissionOutcomeUnknown, AuthorizationDenied, NotSent,
            AdmissionRejected, SendDirect, OutcomeUnknown, WaitResult, StopWaiting, CallerDies,
            PollPending,
            RelayStops, RelayRejects, RelaySends, RelaySendFails, RelayClosing, ExpireStale,
            DeleteStale, DeliverFails, Disconnect, EndRun
<1>1. run' = run \/ ~run'
  BY DEF EdgeReceives, EdgeRefuses, EdgeCompletes, EdgeAcknowledged, DeliverResult, Connect,
     EdgeCrash
<1>2. ran' = ran \/ \E q \in Requests : EdgeReceives(q)
  BY DEF EdgeRefuses, EdgeCompletes, EdgeAcknowledged, DeliverResult, Connect, EdgeCrash
<1>3. edge' = edge \/ EdgeCrash
        \/ \E q \in Requests : EdgeReceives(q) \/ EdgeCompletes(q) \/ EdgeAcknowledged(q)
  BY DEF EdgeRefuses, DeliverResult, Connect
<1>4. acks' \subseteq acks \/ \E m \in toServer : DeliverResult(m)
  BY DEF EdgeReceives, EdgeRefuses, EdgeCompletes, EdgeAcknowledged, Connect, EdgeCrash
<1>5. toServer' \subseteq toServer \/ Connect
        \/ \E q \in Requests : EdgeReceives(q) \/ EdgeRefuses(q) \/ EdgeCompletes(q)
  BY DEF EdgeAcknowledged, DeliverResult, EdgeCrash
<1> QED
  BY <1>1, <1>2, <1>3, <1>4, <1>5

\* A row is written once in each direction: admitted or claimed while unclaimed,
\* closed while open, and deleted after the run.
LEMMA RowMoves ==
  ASSUME DispatchTypeOK, [Next]_vars, NEW r \in Requests
  PROVE  RowMove(r)
<1> USE DispatchAssumption DEF Open, Terminal, NoRow
<1>0. ASSUME NEW c \in Callers, AdmissionRejected(c) PROVE RowMove(r)
  BY <1>0 DEF AdmissionRejected, Return, Link, RowMove, Unclaimed, DispatchTypeOK
<1>1. ASSUME NEW c \in Callers, AdmitDispatch(c) PROVE RowMove(r)
  BY <1>1 DEF AdmitDispatch, Return, Link, NoRow, RowMove, Unclaimed, DispatchTypeOK
<1>2. ASSUME NEW c \in Callers, AdmitAndClaimDirectDispatch(c) PROVE RowMove(r)
  BY <1>2 DEF AdmitAndClaimDirectDispatch, Return, AdmitRow, Link, RowMove, Unclaimed,
     DispatchTypeOK
<1>3. ASSUME NEW c \in Callers, AdmissionOutcomeUnknown(c) PROVE RowMove(r)
  BY <1>3 DEF AdmissionOutcomeUnknown, Return, AdmitRow, Link, RowMove, Unclaimed, DispatchTypeOK
<1>4. ASSUME NEW c \in Callers, AuthorizationDenied(c) PROVE RowMove(r)
  BY <1>4 DEF AuthorizationDenied, Return, Failed, Link, RowMove, Unclaimed, DispatchTypeOK
<1>5. ASSUME NEW c \in Callers, NotSent(c) PROVE RowMove(r)
  BY <1>5 DEF NotSent, Return, Completed, Link, RowMove, Unclaimed, DispatchTypeOK
<1>6. ASSUME NEW c \in Callers, SendDirect(c) PROVE RowMove(r)
  BY <1>6 DEF SendDirect, Write, RowMove, Unclaimed, DispatchTypeOK
<1>7. ASSUME NEW c \in Callers, OutcomeUnknown(c) PROVE RowMove(r)
  BY <1>7 DEF OutcomeUnknown, Return, Link, RowMove, Unclaimed, DispatchTypeOK
<1>8. ASSUME NEW c \in Callers, WaitResult(c) PROVE RowMove(r)
  BY <1>8 DEF WaitResult, Return, Link, RowMove, Unclaimed, DispatchTypeOK
<1>9. ASSUME NEW c \in Callers, StopWaiting(c) PROVE RowMove(r)
  BY <1>9 DEF StopWaiting, Return, Failed, Link, RowMove, Unclaimed, DispatchTypeOK
<1>10. ASSUME NEW c \in Callers, CallerDies(c) PROVE RowMove(r)
  BY <1>10 DEF CallerDies, Return, Link, RowMove, Unclaimed, DispatchTypeOK
<1>11. ASSUME NEW g \in Gens, PollPending(g) PROVE RowMove(r)
  BY <1>11 DEF PollPending, Pending, Link, RowMove, Unclaimed, DispatchTypeOK
<1>12. ASSUME NEW g \in Gens, RelayStops(g) PROVE RowMove(r)
  BY <1>12 DEF RelayStops, LetGo, RowMove, Unclaimed, DispatchTypeOK
<1>13. ASSUME NEW g \in Gens, NEW q \in Requests, RelayRejects(g, q) PROVE RowMove(r)
  BY <1>13 DEF RelayRejects, Failed, Link, RowMove, Unclaimed, DispatchTypeOK
<1>14. ASSUME NEW g \in Gens, NEW q \in Requests, RelaySends(g, q) PROVE RowMove(r)
  BY <1>14 DEF RelaySends, Write, RowMove, Unclaimed, DispatchTypeOK
<1>15. ASSUME NEW g \in Gens, NEW q \in Requests, RelaySendFails(g, q) PROVE RowMove(r)
  BY <1>15 DEF RelaySendFails, Failed, Write, LetGo, RowMove, Unclaimed, DispatchTypeOK
<1>16. ASSUME NEW g \in Gens, NEW q \in Requests, RelayClosing(g, q) PROVE RowMove(r)
  BY <1>16 DEF RelayClosing, Failed, LetGo, RowMove, Unclaimed, DispatchTypeOK
<1>17. ASSUME NEW q \in Requests, EdgeReceives(q) PROVE RowMove(r)
  BY <1>17 DEF EdgeReceives, Done, RowMove, Unclaimed, DispatchTypeOK
<1>18. ASSUME NEW q \in Requests, EdgeRefuses(q) PROVE RowMove(r)
  BY <1>18 DEF EdgeRefuses, RowMove, Unclaimed, DispatchTypeOK
<1>19. ASSUME NEW q \in Requests, EdgeCompletes(q) PROVE RowMove(r)
  BY <1>19 DEF EdgeCompletes, RowMove, Unclaimed, DispatchTypeOK
<1>20. ASSUME NEW q \in Requests, EdgeAcknowledged(q) PROVE RowMove(r)
  BY <1>20 DEF EdgeAcknowledged, RowMove, Unclaimed, DispatchTypeOK
<1>21. ASSUME NEW q \in Requests, ExpireStale(q) PROVE RowMove(r)
  BY <1>21 DEF ExpireStale, Failed, Link, RowMove, Unclaimed, DispatchTypeOK
<1>22. ASSUME NEW q \in Requests, DeleteStale(q) PROVE RowMove(r)
  BY <1>22 DEF DeleteStale, NoRow, Link, RowMove, Unclaimed, DispatchTypeOK
<1>23. ASSUME NEW m \in toServer, DeliverResult(m) PROVE RowMove(r)
  BY <1>23 DEF DeliverResult, Completed, Accepts, Return, RowMove, Unclaimed, DispatchTypeOK
<1>24. ASSUME NEW m \in toServer, DeliverFails(m) PROVE RowMove(r)
  BY <1>24 DEF DeliverFails, RowMove, Unclaimed, DispatchTypeOK
<1>25. ASSUME Connect PROVE RowMove(r)
  BY <1>25 DEF Connect, Done, RowMove, Unclaimed, DispatchTypeOK
<1>26. ASSUME Disconnect PROVE RowMove(r)
  BY <1>26 DEF Disconnect, Drop, RowMove, Unclaimed, DispatchTypeOK
<1>27. ASSUME EdgeCrash PROVE RowMove(r)
  BY <1>27 DEF EdgeCrash, Drop, RowMove, Unclaimed, DispatchTypeOK
<1>28. ASSUME EndRun PROVE RowMove(r)
  BY <1>28 DEF EndRun, Link, RowMove, Unclaimed, DispatchTypeOK
<1>29. ASSUME UNCHANGED vars PROVE RowMove(r)
  BY <1>29 DEF vars, RowMove, Unclaimed, DispatchTypeOK
<1> QED
  BY <1>0, <1>1, <1>2, <1>3, <1>4, <1>5, <1>6, <1>7, <1>8, <1>9, <1>10, <1>11, <1>12, <1>13, <1>14,
     <1>15, <1>16, <1>17, <1>18, <1>19, <1>20, <1>21, <1>22, <1>23, <1>24, <1>25, <1>26, <1>27,
     <1>28, <1>29 DEF Next, CallerStep, RelayStep, EdgeStep


\* Nothing revives a dead request.
LEMMA DeadStays ==
  ASSUME DispatchTypeOK, ClaimedHolds, RightIsSpent, [Next]_vars, NEW r \in Requests, Dead(r)
  PROVE  Dead(r)'
<1> USE DispatchAssumption DEF Open, Terminal
<1>0. ASSUME NEW c \in Callers, AdmissionRejected(c) PROVE Dead(r)'
  BY <1>0 DEF AdmissionRejected, Return, Link, Dead, Free, Unclaimed, ClaimedHolds, DispatchTypeOK
<1>1. ASSUME NEW c \in Callers, AdmitDispatch(c) PROVE Dead(r)'
  BY <1>1 DEF AdmitDispatch, Return, Link, NoRow, Dead, Free, Unclaimed, ClaimedHolds,
     DispatchTypeOK
<1>2. ASSUME NEW c \in Callers, AdmitAndClaimDirectDispatch(c) PROVE Dead(r)'
  BY <1>2 DEF AdmitAndClaimDirectDispatch, Return, AdmitRow, Link, Dead, Free, Unclaimed,
     ClaimedHolds, DispatchTypeOK
<1>3. ASSUME NEW c \in Callers, AdmissionOutcomeUnknown(c) PROVE Dead(r)'
  BY <1>3 DEF AdmissionOutcomeUnknown, Return, AdmitRow, Link, Dead, Free, Unclaimed,
     ClaimedHolds, DispatchTypeOK
<1>4. ASSUME NEW c \in Callers, AuthorizationDenied(c) PROVE Dead(r)'
  BY <1>4 DEF AuthorizationDenied, Return, Failed, Link, Dead, Free, Unclaimed, ClaimedHolds,
     DispatchTypeOK
<1>5. ASSUME NEW c \in Callers, NotSent(c) PROVE Dead(r)'
  BY <1>5 DEF NotSent, Return, Completed, Link, Dead, Free, Unclaimed, ClaimedHolds,
     DispatchTypeOK
<1>6. ASSUME NEW c \in Callers, SendDirect(c) PROVE Dead(r)'
  BY <1>6 DEF SendDirect, Write, Dead, Free, Unclaimed, ClaimedHolds, DispatchTypeOK
<1>7. ASSUME NEW c \in Callers, OutcomeUnknown(c) PROVE Dead(r)'
  BY <1>7 DEF OutcomeUnknown, Return, Link, Dead, Free, Unclaimed, ClaimedHolds, DispatchTypeOK
<1>8. ASSUME NEW c \in Callers, WaitResult(c) PROVE Dead(r)'
  BY <1>8 DEF WaitResult, Return, Link, Dead, Free, Unclaimed, ClaimedHolds, DispatchTypeOK
<1>9. ASSUME NEW c \in Callers, StopWaiting(c) PROVE Dead(r)'
  BY <1>9 DEF StopWaiting, Return, Failed, Link, Dead, Free, Unclaimed, ClaimedHolds,
     DispatchTypeOK
<1>10. ASSUME NEW c \in Callers, CallerDies(c) PROVE Dead(r)'
  BY <1>10 DEF CallerDies, Return, Link, Dead, Free, Unclaimed, ClaimedHolds, DispatchTypeOK
<1>11. ASSUME NEW g \in Gens, PollPending(g) PROVE Dead(r)'
  BY <1>11 DEF PollPending, Pending, Link, Dead, Free, Unclaimed, ClaimedHolds, DispatchTypeOK
<1>12. ASSUME NEW g \in Gens, RelayStops(g) PROVE Dead(r)'
  BY <1>12 DEF RelayStops, LetGo, Dead, Free, Unclaimed, ClaimedHolds, DispatchTypeOK
<1>13. ASSUME NEW g \in Gens, NEW q \in Requests, RelayRejects(g, q) PROVE Dead(r)'
  BY <1>13 DEF RelayRejects, Failed, Link, Dead, Free, Unclaimed, ClaimedHolds, DispatchTypeOK
<1>14. ASSUME NEW g \in Gens, NEW q \in Requests, RelaySends(g, q) PROVE Dead(r)'
  BY <1>14 DEF RelaySends, Write, Dead, Free, Unclaimed, ClaimedHolds, DispatchTypeOK
<1>15. ASSUME NEW g \in Gens, NEW q \in Requests, RelaySendFails(g, q) PROVE Dead(r)'
  BY <1>15 DEF RelaySendFails, Failed, Write, LetGo, Dead, Free, Unclaimed, ClaimedHolds,
     DispatchTypeOK
<1>16. ASSUME NEW g \in Gens, NEW q \in Requests, RelayClosing(g, q) PROVE Dead(r)'
  BY <1>16 DEF RelayClosing, Failed, LetGo, Dead, Free, Unclaimed, ClaimedHolds, DispatchTypeOK
<1>17. ASSUME NEW q \in Requests, EdgeReceives(q) PROVE Dead(r)'
  BY <1>17 DEF EdgeReceives, Done, Dead, Free, Unclaimed, ClaimedHolds, DispatchTypeOK
<1>18. ASSUME NEW q \in Requests, EdgeRefuses(q) PROVE Dead(r)'
  BY <1>18 DEF EdgeRefuses, Dead, Free, Unclaimed, ClaimedHolds, DispatchTypeOK
<1>19. ASSUME NEW q \in Requests, EdgeCompletes(q) PROVE Dead(r)'
  BY <1>19 DEF EdgeCompletes, Dead, Free, Unclaimed, ClaimedHolds, DispatchTypeOK
<1>20. ASSUME NEW q \in Requests, EdgeAcknowledged(q) PROVE Dead(r)'
  BY <1>20 DEF EdgeAcknowledged, Dead, Free, Unclaimed, ClaimedHolds, DispatchTypeOK
<1>21. ASSUME NEW q \in Requests, ExpireStale(q) PROVE Dead(r)'
  BY <1>21 DEF ExpireStale, Failed, Link, Dead, Free, Unclaimed, ClaimedHolds, DispatchTypeOK
<1>22. ASSUME NEW q \in Requests, DeleteStale(q) PROVE Dead(r)'
  BY <1>22 DEF DeleteStale, NoRow, Link, Dead, Free, Unclaimed, ClaimedHolds, DispatchTypeOK
<1>23. ASSUME NEW m \in toServer, DeliverResult(m) PROVE Dead(r)'
  BY <1>23 DEF DeliverResult, Completed, Accepts, Return, Dead, Free, Unclaimed, ClaimedHolds,
     DispatchTypeOK
<1>24. ASSUME NEW m \in toServer, DeliverFails(m) PROVE Dead(r)'
  BY <1>24 DEF DeliverFails, Dead, Free, Unclaimed, ClaimedHolds, DispatchTypeOK
<1>25. ASSUME Connect PROVE Dead(r)'
  BY <1>25 DEF Connect, Done, Dead, Free, Unclaimed, ClaimedHolds, DispatchTypeOK
<1>26. ASSUME Disconnect PROVE Dead(r)'
  BY <1>26 DEF Disconnect, Drop, Dead, Free, Unclaimed, ClaimedHolds, DispatchTypeOK
<1>27. ASSUME EdgeCrash PROVE Dead(r)'
  BY <1>27 DEF EdgeCrash, Drop, Dead, Free, Unclaimed, ClaimedHolds, DispatchTypeOK
<1>28. ASSUME EndRun PROVE Dead(r)'
  BY <1>28 DEF EndRun, Link, Dead, Free, Unclaimed, ClaimedHolds, DispatchTypeOK
<1>29. ASSUME UNCHANGED vars PROVE Dead(r)'
  BY <1>29 DEF vars, Dead, Free, Unclaimed, ClaimedHolds, DispatchTypeOK
<1> QED
  BY <1>0, <1>1, <1>2, <1>3, <1>4, <1>5, <1>6, <1>7, <1>8, <1>9, <1>10, <1>11, <1>12, <1>13, <1>14,
     <1>15, <1>16, <1>17, <1>18, <1>19, <1>20, <1>21, <1>22, <1>23, <1>24, <1>25, <1>26, <1>27,
     <1>28, <1>29 DEF Next, CallerStep, RelayStep, EdgeStep

\* A tool that ran has run for good: its frame is gone.
LEMMA RanStays ==
  ASSUME DispatchTypeOK, RightIsSpent, [Next]_vars, NEW r \in Requests, ran[r] = 1
  PROVE  ran'[r] = 1
<1>1. CASE \E q \in Requests : EdgeReceives(q)
  BY <1>1 DEF EdgeReceives, RightIsSpent, DispatchTypeOK
<1> QED
  BY <1>1, WhoWrites

\* What was true to report stays true: a tool that ran has run, and the journal
\* changes a finished record only by forgetting it.
LEMMA ReportStays ==
  ASSUME DispatchTypeOK, ClaimedHolds, RightIsSpent, [Next]_vars, NEW r \in Requests, NEW v,
     ReportTrue(r, v)
  PROVE  ReportTrue(r, v)'
<1>a. CASE v \in {"refused", "rejected"} /\ Dead(r)
  BY <1>a, DeadStays DEF ReportTrue
<1>b. CASE v \in {"ok", "lost"} /\ ran[r] = 1 /\ edge[r] \in {v, "none"}
  <2> SUFFICES edge'[r] \in {v, "none"}
    BY <1>b, RanStays DEF ReportTrue
  <2>1. CASE EdgeCrash
    BY <2>1, <1>b DEF EdgeCrash, Drop, DispatchTypeOK
  <2>2. CASE \E q \in Requests : EdgeReceives(q) \/ EdgeCompletes(q) \/ EdgeAcknowledged(q)
    BY <2>2, <1>b DEF EdgeReceives, EdgeCompletes, EdgeAcknowledged, RightIsSpent, DispatchTypeOK
  <2> QED
    BY <1>b, <2>1, <2>2, WhoWrites
<1> QED
  BY <1>a, <1>b DEF ReportTrue

-----------------------------------------------------------------------------
LEMMA HoldersStep ==
  ASSUME DispatchTypeOK, OneHolder, ClaimedHolds, RightIsSpent, [Next]_vars
  PROVE  OneHolder' /\ ClaimedHolds'
<1>a. \A c \in Callers, g \in Gens : c # g
  BY DispatchAssumption DEF Gens
<1> USE DispatchAssumption, <1>a DEF Open, Terminal
<1>0. ASSUME NEW c \in Callers, AdmissionRejected(c) PROVE OneHolder' /\ ClaimedHolds'
  BY <1>0 DEF AdmissionRejected, Return, Link, OneHolder, ClaimedHolds, RightIsSpent, Unclaimed,
     Free, DispatchTypeOK
<1>1. ASSUME NEW c \in Callers, AdmitDispatch(c) PROVE OneHolder' /\ ClaimedHolds'
  BY <1>1 DEF AdmitDispatch, Return, Link, NoRow, OneHolder, ClaimedHolds, RightIsSpent,
     Unclaimed, Free, DispatchTypeOK
<1>2. ASSUME NEW c \in Callers, AdmitAndClaimDirectDispatch(c) PROVE OneHolder' /\ ClaimedHolds'
  <2>1. Target(c) \in Requests /\ holds \subseteq (Callers \cup Gens) \X Requests
        /\ caller \in [Callers -> {"idle", "waiting", "claimed", "observing", "sent", "returned"}]
    BY DEF DispatchTypeOK
  <2>2. row[Target(c)].st \in {"none"} \cup Open \cup Terminal
    BY <2>1 DEF DispatchTypeOK
  <2>3. CASE row[Target(c)].st \in Terminal \cup {"dispatched"}
    <3>1. /\ holds' = holds
          /\ \A d \in Callers : caller'[d] = "claimed" => caller[d] = "claimed"
      BY <1>2, <2>1, <2>3 DEF AdmitAndClaimDirectDispatch, Return
    <3> QED
      BY <3>1 DEF OneHolder, ClaimedHolds
  <2>4. CASE row[Target(c)].st \in {"none", "pending"}
    <3>1. /\ holds' = holds \cup {<<c, Target(c)>>} /\ run
          /\ caller' = [caller EXCEPT ![c] = "claimed"]
      BY <1>2, <2>4 DEF AdmitAndClaimDirectDispatch
    <3>2. \A h \in holds : h[2] # Target(c)
      BY <2>1, <2>4, <3>1 DEF RightIsSpent, Unclaimed, Free
    <3>3. OneHolder'
      BY <3>1, <3>2 DEF OneHolder
    <3>4. ClaimedHolds'
      BY <2>1, <3>1 DEF ClaimedHolds
    <3> QED
      BY <3>3, <3>4
  <2> QED
    BY <2>2, <2>3, <2>4
<1>3. ASSUME NEW c \in Callers, AdmissionOutcomeUnknown(c) PROVE OneHolder' /\ ClaimedHolds'
  BY <1>3 DEF AdmissionOutcomeUnknown, Return, AdmitRow, Link, OneHolder, ClaimedHolds,
     RightIsSpent, Unclaimed, Free, DispatchTypeOK
<1>4. ASSUME NEW c \in Callers, AuthorizationDenied(c) PROVE OneHolder' /\ ClaimedHolds'
  BY <1>4 DEF AuthorizationDenied, Return, Failed, Link, OneHolder, ClaimedHolds, RightIsSpent,
     Unclaimed, Free, DispatchTypeOK
<1>5. ASSUME NEW c \in Callers, NotSent(c) PROVE OneHolder' /\ ClaimedHolds'
  BY <1>5 DEF NotSent, Return, Completed, Link, OneHolder, ClaimedHolds, RightIsSpent, Unclaimed,
     Free, DispatchTypeOK
<1>6. ASSUME NEW c \in Callers, SendDirect(c) PROVE OneHolder' /\ ClaimedHolds'
  BY <1>6 DEF SendDirect, Write, OneHolder, ClaimedHolds, RightIsSpent, Unclaimed, Free,
     DispatchTypeOK
<1>7. ASSUME NEW c \in Callers, OutcomeUnknown(c) PROVE OneHolder' /\ ClaimedHolds'
  BY <1>7 DEF OutcomeUnknown, Return, Link, OneHolder, ClaimedHolds, RightIsSpent, Unclaimed,
     Free, DispatchTypeOK
<1>8. ASSUME NEW c \in Callers, WaitResult(c) PROVE OneHolder' /\ ClaimedHolds'
  BY <1>8 DEF WaitResult, Return, Link, OneHolder, ClaimedHolds, RightIsSpent, Unclaimed, Free,
     DispatchTypeOK
<1>9. ASSUME NEW c \in Callers, StopWaiting(c) PROVE OneHolder' /\ ClaimedHolds'
  BY <1>9 DEF StopWaiting, Return, Failed, Link, OneHolder, ClaimedHolds, RightIsSpent, Unclaimed,
     Free, DispatchTypeOK
<1>10. ASSUME NEW c \in Callers, CallerDies(c) PROVE OneHolder' /\ ClaimedHolds'
  BY <1>10 DEF CallerDies, Return, Link, OneHolder, ClaimedHolds, RightIsSpent, Unclaimed, Free,
     DispatchTypeOK
<1>11. ASSUME NEW g \in Gens, PollPending(g) PROVE OneHolder' /\ ClaimedHolds'
  <2>1. /\ holds' \in {holds, holds \cup {<<g, q>> : q \in Pending}} /\ UNCHANGED caller
        /\ holds \subseteq (Callers \cup Gens) \X Requests
    BY <1>11 DEF PollPending, DispatchTypeOK
  <2>2. \A q \in Pending : \A h \in holds : h[2] # q
    BY DEF Pending, RightIsSpent, Unclaimed, Free
  <2>3. OneHolder'
    BY <2>1, <2>2 DEF OneHolder
  <2>4. ClaimedHolds'
    BY <2>1 DEF ClaimedHolds
  <2> QED
    BY <2>3, <2>4
<1>12. ASSUME NEW g \in Gens, RelayStops(g) PROVE OneHolder' /\ ClaimedHolds'
  BY <1>12 DEF RelayStops, LetGo, OneHolder, ClaimedHolds, RightIsSpent, Unclaimed, Free,
     DispatchTypeOK
<1>13. ASSUME NEW g \in Gens, NEW q \in Requests, RelayRejects(g, q)
       PROVE  OneHolder' /\ ClaimedHolds'
  BY <1>13 DEF RelayRejects, Failed, Link, OneHolder, ClaimedHolds, RightIsSpent, Unclaimed, Free,
     DispatchTypeOK
<1>14. ASSUME NEW g \in Gens, NEW q \in Requests, RelaySends(g, q)
       PROVE  OneHolder' /\ ClaimedHolds'
  BY <1>14 DEF RelaySends, Write, OneHolder, ClaimedHolds, RightIsSpent, Unclaimed, Free,
     DispatchTypeOK
<1>15. ASSUME NEW g \in Gens, NEW q \in Requests, RelaySendFails(g, q)
       PROVE  OneHolder' /\ ClaimedHolds'
  BY <1>15 DEF RelaySendFails, Failed, Write, LetGo, OneHolder, ClaimedHolds, RightIsSpent,
     Unclaimed, Free, DispatchTypeOK
<1>16. ASSUME NEW g \in Gens, NEW q \in Requests, RelayClosing(g, q)
       PROVE  OneHolder' /\ ClaimedHolds'
  BY <1>16 DEF RelayClosing, Failed, LetGo, OneHolder, ClaimedHolds, RightIsSpent, Unclaimed,
     Free, DispatchTypeOK
<1>17. ASSUME NEW q \in Requests, EdgeReceives(q) PROVE OneHolder' /\ ClaimedHolds'
  BY <1>17 DEF EdgeReceives, Done, OneHolder, ClaimedHolds, RightIsSpent, Unclaimed, Free,
     DispatchTypeOK
<1>18. ASSUME NEW q \in Requests, EdgeRefuses(q) PROVE OneHolder' /\ ClaimedHolds'
  BY <1>18 DEF EdgeRefuses, OneHolder, ClaimedHolds, RightIsSpent, Unclaimed, Free, DispatchTypeOK
<1>19. ASSUME NEW q \in Requests, EdgeCompletes(q) PROVE OneHolder' /\ ClaimedHolds'
  BY <1>19 DEF EdgeCompletes, OneHolder, ClaimedHolds, RightIsSpent, Unclaimed, Free,
     DispatchTypeOK
<1>20. ASSUME NEW q \in Requests, EdgeAcknowledged(q) PROVE OneHolder' /\ ClaimedHolds'
  BY <1>20 DEF EdgeAcknowledged, OneHolder, ClaimedHolds, RightIsSpent, Unclaimed, Free,
     DispatchTypeOK
<1>21. ASSUME NEW q \in Requests, ExpireStale(q) PROVE OneHolder' /\ ClaimedHolds'
  BY <1>21 DEF ExpireStale, Failed, Link, OneHolder, ClaimedHolds, RightIsSpent, Unclaimed, Free,
     DispatchTypeOK
<1>22. ASSUME NEW q \in Requests, DeleteStale(q) PROVE OneHolder' /\ ClaimedHolds'
  BY <1>22 DEF DeleteStale, NoRow, Link, OneHolder, ClaimedHolds, RightIsSpent, Unclaimed, Free,
     DispatchTypeOK
<1>23. ASSUME NEW m \in toServer, DeliverResult(m) PROVE OneHolder' /\ ClaimedHolds'
  BY <1>23 DEF DeliverResult, Completed, Accepts, Return, OneHolder, ClaimedHolds, RightIsSpent,
     Unclaimed, Free, DispatchTypeOK
<1>24. ASSUME NEW m \in toServer, DeliverFails(m) PROVE OneHolder' /\ ClaimedHolds'
  BY <1>24 DEF DeliverFails, OneHolder, ClaimedHolds, RightIsSpent, Unclaimed, Free,
     DispatchTypeOK
<1>25. ASSUME Connect PROVE OneHolder' /\ ClaimedHolds'
  BY <1>25 DEF Connect, Done, OneHolder, ClaimedHolds, RightIsSpent, Unclaimed, Free,
     DispatchTypeOK
<1>26. ASSUME Disconnect PROVE OneHolder' /\ ClaimedHolds'
  BY <1>26 DEF Disconnect, Drop, OneHolder, ClaimedHolds, RightIsSpent, Unclaimed, Free,
     DispatchTypeOK
<1>27. ASSUME EdgeCrash PROVE OneHolder' /\ ClaimedHolds'
  BY <1>27 DEF EdgeCrash, Drop, OneHolder, ClaimedHolds, RightIsSpent, Unclaimed, Free,
     DispatchTypeOK
<1>28. ASSUME EndRun PROVE OneHolder' /\ ClaimedHolds'
  BY <1>28 DEF EndRun, Link, OneHolder, ClaimedHolds, RightIsSpent, Unclaimed, Free,
     DispatchTypeOK
<1>29. ASSUME UNCHANGED vars PROVE OneHolder' /\ ClaimedHolds'
  BY <1>29 DEF vars, OneHolder, ClaimedHolds, RightIsSpent, Unclaimed, Free, DispatchTypeOK
<1> QED
  BY <1>0, <1>1, <1>2, <1>3, <1>4, <1>5, <1>6, <1>7, <1>8, <1>9, <1>10, <1>11, <1>12, <1>13, <1>14,
     <1>15, <1>16, <1>17, <1>18, <1>19, <1>20, <1>21, <1>22, <1>23, <1>24, <1>25, <1>26, <1>27,
     <1>28, <1>29 DEF Next, CallerStep, RelayStep, EdgeStep

LEMMA RightStep ==
  ASSUME DispatchTypeOK, OneHolder, ClaimedHolds, RightIsSpent, [Next]_vars
  PROVE  RightIsSpent'
<1> USE DispatchAssumption DEF Open, Terminal
<1>0. ASSUME NEW c \in Callers, AdmissionRejected(c) PROVE RightIsSpent'
  BY <1>0 DEF AdmissionRejected, Return, Link, OneHolder, ClaimedHolds, RightIsSpent, Unclaimed,
     Free, DispatchTypeOK
<1>1. ASSUME NEW c \in Callers, AdmitDispatch(c) PROVE RightIsSpent'
  BY <1>1 DEF AdmitDispatch, Return, Link, NoRow, OneHolder, ClaimedHolds, RightIsSpent,
     Unclaimed, Free, DispatchTypeOK
<1>2. ASSUME NEW c \in Callers, AdmitAndClaimDirectDispatch(c) PROVE RightIsSpent'
  BY <1>2 DEF AdmitAndClaimDirectDispatch, Return, AdmitRow, Link, OneHolder, ClaimedHolds,
     RightIsSpent, Unclaimed, Free, DispatchTypeOK
<1>3. ASSUME NEW c \in Callers, AdmissionOutcomeUnknown(c) PROVE RightIsSpent'
  BY <1>3 DEF AdmissionOutcomeUnknown, Return, AdmitRow, Link, OneHolder, ClaimedHolds,
     RightIsSpent, Unclaimed, Free, DispatchTypeOK
<1>4. ASSUME NEW c \in Callers, AuthorizationDenied(c) PROVE RightIsSpent'
  BY <1>4 DEF AuthorizationDenied, Return, Failed, Link, OneHolder, ClaimedHolds, RightIsSpent,
     Unclaimed, Free, DispatchTypeOK
<1>5. ASSUME NEW c \in Callers, NotSent(c) PROVE RightIsSpent'
  BY <1>5 DEF NotSent, Return, Completed, Link, OneHolder, ClaimedHolds, RightIsSpent, Unclaimed,
     Free, DispatchTypeOK
<1>6. ASSUME NEW c \in Callers, SendDirect(c) PROVE RightIsSpent'
  <2>1. Target(c) \in Requests /\ <<c, Target(c)>> \in holds
    BY <1>6 DEF SendDirect, ClaimedHolds
  <2>2. sent[Target(c)] = 0 /\ ~Unclaimed(Target(c))
    BY <2>1 DEF RightIsSpent, Free
  <2>3. \A h \in holds' : h \in holds /\ h[2] # Target(c)
    BY <1>6, <2>1 DEF SendDirect, OneHolder
  <2>4. sent' = [sent EXCEPT ![Target(c)] = 1]
    BY <1>6, <2>1, <2>2 DEF SendDirect, Write, DispatchTypeOK
  <2>5. \A r \in Requests : r # Target(c) => (Free(r) <=> Free(r)')
    BY <1>6 DEF SendDirect, Free
  <2>6. toEdge' \subseteq toEdge \cup {Target(c)}
    BY <1>6 DEF SendDirect, Write
  <2> QED
    BY <1>6, <2>1, <2>2, <2>3, <2>4, <2>5, <2>6 DEF SendDirect, RightIsSpent, Unclaimed, Free,
       DispatchTypeOK
<1>7. ASSUME NEW c \in Callers, OutcomeUnknown(c) PROVE RightIsSpent'
  BY <1>7 DEF OutcomeUnknown, Return, Link, OneHolder, ClaimedHolds, RightIsSpent, Unclaimed,
     Free, DispatchTypeOK
<1>8. ASSUME NEW c \in Callers, WaitResult(c) PROVE RightIsSpent'
  BY <1>8 DEF WaitResult, Return, Link, OneHolder, ClaimedHolds, RightIsSpent, Unclaimed, Free,
     DispatchTypeOK
<1>9. ASSUME NEW c \in Callers, StopWaiting(c) PROVE RightIsSpent'
  BY <1>9 DEF StopWaiting, Return, Failed, Link, OneHolder, ClaimedHolds, RightIsSpent, Unclaimed,
     Free, DispatchTypeOK
<1>10. ASSUME NEW c \in Callers, CallerDies(c) PROVE RightIsSpent'
  BY <1>10 DEF CallerDies, Return, Link, OneHolder, ClaimedHolds, RightIsSpent, Unclaimed, Free,
     DispatchTypeOK
<1>11. ASSUME NEW g \in Gens, PollPending(g) PROVE RightIsSpent'
  BY <1>11 DEF PollPending, Pending, Link, OneHolder, ClaimedHolds, RightIsSpent, Unclaimed, Free,
     DispatchTypeOK
<1>12. ASSUME NEW g \in Gens, RelayStops(g) PROVE RightIsSpent'
  BY <1>12 DEF RelayStops, LetGo, OneHolder, ClaimedHolds, RightIsSpent, Unclaimed, Free,
     DispatchTypeOK
<1>13. ASSUME NEW g \in Gens, NEW q \in Requests, RelayRejects(g, q) PROVE RightIsSpent'
  BY <1>13 DEF RelayRejects, Failed, Link, OneHolder, ClaimedHolds, RightIsSpent, Unclaimed, Free,
     DispatchTypeOK
<1>14. ASSUME NEW g \in Gens, NEW q \in Requests, RelaySends(g, q) PROVE RightIsSpent'
  BY <1>14 DEF RelaySends, Write, OneHolder, ClaimedHolds, RightIsSpent, Unclaimed, Free,
     DispatchTypeOK
<1>15. ASSUME NEW g \in Gens, NEW q \in Requests, RelaySendFails(g, q) PROVE RightIsSpent'
  BY <1>15 DEF RelaySendFails, Failed, Write, LetGo, OneHolder, ClaimedHolds, RightIsSpent,
     Unclaimed, Free, DispatchTypeOK
<1>16. ASSUME NEW g \in Gens, NEW q \in Requests, RelayClosing(g, q) PROVE RightIsSpent'
  BY <1>16 DEF RelayClosing, Failed, LetGo, OneHolder, ClaimedHolds, RightIsSpent, Unclaimed,
     Free, DispatchTypeOK
<1>17. ASSUME NEW q \in Requests, EdgeReceives(q) PROVE RightIsSpent'
  BY <1>17 DEF EdgeReceives, Done, OneHolder, ClaimedHolds, RightIsSpent, Unclaimed, Free,
     DispatchTypeOK
<1>18. ASSUME NEW q \in Requests, EdgeRefuses(q) PROVE RightIsSpent'
  BY <1>18 DEF EdgeRefuses, OneHolder, ClaimedHolds, RightIsSpent, Unclaimed, Free, DispatchTypeOK
<1>19. ASSUME NEW q \in Requests, EdgeCompletes(q) PROVE RightIsSpent'
  BY <1>19 DEF EdgeCompletes, OneHolder, ClaimedHolds, RightIsSpent, Unclaimed, Free,
     DispatchTypeOK
<1>20. ASSUME NEW q \in Requests, EdgeAcknowledged(q) PROVE RightIsSpent'
  BY <1>20 DEF EdgeAcknowledged, OneHolder, ClaimedHolds, RightIsSpent, Unclaimed, Free,
     DispatchTypeOK
<1>21. ASSUME NEW q \in Requests, ExpireStale(q) PROVE RightIsSpent'
  BY <1>21 DEF ExpireStale, Failed, Link, OneHolder, ClaimedHolds, RightIsSpent, Unclaimed, Free,
     DispatchTypeOK
<1>22. ASSUME NEW q \in Requests, DeleteStale(q) PROVE RightIsSpent'
  BY <1>22 DEF DeleteStale, NoRow, Link, OneHolder, ClaimedHolds, RightIsSpent, Unclaimed, Free,
     DispatchTypeOK
<1>23. ASSUME NEW m \in toServer, DeliverResult(m) PROVE RightIsSpent'
  BY <1>23 DEF DeliverResult, Completed, Accepts, Return, OneHolder, ClaimedHolds, RightIsSpent,
     Unclaimed, Free, DispatchTypeOK
<1>24. ASSUME NEW m \in toServer, DeliverFails(m) PROVE RightIsSpent'
  BY <1>24 DEF DeliverFails, OneHolder, ClaimedHolds, RightIsSpent, Unclaimed, Free,
     DispatchTypeOK
<1>25. ASSUME Connect PROVE RightIsSpent'
  BY <1>25 DEF Connect, Done, OneHolder, ClaimedHolds, RightIsSpent, Unclaimed, Free,
     DispatchTypeOK
<1>26. ASSUME Disconnect PROVE RightIsSpent'
  BY <1>26 DEF Disconnect, Drop, OneHolder, ClaimedHolds, RightIsSpent, Unclaimed, Free,
     DispatchTypeOK
<1>27. ASSUME EdgeCrash PROVE RightIsSpent'
  BY <1>27 DEF EdgeCrash, Drop, OneHolder, ClaimedHolds, RightIsSpent, Unclaimed, Free,
     DispatchTypeOK
<1>28. ASSUME EndRun PROVE RightIsSpent'
  BY <1>28 DEF EndRun, Link, OneHolder, ClaimedHolds, RightIsSpent, Unclaimed, Free,
     DispatchTypeOK
<1>29. ASSUME UNCHANGED vars PROVE RightIsSpent'
  BY <1>29 DEF vars, OneHolder, ClaimedHolds, RightIsSpent, Unclaimed, Free, DispatchTypeOK
<1> QED
  BY <1>0, <1>1, <1>2, <1>3, <1>4, <1>5, <1>6, <1>7, <1>8, <1>9, <1>10, <1>11, <1>12, <1>13, <1>14,
     <1>15, <1>16, <1>17, <1>18, <1>19, <1>20, <1>21, <1>22, <1>23, <1>24, <1>25, <1>26, <1>27,
     <1>28, <1>29 DEF Next, CallerStep, RelayStep, EdgeStep

\* A claim given up before the send leaves a dead request behind.
LEMMA RelinquishedIsDead ==
  ASSUME DispatchTypeOK, OneHolder, ClaimedHolds, RightIsSpent, NEW c \in Callers,
         NotSent(c) \/ AuthorizationDenied(c)
  PROVE  Dead(Target(c))'
<1>1. Target(c) \in Requests /\ <<c, Target(c)>> \in holds
  BY DispatchAssumption DEF NotSent, AuthorizationDenied, ClaimedHolds
<1>2. ran[Target(c)] = 0 /\ Target(c) \notin toEdge /\ ~Unclaimed(Target(c))
  BY <1>1 DEF RightIsSpent, Free, DispatchTypeOK
<1>3. Free(Target(c))'
  BY <1>1 DEF NotSent, AuthorizationDenied, OneHolder, Free
<1>4. ~Unclaimed(Target(c))'
  BY <1>1, <1>2 DEF NotSent, AuthorizationDenied, Completed, Failed, Unclaimed, Link,
     DispatchTypeOK
<1> QED
  BY <1>2, <1>3, <1>4 DEF NotSent, AuthorizationDenied, Dead, Link

\* Result frames: what the edge puts on the wire is true.
LEMMA FramesStep ==
  ASSUME DispatchTypeOK, RightIsSpent, [Next]_vars
  PROVE  \A m \in toServer' : m \in toServer \/ ReportTrue(m[1], m[2])'
<1>1. CASE Connect
  BY <1>1 DEF Connect, Done, ReportTrue, RightIsSpent, DispatchTypeOK
<1>2. CASE \E q \in Requests : EdgeReceives(q)
  BY <1>2 DEF EdgeReceives, Done, ReportTrue, RightIsSpent, DispatchTypeOK
<1>3. ASSUME NEW q \in Requests, EdgeRefuses(q)
      PROVE  \A m \in toServer' : m \in toServer \/ ReportTrue(m[1], m[2])'
  <2>1. ran[q] = 0 /\ Free(q) /\ ~Unclaimed(q)
    BY <1>3 DEF EdgeRefuses, RightIsSpent
  <2>2. Dead(q)'
    BY <1>3, <2>1 DEF EdgeRefuses, Dead, Free, Unclaimed
  <2> QED
    BY <1>3, <2>2 DEF EdgeRefuses, ReportTrue
<1>4. CASE \E q \in Requests : EdgeCompletes(q)
  BY <1>4 DEF EdgeCompletes, ReportTrue, RightIsSpent, DispatchTypeOK
<1> QED
  BY <1>1, <1>2, <1>3, <1>4, WhoWrites

LEMMA ReportsStep ==
  ASSUME DispatchTypeOK, OneHolder, ClaimedHolds, RightIsSpent, ReportsAreTrue, [Next]_vars
  PROVE  ReportsAreTrue'
<1>1. \A r \in Requests : \A v : ReportTrue(r, v) => ReportTrue(r, v)'
  BY ReportStays
<1>2. \A m \in toServer' : ReportTrue(m[1], m[2])'
  BY <1>1, FramesStep DEF ReportsAreTrue, DispatchTypeOK
<1>3. ASSUME NEW r \in Requests PROVE RowIsTrue(r)'
  <2>1. CASE row'[r] = row[r]
    BY <2>1, <1>1 DEF ReportsAreTrue, RowIsTrue
  <2>2. CASE Unclaimed(r) /\ row'[r].st \in Open /\ row'[r].res \in {NoResult, row[r].res}
    BY <2>2 DEF ReportsAreTrue, RowIsTrue, Unclaimed, Open
  <2>3. ASSUME NEW c \in Callers, NotSent(c), r = Target(c), row'[r] = [st |-> "completed",
     res |-> "rejected"]
        PROVE  RowIsTrue(r)'
    BY <2>3, RelinquishedIsDead DEF RowIsTrue, ReportTrue
  <2>4. ASSUME NEW m \in toServer, r = m[1], row'[r] = [st |-> "completed", res |-> m[2]]
        PROVE  RowIsTrue(r)'
    BY <2>4, <1>1 DEF ReportsAreTrue, RowIsTrue
  <2>5. CASE row'[r] \in {[st |-> "failed", res |-> "failed"], NoRow}
    BY <2>5 DEF RowIsTrue, NoRow
  <2> QED
    BY <2>1, <2>2, <2>3, <2>4, <2>5, RowMoves DEF RowMove
<1> QED
  BY <1>2, <1>3 DEF ReportsAreTrue

LEMMA AcksStep ==
  ASSUME DispatchTypeOK, AcksAreStored, [Next]_vars
  PROVE  AcksAreStored'
<1> SUFFICES ASSUME NEW r \in acks' PROVE AcksAreStored!(r)'
  BY DEF AcksAreStored
<1>1. CASE r \in acks
  <2>1. r \in Requests
    BY <1>1 DEF DispatchTypeOK
  <2> QED
    BY <1>1, <2>1, RowMoves, WhoWrites DEF AcksAreStored, RowMove, Unclaimed, Open, Terminal,
       NoRow
<1>2. CASE \E m \in toServer : DeliverResult(m) /\ r \notin acks
  BY <1>2 DEF DeliverResult, Accepts, Completed, DispatchTypeOK
<1> QED
  BY <1>1, <1>2, WhoWrites

\* What a caller was told stays true.
LEMMA AnswerStays ==
  ASSUME DispatchTypeOK, ClaimedHolds, RightIsSpent, [Next]_vars, NEW d \in Callers,
     AnswerTrue(d),
         answer'[d] = answer[d]
  PROVE  AnswerTrue(d)'
<1>1. Target(d) \in Requests
  BY DispatchAssumption
<1>2. answer[d] = "not_executed" => Dead(Target(d))'
  BY <1>1, DeadStays DEF AnswerTrue
<1>3. CASE answer[d] = "ok"
  <2>1. ran'[Target(d)] = 1
    BY <1>1, <1>3, RanStays DEF AnswerTrue
  <2>2. \/ row'[Target(d)] = [st |-> "completed", res |-> "ok"]
        \/ row'[Target(d)] = NoRow /\ ~run'
    BY <1>1, <1>3, RowMoves, WhoWrites DEF AnswerTrue, RowMove, Unclaimed, Open, NoRow
  <2> QED
    BY <2>1, <2>2, <1>3 DEF AnswerTrue
<1> QED
  BY <1>2, <1>3 DEF AnswerTrue

\* What a caller reads from a row is true.
LEMMA RowAnswerIsTrue ==
  ASSUME DispatchTypeOK, ClaimedHolds, RightIsSpent, ReportsAreTrue, [Next]_vars,
     NEW c \in Callers,
         answer'[c] = Decode(row[Target(c)].res), row' = row
  PROVE  AnswerTrue(c)'
<1>1. Target(c) \in Requests
  BY DispatchAssumption
<1>2. RowIsTrue(Target(c))
  BY <1>1 DEF ReportsAreTrue
<1>3. CASE row[Target(c)].st = "completed"
  <2>1. row[Target(c)] = [st |-> "completed", res |-> row[Target(c)].res]
    BY <1>1, <1>3 DEF DispatchTypeOK
  <2>2. ReportTrue(Target(c), row[Target(c)].res)'
    BY <1>1, <1>2, <1>3, ReportStays DEF RowIsTrue, Open
  <2> QED
    BY <2>1, <2>2 DEF Decode, AnswerTrue, ReportTrue
<1>4. CASE row[Target(c)].st # "completed"
  BY <1>2, <1>4 DEF Decode, NoResult, AnswerTrue, RowIsTrue
<1> QED
  BY <1>3, <1>4

LEMMA AnswersStep ==
  ASSUME DispatchTypeOK, OneHolder, ClaimedHolds, RightIsSpent, ReportsAreTrue, AnswersAreFinal,
         [Next]_vars
  PROVE  AnswersAreFinal'
<1> DEFINE Kept == \A d \in Callers : answer'[d] = answer[d] \/ AnswerTrue(d)'
<1>a. Kept
  <2> USE DispatchAssumption
  <2>0. ASSUME NEW c \in Callers, AdmissionRejected(c) PROVE Kept
    BY <2>0 DEF AdmissionRejected, Return, Link, AnswerTrue, DispatchTypeOK
<2>1. ASSUME NEW c \in Callers, AdmitDispatch(c) PROVE Kept
    BY <2>1, RowAnswerIsTrue DEF AdmitDispatch, Return, DispatchTypeOK
  <2>2. ASSUME NEW c \in Callers, AdmitAndClaimDirectDispatch(c) PROVE Kept
    BY <2>2, RowAnswerIsTrue DEF AdmitAndClaimDirectDispatch, Return, DispatchTypeOK
  <2>3. ASSUME NEW c \in Callers, AdmissionOutcomeUnknown(c) PROVE Kept
    BY <2>3 DEF AdmissionOutcomeUnknown, Return, AdmitRow, Link, AnswerTrue, DispatchTypeOK
  <2>4. ASSUME NEW c \in Callers, AuthorizationDenied(c) PROVE Kept
    BY <2>4, RelinquishedIsDead DEF AuthorizationDenied, Return, AnswerTrue, DispatchTypeOK
  <2>5. ASSUME NEW c \in Callers, NotSent(c) PROVE Kept
    BY <2>5, RelinquishedIsDead DEF NotSent, Return, AnswerTrue, DispatchTypeOK
  <2>6. ASSUME NEW c \in Callers, SendDirect(c) PROVE Kept
    BY <2>6 DEF SendDirect, Write, AnswerTrue, DispatchTypeOK
  <2>7. ASSUME NEW c \in Callers, OutcomeUnknown(c) PROVE Kept
    BY <2>7 DEF OutcomeUnknown, Return, Link, AnswerTrue, DispatchTypeOK
  <2>8. ASSUME NEW c \in Callers, WaitResult(c) PROVE Kept
    BY <2>8, RowAnswerIsTrue DEF WaitResult, Return, DispatchTypeOK
  <2>9. ASSUME NEW c \in Callers, StopWaiting(c) PROVE Kept
    BY <2>9 DEF StopWaiting, Return, Failed, Link, AnswerTrue, DispatchTypeOK
  <2>10. ASSUME NEW c \in Callers, CallerDies(c) PROVE Kept
    BY <2>10 DEF CallerDies, Return, Link, AnswerTrue, DispatchTypeOK
  <2>11. ASSUME NEW g \in Gens, PollPending(g) PROVE Kept
    BY <2>11 DEF PollPending, Pending, Link, AnswerTrue, DispatchTypeOK
  <2>12. ASSUME NEW g \in Gens, RelayStops(g) PROVE Kept
    BY <2>12 DEF RelayStops, LetGo, AnswerTrue, DispatchTypeOK
  <2>13. ASSUME NEW g \in Gens, NEW q \in Requests, RelayRejects(g, q) PROVE Kept
    BY <2>13 DEF RelayRejects, Failed, Link, AnswerTrue, DispatchTypeOK
  <2>14. ASSUME NEW g \in Gens, NEW q \in Requests, RelaySends(g, q) PROVE Kept
    BY <2>14 DEF RelaySends, Write, AnswerTrue, DispatchTypeOK
  <2>15. ASSUME NEW g \in Gens, NEW q \in Requests, RelaySendFails(g, q) PROVE Kept
    BY <2>15 DEF RelaySendFails, Failed, Write, LetGo, AnswerTrue, DispatchTypeOK
  <2>16. ASSUME NEW g \in Gens, NEW q \in Requests, RelayClosing(g, q) PROVE Kept
    BY <2>16 DEF RelayClosing, Failed, LetGo, AnswerTrue, DispatchTypeOK
  <2>17. ASSUME NEW q \in Requests, EdgeReceives(q) PROVE Kept
    BY <2>17 DEF EdgeReceives, Done, AnswerTrue, DispatchTypeOK
  <2>18. ASSUME NEW q \in Requests, EdgeRefuses(q) PROVE Kept
    BY <2>18 DEF EdgeRefuses, AnswerTrue, DispatchTypeOK
  <2>19. ASSUME NEW q \in Requests, EdgeCompletes(q) PROVE Kept
    BY <2>19 DEF EdgeCompletes, AnswerTrue, DispatchTypeOK
  <2>20. ASSUME NEW q \in Requests, EdgeAcknowledged(q) PROVE Kept
    BY <2>20 DEF EdgeAcknowledged, AnswerTrue, DispatchTypeOK
  <2>21. ASSUME NEW q \in Requests, ExpireStale(q) PROVE Kept
    BY <2>21 DEF ExpireStale, Failed, Link, AnswerTrue, DispatchTypeOK
  <2>22. ASSUME NEW q \in Requests, DeleteStale(q) PROVE Kept
    BY <2>22 DEF DeleteStale, NoRow, Link, AnswerTrue, DispatchTypeOK
  <2>23. ASSUME NEW m \in toServer, DeliverResult(m) PROVE Kept
    <3>1. m[1] \in Requests /\ ReportTrue(m[1], m[2])'
      BY ReportStays DEF ReportsAreTrue, DispatchTypeOK
    <3>2. Accepts(m[1], m[2]) => row'[m[1]] = [st |-> "completed", res |-> m[2]]
      BY <2>23, <3>1 DEF DeliverResult, Completed, Accepts, DispatchTypeOK
    <3> QED
      BY <2>23, <3>1, <3>2 DEF DeliverResult, Return, Decode, AnswerTrue, ReportTrue,
         DispatchTypeOK
  <2>24. ASSUME NEW m \in toServer, DeliverFails(m) PROVE Kept
    BY <2>24 DEF DeliverFails, AnswerTrue, DispatchTypeOK
  <2>25. ASSUME Connect PROVE Kept
    BY <2>25 DEF Connect, Done, AnswerTrue, DispatchTypeOK
  <2>26. ASSUME Disconnect PROVE Kept
    BY <2>26 DEF Disconnect, Drop, AnswerTrue, DispatchTypeOK
  <2>27. ASSUME EdgeCrash PROVE Kept
    BY <2>27 DEF EdgeCrash, Drop, AnswerTrue, DispatchTypeOK
  <2>28. ASSUME EndRun PROVE Kept
    BY <2>28 DEF EndRun, Link, AnswerTrue, DispatchTypeOK
  <2>29. ASSUME UNCHANGED vars PROVE Kept
    BY <2>29 DEF vars, AnswerTrue, DispatchTypeOK
  <2> QED
    BY <2>0, <2>1, <2>2, <2>3, <2>4, <2>5, <2>6, <2>7, <2>8, <2>9, <2>10, <2>11, <2>12, <2>13,
       <2>14,
       <2>15, <2>16, <2>17, <2>18, <2>19, <2>20, <2>21, <2>22, <2>23, <2>24, <2>25, <2>26, <2>27,
       <2>28, <2>29 DEF Next, CallerStep, RelayStep, EdgeStep
<1> QED
  BY <1>a, AnswerStays DEF AnswersAreFinal

-----------------------------------------------------------------------------
(* The theorems *)

LEMMA DispatchInvInit == Init => DispatchInv
<1> SUFFICES ASSUME Init PROVE DispatchInv
  OBVIOUS
<1>1. OneHolder /\ ClaimedHolds
  BY DEF Init, OneHolder, ClaimedHolds
<1>2. RightIsSpent
  BY DEF Init, RightIsSpent, Unclaimed, Free
<1>3. ReportsAreTrue
  BY DEF Init, ReportsAreTrue, RowIsTrue, NoRow, NoResult
<1>4. AcksAreStored
  BY DEF Init, AcksAreStored
<1>5. AnswersAreFinal
  BY DEF Init, AnswersAreFinal, AnswerTrue, NoResult
<1> QED
  BY <1>1, <1>2, <1>3, <1>4, <1>5, DispatchTypeInit DEF DispatchInv

LEMMA DispatchInvStep == DispatchInv /\ [Next]_vars => DispatchInv'
BY DispatchTypeStep, HoldersStep, RightStep, ReportsStep, AcksStep, AnswersStep DEF DispatchInv

LEMMA DispatchInvariant == Spec => []DispatchInv
<1>1. DispatchInv /\ UNCHANGED vars => DispatchInv'
  BY DispatchInvStep
<1> QED
  BY DispatchInvInit, DispatchInvStep, PTL DEF Spec

\* poll_pending, admit_and_claim_direct_dispatch, the relay and try_edge_websocket:
\* however claims, commits, sends and connections fail, an invocation is put on a
\* socket at most once and run at most once.
THEOREM AtMostOneDispatch == Spec => []DispatchedAtMostOnce
<1>1. DispatchInv => DispatchedAtMostOnce
  BY DEF DispatchInv, RightIsSpent, DispatchedAtMostOnce
<1> QED
  BY <1>1, DispatchInvariant, PTL

\* delivered_dispatch_result and the receipts of non-delivery: "not executed" is
\* only said of a tool that has not run and never will, success only of one that ran.
THEOREM TrueAnswers == Spec => []AnswersAreTrue
<1>1. DispatchInv => AnswersAreTrue
  BY DispatchAssumption DEF DispatchInv, AnswersAreFinal, AnswerTrue, Dead, Free, Unclaimed,
     AnswersAreTrue
<1> QED
  BY <1>1, DispatchInvariant, PTL

\* deliver_result, fail_dispatch and cleanup_stale: no late failure, expiry or second
\* result replaces the success that a caller was given.
THEOREM DurableSuccess == Spec => []SuccessIsDurable
<1>1. DispatchInv => SuccessIsDurable
  BY DEF DispatchInv, AnswersAreFinal, AnswerTrue, SuccessIsDurable
<1> QED
  BY <1>1, DispatchInvariant, PTL

\* The acknowledgement of edge_ws_handler.rs: the edge forgets a result only when
\* the server holds that result, or has deleted its row with the run.
THEOREM ForgettingIsSafe == Spec => ForgetsOnlyStored
<1> DEFINE Forgets(r) == edge[r] # "none" /\ edge'[r] = "none"
           Stored(r)  == row[r] \in {[st |-> "completed",
              res |-> edge[r]]} \cup (IF run THEN {} ELSE {NoRow})
<1>1. ASSUME DispatchInv, [Next]_vars, NEW r \in Requests, Forgets(r) PROVE Stored(r)
  <2>1. r \in acks /\ edge[r] # "running"
    <3>1. DispatchTypeOK
      BY <1>1 DEF DispatchInv
    <3>2. CASE EdgeCrash
      BY <1>1, <3>1, <3>2 DEF EdgeCrash, Drop, DispatchTypeOK
    <3>3. CASE \E q \in Requests : EdgeReceives(q) \/ EdgeCompletes(q) \/ EdgeAcknowledged(q)
      BY <1>1, <3>1, <3>3 DEF EdgeReceives, EdgeCompletes, EdgeAcknowledged, DispatchTypeOK
    <3> QED
      BY <1>1, <3>2, <3>3, WhoWrites
  <2>2. row[r].st = "completed" \/ (row[r].st = "none" /\ ~run)
    BY <2>1, <1>1 DEF DispatchInv, AcksAreStored
  <2>3. RowIsTrue(r)
    BY <1>1 DEF DispatchInv, ReportsAreTrue
  <2>4. ran[r] = 1
    BY <1>1 DEF DispatchInv, RightIsSpent
  <2>5. row[r] = [st |-> row[r].st, res |-> row[r].res]
    BY <1>1 DEF DispatchInv, DispatchTypeOK
  <2>6. CASE row[r].st = "completed"
    <3>1. row[r].res = edge[r]
      BY <2>3, <2>4, <2>6, <1>1 DEF RowIsTrue, ReportTrue, Dead, Open
    <3> QED
      BY <3>1, <2>5, <2>6
  <2>7. CASE row[r].st = "none" /\ ~run
    BY <2>3, <2>5, <2>7 DEF RowIsTrue, NoRow
  <2> QED
    BY <2>2, <2>6, <2>7
<1>2. DispatchInv /\ [Next]_vars => [\A r \in Requests : Forgets(r) => Stored(r)]_vars
  BY <1>1
<1> QED
  BY <1>2, DispatchInvariant, PTL DEF Spec, ForgetsOnlyStored

=============================================================================
