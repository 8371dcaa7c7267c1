---------------------------- MODULE EdgeDispatch ----------------------------
(***************************************************************************)
(* The durable queue of tool invocations for one edge agent, table          *)
(* edge_pending_dispatch (crates/services/src/multi_agent/edge_dispatch.rs),*)
(* with everyone who reads and writes it: callers that admit an invocation  *)
(* and wait (crates/runtime/src/server/tool_edge_transport.rs), callers     *)
(* that claim it for their own socket, the relay task of each connection,   *)
(* the read loop that stores results and acknowledges them                  *)
(* (edge_ws_handler.rs), the sweep of stale rows, and the edge, whose       *)
(* journal keeps one record per invocation (module EdgeJournal).            *)
(*                                                                          *)
(* A frame written to a connection that the edge has left is lost. A send   *)
(* through the pool is "not sent" or possibly delivered (module EdgePool).  *)
(***************************************************************************)
EXTENDS Naturals, FiniteSets

CONSTANTS
    Requests,      \* dispatch identities, all of one run
    Callers,       \* calls of execute_edge_bound
    Target(_),     \* the identity a caller dispatches
    MaxConn        \* bound: connections in a behaviour

ASSUME DispatchAssumption ==
    /\ MaxConn \in Nat
    /\ Callers \cap (1..MaxConn) = {}
    /\ \A c \in Callers : Target(c) \in Requests

VARIABLES
    run,       \* the run is running, waiting or paused
    row,       \* the rows: status and result_json
    holds,     \* <<holder, r>>: a caller or relay has claimed r and not yet sent it
    caller,    \* the state of each call
    answer,    \* what a call returned
    conn,      \* [gen, open]: the newest connection and whether the edge reads it
    relay,     \* the connections whose relay task runs
    toEdge,    \* request frames on the open connection
    toServer,  \* result frames <<r, v>> on the open connection
    acks,      \* ToolResultAck frames on the open connection
    edge,      \* the edge's journal: the record of each request
    sent,      \* how often a frame of r was handed to a socket
    ran        \* how often the edge started the tool of r

vars == <<run, row, holds, caller, answer, conn, relay, toEdge, toServer, acks,
          edge, sent, ran>>

Gens == 1..MaxConn
\* What the edge can report: the tool's outcome, an outcome that a crash made
\* unknown, or a refusal before the journal.
Reports == {"ok", "lost", "refused"}
Results == Reports \cup {"rejected", "failed"}
NoResult == "none"
NoRow == [st |-> "none", res |-> NoResult]
Open == {"pending", "dispatched"}
Terminal == {"completed", "failed"}

\* Mutant: a failed row is taken for a tool that did not run.
DecodeFailedAsNotRun(v) == IF v \in {"ok", "lost"} THEN "ok" ELSE "not_executed"

\* delivered_dispatch_result: the body of a failed row is no tool result, so the
\* outcome is unknown.
Decode(v) == CASE v = "ok" -> "ok"
               [] v \in {"refused", "rejected"} -> "not_executed"
               [] OTHER -> "unknown"

Return(c, a) == /\ caller' = [caller EXCEPT ![c] = "returned"]
                /\ answer' = [answer EXCEPT ![c] = a]

\* The UPDATEs of deliver_result and fail_dispatch
Completed(r, v) ==
    IF row[r].st \in Open THEN [row EXCEPT ![r] = [st |-> "completed", res |-> v]] ELSE row
\* Mutant: rows are failed whatever their status.
FailedAnyway(S) ==
    [r \in Requests |-> IF r \in S THEN [st |-> "failed", res |-> "failed"] ELSE row[r]]

Failed(S) ==
    [r \in Requests |-> IF r \in S /\ row[r].st \in Open
                          THEN [st |-> "failed", res |-> "failed"] ELSE row[r]]

Init ==
    /\ run = TRUE /\ row = [r \in Requests |-> NoRow] /\ holds = {}
    /\ caller = [c \in Callers |-> "idle"] /\ answer = [c \in Callers |-> NoResult]
    /\ conn = [gen |-> 0, open |-> FALSE] /\ relay = {}
    /\ toEdge = {} /\ toServer = {} /\ acks = {}
    /\ edge = [r \in Requests |-> "none"]
    /\ sent = [r \in Requests |-> 0] /\ ran = [r \in Requests |-> 0]

Link == <<conn, relay, toEdge, toServer, acks>>

-----------------------------------------------------------------------------
(* Admission. The ledger lets a call dispatch only while its run is live, and
   an admission is far shorter than the sweep's retention. *)

AdmitRow(c, st) ==
    row' = IF row[Target(c)].st \in {"none", "pending"} /\ row[Target(c)].st # st
             THEN [row EXCEPT ![Target(c)] = [st |-> st, res |-> NoResult]] ELSE row

\* admit_dispatch, then wait_result
AdmitDispatch(c) ==
    /\ run /\ caller[c] = "idle"
    /\ IF row[Target(c)].st \in Terminal
         THEN Return(c, Decode(row[Target(c)].res)) /\ UNCHANGED row
         ELSE /\ row' = IF row[Target(c)] = NoRow
                          THEN [row EXCEPT ![Target(c)] = [st |-> "pending", res |-> NoResult]]
                          ELSE row
              /\ caller' = [caller EXCEPT ![c] = "waiting"]
              /\ UNCHANGED answer
    /\ UNCHANGED <<run, holds, Link, edge, sent, ran>>

\* admit_and_claim_direct_dispatch
AdmitAndClaimDirectDispatch(c) ==
    /\ run /\ caller[c] = "idle"
    /\ IF row[Target(c)].st \in Terminal
         THEN Return(c, Decode(row[Target(c)].res)) /\ UNCHANGED <<row, holds>>
         ELSE /\ AdmitRow(c, "dispatched")
              /\ LET claims == row[Target(c)].st # "dispatched" IN
                   /\ caller' = [caller EXCEPT ![c] = IF claims THEN "claimed" ELSE "observing"]
                   /\ holds' = IF claims THEN holds \cup {<<c, Target(c)>>} ELSE holds
              /\ UNCHANGED answer
    /\ UNCHANGED <<run, Link, edge, sent, ran>>

\* EdgeDispatchAdmissionError::OutcomeUnknown: the transaction failed, or its
\* commit took effect and the acknowledgement was lost.
AdmissionOutcomeUnknown(c) ==
    /\ run /\ caller[c] = "idle"
    /\ Return(c, "unknown")
    /\ \/ UNCHANGED row
       \/ \E st \in Open : AdmitRow(c, st)
    /\ UNCHANGED <<run, holds, Link, edge, sent, ran>>

\* EdgeDispatchAdmissionError::Rejected: the identity has a row already and its
\* payload is another one, which it may be at every repetition of a call: the
\* payload holds the time that is left to the deadline.
AdmissionRejected(c) ==
    /\ run /\ caller[c] = "idle"
    /\ row[Target(c)] # NoRow
    /\ Return(c, "conflict")
    /\ UNCHANGED <<run, row, holds, Link, edge, sent, ran>>

-----------------------------------------------------------------------------
(* try_edge_websocket, after the claim *)

\* The provider denies the dispatch: the claim is closed, if it still can be and
\* the update does not fail.
AuthorizationDenied(c) ==
    /\ caller[c] = "claimed"
    /\ row' \in {row, Failed({Target(c)})}
    /\ holds' = holds \ {<<c, Target(c)>>}
    /\ Return(c, IF row' # row THEN "not_executed" ELSE "unknown")
    /\ UNCHANGED <<run, Link, edge, sent, ran>>

\* EdgeInvocationDeliveryError::NotSent: a receipt of non-delivery is stored, and
\* returned even if it could not be.
NotSent(c) ==
    /\ caller[c] = "claimed"
    /\ row' \in {row, Completed(Target(c), "rejected")}
    /\ holds' = holds \ {<<c, Target(c)>>}
    /\ Return(c, "not_executed")
    /\ UNCHANGED <<run, Link, edge, sent, ran>>

\* A frame handed to connection g arrives if the edge still reads that connection.
Write(g, r) ==
    /\ sent' = [sent EXCEPT ![r] = @ + 1]
    /\ toEdge' = IF conn = [gen |-> g, open |-> TRUE] THEN toEdge \cup {r} ELSE toEdge

SendDirect(c) ==
    /\ caller[c] = "claimed"
    /\ \E g \in Gens : g <= conn.gen /\ Write(g, Target(c))
    /\ holds' = holds \ {<<c, Target(c)>>}
    /\ caller' = [caller EXCEPT ![c] = "sent"]
    /\ UNCHANGED <<run, row, answer, conn, relay, toServer, acks, edge, ran>>

\* EdgeInvocationDeliveryError::Unknown: cancelled, timed out or disconnected
OutcomeUnknown(c) ==
    /\ caller[c] = "sent"
    /\ Return(c, "unknown")
    /\ UNCHANGED <<run, row, holds, Link, edge, sent, ran>>

-----------------------------------------------------------------------------
(* Waiting for the row *)

\* wait_result returns a terminal row's body, by a wake-up or by polling, or
\* nothing once the row has been deleted.
WaitResult(c) ==
    /\ caller[c] \in {"waiting", "observing"} /\ row[Target(c)].st \in Terminal \cup {"none"}
    /\ Return(c, Decode(row[Target(c)].res))
    /\ UNCHANGED <<run, row, holds, Link, edge, sent, ran>>

\* Cancellation or timeout: the caller that admitted the row fails it, "cancelled"
\* or "expired", or cannot; one that only observes another's claim leaves it alone.
StopWaiting(c) ==
    /\ caller[c] \in {"waiting", "observing"}
    /\ row' \in {row} \cup (IF caller[c] = "waiting" THEN {Failed({Target(c)})} ELSE {})
    /\ Return(c, "unknown")
    /\ UNCHANGED <<run, holds, Link, edge, sent, ran>>

\* The caller's server process dies.
CallerDies(c) ==
    /\ caller[c] \notin {"idle", "returned"}
    /\ Return(c, "unknown")
    /\ holds' = {h \in holds : h[1] # c}
    /\ UNCHANGED <<run, row, Link, edge, sent, ran>>

-----------------------------------------------------------------------------
(* The relay task of connection g. A row it means to fail stays claimed when the
   update fails. *)

\* Mutant: rows that another connection has claimed are polled again.
PendingOrDispatched == {r \in Requests : row[r].st \in Open}

Pending == {r \in Requests : row[r].st = "pending"}
InHand(g) == {r \in Requests : <<g, r>> \in holds}
LetGo(g) == {h \in holds : h[1] # g}

\* poll_pending: claim what is pending; when the commit's acknowledgement is lost
\* the rows are claimed and nobody sends them.
PollPending(g) ==
    /\ g \in relay /\ InHand(g) = {} /\ Pending # {}
    /\ row' = [r \in Requests |-> IF r \in Pending THEN [row[r] EXCEPT !.st = "dispatched"] ELSE row[r]]
    /\ holds' \in {holds, holds \cup {<<g, r>> : r \in Pending}}
    /\ UNCHANGED <<run, caller, answer, Link, edge, sent, ran>>

\* A payload that does not decode, or an attestation of another materialization
RelayRejects(g, r) ==
    /\ <<g, r>> \in holds /\ g \in relay
    /\ row' \in {row, Failed({r})}
    /\ holds' = holds \ {<<g, r>>}
    /\ UNCHANGED <<run, caller, answer, Link, edge, sent, ran>>

RelaySends(g, r) ==
    /\ <<g, r>> \in holds /\ g \in relay
    /\ Write(g, r)
    /\ holds' = holds \ {<<g, r>>}
    /\ UNCHANGED <<run, row, caller, answer, conn, relay, toServer, acks, edge, ran>>

\* send_edge_msg reports an error, which does not prove that the frame stayed
\* behind: this row and the rest of the batch are failed and the task ends.
RelaySendFails(g, r) ==
    /\ <<g, r>> \in holds /\ g \in relay
    /\ \E S \in SUBSET InHand(g) : row' = Failed(S)
    /\ \/ Write(g, r) \/ UNCHANGED <<sent, toEdge>>
    /\ holds' = LetGo(g)
    /\ relay' = relay \ {g}
    /\ UNCHANGED <<run, caller, answer, conn, toServer, acks, edge, ran>>

\* The handler has closed the in-flight tracker: one row is failed, the rest of
\* the batch is left claimed and the task ends.
RelayClosing(g, r) ==
    /\ <<g, r>> \in holds /\ g \in relay /\ conn # [gen |-> g, open |-> TRUE]
    /\ row' \in {row, Failed({r})}
    /\ holds' = LetGo(g)
    /\ relay' = relay \ {g}
    /\ UNCHANGED <<run, caller, answer, conn, toEdge, toServer, acks, edge, sent, ran>>

\* The handler of a closed connection stops or aborts its relay task.
RelayStops(g) ==
    /\ g \in relay /\ conn # [gen |-> g, open |-> TRUE]
    /\ holds' = LetGo(g)
    /\ relay' = relay \ {g}
    /\ UNCHANGED <<run, row, caller, answer, conn, toEdge, toServer, acks, edge, sent, ran>>

-----------------------------------------------------------------------------
(* Connections and the edge *)

Done == {r \in Requests : edge[r] \in {"ok", "lost"}}

\* A new connection starts with a replay of the journal's results.
Connect ==
    /\ ~conn.open /\ conn.gen < MaxConn
    /\ conn' = [gen |-> conn.gen + 1, open |-> TRUE]
    /\ relay' = relay \cup {conn.gen + 1}
    /\ toServer' = {<<r, edge[r]>> : r \in Done}
    /\ UNCHANGED <<run, row, holds, caller, answer, toEdge, acks, edge, sent, ran>>

Drop(records) ==
    /\ conn' = [conn EXCEPT !.open = FALSE]
    /\ toEdge' = {} /\ toServer' = {} /\ acks' = {}
    /\ edge' = records

Disconnect ==
    /\ conn.open
    /\ Drop(edge)
    /\ UNCHANGED <<run, row, holds, caller, answer, relay, sent, ran>>

\* The edge restarts: a tool that was running has an unknown outcome.
EdgeCrash ==
    /\ Drop([r \in Requests |-> IF edge[r] = "running" THEN "lost" ELSE edge[r]])
    /\ UNCHANGED <<run, row, holds, caller, answer, relay, sent, ran>>

\* prepare: record, then run; a redelivered request is not run again.
EdgeReceives(r) ==
    /\ r \in toEdge
    /\ toEdge' = toEdge \ {r}
    /\ edge' = [edge EXCEPT ![r] = IF @ = "none" THEN "running" ELSE @]
    /\ ran' = [ran EXCEPT ![r] = IF edge[r] = "none" THEN @ + 1 ELSE @]
    /\ toServer' = IF r \in Done THEN toServer \cup {<<r, edge[r]>>} ELSE toServer
    /\ UNCHANGED <<run, row, holds, caller, answer, conn, relay, acks, sent>>

\* A full journal or a failed authorization: answered without a record
EdgeRefuses(r) ==
    /\ r \in toEdge /\ edge[r] = "none"
    /\ toEdge' = toEdge \ {r}
    /\ toServer' = toServer \cup {<<r, "refused">>}
    /\ UNCHANGED <<run, row, holds, caller, answer, conn, relay, acks, edge, sent, ran>>

\* persist_completion, then the result is sent if there is a connection.
EdgeCompletes(r) ==
    /\ edge[r] = "running"
    /\ edge' = [edge EXCEPT ![r] = "ok"]
    /\ toServer' = IF conn.open THEN toServer \cup {<<r, "ok">>} ELSE toServer
    /\ UNCHANGED <<run, row, holds, caller, answer, conn, relay, toEdge, acks, sent, ran>>

\* acknowledge: the record is removed.
EdgeAcknowledged(r) ==
    /\ r \in acks
    /\ acks' = acks \ {r}
    /\ edge' = [edge EXCEPT ![r] = IF @ = "running" THEN @ ELSE "none"]
    /\ UNCHANGED <<run, row, holds, caller, answer, conn, relay, toEdge, toServer, sent, ran>>

\* Mutant: a late result of a row that is already terminal is acknowledged too.
AcceptsLate(r, v) == row[r].st # "none"

\* deliver_result accepts the first result, and its exact replay.
Accepts(r, v) == row[r].st \in Open \/ row[r] = [st |-> "completed", res |-> v]

\* The read loop stores the result, then releases a direct caller, then
\* acknowledges; a result that is not accepted is not acknowledged.
DeliverResult(m) ==
    /\ m \in toServer
    /\ toServer' = toServer \ {m}
    /\ row' = Completed(m[1], m[2])
    /\ acks' = IF Accepts(m[1], m[2]) THEN acks \cup {m[1]} ELSE acks
    /\ \/ UNCHANGED <<caller, answer>>
       \/ \E c \in Callers : /\ caller[c] = "sent" /\ Target(c) = m[1] /\ Accepts(m[1], m[2])
                             /\ Return(c, Decode(m[2]))
    /\ UNCHANGED <<run, holds, conn, relay, toEdge, edge, sent, ran>>

\* The database refuses the write: no acknowledgement.
DeliverFails(m) ==
    /\ m \in toServer
    /\ toServer' = toServer \ {m}
    /\ UNCHANGED <<run, row, holds, caller, answer, conn, relay, toEdge, acks, edge, sent, ran>>

-----------------------------------------------------------------------------
(* The run's end and the sweep *)

EndRun ==
    /\ run /\ run' = FALSE
    /\ UNCHANGED <<row, holds, caller, answer, Link, edge, sent, ran>>

\* cleanup_stale expires open rows and deletes terminal ones, each past its
\* retention, of runs that are over.
ExpireStale(r) ==
    /\ ~run /\ row[r].st \in Open
    /\ row' = Failed({r})
    /\ UNCHANGED <<run, holds, caller, answer, Link, edge, sent, ran>>

DeleteStale(r) ==
    /\ ~run /\ row[r].st \in Terminal
    /\ row' = [row EXCEPT ![r] = NoRow]
    /\ UNCHANGED <<run, holds, caller, answer, Link, edge, sent, ran>>

-----------------------------------------------------------------------------
CallerStep(c) ==
    \/ AdmitDispatch(c) \/ AdmitAndClaimDirectDispatch(c)
    \/ AdmissionOutcomeUnknown(c) \/ AdmissionRejected(c)
    \/ AuthorizationDenied(c) \/ NotSent(c) \/ SendDirect(c) \/ OutcomeUnknown(c)
    \/ WaitResult(c) \/ StopWaiting(c) \/ CallerDies(c)

RelayStep(g) ==
    \/ PollPending(g) \/ RelayStops(g)
    \/ \E r \in Requests :
         RelayRejects(g, r) \/ RelaySends(g, r) \/ RelaySendFails(g, r) \/ RelayClosing(g, r)

EdgeStep(r) ==
    EdgeReceives(r) \/ EdgeRefuses(r) \/ EdgeCompletes(r) \/ EdgeAcknowledged(r)

Next ==
    \/ \E c \in Callers : CallerStep(c)
    \/ \E g \in Gens : RelayStep(g)
    \/ \E r \in Requests : EdgeStep(r) \/ ExpireStale(r) \/ DeleteStale(r)
    \/ \E m \in toServer : DeliverResult(m) \/ DeliverFails(m)
    \/ Connect \/ Disconnect \/ EdgeCrash \/ EndRun

Spec == Init /\ [][Next]_vars

-----------------------------------------------------------------------------
\* Whoever claims a row, and however claims, sends, commits and connections fail:
\* an invocation is put on a socket at most once and run at most once, also when
\* the edge has forgotten it after an acknowledgement.
DispatchedAtMostOnce == \A r \in Requests : sent[r] <= 1 /\ ran[r] <= 1

\* A caller is told "not executed" only of a tool that did not run and that no
\* holder, frame or pending row can still make run; it is told of a success only
\* if the tool ran. The refusal of a conflicting admission is not among these
\* answers: see RejectionMeansNotDispatched.
AnswersAreTrue ==
    \A c \in Callers :
        LET r == Target(c) IN
          /\ answer[c] = "not_executed" =>
                ran[r] = 0 /\ r \notin toEdge /\ row[r].st # "pending"
                /\ \A h \in holds : h[2] # r
          /\ answer[c] = "ok" => ran[r] = 1

\* edge_admission_rejected_result says "The tool was not dispatched" and leaves
\* out that the outcome may be unknown: then no claim, frame or execution of the
\* invocation exists. The refusal of a repeated call says it of a row that another
\* call or the relay may have dispatched.
RejectionMeansNotDispatched ==
    \A c \in Callers :
        answer[c] = "conflict" => sent[Target(c)] = 0 /\ ran[Target(c)] = 0

\* A success that a caller was given is what the row says until the run is over
\* and the row is deleted: no late failure, expiry or second result replaces it.
SuccessIsDurable ==
    \A c \in Callers :
        answer[c] = "ok" =>
            row[Target(c)] \in {[st |-> "completed", res |-> "ok"]} \cup (IF run THEN {} ELSE {NoRow})

\* The edge forgets a result only when the server holds that result, or has
\* deleted its row with the run.
ForgetsOnlyStored ==
    [][\A r \in Requests : edge[r] # "none" /\ edge'[r] = "none" =>
          row[r] \in {[st |-> "completed", res |-> edge[r]]} \cup (IF run THEN {} ELSE {NoRow})]_vars
=============================================================================
