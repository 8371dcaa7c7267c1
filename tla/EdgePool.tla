------------------------------ MODULE EdgePool ------------------------------
(***************************************************************************)
(* The server's pool of live edge connections, for one edge agent          *)
(* (crates/astra-server-types/src/edge_connection_pool.rs), with the       *)
(* connection handlers that own its sockets                                *)
(* (crates/runtime/src/server/edge/edge_ws_handler.rs): callers that wait  *)
(* for a tool result, the forward task of each socket, the transactional   *)
(* reconnect, and the cleanup of an older connection that may run after    *)
(* its replacement was installed.                                          *)
(*                                                                         *)
(* A map of waiters outlives the connection that created it: a reconnect   *)
(* inherits it. Maps are named by the generation that created them.        *)
(***************************************************************************)
EXTENDS Naturals, Sequences, FiniteSets

CONSTANTS
    Requests,       \* durably admitted invocations, each sent by one caller
    MaxConn,        \* bound: connections in a behaviour
    ChannelCap,     \* EDGE_WS_CHANNEL_CAPACITY
    MaxPending,     \* MAX_PENDING_REQUESTS
    Shutdown        \* whether the server drains its pool in a behaviour

NoRequest == "none"

ASSUME PoolAssumption ==
    /\ IsFiniteSet(Requests) /\ NoRequest \notin Requests
    /\ MaxConn \in Nat \ {0} /\ ChannelCap \in Nat \ {0} /\ MaxPending \in Nat \ {0}
    /\ Shutdown \in BOOLEAN

VARIABLES
    conn,        \* the pool's entry: [gen, map], or NoConn
    sock,        \* per generation: the handler's phase and its forward task
    nextGen,     \* next_connection_generation
    reservation, \* the open ReconnectReservation: the captured map, or NoMap; or NoRes
    results,     \* per map: the requests whose oneshot sender it holds
    pend,        \* pending_requests
    caller,      \* the state of each request's caller
    at,          \* what the caller read from the pool entry: [gen, map]
    got,         \* requests the edge has received
    cancelled    \* requests whose ToolCancel the edge has received

vars == <<conn, sock, nextGen, reservation, results, pend, caller, at,
          got, cancelled>>

Gens == 1..MaxConn
NoConn == [gen |-> 0, map |-> 0]
NoMap == [map |-> 0, open |-> TRUE]
NoRes == [map |-> 0, open |-> FALSE]
NoPend == [gen |-> 0, forwarded |-> FALSE, cancel |-> FALSE, cancelGen |-> 0]

NewSocket == [phase |-> "up", chan |-> <<>>, wake |-> TRUE, todo |-> {},
              sending |-> NoRequest, written |-> FALSE]
NoSocket == [phase |-> "none", chan |-> <<>>, wake |-> FALSE, todo |-> {},
             sending |-> NoRequest, written |-> FALSE]

\* The receiver of a handler's channel lives in its forward task.
SenderOpen == {g \in Gens : sock[g].phase = "up"}
Reading(g) == sock[g].phase \in {"up", "stopped"}
ForwardEnds(phase) == [NoSocket EXCEPT !.phase = phase]

\* An edge opens a connection after it has dropped the one before.
EdgeReads(g) == g = nextGen - 1 /\ ~reservation.open

Init ==
    /\ conn = NoConn /\ nextGen = 1 /\ reservation = NoRes
    /\ sock = [g \in Gens |-> NoSocket]
    /\ results = [m \in Gens |-> {}]
    /\ pend = [r \in Requests |-> NoPend]
    /\ caller = [r \in Requests |-> "idle"]
    /\ at = [r \in Requests |-> NoConn]
    /\ got = {} /\ cancelled = {}

-----------------------------------------------------------------------------
(* execute_durably_admitted_invocation_on_connection_with_cancel *)

\* Read the pool's entry: no entry, one whose sender is closed, or a connection.
Lookup(r) ==
    /\ caller[r] = "idle"
    /\ \/ /\ conn.gen \in SenderOpen
          /\ caller' = [caller EXCEPT ![r] = "looked"]
          /\ at' = [at EXCEPT ![r] = conn]
       \/ /\ conn.gen \notin SenderOpen
          /\ caller' = [caller EXCEPT ![r] = IF conn = NoConn THEN "not_sent" ELSE "closed"]
          /\ UNCHANGED at
    /\ UNCHANGED <<conn, sock, nextGen, reservation, results, pend, got, cancelled>>

\* The read guard is dropped and the key removed, whatever it now holds.
RemoveClosed(r) ==
    /\ caller[r] = "closed"
    /\ conn' = NoConn
    /\ caller' = [caller EXCEPT ![r] = "not_sent"]
    /\ UNCHANGED <<sock, nextGen, reservation, results, pend, at, got, cancelled>>

\* insert_pending_request_with_expiry, then the waiter's sender goes into the map
Reserve(r) ==
    /\ caller[r] = "looked"
    /\ IF Cardinality({x \in Requests : pend[x] # NoPend}) >= MaxPending
         THEN /\ caller' = [caller EXCEPT ![r] = "not_sent"]
              /\ UNCHANGED <<pend, results>>
         ELSE /\ caller' = [caller EXCEPT ![r] = "sending"]
              /\ pend' = [pend EXCEPT ![r] = [NoPend EXCEPT !.gen = at[r].gen]]
              /\ results' = [results EXCEPT ![at[r].map] = @ \cup {r}]
    /\ UNCHANGED <<conn, sock, nextGen, reservation, at, got, cancelled>>

\* sender.send(msg)
Enqueue(r) ==
    /\ caller[r] = "sending"
    /\ at[r].gen \in SenderOpen /\ Len(sock[at[r].gen].chan) < ChannelCap
    /\ sock' = [sock EXCEPT ![at[r].gen].chan = Append(@, r)]
    /\ caller' = [caller EXCEPT ![r] = "waiting"]
    /\ UNCHANGED <<conn, nextGen, reservation, results, pend, at, got, cancelled>>

\* Mutant: a deadline that passes after the send is answered as a failed send.
EnqueueFailsLate(r) ==
    /\ caller[r] \in {"sending", "waiting"}
    /\ caller' = [caller EXCEPT ![r] = "not_sent"]
    /\ results' = [results EXCEPT ![at[r].map] = @ \ {r}]
    /\ pend' = [pend EXCEPT ![r] = NoPend]
    /\ UNCHANGED <<conn, sock, nextGen, reservation, at, got, cancelled>>

\* The send was cancelled, ran into its deadline, or met a closed channel.
EnqueueFails(r) ==
    /\ caller[r] = "sending"
    /\ caller' = [caller EXCEPT ![r] = "not_sent"]
    /\ results' = [results EXCEPT ![at[r].map] = @ \ {r}]
    /\ pend' = [pend EXCEPT ![r] = NoPend]
    /\ UNCHANGED <<conn, sock, nextGen, reservation, at, got, cancelled>>

\* request_cancellation: mark the request, then wake the current socket's owner.
RequestCancellation(r) ==
    /\ pend' = [pend EXCEPT ![r] = IF @ = NoPend THEN @ ELSE [@ EXCEPT !.cancel = TRUE]]
    /\ sock' = IF pend[r] # NoPend /\ conn # NoConn
                 THEN [sock EXCEPT ![conn.gen].wake = TRUE] ELSE sock

\* The caller is cancelled, its deadline passes, or its sender was dropped with
\* the map's entry: it leaves with an unknown outcome and asks for cancellation.
GiveUp(r) ==
    /\ caller[r] = "waiting"
    /\ caller' = [caller EXCEPT ![r] = "unknown"]
    /\ results' = [results EXCEPT ![at[r].map] = @ \ {r}]
    /\ RequestCancellation(r)
    /\ UNCHANGED <<conn, nextGen, reservation, at, got, cancelled>>

\* reclaim_expired_requests
Expire(r) ==
    /\ pend[r] # NoPend /\ caller[r] \in {"waiting", "unknown"}
    /\ pend' = [pend EXCEPT ![r] = NoPend]
    /\ UNCHANGED <<conn, sock, nextGen, reservation, results, caller, at,
                   got, cancelled>>

-----------------------------------------------------------------------------
(* The forward task of a connection *)

\* Mutant: a request that is only queued counts as forwarded.
CancellationsOfQueued(g) ==
    {r \in Requests : conn.gen = g /\ pend[r].cancel /\ pend[r].cancelGen # g}

\* pending_cancellations_for_connection
Cancellations(g) ==
    {r \in Requests : /\ conn.gen = g
                      /\ pend[r].forwarded /\ pend[r].cancel /\ pend[r].cancelGen # g}

\* cancel_wake.notified() takes the permit, then the pool is scanned once.
ScanCancellations(g) ==
    /\ sock[g].phase = "up" /\ sock[g].wake
    /\ sock[g].todo = {} /\ sock[g].sending = NoRequest
    /\ sock' = [sock EXCEPT ![g].wake = FALSE, ![g].todo = Cancellations(g)]
    /\ UNCHANGED <<conn, nextGen, reservation, results, pend, caller, at,
                   got, cancelled>>

\* Send one ToolCancel, which may be lost with its socket, and record it with cancellation_forwarded.
ForwardCancel(g) ==
    /\ \E r \in sock[g].todo :
         /\ sock' = [sock EXCEPT ![g].todo = @ \ {r}]
         /\ cancelled' = IF EdgeReads(g) THEN cancelled \cup {r} ELSE cancelled
         /\ pend' = [pend EXCEPT ![r] =
                       IF @.cancel THEN [@ EXCEPT !.cancelGen = g] ELSE @]
    /\ UNCHANGED <<conn, nextGen, reservation, results, caller, at, got>>

\* pool_rx.recv() and queued_request_is_live: a request whose custody is gone is
\* dropped before it reaches the socket.
TakeQueued(g) ==
    /\ sock[g].phase = "up" /\ ~sock[g].wake
    /\ sock[g].todo = {} /\ sock[g].sending = NoRequest /\ sock[g].chan # <<>>
    /\ LET r == Head(sock[g].chan) IN
         sock' = [sock EXCEPT ![g].chan = Tail(@),
                    ![g].sending = IF pend[r] # NoPend /\ pend[r].gen = g THEN r ELSE NoRequest]
    /\ UNCHANGED <<conn, nextGen, reservation, results, pend, caller, at,
                   got, cancelled>>

\* The frame is handed to the socket; it is lost if the edge has left it.
SocketWrite(g) ==
    /\ sock[g].sending # NoRequest /\ ~sock[g].written
    /\ sock' = [sock EXCEPT ![g].written = TRUE]
    /\ got' = IF EdgeReads(g) THEN got \cup {sock[g].sending} ELSE got
    /\ UNCHANGED <<conn, nextGen, reservation, results, pend, caller, at, cancelled>>

\* Mutant: a cancellation that came during the write does not wake the task.
RequestForwardedSilently(g) ==
    /\ sock[g].written
    /\ LET r == sock[g].sending
           own == pend[r] # NoPend /\ pend[r].gen = g IN
         /\ pend' = IF own THEN [pend EXCEPT ![r].forwarded = TRUE] ELSE pend
         /\ sock' = [sock EXCEPT ![g].sending = NoRequest, ![g].written = FALSE]
    /\ UNCHANGED <<conn, nextGen, reservation, results, caller, at, got, cancelled>>

\* request_forwarded, after the write has returned
RequestForwarded(g) ==
    /\ sock[g].written
    /\ LET r == sock[g].sending
           own == pend[r] # NoPend /\ pend[r].gen = g IN
         /\ pend' = IF own THEN [pend EXCEPT ![r].forwarded = TRUE] ELSE pend
         /\ sock' = [sock EXCEPT ![g].sending = NoRequest, ![g].written = FALSE,
                       ![g].wake = @ \/ (own /\ pend[r].cancel /\ conn.gen = g)]
    /\ UNCHANGED <<conn, nextGen, reservation, results, caller, at, got, cancelled>>

\* A socket write fails or times out: the forward task ends and its channel with
\* it, while the read loop goes on.
ForwardStops(g) ==
    /\ sock[g].phase = "up" /\ (sock[g].todo # {} \/ sock[g].sending # NoRequest)
    /\ sock' = [sock EXCEPT ![g] = ForwardEnds("stopped")]
    /\ UNCHANGED <<conn, nextGen, reservation, results, pend, caller, at,
                   got, cancelled>>

-----------------------------------------------------------------------------
(* The read loop, the reconnect transaction and the cleanup *)

\* deliver_tool_result, called once the result of r is durable: release the
\* waiter in the current entry's map, or settle a retained cancellation.
DeliverToolResult(r) ==
    IF conn # NoConn /\ r \in results[conn.map]
      THEN /\ results' = [results EXCEPT ![conn.map] = @ \ {r}]
           /\ pend' = [pend EXCEPT ![r] = NoPend]
           /\ caller' = [caller EXCEPT ![r] = IF @ = "waiting" THEN "answered" ELSE @]
      ELSE /\ pend' = IF conn # NoConn /\ pend[r].cancel
                        THEN [pend EXCEPT ![r] = NoPend] ELSE pend
           /\ UNCHANGED <<results, caller>>

\* The edge's result arrives on any socket that is still read; a reconnected edge
\* replays it until it is acknowledged.
ReceiveResult(g, r) ==
    /\ Reading(g) /\ r \in got
    /\ DeliverToolResult(r)
    /\ UNCHANGED <<conn, sock, nextGen, reservation, at, got, cancelled>>

\* begin_reconnect, under the per-key reconnect lock
BeginReconnect ==
    /\ reservation = NoRes /\ nextGen <= MaxConn
    /\ reservation' = [map |-> conn.map, open |-> TRUE]
    /\ UNCHANGED <<conn, sock, nextGen, results, pend, caller, at, got, cancelled>>

\* ReconnectReservation::drop: waiters of a captured map that the entry does not
\* carry have no delivery owner and fail.
DropReservation(entry) ==
    /\ reservation' = NoRes
    /\ results' = IF reservation.map # 0 /\ entry.map # reservation.map
                    THEN [results EXCEPT ![reservation.map] = {}] ELSE results

\* Mutant: the new connection starts with an empty map of its own.
CommitReconnectFresh ==
    /\ reservation.open
    /\ conn' = [gen |-> nextGen, map |-> nextGen]
    /\ DropReservation(conn')
    /\ sock' = [sock EXCEPT ![nextGen] = NewSocket]
    /\ nextGen' = nextGen + 1
    /\ UNCHANGED <<pend, caller, at, got, cancelled>>

\* commit_reconnect: install the new connection with the live entry's map or, if
\* that entry is gone, the captured one. Its forward task is already running.
CommitReconnect ==
    /\ reservation.open
    /\ LET inherited == IF conn # NoConn THEN conn.map ELSE reservation.map IN
         /\ conn' = [gen |-> nextGen, map |-> IF inherited # 0 THEN inherited ELSE nextGen]
         /\ DropReservation(conn')
    /\ sock' = [sock EXCEPT ![nextGen] = NewSocket]
    /\ nextGen' = nextGen + 1
    /\ UNCHANGED <<pend, caller, at, got, cancelled>>

\* abort_reconnect: registration failed or the new socket is already closed.
AbortReconnect ==
    /\ reservation.open
    /\ DropReservation(conn)
    /\ UNCHANGED <<conn, sock, nextGen, pend, caller, at, got, cancelled>>

\* The read loop ends; the handler aborts its forward task.
Disconnect(g) ==
    /\ Reading(g)
    /\ sock' = [sock EXCEPT ![g] = ForwardEnds("closing")]
    /\ UNCHANGED <<conn, nextGen, reservation, results, pend, caller, at,
                   got, cancelled>>

\* unregister_generation: only the entry of this very generation is removed, and
\* its waiters are kept while a reconnect is in progress.
Remove(g) ==
    IF conn.gen = g
      THEN /\ conn' = NoConn
           /\ results' = IF reservation.open THEN results
                         ELSE [results EXCEPT ![conn.map] = {}]
      ELSE UNCHANGED <<conn, results>>

UnregisterGeneration(g) ==
    /\ sock[g].phase = "closing"
    /\ Remove(g)
    /\ sock' = [sock EXCEPT ![g].phase = "closed"]
    /\ UNCHANGED <<nextGen, reservation, pend, caller, at, got, cancelled>>

\* drain: the server shuts down and unregisters what it finds in the pool.
Drain ==
    /\ Shutdown /\ conn.gen \in SenderOpen
    /\ Remove(conn.gen)
    /\ UNCHANGED <<sock, nextGen, reservation, pend, caller, at, got, cancelled>>

ForwardTask(g) ==
    ScanCancellations(g) \/ ForwardCancel(g) \/ TakeQueued(g) \/ SocketWrite(g)
    \/ RequestForwarded(g)

Next ==
    \/ \E r \in Requests :
         Lookup(r) \/ RemoveClosed(r) \/ Reserve(r) \/ Enqueue(r) \/ EnqueueFails(r)
         \/ GiveUp(r) \/ Expire(r)
    \/ \E g \in Gens : \/ ForwardTask(g) \/ ForwardStops(g)
                       \/ Disconnect(g) \/ UnregisterGeneration(g)
                       \/ \E r \in Requests : ReceiveResult(g, r)
    \/ BeginReconnect \/ CommitReconnect \/ AbortReconnect \/ Drain

Spec == Init /\ [][Next]_vars

\* A spawned task is run until it ends.
LiveSpec == Spec /\ \A g \in Gens : WF_vars(ForwardTask(g))

-----------------------------------------------------------------------------
\* The waiter of r can still be found by a result, or by whoever fails it.
Reachable(r) ==
    \E m \in Gens : r \in results[m] /\ m \in {conn.map, reservation.map}

Queued(r) == \E g \in Gens : r = sock[g].sending \/ \E i \in 1..Len(sock[g].chan) : sock[g].chan[i] = r

\* NotSent is the one answer that lets the owner record "not executed": no such
\* request is, or will be, on a socket.
NotSentIsTruthful ==
    \A r \in Requests : caller[r] = "not_sent" => r \notin got /\ ~Queued(r)

\* The edge never receives a request after its cancellation: it would ignore the
\* one and then run the other.
CancelNeverOvertakesRequest ==
    [][\A r \in Requests : r \in got' \ got => r \notin cancelled]_vars

\* Replacing, aborting and cleaning up connections in any order leaves no caller
\* waiting on a map that neither the pool nor a reconnect holds, and fails a
\* waiter only when no connection is left to deliver its result.
HandoverKeepsWaiters ==
    [][(\E r \in Requests : RemoveClosed(r)) \/
       \A r \in Requests : caller[r] = "waiting" /\ Reachable(r) =>
           \/ Reachable(r)' \/ caller'[r] # "waiting"
           \/ conn' = NoConn /\ \A m \in Gens : r \notin results'[m]]_vars

\* A cancellation requested for a request that was written to the current
\* connection is sent on it, unless that connection or the request goes away: no
\* wake-up is lost between the scan and the wait.
CancellationIsForwarded ==
    \A r \in Requests :
        (pend[r].forwarded /\ pend[r].cancel /\ conn.gen = pend[r].gen /\ conn.gen \in SenderOpen)
            ~> (pend[r] = NoPend \/ pend[r].cancelGen = pend[r].gen
                  \/ conn.gen # pend[r].gen \/ conn.gen \notin SenderOpen)
=============================================================================
