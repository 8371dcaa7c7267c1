--------------------------- MODULE EdgePoolProofs ---------------------------
(***************************************************************************)
(* What the pool of edge connections guarantees for every set of requests, *)
(* every number of connections, and every capacity of its channels and of  *)
(* its table of pending requests.                                          *)
(***************************************************************************)
EXTENDS EdgePool, TLAPS

Phases == {"none", "up", "stopped", "closing", "closed"}
Callers == {"idle", "closed", "looked", "sending", "waiting", "unknown", "answered", "not_sent"}

(* The caller has read the pool's entry. *)
Bound == {"looked", "sending", "waiting", "unknown", "answered"}

(* The caller has not handed its request to a connection. *)
Early == {"idle", "closed", "looked", "sending", "not_sent"}

Socket == [phase: Phases, chan: Seq(Requests), wake: BOOLEAN, todo: SUBSET Requests,
           sending: Requests \cup {NoRequest}, written: BOOLEAN]

Custody == [gen: 0..MaxConn, forwarded: BOOLEAN, cancel: BOOLEAN, cancelGen: 0..MaxConn]

(* The pool's entry and the reservation: an entry has a generation and a map,  *)
(* and a reservation captured the map of the entry that is still there.        *)
EntryShape ==
  /\ nextGen \in 1..(MaxConn + 1)
  /\ conn = NoConn \/ conn \in [gen: Gens, map: Gens]
  /\ reservation \in [map: 0..MaxConn, open: BOOLEAN]
  /\ ~reservation.open => reservation.map = 0
  /\ reservation.open => nextGen <= MaxConn
  /\ reservation.open /\ conn # NoConn => reservation.map = conn.map

SocketShape ==
  /\ sock \in [Gens -> Socket]
  /\ \A g \in Gens : sock[g].written => sock[g].sending # NoRequest

RequestShape ==
  /\ pend \in [Requests -> Custody]
  /\ caller \in [Requests -> Callers]
  /\ at \in [Requests -> [gen: 0..MaxConn, map: 0..MaxConn]]
  /\ \A r \in Requests : caller[r] \in Bound => at[r].gen \in Gens /\ at[r].map \in Gens
  /\ results \in [Gens -> SUBSET Requests]
  /\ got \subseteq Requests /\ cancelled \subseteq Requests

PoolShape == EntryShape /\ SocketShape /\ RequestShape

-----------------------------------------------------------------------------
(* A request lies in a channel or in the hands of a forward task. *)
InChannel(r, g) == \E i \in 1..Len(sock[g].chan) : sock[g].chan[i] = r
Placed(r, g) == r = sock[g].sending \/ InChannel(r, g)
Nowhere(r) == \A g \in Gens : ~Placed(r, g)

(* Only with the connection its caller has read, and only one copy of it. *)
PlacedAtHome == \A r \in Requests, g \in Gens : Placed(r, g) => at[r].gen = g

OneCopy ==
  \A g \in Gens :
    /\ \A i, j \in 1..Len(sock[g].chan) : sock[g].chan[i] = sock[g].chan[j] => i = j
    /\ ~InChannel(sock[g].sending, g)

(* A cancellation is under way, or has been sent. *)
Cancelling(r) ==
  \/ pend[r].forwarded \/ r \in cancelled
  \/ \E g \in Gens : r \in sock[g].todo

(* Before its caller has handed it over a request has left no trace on a       *)
(* connection; once it may be cancelled there, it waits on none.               *)
EarlyIsUntouched ==
  \A r \in Requests : caller[r] \in Early => r \notin got /\ Nowhere(r) /\ ~Cancelling(r)

CancelFollows == \A r \in Requests : Cancelling(r) => Nowhere(r)

(* A waiter's sender lies in the map its caller has read and in no other. *)
WaiterAtHome ==
  \A r \in Requests, m \in Gens : r \in results[m] => caller[r] # "idle" /\ at[r].map = m

PoolInv ==
  /\ PoolShape
  /\ PlacedAtHome /\ OneCopy /\ EarlyIsUntouched /\ CancelFollows /\ WaiterAtHome

-----------------------------------------------------------------------------
LEMMA ShapeInit == Init => PoolShape
  BY PoolAssumption
  DEF Init, PoolShape, EntryShape, SocketShape, RequestShape, Socket, Custody, Phases,
      Callers, Bound, Gens, NoConn, NoRes, NoPend, NoSocket

LEMMA EntryStep ==
  ASSUME PoolShape, [Next]_vars
  PROVE  EntryShape'
<1> USE PoolAssumption DEF PoolShape, EntryShape, Gens, NoConn, NoRes
<1>1. CASE \E r \in Requests : Lookup(r)
  BY <1>1
  DEF Lookup
<1>2. CASE \E r \in Requests : RemoveClosed(r)
  BY <1>2
  DEF RemoveClosed
<1>3. CASE \E r \in Requests : Reserve(r)
  BY <1>3
  DEF Reserve
<1>4. CASE \E r \in Requests : Enqueue(r)
  BY <1>4
  DEF Enqueue
<1>5. CASE \E r \in Requests : EnqueueFails(r)
  BY <1>5
  DEF EnqueueFails
<1>6. CASE \E r \in Requests : GiveUp(r)
  BY <1>6
  DEF GiveUp, RequestCancellation
<1>7. CASE \E r \in Requests : Expire(r)
  BY <1>7
  DEF Expire
<1>8. CASE \E g \in Gens : ScanCancellations(g)
  BY <1>8
  DEF ScanCancellations, Cancellations
<1>9. CASE \E g \in Gens : ForwardCancel(g)
  BY <1>9
  DEF ForwardCancel
<1>10. CASE \E g \in Gens : TakeQueued(g)
  BY <1>10
  DEF TakeQueued
<1>11. CASE \E g \in Gens : SocketWrite(g)
  BY <1>11
  DEF SocketWrite
<1>12. CASE \E g \in Gens : RequestForwarded(g)
  BY <1>12
  DEF RequestForwarded
<1>13. CASE \E g \in Gens : ForwardStops(g)
  BY <1>13
  DEF ForwardStops, ForwardEnds, NoSocket
<1>14. CASE \E g \in Gens : Disconnect(g)
  BY <1>14
  DEF Disconnect, ForwardEnds, NoSocket
<1>15. CASE \E g \in Gens : UnregisterGeneration(g)
  BY <1>15
  DEF UnregisterGeneration, Remove
<1>16. CASE \E g \in Gens, r \in Requests : ReceiveResult(g, r)
  BY <1>16
  DEF ReceiveResult, DeliverToolResult
<1>17. CASE BeginReconnect
  BY <1>17
  DEF BeginReconnect
<1>18. CASE CommitReconnect
  BY <1>18
  DEF CommitReconnect, DropReservation, NewSocket
<1>19. CASE AbortReconnect
  BY <1>19
  DEF AbortReconnect, DropReservation
<1>20. CASE Drain
  BY <1>20
  DEF Drain, Remove
<1>21. CASE UNCHANGED vars
  BY <1>21 DEF vars
<1> QED
  BY <1>1, <1>2, <1>3, <1>4, <1>5, <1>6, <1>7, <1>8, <1>9, <1>10, <1>11, <1>12, <1>13,
     <1>14, <1>15, <1>16, <1>17, <1>18, <1>19, <1>20, <1>21
  DEF Next, ForwardTask

LEMMA SocketTypes ==
  ASSUME NEW s \in Socket
  PROVE  /\ s.phase \in Phases /\ s.chan \in Seq(Requests) /\ s.wake \in BOOLEAN
         /\ s.todo \in SUBSET Requests /\ s.sending \in Requests \cup {NoRequest}
         /\ s.written \in BOOLEAN
         /\ s = [phase |-> s.phase, chan |-> s.chan, wake |-> s.wake, todo |-> s.todo,
                 sending |-> s.sending, written |-> s.written]
  BY DEF Socket

LEMMA SocketEnds ==
  ASSUME NEW p \in Phases
  PROVE  /\ ForwardEnds(p) \in Socket
         /\ ForwardEnds(p).chan = <<>> /\ ForwardEnds(p).todo = {}
         /\ ForwardEnds(p).sending = NoRequest /\ ForwardEnds(p).written = FALSE
<1>1. <<>> \in Seq(Requests) /\ {} \in SUBSET Requests
  OBVIOUS
<1>2. /\ NoSocket \in Socket /\ NoSocket.chan = <<>> /\ NoSocket.todo = {}
      /\ NoSocket.sending = NoRequest /\ NoSocket.written = FALSE
  BY <1>1 DEF NoSocket, Socket, Phases
<1> QED
  BY <1>2, SocketTypes DEF ForwardEnds, Socket

(* What a step may make of a handler's state: nothing, an empty one, one more  *)
(* request in the channel, the first of them taken from it, or a written       *)
(* request put away.  Only a forwarded request is ever to be cancelled.        *)
Turn(g, s) ==
  /\ \/ s.chan = sock[g].chan /\ s.sending \in {sock[g].sending, NoRequest}
     \/ s.chan = <<>> /\ s.sending = NoRequest
     \/ /\ s.sending = sock[g].sending
        /\ \E r \in Requests : /\ caller[r] = "sending" /\ caller'[r] = "waiting"
                               /\ at[r].gen = g /\ s.chan = Append(sock[g].chan, r)
     \/ /\ sock[g].chan # <<>> /\ s.chan = Tail(sock[g].chan)
        /\ sock[g].sending = NoRequest /\ s.sending \in {Head(sock[g].chan), NoRequest}
  /\ s.todo \subseteq sock[g].todo \cup {r \in Requests : pend[r].forwarded}

Turns == \A g \in Gens : Turn(g, sock'[g])

LEMMA SocketTurns ==
  ASSUME SocketShape, NEW g \in Gens, NEW s \in Socket,
         s.written => s.sending # NoRequest, Turn(g, s),
         sock' = [sock EXCEPT ![g] = s]
  PROVE  SocketShape' /\ Turns
<1>1. SocketShape' /\ sock'[g] = s /\ \A h \in Gens : h # g => sock'[h] = sock[h]
  BY DEF SocketShape
<1>2. \A h \in Gens : Turn(h, sock[h])
  BY DEF Turn
<1>3. Turns
  <2> HIDE DEF Turn
  <2> QED
    BY <1>1, <1>2 DEF Turns
<1> QED
  BY <1>1, <1>3

LEMMA SocketStays ==
  ASSUME SocketShape, sock' = sock
  PROVE  SocketShape' /\ Turns
  BY DEF SocketShape, Turns, Turn

LEMMA SocketStep ==
  ASSUME PoolShape, [Next]_vars
  PROVE  SocketShape' /\ Turns
<1>a. SocketShape /\ sock \in [Gens -> Socket] /\ \A g \in Gens : sock[g] \in Socket
  BY DEF PoolShape, SocketShape
<1>1. CASE \E r \in Requests : Lookup(r)
  BY <1>1, <1>a, SocketStays DEF Lookup
<1>2. CASE \E r \in Requests : RemoveClosed(r)
  BY <1>2, <1>a, SocketStays DEF RemoveClosed
<1>3. CASE \E r \in Requests : Reserve(r)
  BY <1>3, <1>a, SocketStays DEF Reserve
<1>4. CASE \E r \in Requests : Enqueue(r)
  <2>1. PICK r \in Requests : Enqueue(r)
    BY <1>4
  <2> DEFINE g == at[r].gen
             c == Append(sock[g].chan, r)
             s == [sock[g] EXCEPT !.chan = c]
  <2>2. g \in Gens /\ sock[g] \in Socket
    BY <2>1, <1>a DEF Enqueue, PoolShape, RequestShape, Bound
  <2>3. sock' = [sock EXCEPT ![g] = s]
    BY <2>1 DEF Enqueue
  <2>4. s \in Socket /\ (s.written => s.sending # NoRequest)
    <3>1. c \in Seq(Requests)
      BY <2>2, SocketTypes
    <3> HIDE DEF c
    <3> QED
      BY <2>2, <3>1, <1>a, SocketTypes DEF Socket, SocketShape
  <2>5. Turn(g, s)
    <3>1. s.chan = c /\ s.sending = sock[g].sending /\ s.todo = sock[g].todo
      BY <2>2, SocketTypes
    <3>2. caller[r] = "sending" /\ caller'[r] = "waiting"
      BY <2>1 DEF Enqueue, PoolShape, RequestShape
    <3> QED
      BY <3>1, <3>2 DEF Turn
  <2> QED
    BY <1>a, <2>2, <2>3, <2>4, <2>5, SocketTurns
<1>5. CASE \E r \in Requests : EnqueueFails(r)
  BY <1>5, <1>a, SocketStays DEF EnqueueFails
<1>6. CASE \E r \in Requests : GiveUp(r)
  <2>1. PICK r \in Requests : GiveUp(r)
    BY <1>6
  <2>2. CASE sock' = sock
    BY <2>2, <1>a, SocketStays
  <2>3. CASE sock' # sock
    <3> DEFINE g == conn.gen
               s == [sock[g] EXCEPT !.wake = TRUE]
    <3>1. g \in Gens /\ sock[g] \in Socket
      BY <2>1, <2>3, <1>a DEF GiveUp, RequestCancellation, PoolShape, EntryShape
    <3>2. sock' = [sock EXCEPT ![g] = s]
      BY <2>1, <2>3 DEF GiveUp, RequestCancellation
    <3>3. s \in Socket /\ (s.written => s.sending # NoRequest)
      BY <3>1, <1>a, SocketTypes DEF Socket, SocketShape
    <3>4. Turn(g, s)
      BY <3>1, SocketTypes DEF Turn
    <3> QED
      BY <1>a, <3>1, <3>2, <3>3, <3>4, SocketTurns
  <2> QED
    BY <2>2, <2>3
<1>7. CASE \E r \in Requests : Expire(r)
  BY <1>7, <1>a, SocketStays DEF Expire
<1>8. CASE \E g \in Gens : ScanCancellations(g)
  <2>1. PICK g \in Gens : ScanCancellations(g)
    BY <1>8
  <2> DEFINE s == [sock[g] EXCEPT !.wake = FALSE, !.todo = Cancellations(g)]
  <2>2. g \in Gens /\ sock[g] \in Socket
    BY <2>1, <1>a
  <2>3. sock' = [sock EXCEPT ![g] = s]
    BY <2>1, <2>2, <1>a DEF ScanCancellations, Cancellations
  <2>4. s \in Socket /\ (s.written => s.sending # NoRequest)
    <3>1. Cancellations(g) \in SUBSET Requests
      BY DEF Cancellations
    <3> QED
      BY <2>1, <2>2, <3>1, <1>a, SocketTypes DEF Socket, SocketShape
  <2>5. Turn(g, s)
    BY <2>1, <2>2, SocketTypes DEF Turn, ScanCancellations, Cancellations
  <2> QED
    BY <1>a, <2>2, <2>3, <2>4, <2>5, SocketTurns
<1>9. CASE \E g \in Gens : ForwardCancel(g)
  <2>1. PICK g \in Gens : ForwardCancel(g)
    BY <1>9
  <2>r. PICK r \in sock[g].todo : sock' = [sock EXCEPT ![g].todo = @ \ {r}]
    BY <2>1 DEF ForwardCancel
  <2> DEFINE s == [sock[g] EXCEPT !.todo = sock[g].todo \ {r}]
  <2>2. g \in Gens /\ sock[g] \in Socket
    BY <2>1, <1>a
  <2>3. sock' = [sock EXCEPT ![g] = s]
    BY <2>r, <2>2, <1>a
  <2>4. s \in Socket /\ (s.written => s.sending # NoRequest)
    BY <2>1, <2>2, <1>a, SocketTypes DEF Socket, SocketShape, Phases, ForwardCancel
  <2>5. Turn(g, s)
    BY <2>1, <2>2, SocketTypes DEF Turn, ForwardCancel
  <2> QED
    BY <1>a, <2>2, <2>3, <2>4, <2>5, SocketTurns
<1>10. CASE \E g \in Gens : TakeQueued(g)
  <2>1. PICK g \in Gens : TakeQueued(g)
    BY <1>10
  <2> DEFINE s == [sock[g] EXCEPT !.chan = Tail(sock[g].chan),
                      !.sending = IF pend[Head(sock[g].chan)] # NoPend /\ pend[Head(sock[g].chan)].gen = g
                                    THEN Head(sock[g].chan) ELSE NoRequest]
  <2>2. g \in Gens /\ sock[g] \in Socket
    BY <2>1, <1>a
  <2>3. sock' = [sock EXCEPT ![g] = s]
    BY <2>1, <2>2, <1>a DEF TakeQueued
  <2>4. s \in Socket /\ (s.written => s.sending # NoRequest)
    <3>1. Tail(sock[g].chan) \in Seq(Requests) /\ Head(sock[g].chan) \in Requests
      BY <2>1, <2>2, SocketTypes DEF TakeQueued
    <3>2. sock[g].written = FALSE
      BY <2>1, <2>2, <1>a, SocketTypes DEF TakeQueued, SocketShape
    <3> DEFINE c == Tail(sock[g].chan)
               h == IF pend[Head(sock[g].chan)] # NoPend /\ pend[Head(sock[g].chan)].gen = g
                      THEN Head(sock[g].chan) ELSE NoRequest
    <3>3. c \in Seq(Requests) /\ h \in Requests \cup {NoRequest}
      BY <3>1
    <3> HIDE DEF c, h
    <3>4. s = [sock[g] EXCEPT !.chan = c, !.sending = h]
      BY DEF c, h
    <3> HIDE DEF s
    <3> QED
      BY <2>2, <3>2, <3>3, <3>4, SocketTypes DEF Socket
  <2>5. Turn(g, s)
    BY <2>1, <2>2, SocketTypes DEF Turn, TakeQueued
  <2> QED
    BY <1>a, <2>2, <2>3, <2>4, <2>5, SocketTurns
<1>11. CASE \E g \in Gens : SocketWrite(g)
  <2>1. PICK g \in Gens : SocketWrite(g)
    BY <1>11
  <2> DEFINE s == [sock[g] EXCEPT !.written = TRUE]
  <2>2. g \in Gens /\ sock[g] \in Socket
    BY <2>1, <1>a
  <2>3. sock' = [sock EXCEPT ![g] = s]
    BY <2>1, <2>2, <1>a DEF SocketWrite
  <2>4. s \in Socket /\ (s.written => s.sending # NoRequest)
    BY <2>1, <2>2, <1>a, SocketTypes DEF Socket, SocketShape, Phases, SocketWrite
  <2>5. Turn(g, s)
    BY <2>1, <2>2, SocketTypes DEF Turn, SocketWrite
  <2> QED
    BY <1>a, <2>2, <2>3, <2>4, <2>5, SocketTurns
<1>12. CASE \E g \in Gens : RequestForwarded(g)
  <2>1. PICK g \in Gens : RequestForwarded(g)
    BY <1>12
  <2> DEFINE s == [sock[g] EXCEPT !.sending = NoRequest, !.written = FALSE,
                      !.wake = @ \/ (/\ pend[sock[g].sending] # NoPend /\ pend[sock[g].sending].gen = g
                                     /\ pend[sock[g].sending].cancel /\ conn.gen = g)]
  <2>2. g \in Gens /\ sock[g] \in Socket
    BY <2>1, <1>a
  <2>3. sock' = [sock EXCEPT ![g] = s]
    BY <2>1, <2>2, <1>a DEF RequestForwarded
  <2>4. s \in Socket /\ (s.written => s.sending # NoRequest)
    BY <2>1, <2>2, <1>a, SocketTypes DEF Socket, SocketShape, Phases, RequestForwarded
  <2>5. Turn(g, s)
    BY <2>1, <2>2, SocketTypes DEF Turn, RequestForwarded
  <2> QED
    BY <1>a, <2>2, <2>3, <2>4, <2>5, SocketTurns
<1>13. CASE \E g \in Gens : ForwardStops(g)
  <2>1. PICK g \in Gens : ForwardStops(g)
    BY <1>13
  <2> DEFINE s == ForwardEnds("stopped")
  <2>2. g \in Gens /\ sock[g] \in Socket
    BY <2>1, <1>a
  <2>3. sock' = [sock EXCEPT ![g] = s]
    BY <2>1, <2>2, <1>a DEF ForwardStops, Phases
  <2>4. s \in Socket /\ (s.written => s.sending # NoRequest)
    BY <2>1, <2>2, <1>a, SocketTypes, SocketEnds DEF Socket, SocketShape, Phases, ForwardStops
  <2>5. Turn(g, s)
    BY <2>1, <2>2, SocketTypes, SocketEnds DEF Turn, ForwardStops, Phases
  <2> QED
    BY <1>a, <2>2, <2>3, <2>4, <2>5, SocketTurns
<1>14. CASE \E g \in Gens : Disconnect(g)
  <2>1. PICK g \in Gens : Disconnect(g)
    BY <1>14
  <2> DEFINE s == ForwardEnds("closing")
  <2>2. g \in Gens /\ sock[g] \in Socket
    BY <2>1, <1>a
  <2>3. sock' = [sock EXCEPT ![g] = s]
    BY <2>1, <2>2, <1>a DEF Disconnect, Phases
  <2>4. s \in Socket /\ (s.written => s.sending # NoRequest)
    BY <2>1, <2>2, <1>a, SocketTypes, SocketEnds DEF Socket, SocketShape, Phases, Disconnect
  <2>5. Turn(g, s)
    BY <2>1, <2>2, SocketTypes, SocketEnds DEF Turn, Disconnect, Phases
  <2> QED
    BY <1>a, <2>2, <2>3, <2>4, <2>5, SocketTurns
<1>15. CASE \E g \in Gens : UnregisterGeneration(g)
  <2>1. PICK g \in Gens : UnregisterGeneration(g)
    BY <1>15
  <2> DEFINE s == [sock[g] EXCEPT !.phase = "closed"]
  <2>2. g \in Gens /\ sock[g] \in Socket
    BY <2>1, <1>a
  <2>3. sock' = [sock EXCEPT ![g] = s]
    BY <2>1, <2>2, <1>a DEF UnregisterGeneration
  <2>4. s \in Socket /\ (s.written => s.sending # NoRequest)
    BY <2>1, <2>2, <1>a, SocketTypes DEF Socket, SocketShape, Phases, UnregisterGeneration
  <2>5. Turn(g, s)
    BY <2>1, <2>2, SocketTypes DEF Turn, UnregisterGeneration
  <2> QED
    BY <1>a, <2>2, <2>3, <2>4, <2>5, SocketTurns
<1>16. CASE \E g \in Gens, r \in Requests : ReceiveResult(g, r)
  BY <1>16, <1>a, SocketStays DEF ReceiveResult
<1>17. CASE BeginReconnect
  BY <1>17, <1>a, SocketStays DEF BeginReconnect
<1>18. CASE CommitReconnect
  <2> DEFINE g == nextGen
  <2>1. g \in Gens
    BY <1>18 DEF CommitReconnect, PoolShape, EntryShape, Gens
  <2>2. NewSocket \in Socket
    BY DEF NewSocket, Socket, Phases
  <2>3. sock' = [sock EXCEPT ![g] = NewSocket]
    BY <1>18 DEF CommitReconnect
  <2>4. /\ NewSocket.written => NewSocket.sending # NoRequest
        /\ Turn(g, NewSocket)
    BY DEF NewSocket, Turn
  <2> QED
    BY <1>a, <2>1, <2>2, <2>3, <2>4, SocketTurns
<1>19. CASE AbortReconnect
  BY <1>19, <1>a, SocketStays DEF AbortReconnect
<1>20. CASE Drain
  BY <1>20, <1>a, SocketStays DEF Drain
<1>21. CASE UNCHANGED vars
  BY <1>21, <1>a, SocketStays DEF vars
<1> QED
  BY <1>1, <1>2, <1>3, <1>4, <1>5, <1>6, <1>7, <1>8, <1>9, <1>10, <1>11, <1>12, <1>13,
     <1>14, <1>15, <1>16, <1>17, <1>18, <1>19, <1>20, <1>21
  DEF Next, ForwardTask

(* A request's custody is replaced by a well-formed one. *)
LEMMA CustodyTypes ==
  ASSUME NEW p \in Custody
  PROVE  /\ p.gen \in 0..MaxConn /\ p.forwarded \in BOOLEAN /\ p.cancel \in BOOLEAN
         /\ p.cancelGen \in 0..MaxConn
         /\ [p EXCEPT !.cancel = TRUE] \in Custody
         /\ [p EXCEPT !.forwarded = TRUE] \in Custody
         /\ \A g \in Gens : [p EXCEPT !.cancelGen = g] \in Custody
         /\ \A g \in Gens : [NoPend EXCEPT !.gen = g] \in Custody
         /\ NoPend \in Custody
<1>1. 0 \in 0..MaxConn /\ Gens \subseteq 0..MaxConn
  BY PoolAssumption DEF Gens
<1> HIDE DEF Gens
<1>2. NoPend \in Custody
  BY <1>1 DEF NoPend, Custody
<1>3. \A g \in Gens : [NoPend EXCEPT !.gen = g] \in Custody
  BY <1>1, <1>2 DEF Custody
<1>4. \A g \in Gens : [p EXCEPT !.cancelGen = g] \in Custody
  BY <1>1 DEF Custody
<1>5. [p EXCEPT !.cancel = TRUE] \in Custody /\ [p EXCEPT !.forwarded = TRUE] \in Custody
  BY DEF Custody
<1> QED
  BY <1>2, <1>3, <1>4, <1>5 DEF Custody

LEMMA RequestStep ==
  ASSUME PoolShape, [Next]_vars
  PROVE  RequestShape'
<1> USE PoolAssumption DEF PoolShape, RequestShape
<1>a. NoPend \in Custody /\ \A r \in Requests : pend[r] \in Custody
  BY PoolAssumption DEF Custody, NoPend
<1>1. CASE \E r \in Requests : Lookup(r)
  <2>1. PICK r \in Requests : Lookup(r)
    BY <1>1
  <2>2. UNCHANGED <<pend, results, got, cancelled>>
    BY <2>1 DEF Lookup
  <2>3. conn.gen \in SenderOpen => conn \in [gen: Gens, map: Gens]
    BY DEF EntryShape, SenderOpen, NoConn, Gens
  <2>4. [gen: Gens, map: Gens] \subseteq [gen: 0..MaxConn, map: 0..MaxConn]
    BY DEF Gens
  <2>5. /\ caller' \in [Requests -> Callers]
        /\ at' \in [Requests -> [gen: 0..MaxConn, map: 0..MaxConn]]
        /\ \A x \in Requests : x # r => caller'[x] = caller[x] /\ at'[x] = at[x]
    BY <2>1, <2>3, <2>4 DEF Lookup, Callers
  <2>6. caller'[r] \in Bound => at'[r] \in [gen: Gens, map: Gens]
    BY <2>1, <2>3 DEF Lookup, Bound
  <2>7. \A x \in Requests : caller'[x] \in Bound => at'[x].gen \in Gens /\ at'[x].map \in Gens
    BY <2>5, <2>6
  <2> QED
    BY <2>2, <2>5, <2>7
<1>2. CASE \E r \in Requests : RemoveClosed(r)
  BY <1>2, <1>a, CustodyTypes
  DEF RemoveClosed, Callers, Bound, EntryShape, NoConn
<1>3. CASE \E r \in Requests : Reserve(r)
  <2>1. PICK r \in Requests : Reserve(r)
    BY <1>3
  <2>2. at[r].gen \in Gens /\ at[r].map \in Gens /\ caller[r] \in Bound
    BY <2>1 DEF Reserve, Bound
  <2>3. pend' \in [Requests -> Custody]
    <3> DEFINE p == [NoPend EXCEPT !.gen = at[r].gen]
    <3>1. p \in Custody
      BY <2>2, <1>a, CustodyTypes
    <3>2. pend' = pend \/ pend' = [pend EXCEPT ![r] = p]
      BY <2>1 DEF Reserve
    <3> HIDE DEF p
    <3> QED
      BY <3>1, <3>2
  <2>4. results' \in [Gens -> SUBSET Requests]
    BY <2>1, <2>2 DEF Reserve
  <2>5. /\ caller' \in [Requests -> Callers] /\ UNCHANGED <<at, got, cancelled>>
        /\ \A x \in Requests : x # r => caller'[x] = caller[x]
    BY <2>1 DEF Reserve, Callers
  <2> QED
    BY <2>2, <2>3, <2>4, <2>5
<1>4. CASE \E r \in Requests : Enqueue(r)
  BY <1>4, <1>a, CustodyTypes
  DEF Enqueue, Callers, Bound, EntryShape, NoConn
<1>5. CASE \E r \in Requests : EnqueueFails(r)
  BY <1>5, <1>a, CustodyTypes
  DEF EnqueueFails, Callers, Bound, EntryShape, NoConn
<1>6. CASE \E r \in Requests : GiveUp(r)
  <2>1. PICK r \in Requests : GiveUp(r)
    BY <1>6
  <2>2. at[r].gen \in Gens /\ at[r].map \in Gens /\ caller[r] \in Bound
    BY <2>1 DEF GiveUp, Bound
  <2>3. pend' \in [Requests -> Custody]
    BY <2>1, <1>a, CustodyTypes DEF GiveUp, RequestCancellation
  <2>4. results' \in [Gens -> SUBSET Requests]
    BY <2>1, <2>2 DEF GiveUp
  <2>5. /\ caller' \in [Requests -> Callers] /\ UNCHANGED <<at, got, cancelled>>
        /\ \A x \in Requests : x # r => caller'[x] = caller[x]
    BY <2>1 DEF GiveUp, Callers
  <2> QED
    BY <2>2, <2>3, <2>4, <2>5
<1>7. CASE \E r \in Requests : Expire(r)
  BY <1>7, <1>a, CustodyTypes
  DEF Expire, Callers, Bound, EntryShape, NoConn
<1>8. CASE \E g \in Gens : ScanCancellations(g)
  BY <1>8, <1>a, CustodyTypes
  DEF ScanCancellations, Cancellations, Callers, Bound, EntryShape, NoConn
<1>9. CASE \E g \in Gens : ForwardCancel(g)
  <2>1. PICK g \in Gens : ForwardCancel(g)
    BY <1>9
  <2>2. PICK r \in sock[g].todo :
          /\ cancelled' = IF EdgeReads(g) THEN cancelled \cup {r} ELSE cancelled
          /\ pend' = [pend EXCEPT ![r] = IF @.cancel THEN [@ EXCEPT !.cancelGen = g] ELSE @]
    BY <2>1 DEF ForwardCancel
  <2>3. r \in Requests
    BY SocketTypes DEF SocketShape
  <2>4. pend' \in [Requests -> Custody]
    BY <2>2, <2>3, <1>a, CustodyTypes
  <2> QED
    BY <2>1, <2>2, <2>3, <2>4 DEF ForwardCancel
<1>10. CASE \E g \in Gens : TakeQueued(g)
  BY <1>10, <1>a, CustodyTypes
  DEF TakeQueued, Callers, Bound, EntryShape, NoConn
<1>11. CASE \E g \in Gens : SocketWrite(g)
  BY <1>11, <1>a, CustodyTypes, SocketTypes
  DEF SocketWrite, SocketShape
<1>12. CASE \E g \in Gens : RequestForwarded(g)
  <2>1. PICK g \in Gens : RequestForwarded(g)
    BY <1>12
  <2> DEFINE r == sock[g].sending
  <2>2. r \in Requests
    BY <2>1, SocketTypes DEF RequestForwarded, SocketShape
  <2>3. pend' = pend \/ pend' = [pend EXCEPT ![r] = [pend[r] EXCEPT !.forwarded = TRUE]]
    BY <2>1 DEF RequestForwarded
  <2>4. pend' \in [Requests -> Custody]
    <3> DEFINE p == [pend[r] EXCEPT !.forwarded = TRUE]
    <3>1. p \in Custody
      BY <2>2, <1>a, CustodyTypes
    <3> HIDE DEF p
    <3>2. pend' = pend \/ pend' = [pend EXCEPT ![r] = p]
      BY <2>3 DEF p
    <3> HIDE DEF r
    <3> QED
      BY <2>2, <3>1, <3>2
  <2> QED
    BY <2>1, <2>4 DEF RequestForwarded
<1>13. CASE \E g \in Gens : ForwardStops(g)
  BY <1>13, <1>a, CustodyTypes
  DEF ForwardStops, ForwardEnds, NoSocket, Callers, Bound, EntryShape, NoConn
<1>14. CASE \E g \in Gens : Disconnect(g)
  BY <1>14, <1>a, CustodyTypes
  DEF Disconnect, ForwardEnds, NoSocket, Callers, Bound, EntryShape, NoConn
<1>15. CASE \E g \in Gens : UnregisterGeneration(g)
  BY <1>15, <1>a, CustodyTypes
  DEF UnregisterGeneration, Remove, Callers, Bound, EntryShape, NoConn
<1>16. CASE \E g \in Gens, r \in Requests : ReceiveResult(g, r)
  <2>1. PICK g \in Gens, r \in Requests : ReceiveResult(g, r)
    BY <1>16
  <2>2. conn # NoConn => conn.map \in Gens
    BY DEF EntryShape
  <2>3. pend' \in [Requests -> Custody]
    BY <2>1, <1>a DEF ReceiveResult, DeliverToolResult
  <2>4. results' \in [Gens -> SUBSET Requests]
    BY <2>1, <2>2 DEF ReceiveResult, DeliverToolResult
  <2>5. /\ caller' \in [Requests -> Callers] /\ UNCHANGED <<at, got, cancelled>>
        /\ \A x \in Requests : caller'[x] \in Bound => caller[x] \in Bound
    BY <2>1 DEF ReceiveResult, DeliverToolResult, Callers, Bound
  <2> QED
    BY <2>3, <2>4, <2>5
<1>17. CASE BeginReconnect
  BY <1>17, <1>a, CustodyTypes
  DEF BeginReconnect, Callers, Bound, EntryShape, NoConn
<1>18. CASE CommitReconnect
  BY <1>18, <1>a, CustodyTypes
  DEF CommitReconnect, DropReservation, NewSocket, Callers, Bound, EntryShape, NoConn
<1>19. CASE AbortReconnect
  BY <1>19, <1>a, CustodyTypes
  DEF AbortReconnect, DropReservation, Callers, Bound, EntryShape, NoConn
<1>20. CASE Drain
  BY <1>20, <1>a, CustodyTypes
  DEF Drain, Remove, Callers, Bound, EntryShape, NoConn
<1>21. CASE UNCHANGED vars
  BY <1>21 DEF vars
<1> QED
  BY <1>1, <1>2, <1>3, <1>4, <1>5, <1>6, <1>7, <1>8, <1>9, <1>10, <1>11, <1>12, <1>13,
     <1>14, <1>15, <1>16, <1>17, <1>18, <1>19, <1>20, <1>21
  DEF Next, ForwardTask

LEMMA ShapeStep ==
  ASSUME PoolShape, [Next]_vars
  PROVE  PoolShape'
  BY EntryStep, SocketStep, RequestStep DEF PoolShape

-----------------------------------------------------------------------------
(* What a step may make of a request, whoever takes it.  A caller that has     *)
(* handed its request over never takes that back, and never reads the pool     *)
(* again.                                                                      *)
LEMMA CallerMoves ==
  ASSUME PoolShape, [Next]_vars, NEW r \in Requests
  PROVE  /\ caller'[r] \in Early => caller[r] \in Early
         /\ caller[r] # "idle" => caller'[r] # "idle" /\ at'[r] = at[r]
<1> USE DEF PoolShape, RequestShape
<1>1. CASE \E x \in Requests : Lookup(x)
  BY <1>1 DEF Lookup, Early, Callers
<1>2. CASE \E x \in Requests : RemoveClosed(x)
  BY <1>2 DEF RemoveClosed, Early, Callers
<1>3. CASE \E x \in Requests : Reserve(x)
  BY <1>3 DEF Reserve, Early, Callers
<1>4. CASE \E x \in Requests : Enqueue(x)
  BY <1>4 DEF Enqueue, Early, Callers
<1>5. CASE \E x \in Requests : EnqueueFails(x)
  BY <1>5 DEF EnqueueFails, Early, Callers
<1>6. CASE \E x \in Requests : GiveUp(x)
  BY <1>6 DEF GiveUp, Early, Callers
<1>7. CASE \E x \in Requests : Expire(x)
  BY <1>7 DEF Expire, Early, Callers
<1>8. CASE \E g \in Gens : ScanCancellations(g)
  BY <1>8 DEF ScanCancellations, Early, Callers
<1>9. CASE \E g \in Gens : ForwardCancel(g)
  BY <1>9 DEF ForwardCancel, Early, Callers
<1>10. CASE \E g \in Gens : TakeQueued(g)
  BY <1>10 DEF TakeQueued, Early, Callers
<1>11. CASE \E g \in Gens : SocketWrite(g)
  BY <1>11 DEF SocketWrite, Early, Callers
<1>12. CASE \E g \in Gens : RequestForwarded(g)
  BY <1>12 DEF RequestForwarded, Early, Callers
<1>13. CASE \E g \in Gens : ForwardStops(g)
  BY <1>13 DEF ForwardStops, Early, Callers
<1>14. CASE \E g \in Gens : Disconnect(g)
  BY <1>14 DEF Disconnect, Early, Callers
<1>15. CASE \E g \in Gens : UnregisterGeneration(g)
  BY <1>15 DEF UnregisterGeneration, Early, Callers
<1>16. CASE \E g \in Gens, x \in Requests : ReceiveResult(g, x)
  BY <1>16 DEF ReceiveResult, DeliverToolResult, Early, Callers
<1>17. CASE BeginReconnect
  BY <1>17 DEF BeginReconnect, Early, Callers
<1>18. CASE CommitReconnect
  BY <1>18 DEF CommitReconnect, Early, Callers
<1>19. CASE AbortReconnect
  BY <1>19 DEF AbortReconnect, Early, Callers
<1>20. CASE Drain
  BY <1>20 DEF Drain, Early, Callers
<1>21. CASE UNCHANGED vars
  BY <1>21 DEF vars
<1> QED
  BY <1>1, <1>2, <1>3, <1>4, <1>5, <1>6, <1>7, <1>8, <1>9, <1>10, <1>11, <1>12, <1>13,
     <1>14, <1>15, <1>16, <1>17, <1>18, <1>19, <1>20, <1>21
  DEF Next, ForwardTask

(* Only what lies with a forward task reaches the edge. *)
LEMMA GotMoves ==
  ASSUME PoolShape, [Next]_vars, NEW r \in Requests, r \in got'
  PROVE  r \in got \/ \E g \in Gens : Placed(r, g)
<1>1. CASE \E g \in Gens : SocketWrite(g)
  BY <1>1 DEF SocketWrite, Placed
<1>2. CASE UNCHANGED got
  BY <1>2
<1>3. (\E g \in Gens : SocketWrite(g)) \/ UNCHANGED got
  BY DEF Next, ForwardTask, vars, Lookup, RemoveClosed, Reserve, Enqueue, EnqueueFails, GiveUp,
         Expire, ScanCancellations, ForwardCancel, TakeQueued, RequestForwarded, ForwardStops,
         Disconnect, UnregisterGeneration, ReceiveResult, BeginReconnect, CommitReconnect,
         AbortReconnect, Drain
<1> QED
  BY <1>1, <1>2, <1>3

(* A request comes to lie somewhere only by being handed over. *)
LEMMA PlaceMoves ==
  ASSUME PoolShape, Turns, NEW r \in Requests, NEW g \in Gens, Placed(r, g)'
  PROVE  \/ Placed(r, g)
         \/ caller[r] = "sending" /\ caller'[r] = "waiting" /\ at[r].gen = g
<1> DEFINE c == sock[g].chan
           d == sock'[g].chan
<1>1. c \in Seq(Requests) /\ r # NoRequest /\ Turn(g, sock'[g])
  BY SocketTypes, PoolAssumption DEF PoolShape, SocketShape, Turns
<1>2. CASE d = c /\ sock'[g].sending \in {sock[g].sending, NoRequest}
  BY <1>1, <1>2 DEF Placed, InChannel
<1>3. CASE d = <<>> /\ sock'[g].sending = NoRequest
  BY <1>1, <1>3 DEF Placed, InChannel
<1>4. ASSUME sock'[g].sending = sock[g].sending,
             NEW x \in Requests, caller[x] = "sending", caller'[x] = "waiting",
             at[x].gen = g, d = Append(c, x)
      PROVE  Placed(r, g) \/ r = x
  BY <1>1, <1>4 DEF Placed, InChannel
<1>5. CASE /\ c # <<>> /\ d = Tail(c)
           /\ sock[g].sending = NoRequest /\ sock'[g].sending \in {Head(c), NoRequest}
  <2>1. Len(c) >= 1 /\ Len(d) = Len(c) - 1 /\ Head(c) = c[1]
        /\ \A i \in 1..Len(d) : i + 1 \in 1..Len(c) /\ d[i] = c[i + 1]
    BY <1>1, <1>5
  <2> QED
    BY <1>1, <1>5, <2>1 DEF Placed, InChannel
<1> QED
  BY <1>1, <1>2, <1>3, <1>4, <1>5 DEF Turn

LEMMA OneCopyStep ==
  ASSUME PoolInv, Turns
  PROVE  OneCopy'
<1> SUFFICES ASSUME NEW g \in Gens
             PROVE  /\ \A i, j \in 1..Len(sock'[g].chan) :
                         sock'[g].chan[i] = sock'[g].chan[j] => i = j
                    /\ ~InChannel(sock[g].sending, g)'
  BY DEF OneCopy
<1> DEFINE c == sock[g].chan
           d == sock'[g].chan
<1>1. /\ c \in Seq(Requests) /\ NoRequest \notin Requests /\ Turn(g, sock'[g])
      /\ \A i \in 1..Len(c) : c[i] \in Requests
      /\ \A i, j \in 1..Len(c) : c[i] = c[j] => i = j
      /\ \A i \in 1..Len(c) : c[i] # sock[g].sending
  BY SocketTypes, PoolAssumption DEF PoolInv, PoolShape, SocketShape, Turns, OneCopy, InChannel
<1>2. CASE d = c /\ sock'[g].sending \in {sock[g].sending, NoRequest}
  BY <1>1, <1>2 DEF InChannel
<1>3. CASE d = <<>> /\ sock'[g].sending = NoRequest
  BY <1>1, <1>3 DEF InChannel
<1>4. ASSUME sock'[g].sending = sock[g].sending,
             NEW x \in Requests, caller[x] = "sending", caller'[x] = "waiting",
             at[x].gen = g, d = Append(c, x)
      PROVE  /\ \A i, j \in 1..Len(d) : d[i] = d[j] => i = j
             /\ ~InChannel(sock[g].sending, g)'
  <2>1. x # sock[g].sending /\ \A i \in 1..Len(c) : c[i] # x
    BY <1>4 DEF PoolInv, EarlyIsUntouched, Early, Nowhere, Placed, InChannel
  <2>2. /\ Len(d) = Len(c) + 1 /\ d[Len(c) + 1] = x
        /\ \A i \in 1..Len(c) : d[i] = c[i]
    BY <1>1, <1>4
  <2>3. Len(c) \in Nat
    BY <1>1
  <2>4. \A i \in 1..Len(d) : i \in 1..Len(c) \/ i = Len(c) + 1
    BY <2>2, <2>3
  <2> HIDE DEF c, d
  <2> QED
    BY <1>1, <1>4, <2>1, <2>2, <2>3, <2>4 DEF InChannel, d
<1>5. CASE /\ c # <<>> /\ d = Tail(c)
           /\ sock[g].sending = NoRequest /\ sock'[g].sending \in {Head(c), NoRequest}
  <2>1. /\ Len(c) \in Nat /\ Len(c) >= 1 /\ Len(d) = Len(c) - 1 /\ Head(c) = c[1]
        /\ \A i \in 1..Len(d) : i + 1 \in 1..Len(c) /\ d[i] = c[i + 1]
    BY <1>1, <1>5
  <2> HIDE DEF c
  <2> QED
    BY <1>1, <1>5, <2>1 DEF InChannel
<1> QED
  BY <1>1, <1>2, <1>3, <1>4, <1>5 DEF Turn

(* A request is marked as forwarded by the task that puts it away, and nothing *)
(* else moves in that step.                                                    *)
PutAway(r) ==
  \E g \in Gens :
    /\ sock[g].sending = r /\ sock'[g].sending = NoRequest /\ sock'[g].chan = sock[g].chan
    /\ \A h \in Gens : h # g => sock'[h] = sock[h]

LEMMA ForwardedMoves ==
  ASSUME PoolShape, [Next]_vars, NEW r \in Requests, pend'[r].forwarded
  PROVE  pend[r].forwarded \/ PutAway(r)
<1> USE DEF PoolShape, RequestShape
<1>a. pend[r] \in Custody /\ NoPend.forwarded = FALSE
  BY DEF NoPend
<1>b. /\ pend[r].forwarded \in BOOLEAN
      /\ [pend[r] EXCEPT !.cancel = TRUE].forwarded = pend[r].forwarded
      /\ \A g : [pend[r] EXCEPT !.cancelGen = g].forwarded = pend[r].forwarded
      /\ \A g : [NoPend EXCEPT !.gen = g].forwarded = FALSE
  BY <1>a DEF Custody, NoPend
<1>1. CASE \E x \in Requests : Lookup(x)
  BY <1>1, <1>a, <1>b DEF Lookup
<1>2. CASE \E x \in Requests : RemoveClosed(x)
  BY <1>2, <1>a, <1>b DEF RemoveClosed
<1>3. CASE \E x \in Requests : Reserve(x)
  <2>1. PICK x \in Requests : Reserve(x)
    BY <1>3
  <2>2. pend'[r] = pend[r] \/ pend'[r] = [NoPend EXCEPT !.gen = at[x].gen]
    BY <2>1 DEF Reserve
  <2> QED
    BY <2>2, <1>b
<1>4. CASE \E x \in Requests : Enqueue(x)
  BY <1>4, <1>a, <1>b DEF Enqueue
<1>5. CASE \E x \in Requests : EnqueueFails(x)
  BY <1>5, <1>a, <1>b DEF EnqueueFails
<1>6. CASE \E x \in Requests : GiveUp(x)
  BY <1>6, <1>a, <1>b DEF GiveUp, RequestCancellation
<1>7. CASE \E x \in Requests : Expire(x)
  BY <1>7, <1>a, <1>b DEF Expire
<1>8. CASE \E g \in Gens : ScanCancellations(g)
  BY <1>8, <1>a, <1>b DEF ScanCancellations
<1>9. CASE \E g \in Gens : ForwardCancel(g)
  BY <1>9, <1>a, <1>b DEF ForwardCancel
<1>10. CASE \E g \in Gens : TakeQueued(g)
  BY <1>10, <1>a, <1>b DEF TakeQueued
<1>11. CASE \E g \in Gens : SocketWrite(g)
  BY <1>11, <1>a, <1>b DEF SocketWrite
<1>12. CASE \E g \in Gens : RequestForwarded(g)
  <2>1. PICK g \in Gens : RequestForwarded(g)
    BY <1>12
  <2>2. CASE r = sock[g].sending
    <3>1. sock[g] \in Socket
      BY DEF SocketShape
    <3> QED
      BY <2>1, <2>2, <3>1, SocketTypes DEF RequestForwarded, SocketShape, PutAway
  <2>3. CASE r # sock[g].sending
    BY <2>1, <2>3 DEF RequestForwarded
  <2> QED
    BY <2>2, <2>3
<1>13. CASE \E g \in Gens : ForwardStops(g)
  BY <1>13, <1>a, <1>b DEF ForwardStops
<1>14. CASE \E g \in Gens : Disconnect(g)
  BY <1>14, <1>a, <1>b DEF Disconnect
<1>15. CASE \E g \in Gens : UnregisterGeneration(g)
  BY <1>15, <1>a, <1>b DEF UnregisterGeneration
<1>16. CASE \E g \in Gens, x \in Requests : ReceiveResult(g, x)
  BY <1>16, <1>a, <1>b DEF ReceiveResult, DeliverToolResult
<1>17. CASE BeginReconnect
  BY <1>17, <1>a, <1>b DEF BeginReconnect
<1>18. CASE CommitReconnect
  BY <1>18, <1>a, <1>b DEF CommitReconnect
<1>19. CASE AbortReconnect
  BY <1>19, <1>a, <1>b DEF AbortReconnect
<1>20. CASE Drain
  BY <1>20, <1>a, <1>b DEF Drain
<1>21. CASE UNCHANGED vars
  BY <1>21 DEF vars
<1> QED
  BY <1>1, <1>2, <1>3, <1>4, <1>5, <1>6, <1>7, <1>8, <1>9, <1>10, <1>11, <1>12, <1>13,
     <1>14, <1>15, <1>16, <1>17, <1>18, <1>19, <1>20, <1>21
  DEF Next, ForwardTask

(* A cancellation is sent only from what the task has scanned. *)
LEMMA CancelledMoves ==
  ASSUME PoolShape, [Next]_vars, NEW r \in Requests, r \in cancelled'
  PROVE  r \in cancelled \/ \E g \in Gens : r \in sock[g].todo
<1>1. CASE \E g \in Gens : ForwardCancel(g)
  BY <1>1 DEF ForwardCancel
<1>2. CASE UNCHANGED cancelled
  BY <1>2
<1>3. (\E g \in Gens : ForwardCancel(g)) \/ UNCHANGED cancelled
  BY DEF Next, ForwardTask, vars, Lookup, RemoveClosed, Reserve, Enqueue, EnqueueFails, GiveUp,
         Expire, ScanCancellations, SocketWrite, TakeQueued, RequestForwarded, ForwardStops,
         Disconnect, UnregisterGeneration, ReceiveResult, BeginReconnect, CommitReconnect,
         AbortReconnect, Drain
<1> QED
  BY <1>1, <1>2, <1>3

LEMMA CancellingMoves ==
  ASSUME PoolShape, Turns, [Next]_vars, NEW r \in Requests, Cancelling(r)'
  PROVE  Cancelling(r) \/ PutAway(r)
<1>1. CASE pend'[r].forwarded
  BY <1>1, ForwardedMoves DEF Cancelling
<1>2. CASE r \in cancelled'
  BY <1>2, CancelledMoves DEF Cancelling
<1>3. CASE \E g \in Gens : r \in sock'[g].todo
  BY <1>3 DEF Turns, Turn, Cancelling
<1> QED
  BY <1>1, <1>2, <1>3 DEF Cancelling

(* A waiter's sender is put into the map its caller has read. *)
LEMMA WaiterMoves ==
  ASSUME PoolShape, [Next]_vars, NEW r \in Requests, NEW m \in Gens, r \in results'[m]
  PROVE  r \in results[m] \/ (caller[r] # "idle" /\ at[r].map = m)
<1> USE DEF PoolShape, RequestShape
<1>1. CASE \E x \in Requests : Lookup(x)
  BY <1>1 DEF Lookup
<1>2. CASE \E x \in Requests : RemoveClosed(x)
  BY <1>2 DEF RemoveClosed
<1>3. CASE \E x \in Requests : Reserve(x)
  BY <1>3 DEF Reserve
<1>4. CASE \E x \in Requests : Enqueue(x)
  BY <1>4 DEF Enqueue
<1>5. CASE \E x \in Requests : EnqueueFails(x)
  BY <1>5 DEF EnqueueFails
<1>6. CASE \E x \in Requests : GiveUp(x)
  BY <1>6 DEF GiveUp
<1>7. CASE \E x \in Requests : Expire(x)
  BY <1>7 DEF Expire
<1>8. CASE \E g \in Gens : ScanCancellations(g)
  BY <1>8 DEF ScanCancellations
<1>9. CASE \E g \in Gens : ForwardCancel(g)
  BY <1>9 DEF ForwardCancel
<1>10. CASE \E g \in Gens : TakeQueued(g)
  BY <1>10 DEF TakeQueued
<1>11. CASE \E g \in Gens : SocketWrite(g)
  BY <1>11 DEF SocketWrite
<1>12. CASE \E g \in Gens : RequestForwarded(g)
  BY <1>12 DEF RequestForwarded
<1>13. CASE \E g \in Gens : ForwardStops(g)
  BY <1>13 DEF ForwardStops
<1>14. CASE \E g \in Gens : Disconnect(g)
  BY <1>14 DEF Disconnect
<1>15. CASE \E g \in Gens : UnregisterGeneration(g)
  BY <1>15 DEF UnregisterGeneration, Remove
<1>16. CASE \E g \in Gens, x \in Requests : ReceiveResult(g, x)
  BY <1>16 DEF ReceiveResult, DeliverToolResult
<1>17. CASE BeginReconnect
  BY <1>17 DEF BeginReconnect
<1>18. CASE CommitReconnect
  BY <1>18 DEF CommitReconnect, DropReservation
<1>19. CASE AbortReconnect
  BY <1>19 DEF AbortReconnect, DropReservation
<1>20. CASE Drain
  BY <1>20 DEF Drain, Remove
<1>21. CASE UNCHANGED vars
  BY <1>21 DEF vars
<1> QED
  BY <1>1, <1>2, <1>3, <1>4, <1>5, <1>6, <1>7, <1>8, <1>9, <1>10, <1>11, <1>12, <1>13,
     <1>14, <1>15, <1>16, <1>17, <1>18, <1>19, <1>20, <1>21
  DEF Next, ForwardTask

-----------------------------------------------------------------------------
LEMMA PoolInit == Init => PoolInv
<1> SUFFICES ASSUME Init PROVE PoolInv
  OBVIOUS
<1>1. PoolShape
  BY ShapeInit
<1>2. \A g \in Gens : /\ sock[g].chan = <<>> /\ sock[g].sending = NoRequest /\ sock[g].todo = {}
                      /\ results[g] = {}
  BY DEF Init, NoSocket
<1>3. \A r \in Requests : r # NoRequest /\ ~pend[r].forwarded
  BY PoolAssumption DEF Init, NoPend
<1>4. \A r : \A g \in Gens : ~InChannel(r, g)
  BY <1>2 DEF InChannel
<1>5. \A r \in Requests, g \in Gens : ~Placed(r, g)
  BY <1>2, <1>3, <1>4 DEF Placed
<1>6. \A r \in Requests : ~Cancelling(r)
  BY <1>2, <1>3 DEF Init, Cancelling
<1>7. OneCopy
  BY <1>2, <1>4 DEF OneCopy
<1> QED
  BY <1>1, <1>2, <1>5, <1>6, <1>7
  DEF PoolInv, PlacedAtHome, EarlyIsUntouched, CancelFollows, WaiterAtHome, Nowhere, Init

LEMMA PoolStep == PoolInv /\ [Next]_vars => PoolInv'
<1> SUFFICES ASSUME PoolInv, [Next]_vars PROVE PoolInv'
  OBVIOUS
<1>1. PoolShape /\ PoolShape' /\ Turns
  BY ShapeStep, SocketStep DEF PoolInv
<1>2. PlacedAtHome'
  <2> SUFFICES ASSUME NEW r \in Requests, NEW g \in Gens, Placed(r, g)'
               PROVE  at'[r].gen = g
    BY DEF PlacedAtHome
  <2>1. caller[r] # "idle"
    <3>1. Placed(r, g) => caller[r] # "idle"
      BY DEF PoolInv, EarlyIsUntouched, Nowhere, Early
    <3> QED
      BY <1>1, <3>1, PlaceMoves
  <2>2. at[r].gen = g
    BY <1>1, PlaceMoves DEF PoolInv, PlacedAtHome
  <2> QED
    BY <1>1, <2>1, <2>2, CallerMoves
<1>3. OneCopy'
  BY <1>1, OneCopyStep
<1>4. EarlyIsUntouched'
  <2> SUFFICES ASSUME NEW r \in Requests, caller'[r] \in Early
               PROVE  r \notin got' /\ Nowhere(r)' /\ ~Cancelling(r)'
    BY DEF EarlyIsUntouched
  <2>1. r \notin got /\ Nowhere(r) /\ ~Cancelling(r)
    BY <1>1, CallerMoves DEF PoolInv, EarlyIsUntouched
  <2>2. r \notin got'
    BY <1>1, <2>1, GotMoves DEF Nowhere
  <2>3. Nowhere(r)'
    BY <1>1, <2>1, PlaceMoves DEF Nowhere, Early
  <2>4. ~PutAway(r)
    BY <2>1 DEF PutAway, Nowhere, Placed
  <2> QED
    BY <1>1, <2>1, <2>2, <2>3, <2>4, CancellingMoves
<1>5. CancelFollows'
  <2> SUFFICES ASSUME NEW r \in Requests, Cancelling(r)'
               PROVE  Nowhere(r)'
    BY DEF CancelFollows
  <2>1. CASE Cancelling(r)
    <3>1. Nowhere(r) /\ caller[r] # "sending"
      BY <2>1 DEF PoolInv, CancelFollows, EarlyIsUntouched, Early
    <3> QED
      BY <1>1, <3>1, PlaceMoves DEF Nowhere
  <2>2. CASE PutAway(r)
    <3>1. PICK g \in Gens :
            /\ sock[g].sending = r /\ sock'[g].sending = NoRequest /\ sock'[g].chan = sock[g].chan
            /\ \A h \in Gens : h # g => sock'[h] = sock[h]
      BY <2>2 DEF PutAway
    <3>2. ~InChannel(r, g) /\ at[r].gen = g /\ r # NoRequest
      BY <3>1, PoolAssumption DEF PoolInv, OneCopy, PlacedAtHome, Placed
    <3>3. ~Placed(r, g)'
      BY <3>1, <3>2 DEF Placed, InChannel
    <3>4. \A h \in Gens : h # g => ~Placed(r, h)
      BY <3>2 DEF PoolInv, PlacedAtHome
    <3>5. \A h \in Gens : h # g => ~Placed(r, h)'
      BY <3>1, <3>4 DEF Placed, InChannel
    <3> QED
      BY <3>3, <3>5 DEF Nowhere
  <2> QED
    BY <1>1, <2>1, <2>2, CancellingMoves
<1>6. WaiterAtHome'
  <2> SUFFICES ASSUME NEW r \in Requests, NEW m \in Gens, r \in results'[m]
               PROVE  caller'[r] # "idle" /\ at'[r].map = m
    BY DEF WaiterAtHome
  <2>1. caller[r] # "idle" /\ at[r].map = m
    BY <1>1, WaiterMoves DEF PoolInv, WaiterAtHome
  <2> QED
    BY <1>1, <2>1, CallerMoves
<1> QED
  BY <1>1, <1>2, <1>3, <1>4, <1>5, <1>6 DEF PoolInv

-----------------------------------------------------------------------------
(* Whatever the order of sends, deadlines, writes and reconnects: a caller     *)
(* that answered "not sent" has a request that no socket has, or will have,    *)
(* carried.                                                                    *)
THEOREM NotSentTruthful == Spec => []NotSentIsTruthful
<1>1. PoolInv => NotSentIsTruthful
  BY DEF PoolInv, EarlyIsUntouched, Early, NotSentIsTruthful, Nowhere, Placed, InChannel, Queued
<1> QED
  BY PoolInit, PoolStep, <1>1, PTL DEF Spec

(* The edge never receives a request after the request's cancellation.         *)
THEOREM CancelNeverOvertakes == Spec => CancelNeverOvertakesRequest
<1>1. PoolInv /\ [Next]_vars => [\A r \in Requests : r \in got' \ got => r \notin cancelled]_vars
  <2> SUFFICES ASSUME PoolInv, [Next]_vars, NEW r \in Requests, r \in got' \ got
               PROVE  r \notin cancelled
    OBVIOUS
  <2>1. \E g \in Gens : Placed(r, g)
    BY GotMoves DEF PoolInv
  <2> QED
    BY <2>1 DEF PoolInv, CancelFollows, Cancelling, Nowhere
<1> QED
  BY PoolInit, PoolStep, <1>1, PTL DEF Spec, CancelNeverOvertakesRequest

(* A waiter that can be found lies in the map its caller has read, and that is *)
(* the map of the entry or, without an entry, the one a reconnect holds.       *)
LEMMA WhereReachable ==
  ASSUME PoolInv, NEW r \in Requests, Reachable(r)
  PROVE  /\ at[r].map \in Gens /\ r \in results[at[r].map]
         /\ \A m \in Gens : r \in results[m] => m = at[r].map
         /\ conn # NoConn => at[r].map = conn.map
         /\ conn = NoConn => reservation.open /\ at[r].map = reservation.map
<1>1. PICK m \in Gens : r \in results[m] /\ m \in {conn.map, reservation.map}
  BY DEF Reachable
<1>2. at[r].map = m /\ \A n \in Gens : r \in results[n] => n = at[r].map
  BY <1>1 DEF PoolInv, WaiterAtHome
<1>3. m # 0 /\ NoConn.map = 0
  BY DEF Gens, NoConn
<1>4. ~reservation.open => reservation.map = 0
  BY DEF PoolInv, PoolShape, EntryShape
<1>5. reservation.open /\ conn # NoConn => reservation.map = conn.map
  BY DEF PoolInv, PoolShape, EntryShape
<1> QED
  BY <1>1, <1>2, <1>3, <1>4, <1>5

LEMMA HandoverStep ==
  ASSUME PoolInv, [Next]_vars, ~\E x \in Requests : RemoveClosed(x),
         NEW r \in Requests, caller[r] = "waiting", Reachable(r), caller'[r] = "waiting"
  PROVE  \/ Reachable(r)'
         \/ conn' = NoConn /\ \A m \in Gens : r \notin results'[m]
<1> DEFINE m == at[r].map
<1>a. /\ m \in Gens /\ r \in results[m]
      /\ \A n \in Gens : r \in results[n] => n = m
      /\ conn # NoConn => m = conn.map
      /\ conn = NoConn => reservation.open /\ m = reservation.map
  BY WhereReachable
<1>b. /\ m # 0 /\ NoConn.map = 0 /\ NoConn.gen \notin Gens
      /\ m \in {conn.map, reservation.map}
  BY <1>a DEF Gens, NoConn
<1>c. /\ results \in [Gens -> SUBSET Requests] /\ caller \in [Requests -> Callers]
      /\ ~reservation.open => reservation.map = 0
      /\ reservation.open /\ conn # NoConn => reservation.map = conn.map
      /\ \A x \in Requests : caller[x] \in Bound => at[x].map \in Gens
  BY DEF PoolInv, PoolShape, EntryShape, RequestShape
<1>d. UNCHANGED <<conn, reservation>> /\ r \in results'[m] => Reachable(r)'
  BY <1>a, <1>b DEF Reachable
<1> HIDE DEF m
<1>1. CASE \E x \in Requests : Lookup(x)
  BY <1>1, <1>a, <1>c, <1>d DEF Lookup, Bound
<1>2. CASE \E x \in Requests : RemoveClosed(x)
  BY <1>2
<1>3. CASE \E x \in Requests : Reserve(x)
  BY <1>3, <1>a, <1>c, <1>d DEF Reserve, Bound
<1>4. CASE \E x \in Requests : Enqueue(x)
  BY <1>4, <1>a, <1>c, <1>d DEF Enqueue, Bound
<1>5. CASE \E x \in Requests : EnqueueFails(x)
  BY <1>5, <1>a, <1>c, <1>d DEF EnqueueFails, Bound
<1>6. CASE \E x \in Requests : GiveUp(x)
  BY <1>6, <1>a, <1>c, <1>d DEF GiveUp, Bound
<1>7. CASE \E x \in Requests : Expire(x)
  BY <1>7, <1>a, <1>c, <1>d DEF Expire, Bound
<1>8. CASE \E g \in Gens : ScanCancellations(g)
  BY <1>8, <1>a, <1>c, <1>d DEF ScanCancellations
<1>9. CASE \E g \in Gens : ForwardCancel(g)
  BY <1>9, <1>a, <1>c, <1>d DEF ForwardCancel
<1>10. CASE \E g \in Gens : TakeQueued(g)
  BY <1>10, <1>a, <1>c, <1>d DEF TakeQueued
<1>11. CASE \E g \in Gens : SocketWrite(g)
  BY <1>11, <1>a, <1>c, <1>d DEF SocketWrite
<1>12. CASE \E g \in Gens : RequestForwarded(g)
  BY <1>12, <1>a, <1>c, <1>d DEF RequestForwarded
<1>13. CASE \E g \in Gens : ForwardStops(g)
  BY <1>13, <1>a, <1>c, <1>d DEF ForwardStops
<1>14. CASE \E g \in Gens : Disconnect(g)
  BY <1>14, <1>a, <1>c, <1>d DEF Disconnect
<1>15. CASE \E g \in Gens : UnregisterGeneration(g)
  <2>1. PICK g \in Gens : Remove(g) /\ UNCHANGED reservation
    BY <1>15 DEF UnregisterGeneration
  <2>2. CASE conn.gen # g
    BY <2>1, <2>2, <1>a, <1>d DEF Remove
  <2>3. CASE conn.gen = g /\ reservation.open
    <3>1. m = reservation.map /\ UNCHANGED <<reservation, results>>
      BY <2>1, <2>3, <1>a, <1>b, <1>c DEF Remove
    <3> QED
      BY <3>1, <1>a DEF Reachable
  <2>4. CASE conn.gen = g /\ ~reservation.open
    <3>1. conn' = NoConn /\ results' = [results EXCEPT ![m] = {}]
      BY <2>1, <2>4, <1>a, <1>b DEF Remove
    <3> QED
      BY <3>1, <1>a, <1>c
  <2> QED
    BY <2>2, <2>3, <2>4
<1>16. CASE \E g \in Gens, x \in Requests : ReceiveResult(g, x)
  BY <1>16, <1>a, <1>c, <1>d DEF ReceiveResult, DeliverToolResult
<1>17. CASE BeginReconnect
  <2>1. conn.map = m /\ reservation'.map = m /\ results' = results
    BY <1>17, <1>a, <1>b DEF BeginReconnect, NoRes
  <2> QED
    BY <2>1, <1>a DEF Reachable
<1>18. CASE CommitReconnect
  <2>1. conn'.map = m
    BY <1>18, <1>a, <1>b DEF CommitReconnect
  <2>2. reservation.map \in {0, m}
    BY <1>18, <1>a, <1>c DEF CommitReconnect
  <2>3. results' = results
    BY <1>18, <2>1, <2>2 DEF CommitReconnect, DropReservation
  <2> QED
    BY <2>1, <2>3, <1>a DEF Reachable
<1>19. CASE AbortReconnect
  <2>1. CASE conn = NoConn
    <3>1. conn' = NoConn /\ results' = [results EXCEPT ![m] = {}]
      BY <1>19, <2>1, <1>a, <1>b DEF AbortReconnect, DropReservation
    <3> QED
      BY <3>1, <1>a, <1>c
  <2>2. CASE conn # NoConn
    <3>1. conn' = conn /\ results' = results /\ m = conn.map
      BY <1>19, <2>2, <1>a, <1>c DEF AbortReconnect, DropReservation
    <3> QED
      BY <3>1, <1>a DEF Reachable
  <2> QED
    BY <2>1, <2>2
<1>20. CASE Drain
  <2>1. PICK g \in Gens : Remove(g) /\ UNCHANGED reservation
    BY <1>20 DEF Drain, SenderOpen
  <2>2. CASE conn.gen # g
    BY <2>1, <2>2, <1>a, <1>d DEF Remove
  <2>3. CASE conn.gen = g /\ reservation.open
    <3>1. m = reservation.map /\ UNCHANGED <<reservation, results>>
      BY <2>1, <2>3, <1>a, <1>b, <1>c DEF Remove
    <3> QED
      BY <3>1, <1>a DEF Reachable
  <2>4. CASE conn.gen = g /\ ~reservation.open
    <3>1. conn' = NoConn /\ results' = [results EXCEPT ![m] = {}]
      BY <2>1, <2>4, <1>a, <1>b DEF Remove
    <3> QED
      BY <3>1, <1>a, <1>c
  <2> QED
    BY <2>2, <2>3, <2>4
<1>21. CASE UNCHANGED vars
  BY <1>21, <1>a, <1>d DEF vars
<1> QED
  BY <1>1, <1>2, <1>3, <1>4, <1>5, <1>6, <1>7, <1>8, <1>9, <1>10, <1>11, <1>12, <1>13,
     <1>14, <1>15, <1>16, <1>17, <1>18, <1>19, <1>20, <1>21
  DEF Next, ForwardTask

(* Replacing, aborting and cleaning up connections loses no waiter as long as  *)
(* a connection is left, except through the removal of a closed entry.         *)
THEOREM HandoverKeeps == Spec => HandoverKeepsWaiters
<1>1. PoolInv /\ [Next]_vars =>
        [(\E r \in Requests : RemoveClosed(r)) \/
         \A r \in Requests : caller[r] = "waiting" /\ Reachable(r) =>
             \/ Reachable(r)' \/ caller'[r] # "waiting"
             \/ conn' = NoConn /\ \A m \in Gens : r \notin results'[m]]_vars
  BY HandoverStep
<1> QED
  BY PoolInit, PoolStep, <1>1, PTL DEF Spec, HandoverKeepsWaiters
=============================================================================
