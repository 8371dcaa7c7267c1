--------------------------- MODULE MailboxProofs ---------------------------
(***************************************************************************)
(* Proofs about the durable mailbox, for any messages, payloads, numbers of *)
(* subscriptions and attempts, and sizes of the buffer and the context. The *)
(* argument follows the deliveries of one message on one subscription:      *)
(* their claim numbers rise from the confirmation that is owed, through     *)
(* what is parked and buffered, to what the poll loop has in its hand. That *)
(* line is broken only in a loop that has queued parked deliveries behind a *)
(* peeked one.                                                              *)
(***************************************************************************)
EXTENDS Mailbox, TLAPS

Elems(q) == {q[i] : i \in 1..Len(q)}

\* The deliveries of subscription s that are still to be drained.
Mine(s) == hand[s] \cup Elems(buffer[s]) \cup Elems(parked[s])

\* Of two deliveries of one message, e has the later claim.
Precedes(d, e) == d[1] = e[1] => d[2] < e[2]
InOrder(q) == \A i, j \in 1..Len(q) : i < j => Precedes(q[i], q[j])

-----------------------------------------------------------------------------
(* The inductive invariant *)

RowShape ==
    /\ row \in [Msgs -> [st: {"unsent", "pending", "claimed"} \cup Settled, by: 0..MaxSubs,
       n: Nat]]
    /\ claims \in [Msgs -> Nat]
    /\ \A m \in Direct : claims[m] <= MaxAttempts

LoopShape ==
    /\ lastSub \in 0..MaxSubs /\ polling \subseteq Subs /\ looping \subseteq Subs
    /\ deciding \subseteq looping /\ consumed \subseteq Msgs /\ kind \in Kinds

StreamShape ==
    /\ hand \in [Subs -> SUBSET Deliveries]
    /\ buffer \in [Subs -> Seq(Deliveries)] /\ parked \in [Subs -> Seq(Deliveries)]

DrainShape ==
    /\ peeked \in [Subs -> Nat] /\ drained \in [Subs -> 0..DrainCap] /\ overtaken \subseteq Subs
    /\ \A s \in Subs : peeked[s] <= Len(buffer[s])

ContextShape ==
    /\ context \in [Subs -> [Msgs -> {"absent", "staged", "observed"}]]
    /\ pendingAck \in [Subs -> [Msgs -> Nat]]

MailboxShape == RowShape /\ LoopShape /\ StreamShape /\ DrainShape /\ ContextShape

\* A message that may be claimed has an attempt left.
AttemptsLeft ==
    /\ \A m \in Direct : row[m].st \in {"unsent", "pending"} => claims[m] < MaxAttempts
    /\ \A m \in Broadcast : claims[m] <= MaxClaims

\* The claim of a row is the last one made.
ClaimIsLatest == \A m \in Msgs : row[m].st = "claimed" => row[m].n = claims[m] /\ claims[m] > 0

\* A subscription that has not begun, or whose loop has ended, holds nothing.
IdleIsClean ==
    /\ looping \subseteq 1..lastSub
    /\ \A s \in Subs \ looping :
         buffer[s] = <<>> /\ parked[s] = <<>> /\ pendingAck[s] = NoAcks

\* A confirmation that is owed is for a message the provider has seen, or will be
\* shown before the confirmation is due.
Shown(s, m) ==
    /\ context[s][m] = "observed" => m \in consumed
    /\ pendingAck[s][m] # 0 => m \in consumed \/ context[s][m] = "staged"
    /\ s \in deciding => context[s][m] # "staged"

OwedIsShown == \A s \in Subs, m \in Msgs : Shown(s, m)

\* A message is parked only while the context is full of what nobody has seen, so
\* that no later delivery of it is adopted while it is parked.
Waits(s) ==
    /\ \A d \in Elems(parked[s]) : context[s][d[1]] = "absent"
    /\ parked[s] # <<>> /\ s \notin deciding => Full(s) /\ Observed(s) = {}

ParkedWaits == \A s \in Subs : Waits(s)

\* First what is parked, then what is buffered, then what is in the hand, until
\* parked deliveries have been queued behind a peeked one.
InLine(s) ==
    /\ InOrder(buffer[s]) /\ InOrder(parked[s])
    /\ \A d \in Elems(parked[s]), e \in Elems(buffer[s]) : Precedes(d, e)
    /\ \A d \in Elems(parked[s]) \cup Elems(buffer[s]), e \in hand[s] : Precedes(d, e)

Ordered(s) ==
    /\ \A d, e \in hand[s] : d[1] = e[1] => d = e
    /\ s \notin overtaken => InLine(s)

StreamInOrder == \A s \in Subs : Ordered(s)

\* What is still to be drained is, with the same exception, later than what is to
\* be confirmed, and neither is later than the last claim.
Oldest(s) ==
    /\ \A d \in Mine(s) : (s \in overtaken \/ pendingAck[s][d[1]] < d[2]) /\ d[2] <= claims[d[1]]
    /\ \A m \in Msgs : pendingAck[s][m] <= claims[m]

OwedIsOldest == \A s \in Subs : Oldest(s)

MailboxInv ==
    /\ MailboxShape /\ AttemptsLeft /\ ClaimIsLatest /\ IdleIsClean /\ OwedIsShown
    /\ AcknowledgedWasConsumed /\ ParkedWaits /\ StreamInOrder /\ OwedIsOldest

-----------------------------------------------------------------------------
(* Who writes what: the steps that touch each part of the state *)

RowStep ==
    \/ \E m \in Msgs : Send(m) \/ ReclaimStale(m) \/ Cleanup(m)
    \/ \E s \in Subs : \/ ClaimDirect(s) \/ ClaimLost(s) \/ ClaimReleased(s)
                       \/ StopPolling(s) \/ Acknowledge(s)
    \/ \E s \in Subs, m \in Broadcast : ClaimBroadcast(s, m) \/ FailExpiredBroadcast(s, m)
    \/ \E s \in Subs : \E d \in hand[s] : FailExpired(s, d)
    \/ \E s \in Subs : \E d \in Elems(buffer[s]) : Handle(s, d)

LoopStep ==
    \/ Register
    \/ \E s \in Subs : StopPolling(s) \/ ProviderAnswers(s) \/ Acknowledge(s) \/ EndLoop(s)
    \/ \E s \in Subs : \E d \in Elems(buffer[s]) : Handle(s, d)

StreamStep ==
    \/ \E s \in Subs : ClaimDirect(s) \/ StopPolling(s) \/ Acknowledge(s) \/ EndLoop(s)
    \/ \E s \in Subs, m \in Broadcast : ClaimBroadcast(s, m)
    \/ \E s \in Subs : \E d \in hand[s] : Push(s, d) \/ FailExpired(s, d)
    \/ \E s \in Subs : \E d \in Elems(buffer[s]) :
         Handle(s, d) \/ Readopt(s, d) \/ Adopt(s, d) \/ Park(s, d)

DrainStep ==
    \/ \E s \in Subs : TurnEnds(s) \/ Acknowledge(s) \/ EndLoop(s)
    \/ \E s \in Subs : \E d \in hand[s] : Push(s, d)
    \/ \E s \in Subs : \E d \in Elems(buffer[s]) :
         Handle(s, d) \/ Readopt(s, d) \/ Adopt(s, d) \/ Park(s, d)

ContextStep ==
    \/ Register
    \/ \E s \in Subs : ProviderAnswers(s) \/ Acknowledge(s) \/ EndLoop(s)
    \/ \E s \in Subs : \E d \in Elems(buffer[s]) : Readopt(s, d) \/ Adopt(s, d)

LEMMA WhoWrites ==
  ASSUME [Next]_vars
  PROVE  /\ RowStep \/ UNCHANGED <<row, claims>>
         /\ LoopStep \/ UNCHANGED <<lastSub, polling, looping, deciding, consumed, kind>>
         /\ StreamStep \/ UNCHANGED <<hand, buffer, parked>>
         /\ DrainStep \/ UNCHANGED <<buffer, peeked, drained, overtaken>>
         /\ ContextStep \/ UNCHANGED <<context, pendingAck>>
<1> USE DEF Next, PollStep, Drain, Elems, vars, loopVars, stream
<1>1. RowStep \/ UNCHANGED <<row, claims>>
  BY DEF RowStep, Register, Push, Readopt, Adopt, Park, ProviderAnswers, TurnEnds, EndLoop
<1>2. LoopStep \/ UNCHANGED <<lastSub, polling, looping, deciding, consumed, kind>>
  <2>1. CASE \E m \in Msgs : Send(m) \/ ReclaimStale(m) \/ Cleanup(m)
    BY <2>1 DEF Send, ReclaimStale, Cleanup
  <2>2. ASSUME NEW s \in Subs, PollStep(s)
        PROVE  LoopStep \/ UNCHANGED <<lastSub, polling, looping, deciding, consumed, kind>>
    <3>1. CASE StopPolling(s)
      BY <3>1 DEF LoopStep
    <3>2. CASE ClaimDirect(s) \/ ClaimLost(s) \/ ClaimReleased(s)
      BY <3>2 DEF ClaimDirect, ClaimLost, ClaimReleased
    <3>3. CASE \E m \in Broadcast : ClaimBroadcast(s, m) \/ FailExpiredBroadcast(s, m)
      BY <3>3 DEF ClaimBroadcast, FailExpiredBroadcast
    <3>4. CASE \E d \in hand[s] : Push(s, d) \/ FailExpired(s, d)
      BY <3>4 DEF Push, FailExpired
    <3> QED
      BY <2>2, <3>1, <3>2, <3>3, <3>4
  <2>3. CASE \E s \in Subs : Drain(s)
    BY <2>3 DEF LoopStep, Readopt, Adopt, Park
  <2>4. CASE \/ Register
             \/ \E s \in Subs : ProviderAnswers(s) \/ TurnEnds(s) \/ Acknowledge(s) \/ EndLoop(s)
    BY <2>4 DEF LoopStep, TurnEnds
  <2>5. CASE UNCHANGED vars
    BY <2>5
  <2> QED
    BY <2>1, <2>2, <2>3, <2>4, <2>5
<1>3. StreamStep \/ UNCHANGED <<hand, buffer, parked>>
  BY DEF StreamStep, Send, ReclaimStale, Cleanup, Register, ClaimLost, ClaimReleased,
     FailExpiredBroadcast, ProviderAnswers, TurnEnds
<1>5. DrainStep \/ UNCHANGED <<buffer, peeked, drained, overtaken>>
  <2>1. CASE \E m \in Msgs : Send(m) \/ ReclaimStale(m) \/ Cleanup(m)
    BY <2>1 DEF Send, ReclaimStale, Cleanup
  <2>2. CASE \E s \in Subs : PollStep(s)
    BY <2>2 DEF DrainStep, ClaimDirect, ClaimLost, ClaimReleased, StopPolling, ClaimBroadcast,
       FailExpiredBroadcast, FailExpired
  <2>3. CASE \E s \in Subs : Drain(s)
    BY <2>3 DEF DrainStep
  <2>4. CASE \/ Register
             \/ \E s \in Subs : ProviderAnswers(s) \/ TurnEnds(s) \/ Acknowledge(s) \/ EndLoop(s)
    BY <2>4 DEF DrainStep, Register, ProviderAnswers
  <2>5. CASE UNCHANGED vars
    BY <2>5
  <2> QED
    BY <2>1, <2>2, <2>3, <2>4, <2>5
<1>4. ContextStep \/ UNCHANGED <<context, pendingAck>>
  <2>1. CASE \E m \in Msgs : Send(m) \/ ReclaimStale(m) \/ Cleanup(m)
    BY <2>1 DEF Send, ReclaimStale, Cleanup
  <2>2. CASE \E s \in Subs : PollStep(s)
    BY <2>2 DEF ContextStep, ClaimDirect, ClaimLost, ClaimReleased, StopPolling, ClaimBroadcast,
       FailExpiredBroadcast, Push, FailExpired
  <2>3. CASE \E s \in Subs : Drain(s)
    BY <2>3 DEF ContextStep, Handle, Park
  <2>4. CASE \/ Register
             \/ \E s \in Subs : ProviderAnswers(s) \/ TurnEnds(s) \/ Acknowledge(s) \/ EndLoop(s)
    BY <2>4 DEF ContextStep, TurnEnds
  <2>5. CASE UNCHANGED vars
    BY <2>5
  <2> QED
    BY <2>1, <2>2, <2>3, <2>4, <2>5
<1> QED
  BY <1>1, <1>2, <1>3, <1>4, <1>5

-----------------------------------------------------------------------------
(* Sequences of deliveries *)

LEMMA TailOrder ==
  ASSUME NEW S, NEW q \in Seq(S), q # <<>>
  PROVE  /\ Tail(q) \in Seq(S) /\ Head(q) \in Elems(q) /\ Elems(Tail(q)) \subseteq Elems(q)
         /\ InOrder(q) => InOrder(Tail(q)) /\ \A e \in Elems(Tail(q)) : Precedes(Head(q), e)
<1>1. /\ Len(Tail(q)) = Len(q) - 1
      /\ \A i \in 1..Len(Tail(q)) : Tail(q)[i] = q[i + 1] /\ i + 1 \in 1..Len(q)
  OBVIOUS
<1>2. Head(q) = q[1] /\ 1 \in 1..Len(q) /\ Len(q) \in Nat
  OBVIOUS
<1>3. Head(q) \in Elems(q) /\ Elems(Tail(q)) \subseteq Elems(q)
  BY <1>1, <1>2 DEF Elems
<1>4. InOrder(q) => InOrder(Tail(q))
  BY <1>1, <1>2 DEF InOrder
<1>5. InOrder(q) => \A e \in Elems(Tail(q)) : Precedes(Head(q), e)
  BY <1>1, <1>2 DEF InOrder, Elems
<1> QED
  BY <1>3, <1>4, <1>5

LEMMA AppendOrder ==
  ASSUME NEW S, NEW q \in Seq(S), NEW d \in S
  PROVE  /\ Elems(Append(q, d)) = Elems(q) \cup {d}
         /\ InOrder(q) /\ (\A e \in Elems(q) : Precedes(e, d)) => InOrder(Append(q, d))
<1>1. Len(Append(q, d)) = Len(q) + 1 /\ Len(q) \in Nat
  OBVIOUS
<1>2. \A i \in 1..(Len(q) + 1) : Append(q, d)[i] = IF i = Len(q) + 1 THEN d ELSE q[i]
  OBVIOUS
<1>3. Elems(Append(q, d)) = Elems(q) \cup {d}
  BY <1>1, <1>2 DEF Elems
<1>4. InOrder(q) /\ (\A e \in Elems(q) : Precedes(e, d)) => InOrder(Append(q, d))
  BY <1>1, <1>2 DEF InOrder, Elems
<1> QED
  BY <1>3, <1>4

LEMMA ConcatOrder ==
  ASSUME NEW S, NEW p \in Seq(S), NEW q \in Seq(S)
  PROVE  /\ Elems(p \o q) = Elems(p) \cup Elems(q)
         /\ InOrder(p) /\ InOrder(q) /\ (\A d \in Elems(p), e \in Elems(q) : Precedes(d, e))
              => InOrder(p \o q)
<1>1. Len(p \o q) = Len(p) + Len(q) /\ Len(p) \in Nat /\ Len(q) \in Nat
  OBVIOUS
<1>2. \A i \in 1..(Len(p) + Len(q)) : (p \o q)[i] = IF i <= Len(p) THEN p[i] ELSE q[i - Len(p)]
  OBVIOUS
<1>3. Elems(p \o q) = Elems(p) \cup Elems(q)
  <2>1. \A i \in 1..Len(q) : (p \o q)[i + Len(p)] = q[i] /\ i + Len(p) \in 1..Len(p \o q)
    BY <1>1, <1>2
  <2>2. \A i \in 1..Len(p) : (p \o q)[i] = p[i] /\ i \in 1..Len(p \o q)
    BY <1>1, <1>2
  <2>3. \A i \in 1..Len(p \o q) : ~(i <= Len(p)) => i - Len(p) \in 1..Len(q)
    BY <1>1
  <2>4. Elems(p) \cup Elems(q) \subseteq Elems(p \o q)
    BY <2>1, <2>2 DEF Elems
  <2>5. ASSUME NEW i \in 1..Len(p \o q) PROVE (p \o q)[i] \in Elems(p) \cup Elems(q)
    <3>1. CASE i <= Len(p)
      BY <1>1, <1>2, <3>1 DEF Elems
    <3>2. CASE ~(i <= Len(p))
      BY <1>1, <1>2, <2>3, <3>2 DEF Elems
    <3> QED
      BY <3>1, <3>2
  <2>6. Elems(p \o q) \subseteq Elems(p) \cup Elems(q)
    BY <2>5 DEF Elems
  <2> QED
    BY <2>4, <2>6
<1>4. InOrder(p) /\ InOrder(q) /\ (\A d \in Elems(p), e \in Elems(q) : Precedes(d, e))
        => InOrder(p \o q)
  <2> SUFFICES ASSUME InOrder(p), InOrder(q), \A d \in Elems(p), e \in Elems(q) : Precedes(d, e),
                      NEW i \in 1..Len(p \o q), NEW j \in 1..Len(p \o q), i < j
               PROVE  Precedes((p \o q)[i], (p \o q)[j])
    BY DEF InOrder
  <2>1. CASE j <= Len(p)
    BY <1>1, <1>2, <2>1 DEF InOrder
  <2>2. CASE i <= Len(p) /\ ~(j <= Len(p))
    BY <1>1, <1>2, <2>2 DEF Elems
  <2>3. CASE ~(i <= Len(p))
    <3>1. i - Len(p) \in 1..Len(q) /\ j - Len(p) \in 1..Len(q) /\ i - Len(p) < j - Len(p)
      BY <1>1, <2>3
    <3> QED
      BY <1>1, <1>2, <2>3, <3>1 DEF InOrder
  <2> QED
    BY <1>1, <2>1, <2>2, <2>3
<1> QED
  BY <1>3, <1>4

LEMMA SubSeqElems ==
  ASSUME NEW S, NEW q \in Seq(S), NEW k \in Nat, k <= Len(q)
  PROVE  LET front == SubSeq(q, 1, k)
             back == SubSeq(q, k + 1, Len(q))
         IN  /\ front \in Seq(S) /\ back \in Seq(S)
             /\ Len(front) = k /\ Len(back) = Len(q) - k
             /\ Elems(q) = Elems(front) \cup Elems(back)
             /\ InOrder(q) => /\ InOrder(front) /\ InOrder(back)
                              /\ \A d \in Elems(front), e \in Elems(back) : Precedes(d, e)
<1> DEFINE front == SubSeq(q, 1, k)
           back == SubSeq(q, k + 1, Len(q))
<1>1. /\ Len(q) \in Nat /\ front \in Seq(S) /\ back \in Seq(S)
      /\ Len(front) = k /\ Len(back) = Len(q) - k
  OBVIOUS
<1>2. \A i \in 1..k : front[i] = q[i] /\ i \in 1..Len(q)
  OBVIOUS
<1>3. \A i \in 1..(Len(q) - k) : back[i] = q[i + k] /\ i + k \in 1..Len(q)
  OBVIOUS
<1> HIDE DEF front, back
<1>4. Elems(front) \cup Elems(back) \subseteq Elems(q)
  <2>1. \A i \in 1..Len(front) : front[i] \in Elems(q)
    BY <1>1, <1>2 DEF Elems
  <2>2. \A i \in 1..Len(back) : back[i] \in Elems(q)
    BY <1>1, <1>3 DEF Elems
  <2> QED
    BY <2>1, <2>2 DEF Elems
<1>5. ASSUME NEW i \in 1..Len(q) PROVE q[i] \in Elems(front) \cup Elems(back)
  <2>1. CASE i <= k
    BY <1>1, <1>2, <2>1 DEF Elems
  <2>2. CASE ~(i <= k)
    <3>1. i - k \in 1..(Len(q) - k) /\ (i - k) + k = i
      BY <1>1, <2>2
    <3> QED
      BY <1>1, <1>3, <3>1 DEF Elems
  <2> QED
    BY <2>1, <2>2
<1>6. Elems(q) = Elems(front) \cup Elems(back)
  BY <1>4, <1>5 DEF Elems
<1>7. ASSUME InOrder(q)
      PROVE  /\ InOrder(front) /\ InOrder(back)
             /\ \A d \in Elems(front), e \in Elems(back) : Precedes(d, e)
  <2>1. InOrder(front)
    BY <1>1, <1>2, <1>7 DEF InOrder
  <2>2. InOrder(back)
    <3> SUFFICES ASSUME NEW i \in 1..(Len(q) - k), NEW j \in 1..(Len(q) - k), i < j
                 PROVE  Precedes(back[i], back[j])
      BY <1>1 DEF InOrder
    <3>1. i + k < j + k
      OBVIOUS
    <3> QED
      BY <1>3, <1>7, <3>1 DEF InOrder
  <2>3. ASSUME NEW i \in 1..k, NEW j \in 1..(Len(q) - k) PROVE Precedes(front[i], back[j])
    <3>1. /\ front[i] = q[i] /\ back[j] = q[j + k] /\ i \in 1..Len(q) /\ j + k \in 1..Len(q)
      BY <1>2, <1>3
    <3>2. i < j + k
      BY <1>1
    <3> QED
      BY <1>7, <3>1, <3>2 DEF InOrder
  <2> QED
    BY <1>1, <2>1, <2>2, <2>3 DEF Elems
<1> QED
  BY <1>1, <1>6, <1>7 DEF front, back

\* What is put back behind the first k deliveries of q: nothing is lost, and the
\* order is kept unless it overtakes one of them.
LEMMA RequeueElems ==
  ASSUME NEW S, NEW q \in Seq(S), NEW p \in Seq(S), NEW k \in Nat, k <= Len(q)
  PROVE  LET r == SubSeq(q, 1, k) \o p \o SubSeq(q, k + 1, Len(q))
         IN  /\ r \in Seq(S) /\ Len(r) = Len(q) + Len(p) /\ Elems(r) = Elems(p) \cup Elems(q)
             /\ /\ InOrder(p) /\ InOrder(q) /\ \A d \in Elems(p), e \in Elems(q) : Precedes(d, e)
                /\ k = 0 \/ p = <<>>
                => InOrder(r)
<1> DEFINE front == SubSeq(q, 1, k)
           back == SubSeq(q, k + 1, Len(q))
           most == front \o p
           r == most \o back
<1>1. /\ front \in Seq(S) /\ back \in Seq(S) /\ Len(front) = k /\ Len(back) = Len(q) - k
      /\ Elems(q) = Elems(front) \cup Elems(back)
      /\ InOrder(q) => /\ InOrder(front) /\ InOrder(back)
                       /\ \A d \in Elems(front), e \in Elems(back) : Precedes(d, e)
  BY SubSeqElems
<1> HIDE DEF front, back
<1>a. \A f, g \in Seq(S) : f \o g \in Seq(S) /\ Len(f \o g) = Len(f) + Len(g) /\ Len(f) \in Nat
  OBVIOUS
<1>2. most \in Seq(S) /\ Len(most) = k + Len(p) /\ Len(p) \in Nat /\ Len(q) \in Nat
  BY <1>1, <1>a
<1>3. /\ Elems(most) = Elems(front) \cup Elems(p)
      /\ InOrder(front) /\ InOrder(p) /\ (\A d \in Elems(front), e \in Elems(p) : Precedes(d, e))
           => InOrder(most)
  BY <1>1, ConcatOrder
<1> HIDE DEF most
<1>4. r \in Seq(S) /\ Len(r) = Len(q) + Len(p)
  <2>1. r \in Seq(S) /\ Len(r) = Len(most) + Len(back)
    BY <1>1, <1>2, <1>a
  <2> QED
    BY <1>1, <1>2, <2>1
<1>5. /\ Elems(r) = Elems(most) \cup Elems(back)
      /\ InOrder(most) /\ InOrder(back) /\ (\A d \in Elems(most), e \in Elems(back) : Precedes(d, e))
           => InOrder(r)
  BY <1>1, <1>2, ConcatOrder
<1> HIDE DEF r
<1>6. Elems(r) = Elems(p) \cup Elems(q)
  BY <1>1, <1>3, <1>5
<1>7. ASSUME InOrder(p), InOrder(q), \A d \in Elems(p), e \in Elems(q) : Precedes(d, e),
             k = 0 \/ p = <<>>
      PROVE  InOrder(r)
  <2>1. Elems(front) = {} \/ Elems(p) = {}
    BY <1>1, <1>7 DEF Elems
  <2>2. InOrder(most)
    BY <1>1, <1>3, <1>7, <2>1
  <2>3. \A d \in Elems(most), e \in Elems(back) : Precedes(d, e)
    BY <1>1, <1>3, <1>7
  <2> QED
    BY <1>1, <1>5, <1>7, <2>2, <2>3
<1> QED
  BY <1>4, <1>6, <1>7 DEF r, most, front, back

LEMMA EmptyOrder == Elems(<<>>) = {} /\ InOrder(<<>>)
BY DEF Elems, InOrder

-----------------------------------------------------------------------------
(* Types *)

LEMMA DrainTypes ==
  ASSUME StreamShape, NEW s \in Subs, NEW d \in Elems(buffer[s])
  PROVE  d \in Deliveries /\ d[1] \in Msgs /\ d[2] \in Nat
BY MailboxAssumption DEF StreamShape, Elems, Deliveries

LEMMA MineTypes ==
  ASSUME StreamShape, NEW s \in Subs
  PROVE  \A d \in Mine(s) : d \in Deliveries /\ d[1] \in Msgs /\ d[2] \in Nat
<1>1. \A d \in Mine(s) : d \in Deliveries
  BY DEF StreamShape, Mine, Elems
<1> QED
  BY <1>1, MailboxAssumption DEF Deliveries

\* What retry_deferred does to the mailbox.
LEMMA RetryFacts ==
  ASSUME StreamShape, DrainShape, NEW s \in Subs, RetryDeferred(s)
  PROVE  /\ buffer'[s] \in Seq(Deliveries) /\ parked'[s] = <<>>
         /\ Len(buffer'[s]) = Len(buffer[s]) + Len(parked[s])
         /\ Elems(buffer'[s]) = Elems(parked[s]) \cup Elems(buffer[s])
         /\ s \notin overtaken' => s \notin overtaken /\ (InLine(s) => InOrder(buffer'[s]))
<1>1. /\ buffer[s] \in Seq(Deliveries) /\ parked[s] \in Seq(Deliveries)
      /\ peeked[s] \in Nat /\ peeked[s] <= Len(buffer[s])
  BY DEF StreamShape, DrainShape
<1>2. PICK q, p, k : q = buffer[s] /\ p = parked[s] /\ k = peeked[s]
  OBVIOUS
<1>3. buffer'[s] = SubSeq(q, 1, k) \o p \o SubSeq(q, k + 1, Len(q)) /\ parked'[s] = <<>>
  BY <1>2 DEF RetryDeferred, StreamShape
<1>4. s \notin overtaken' => s \notin overtaken /\ (k = 0 \/ p = <<>>)
  <2>1. s \notin overtaken' => s \notin overtaken /\ ~(k > 0 /\ p # <<>>)
    BY <1>2 DEF RetryDeferred
  <2> QED
    BY <1>1, <1>2, <2>1
<1>5. PICK r : r = SubSeq(q, 1, k) \o p \o SubSeq(q, k + 1, Len(q))
  OBVIOUS
<1>6. /\ r \in Seq(Deliveries) /\ Len(r) = Len(q) + Len(p) /\ Elems(r) = Elems(p) \cup Elems(q)
      /\ /\ InOrder(p) /\ InOrder(q) /\ \A d \in Elems(p), e \in Elems(q) : Precedes(d, e)
         /\ k = 0 \/ p = <<>>
         => InOrder(r)
  <2> q \in Seq(Deliveries) /\ p \in Seq(Deliveries) /\ k \in Nat /\ k <= Len(q)
    BY <1>1, <1>2
  <2> QED
    BY <1>5, RequeueElems
<1> QED
  BY <1>2, <1>3, <1>4, <1>5, <1>6 DEF InLine

LEMMA ShapeInit == Init => MailboxShape
<1> SUFFICES ASSUME Init PROVE MailboxShape
  OBVIOUS
<1> USE MailboxAssumption
<1>1. RowShape
  BY DEF Init, RowShape, Unclaimed, Settled, Msgs
<1>2. LoopShape
  BY DEF Init, LoopShape
<1>3. StreamShape
  BY DEF Init, StreamShape
<1>4. ContextShape
  BY DEF Init, ContextShape, Empty, NoAcks
<1>5. DrainShape
  BY DEF Init, DrainShape
<1> QED
  BY <1>1, <1>2, <1>3, <1>4, <1>5 DEF MailboxShape

LEMMA RowShapeStep ==
  ASSUME MailboxShape, AttemptsLeft, [Next]_vars PROVE RowShape'
<1> USE MailboxAssumption DEF MailboxShape, RowShape, Settled, Subs, Msgs
<1>1. ASSUME NEW m \in Msgs, Send(m) PROVE RowShape'
  BY <1>1 DEF Send, loopVars, stream, Unclaimed, AttemptsLeft
<1>2. ASSUME NEW m \in Msgs, ReclaimStale(m) PROVE RowShape'
  BY <1>2 DEF ReclaimStale, Requeued, loopVars, stream, Unclaimed, AttemptsLeft
<1>3. ASSUME NEW m \in Msgs, Cleanup(m) PROVE RowShape'
  BY <1>3 DEF Cleanup, loopVars, stream, Unclaimed, AttemptsLeft
<1>4. ASSUME NEW s \in Subs, ClaimDirect(s) PROVE RowShape'
  BY <1>4 DEF ClaimDirect, Pending, Claimed, loopVars, stream, AttemptsLeft
<1>5. ASSUME NEW s \in Subs, ClaimLost(s) PROVE RowShape'
  BY <1>5 DEF ClaimLost, Pending, Claimed, loopVars, stream, AttemptsLeft
<1>6. ASSUME NEW s \in Subs, ClaimReleased(s) PROVE RowShape'
  BY <1>6 DEF ClaimReleased, Pending, Unclaimed, loopVars, stream, AttemptsLeft
<1>7. ASSUME NEW s \in Subs, StopPolling(s) PROVE RowShape'
  BY <1>7 DEF StopPolling, Requeued, ClaimedBy, Unclaimed, loopVars, stream, AttemptsLeft
<1>8. ASSUME NEW s \in Subs, NEW m \in Broadcast, ClaimBroadcast(s, m) PROVE RowShape'
  BY <1>8 DEF ClaimBroadcast, Claimed, loopVars, stream, AttemptsLeft
<1>9. ASSUME NEW s \in Subs, NEW m \in Broadcast, FailExpiredBroadcast(s, m) PROVE RowShape'
  BY <1>9 DEF FailExpiredBroadcast, Unclaimed, loopVars, stream, AttemptsLeft
<1>10. ASSUME NEW s \in Subs, NEW d \in hand[s], FailExpired(s, d) PROVE RowShape'
  BY <1>10 DEF FailExpired, Holds, Unclaimed, loopVars, stream, AttemptsLeft
<1>11. ASSUME NEW s \in Subs, NEW d \in Elems(buffer[s]), Handle(s, d) PROVE RowShape'
  <2>1. d[1] \in Msgs
    BY DrainTypes
  <2> QED
    BY <1>11, <2>1 DEF Handle, Acked, Unclaimed
<1>12. ASSUME NEW s \in Subs, Acknowledge(s) PROVE RowShape'
  BY <1>12 DEF Acknowledge, Confirmed, Holds, Unclaimed, AttemptsLeft
<1>13. ASSUME UNCHANGED <<row, claims>> PROVE RowShape'
  BY <1>13 DEF AttemptsLeft
<1> QED
  BY <1>1, <1>2, <1>3, <1>4, <1>5, <1>6, <1>7, <1>8, <1>9, <1>10, <1>11, <1>12, <1>13, WhoWrites
     DEF RowStep

LEMMA LoopShapeStep ==
  ASSUME MailboxShape, [Next]_vars PROVE LoopShape'
<1> USE MailboxAssumption DEF MailboxShape, LoopShape
<1>1. ASSUME Register PROVE LoopShape'
  <2>1. lastSub' \in 0..MaxSubs /\ lastSub' \in Subs
    BY <1>1 DEF Register, Subs
  <2>2. /\ polling' = polling \cup {lastSub'} /\ looping' = looping \cup {lastSub'}
        /\ UNCHANGED <<deciding, consumed, kind>>
    BY <1>1 DEF Register
  <2> QED
    BY <2>1, <2>2
<1>2. ASSUME NEW s \in Subs, StopPolling(s) PROVE LoopShape'
  BY <1>2 DEF StopPolling, Requeued, ClaimedBy, Unclaimed, loopVars, stream, Subs
<1>3. ASSUME NEW s \in Subs, NEW d \in Elems(buffer[s]), Handle(s, d) PROVE LoopShape'
  <2>1. d[1] \in Msgs
    BY DrainTypes
  <2> QED
    BY <1>3, <2>1 DEF Handle
<1>4. ASSUME NEW s \in Subs, ProviderAnswers(s) PROVE LoopShape'
  BY <1>4 DEF ProviderAnswers, Retained
<1>5. ASSUME NEW s \in Subs, Acknowledge(s) PROVE LoopShape'
  BY <1>5 DEF Acknowledge, Confirmed, Holds, Unclaimed, Subs
<1>6. ASSUME NEW s \in Subs, EndLoop(s) PROVE LoopShape'
  BY <1>6 DEF EndLoop, NoAcks, Empty, Subs
<1>7. ASSUME UNCHANGED <<lastSub, polling, looping, deciding, consumed, kind>> PROVE LoopShape'
  BY <1>7 DEF Subs
<1> QED
  BY <1>1, <1>2, <1>3, <1>4, <1>5, <1>6, <1>7, WhoWrites DEF LoopStep

LEMMA StreamShapeStep ==
  ASSUME MailboxShape, AttemptsLeft, [Next]_vars PROVE StreamShape'
<1> USE MailboxAssumption DEF MailboxShape, StreamShape, stream
<1>1. ASSUME NEW s \in Subs, ClaimDirect(s) PROVE StreamShape'
  <2>1. \A m \in Pending(Direct) : claims[m] + 1 \in 1..MaxAttempts
    BY DEF Pending, AttemptsLeft, RowShape, Msgs
  <2>2. {<<m, claims[m] + 1>> : m \in Pending(Direct)} \subseteq Deliveries
    BY <2>1 DEF Pending, Deliveries, Msgs
  <2> QED
    BY <1>1, <2>2 DEF ClaimDirect
<1>2. ASSUME NEW s \in Subs, StopPolling(s) PROVE StreamShape'
  BY <1>2 DEF StopPolling, Requeued, ClaimedBy, Unclaimed, loopVars, stream, Elems
<1>3. ASSUME NEW s \in Subs, NEW m \in Broadcast, ClaimBroadcast(s, m) PROVE StreamShape'
  <2>1. claims[m] + 1 \in 1..MaxClaims
    BY <1>3 DEF ClaimBroadcast, RowShape, Msgs
  <2>2. <<m, claims[m] + 1>> \in Deliveries
    BY <2>1 DEF Deliveries, Msgs
  <2> QED
    BY <1>3, <2>2 DEF ClaimBroadcast
<1>4. ASSUME NEW s \in Subs, NEW d \in hand[s], Push(s, d) PROVE StreamShape'
  BY <1>4 DEF Push, loopVars, stream, Elems
<1>5. ASSUME NEW s \in Subs, NEW d \in hand[s], FailExpired(s, d) PROVE StreamShape'
  BY <1>5 DEF FailExpired, Holds, Unclaimed, loopVars, stream, Elems
<1>6. ASSUME NEW s \in Subs, NEW d \in Elems(buffer[s]), Handle(s, d) PROVE StreamShape'
  BY <1>6 DEF Handle, Draining, Taken, Acked, Holds, Unclaimed, Elems
<1>7. ASSUME NEW s \in Subs, NEW d \in Elems(buffer[s]), Readopt(s, d) PROVE StreamShape'
  BY <1>7 DEF Readopt, Draining, Taken, DeferAcknowledgement, Elems
<1>8. ASSUME NEW s \in Subs, NEW d \in Elems(buffer[s]), Adopt(s, d) PROVE StreamShape'
  BY <1>8 DEF Adopt, Draining, Taken, DeferAcknowledgement, Elems
<1>9. ASSUME NEW s \in Subs, NEW d \in Elems(buffer[s]), Park(s, d) PROVE StreamShape'
  BY <1>9 DEF Park, Draining, Taken, loopVars, stream, Elems
<1>10. ASSUME NEW s \in Subs, Acknowledge(s) PROVE StreamShape'
  <2>1. RetryDeferred(s) /\ hand' = hand
    BY <1>10 DEF Acknowledge
  <2>2. buffer'[s] \in Seq(Deliveries) /\ parked'[s] = <<>>
    BY <2>1, RetryFacts
  <2>5. PICK b : buffer' = [buffer EXCEPT ![s] = b]
    BY <2>1 DEF RetryDeferred
  <2>6. buffer' \in [Subs -> Seq(Deliveries)]
    BY <2>2, <2>5
  <2>7. parked' \in [Subs -> Seq(Deliveries)]
    BY <2>1 DEF RetryDeferred
  <2> QED
    BY <2>1, <2>6, <2>7
<1>11. ASSUME NEW s \in Subs, EndLoop(s) PROVE StreamShape'
  BY <1>11 DEF EndLoop, NoAcks, Empty, Elems
<1>12. ASSUME UNCHANGED <<hand, buffer, parked>> PROVE StreamShape'
  BY <1>12 DEF Elems
<1> QED
  BY <1>1, <1>2, <1>3, <1>4, <1>5, <1>6, <1>7, <1>8, <1>9, <1>10, <1>11, <1>12, WhoWrites
     DEF StreamStep

LEMMA DrainShapeStep ==
  ASSUME MailboxShape, [Next]_vars PROVE DrainShape'
<1> USE MailboxAssumption DEF MailboxShape, StreamShape, DrainShape
<1>1. ASSUME NEW s \in Subs, NEW d, Draining(s, d), Taken(s), overtaken' = overtaken
      PROVE  DrainShape'
  <2>1. /\ Len(buffer[s]) \in Nat \ {0} /\ buffer'[s] = Tail(buffer[s])
        /\ Len(buffer'[s]) = Len(buffer[s]) - 1
    BY <1>1 DEF Draining, Taken
  <2>2. \A t \in Subs \ {s} : /\ buffer'[t] = buffer[t] /\ peeked'[t] = peeked[t]
                             /\ drained'[t] = drained[t]
    BY <1>1 DEF Taken
  <2>3. peeked'[s] \in Nat /\ peeked'[s] <= Len(buffer'[s])
    BY <1>1, <2>1 DEF Taken
  <2>4. drained'[s] \in 0..DrainCap
    BY <1>1, <2>1 DEF Taken, Draining
  <2>5. peeked' \in [Subs -> Nat] /\ drained' \in [Subs -> 0..DrainCap]
    BY <1>1, <2>3, <2>4 DEF Taken
  <2> QED
    BY <1>1, <2>2, <2>3, <2>5
<1>2. ASSUME NEW s \in Subs, NEW d \in hand[s], Push(s, d) PROVE DrainShape'
  <2>1. \A t \in Subs : Len(buffer'[t]) >= Len(buffer[t]) /\ Len(buffer'[t]) \in Nat
    BY <1>2 DEF Push
  <2> QED
    BY <1>2, <2>1 DEF Push, loopVars, stream
<1>3. ASSUME NEW s \in Subs, TurnEnds(s) PROVE DrainShape'
  BY <1>3 DEF TurnEnds, loopVars, stream
<1>4. ASSUME NEW s \in Subs, EndLoop(s) PROVE DrainShape'
  BY <1>4 DEF EndLoop
<1>5. ASSUME NEW s \in Subs, Acknowledge(s) PROVE DrainShape'
  <2>1. RetryDeferred(s)
    BY <1>5 DEF Acknowledge
  <2>2. Len(buffer'[s]) = Len(buffer[s]) + Len(parked[s]) /\ Len(parked[s]) \in Nat
    BY <2>1, RetryFacts
  <2> QED
    BY <2>1, <2>2 DEF RetryDeferred
<1>6. ASSUME UNCHANGED <<buffer, peeked, drained, overtaken>> PROVE DrainShape'
  BY <1>6
<1> QED
  BY <1>1, <1>2, <1>3, <1>4, <1>5, <1>6, WhoWrites
     DEF DrainStep, Handle, Readopt, Adopt, Park, loopVars, stream

LEMMA ContextShapeStep ==
  ASSUME MailboxShape, [Next]_vars PROVE ContextShape'
<1> USE MailboxAssumption DEF MailboxShape, ContextShape
<1>1. ASSUME Register PROVE ContextShape'
  <2>1. Empty \in [Msgs -> {"absent", "staged", "observed"}]
    BY DEF Empty
  <2>2. \A s \in {lastSub} \ {0} : s \in Subs
    BY DEF LoopShape, Subs
  <2>3. \E kept \in [Msgs -> {"absent", "staged", "observed"}] :
          context' = [s \in Subs |-> IF s = lastSub' THEN kept
                                     ELSE IF s \in looping THEN context[s] ELSE Empty]
    BY <1>1, <2>1, <2>2 DEF Register
  <2>4. context' \in [Subs -> [Msgs -> {"absent", "staged", "observed"}]]
    BY <2>1, <2>3
  <2> QED
    BY <1>1, <2>4 DEF Register
<1>2. ASSUME NEW s \in Subs, NEW d \in Elems(buffer[s]), Readopt(s, d) PROVE ContextShape'
  <2>1. d[1] \in Msgs /\ d[2] \in Nat
    BY DrainTypes
  <2> QED
    BY <1>2, <2>1 DEF Readopt, DeferAcknowledgement
<1>3. ASSUME NEW s \in Subs, NEW d \in Elems(buffer[s]), Adopt(s, d) PROVE ContextShape'
  <2>1. d[1] \in Msgs /\ d[2] \in Nat
    BY DrainTypes
  <2>2. context' \in [Subs -> [Msgs -> {"absent", "staged", "observed"}]]
    BY <1>3 DEF Adopt
  <2>3. pendingAck' \in [Subs -> [Msgs -> Nat]]
    BY <1>3, <2>1 DEF Adopt, DeferAcknowledgement
  <2> QED
    BY <2>2, <2>3
<1>4. ASSUME NEW s \in Subs, ProviderAnswers(s) PROVE ContextShape'
  BY <1>4 DEF ProviderAnswers, StreamShape, Elems, Deliveries
<1>5. ASSUME NEW s \in Subs, Acknowledge(s) PROVE ContextShape'
  BY <1>5 DEF Acknowledge, Confirmed, Holds, Unclaimed, StreamShape, Elems, Deliveries
<1>6. ASSUME NEW s \in Subs, EndLoop(s) PROVE ContextShape'
  BY <1>6 DEF EndLoop, NoAcks, Empty, StreamShape, Elems, Deliveries
<1>7. ASSUME UNCHANGED <<context, pendingAck>> PROVE ContextShape'
  BY <1>7 DEF StreamShape, Elems, Deliveries
<1> QED
  BY <1>1, <1>2, <1>3, <1>4, <1>5, <1>6, <1>7, WhoWrites DEF ContextStep

-----------------------------------------------------------------------------
(* Rows *)

LEMMA AttemptsStep ==
  ASSUME MailboxShape, AttemptsLeft, [Next]_vars PROVE AttemptsLeft'
<1> USE MailboxAssumption DEF MailboxShape, RowShape, Msgs, AttemptsLeft
<1>1. ASSUME NEW m \in Msgs, Send(m) PROVE AttemptsLeft'
  BY <1>1 DEF Send, loopVars, stream, Unclaimed
<1>2. ASSUME NEW m \in Msgs, ReclaimStale(m) PROVE AttemptsLeft'
  BY <1>2 DEF ReclaimStale, Requeued, loopVars, stream, Unclaimed
<1>3. ASSUME NEW m \in Msgs, Cleanup(m) PROVE AttemptsLeft'
  BY <1>3 DEF Cleanup, loopVars, stream, Unclaimed
<1>4. ASSUME NEW s \in Subs, ClaimDirect(s) PROVE AttemptsLeft'
  BY <1>4 DEF ClaimDirect, Pending, Claimed, loopVars, stream
<1>5. ASSUME NEW s \in Subs, ClaimLost(s) PROVE AttemptsLeft'
  BY <1>5 DEF ClaimLost, Pending, Claimed, loopVars, stream
<1>6. ASSUME NEW s \in Subs, ClaimReleased(s) PROVE AttemptsLeft'
  BY <1>6 DEF ClaimReleased, Pending, Unclaimed, loopVars, stream
<1>7. ASSUME NEW s \in Subs, StopPolling(s) PROVE AttemptsLeft'
  BY <1>7 DEF StopPolling, Requeued, ClaimedBy, Unclaimed, loopVars, stream
<1>8. ASSUME NEW s \in Subs, NEW m \in Broadcast, ClaimBroadcast(s, m) PROVE AttemptsLeft'
  BY <1>8 DEF ClaimBroadcast, Claimed, loopVars, stream
<1>9. ASSUME NEW s \in Subs, NEW m \in Broadcast, FailExpiredBroadcast(s, m) PROVE AttemptsLeft'
  BY <1>9 DEF FailExpiredBroadcast, Unclaimed, loopVars, stream
<1>10. ASSUME NEW s \in Subs, NEW d \in hand[s], FailExpired(s, d) PROVE AttemptsLeft'
  BY <1>10 DEF FailExpired, Holds, Unclaimed, loopVars, stream
<1>11. ASSUME NEW s \in Subs, NEW d \in Elems(buffer[s]), Handle(s, d) PROVE AttemptsLeft'
  <2>1. d[1] \in Msgs
    BY DrainTypes
  <2> QED
    BY <1>11, <2>1 DEF Handle, Acked, Unclaimed
<1>12. ASSUME NEW s \in Subs, Acknowledge(s) PROVE AttemptsLeft'
  BY <1>12 DEF Acknowledge, Confirmed, Holds, Unclaimed
<1>13. ASSUME UNCHANGED <<row, claims>> PROVE AttemptsLeft'
  BY <1>13
<1> QED
  BY <1>1, <1>2, <1>3, <1>4, <1>5, <1>6, <1>7, <1>8, <1>9, <1>10, <1>11, <1>12, <1>13, WhoWrites
     DEF RowStep

LEMMA LatestStep ==
  ASSUME MailboxShape, ClaimIsLatest, [Next]_vars PROVE ClaimIsLatest'
<1> USE MailboxAssumption DEF MailboxShape, RowShape, ClaimIsLatest
<1>1. ASSUME NEW m \in Msgs, Send(m) PROVE ClaimIsLatest'
  BY <1>1 DEF Send, loopVars, stream, Unclaimed, Msgs
<1>2. ASSUME NEW m \in Msgs, ReclaimStale(m) PROVE ClaimIsLatest'
  BY <1>2 DEF ReclaimStale, Requeued, loopVars, stream, Unclaimed, Msgs
<1>3. ASSUME NEW m \in Msgs, Cleanup(m) PROVE ClaimIsLatest'
  BY <1>3 DEF Cleanup, loopVars, stream, Unclaimed, Msgs
<1>4. ASSUME NEW s \in Subs, ClaimDirect(s) PROVE ClaimIsLatest'
  BY <1>4 DEF ClaimDirect, Pending, Claimed, loopVars, stream, Msgs
<1>5. ASSUME NEW s \in Subs, ClaimLost(s) PROVE ClaimIsLatest'
  BY <1>5 DEF ClaimLost, Pending, Claimed, loopVars, stream, Msgs
<1>6. ASSUME NEW s \in Subs, ClaimReleased(s) PROVE ClaimIsLatest'
  BY <1>6 DEF ClaimReleased, Pending, Unclaimed, loopVars, stream, Msgs
<1>7. ASSUME NEW s \in Subs, StopPolling(s) PROVE ClaimIsLatest'
  BY <1>7 DEF StopPolling, Requeued, ClaimedBy, Unclaimed, loopVars, stream, Msgs
<1>8. ASSUME NEW s \in Subs, NEW m \in Broadcast, ClaimBroadcast(s, m) PROVE ClaimIsLatest'
  BY <1>8 DEF ClaimBroadcast, Claimed, loopVars, stream, Msgs
<1>9. ASSUME NEW s \in Subs, NEW m \in Broadcast, FailExpiredBroadcast(s, m) PROVE ClaimIsLatest'
  BY <1>9 DEF FailExpiredBroadcast, Unclaimed, loopVars, stream, Msgs
<1>10. ASSUME NEW s \in Subs, NEW d \in hand[s], FailExpired(s, d) PROVE ClaimIsLatest'
  BY <1>10 DEF FailExpired, Holds, Unclaimed, loopVars, stream, Msgs
<1>11. ASSUME NEW s \in Subs, NEW d \in Elems(buffer[s]), Handle(s, d) PROVE ClaimIsLatest'
  <2>1. d[1] \in Msgs
    BY DrainTypes
  <2> QED
    BY <1>11, <2>1 DEF Handle, Acked, Unclaimed
<1>12. ASSUME NEW s \in Subs, Acknowledge(s) PROVE ClaimIsLatest'
  BY <1>12 DEF Acknowledge, Confirmed, Holds, Unclaimed, Msgs
<1>13. ASSUME UNCHANGED <<row, claims>> PROVE ClaimIsLatest'
  BY <1>13
<1> QED
  BY <1>1, <1>2, <1>3, <1>4, <1>5, <1>6, <1>7, <1>8, <1>9, <1>10, <1>11, <1>12, <1>13, WhoWrites
     DEF RowStep

LEMMA ConsumedGrows == ASSUME [Next]_vars PROVE consumed \subseteq consumed'
BY WhoWrites DEF LoopStep, Register, StopPolling, Handle, ProviderAnswers, Acknowledge, EndLoop,
   loopVars, stream

\* Confirmations are due only for what has been taken in.
LEMMA AckedStep ==
  ASSUME MailboxShape, ClaimIsLatest, OwedIsShown, AcknowledgedWasConsumed, [Next]_vars
  PROVE  AcknowledgedWasConsumed'
<1> SUFFICES \A x \in Msgs : row'[x].st = "acked" => row[x].st = "acked" \/ x \in consumed'
  BY ConsumedGrows DEF AcknowledgedWasConsumed
<1> DEFINE Earned == \A x \in Msgs : row'[x].st = "acked" => row[x].st = "acked" \/ x \in consumed'
<1> USE MailboxAssumption DEF MailboxShape, RowShape
<1>1. ASSUME NEW m \in Msgs, Send(m) PROVE Earned
  BY <1>1 DEF Send, loopVars, stream, Unclaimed, Msgs
<1>2. ASSUME NEW m \in Msgs, ReclaimStale(m) PROVE Earned
  BY <1>2 DEF ReclaimStale, Requeued, loopVars, stream, Unclaimed, Msgs
<1>3. ASSUME NEW m \in Msgs, Cleanup(m) PROVE Earned
  BY <1>3 DEF Cleanup, loopVars, stream, Unclaimed, Msgs
<1>4. ASSUME NEW s \in Subs, ClaimDirect(s) PROVE Earned
  BY <1>4 DEF ClaimDirect, Pending, Claimed, loopVars, stream, Msgs
<1>5. ASSUME NEW s \in Subs, ClaimLost(s) PROVE Earned
  BY <1>5 DEF ClaimLost, Pending, Claimed, loopVars, stream, Msgs
<1>6. ASSUME NEW s \in Subs, ClaimReleased(s) PROVE Earned
  BY <1>6 DEF ClaimReleased, Pending, Unclaimed, loopVars, stream, Msgs
<1>7. ASSUME NEW s \in Subs, StopPolling(s) PROVE Earned
  BY <1>7 DEF StopPolling, Requeued, ClaimedBy, Unclaimed, loopVars, stream, Msgs
<1>8. ASSUME NEW s \in Subs, NEW m \in Broadcast, ClaimBroadcast(s, m) PROVE Earned
  BY <1>8 DEF ClaimBroadcast, Claimed, loopVars, stream, Msgs
<1>9. ASSUME NEW s \in Subs, NEW m \in Broadcast, FailExpiredBroadcast(s, m) PROVE Earned
  BY <1>9 DEF FailExpiredBroadcast, Unclaimed, loopVars, stream, Msgs
<1>10. ASSUME NEW s \in Subs, NEW d \in hand[s], FailExpired(s, d) PROVE Earned
  BY <1>10 DEF FailExpired, Holds, Unclaimed, loopVars, stream, Msgs
<1>11. ASSUME NEW s \in Subs, NEW d \in Elems(buffer[s]), Handle(s, d) PROVE Earned
  <2>1. d[1] \in Msgs
    BY DrainTypes
  <2> QED
    BY <1>11, <2>1 DEF Handle, Acked, Unclaimed
<1>12. ASSUME NEW s \in Subs, Acknowledge(s) PROVE Earned
  <2>1. ASSUME NEW x \in Msgs, Holds(x, s, pendingAck[s][x]) PROVE x \in consumed
    <3>1. row[x].st = "claimed" /\ row[x].n = pendingAck[s][x]
      BY <2>1 DEF Holds
    <3>2. pendingAck[s][x] # 0
      BY <3>1 DEF ClaimIsLatest
    <3> QED
      BY <1>12, <3>2 DEF Acknowledge, OwedIsShown, Shown
  <2> QED
    BY <1>12, <2>1 DEF Acknowledge, Confirmed, Unclaimed
<1>13. ASSUME UNCHANGED <<row, claims>> PROVE Earned
  BY <1>13
<1> QED
  BY <1>1, <1>2, <1>3, <1>4, <1>5, <1>6, <1>7, <1>8, <1>9, <1>10, <1>11, <1>12, <1>13, WhoWrites
     DEF RowStep

-----------------------------------------------------------------------------
(* Loops and their context *)

\* A new subscription is none that loops; its context is empty or that of the last.
LEMMA RegisterFacts ==
  ASSUME MailboxShape, IdleIsClean, Register
  PROVE  /\ lastSub' = lastSub + 1 /\ lastSub' \in Subs \ looping
         /\ \A t \in looping : context'[t] = context[t]
         /\ \A t \in Subs,
            x \in Msgs : context'[t][x] = "observed" => \E u \in Subs : context[u][x] = "observed"
<1> USE MailboxAssumption DEF MailboxShape, LoopShape, ContextShape
<1>1. lastSub' = lastSub + 1 /\ lastSub' \in Subs
  BY DEF Register, Subs
<1>2. lastSub' \notin looping
  BY <1>1 DEF IdleIsClean
<1>3. PICK kept \in {Empty} \cup {context[u] : u \in {lastSub} \ {0}} :
        context' = [t \in Subs |-> IF t = lastSub' THEN kept
                                   ELSE IF t \in looping THEN context[t] ELSE Empty]
  BY DEF Register
<1>4. \A x \in Msgs : kept[x] = "observed" => \E u \in Subs : context[u][x] = "observed"
  BY <1>3 DEF Empty, Subs
<1>5. \A t \in looping : context'[t] = context[t]
  BY <1>2, <1>3
<1>6. \A t \in Subs,
   x \in Msgs : context'[t][x] = "observed" => \E u \in Subs : context[u][x] = "observed"
  BY <1>3, <1>4, <1>5 DEF Empty
<1> QED
  BY <1>1, <1>2, <1>5, <1>6

\* Adopting a message evicts at most what the provider has seen.
LEMMA AdoptFacts ==
  ASSUME MailboxShape, NEW s \in Subs, NEW d \in Elems(buffer[s]), Adopt(s, d)
  PROVE  /\ \A t \in Subs \ {s} : context'[t] = context[t]
         /\ context'[s][d[1]] = "staged"
         /\ \A x \in Msgs \ {d[1]} : \/ context'[s][x] = context[s][x]
                                     \/ context[s][x] = "observed" /\ context'[s][x] = "absent"
<1>1. d[1] \in Msgs
  BY DrainTypes DEF MailboxShape
<1>2. PICK evicted \in IF Full(s) THEN {{m} : m \in Observed(s)} ELSE {{}} :
        context' = [context EXCEPT ![s] =
                      [m \in Msgs |-> IF m = d[1] THEN "staged"
                                      ELSE IF m \in evicted THEN "absent" ELSE @[m]]]
  BY DEF Adopt
<1>3. \A x \in evicted : context[s][x] = "observed"
  BY <1>2 DEF Observed
<1> QED
  BY <1>1, <1>2, <1>3 DEF MailboxShape, ContextShape

LEMMA IdleStep ==
  ASSUME MailboxShape, IdleIsClean, [Next]_vars PROVE IdleIsClean'
<1> USE MailboxAssumption DEF stream, MailboxShape, LoopShape, IdleIsClean
<1>1. ASSUME Register PROVE IdleIsClean'
  <2>1. /\ lastSub' = lastSub + 1 /\ looping' = looping \cup {lastSub'}
        /\ UNCHANGED <<buffer, parked, pendingAck>>
    BY <1>1 DEF Register
  <2>2. looping' \subseteq 1..lastSub'
    BY <2>1
  <2>3. \A t \in Subs \ looping' : buffer'[t] = <<>> /\ parked'[t] = <<>> /\ pendingAck'[t] = NoAcks
    BY <2>1
  <2> QED
    BY <2>2, <2>3 DEF NoAcks
<1>2. ASSUME NEW s \in Subs, ClaimDirect(s) PROVE IdleIsClean'
  <2>1. UNCHANGED <<lastSub, looping, buffer, parked, pendingAck>>
    BY <1>2 DEF ClaimDirect, loopVars
  <2> QED
    BY <2>1 DEF NoAcks
<1>3. ASSUME NEW s \in Subs, StopPolling(s) PROVE IdleIsClean'
  BY <1>3 DEF StopPolling, Requeued, ClaimedBy, Unclaimed, loopVars, stream, StreamShape,
     ContextShape
<1>4. ASSUME NEW s \in Subs, NEW m \in Broadcast, ClaimBroadcast(s, m) PROVE IdleIsClean'
  BY <1>4 DEF ClaimBroadcast, Claimed, loopVars, stream, StreamShape, ContextShape
<1>5. ASSUME NEW s \in Subs, NEW d \in hand[s], Push(s, d) PROVE IdleIsClean'
  BY <1>5 DEF Push, loopVars, stream, StreamShape, ContextShape
<1>6. ASSUME NEW s \in Subs, NEW d \in hand[s], FailExpired(s, d) PROVE IdleIsClean'
  BY <1>6 DEF FailExpired, Holds, Unclaimed, loopVars, stream, StreamShape, ContextShape
<1>7. ASSUME NEW s \in Subs, NEW d \in Elems(buffer[s]), Handle(s, d) PROVE IdleIsClean'
  BY <1>7 DEF Handle, Draining, Taken, Acked, Holds, Unclaimed, StreamShape, ContextShape
<1>8. ASSUME NEW s \in Subs, NEW d \in Elems(buffer[s]), Readopt(s, d) PROVE IdleIsClean'
  BY <1>8 DEF Readopt, Draining, Taken, DeferAcknowledgement, StreamShape, ContextShape
<1>9. ASSUME NEW s \in Subs, NEW d \in Elems(buffer[s]), Adopt(s, d) PROVE IdleIsClean'
  BY <1>9 DEF Adopt, Draining, Taken, DeferAcknowledgement, StreamShape, ContextShape
<1>10. ASSUME NEW s \in Subs, NEW d \in Elems(buffer[s]), Park(s, d) PROVE IdleIsClean'
  BY <1>10 DEF Park, Draining, Taken, loopVars, stream, StreamShape, ContextShape
<1>11. ASSUME NEW s \in Subs, ProviderAnswers(s) PROVE IdleIsClean'
  BY <1>11 DEF ProviderAnswers, StreamShape, ContextShape
<1>12. ASSUME NEW s \in Subs, Acknowledge(s) PROVE IdleIsClean'
  BY <1>12 DEF Acknowledge, RetryDeferred, Confirmed, Holds, Unclaimed, StreamShape, ContextShape
<1>13. ASSUME NEW s \in Subs, EndLoop(s) PROVE IdleIsClean'
  BY <1>13 DEF EndLoop, NoAcks, Empty, StreamShape, ContextShape
<1>14. ASSUME UNCHANGED <<lastSub, polling, looping, deciding, consumed, kind>>, UNCHANGED <<hand,
   buffer, parked>>, UNCHANGED <<context, pendingAck>>
      PROVE  IdleIsClean'
  BY <1>14 DEF NoAcks
<1> QED
  BY <1>1, <1>2, <1>3, <1>4, <1>5, <1>6, <1>7, <1>8, <1>9, <1>10, <1>11, <1>12, <1>13, <1>14,
     WhoWrites DEF LoopStep, StreamStep, ContextStep

LEMMA ShownStep ==
  ASSUME MailboxShape, IdleIsClean, OwedIsShown, [Next]_vars PROVE OwedIsShown'
<1> USE MailboxAssumption DEF MailboxShape, LoopShape, ContextShape, OwedIsShown, Shown
<1>1. ASSUME Register PROVE OwedIsShown'
  <2>1. \A t \in Subs \ looping, x \in Msgs : pendingAck[t][x] = 0
    BY DEF IdleIsClean, NoAcks
  <2>2. ASSUME NEW t \in Subs, NEW x \in Msgs PROVE Shown(t, x)'
    <3>1. CASE t \in looping
      BY <1>1, <3>1, RegisterFacts DEF Register
    <3>2. CASE t \notin looping
      BY <1>1, <2>1, <3>2, RegisterFacts DEF Register
    <3> QED
      BY <3>1, <3>2
  <2> QED
    BY <2>2
<1>2. ASSUME NEW s \in Subs, StopPolling(s) PROVE OwedIsShown'
  BY <1>2 DEF StopPolling, Requeued, ClaimedBy, Unclaimed, loopVars, stream
<1>3. ASSUME NEW s \in Subs, NEW d \in Elems(buffer[s]), Handle(s, d) PROVE OwedIsShown'
  BY <1>3 DEF Handle, Draining, Taken, Acked, Holds, Unclaimed
<1>4. ASSUME NEW s \in Subs, NEW d \in Elems(buffer[s]), Readopt(s, d) PROVE OwedIsShown'
  BY <1>4 DEF Readopt, Draining, Taken, DeferAcknowledgement
<1>5. ASSUME NEW s \in Subs, NEW d \in Elems(buffer[s]), Adopt(s, d) PROVE OwedIsShown'
  <2>1. \A t \in Subs, x \in Msgs : (t = s /\ x = d[1]) \/ pendingAck'[t][x] = pendingAck[t][x]
    BY <1>5 DEF Adopt, DeferAcknowledgement
  <2>2. deciding' = deciding /\ consumed' = consumed /\ s \notin deciding
    BY <1>5 DEF Adopt, Draining
  <2> QED
    BY <1>5, <2>1, <2>2, AdoptFacts
<1>6. ASSUME NEW s \in Subs, ProviderAnswers(s) PROVE OwedIsShown'
  <2>1. \A x \in Msgs :
          /\ context'[s][x] = IF context[s][x] = "staged" THEN "observed" ELSE "absent"
          /\ context[s][x] # "absent" => x \in consumed'
    BY <1>6 DEF ProviderAnswers, Retained
  <2>2. \A t \in Subs \ {s} : context'[t] = context[t] /\ (t \in deciding' <=> t \in deciding)
    BY <1>6 DEF ProviderAnswers
  <2>3. pendingAck' = pendingAck /\ consumed \subseteq consumed'
    BY <1>6 DEF ProviderAnswers
  <2>4. ASSUME NEW t \in Subs, NEW x \in Msgs PROVE Shown(t, x)'
    <3>1. CASE t = s
      BY <2>1, <2>3, <3>1
    <3>2. CASE t # s
      BY <2>2, <2>3, <3>2
    <3> QED
      BY <3>1, <3>2
  <2> QED
    BY <2>4
<1>7. ASSUME NEW s \in Subs, Acknowledge(s) PROVE OwedIsShown'
  BY <1>7 DEF Acknowledge, Confirmed, Holds, Unclaimed
<1>8. ASSUME NEW s \in Subs, EndLoop(s) PROVE OwedIsShown'
  BY <1>8 DEF EndLoop, NoAcks, Empty
<1>9. ASSUME UNCHANGED <<lastSub, polling, looping, deciding, consumed, kind>>,
   UNCHANGED <<context, pendingAck>>
      PROVE  OwedIsShown'
  BY <1>9
<1> QED
  BY <1>1, <1>2, <1>3, <1>4, <1>5, <1>6, <1>7, <1>8, <1>9, WhoWrites DEF LoopStep, ContextStep

-----------------------------------------------------------------------------
(* The order of the deliveries *)

LEMMA ParkedStep ==
  ASSUME MailboxShape, IdleIsClean, ParkedWaits, [Next]_vars PROVE ParkedWaits'
<1> USE MailboxAssumption, EmptyOrder DEF stream, MailboxShape, LoopShape, StreamShape, ContextShape,
   ParkedWaits, Waits
<1>a. \A t \in Subs : context'[t] = context[t] => (Full(t)' <=> Full(t)) /\ Observed(t)' = Observed(t)
  BY DEF Full, Retained, Observed
<1>1. ASSUME Register PROVE ParkedWaits'
  <2>1. ASSUME NEW t \in Subs PROVE Waits(t)'
    <3>1. parked' = parked /\ deciding' = deciding
      BY <1>1 DEF Register
    <3>2. CASE t \in looping
      <4>1. context'[t] = context[t]
        BY <1>1, <3>2, RegisterFacts
      <4> QED
        BY <1>a, <3>1, <4>1
    <3>3. CASE t \notin looping
      BY <3>1, <3>3 DEF IdleIsClean
    <3> QED
      BY <3>2, <3>3
  <2> QED
    BY <2>1
<1>2. ASSUME NEW s \in Subs, ClaimDirect(s) PROVE ParkedWaits'
  BY <1>2, <1>a DEF ClaimDirect, Pending, Claimed, loopVars, stream
<1>3. ASSUME NEW s \in Subs, StopPolling(s) PROVE ParkedWaits'
  BY <1>3, <1>a DEF StopPolling, Requeued, ClaimedBy, Unclaimed, loopVars, stream
<1>4. ASSUME NEW s \in Subs, NEW m \in Broadcast, ClaimBroadcast(s, m) PROVE ParkedWaits'
  BY <1>4, <1>a DEF ClaimBroadcast, Claimed, loopVars, stream
<1>5. ASSUME NEW s \in Subs, NEW d \in hand[s], Push(s, d) PROVE ParkedWaits'
  BY <1>5, <1>a DEF Push, loopVars, stream
<1>6. ASSUME NEW s \in Subs, NEW d \in hand[s], FailExpired(s, d) PROVE ParkedWaits'
  BY <1>6, <1>a DEF FailExpired, Holds, Unclaimed, loopVars, stream
<1>7. ASSUME NEW s \in Subs, NEW d \in Elems(buffer[s]), Handle(s, d) PROVE ParkedWaits'
  BY <1>7, <1>a DEF Handle, Draining, Taken, Acked, Holds, Unclaimed
<1>8. ASSUME NEW s \in Subs, NEW d \in Elems(buffer[s]), Readopt(s, d) PROVE ParkedWaits'
  BY <1>8, <1>a DEF Readopt, Draining, Taken, DeferAcknowledgement
<1>9. ASSUME NEW s \in Subs, NEW d \in Elems(buffer[s]), Adopt(s, d) PROVE ParkedWaits'
  BY <1>9, <1>a DEF Adopt, Draining, Taken, DeferAcknowledgement
<1>10. ASSUME NEW s \in Subs, NEW d \in Elems(buffer[s]), Park(s, d) PROVE ParkedWaits'
  <2>1. d \in Deliveries
    BY DrainTypes
  <2>2. parked' = [parked EXCEPT ![s] = Append(parked[s],
     d)] /\ context' = context /\ deciding' = deciding
    BY <1>10 DEF Park, loopVars, stream
  <2>3. Elems(parked'[s]) = Elems(parked[s]) \cup {d}
    BY <2>1, <2>2, AppendOrder
  <2> QED
    BY <1>10, <1>a, <2>2, <2>3 DEF Park
<1>11. ASSUME NEW s \in Subs, ProviderAnswers(s) PROVE ParkedWaits'
  <2>1. parked' = parked /\ deciding' = deciding \cup {s}
    BY <1>11 DEF ProviderAnswers
  <2>2. \A t \in Subs \ {s} : context'[t] = context[t]
    BY <1>11 DEF ProviderAnswers
  <2>3. \A x \in Msgs : context[s][x] = "absent" => context'[s][x] = "absent"
    BY <1>11 DEF ProviderAnswers
  <2>4. \A e \in Elems(parked[s]) : e[1] \in Msgs
    BY DEF Elems, Deliveries
  <2> QED
    BY <1>a, <2>1, <2>2, <2>3, <2>4
<1>12. ASSUME NEW s \in Subs, Acknowledge(s) PROVE ParkedWaits'
  BY <1>12, <1>a DEF Acknowledge, RetryDeferred, Confirmed, Holds, Unclaimed
<1>13. ASSUME NEW s \in Subs, EndLoop(s) PROVE ParkedWaits'
  BY <1>13, <1>a DEF EndLoop, NoAcks, Empty
<1>14. ASSUME UNCHANGED <<lastSub, polling, looping, deciding, consumed, kind>>, UNCHANGED <<hand,
   buffer, parked>>, UNCHANGED <<context, pendingAck>>
      PROVE  ParkedWaits'
  BY <1>14, <1>a
<1> QED
  BY <1>1, <1>2, <1>3, <1>4, <1>5, <1>6, <1>7, <1>8, <1>9, <1>10, <1>11, <1>12, <1>13, <1>14,
     WhoWrites DEF LoopStep, StreamStep, ContextStep

LEMMA OvertakenStays ==
  ASSUME [Next]_vars
  PROVE  UNCHANGED overtaken \/ \E s \in Subs : Acknowledge(s) \/ EndLoop(s)
BY WhoWrites DEF DrainStep, TurnEnds, Push, Handle, Readopt, Adopt, Park, loopVars

LEMMA OrderStep ==
  ASSUME MailboxShape, ParkedWaits, StreamInOrder, OwedIsOldest, [Next]_vars
  PROVE  StreamInOrder'
<1> USE MailboxAssumption, EmptyOrder DEF MailboxShape, StreamShape, stream
<1>a. ASSUME NEW t \in Subs, hand'[t] = hand[t], buffer'[t] = buffer[t], parked'[t] = parked[t],
             t \in overtaken => t \in overtaken'
      PROVE  Ordered(t)'
  BY <1>a DEF StreamInOrder, Ordered, InLine
<1>1. ASSUME NEW s \in Subs, ClaimDirect(s) PROVE StreamInOrder'
  <2>o. overtaken' = overtaken
    BY <1>1 DEF ClaimDirect, loopVars
  <2>a. \A t \in Subs \ {s} : /\ hand'[t] = hand[t] /\ buffer'[t] = buffer[t]
                             /\ parked'[t] = parked[t] /\ (t \in overtaken => t \in overtaken')
    BY <1>1 DEF ClaimDirect, loopVars
  <2>b. Ordered(s)
    BY DEF StreamInOrder
  <2>1. /\ hand'[s] = {<<m, claims[m] + 1>> : m \in Pending(Direct)}
        /\ buffer'[s] = buffer[s] /\ parked'[s] = parked[s]
    BY <1>1 DEF ClaimDirect
  <2>2. \A d \in Elems(parked[s]) \cup Elems(buffer[s]) :
          d[1] \in Msgs /\ d[2] \in Nat /\ d[2] <= claims[d[1]]
    BY MineTypes DEF OwedIsOldest, Oldest, Mine
  <2>3. \A d \in Elems(parked[s]) \cup Elems(buffer[s]), e \in hand'[s] : Precedes(d, e)
    BY <2>1, <2>2 DEF Precedes, Deliveries, RowShape, Pending, Msgs
  <2>4. \A d, e \in hand'[s] : d[1] = e[1] => d = e
    BY <2>1
  <2>z. Ordered(s)'
    BY <2>o, <2>1, <2>3, <2>4, <2>b DEF Ordered, InLine
  <2> QED
    BY <1>a, <2>a, <2>z DEF StreamInOrder
<1>2. ASSUME NEW s \in Subs, StopPolling(s) PROVE StreamInOrder'
  <2>o. overtaken' = overtaken
    BY <1>2 DEF StopPolling, loopVars
  <2>a. \A t \in Subs \ {s} : /\ hand'[t] = hand[t] /\ buffer'[t] = buffer[t]
                             /\ parked'[t] = parked[t] /\ (t \in overtaken => t \in overtaken')
    BY <1>2 DEF StopPolling, loopVars
  <2>b. Ordered(s)
    BY DEF StreamInOrder
  <2>1. hand'[s] = {} /\ buffer'[s] = buffer[s] /\ parked'[s] = parked[s]
    BY <1>2 DEF StopPolling
  <2>z. Ordered(s)'
    BY <2>o, <2>1, <2>b DEF Ordered, InLine
  <2> QED
    BY <1>a, <2>a, <2>z DEF StreamInOrder
<1>3. ASSUME NEW s \in Subs, NEW m \in Broadcast, ClaimBroadcast(s, m) PROVE StreamInOrder'
  <2>o. overtaken' = overtaken
    BY <1>3 DEF ClaimBroadcast, loopVars
  <2>a. \A t \in Subs \ {s} : /\ hand'[t] = hand[t] /\ buffer'[t] = buffer[t]
                             /\ parked'[t] = parked[t] /\ (t \in overtaken => t \in overtaken')
    BY <1>3 DEF ClaimBroadcast, loopVars
  <2>b. Ordered(s)
    BY DEF StreamInOrder
  <2>1. /\ hand'[s] = {<<m, claims[m] + 1>>}
        /\ buffer'[s] = buffer[s] /\ parked'[s] = parked[s]
    BY <1>3 DEF ClaimBroadcast
  <2>2. \A d \in Elems(parked[s]) \cup Elems(buffer[s]) :
          d[1] \in Msgs /\ d[2] \in Nat /\ d[2] <= claims[d[1]]
    BY MineTypes DEF OwedIsOldest, Oldest, Mine
  <2>3. \A d \in Elems(parked[s]) \cup Elems(buffer[s]), e \in hand'[s] : Precedes(d, e)
    BY <2>1, <2>2 DEF Precedes, Deliveries, RowShape, Msgs
  <2>z. Ordered(s)'
    BY <2>o, <2>1, <2>3, <2>b DEF Ordered, InLine
  <2> QED
    BY <1>a, <2>a, <2>z DEF StreamInOrder
<1>4. ASSUME NEW s \in Subs, NEW d \in hand[s], Push(s, d) PROVE StreamInOrder'
  <2>o. overtaken' = overtaken
    BY <1>4 DEF Push, loopVars
  <2>a. \A t \in Subs \ {s} : /\ hand'[t] = hand[t] /\ buffer'[t] = buffer[t]
                             /\ parked'[t] = parked[t] /\ (t \in overtaken => t \in overtaken')
    BY <1>4 DEF Push, loopVars
  <2>b. Ordered(s)
    BY DEF StreamInOrder
  <2>1. hand'[s] = hand[s] \ {d} /\ parked'[s] = parked[s] /\ buffer'[s] = Append(buffer[s], d)
    BY <1>4 DEF Push
  <2>2. d \in Deliveries
    OBVIOUS
  <2>3. /\ Elems(buffer'[s]) = Elems(buffer[s]) \cup {d}
        /\ InOrder(buffer[s]) /\ (\A e \in Elems(buffer[s]) : Precedes(e,
           d)) => InOrder(buffer'[s])
    BY <2>1, <2>2, AppendOrder
  <2>4. \A e \in hand[s] \ {d} : Precedes(d, e)
    BY <2>b DEF Ordered, InLine, Precedes
  <2>z. Ordered(s)'
    BY <2>o, <2>1, <2>3, <2>4, <2>b DEF Ordered, InLine
  <2> QED
    BY <1>a, <2>a, <2>z DEF StreamInOrder
<1>5. ASSUME NEW s \in Subs, NEW d \in hand[s], FailExpired(s, d) PROVE StreamInOrder'
  <2>o. overtaken' = overtaken
    BY <1>5 DEF FailExpired, loopVars
  <2>a. \A t \in Subs \ {s} : /\ hand'[t] = hand[t] /\ buffer'[t] = buffer[t]
                             /\ parked'[t] = parked[t] /\ (t \in overtaken => t \in overtaken')
    BY <1>5 DEF FailExpired, loopVars
  <2>b. Ordered(s)
    BY DEF StreamInOrder
  <2>1. hand'[s] \subseteq hand[s] /\ buffer'[s] = buffer[s] /\ parked'[s] = parked[s]
    BY <1>5 DEF FailExpired
  <2>z. Ordered(s)'
    BY <2>o, <2>1, <2>b DEF Ordered, InLine
  <2> QED
    BY <1>a, <2>a, <2>z DEF StreamInOrder
<1>6. ASSUME NEW s \in Subs, NEW d \in Elems(buffer[s]), Handle(s, d) PROVE StreamInOrder'
  <2>o. overtaken' = overtaken
    BY <1>6 DEF Handle, loopVars
  <2>a. \A t \in Subs \ {s} : /\ hand'[t] = hand[t] /\ buffer'[t] = buffer[t]
                             /\ parked'[t] = parked[t] /\ (t \in overtaken => t \in overtaken')
    BY <1>6 DEF Handle, Taken
  <2>b. Ordered(s)
    BY DEF StreamInOrder
  <2>1. buffer[s] # <<>> /\ d = Head(buffer[s]) /\ buffer'[s] = Tail(buffer[s])
    BY <1>6 DEF Handle, Draining, Taken
  <2>2. hand'[s] = hand[s] /\ parked'[s] = parked[s]
    BY <1>6 DEF Handle, Draining, Taken
  <2>3. Elems(buffer'[s]) \subseteq Elems(buffer[s]) /\ (InOrder(buffer[s]) => InOrder(buffer'[s]))
    BY <2>1, TailOrder
  <2>z. Ordered(s)'
    BY <2>o, <2>2, <2>3, <2>b DEF Ordered, InLine
  <2> QED
    BY <1>a, <2>a, <2>z DEF StreamInOrder
<1>7. ASSUME NEW s \in Subs, NEW d \in Elems(buffer[s]), Readopt(s, d) PROVE StreamInOrder'
  <2>o. overtaken' = overtaken
    BY <1>7 DEF Readopt, loopVars
  <2>a. \A t \in Subs \ {s} : /\ hand'[t] = hand[t] /\ buffer'[t] = buffer[t]
                             /\ parked'[t] = parked[t] /\ (t \in overtaken => t \in overtaken')
    BY <1>7 DEF Readopt, Taken
  <2>b. Ordered(s)
    BY DEF StreamInOrder
  <2>1. buffer[s] # <<>> /\ d = Head(buffer[s]) /\ buffer'[s] = Tail(buffer[s])
    BY <1>7 DEF Readopt, Draining, Taken
  <2>2. hand'[s] = hand[s] /\ parked'[s] = parked[s]
    BY <1>7 DEF Readopt, Draining, Taken
  <2>3. Elems(buffer'[s]) \subseteq Elems(buffer[s]) /\ (InOrder(buffer[s]) => InOrder(buffer'[s]))
    BY <2>1, TailOrder
  <2>z. Ordered(s)'
    BY <2>o, <2>2, <2>3, <2>b DEF Ordered, InLine
  <2> QED
    BY <1>a, <2>a, <2>z DEF StreamInOrder
<1>8. ASSUME NEW s \in Subs, NEW d \in Elems(buffer[s]), Adopt(s, d) PROVE StreamInOrder'
  <2>o. overtaken' = overtaken
    BY <1>8 DEF Adopt, loopVars
  <2>a. \A t \in Subs \ {s} : /\ hand'[t] = hand[t] /\ buffer'[t] = buffer[t]
                             /\ parked'[t] = parked[t] /\ (t \in overtaken => t \in overtaken')
    BY <1>8 DEF Adopt, Taken
  <2>b. Ordered(s)
    BY DEF StreamInOrder
  <2>1. buffer[s] # <<>> /\ d = Head(buffer[s]) /\ buffer'[s] = Tail(buffer[s])
    BY <1>8 DEF Adopt, Draining, Taken
  <2>2. hand'[s] = hand[s] /\ parked'[s] = parked[s]
    BY <1>8 DEF Adopt, Draining, Taken
  <2>3. Elems(buffer'[s]) \subseteq Elems(buffer[s]) /\ (InOrder(buffer[s]) => InOrder(buffer'[s]))
    BY <2>1, TailOrder
  <2>z. Ordered(s)'
    BY <2>o, <2>2, <2>3, <2>b DEF Ordered, InLine
  <2> QED
    BY <1>a, <2>a, <2>z DEF StreamInOrder
<1>9. ASSUME NEW s \in Subs, NEW d \in Elems(buffer[s]), Park(s, d) PROVE StreamInOrder'
  <2>o. overtaken' = overtaken
    BY <1>9 DEF Park, loopVars
  <2>a. \A t \in Subs \ {s} : /\ hand'[t] = hand[t] /\ buffer'[t] = buffer[t]
                             /\ parked'[t] = parked[t] /\ (t \in overtaken => t \in overtaken')
    BY <1>9 DEF Park, Taken, loopVars, stream
  <2>b. Ordered(s)
    BY DEF StreamInOrder
  <2>1. buffer[s] # <<>> /\ d = Head(buffer[s]) /\ buffer'[s] = Tail(buffer[s])
    BY <1>9 DEF Park, Draining, Taken
  <2>2. hand'[s] = hand[s] /\ parked'[s] = Append(parked[s], d)
    BY <1>9 DEF Park
  <2>3. /\ Elems(buffer'[s]) \subseteq Elems(buffer[s]) /\ d \in Elems(buffer[s])
        /\ InOrder(buffer[s]) =>
             InOrder(buffer'[s]) /\ \A e \in Elems(buffer'[s]) : Precedes(d, e)
    BY <2>1, TailOrder
  <2>4. d \in Deliveries
    BY DrainTypes
  <2>5. /\ Elems(parked'[s]) = Elems(parked[s]) \cup {d}
        /\ InOrder(parked[s]) /\ (\A e \in Elems(parked[s]) : Precedes(e, d)) => InOrder(parked'[s])
    BY <2>2, <2>4, AppendOrder
  <2>z. Ordered(s)'
    BY <2>o, <2>2, <2>3, <2>5, <2>b DEF Ordered, InLine
  <2> QED
    BY <1>a, <2>a, <2>z DEF StreamInOrder
<1>10. ASSUME NEW s \in Subs, Acknowledge(s) PROVE StreamInOrder'
  <2>a. \A t \in Subs \ {s} : /\ hand'[t] = hand[t] /\ buffer'[t] = buffer[t]
                             /\ parked'[t] = parked[t] /\ (t \in overtaken => t \in overtaken')
    BY <1>10 DEF Acknowledge, RetryDeferred
  <2>b. Ordered(s)
    BY DEF StreamInOrder
  <2>1. hand'[s] = hand[s] /\ RetryDeferred(s)
    BY <1>10 DEF Acknowledge
  <2>2. /\ parked'[s] = <<>> /\ Elems(buffer'[s]) = Elems(parked[s]) \cup Elems(buffer[s])
        /\ s \notin overtaken' => s \notin overtaken /\ (InLine(s) => InOrder(buffer'[s]))
    BY <2>1, RetryFacts
  <2>z. Ordered(s)'
    BY <2>1, <2>2, <2>b DEF Ordered, InLine
  <2> QED
    BY <1>a, <2>a, <2>z DEF StreamInOrder
<1>11. ASSUME NEW s \in Subs, EndLoop(s) PROVE StreamInOrder'
  <2>a. \A t \in Subs \ {s} : /\ hand'[t] = hand[t] /\ buffer'[t] = buffer[t]
                             /\ parked'[t] = parked[t] /\ (t \in overtaken => t \in overtaken')
    BY <1>11 DEF EndLoop
  <2>b. Ordered(s)
    BY DEF StreamInOrder
  <2>1. hand'[s] = hand[s] /\ buffer'[s] = <<>> /\ parked'[s] = <<>>
    BY <1>11 DEF EndLoop
  <2>z. Ordered(s)'
    BY <2>1, <2>b DEF Ordered, InLine
  <2> QED
    BY <1>a, <2>a, <2>z DEF StreamInOrder
<1>12. ASSUME UNCHANGED <<hand, buffer, parked>>, UNCHANGED overtaken PROVE StreamInOrder'
  BY <1>12, <1>a DEF StreamInOrder
<1> QED
  BY <1>1, <1>2, <1>3, <1>4, <1>5, <1>6, <1>7, <1>8, <1>9, <1>10, <1>11, <1>12, OvertakenStays,
     WhoWrites
     DEF StreamStep

LEMMA OldestStep ==
  ASSUME MailboxShape, IdleIsClean, ParkedWaits, StreamInOrder, OwedIsOldest, [Next]_vars
  PROVE  OwedIsOldest'
<1> USE MailboxAssumption, EmptyOrder DEF MailboxShape, StreamShape, ContextShape, stream
<1>b. \A x \in Msgs : claims[x] \in Nat /\ claims'[x] \in Nat /\ claims[x] <= claims'[x]
  <2> USE DEF RowShape
  <2>1. CASE UNCHANGED <<row, claims>>
    BY <2>1
  <2>2. CASE \E S : claims' = [x \in Msgs |-> IF x \in S THEN claims[x] + 1 ELSE claims[x]]
    BY <2>2
  <2>3. ASSUME NEW s \in Subs, ClaimDirect(s) \/ ClaimLost(s) \/ ClaimReleased(s)
        PROVE  \E S : claims' = [x \in Msgs |-> IF x \in S THEN claims[x] + 1 ELSE claims[x]]
    BY <2>3 DEF ClaimDirect, ClaimLost, ClaimReleased, Claimed
  <2>4. ASSUME NEW s \in Subs, NEW m \in Broadcast, ClaimBroadcast(s, m)
        PROVE  \E S : claims' = [x \in Msgs |-> IF x \in S THEN claims[x] + 1 ELSE claims[x]]
    BY <2>4 DEF ClaimBroadcast, Claimed
  <2>5. RowStep => \/ claims' = claims
                   \/ (\E s \in Subs : ClaimDirect(s) \/ ClaimLost(s) \/ ClaimReleased(s))
                   \/ (\E s \in Subs, m \in Broadcast : ClaimBroadcast(s, m))
    BY DEF RowStep, Send, ReclaimStale, Cleanup, StopPolling, Acknowledge, FailExpiredBroadcast,
       FailExpired, Handle
  <2>6. CASE claims' = claims
    BY <2>6
  <2> QED
    BY <2>1, <2>2, <2>3, <2>4, <2>5, <2>6, WhoWrites
<1>c. \A t \in Subs, x \in Msgs : pendingAck[t][x] \in Nat
  OBVIOUS
<1>a. ASSUME NEW t \in Subs, Mine(t)' \subseteq Mine(t), pendingAck'[t] = pendingAck[t],
             t \in overtaken => t \in overtaken'
      PROVE  Oldest(t)'
  <2>1. \A e \in Mine(t) : e[1] \in Msgs /\ e[2] \in Nat
    BY MineTypes
  <2>2. Oldest(t)
    BY DEF OwedIsOldest
  <2> HIDE MailboxAssumption, EmptyOrder DEF MailboxShape, StreamShape, ContextShape
  <2>3. ASSUME NEW e \in Mine(t)'
        PROVE  (t \in overtaken' \/ pendingAck'[t][e[1]] < e[2]) /\ e[2] <= claims'[e[1]]
    BY <1>a, <1>b, <1>c, <2>1, <2>2, <2>3 DEF Oldest
  <2>4. ASSUME NEW x \in Msgs PROVE pendingAck'[t][x] <= claims'[x]
    BY <1>a, <1>b, <1>c, <2>2, <2>4 DEF Oldest
  <2> QED
    BY <2>3, <2>4 DEF Oldest
<1>1. ASSUME Register PROVE OwedIsOldest'
  <2>o. overtaken' = overtaken
    BY <1>1 DEF Register, loopVars
  <2>1. \A t \in Subs : Mine(t)' = Mine(t)
    BY <1>1 DEF Mine, Register
  <2> QED
    BY <1>1, <1>a, <2>1 DEF OwedIsOldest, Register
<1>2. ASSUME NEW s \in Subs, ClaimDirect(s) PROVE OwedIsOldest'
  <2>o. overtaken' = overtaken
    BY <1>2 DEF ClaimDirect, loopVars
  <2>a. \A t \in Subs \ {s} : Mine(t)' \subseteq Mine(t) /\ pendingAck'[t] = pendingAck[t]
                             /\ (t \in overtaken => t \in overtaken')
    BY <1>2 DEF Mine, ClaimDirect, loopVars, stream
  <2>b. Oldest(s) /\ \A e \in Mine(s) : e[1] \in Msgs /\ e[2] \in Nat
    BY MineTypes DEF OwedIsOldest
  <2>1. /\ hand'[s] = {<<m, claims[m] + 1>> : m \in Pending(Direct)}
        /\ Mine(s)' \subseteq Mine(s) \cup hand'[s] /\ pendingAck' = pendingAck
    BY <1>2 DEF ClaimDirect, Mine, loopVars, stream
  <2>2. \A m \in Pending(Direct) : m \in Msgs /\ claims'[m] = claims[m] + 1
    BY <1>2 DEF ClaimDirect, Claimed, Pending, Msgs
  <2>3. \A e \in hand'[s] : e[1] \in Msgs /\ e[2] = claims[e[1]] + 1 /\ e[2] = claims'[e[1]]
    BY <2>1, <2>2
  <2>z. Oldest(s)'
    <3> HIDE MailboxAssumption, EmptyOrder DEF MailboxShape, StreamShape, ContextShape
    <3>1. ASSUME NEW e \in Mine(s)'
          PROVE  (s \in overtaken' \/ pendingAck'[s][e[1]] < e[2]) /\ e[2] <= claims'[e[1]]
      BY <1>b, <1>c, <2>b, <2>o, <3>1, <2>1, <2>3 DEF Oldest
    <3>2. ASSUME NEW x \in Msgs PROVE pendingAck'[s][x] <= claims'[x]
      BY <1>b, <1>c, <2>b, <2>o, <3>2, <2>1, <2>3 DEF Oldest
    <3> QED
      BY <3>1, <3>2 DEF Oldest
  <2> QED
    BY <1>a, <2>a, <2>z DEF OwedIsOldest
<1>3. ASSUME NEW s \in Subs, StopPolling(s) PROVE OwedIsOldest'
  <2>o. overtaken' = overtaken
    BY <1>3 DEF StopPolling, loopVars
  <2>a. \A t \in Subs \ {s} : Mine(t)' \subseteq Mine(t) /\ pendingAck'[t] = pendingAck[t]
                             /\ (t \in overtaken => t \in overtaken')
    BY <1>3 DEF Mine, StopPolling, loopVars, stream
  <2>b. Oldest(s) /\ \A e \in Mine(s) : e[1] \in Msgs /\ e[2] \in Nat
    BY MineTypes DEF OwedIsOldest
  <2>1. Mine(s)' \subseteq Mine(s) /\ pendingAck' = pendingAck
    BY <1>3 DEF StopPolling, Mine, loopVars, stream
  <2>z. Oldest(s)'
    BY <1>a, <2>o, <2>1
  <2> QED
    BY <1>a, <2>a, <2>z DEF OwedIsOldest
<1>4. ASSUME NEW s \in Subs, NEW m \in Broadcast, ClaimBroadcast(s, m) PROVE OwedIsOldest'
  <2>o. overtaken' = overtaken
    BY <1>4 DEF ClaimBroadcast, loopVars
  <2>a. \A t \in Subs \ {s} : Mine(t)' \subseteq Mine(t) /\ pendingAck'[t] = pendingAck[t]
                             /\ (t \in overtaken => t \in overtaken')
    BY <1>4 DEF Mine, ClaimBroadcast, loopVars, stream
  <2>b. Oldest(s) /\ \A e \in Mine(s) : e[1] \in Msgs /\ e[2] \in Nat
    BY MineTypes DEF OwedIsOldest
  <2>1. /\ hand'[s] = {<<m, claims[m] + 1>>}
        /\ Mine(s)' \subseteq Mine(s) \cup hand'[s] /\ pendingAck' = pendingAck
    BY <1>4 DEF ClaimBroadcast, Mine, loopVars, stream
  <2>2. m \in Msgs /\ claims'[m] = claims[m] + 1
    BY <1>4 DEF ClaimBroadcast, Claimed, Msgs
  <2>3. \A e \in hand'[s] : e[1] \in Msgs /\ e[2] = claims[e[1]] + 1 /\ e[2] = claims'[e[1]]
    BY <2>1, <2>2
  <2>z. Oldest(s)'
    <3> HIDE MailboxAssumption, EmptyOrder DEF MailboxShape, StreamShape, ContextShape
    <3>1. ASSUME NEW e \in Mine(s)'
          PROVE  (s \in overtaken' \/ pendingAck'[s][e[1]] < e[2]) /\ e[2] <= claims'[e[1]]
      BY <1>b, <1>c, <2>b, <2>o, <3>1, <2>1, <2>3 DEF Oldest
    <3>2. ASSUME NEW x \in Msgs PROVE pendingAck'[s][x] <= claims'[x]
      BY <1>b, <1>c, <2>b, <2>o, <3>2, <2>1, <2>3 DEF Oldest
    <3> QED
      BY <3>1, <3>2 DEF Oldest
  <2> QED
    BY <1>a, <2>a, <2>z DEF OwedIsOldest
<1>5. ASSUME NEW s \in Subs, NEW d \in hand[s], Push(s, d) PROVE OwedIsOldest'
  <2>o. overtaken' = overtaken
    BY <1>5 DEF Push, loopVars
  <2>a. \A t \in Subs \ {s} : Mine(t)' \subseteq Mine(t) /\ pendingAck'[t] = pendingAck[t]
                             /\ (t \in overtaken => t \in overtaken')
    BY <1>5 DEF Mine, Push, loopVars, stream
  <2>b. Oldest(s) /\ \A e \in Mine(s) : e[1] \in Msgs /\ e[2] \in Nat
    BY MineTypes DEF OwedIsOldest
  <2>1. hand'[s] \subseteq hand[s] /\ buffer'[s] = Append(buffer[s], d) /\ parked' = parked
        /\ pendingAck' = pendingAck
    BY <1>5 DEF Push, loopVars, stream
  <2>2. Elems(buffer'[s]) = Elems(buffer[s]) \cup {d}
    BY <2>1, AppendOrder
  <2>3. Mine(s)' \subseteq Mine(s)
    BY <2>1, <2>2 DEF Mine
  <2>z. Oldest(s)'
    BY <1>a, <2>o, <2>1, <2>3
  <2> QED
    BY <1>a, <2>a, <2>z DEF OwedIsOldest
<1>6. ASSUME NEW s \in Subs, NEW d \in hand[s], FailExpired(s, d) PROVE OwedIsOldest'
  <2>o. overtaken' = overtaken
    BY <1>6 DEF FailExpired, loopVars
  <2>a. \A t \in Subs \ {s} : Mine(t)' \subseteq Mine(t) /\ pendingAck'[t] = pendingAck[t]
                             /\ (t \in overtaken => t \in overtaken')
    BY <1>6 DEF Mine, FailExpired, loopVars, stream
  <2>b. Oldest(s) /\ \A e \in Mine(s) : e[1] \in Msgs /\ e[2] \in Nat
    BY MineTypes DEF OwedIsOldest
  <2>1. Mine(s)' \subseteq Mine(s) /\ pendingAck' = pendingAck
    BY <1>6 DEF FailExpired, Mine, loopVars, stream
  <2>z. Oldest(s)'
    BY <1>a, <2>o, <2>1
  <2> QED
    BY <1>a, <2>a, <2>z DEF OwedIsOldest
<1>7. ASSUME NEW s \in Subs, NEW d \in Elems(buffer[s]), Handle(s, d) PROVE OwedIsOldest'
  <2>o. overtaken' = overtaken
    BY <1>7 DEF Handle, loopVars
  <2>a. \A t \in Subs \ {s} : Mine(t)' \subseteq Mine(t) /\ pendingAck'[t] = pendingAck[t]
                             /\ (t \in overtaken => t \in overtaken')
    BY <1>7 DEF Mine, Handle, Taken
  <2>b. Oldest(s) /\ \A e \in Mine(s) : e[1] \in Msgs /\ e[2] \in Nat
    BY MineTypes DEF OwedIsOldest
  <2>1. buffer[s] # <<>> /\ d = Head(buffer[s]) /\ buffer'[s] = Tail(buffer[s])
    BY <1>7 DEF Handle, Draining, Taken
  <2>2. hand'[s] = hand[s] /\ parked'[s] = parked[s]
    BY <1>7 DEF Handle
  <2>3. Elems(buffer'[s]) \subseteq Elems(buffer[s]) /\ d \in Elems(buffer[s])
        /\ (InOrder(buffer[s]) => \A e \in Elems(buffer'[s]) : Precedes(d, e))
    BY <2>1, TailOrder
  <2>4. Mine(s)' \subseteq Mine(s) /\ pendingAck' = pendingAck
    BY <1>7, <2>2, <2>3 DEF Mine, Handle
  <2>z. Oldest(s)'
    BY <1>a, <2>o, <2>4
  <2> QED
    BY <1>a, <2>a, <2>z DEF OwedIsOldest
<1>8. ASSUME NEW s \in Subs, NEW d \in Elems(buffer[s]), Readopt(s, d) PROVE OwedIsOldest'
  <2>o. overtaken' = overtaken
    BY <1>8 DEF Readopt, loopVars
  <2>a. \A t \in Subs \ {s} : Mine(t)' \subseteq Mine(t) /\ pendingAck'[t] = pendingAck[t]
                             /\ (t \in overtaken => t \in overtaken')
    BY <1>8 DEF Mine, Readopt, Taken, DeferAcknowledgement
  <2>b. Oldest(s) /\ \A e \in Mine(s) : e[1] \in Msgs /\ e[2] \in Nat
    BY MineTypes DEF OwedIsOldest
  <2>1. buffer[s] # <<>> /\ d = Head(buffer[s]) /\ buffer'[s] = Tail(buffer[s])
    BY <1>8 DEF Readopt, Draining, Taken
  <2>2. hand'[s] = hand[s] /\ parked'[s] = parked[s]
    BY <1>8 DEF Readopt
  <2>3. Elems(buffer'[s]) \subseteq Elems(buffer[s]) /\ d \in Elems(buffer[s])
        /\ (InOrder(buffer[s]) => \A e \in Elems(buffer'[s]) : Precedes(d, e))
    BY <2>1, TailOrder
  <2>4. \A e \in Elems(parked[s]) : e[1] # d[1]
    BY <1>8 DEF Readopt, ParkedWaits, Waits
  <2>5. \A x \in Msgs : pendingAck'[s][x] = IF x = d[1] THEN d[2] ELSE pendingAck[s][x]
    BY <1>8 DEF Readopt, DeferAcknowledgement
  <2>6. \A e \in Mine(s)' : e \in Mine(s) /\ (s \in overtaken \/ Precedes(d, e))
    BY <2>2, <2>3, <2>4 DEF Mine, StreamInOrder, Ordered, InLine, Precedes
  <2>7. d \in Mine(s)
    BY <2>3 DEF Mine
  <2>z. Oldest(s)'
    <3> HIDE MailboxAssumption, EmptyOrder DEF MailboxShape, StreamShape, ContextShape
    <3>1. ASSUME NEW e \in Mine(s)'
          PROVE  (s \in overtaken' \/ pendingAck'[s][e[1]] < e[2]) /\ e[2] <= claims'[e[1]]
      BY <1>b, <1>c, <2>b, <2>o, <3>1, <2>5, <2>6, <2>7 DEF Oldest, Precedes
    <3>2. ASSUME NEW x \in Msgs PROVE pendingAck'[s][x] <= claims'[x]
      BY <1>b, <1>c, <2>b, <2>o, <3>2, <2>5, <2>6, <2>7 DEF Oldest, Precedes
    <3> QED
      BY <3>1, <3>2 DEF Oldest
  <2> QED
    BY <1>a, <2>a, <2>z DEF OwedIsOldest
<1>9. ASSUME NEW s \in Subs, NEW d \in Elems(buffer[s]), Adopt(s, d) PROVE OwedIsOldest'
  <2>o. overtaken' = overtaken
    BY <1>9 DEF Adopt, loopVars
  <2>a. \A t \in Subs \ {s} : Mine(t)' \subseteq Mine(t) /\ pendingAck'[t] = pendingAck[t]
                             /\ (t \in overtaken => t \in overtaken')
    BY <1>9 DEF Mine, Adopt, Taken, DeferAcknowledgement
  <2>b. Oldest(s) /\ \A e \in Mine(s) : e[1] \in Msgs /\ e[2] \in Nat
    BY MineTypes DEF OwedIsOldest
  <2>1. buffer[s] # <<>> /\ d = Head(buffer[s]) /\ buffer'[s] = Tail(buffer[s])
    BY <1>9 DEF Adopt, Draining, Taken
  <2>2. hand'[s] = hand[s] /\ parked'[s] = parked[s]
    BY <1>9 DEF Adopt
  <2>3. Elems(buffer'[s]) \subseteq Elems(buffer[s]) /\ d \in Elems(buffer[s])
        /\ (InOrder(buffer[s]) => \A e \in Elems(buffer'[s]) : Precedes(d, e))
    BY <2>1, TailOrder
  <2>4. Elems(parked[s]) = {}
    BY <1>9 DEF Adopt, Draining, ParkedWaits, Waits
  <2>5. \A x \in Msgs : pendingAck'[s][x] = IF x = d[1] THEN d[2] ELSE pendingAck[s][x]
    BY <1>9 DEF Adopt, DeferAcknowledgement
  <2>6. \A e \in Mine(s)' : e \in Mine(s) /\ (s \in overtaken \/ Precedes(d, e))
    BY <2>2, <2>3, <2>4 DEF Mine, StreamInOrder, Ordered, InLine, Precedes
  <2>7. d \in Mine(s)
    BY <2>3 DEF Mine
  <2>z. Oldest(s)'
    <3> HIDE MailboxAssumption, EmptyOrder DEF MailboxShape, StreamShape, ContextShape
    <3>1. ASSUME NEW e \in Mine(s)'
          PROVE  (s \in overtaken' \/ pendingAck'[s][e[1]] < e[2]) /\ e[2] <= claims'[e[1]]
      BY <1>b, <1>c, <2>b, <2>o, <3>1, <2>5, <2>6, <2>7 DEF Oldest, Precedes
    <3>2. ASSUME NEW x \in Msgs PROVE pendingAck'[s][x] <= claims'[x]
      BY <1>b, <1>c, <2>b, <2>o, <3>2, <2>5, <2>6, <2>7 DEF Oldest, Precedes
    <3> QED
      BY <3>1, <3>2 DEF Oldest
  <2> QED
    BY <1>a, <2>a, <2>z DEF OwedIsOldest
<1>10. ASSUME NEW s \in Subs, NEW d \in Elems(buffer[s]), Park(s, d) PROVE OwedIsOldest'
  <2>o. overtaken' = overtaken
    BY <1>10 DEF Park, loopVars
  <2>a. \A t \in Subs \ {s} : Mine(t)' \subseteq Mine(t) /\ pendingAck'[t] = pendingAck[t]
                             /\ (t \in overtaken => t \in overtaken')
    BY <1>10 DEF Mine, Park, Taken, loopVars, stream
  <2>b. Oldest(s) /\ \A e \in Mine(s) : e[1] \in Msgs /\ e[2] \in Nat
    BY MineTypes DEF OwedIsOldest
  <2>1. buffer[s] # <<>> /\ d = Head(buffer[s]) /\ buffer'[s] = Tail(buffer[s])
    BY <1>10 DEF Park, Draining, Taken
  <2>2. hand' = hand /\ parked'[s] = Append(parked[s], d) /\ pendingAck' = pendingAck
    BY <1>10 DEF Park, loopVars, stream
  <2>3. Elems(buffer'[s]) \subseteq Elems(buffer[s]) /\ d \in Elems(buffer[s])
    BY <2>1, TailOrder
  <2>4. d \in Deliveries
    BY DrainTypes
  <2>5. Elems(parked'[s]) = Elems(parked[s]) \cup {d}
    BY <2>2, <2>4, AppendOrder
  <2>6. Mine(s)' \subseteq Mine(s)
    BY <2>2, <2>3, <2>5 DEF Mine
  <2>z. Oldest(s)'
    BY <1>a, <2>o, <2>2, <2>6
  <2> QED
    BY <1>a, <2>a, <2>z DEF OwedIsOldest
<1>11. ASSUME NEW s \in Subs, ProviderAnswers(s) PROVE OwedIsOldest'
  <2>o. overtaken' = overtaken
    BY <1>11 DEF ProviderAnswers, loopVars
  <2>1. \A t \in Subs : Mine(t)' = Mine(t)
    BY <1>11 DEF Mine, ProviderAnswers
  <2> QED
    BY <1>11, <1>a, <2>1 DEF OwedIsOldest, ProviderAnswers
<1>12. ASSUME NEW s \in Subs, Acknowledge(s) PROVE OwedIsOldest'
  <2>a. \A t \in Subs \ {s} : Mine(t)' \subseteq Mine(t) /\ pendingAck'[t] = pendingAck[t]
                             /\ (t \in overtaken => t \in overtaken')
    BY <1>12 DEF Mine, Acknowledge, RetryDeferred
  <2>b. Oldest(s) /\ \A e \in Mine(s) : e[1] \in Msgs /\ e[2] \in Nat
    BY MineTypes DEF OwedIsOldest
  <2>1. hand' = hand /\ RetryDeferred(s)
    BY <1>12 DEF Acknowledge
  <2>2. parked'[s] = <<>> /\ Elems(buffer'[s]) = Elems(parked[s]) \cup Elems(buffer[s])
    BY <2>1, RetryFacts
  <2>o. s \in overtaken => s \in overtaken'
    BY <2>1 DEF RetryDeferred
  <2>3. Mine(s)' \subseteq Mine(s)
    BY <2>1, <2>2 DEF Mine
  <2>4. \A x \in Msgs : pendingAck'[s][x] \in {0, pendingAck[s][x]}
    BY <1>12 DEF Acknowledge
  <2>z. Oldest(s)'
    <3> HIDE MailboxAssumption, EmptyOrder DEF MailboxShape, StreamShape, ContextShape
    <3>1. ASSUME NEW e \in Mine(s)'
          PROVE  (s \in overtaken' \/ pendingAck'[s][e[1]] < e[2]) /\ e[2] <= claims'[e[1]]
      BY <1>b, <1>c, <2>b, <2>o, <3>1, <2>3, <2>4 DEF Oldest
    <3>2. ASSUME NEW x \in Msgs PROVE pendingAck'[s][x] <= claims'[x]
      BY <1>b, <1>c, <2>b, <2>o, <3>2, <2>3, <2>4 DEF Oldest
    <3> QED
      BY <3>1, <3>2 DEF Oldest
  <2> QED
    BY <1>a, <2>a, <2>z DEF OwedIsOldest
<1>13. ASSUME NEW s \in Subs, EndLoop(s) PROVE OwedIsOldest'
  <2>a. \A t \in Subs \ {s} : Mine(t)' \subseteq Mine(t) /\ pendingAck'[t] = pendingAck[t]
                             /\ (t \in overtaken => t \in overtaken')
    BY <1>13 DEF Mine, EndLoop
  <2>b. Oldest(s) /\ \A e \in Mine(s) : e[1] \in Msgs /\ e[2] \in Nat
    BY MineTypes DEF OwedIsOldest
  <2>1. hand' = hand /\ parked'[s] = <<>> /\ buffer'[s] = <<>> /\ pendingAck'[s] = NoAcks
    BY <1>13 DEF EndLoop
  <2>2. Mine(s)' \subseteq Mine(s)
    BY <2>1 DEF Mine
  <2>o. \A e \in Mine(s) : e[2] > 0
    BY MineTypes DEF Deliveries
  <2>z. Oldest(s)'
    <3> HIDE MailboxAssumption, EmptyOrder DEF MailboxShape, StreamShape, ContextShape
    <3>1. ASSUME NEW e \in Mine(s)'
          PROVE  (s \in overtaken' \/ pendingAck'[s][e[1]] < e[2]) /\ e[2] <= claims'[e[1]]
      BY <1>b, <1>c, <2>b, <2>o, <3>1, <2>1, <2>2 DEF Oldest, NoAcks
    <3>2. ASSUME NEW x \in Msgs PROVE pendingAck'[s][x] <= claims'[x]
      BY <1>b, <1>c, <2>b, <2>o, <3>2, <2>1, <2>2 DEF Oldest, NoAcks
    <3> QED
      BY <3>1, <3>2 DEF Oldest
  <2> QED
    BY <1>a, <2>a, <2>z DEF OwedIsOldest
<1>14. ASSUME UNCHANGED <<hand, buffer, parked, context, pendingAck>>, UNCHANGED overtaken
       PROVE  OwedIsOldest'
  <2>1. \A t \in Subs : Mine(t)' = Mine(t)
    BY <1>14 DEF Mine
  <2> QED
    BY <1>14, <1>a, <2>1 DEF OwedIsOldest
<1> QED
  BY <1>1, <1>2, <1>3, <1>4, <1>5, <1>6, <1>7, <1>8, <1>9, <1>10, <1>11, <1>12, <1>13, <1>14,
     OvertakenStays, WhoWrites DEF StreamStep, ContextStep

-----------------------------------------------------------------------------
(* The theorems *)

LEMMA MailboxInvInit == Init => MailboxInv
<1> SUFFICES ASSUME Init PROVE MailboxInv
  OBVIOUS
<1>1. MailboxShape
  BY ShapeInit
<1>2. AttemptsLeft
  BY MailboxAssumption DEF Init, AttemptsLeft, Msgs
<1>3. ClaimIsLatest /\ AcknowledgedWasConsumed
  BY DEF Init, ClaimIsLatest, AcknowledgedWasConsumed, Unclaimed
<1>4. IdleIsClean
  BY DEF Init, IdleIsClean
<1>5. OwedIsShown
  BY DEF Init, OwedIsShown, Shown, Empty, NoAcks
<1>6. ParkedWaits
  BY EmptyOrder DEF Init, ParkedWaits, Waits
<1>7. StreamInOrder
  BY EmptyOrder DEF Init, StreamInOrder, Ordered, InLine
<1>8. OwedIsOldest
  BY EmptyOrder DEF Init, OwedIsOldest, Oldest, Mine, NoAcks
<1> QED
  BY <1>1, <1>2, <1>3, <1>4, <1>5, <1>6, <1>7, <1>8 DEF MailboxInv

LEMMA MailboxInvStep == ASSUME MailboxInv, [Next]_vars PROVE MailboxInv'
<1> USE DEF MailboxInv
<1>1. MailboxShape'
  BY RowShapeStep, LoopShapeStep, StreamShapeStep, DrainShapeStep, ContextShapeStep
     DEF MailboxShape
<1> QED
  BY <1>1, AttemptsStep, LatestStep, IdleStep, ShownStep, AckedStep, ParkedStep, OrderStep,
     OldestStep

LEMMA MailboxInvariant == Spec => []MailboxInv
BY MailboxInvInit, MailboxInvStep, PTL DEF Spec

\* The mailbox's state stays well formed; in particular no sequence of crashes,
\* lost replies and stale claims has a direct message claimed more often than
\* max_delivery_attempts.
THEOREM MailboxTypes == Spec => []MailboxTypeOK
<1>1. MailboxInv => MailboxTypeOK
  <2>1. MailboxInv => \A s \in Subs : /\ peeked[s] \in 0..Len(buffer[s]) /\ drained[s] \in 0..DrainCap
                                      /\ hand[s] \subseteq Deliveries
                                      /\ buffer[s] \in Seq(Deliveries) /\ parked[s] \in Seq(Deliveries)
    BY DEF MailboxInv, MailboxShape, StreamShape, DrainShape
  <2> QED
    BY <2>1 DEF MailboxInv, MailboxShape, RowShape, LoopShape, DrainShape, ContextShape,
       MailboxTypeOK
<1> QED
  BY <1>1, MailboxInvariant, PTL

\* Nothing is acknowledged in the database that neither a provider answer nor a
\* handler has taken in: redelivered, replaced, parked and evicted messages included.
THEOREM AcknowledgementIsEarned == Spec => []AcknowledgedWasConsumed
<1>1. MailboxInv => AcknowledgedWasConsumed
  BY DEF MailboxInv
<1> QED
  BY <1>1, MailboxInvariant, PTL

\* The envelope that a redelivery replaces, or that an update reports confirmed,
\* no longer holds the claim of its message, or it is replaced by an earlier one that
\* it has overtaken.
LEMMA ReplacedIsStale ==
  ASSUME MailboxInv, [Next]_vars, NEW s \in Subs, NEW m \in Msgs, pendingAck[s][m] # 0,
         pendingAck'[s][m] # pendingAck[s][m], s \in looping',
         row'[m] = [st |-> "claimed", by |-> s, n |-> pendingAck[s][m]]
  PROVE  s \in overtaken /\ pendingAck'[s][m] \in 1..(pendingAck[s][m] - 1)
<1> USE DEF MailboxInv, MailboxShape, ContextShape
<1>1. ASSUME NEW t \in Subs, NEW d \in Elems(buffer[t]), Readopt(t, d) \/ Adopt(t, d)
      PROVE  s \in overtaken /\ pendingAck'[s][m] \in 1..(pendingAck[s][m] - 1)
  <2>1. t = s /\ m = d[1] /\ row' = row /\ pendingAck'[s][m] = d[2]
    BY <1>1 DEF Readopt, Adopt, DeferAcknowledgement
  <2>2. d \in Mine(s) /\ d[2] \in Nat /\ d[2] > 0
    BY <2>1, MineTypes DEF Mine, Deliveries
  <2>3. (s \in overtaken \/ pendingAck[s][m] < d[2]) /\ d[2] <= claims[m]
    BY <2>1, <2>2 DEF OwedIsOldest, Oldest
  <2>4. pendingAck[s][m] \in Nat /\ claims[m] \in Nat
    BY DEF RowShape
  <2>5. pendingAck[s][m] = claims[m]
    BY <2>1 DEF ClaimIsLatest
  <2>6. d[2] # pendingAck[s][m]
    BY <2>1
  <2>7. PICK a, b : a = pendingAck[s][m] /\ b = d[2]
    OBVIOUS
  <2>8. a \in Nat /\ b \in Nat /\ b > 0 /\ b <= a /\ b # a
    BY <2>2, <2>3, <2>4, <2>5, <2>6, <2>7
  <2>9. b \in 1..(a - 1) /\ ~(a < b)
    BY <2>8
  <2> QED
    BY <2>1, <2>3, <2>7, <2>9
<1>2. ASSUME NEW t \in Subs, Acknowledge(t) PROVE FALSE
  <2>1. PICK reported \in SUBSET {Direct, Broadcast} : \E done \in SUBSET {Direct, Broadcast} :
          /\ reported \subseteq done
          /\ row' = Confirmed(t, UNION done)
          /\ pendingAck' = [pendingAck EXCEPT ![t] =
                              [x \in Msgs |-> IF x \in UNION reported THEN 0 ELSE @[x]]]
    BY <1>2 DEF Acknowledge
  <2>2. t = s /\ m \in UNION reported
    BY <2>1
  <2>3. row'[m] = IF Holds(m, s, pendingAck[s][m]) THEN Unclaimed("acked") ELSE row[m]
    BY <2>1, <2>2 DEF Confirmed
  <2> QED
    BY <2>3 DEF Holds, Unclaimed
<1>3. ASSUME NEW t \in Subs, EndLoop(t) PROVE FALSE
  BY <1>3 DEF EndLoop
<1>4. ~(Register \/ \E t \in Subs : ProviderAnswers(t)) /\ ~UNCHANGED <<context, pendingAck>>
  BY DEF Register, ProviderAnswers
<1> QED
  BY <1>1, <1>2, <1>3, <1>4, WhoWrites DEF ContextStep

\* A running loop gives up the confirmation of a delivery only when that delivery
\* has lost its claim, as long as it has never queued parked deliveries behind a
\* peeked one: replacing the pending envelope by a redelivery, and counting an update
\* of no rows as a success, forget nothing that was still to be confirmed. After it
\* has, defer_acknowledgement may still exchange a confirmation for that of an
\* earlier claim of the same message, and nothing else.
THEOREM ConfirmationsAreKept == Spec => ConfirmationNotAbandoned
<1>1. MailboxInv /\ [Next]_vars =>
        [\A s \in Subs, m \in Msgs :
           pendingAck[s][m] # 0 /\ pendingAck'[s][m] # pendingAck[s][m] /\ s \in looping'
             => \/ row'[m] # [st |-> "claimed", by |-> s, n |-> pendingAck[s][m]]
                \/ s \in overtaken /\ pendingAck'[s][m] \in 1..(pendingAck[s][m] - 1)]_vars
  BY ReplacedIsStale
<1> QED
  BY <1>1, MailboxInvariant, PTL DEF Spec, ConfirmationNotAbandoned

=============================================================================
