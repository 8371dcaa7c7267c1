------------------------------ MODULE Mailbox ------------------------------
(***************************************************************************)
(* The durable mailbox of one agent, tables agent_message_queue and        *)
(* agent_message_broadcast_delivery                                        *)
(* (crates/astra-messaging/src/db_transport.rs): the poll loop of each     *)
(* subscription, the sweep that requeues stale claims, and the agentic     *)
(* loop that turns deliveries into model context and confirms them after   *)
(* the provider has answered (crates/astra-messaging/src/router.rs,        *)
(* crates/runtime/src/turn/agentic_loop/lifecycle.rs).                     *)
(*                                                                         *)
(* A claim token is unique; here it is the subscription and the number of  *)
(* the claim of that message. Time is left out: a claim may become stale   *)
(* whenever the sweep looks.                                               *)
(***************************************************************************)
EXTENDS Naturals, FiniteSets, Sequences

CONSTANTS
    Direct, Broadcast,  \* the messages, by target
    Kinds,              \* the payloads considered: [semantic, ttl], each a set of messages
    MaxSubs,            \* bound: registrations of the address
    MaxAttempts,        \* max_delivery_attempts
    MaxClaims,          \* bound: claims of a broadcast message
    BufferCap,          \* LOCAL_DELIVERY_BUFFER_CAPACITY
    DrainCap,           \* MAX_MAILBOX_DRAIN_PER_TURN
    ContextCap          \* MAX_RETAINED_MAILBOX_MESSAGES

Msgs == Direct \cup Broadcast
Subs == 1..MaxSubs

ASSUME MailboxAssumption ==
    /\ Direct \cap Broadcast = {} /\ Kinds \subseteq [semantic: SUBSET Msgs, ttl: SUBSET Msgs]
    /\ MaxSubs \in Nat /\ MaxClaims \in Nat
    /\ MaxAttempts \in Nat \ {0} /\ BufferCap \in Nat \ {0} /\ ContextCap \in Nat \ {0}
    /\ DrainCap \in Nat \ {0}

VARIABLES
    kind,       \* which messages become model context and which have a time to live
    row,        \* the row of each message: status and claim [st, by, n]
    claims,     \* how often it was claimed (attempt_count of a direct message)
    lastSub,    \* the newest registration
    polling,    \* subscriptions whose poll loop runs
    looping,    \* subscriptions whose agentic loop holds the stream
    hand,       \* deliveries <<m, n>> the poll loop has fetched and not yet pushed
    buffer,     \* deliveries of the mailbox: first its `buffered`, then the stream's channel
    peeked,     \* how many of them are in `buffered`
    drained,    \* deliveries taken by a drain that has not emptied the mailbox
    parked,     \* deliveries deferred until after the next provider answer
    context,    \* per loop and message: "absent", "staged" or "observed"
    pendingAck, \* per loop and message: the delivery to confirm, 0 if none
    deciding,   \* loops whose provider has answered and whose confirmations are due
    consumed,   \* messages that a provider answer, or a handler, has taken in
    overtaken   \* loops that have queued parked deliveries behind one that came later

vars == <<kind, row, claims, lastSub, polling, looping, hand, buffer, peeked, drained, parked,
          context, pendingAck, deciding, consumed, overtaken>>

Unclaimed(st) == [st |-> st, by |-> 0, n |-> 0]
Settled == {"acked", "failed", "deleted"}
Holds(m, s, n) == row[m] = [st |-> "claimed", by |-> s, n |-> n]
Empty == [m \in Msgs |-> "absent"]
NoAcks == [m \in Msgs |-> 0]

Init ==
    /\ kind \in Kinds
    /\ row = [m \in Msgs |-> Unclaimed("unsent")] /\ claims = [m \in Msgs |-> 0]
    /\ lastSub = 0 /\ polling = {} /\ looping = {}
    /\ hand = [s \in Subs |-> {}] /\ buffer = [s \in Subs |-> <<>>]
    /\ peeked = [s \in Subs |-> 0] /\ drained = [s \in Subs |-> 0]
    /\ parked = [s \in Subs |-> <<>>]
    /\ context = [s \in Subs |-> Empty] /\ pendingAck = [s \in Subs |-> NoAcks]
    /\ deciding = {} /\ consumed = {} /\ overtaken = {}

stream == <<buffer, peeked, drained>>
loopVars == <<context, pendingAck, deciding, consumed, overtaken>>

\* insert_message
Send(m) ==
    /\ row[m].st = "unsent"
    /\ row' = [row EXCEPT ![m] = Unclaimed("pending")]
    /\ UNCHANGED <<kind, claims, lastSub, polling, looping, hand, stream, parked, loopVars>>

-----------------------------------------------------------------------------
(* Registration and the end of a subscription *)

\* register_with_capabilities and subscribe: a new subscription of the address,
\* in place of one of the same transport or of one whose directory lease has
\* expired. Its loop is new, or a recovered one that kept its context.
Register ==
    /\ lastSub < MaxSubs
    /\ lastSub' = lastSub + 1
    /\ polling' = polling \cup {lastSub'} /\ looping' = looping \cup {lastSub'}
    /\ \E kept \in {Empty} \cup {context[s] : s \in {lastSub} \ {0}} :
         context' = [s \in Subs |-> IF s = lastSub' THEN kept
                                    ELSE IF s \in looping THEN context[s] ELSE Empty]
    /\ UNCHANGED <<kind, row, claims, hand, stream, parked, pendingAck, deciding, consumed, overtaken>>

\* Mutant: a message goes back to the queue however often it was claimed.
RequeuedAlways(S) ==
    [m \in Msgs |-> IF m \in S /\ row[m].st = "claimed" THEN Unclaimed("pending") ELSE row[m]]

\* The requeue and dead-letter updates of one transaction. A broadcast message has
\* its delivery row deleted instead, and no limit of attempts.
Requeued(S) ==
    [m \in Msgs |->
        IF m \in S /\ row[m].st = "claimed"
          THEN Unclaimed(IF m \in Direct /\ claims[m] >= MaxAttempts THEN "failed" ELSE "pending")
          ELSE row[m]]

ClaimedBy(s) == {m \in Msgs : row[m].st = "claimed" /\ row[m].by = s}

\* The poll loop ends (shutdown, replaced, unregistered, lost directory lease or a
\* dropped stream) and the claims of its subscription are released, each kind in a
\* transaction that may fail.
StopPolling(s) ==
    /\ s \in polling
    /\ polling' = polling \ {s}
    /\ hand' = [hand EXCEPT ![s] = {}]
    /\ row' \in {Requeued(ClaimedBy(s) \cap S) : S \in {{}, Direct, Broadcast, Msgs}}
    /\ UNCHANGED <<kind, claims, lastSub, looping, stream, parked, loopVars>>

\* The agentic loop ends and drops its stream. (A crash of the process is this and
\* a StopPolling that releases nothing.) What the newest loop had in its context is
\* in the checkpoint of the run.
EndLoop(s) ==
    /\ s \in looping
    /\ looping' = looping \ {s} /\ deciding' = deciding \ {s} /\ overtaken' = overtaken \ {s}
    /\ buffer' = [buffer EXCEPT ![s] = <<>>] /\ parked' = [parked EXCEPT ![s] = <<>>]
    /\ peeked' = [peeked EXCEPT ![s] = 0] /\ drained' = [drained EXCEPT ![s] = 0]
    /\ pendingAck' = [pendingAck EXCEPT ![s] = NoAcks]
    /\ context' = IF s = lastSub THEN context ELSE [context EXCEPT ![s] = Empty]
    /\ UNCHANGED <<kind, row, claims, lastSub, polling, hand, consumed>>

-----------------------------------------------------------------------------
(* poll_loop *)

Pending(S) == {m \in S : row[m].st = "pending"}
Claimed(S, s) ==
    /\ row' = [m \in Msgs |-> IF m \in S THEN [st |-> "claimed", by |-> s, n |-> claims[m] + 1]
                                         ELSE row[m]]
    /\ claims' = [m \in Msgs |-> IF m \in S THEN claims[m] + 1 ELSE claims[m]]

\* One UPDATE claims the pending direct messages under one token, one SELECT reads
\* them back.
ClaimDirect(s) ==
    /\ s \in polling /\ hand[s] = {} /\ Pending(Direct) # {}
    /\ Claimed(Pending(Direct), s)
    /\ hand' = [hand EXCEPT ![s] = {<<m, claims[m] + 1>> : m \in Pending(Direct)}]
    /\ UNCHANGED <<kind, lastSub, polling, looping, stream, parked, loopVars>>

\* reserve_broadcast_delivery
ClaimBroadcast(s, m) ==
    /\ s \in polling /\ hand[s] = {} /\ row[m].st = "pending"
    /\ claims[m] < MaxClaims
    /\ Claimed({m}, s)
    /\ hand' = [hand EXCEPT ![s] = {<<m, claims[m] + 1>>}]
    /\ UNCHANGED <<kind, lastSub, polling, looping, stream, parked, loopVars>>

\* The claim took effect and its reply was lost, or the SELECT failed and the
\* batch could not be released: claimed rows that nobody delivers.
ClaimLost(s) ==
    /\ s \in polling /\ hand[s] = {}
    /\ \E S \in {Pending(Direct)} \cup {{m} : m \in Pending(Broadcast)} :
         /\ S # {} /\ \A m \in S \cap Broadcast : claims[m] < MaxClaims
         /\ Claimed(S, s)
    /\ UNCHANGED <<kind, lastSub, polling, looping, hand, stream, parked, loopVars>>

\* The SELECT failed and release_direct_claimed_batch_for_consumer undid the claim.
ClaimReleased(s) ==
    /\ s \in polling /\ hand[s] = {} /\ Pending(Direct) # {}
    /\ row' = [m \in Msgs |-> IF m \in Pending(Direct) /\ claims[m] + 1 >= MaxAttempts
                                THEN Unclaimed("failed") ELSE row[m]]
    /\ claims' = [m \in Msgs |-> IF m \in Pending(Direct) THEN claims[m] + 1 ELSE claims[m]]
    /\ UNCHANGED <<kind, lastSub, polling, looping, hand, stream, parked, loopVars>>

\* tx.send(DatabaseDelivery { .. }), which waits while the channel is full
Push(s, d) ==
    /\ s \in polling /\ d \in hand[s] /\ s \in looping
    /\ Len(buffer[s]) - peeked[s] < BufferCap
    /\ hand' = [hand EXCEPT ![s] = @ \ {d}]
    /\ buffer' = [buffer EXCEPT ![s] = Append(@, d)]
    /\ UNCHANGED <<kind, row, claims, lastSub, polling, looping, peeked, drained, parked, loopVars>>

\* An expired direct message is failed under its own claim instead.
FailExpired(s, d) ==
    /\ s \in polling /\ d \in hand[s] /\ d[1] \in Direct \cap kind.ttl
    /\ hand' = [hand EXCEPT ![s] = @ \ {d}]
    /\ row' \in {row, IF Holds(d[1], s, d[2])
                        THEN [row EXCEPT ![d[1]] = Unclaimed("failed")] ELSE row}
    /\ UNCHANGED <<kind, claims, lastSub, polling, looping, stream, parked, loopVars>>

\* mark_broadcast_failed_by_identity
FailExpiredBroadcast(s, m) ==
    /\ s \in polling /\ hand[s] = {} /\ row[m].st = "pending" /\ m \in kind.ttl
    /\ row' = [row EXCEPT ![m] = Unclaimed("failed")]
    /\ UNCHANGED <<kind, claims, lastSub, polling, looping, hand, stream, parked, loopVars>>

-----------------------------------------------------------------------------
(* CleanupScheduler *)

\* Mutant: only claims of subscriptions that still poll are looked at.
ReclaimStaleOfPolling(m) ==
    /\ row[m].st = "claimed" /\ row[m].by \in polling
    /\ row' = Requeued({m})
    /\ UNCHANGED <<kind, claims, lastSub, polling, looping, hand, stream, parked, loopVars>>

\* reclaim_stale_in_pool and reclaim_stale_broadcast_deliveries_in_pool
ReclaimStale(m) ==
    /\ row[m].st = "claimed"
    /\ row' = Requeued({m})
    /\ UNCHANGED <<kind, claims, lastSub, polling, looping, hand, stream, parked, loopVars>>

\* cleanup_expired_in_pool deletes an expired row, claimed or not. (The row of a
\* settled message is deleted in time as well; nothing reads it any more.)
Cleanup(m) ==
    /\ m \in kind.ttl /\ row[m].st \in {"pending", "claimed"}
    /\ row' = [row EXCEPT ![m] = Unclaimed("deleted")]
    /\ UNCHANGED <<kind, claims, lastSub, polling, looping, hand, stream, parked, loopVars>>

-----------------------------------------------------------------------------
(* The agentic loop: drain, provider, confirmation *)

\* The drain of a turn takes one delivery at a time, up to its limit.
Draining(s, d) == /\ s \in looping /\ s \notin deciding /\ drained[s] < DrainCap
                  /\ buffer[s] # <<>> /\ d = Head(buffer[s])
DrainIsOver(s) == buffer[s] = <<>> \/ drained[s] = DrainCap

\* drain_bounded(1): the next delivery is peeked at and kept in front of the
\* channel; when there is none the drain is over.
Taken(s) ==
    /\ buffer' = [buffer EXCEPT ![s] = Tail(@)]
    /\ peeked' = [peeked EXCEPT ![s] = IF Len(buffer[s]) = 1 THEN 0 ELSE IF @ > 1 THEN @ - 1 ELSE 1]
    /\ drained' = [drained EXCEPT ![s] = IF Len(buffer[s]) = 1 THEN 0 ELSE @ + 1]

Acked(m, s, n) == IF Holds(m, s, n) THEN [row EXCEPT ![m] = Unclaimed("acked")] ELSE row

\* defer_acknowledgement: a redelivery replaces the older envelope.
DeferAcknowledgement(s, d) == pendingAck' = [pendingAck EXCEPT ![s][d[1]] = d[2]]

\* A message that is no model context is handled and confirmed at once; the
\* confirmation may fail.
Handle(s, d) ==
    /\ Draining(s, d) /\ d[1] \notin kind.semantic
    /\ Taken(s)
    /\ consumed' = consumed \cup {d[1]}
    /\ row' \in {row, Acked(d[1], s, d[2])}
    /\ UNCHANGED <<kind, claims, lastSub, polling, looping, hand, parked, context, pendingAck,
                   deciding, overtaken>>

\* The message is still in the context: only its confirmation is renewed.
Readopt(s, d) ==
    /\ Draining(s, d) /\ d[1] \in kind.semantic /\ context[s][d[1]] # "absent"
    /\ Taken(s)
    /\ DeferAcknowledgement(s, d)
    /\ UNCHANGED <<kind, row, claims, lastSub, polling, looping, hand, parked, context, deciding,
                   consumed, overtaken>>

Retained(s) == {m \in Msgs : context[s][m] # "absent"}
Observed(s) == {m \in Msgs : context[s][m] = "observed"}
Full(s) == Cardinality(Retained(s)) >= ContextCap

\* Staged for the next provider request, if need be in place of an entry the
\* provider has seen.
Adopt(s, d) ==
    /\ Draining(s, d) /\ d[1] \in kind.semantic /\ context[s][d[1]] = "absent"
    /\ \E evicted \in IF Full(s) THEN {{m} : m \in Observed(s)} ELSE {{}} :
         context' = [context EXCEPT ![s] =
                       [m \in Msgs |-> IF m = d[1] THEN "staged"
                                       ELSE IF m \in evicted THEN "absent" ELSE @[m]]]
    /\ Taken(s)
    /\ DeferAcknowledgement(s, d)
    /\ UNCHANGED <<kind, row, claims, lastSub, polling, looping, hand, parked, deciding, consumed,
                   overtaken>>

\* No room: the delivery is kept aside until the provider has answered.
Park(s, d) ==
    /\ Draining(s, d) /\ d[1] \in kind.semantic /\ context[s][d[1]] = "absent"
    /\ Full(s) /\ Observed(s) = {}
    /\ Taken(s)
    /\ parked' = [parked EXCEPT ![s] = Append(@, d)]
    /\ UNCHANGED <<kind, row, claims, lastSub, polling, looping, hand, loopVars>>

\* Mutant: confirmations are due when the request is built, before the answer.
ProviderAnswersEarly(s) ==
    /\ s \in looping \ deciding /\ DrainIsOver(s)
    /\ deciding' = deciding \cup {s}
    /\ UNCHANGED <<kind, row, claims, lastSub, polling, looping, hand, stream, parked, pendingAck,
                   context, consumed, overtaken>>

\* commit_volatile_attempt_lease after a successful provider answer: an entry is
\* shown twice. The drain before the request has emptied the mailbox or met its
\* limit, and what is delivered during the request might as well be delivered after it.
ProviderAnswers(s) ==
    /\ s \in looping \ deciding /\ DrainIsOver(s)
    /\ deciding' = deciding \cup {s}
    /\ consumed' = consumed \cup Retained(s)
    /\ context' = [context EXCEPT ![s] =
                      [m \in Msgs |-> IF @[m] = "staged" THEN "observed" ELSE "absent"]]
    /\ UNCHANGED <<kind, row, claims, lastSub, polling, looping, hand, stream, parked, pendingAck,
                   overtaken>>

\* The request failed, or the loop only waited: the next turn drains again.
TurnEnds(s) ==
    /\ s \in looping \ deciding /\ drained[s] = DrainCap
    /\ drained' = [drained EXCEPT ![s] = 0]
    /\ UNCHANGED <<kind, row, claims, lastSub, polling, looping, hand, buffer, peeked, parked, loopVars>>

\* retry_deferred: what was parked goes to the back of `buffered`, before the
\* channel but behind a delivery that the drain has peeked at.
RetryDeferred(s) ==
    /\ buffer' = [buffer EXCEPT ![s] = SubSeq(@, 1, peeked[s]) \o parked[s]
                                         \o SubSeq(@, peeked[s] + 1, Len(@))]
    /\ peeked' = [peeked EXCEPT ![s] = @ + Len(parked[s])]
    /\ parked' = [parked EXCEPT ![s] = <<>>]
    /\ drained' = [drained EXCEPT ![s] = 0]
    /\ overtaken' = overtaken \cup {t \in {s} : peeked[s] > 0 /\ parked[s] # <<>>}

Confirmed(s, S) ==
    [m \in Msgs |-> IF m \in S /\ Holds(m, s, pendingAck[s][m]) THEN Unclaimed("acked") ELSE row[m]]

\* Mutant: confirmations are forgotten whether or not the update succeeded.
AcknowledgeForgetting(s) ==
    /\ s \in deciding
    /\ \E done \in SUBSET {Direct, Broadcast} :
         row' = Confirmed(s, UNION done)
    /\ pendingAck' = [pendingAck EXCEPT ![s] = NoAcks]
    /\ deciding' = deciding \ {s}
    /\ RetryDeferred(s)
    /\ UNCHANGED <<kind, claims, lastSub, polling, looping, hand, context, consumed>>

\* acknowledge_adopted_mailbox_messages: one update per kind, each of which may
\* fail, with or without having taken effect; then retry_deferred. A delivery
\* whose claim is gone counts as confirmed.
Acknowledge(s) ==
    /\ s \in deciding
    /\ \E reported \in SUBSET {Direct, Broadcast} : \E done \in SUBSET {Direct, Broadcast} :
         /\ reported \subseteq done
         /\ row' = Confirmed(s, UNION done)
         /\ pendingAck' = [pendingAck EXCEPT ![s] =
                             [m \in Msgs |-> IF m \in UNION reported THEN 0 ELSE @[m]]]
    /\ deciding' = deciding \ {s}
    /\ RetryDeferred(s)
    /\ UNCHANGED <<kind, claims, lastSub, polling, looping, hand, context, consumed>>

-----------------------------------------------------------------------------
PollStep(s) ==
    \/ ClaimDirect(s) \/ ClaimLost(s) \/ ClaimReleased(s) \/ StopPolling(s)
    \/ \E m \in Broadcast : ClaimBroadcast(s, m) \/ FailExpiredBroadcast(s, m)
    \/ \E d \in hand[s] : Push(s, d) \/ FailExpired(s, d)

Drain(s) ==
    \E d \in {buffer[s][i] : i \in 1..Len(buffer[s])} :
        Handle(s, d) \/ Readopt(s, d) \/ Adopt(s, d) \/ Park(s, d)

Next ==
    \/ \E m \in Msgs : Send(m) \/ ReclaimStale(m) \/ Cleanup(m)
    \/ Register
    \/ \E s \in Subs : PollStep(s) \/ Drain(s) \/ ProviderAnswers(s) \/ TurnEnds(s)
                       \/ Acknowledge(s) \/ EndLoop(s)

Spec == Init /\ [][Next]_vars

\* What a poll loop does as long as its process lives.
Polls(s) == \/ ClaimDirect(s) \/ \E d \in hand[s] : Push(s, d)
            \/ s \notin looping /\ StopPolling(s)

\* The sweep runs for ever, a poll loop polls until it ends and ends when its
\* stream is dropped, and a loop that does not end finishes its confirmations and
\* comes back to its mailbox. Nothing is assumed of the provider's answers; that a
\* request returns at all is the timeout of the provider client.
LiveSpec ==
    /\ Spec
    /\ \A m \in Direct : WF_vars(ReclaimStale(m))
    /\ \A s \in Subs : WF_vars(Polls(s)) /\ WF_vars(Drain(s) \/ Acknowledge(s) \/ TurnEnds(s))

-----------------------------------------------------------------------------
Deliveries == Msgs \X (1..(MaxAttempts + MaxClaims))

\* The mailbox's state is well formed, and a direct message is never claimed more
\* often than max_delivery_attempts allows.
MailboxTypeOK ==
    /\ row \in [Msgs -> [st: {"unsent", "pending", "claimed"} \cup Settled, by: 0..MaxSubs, n: Nat]]
    /\ lastSub \in 0..MaxSubs /\ polling \subseteq Subs /\ looping \subseteq Subs
    /\ deciding \subseteq looping /\ consumed \subseteq Msgs
    /\ kind \in Kinds /\ overtaken \subseteq Subs
    /\ \A s \in Subs : /\ peeked[s] \in 0..Len(buffer[s]) /\ drained[s] \in 0..DrainCap
                       /\ hand[s] \subseteq Deliveries
                       /\ buffer[s] \in Seq(Deliveries) /\ parked[s] \in Seq(Deliveries)
    /\ context \in [Subs -> [Msgs -> {"absent", "staged", "observed"}]]
    /\ pendingAck \in [Subs -> [Msgs -> Nat]]
    /\ \A m \in Direct : claims[m] <= MaxAttempts

\* A message is confirmed in the database only after a provider answer or a
\* handler has taken it in, whatever was redelivered, replaced or lost before:
\* acknowledging earlier would lose it in a failed attempt or a crash.
AcknowledgedWasConsumed == \A m \in Msgs : row[m].st = "acked" => m \in consumed

\* A running loop gives up the confirmation of a delivery only when that delivery
\* no longer holds the claim: the message is settled, or will be redelivered and
\* confirmed under its new claim. The exception is a loop that has queued parked
\* deliveries behind a peeked one: there a parked delivery may follow its own
\* redelivery and replace it (defer_acknowledgement takes whatever comes later for
\* the current claim), so that the confirmation fails and the claim waits to be
\* requeued. Even there a confirmation is never forgotten, only exchanged for one of
\* an earlier claim of the same message.
ConfirmationNotAbandoned ==
    [][\A s \in Subs, m \in Msgs :
          pendingAck[s][m] # 0 /\ pendingAck'[s][m] # pendingAck[s][m] /\ s \in looping'
            => \/ row'[m] # [st |-> "claimed", by |-> s, n |-> pendingAck[s][m]]
               \/ s \in overtaken /\ pendingAck'[s][m] \in 1..(pendingAck[s][m] - 1)]_vars

\* A direct message is confirmed, dead-lettered or expired in the end as long as
\* someone polls: no crash, lost reply, stalled loop or stale receipt leaves it
\* claimed or going round for ever.
DirectIsSettled ==
    \A m \in Direct : row[m].st \in {"pending", "claimed"} ~> (row[m].st \in Settled \/ polling = {})
=============================================================================
