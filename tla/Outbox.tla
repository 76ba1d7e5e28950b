------------------------------- MODULE Outbox -------------------------------
(***************************************************************************)
(* The transactional outbox of the Java data plane and what it feeds:      *)
(* table runtime.outbox_event, the relays that publish its rows to the     *)
(* broker, the operator's requeue, and the notification consumer with its  *)
(* inbox.  The engine's memory candidates take the same way up to the      *)
(* broker; their consumer is in MemoryInbox.                               *)
(*                                                                         *)
(* Every SQL transaction is one step.  Between the steps of one relay      *)
(* anything else may happen, time included: a batch of slow sends outlives *)
(* the five minutes after which its claims are recovered.                  *)
(***************************************************************************)
EXTENDS Naturals, FiniteSets

CONSTANTS
    MaxEvents,    \* bound of the accepted events, numbered by created_at
    Relay,        \* data-plane processes running the scheduled relay
    MaxAttempts,  \* max_attempts of a row
    StaleAfter,   \* the five minutes after which a claim is recovered
    Backoff,      \* the ten seconds a failed attempt adds per attempt
    BatchLimit,   \* rows one relay run may claim
    MaxTime,      \* bound of the clock
    MaxFaults,    \* bound of failing calls and crashes
    MaxRequeues   \* bound of the operator's requeues

ASSUME OutboxAssumption ==
    /\ {MaxEvents, MaxTime, MaxFaults, MaxRequeues, Backoff} \subseteq Nat
    /\ {MaxAttempts, StaleAfter, BatchLimit} \subseteq Nat \ {0}

VARIABLES
    event,     \* outbox_event, by the order of creation
    issued,    \* claim tokens handed out so far, per event: the next is fresh
    batch,     \* claims a relay has still to settle
    stage,     \* what a relay does with the first of them
    topic,     \* undelivered copies of each message in the broker
    inbox,     \* consumer_inbox: events whose action was committed
    actions,   \* committed runs of the action: inserts of user_notification
    now,
    faults,
    requeues

vars == <<event, issued, batch, stage, topic, inbox, actions, now, faults, requeues>>

EventId == 1..MaxEvents

\* The claim token of a row nobody has claimed.
NoToken == 0

EventRow == [status : {"ABSENT", "PENDING", "PUBLISHING", "PUBLISHED", "FAILED"},
             attempts : Nat, token : Nat, claimedAt : Nat, nextAttemptAt : Nat,
             compensation : BOOLEAN]

\* A relay's memory of one row it claimed.
Claim == [id : EventId, token : Nat, claimedAt : Nat]

Init ==
    /\ event = [e \in EventId |-> [status |-> "ABSENT", attempts |-> 0,
                                   token |-> NoToken, claimedAt |-> 0,
                                   nextAttemptAt |-> 0, compensation |-> FALSE]]
    /\ issued = [e \in EventId |-> 0]
    /\ batch = [r \in Relay |-> {}]
    /\ stage = [r \in Relay |-> "idle"]
    /\ topic = [e \in EventId |-> 0]
    /\ inbox = {}
    /\ actions = [e \in EventId |-> 0]
    /\ now = 0 /\ faults = 0 /\ requeues = 0

Accepted == {e \in EventId : event[e].status # "ABSENT"}

Fault == faults < MaxFaults /\ faults' = faults + 1

-----------------------------------------------------------------------------
(* The rows.                                                               *)

\* A row nobody has claimed, as the insert and the requeue leave it.
Waiting == [status |-> "PENDING", attempts |-> 0, token |-> NoToken,
            claimedAt |-> 0, nextAttemptAt |-> now, compensation |-> FALSE]

\* The insert of a completion or of a memory candidate.
Accept(e) ==
    /\ event[e].status = "ABSENT"
    /\ \A f \in 1..(e - 1) : f \in Accepted
    /\ event' = [event EXCEPT ![e] = Waiting]
    /\ UNCHANGED <<issued, batch, stage, topic, inbox, actions, now, faults, requeues>>

Exhausted(row) == row.attempts >= MaxAttempts

\* Mutant: a release compares the attempts with > instead of >=.
ReleasedLate(row, next) ==
    [status |-> IF row.attempts > MaxAttempts THEN "FAILED" ELSE "PENDING",
     attempts |-> row.attempts, token |-> NoToken, claimedAt |-> 0,
     nextAttemptAt |-> next, compensation |-> row.attempts > MaxAttempts]

\* A row whose claim has ended without a publication.
Released(row, next) ==
    [status |-> IF Exhausted(row) THEN "FAILED" ELSE "PENDING",
     attempts |-> row.attempts, token |-> NoToken, claimedAt |-> 0,
     nextAttemptAt |-> next, compensation |-> Exhausted(row)]

\* Mutants: recovery takes every claim, however fresh, or none.
RecoveredAnyAge(row) ==
    IF row.status = "PUBLISHING" THEN Released(row, now) ELSE row
RecoveredNever(row) == row

Recovered(row) ==
    IF row.status = "PUBLISHING" /\ row.claimedAt + StaleAfter <= now
    THEN Released(row, now)
    ELSE row

Ready == {e \in EventId : LET row == Recovered(event[e])
                          IN  /\ row.status = "PENDING"
                              /\ ~Exhausted(row)
                              /\ row.nextAttemptAt <= now}

\* The oldest ready rows, at most BatchLimit of them.
Batch(S) ==
    /\ S \subseteq Ready
    /\ \A e \in S, f \in Ready \ S : e < f
    /\ S = Ready \/ Cardinality(S) = BatchLimit
    /\ Cardinality(S) <= BatchLimit

Claimed(row, token) ==
    [status |-> "PUBLISHING", attempts |-> row.attempts + 1, token |-> token,
     claimedAt |-> now, nextAttemptAt |-> row.nextAttemptAt,
     compensation |-> row.compensation]

\* "WHERE event_id = ? AND claim_token = ? AND status = 'PUBLISHING'"
Holds(c) == event[c.id].token = c.token /\ event[c.id].status = "PUBLISHING"

Published(row) ==
    [status |-> "PUBLISHED", attempts |-> row.attempts, token |-> NoToken,
     claimedAt |-> 0, nextAttemptAt |-> row.nextAttemptAt,
     compensation |-> row.compensation]

MarkPublished(c) ==
    event' = IF Holds(c) THEN [event EXCEPT ![c.id] = Published(event[c.id])]
                         ELSE event

Smaller(m, n) == IF m <= n THEN m ELSE n

MarkPublishFailed(c) ==
    LET row == event[c.id]
        next == IF Exhausted(row) THEN row.nextAttemptAt
                                  ELSE now + Smaller(row.attempts, 6) * Backoff
    IN  event' = IF Holds(c) THEN [event EXCEPT ![c.id] = Released(row, next)]
                             ELSE event

-----------------------------------------------------------------------------
(* One run of a relay: claim a batch, then send and settle its events in   *)
(* the order of their creation.                                            *)

\* The relay is at stage s of the oldest event of its batch.
Settling(r, c, s) ==
    /\ stage[r] = s
    /\ c \in batch[r]
    /\ \A d \in batch[r] : c.id <= d.id

\* On to the next event; after the last one the run is over.
Advance(r, c) ==
    /\ batch' = [batch EXCEPT ![r] = @ \ {c}]
    /\ stage' = [stage EXCEPT ![r] = IF batch[r] = {c} THEN "idle" ELSE "send"]

\* The run ends with an exception, or the process dies: its claims are
\* forgotten and stay PUBLISHING until they are recovered.
Abandon(r) ==
    /\ batch' = [batch EXCEPT ![r] = {}]
    /\ stage' = [stage EXCEPT ![r] = "idle"]

ClaimReady(r) ==
    /\ stage[r] = "idle"
    /\ \E S \in SUBSET EventId :
        /\ Batch(S)
        /\ event' = [e \in EventId |->
                        IF e \in S THEN Claimed(Recovered(event[e]), issued[e] + 1)
                                   ELSE Recovered(event[e])]
        /\ issued' = [e \in EventId |-> IF e \in S THEN issued[e] + 1 ELSE issued[e]]
        /\ \/ /\ batch' = [batch EXCEPT ![r] =
                    {[id |-> e, token |-> issued[e] + 1, claimedAt |-> now] : e \in S}]
              /\ stage' = [stage EXCEPT ![r] = IF S = {} THEN "idle" ELSE "send"]
              /\ UNCHANGED faults
           \/ Fault /\ UNCHANGED <<batch, stage>>
    /\ UNCHANGED <<topic, inbox, actions, now, requeues>>

\* Mutant: an exception of the send is swallowed.
PublishSwallowing(r, c) ==
    /\ Settling(r, c, "send")
    /\ stage' = [stage EXCEPT ![r] = "published"]
    /\ \/ topic' = [topic EXCEPT ![c.id] = @ + 1] /\ UNCHANGED faults
       \/ Fault /\ UNCHANGED topic
    /\ UNCHANGED <<event, issued, batch, inbox, actions, now, requeues>>

\* The send returns, or throws - before or after the broker stored it.
Publish(r, c) ==
    /\ Settling(r, c, "send")
    /\ \/ /\ stage' = [stage EXCEPT ![r] = "published"]
          /\ topic' = [topic EXCEPT ![c.id] = @ + 1]
          /\ UNCHANGED faults
       \/ /\ stage' = [stage EXCEPT ![r] = "failed"]
          /\ topic' \in {topic, [topic EXCEPT ![c.id] = @ + 1]}
          /\ Fault
    /\ UNCHANGED <<event, issued, batch, inbox, actions, now, requeues>>

\* An error of this update, too, is answered with markPublishFailed.
SettlePublished(r, c) ==
    /\ Settling(r, c, "published")
    /\ \/ MarkPublished(c) /\ Advance(r, c) /\ UNCHANGED faults
       \/ /\ MarkPublished(c) \/ UNCHANGED event
          /\ stage' = [stage EXCEPT ![r] = "failed"]
          /\ Fault
          /\ UNCHANGED batch
    /\ UNCHANGED <<issued, topic, inbox, actions, now, requeues>>

\* An error here leaves the loop: the rest of the batch is not sent.
SettleFailed(r, c) ==
    /\ Settling(r, c, "failed")
    /\ \/ MarkPublishFailed(c) /\ Advance(r, c) /\ UNCHANGED faults
       \/ /\ MarkPublishFailed(c) \/ UNCHANGED event
          /\ Abandon(r)
          /\ Fault
    /\ UNCHANGED <<issued, topic, inbox, actions, now, requeues>>

Crash(r) ==
    /\ stage[r] # "idle"
    /\ Abandon(r)
    /\ Fault
    /\ UNCHANGED <<event, issued, topic, inbox, actions, now, requeues>>

\* An operator hands an exhausted event back with a fresh budget.
RequeueFailed(e) ==
    /\ event[e].status = "FAILED"
    /\ requeues < MaxRequeues
    /\ requeues' = requeues + 1
    /\ event' = [event EXCEPT ![e] = Waiting]
    /\ UNCHANGED <<issued, batch, stage, topic, inbox, actions, now, faults>>

-----------------------------------------------------------------------------
(* The broker delivers at least once, in any order.                        *)

\* Mutant: the action does not look at the inbox.
ProcessAlways(e) ==
    /\ inbox' = inbox \cup {e}
    /\ actions' = [actions EXCEPT ![e] = @ + 1]

\* One transaction inserts the inbox row and runs the action, unless the
\* row is there.
ProcessOnce(e) ==
    IF e \in inbox
    THEN UNCHANGED <<inbox, actions>>
    ELSE /\ inbox' = inbox \cup {e}
         /\ actions' = [actions EXCEPT ![e] = @ + 1]

\* The transaction commits and is acknowledged, commits without an
\* acknowledgement, or rolls back: in the last two the message comes again.
Consume(e) ==
    /\ topic[e] > 0
    /\ \/ /\ ProcessOnce(e)
          /\ topic' = [topic EXCEPT ![e] = @ - 1]
          /\ UNCHANGED faults
       \/ ProcessOnce(e) /\ Fault /\ UNCHANGED topic
       \/ UNCHANGED <<inbox, actions, topic>> /\ Fault
    /\ UNCHANGED <<event, issued, batch, stage, now, requeues>>

Tick ==
    /\ now < MaxTime
    /\ now' = now + 1
    /\ UNCHANGED <<event, issued, batch, stage, topic, inbox, actions, faults, requeues>>

RelayStep(r) ==
    \/ ClaimReady(r)
    \/ \E c \in batch[r] : Publish(r, c) \/ SettlePublished(r, c) \/ SettleFailed(r, c)

Next ==
    \/ \E r \in Relay : RelayStep(r) \/ Crash(r)
    \/ \E e \in EventId : Accept(e) \/ RequeueFailed(e) \/ Consume(e)
    \/ Tick

Spec == Init /\ [][Next]_vars

\* The relay is started every second and each of its calls ends; the broker
\* redelivers until it is acknowledged; time passes.
FairSpec ==
    /\ Spec
    /\ \A r \in Relay : WF_vars(RelayStep(r))
    /\ \A e \in EventId : WF_vars(Consume(e) /\ topic'[e] < topic[e])
    /\ WF_vars(Tick)

-----------------------------------------------------------------------------

TypeOK ==
    /\ event \in [EventId -> EventRow]
    /\ issued \in [EventId -> Nat]
    /\ batch \in [Relay -> SUBSET Claim]
    /\ stage \in [Relay -> {"idle", "send", "published", "failed"}]
    /\ topic \in [EventId -> Nat]
    /\ inbox \subseteq EventId
    /\ actions \in [EventId -> Nat]
    /\ {now, faults, requeues} \subseteq Nat

\* Two relays work on one event only when the earlier has outlived the
\* staleness limit: the token fences its late results off, and nothing but
\* the limit takes a live claim away.
ClaimsAreLeased ==
    \A r, s \in Relay : \A c \in batch[r], d \in batch[s] :
        /\ c.id = d.id
        /\ c.token < d.token
        => c.claimedAt + StaleAfter <= now

\* An event is recorded as PUBLISHED only when the broker has it, or had it
\* and its consumer is done: whatever threw in between, none is lost.
PublishedWasSent ==
    \A e \in EventId :
        event[e].status = "PUBLISHED" => topic[e] > 0 \/ e \in inbox

\* An event that is given up is flagged for compensation and no other is,
\* and every event that waits can still be claimed.
FailureIsVisible ==
    \A e \in EventId :
        /\ event[e].compensation <=> event[e].status = "FAILED"
        /\ event[e].status = "PENDING" => ~Exhausted(event[e])

\* A settled event stays settled: no late relay puts it back.
PublishedIsFinal ==
    [][\A e \in EventId : event[e].status = "PUBLISHED"
                            => event'[e].status = "PUBLISHED"]_vars

Delivery == INSTANCE NotificationDelivery WITH Event <- EventId,
                                               accepted <- Accepted,
                                               effects <- actions

\* However often events are claimed, sent and delivered, the action of each
\* is committed at most once, and only after its acceptance.
ImplementsDelivery == Delivery!Spec

\* What the bounded clock cuts off: the event's next chance is past MaxTime.
PastTheClock(e) ==
    \/ event[e].status = "PENDING" /\ event[e].nextAttemptAt > MaxTime
    \/ event[e].status = "PUBLISHING" /\ event[e].claimedAt + StaleAfter > MaxTime

\* Every accepted event is carried out or given up, whatever crashes.
EveryEventEnds ==
    \A e \in EventId :
        e \in Accepted ~> \/ e \in inbox
                          \/ event[e].status = "FAILED"
                          \/ []PastTheClock(e)

=============================================================================
