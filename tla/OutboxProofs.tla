---------------------------- MODULE OutboxProofs ----------------------------
(***************************************************************************)
(* Proofs about Outbox for every number of events, relays, attempts and    *)
(* faults.                                                                 *)
(***************************************************************************)
EXTENDS Outbox, TLAPS

LEMMA WaitingType == ASSUME now \in Nat PROVE Waiting \in EventRow
BY DEF Waiting, EventRow, NoToken

\* The values a row can be given.
LEMMA RowTypes ==
    ASSUME NEW row \in EventRow, NEW n \in Nat, now \in Nat
    PROVE  /\ Released(row, n) \in EventRow
           /\ Recovered(row) \in EventRow
           /\ Claimed(row, n) \in EventRow
           /\ Published(row) \in EventRow
<1>1. Exhausted(row) \in BOOLEAN
  BY DEF Exhausted
<1>2. \A m \in Nat : Released(row, m) \in EventRow
  BY <1>1 DEF Released, EventRow, NoToken
<1>3. Recovered(row) \in EventRow
  BY <1>2 DEF Recovered
<1>4. Claimed(row, n) \in EventRow
  BY DEF Claimed, EventRow
<1>5. Published(row) \in EventRow
  BY DEF Published, EventRow, NoToken
<1>6. QED
  BY <1>2, <1>3, <1>4, <1>5

EventType == event \in [EventId -> EventRow]

\* What the two updates of a settled claim leave in the table.
LEMMA MarkTypes ==
    ASSUME TypeOK, NEW c \in Claim,
           MarkPublished(c) \/ MarkPublishFailed(c) \/ UNCHANGED event
    PROVE  EventType'
<1>1. c.id \in EventId /\ event[c.id] \in EventRow
  BY DEF Claim, TypeOK
<1>2. CASE MarkPublished(c)
  BY <1>1, <1>2, RowTypes DEF MarkPublished, TypeOK, EventType
<1>3. CASE MarkPublishFailed(c)
  <2>1. \A n \in Nat : Released(event[c.id], n) \in EventRow
    BY <1>1, RowTypes DEF TypeOK
  <2>2. /\ event[c.id].nextAttemptAt \in Nat
        /\ Smaller(event[c.id].attempts, 6) \in Nat
        /\ now \in Nat /\ Backoff \in Nat
    BY <1>1, OutboxAssumption DEF TypeOK, EventRow, Smaller
  <2>3. \A m, n \in Nat : m * n \in Nat
    OBVIOUS
  <2>4. now + Smaller(event[c.id].attempts, 6) * Backoff \in Nat
    BY <2>2, <2>3
  <2>5. QED
    BY <1>1, <1>3, <2>1, <2>2, <2>4 DEF MarkPublishFailed, TypeOK, EventType
<1>4. CASE UNCHANGED event
  BY <1>4 DEF TypeOK, EventType
<1>5. QED
  BY <1>2, <1>3, <1>4

LEMMA TypeStep == TypeOK /\ [Next]_vars => TypeOK'
<1> SUFFICES ASSUME TypeOK, [Next]_vars
             PROVE  TypeOK'
  OBVIOUS
<1>1. ASSUME NEW e \in EventId, Accept(e)
      PROVE  TypeOK'
  BY <1>1, WaitingType DEF Accept, TypeOK
<1>2. ASSUME NEW r \in Relay, ClaimReady(r)
      PROVE  TypeOK'
  <2>1. PICK S \in SUBSET EventId :
          /\ event' = [e \in EventId |->
                        IF e \in S THEN Claimed(Recovered(event[e]), issued[e] + 1)
                                   ELSE Recovered(event[e])]
          /\ issued' = [e \in EventId |-> IF e \in S THEN issued[e] + 1 ELSE issued[e]]
          /\ \/ /\ batch' = [batch EXCEPT ![r] =
                      {[id |-> e, token |-> issued[e] + 1, claimedAt |-> now] : e \in S}]
                /\ stage' = [stage EXCEPT ![r] = IF S = {} THEN "idle" ELSE "send"]
                /\ UNCHANGED faults
             \/ Fault /\ UNCHANGED <<batch, stage>>
    BY <1>2 DEF ClaimReady
  <2>2. event' \in [EventId -> EventRow]
    <3>1. /\ \A e \in EventId : event[e] \in EventRow /\ issued[e] + 1 \in Nat
          /\ now \in Nat
      BY DEF TypeOK
    <3>2. \A e \in EventId : Recovered(event[e]) \in EventRow
      BY <3>1, RowTypes
    <3>3. \A e \in EventId : Claimed(Recovered(event[e]), issued[e] + 1) \in EventRow
      BY <3>1, <3>2, RowTypes
    <3>4. QED
      BY <2>1, <3>2, <3>3
  <2>3. {[id |-> e, token |-> issued[e] + 1, claimedAt |-> now] : e \in S} \subseteq Claim
    BY DEF TypeOK, Claim
  <2>4. batch' \in [Relay -> SUBSET Claim]
    BY <2>1, <2>3 DEF TypeOK
  <2>5. issued' \in [EventId -> Nat] /\ faults' \in Nat
    BY <2>1 DEF TypeOK, Fault
  <2>6. stage' \in [Relay -> {"idle", "send", "published", "failed"}]
    BY <2>1 DEF TypeOK
  <2>7. QED
    BY <1>2, <2>2, <2>4, <2>5, <2>6 DEF ClaimReady, TypeOK
<1>3. ASSUME NEW r \in Relay, NEW c \in batch[r], Publish(r, c)
      PROVE  TypeOK'
  <2>1. c.id \in EventId
    BY DEF TypeOK, Claim
  <2>2. QED
    BY <1>3, <2>1 DEF Publish, Fault, TypeOK
<1>4. ASSUME NEW r \in Relay, NEW c \in batch[r],
             SettlePublished(r, c) \/ SettleFailed(r, c)
      PROVE  TypeOK'
  <2>1. EventType'
    BY <1>4, MarkTypes DEF SettlePublished, SettleFailed, TypeOK
  <2>2. QED
    BY <1>4, <2>1 DEF SettlePublished, SettleFailed, Advance, Abandon, Fault,
                      EventType, TypeOK
<1>5. ASSUME NEW r \in Relay, Crash(r)
      PROVE  TypeOK'
  BY <1>5 DEF Crash, Abandon, Fault, TypeOK
<1>6. ASSUME NEW e \in EventId, RequeueFailed(e)
      PROVE  TypeOK'
  BY <1>6, WaitingType DEF RequeueFailed, TypeOK
<1>7. ASSUME NEW e \in EventId, Consume(e)
      PROVE  TypeOK'
  BY <1>7 DEF Consume, ProcessOnce, Fault, TypeOK
<1>8. ASSUME Tick
      PROVE  TypeOK'
  BY <1>8 DEF Tick, TypeOK
<1>9. ASSUME UNCHANGED vars
      PROVE  TypeOK'
  BY <1>9 DEF vars, TypeOK
<1>10. QED
  BY <1>1, <1>2, <1>3, <1>4, <1>5, <1>6, <1>7, <1>8, <1>9 DEF Next, RelayStep

\* The type invariant of the outbox, its relays, the broker and the inbox.
THEOREM TypeCorrect == Spec => []TypeOK
<1>1. Init => TypeOK
  BY DEF Init, TypeOK, EventRow, NoToken
<1>2. QED
  BY <1>1, TypeStep, PTL DEF Spec

-----------------------------------------------------------------------------
(* What one step does to one row and to the claims on it.                  *)

IsStale(row) == row.status = "PUBLISHING" /\ row.claimedAt + StaleAfter <= now

\* The row is claimed, possibly in the instant of its recovery.
ClaimMove(e) ==
    /\ Recovered(event[e]).status = "PENDING"
    /\ ~Exhausted(Recovered(event[e]))
    /\ event'[e] = Claimed(Recovered(event[e]), issued[e] + 1)
    /\ issued'[e] = issued[e] + 1

\* The holder of the claim records what became of it.
SettleMove(e, r, c) ==
    /\ c.id = e
    /\ Holds(c)
    /\ \/ Settling(r, c, "published") /\ event'[e] = Published(event[e])
       \/ /\ c \notin batch'[r]
          /\ \E n \in Nat : event'[e] = Released(event[e], n)

RowMove(e) ==
    \/ ClaimMove(e)
    \/ /\ issued'[e] = issued[e]
       /\ \/ event'[e] = event[e]
          \/ event[e].status \in {"ABSENT", "FAILED"} /\ event'[e] = Waiting
          \/ IsStale(event[e]) /\ event'[e] = Released(event[e], now)
          \/ \E r \in Relay : \E c \in batch[r] : SettleMove(e, r, c)

\* A claim of e enters a batch only with the claim of the row.
NewClaim(e, c) ==
    /\ c.id = e
    /\ c.token = issued[e] + 1
    /\ c.claimedAt = now
    /\ ClaimMove(e)

LEMMA RowMoves ==
    ASSUME TypeOK, [Next]_vars
    PROVE  \A e \in EventId : RowMove(e)
<1> USE DEF TypeOK
<1>1. ASSUME NEW r \in Relay, ClaimReady(r)
      PROVE  \A e \in EventId : RowMove(e)
  <2>1. PICK S \in SUBSET EventId :
          /\ Batch(S)
          /\ event' = [e \in EventId |->
                        IF e \in S THEN Claimed(Recovered(event[e]), issued[e] + 1)
                                   ELSE Recovered(event[e])]
          /\ issued' = [e \in EventId |-> IF e \in S THEN issued[e] + 1 ELSE issued[e]]
    BY <1>1 DEF ClaimReady
  <2> SUFFICES ASSUME NEW e \in EventId
               PROVE  RowMove(e)
    OBVIOUS
  <2>2. CASE e \in S
    BY <2>1, <2>2 DEF Batch, Ready, RowMove, ClaimMove
  <2>3. CASE e \notin S
    BY <2>1, <2>3 DEF RowMove, Recovered, IsStale
  <2>4. QED
    BY <2>2, <2>3
<1>2. ASSUME NEW r \in Relay, NEW c \in batch[r], SettlePublished(r, c)
      PROVE  \A e \in EventId : RowMove(e)
  <2>1. c.id \in EventId
    BY DEF Claim
  <2>2. Settling(r, c, "published") /\ issued' = issued
    BY <1>2 DEF SettlePublished
  <2>3. \/ event' = event
        \/ Holds(c) /\ event' = [event EXCEPT ![c.id] = Published(event[c.id])]
    BY <1>2 DEF SettlePublished, MarkPublished
  <2>4. QED
    BY <2>1, <2>2, <2>3 DEF RowMove, SettleMove
<1>3. ASSUME NEW r \in Relay, NEW c \in batch[r], SettleFailed(r, c)
      PROVE  \A e \in EventId : RowMove(e)
  <2>1. c.id \in EventId /\ event[c.id] \in EventRow
    BY DEF Claim
  <2>2. c \notin batch'[r] /\ issued' = issued
    BY <1>3 DEF SettleFailed, Advance, Abandon
  <2>3. \/ event' = event
        \/ /\ Holds(c)
           /\ \E n : event' = [event EXCEPT ![c.id] = Released(event[c.id], n)]
    BY <1>3 DEF SettleFailed, MarkPublishFailed
  <2>4. CASE event' = event
    BY <2>2, <2>4 DEF RowMove
  <2>5. CASE event' # event
    <3>1. PICK n : event' = [event EXCEPT ![c.id] = Released(event[c.id], n)]
      BY <2>3, <2>5
    <3>2. event'[c.id] \in EventRow
      BY <2>1, TypeStep
    <3>3. event'[c.id].nextAttemptAt = n
      BY <2>1, <3>1 DEF Released
    <3>4. n \in Nat
      BY <3>2, <3>3 DEF EventRow
    <3>5. SettleMove(c.id, r, c)
      BY <2>1, <2>2, <2>3, <2>5, <3>1, <3>4 DEF SettleMove
    <3>6. QED
      BY <2>2, <3>1, <3>5 DEF RowMove
  <2>6. QED
    BY <2>4, <2>5
<1>4. ASSUME NEW f \in EventId, Accept(f) \/ RequeueFailed(f)
      PROVE  \A e \in EventId : RowMove(e)
  BY <1>4 DEF Accept, RequeueFailed, RowMove
<1>5. ASSUME \/ \E r \in Relay : Crash(r) \/ \E c \in batch[r] : Publish(r, c)
             \/ \E f \in EventId : Consume(f)
             \/ Tick
             \/ UNCHANGED vars
      PROVE  \A e \in EventId : RowMove(e)
  BY <1>5 DEF Crash, Publish, Consume, Tick, vars, RowMove
<1>6. QED
  BY <1>1, <1>2, <1>3, <1>4, <1>5 DEF Next, RelayStep

\* Where a row that moves can end up.
LEMMA MovedStatus ==
    ASSUME NEW e \in EventId, RowMove(e), event'[e] # event[e]
    PROVE  \/ event'[e].status \in {"PENDING", "PUBLISHING", "FAILED"}
           \/ /\ event'[e].status = "PUBLISHED"
              /\ \E r \in Relay : \E c \in batch[r] :
                    c.id = e /\ Settling(r, c, "published")
<1>1. \A row, n : Released(row, n).status \in {"PENDING", "FAILED"}
  BY DEF Released
<1>2. \A row, n : Claimed(row, n).status = "PUBLISHING"
  BY DEF Claimed
<1>3. /\ Waiting.status = "PENDING"
      /\ \A row : Published(row).status = "PUBLISHED"
  BY DEF Waiting, Published
<1>4. \/ \E row, n : event'[e] = Released(row, n) \/ event'[e] = Claimed(row, n)
      \/ event'[e] = Waiting
      \/ /\ \E row : event'[e] = Published(row)
         /\ \E r \in Relay : \E c \in batch[r] :
               c.id = e /\ Settling(r, c, "published")
  BY DEF RowMove, ClaimMove, SettleMove
<1>5. QED
  BY <1>1, <1>2, <1>3, <1>4

\* At most one relay's batch grows, by new claims of different events.
LEMMA BatchMoves ==
    ASSUME TypeOK, [Next]_vars, NEW r \in Relay, NEW s \in Relay,
           NEW c \in batch'[r], NEW d \in batch'[s]
    PROVE  /\ c \in batch[r] \/ NewClaim(c.id, c)
           /\ c \notin batch[r] /\ d \notin batch[s] /\ c.id = d.id
                => r = s /\ c = d
<1> USE DEF TypeOK
<1>1. ASSUME NEW q \in Relay, ClaimReady(q)
      PROVE  /\ c \in batch[r] \/ NewClaim(c.id, c)
             /\ c \notin batch[r] /\ d \notin batch[s] /\ c.id = d.id
                  => r = s /\ c = d
  <2>1. PICK S \in SUBSET EventId :
          /\ Batch(S)
          /\ event' = [e \in EventId |->
                        IF e \in S THEN Claimed(Recovered(event[e]), issued[e] + 1)
                                   ELSE Recovered(event[e])]
          /\ issued' = [e \in EventId |-> IF e \in S THEN issued[e] + 1 ELSE issued[e]]
          /\ \/ batch' = [batch EXCEPT ![q] =
                    {[id |-> e, token |-> issued[e] + 1, claimedAt |-> now] : e \in S}]
             \/ batch' = batch
    BY <1>1 DEF ClaimReady
  <2>2. \A e \in S : ClaimMove(e)
    BY <2>1 DEF Batch, Ready, ClaimMove
  <2>3. CASE batch' = batch
    BY <2>3
  <2>4. CASE batch' = [batch EXCEPT ![q] =
                {[id |-> e, token |-> issued[e] + 1, claimedAt |-> now] : e \in S}]
    <3>1. \A p \in Relay : \A b \in batch'[p] :
            b \notin batch[p] =>
              /\ p = q
              /\ b.id \in S
              /\ b = [id |-> b.id, token |-> issued[b.id] + 1, claimedAt |-> now]
      BY <2>4
    <3>2. QED
      BY <2>2, <3>1 DEF NewClaim
  <2>5. QED
    BY <2>1, <2>3, <2>4
<1>2. ASSUME \A q \in Relay : batch'[q] \subseteq batch[q]
      PROVE  c \in batch[r] /\ d \in batch[s]
  BY <1>2
<1>3. ASSUME NEW q \in Relay, NEW b \in batch[q],
             Publish(q, b) \/ SettlePublished(q, b) \/ SettleFailed(q, b)
      PROVE  \A p \in Relay : batch'[p] \subseteq batch[p]
  BY <1>3 DEF Publish, SettlePublished, SettleFailed, Advance, Abandon
<1>4. ASSUME \/ \E q \in Relay : Crash(q)
             \/ \E e \in EventId : Accept(e) \/ RequeueFailed(e) \/ Consume(e)
             \/ Tick
             \/ UNCHANGED vars
      PROVE  \A q \in Relay : batch'[q] \subseteq batch[q]
  BY <1>4 DEF Crash, Abandon, Accept, RequeueFailed, Consume, Tick, vars
<1>5. QED
  BY <1>1, <1>2, <1>3, <1>4 DEF Next, RelayStep

-----------------------------------------------------------------------------
(* Failures are visible.                                                   *)

\* A release or a claim keeps the flag in step with the status.
LEMMA VisibleStep ==
    TypeOK /\ FailureIsVisible /\ [Next]_vars => FailureIsVisible'
<1> SUFFICES ASSUME TypeOK, FailureIsVisible, [Next]_vars, NEW e \in EventId
             PROVE  /\ event'[e].compensation <=> event'[e].status = "FAILED"
                    /\ event'[e].status = "PENDING" => ~Exhausted(event'[e])
  BY DEF FailureIsVisible, Exhausted
<1>1. RowMove(e)
  BY RowMoves
<1>2. /\ event[e].compensation <=> event[e].status = "FAILED"
      /\ event[e].status = "PENDING" => ~Exhausted(event[e])
  BY DEF FailureIsVisible
<1>3. \A row, n : LET r == Released(row, n)
                  IN  /\ r.compensation <=> r.status = "FAILED"
                      /\ r.status = "PENDING" => ~Exhausted(r)
  BY DEF Released, Exhausted
<1>4. CASE ClaimMove(e)
  <2>1. ~Recovered(event[e]).compensation
    BY <1>2, <1>3, <1>4 DEF ClaimMove, Recovered
  <2>2. QED
    BY <1>4, <2>1 DEF ClaimMove, Claimed
<1>5. CASE event'[e] = event[e]
  BY <1>2, <1>5
<1>6. CASE event'[e] = Waiting
  BY <1>6, OutboxAssumption DEF Waiting, Exhausted
<1>7. CASE \E n : event'[e] = Released(event[e], n)
  BY <1>3, <1>7
<1>8. CASE event'[e] = Published(event[e]) /\ \E c : c.id = e /\ Holds(c)
  BY <1>2, <1>8 DEF Published, Holds
<1>9. QED
  BY <1>1, <1>4, <1>5, <1>6, <1>7, <1>8 DEF RowMove, SettleMove

\* Every event that is given up is flagged for compensation, no other is,
\* and no waiting event has used up its attempts.
THEOREM FailuresAreVisible == Spec => []FailureIsVisible
<1>1. Init => FailureIsVisible
  BY DEF Init, FailureIsVisible
<1>2. QED
  BY <1>1, VisibleStep, TypeCorrect, PTL DEF Spec

-----------------------------------------------------------------------------
(* The lease of a claim.                                                   *)

\* A claim in a batch: its row is still its own, is published, or has been
\* taken away after the staleness limit.
ClaimOK(c) ==
    /\ c.token <= issued[c.id]
    /\ c.token < issued[c.id] => c.claimedAt + StaleAfter <= now
    /\ \/ Holds(c) /\ event[c.id].claimedAt = c.claimedAt
       \/ event[c.id].status = "PUBLISHED"
       \/ c.claimedAt + StaleAfter <= now

ClaimsOK == \A r \in Relay : \A c \in batch[r] : ClaimOK(c)

DistinctTokens ==
    \A r, s \in Relay : \A c \in batch[r], d \in batch[s] :
        c.id = d.id /\ c.token = d.token => r = s /\ c = d

LeaseInv == TypeOK /\ ClaimsOK /\ DistinctTokens

\* A claim that stays in its batch.
LEMMA OldClaim ==
    ASSUME LeaseInv, [Next]_vars, NEW r \in Relay, NEW c \in batch[r],
           c \in batch'[r]
    PROVE  ClaimOK(c)'
<1>1. /\ c.id \in EventId /\ c.token \in Nat /\ c.claimedAt \in Nat
      /\ issued[c.id] \in Nat /\ now \in Nat /\ StaleAfter \in Nat
      /\ event[c.id] \in EventRow
  BY OutboxAssumption DEF LeaseInv, TypeOK, Claim
<1>2. now' \in Nat /\ now <= now'
  BY <1>1 DEF Next, RelayStep, ClaimReady, Publish, SettlePublished, SettleFailed,
              Crash, Accept, RequeueFailed, Consume, Tick, vars
<1>3. ClaimOK(c) /\ RowMove(c.id)
  BY <1>1, RowMoves DEF LeaseInv, ClaimsOK
<1>4. c.claimedAt + StaleAfter <= now => c.claimedAt + StaleAfter <= now'
  BY <1>1, <1>2
<1>5. CASE event'[c.id] = event[c.id] /\ issued'[c.id] = issued[c.id]
  BY <1>3, <1>4, <1>5 DEF ClaimOK, Holds
<1>6. CASE /\ c.claimedAt + StaleAfter <= now
           /\ issued'[c.id] \in {issued[c.id], issued[c.id] + 1}
  BY <1>1, <1>3, <1>4, <1>6 DEF ClaimOK
<1>7. ASSUME ClaimMove(c.id) \/ IsStale(event[c.id])
             \/ event[c.id].status \in {"ABSENT", "FAILED"}
      PROVE  c.claimedAt + StaleAfter <= now
  BY <1>3, <1>7 DEF ClaimMove, IsStale, ClaimOK, Holds, Recovered
<1>8. ASSUME NEW s \in Relay, NEW d \in batch[s], SettleMove(c.id, s, d),
             issued'[c.id] = issued[c.id]
      PROVE  ClaimOK(c)'
  <2>1. CASE event'[c.id] = Published(event[c.id])
    BY <1>3, <1>4, <1>8, <2>1 DEF ClaimOK, Published
  <2>2. CASE d \notin batch'[s]
    <3>1. ~Holds(c)
      BY <1>8, <2>2 DEF SettleMove, Holds, LeaseInv, DistinctTokens
    <3>2. event[c.id].status = "PUBLISHING"
      BY <1>8 DEF SettleMove, Holds
    <3>3. QED
      BY <1>3, <1>6, <1>8, <3>1, <3>2 DEF ClaimOK
  <2>3. QED
    BY <1>8, <2>1, <2>2 DEF SettleMove
<1>9. QED
  BY <1>3, <1>5, <1>6, <1>7, <1>8 DEF RowMove, ClaimMove

LEMMA LeaseInductive == LeaseInv /\ [Next]_vars => LeaseInv'
<1> SUFFICES ASSUME LeaseInv, [Next]_vars
             PROVE  LeaseInv'
  OBVIOUS
<1>1. TypeOK /\ TypeOK'
  BY TypeStep DEF LeaseInv
<1>2. ASSUME NEW r \in Relay, NEW c \in batch'[r], c \notin batch[r]
      PROVE  ClaimOK(c)' /\ NewClaim(c.id, c)
  <2>1. NewClaim(c.id, c)
    BY <1>1, <1>2, BatchMoves
  <2>2. c.id \in EventId /\ c.claimedAt \in Nat /\ issued[c.id] \in Nat
    BY <1>1, <1>2 DEF TypeOK, Claim
  <2>3. ClaimOK(c)'
    BY <2>1, <2>2 DEF NewClaim, ClaimMove, Claimed, ClaimOK, Holds
  <2>4. QED
    BY <2>1, <2>3
<1>3. ClaimsOK'
  BY <1>2, OldClaim DEF ClaimsOK
<1>4. ASSUME NEW r \in Relay, NEW s \in Relay, NEW c \in batch'[r],
             NEW d \in batch'[s], c.id = d.id, c.token = d.token
      PROVE  r = s /\ c = d
  <2>1. CASE c \in batch[r] /\ d \in batch[s]
    BY <1>4, <2>1 DEF LeaseInv, DistinctTokens
  <2>2. CASE c \notin batch[r] /\ d \notin batch[s]
    BY <1>1, <1>4, <2>2, BatchMoves
  <2>3. ASSUME NEW p \in Relay, NEW q \in Relay, NEW a \in batch[p],
               NEW b \in batch'[q], b \notin batch[q], a.id = b.id
        PROVE  a.token # b.token
    <3>1. b.token = issued[b.id] + 1
      BY <1>2, <2>3 DEF NewClaim
    <3>2. a.token <= issued[a.id] /\ a.token \in Nat /\ issued[a.id] \in Nat
      BY <1>1 DEF LeaseInv, ClaimsOK, ClaimOK, TypeOK, Claim
    <3>3. QED
      BY <2>3, <3>1, <3>2
  <2>4. QED
    BY <1>4, <2>1, <2>2, <2>3
<1>5. QED
  BY <1>1, <1>3, <1>4 DEF LeaseInv, DistinctTokens

\* No claim is taken from a live relay before the staleness limit.
THEOREM ClaimsAreLeases == Spec => []ClaimsAreLeased
<1>1. Init => LeaseInv
  BY DEF Init, LeaseInv, ClaimsOK, DistinctTokens, TypeOK, EventRow, NoToken
<1>2. LeaseInv => ClaimsAreLeased
  <2> SUFFICES ASSUME LeaseInv, NEW r \in Relay, NEW s \in Relay,
                      NEW c \in batch[r], NEW d \in batch[s],
                      c.id = d.id, c.token < d.token
               PROVE  c.claimedAt + StaleAfter <= now
    BY DEF ClaimsAreLeased
  <2>1. /\ c.token \in Nat /\ d.token \in Nat /\ issued[c.id] \in Nat
        /\ d.token <= issued[d.id]
    BY DEF LeaseInv, ClaimsOK, ClaimOK, TypeOK, Claim
  <2>2. c.token < issued[c.id]
    BY <2>1
  <2>3. QED
    BY <2>2 DEF LeaseInv, ClaimsOK, ClaimOK
<1>3. QED
  BY <1>1, <1>2, LeaseInductive, PTL DEF Spec

-----------------------------------------------------------------------------
(* What PUBLISHED means.                                                   *)

\* No step takes a settled event back.
THEOREM PublishedStays == Spec => PublishedIsFinal
<1>1. TypeOK /\ [Next]_vars =>
        \A e \in EventId : event[e].status = "PUBLISHED"
                             => event'[e].status = "PUBLISHED"
  <2> SUFFICES ASSUME TypeOK, [Next]_vars, NEW e \in EventId,
                      event[e].status = "PUBLISHED"
               PROVE  event'[e].status = "PUBLISHED"
    OBVIOUS
  <2>1. RowMove(e)
    BY RowMoves
  <2>2. ~ClaimMove(e) /\ ~IsStale(event[e])
    BY DEF ClaimMove, Recovered, IsStale
  <2>3. \A r, c : ~SettleMove(e, r, c)
    BY DEF SettleMove, Holds
  <2>4. QED
    BY <2>1, <2>2, <2>3 DEF RowMove
<1>2. QED
  BY <1>1, TypeCorrect, PTL DEF Spec, PublishedIsFinal

Sent(e) == topic[e] > 0 \/ e \in inbox

\* A relay about to record a publication has made it.
SentInv ==
    /\ PublishedWasSent
    /\ \A r \in Relay : \A c \in batch[r] :
            Settling(r, c, "published") => Sent(c.id)

\* A message leaves the broker only into the inbox.
LEMMA SentStays ==
    ASSUME TypeOK, [Next]_vars, NEW e \in EventId, Sent(e)
    PROVE  Sent(e)'
<1> USE DEF TypeOK
<1>1. ASSUME NEW r \in Relay, NEW c \in batch[r], Publish(r, c)
      PROVE  Sent(e)'
  BY <1>1 DEF Publish, Sent, Claim
<1>2. ASSUME NEW f \in EventId, Consume(f)
      PROVE  Sent(e)'
  BY <1>2 DEF Consume, ProcessOnce, Sent
<1>3. ASSUME UNCHANGED <<topic, inbox>>
      PROVE  Sent(e)'
  BY <1>3 DEF Sent
<1>4. QED
  BY <1>1, <1>2, <1>3 DEF Next, RelayStep, ClaimReady, SettlePublished,
     SettleFailed, Crash, Accept, RequeueFailed, Tick, vars

LEMMA SentInductive == TypeOK /\ SentInv /\ [Next]_vars => SentInv'
<1> SUFFICES ASSUME TypeOK, SentInv, [Next]_vars
             PROVE  SentInv'
  OBVIOUS
<1>1. \A r \in Relay : \A c \in batch[r] : c.id \in EventId
  BY DEF TypeOK, Claim
<1>2. TypeOK'
  BY TypeStep
<1>3. ASSUME NEW e \in EventId, event'[e].status = "PUBLISHED"
      PROVE  Sent(e)'
  <2>1. RowMove(e)
    BY RowMoves
  <2>2. \/ event[e].status = "PUBLISHED"
        \/ \E r \in Relay : \E c \in batch[r] :
              c.id = e /\ Settling(r, c, "published")
    BY <1>3, <2>1, MovedStatus
  <2>3. Sent(e)
    BY <2>2 DEF SentInv, PublishedWasSent, Sent
  <2>4. QED
    BY <2>3, SentStays
<1>4. ASSUME NEW r \in Relay, NEW c \in batch'[r], Settling(r, c, "published")'
      PROVE  Sent(c.id)'
  <2>1. CASE c \in batch[r] /\ Settling(r, c, "published")
    BY <1>1, <2>1, SentStays DEF SentInv
  <2>2. ASSUME NEW q \in Relay, NEW b \in batch[q], Publish(q, b)
        PROVE  c \in batch[r] /\ (Settling(r, c, "published") \/ Sent(c.id)')
    <3>1. batch' = batch /\ b.id \in EventId /\ c.id \in EventId
      BY <1>1, <2>2 DEF Publish
    <3>2. CASE q # r
      BY <1>4, <2>2, <3>1, <3>2 DEF Publish, Settling, TypeOK
    <3>3. CASE q = r
      <4>1. stage'[r] = "published" /\ c \in batch[r]
        BY <1>4, <3>1 DEF Settling
      <4>2. topic' = [topic EXCEPT ![b.id] = @ + 1]
        BY <2>2, <3>3, <4>1 DEF Publish, TypeOK
      <4>3. b.id <= c.id /\ c.id <= b.id
        BY <1>4, <2>2, <3>1, <3>3, <4>1 DEF Publish, Settling
      <4>4. c.id = b.id
        BY <3>1, <4>3 DEF EventId
      <4>5. QED
        BY <3>1, <4>1, <4>2, <4>4 DEF Sent, TypeOK
    <3>4. QED
      BY <3>2, <3>3
  <2>3. ASSUME NEW q \in Relay, ClaimReady(q) \/ Crash(q)
        PROVE  c \in batch[r] /\ Settling(r, c, "published")
    BY <1>4, <2>3 DEF ClaimReady, Crash, Abandon, Settling, TypeOK
  <2>4. ASSUME NEW q \in Relay, NEW b \in batch[q],
               SettlePublished(q, b) \/ SettleFailed(q, b)
        PROVE  c \in batch[r] /\ Settling(r, c, "published")
    BY <1>4, <2>4 DEF SettlePublished, SettleFailed, Advance, Abandon, Settling, TypeOK
  <2>5. CASE UNCHANGED <<batch, stage>>
    BY <1>4, <2>1, <2>5 DEF Settling
  <2>6. QED
    BY <2>1, <2>2, <2>3, <2>4, <2>5, <1>1, SentStays
       DEF Next, RelayStep, Accept, RequeueFailed, Consume, Tick, vars
<1>5. QED
  BY <1>3, <1>4 DEF SentInv, PublishedWasSent, Sent

\* An event recorded as published is in the broker or was processed.
THEOREM NothingIsLost == Spec => []PublishedWasSent
<1>1. Init => SentInv
  BY DEF Init, SentInv, PublishedWasSent
<1>2. SentInv => PublishedWasSent
  BY DEF SentInv
<1>3. QED
  BY <1>1, <1>2, SentInductive, TypeCorrect, PTL DEF Spec

-----------------------------------------------------------------------------
(* The pipeline implements the delivery it promises.                       *)

DeliveryInv ==
    /\ \A e \in EventId : actions[e] = IF e \in inbox THEN 1 ELSE 0
    /\ \A e \in EventId : topic[e] > 0 => e \in Accepted
    /\ \A r \in Relay : \A c \in batch[r] : c.id \in Accepted

\* Rows are never deleted, and only the insert adds one.
LEMMA AcceptedGrows ==
    ASSUME TypeOK, [Next]_vars
    PROVE  /\ Accepted \subseteq Accepted'
           /\ \/ Accepted' = Accepted
              \/ \E e \in EventId :
                    /\ e \notin Accepted
                    /\ Accepted' = Accepted \cup {e}
                    /\ UNCHANGED <<topic, inbox, actions, batch>>
<1>1. ASSUME NEW e \in EventId, event'[e].status = "ABSENT"
      PROVE  event[e].status = "ABSENT"
  <2>1. RowMove(e)
    BY RowMoves
  <2>2. QED
    BY <1>1, <2>1, MovedStatus
<1>2. Accepted \subseteq Accepted'
  BY <1>1 DEF Accepted
<1>3. ASSUME NEW e \in EventId, Accept(e)
      PROVE  /\ e \notin Accepted
             /\ Accepted' = Accepted \cup {e}
             /\ UNCHANGED <<topic, inbox, actions, batch>>
  BY <1>3 DEF Accept, Accepted, Waiting, TypeOK
<1>4. ASSUME NEW e \in EventId, event[e].status = "ABSENT",
             event'[e].status # "ABSENT", \A f \in EventId : ~Accept(f)
      PROVE  FALSE
  <2>1. \A c : ~(c.id = e /\ Holds(c))
    BY <1>4 DEF Holds
  <2>2. ~ClaimMove(e) /\ ~IsStale(event[e])
    BY <1>4 DEF ClaimMove, Recovered, IsStale
  <2>3. event'[e] = Waiting
    BY <1>4, <2>1, <2>2, RowMoves DEF RowMove, SettleMove
  <2>4. ASSUME NEW f \in EventId, RequeueFailed(f)
        PROVE  event'[e] = event[e]
    BY <1>4, <2>4 DEF RequeueFailed, TypeOK
  <2>5. ASSUME NEW r \in Relay, ClaimReady(r)
        PROVE  \E S \in SUBSET EventId :
                  /\ e \notin S
                  /\ event'[e] = Recovered(event[e])
    <3>1. e \notin Ready
      BY <1>4 DEF Ready, Recovered
    <3>2. QED
      BY <2>5, <3>1 DEF ClaimReady, Batch
  <2>6. event'[e] = event[e]
    BY <1>4, <2>1, <2>4, <2>5 DEF Next, RelayStep, Publish, SettlePublished,
       SettleFailed, MarkPublished, MarkPublishFailed, Crash, Consume, Tick, vars,
       Recovered, TypeOK, Claim
  <2>7. QED
    BY <1>4, <2>6
<1>5. QED
  BY <1>2, <1>3, <1>4 DEF Accepted

LEMMA DeliveryInductive == TypeOK /\ DeliveryInv /\ [Next]_vars => DeliveryInv'
<1> SUFFICES ASSUME TypeOK, DeliveryInv, [Next]_vars
             PROVE  DeliveryInv'
  OBVIOUS
<1> USE DEF TypeOK
<1>1. Accepted \subseteq Accepted' /\ TypeOK'
  BY AcceptedGrows, TypeStep
<1>2. ASSUME NEW r \in Relay, NEW c \in batch'[r]
      PROVE  c.id \in Accepted'
  <2>1. CASE c \in batch[r]
    BY <1>1, <2>1 DEF DeliveryInv
  <2>2. CASE NewClaim(c.id, c)
    <3>1. c.id \in EventId
      BY <1>1, <1>2 DEF Claim
    <3>2. QED
      BY <2>2, <3>1 DEF NewClaim, ClaimMove, Claimed, Accepted
  <2>3. QED
    BY <1>2, <2>1, <2>2, BatchMoves
<1>3. ASSUME NEW e \in EventId, topic'[e] > 0
      PROVE  e \in Accepted'
  <2>1. ASSUME NEW r \in Relay, NEW c \in batch[r], Publish(r, c)
        PROVE  topic[e] > 0 \/ e = c.id
    BY <1>3, <2>1 DEF Publish, Claim
  <2>2. ASSUME NEW f \in EventId, Consume(f)
        PROVE  topic[e] > 0
    BY <1>3, <2>2 DEF Consume
  <2>3. CASE topic' = topic
    BY <1>1, <1>3, <2>3 DEF DeliveryInv
  <2>4. QED
    BY <1>1, <2>1, <2>2, <2>3 DEF DeliveryInv, Next, RelayStep, ClaimReady,
       SettlePublished, SettleFailed, Crash, Accept, RequeueFailed, Tick, vars
<1>4. ASSUME NEW e \in EventId
      PROVE  actions'[e] = IF e \in inbox' THEN 1 ELSE 0
  <2>1. ASSUME NEW f \in EventId, Consume(f)
        PROVE  actions'[e] = IF e \in inbox' THEN 1 ELSE 0
    BY <2>1 DEF Consume, ProcessOnce, DeliveryInv
  <2>2. CASE UNCHANGED <<inbox, actions>>
    BY <2>2 DEF DeliveryInv
  <2>3. QED
    BY <2>1, <2>2 DEF Next, RelayStep, ClaimReady, Publish,
       SettlePublished, SettleFailed, Crash, Accept, RequeueFailed, Tick, vars
<1>5. QED
  BY <1>2, <1>3, <1>4 DEF DeliveryInv

\* However events are claimed, sent and delivered, each is carried out at
\* most once and only after its acceptance.
THEOREM Refinement == Spec => ImplementsDelivery
<1>1. Init => DeliveryInv
  BY DEF Init, DeliveryInv
<1>2. Init => Delivery!Init
  BY DEF Init, Delivery!Init, Accepted
<1>3. TypeOK /\ DeliveryInv /\ [Next]_vars => [Delivery!Next]_Delivery!deliveryVars
  <2> SUFFICES ASSUME TypeOK, DeliveryInv, [Next]_vars
               PROVE  [Delivery!Next]_Delivery!deliveryVars
    OBVIOUS
  <2>1. ASSUME NEW e \in EventId, e \notin Accepted,
               Accepted' = Accepted \cup {e}, UNCHANGED actions
        PROVE  Delivery!Next
    BY <2>1 DEF Delivery!Next, Delivery!Accept
  <2>2. ASSUME NEW e \in EventId, Consume(e), Accepted' = Accepted
        PROVE  UNCHANGED actions \/ Delivery!CarryOut(e)
    BY <2>2 DEF Consume, ProcessOnce, DeliveryInv, Delivery!CarryOut, TypeOK
  <2>3. UNCHANGED actions \/ \E e \in EventId : Consume(e)
    BY DEF Next, RelayStep, ClaimReady, Publish, SettlePublished, SettleFailed,
           Crash, Accept, RequeueFailed, Tick, vars
  <2>4. CASE Accepted' = Accepted
    BY <2>2, <2>3, <2>4 DEF Delivery!Next, Delivery!deliveryVars
  <2>5. CASE Accepted' # Accepted
    BY <2>1, <2>5, AcceptedGrows
  <2>6. QED
    BY <2>4, <2>5
<1>4. QED
  BY <1>1, <1>2, <1>3, DeliveryInductive, TypeCorrect, PTL
     DEF Spec, ImplementsDelivery, Delivery!Spec

=============================================================================
