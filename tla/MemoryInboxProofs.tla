------------------------- MODULE MemoryInboxProofs -------------------------
(***************************************************************************)
(* Proofs about MemoryInbox for every number of candidates, consumers and  *)
(* faults.                                                                 *)
(***************************************************************************)
EXTENDS MemoryInbox, TLAPS

LEMMA TypeStep == TypeOK /\ [Next]_vars => TypeOK'
<1> SUFFICES ASSUME TypeOK, [Next]_vars
             PROVE  TypeOK'
  OBVIOUS
<1> USE DEF TypeOK
<1>0. ASSUME NEW e \in EventId, NEW s \in {"PROCESSING", "PROCESSED", "FAILED"},
             Write(e, s)
      PROVE  row' \in [EventId -> InboxRow]
  BY <1>0 DEF Write, InboxRow
<1>a. Fault => faults' \in Nat
  BY DEF Fault
<1>b. ASSUME NEW c \in Consumer, Busy(c)
      PROVE  work[c].id \in EventId
  BY <1>b DEF Busy, Work, Free
<1>e. ASSUME NEW c \in Consumer, Busy(c), NEW s \in {"complete", "fail"},
             work' = [work EXCEPT ![c].stage = s]
      PROVE  work' \in [Consumer -> Work]
  <2>1. [work[c] EXCEPT !.stage = s] \in Work
    <3>1. work[c] \in [stage : {"add", "complete", "fail"}, id : EventId,
                       claimedAt : Nat]
      BY <1>e DEF Busy, Work, Free
    <3>2. QED
      BY <3>1 DEF Work
  <2>2. QED
    BY <1>e, <2>1
<1>c. ASSUME NEW c \in Consumer, Acknowledge(c)
      PROVE  work' \in [Consumer -> Work] /\ topic' \in [EventId -> Nat]
  BY <1>c DEF Acknowledge, Work
<1>d. ASSUME NEW c \in Consumer, Busy(c), Reject(c)
      PROVE  work' \in [Consumer -> Work] /\ topic' \in [EventId -> Nat]
  <2>1. work[c].id \in EventId
    BY <1>b, <1>d
  <2>2. Free \in Work
    BY DEF Work
  <2>3. QED
    BY <1>d, <2>1, <2>2 DEF Reject
<1>1. ASSUME NEW c \in Consumer, NEW e \in EventId, Deliver(c, e)
      PROVE  TypeOK'
  <2>1. topic' \in [EventId -> Nat]
    BY <1>1 DEF Deliver
  <2>2. row' \in [EventId -> InboxRow]
    BY <1>0, <1>1 DEF Deliver
  <2>3. [stage |-> "add", id |-> e, claimedAt |-> now] \in Work
    BY DEF Work
  <2>4. work' \in [Consumer -> Work]
    BY <1>1, <2>3 DEF Deliver
  <2>5. QED
    BY <1>1, <2>1, <2>2, <2>4 DEF Deliver
<1>2. ASSUME NEW c \in Consumer, NEW e \in EventId, ClaimFails(c, e)
      PROVE  TypeOK'
  BY <1>0, <1>a, <1>2 DEF ClaimFails
<1>3. ASSUME NEW c \in Consumer, Add(c)
      PROVE  TypeOK'
  <2>1. Busy(c)
    BY <1>3 DEF Add, Busy
  <2>2. memories' \in [EventId -> Nat] /\ work' \in [Consumer -> Work]
    <3>1. work[c].id \in EventId
      BY <1>b, <2>1
    <3>2. memories' \in [EventId -> Nat]
      BY <1>3, <3>1 DEF Add
    <3>3. work' \in [Consumer -> Work]
      BY <1>e, <1>3, <2>1 DEF Add
    <3>4. QED
      BY <3>2, <3>3
  <2>3. QED
    BY <1>a, <1>3, <2>2 DEF Add
<1>4. ASSUME NEW c \in Consumer, Complete(c)
      PROVE  TypeOK'
  <2>1. Busy(c)
    BY <1>4 DEF Complete, Busy
  <2>2. row' \in [EventId -> InboxRow]
    BY <1>0, <1>b, <1>4, <2>1 DEF Complete
  <2>3. work' \in [Consumer -> Work] /\ topic' \in [EventId -> Nat]
    BY <1>c, <1>e, <1>4, <2>1 DEF Complete
  <2>4. QED
    BY <1>a, <1>4, <2>2, <2>3 DEF Complete
<1>5. ASSUME NEW c \in Consumer, Fail(c)
      PROVE  TypeOK'
  <2>1. Busy(c)
    BY <1>5 DEF Fail, Busy
  <2>2. row' \in [EventId -> InboxRow]
    BY <1>0, <1>b, <1>5, <2>1 DEF Fail
  <2>3. QED
    BY <1>a, <1>d, <1>5, <2>1, <2>2 DEF Fail
<1>6. ASSUME NEW c \in Consumer, Crash(c)
      PROVE  TypeOK'
  BY <1>a, <1>d, <1>6 DEF Crash
<1>7. ASSUME NEW e \in EventId, Duplicate(e)
      PROVE  TypeOK'
  BY <1>a, <1>7 DEF Duplicate
<1>8. CASE Tick
  BY <1>8 DEF Tick
<1>9. CASE UNCHANGED vars
  BY <1>9 DEF vars
<1>10. QED
  BY <1>1, <1>2, <1>3, <1>4, <1>5, <1>6, <1>7, <1>8, <1>9 DEF Next, ConsumerStep

\* Every state of the consumer has the declared types.
THEOREM TypeCorrect == Spec => []TypeOK
<1>1. Init => TypeOK
  BY MemoryAssumption DEF Init, TypeOK, InboxRow, Work
<1>2. QED
  BY <1>1, TypeStep, PTL DEF Spec

-----------------------------------------------------------------------------
(* The inductive invariant.                                                *)

\* What is known of a consumption: its row was written when it was claimed
\* or later, and it only completes what it stored.
WorkOK ==
    \A c \in Consumer : Busy(c) =>
        /\ work[c].claimedAt <= row[work[c].id].updatedAt
        /\ work[c].claimedAt <= now
        /\ row[work[c].id].status # "ABSENT"
        /\ work[c].stage = "complete" => memories[work[c].id] > 0

Inv == TypeOK /\ WorkOK /\ ProcessedIsRemembered /\ FailureIsRedelivered

RowsGrow ==
    \A e \in EventId : \/ row'[e] = row[e]
                       \/ row'[e].updatedAt = now /\ row'[e].status # "ABSENT"

MemoriesGrow ==
    \A e \in EventId : /\ memories[e] \in Nat /\ memories'[e] \in Nat
                       /\ memories[e] <= memories'[e]

\* What no step does to the memories, the clock and the rows: memories and
\* time only grow, and a row that is written is written for now.
LEMMA Growth ==
    ASSUME TypeOK, [Next]_vars
    PROVE  /\ now \in Nat /\ now' \in Nat /\ now <= now'
           /\ RowsGrow
           /\ MemoriesGrow
<1> USE DEF TypeOK
<1>1. ASSUME NEW c \in Consumer, Busy(c)
      PROVE  work[c].id \in EventId
  BY <1>1 DEF Busy, Work, Free
<1>2. ASSUME NEW e \in EventId, NEW s \in {"PROCESSING", "PROCESSED", "FAILED"},
             Write(e, s)
      PROVE  RowsGrow
  BY <1>2 DEF Write, RowsGrow
<1>3. RowsGrow
  <2>1. ASSUME NEW c \in Consumer, Complete(c) \/ Fail(c)
        PROVE  RowsGrow
    BY <1>1, <1>2, <2>1 DEF Complete, Fail, Busy, RowsGrow
  <2>2. ASSUME NEW c \in Consumer, NEW e \in EventId, Deliver(c, e) \/ ClaimFails(c, e)
        PROVE  RowsGrow
    BY <1>2, <2>2 DEF Deliver, ClaimFails, RowsGrow
  <2>3. QED
    BY <2>1, <2>2 DEF Next, ConsumerStep, Add, Crash, Duplicate, Tick, vars,
                     RowsGrow
<1>4. MemoriesGrow
  <2>1. ASSUME NEW c \in Consumer, Add(c)
        PROVE  MemoriesGrow
    BY <2>1 DEF Add, MemoriesGrow
  <2>2. QED
    BY <2>1 DEF Next, ConsumerStep, Deliver, Complete, Fail, ClaimFails, Crash,
                Duplicate, Tick, vars, MemoriesGrow
<1>5. now \in Nat /\ now' \in Nat /\ now <= now'
  BY DEF Next, ConsumerStep, Deliver, Add, Complete, Fail, ClaimFails, Crash,
         Duplicate, Tick, vars
<1>6. QED
  BY <1>3, <1>4, <1>5


LEMMA WorkStep == Inv /\ [Next]_vars => WorkOK'
<1> SUFFICES ASSUME Inv, [Next]_vars, NEW c \in Consumer, Busy(c)'
             PROVE  /\ work'[c].claimedAt <= row'[work'[c].id].updatedAt
                    /\ work'[c].claimedAt <= now'
                    /\ row'[work'[c].id].status # "ABSENT"
                    /\ work'[c].stage = "complete" => memories'[work'[c].id] > 0
  BY DEF WorkOK
<1>1. /\ now \in Nat /\ now' \in Nat /\ now <= now'
      /\ RowsGrow /\ MemoriesGrow
  BY Growth DEF Inv
\* Either the consumption begins now, or it was under way with the same claim.
<1>2. CASE \E e \in EventId : Deliver(c, e) /\ Claimable(e)
  BY <1>1, <1>2 DEF Deliver, Write, Inv, TypeOK
<1>3. CASE /\ Busy(c)
           /\ work'[c].id = work[c].id /\ work'[c].claimedAt = work[c].claimedAt
           /\ \/ work'[c].stage = "complete" => work[c].stage = "complete"
              \/ memories'[work[c].id] = memories[work[c].id] + 1
  <2>1. work[c].id \in EventId /\ work[c].claimedAt \in Nat
    BY <1>3 DEF Inv, TypeOK, Busy, Work, Free
  <2>2. row[work[c].id].updatedAt \in Nat
    BY <2>1 DEF Inv, TypeOK, InboxRow
  <2>3. /\ work[c].claimedAt <= row[work[c].id].updatedAt
        /\ work[c].claimedAt <= now
        /\ row[work[c].id].status # "ABSENT"
        /\ work[c].stage = "complete" => memories[work[c].id] > 0
    BY <1>3 DEF Inv, WorkOK
  <2>4. QED
    BY <1>1, <1>3, <2>1, <2>2, <2>3 DEF RowsGrow, MemoriesGrow
<1>4. CASE work'[c] = work[c]
  BY <1>3, <1>4 DEF Busy
<1>5. ASSUME NEW d \in Consumer, NEW e \in EventId,
             Deliver(d, e) \/ ClaimFails(d, e) \/ Duplicate(e)
      PROVE  \/ work'[c] = work[c]
             \/ Deliver(c, e) /\ Claimable(e)
  BY <1>5 DEF Deliver, ClaimFails, Duplicate, Inv, TypeOK
<1>6. ASSUME NEW d \in Consumer, d # c,
             Add(d) \/ Complete(d) \/ Fail(d) \/ Crash(d)
      PROVE  work'[c] = work[c]
  BY <1>6 DEF Add, Complete, Fail, Crash, Acknowledge, Reject, Inv, TypeOK
<1>7. ASSUME Fail(c) \/ Crash(c)
      PROVE  FALSE
  BY <1>7 DEF Fail, Crash, Reject, Busy, Free, Inv, TypeOK
<1>8. ASSUME Add(c) \/ Complete(c), work'[c] # work[c]
      PROVE  /\ Busy(c)
             /\ work'[c].id = work[c].id /\ work'[c].claimedAt = work[c].claimedAt
             /\ \/ work'[c].stage = "complete" => work[c].stage = "complete"
                \/ memories'[work[c].id] = memories[work[c].id] + 1
  <2>1. CASE Add(c)
    <3>1. Busy(c)
      BY <2>1 DEF Add, Busy
    <3>2. work[c] \in [stage : {"add", "complete", "fail"}, id : EventId,
                       claimedAt : Nat]
      BY <3>1 DEF Inv, TypeOK, Busy, Work, Free
    <3>3. \/ /\ work'[c] = [work[c] EXCEPT !.stage = "complete"]
             /\ memories'[work[c].id] = memories[work[c].id] + 1
          \/ work'[c] = [work[c] EXCEPT !.stage = "fail"]
      BY <2>1, <3>2 DEF Add, Inv, TypeOK
    <3>4. QED
      BY <3>1, <3>2, <3>3
  <2>2. CASE Complete(c)
    <3>1. Busy(c)
      BY <2>2 DEF Complete, Busy
    <3>2. work[c] \in [stage : {"add", "complete", "fail"}, id : EventId,
                       claimedAt : Nat]
      BY <3>1 DEF Inv, TypeOK, Busy, Work, Free
    <3>3. \/ work'[c] = Free
          \/ work'[c] = [work[c] EXCEPT !.stage = "fail"]
      BY <2>2 DEF Complete, Acknowledge, Inv, TypeOK
    <3>4. work'[c] = [work[c] EXCEPT !.stage = "fail"]
      BY <3>3 DEF Busy, Free
    <3>5. QED
      BY <3>1, <3>2, <3>4
  <2>3. QED
    BY <1>8, <2>1, <2>2
<1>9. CASE Tick \/ UNCHANGED vars
  BY <1>4, <1>9 DEF Tick, vars
<1>10. ASSUME NEW d \in Consumer, Add(d) \/ Complete(d) \/ Fail(d) \/ Crash(d)
       PROVE  \/ work'[c] = work[c]
              \/ /\ Busy(c)
                 /\ work'[c].id = work[c].id /\ work'[c].claimedAt = work[c].claimedAt
                 /\ \/ work'[c].stage = "complete" => work[c].stage = "complete"
                    \/ memories'[work[c].id] = memories[work[c].id] + 1
  BY <1>6, <1>7, <1>8, <1>10
<1>11. QED
  BY <1>2, <1>3, <1>4, <1>5, <1>9, <1>10 DEF Next, ConsumerStep

LEMMA InvStep == Inv /\ [Next]_vars => Inv'
<1> SUFFICES ASSUME Inv, [Next]_vars
             PROVE  Inv'
  OBVIOUS
<1>1. TypeOK' /\ WorkOK'
  BY TypeStep, WorkStep DEF Inv
<1>2. /\ MemoriesGrow /\ ProcessedIsRemembered /\ FailureIsRedelivered
      /\ row \in [EventId -> InboxRow] /\ topic \in [EventId -> Nat]
  BY Growth DEF Inv, TypeOK
\* A row becomes PROCESSED or FAILED in two actions only.
<1>3. ASSUME NEW e \in EventId
      PROVE  \/ row'[e] = row[e] /\ (topic'[e] >= topic[e] \/ row[e].status # "FAILED")
             \/ row'[e].status = "PROCESSING"
             \/ row'[e].status = "PROCESSED" /\ memories[e] > 0
             \/ row'[e].status = "FAILED" /\ topic'[e] > 0
  <2>1. ASSUME NEW c \in Consumer, NEW f \in EventId,
               Deliver(c, f) \/ ClaimFails(c, f)
        PROVE  \/ row'[e] = row[e] /\ (topic'[e] >= topic[e] \/ row[e].status # "FAILED")
               \/ row'[e].status = "PROCESSING"
    BY <1>2, <2>1 DEF Deliver, ClaimFails, Write, Claimable
  <2>2. ASSUME NEW c \in Consumer, Complete(c)
        PROVE  \/ row'[e] = row[e] /\ topic'[e] >= topic[e]
               \/ row'[e].status = "PROCESSED" /\ memories[e] > 0
    <3>1. Busy(c) /\ work[c].stage = "complete"
      BY <2>2 DEF Complete, Busy
    <3>2. memories[work[c].id] > 0
      BY <3>1 DEF Inv, WorkOK
    <3>3. QED
      BY <1>2, <2>2, <3>2 DEF Complete, Write, Acknowledge
  <2>3. ASSUME NEW c \in Consumer, Fail(c)
        PROVE  \/ row'[e] = row[e] /\ topic'[e] >= topic[e]
               \/ row'[e].status = "FAILED" /\ topic'[e] > 0
    BY <1>2, <2>3 DEF Fail, Write, Reject
  <2>4. QED
    BY <1>2, <2>1, <2>2, <2>3 DEF Next, ConsumerStep, Add, Crash, Reject,
                                  Duplicate, Tick, vars
<1>4. ProcessedIsRemembered'
  BY <1>2, <1>3 DEF ProcessedIsRemembered, MemoriesGrow
<1>5. FailureIsRedelivered'
  <2>1. \A e \in EventId : topic[e] \in Nat /\ topic'[e] \in Nat
    BY <1>1, <1>2 DEF TypeOK
  <2>2. QED
    BY <1>2, <1>3, <2>1 DEF FailureIsRedelivered
<1>6. QED
  BY <1>1, <1>4, <1>5 DEF Inv

LEMMA Invariant == Spec => []Inv
<1>1. Init => Inv
  BY MemoryAssumption DEF Init, Inv, TypeOK, InboxRow, Work, WorkOK, Busy, Free,
                          ProcessedIsRemembered, FailureIsRedelivered
<1>2. QED
  BY <1>1, InvStep, PTL DEF Spec

\* A candidate whose row says PROCESSED has a memory.
THEOREM NothingIsForgotten == Spec => []ProcessedIsRemembered
<1>1. Inv => ProcessedIsRemembered
  BY DEF Inv
<1>2. QED
  BY <1>1, Invariant, PTL

\* The broker holds a copy of every candidate whose row says FAILED.
THEOREM FailuresAreRetried == Spec => []FailureIsRedelivered
<1>1. Inv => FailureIsRedelivered
  BY DEF Inv
<1>2. QED
  BY <1>1, Invariant, PTL

\* Nobody takes up a candidate another consumption works on, unless a
\* failure of it was recorded or that consumption has outlived its claim.
THEOREM ClaimsAreRespected == Spec => SecondConsumerWaits
<1>1. ASSUME Inv, [Next]_vars, NEW c \in Consumer, NEW d \in Consumer,
             Busy(d), ~Busy(c), (Busy(c) /\ work[c].id = work[d].id)'
      PROVE  \/ row[work[d].id].status = "FAILED"
             \/ work[d].claimedAt + StaleAfter <= now
  <2>1. PICK e \in EventId : Deliver(c, e) /\ Claimable(e)
    <3>1. work'[c] # work[c]
      BY <1>1 DEF Busy
    <3>2. ASSUME NEW b \in Consumer, Add(b) \/ Complete(b) \/ Fail(b) \/ Crash(b)
          PROVE  FALSE
      <4>1. Busy(b)
        BY <3>2 DEF Add, Complete, Fail, Crash, Busy
      <4>2. work'[c] = work[c]
        BY <1>1, <3>2, <4>1 DEF Add, Complete, Fail, Crash, Acknowledge, Reject,
                                Inv, TypeOK
      <4>3. QED
        BY <3>1, <4>2
    <3>3. ASSUME NEW b \in Consumer, NEW e \in EventId, Deliver(b, e)
          PROVE  b = c /\ Claimable(e)
      <4>1. \/ work' = work
            \/ /\ Claimable(e)
               /\ work' = [work EXCEPT ![b] =
                             [stage |-> "add", id |-> e, claimedAt |-> now]]
        BY <3>3 DEF Deliver
      <4>2. b # c => work'[c] = work[c]
        BY <1>1, <4>1 DEF Inv, TypeOK
      <4>3. QED
        BY <3>1, <4>1, <4>2
    <3>4. QED
      BY <1>1, <3>1, <3>2, <3>3 DEF Next, ConsumerStep, ClaimFails, Duplicate,
                                    Tick, vars
  <2>2. c # d /\ work'[d] = work[d] /\ work'[c].id = e
    BY <1>1, <2>1 DEF Deliver, Inv, TypeOK
  <2>3. work[d].id = e
    BY <1>1, <2>2
  <2>4. /\ work[d].claimedAt <= row[e].updatedAt
        /\ row[e].status # "ABSENT"
    BY <1>1, <2>3 DEF Inv, WorkOK
  <2>5. /\ work[d].claimedAt \in Nat /\ row[e].updatedAt \in Nat
        /\ StaleAfter \in Nat /\ now \in Nat
    BY <1>1, MemoryAssumption DEF Inv, TypeOK, InboxRow, Busy, Work, Free
  <2>6. QED
    BY <2>1, <2>3, <2>4, <2>5 DEF Claimable
<1>2. Inv /\ [Next]_vars =>
        [\A c, d \in Consumer :
           Busy(d) /\ ~Busy(c) /\ (Busy(c) /\ work[c].id = work[d].id)'
           => \/ row[work[d].id].status = "FAILED"
              \/ work[d].claimedAt + StaleAfter <= now]_vars
  BY <1>1
<1>3. QED
  BY <1>2, Invariant, PTL DEF Spec, SecondConsumerWaits

=============================================================================
