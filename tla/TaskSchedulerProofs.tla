------------------------ MODULE TaskSchedulerProofs ------------------------
(***************************************************************************)
(* Proofs about TaskScheduler for every set of tasks and workers and every *)
(* value of the bounds.                                                    *)
(***************************************************************************)
EXTENDS TaskScheduler, TLAPS

LEMMA StatusFacts == Status \subseteq AnyStatus /\ Absent \in AnyStatus
  BY DEF Status, AnyStatus

LEMMA AbsentRowType == AbsentRow \in Row /\ AbsentRow.status = Absent
  BY StatusFacts DEF AbsentRow, Row

\* Every transaction of the store leaves rows in the table.
LEMMA StoreTyping ==
    ASSUME StoreTypeOK,
           \/ \E ts \in Nat : RecoverRows(ts) \/ ExpireRows(ts)
           \/ \E ts \in Nat : \E S \in SUBSET Due(ts) : ClaimRows(S)
    PROVE  row' \in [Task -> Row] /\ taken' \subseteq WakeupKey
<1> USE StatusFacts DEF StoreTypeOK, Row, Written, Status
<1>1. \A t \in Task : KeyOf(t) \in WakeupKey
  BY DEF KeyOf, Key, WakeupKey
<1>2. ASSUME NEW ts \in Nat, RecoverRows(ts) \/ ExpireRows(ts)
      PROVE  row' \in [Task -> Row] /\ taken' \subseteq WakeupKey
  BY <1>2 DEF RecoverRows, Stale, ExpireRows, Overdue
<1>3. ASSUME NEW ts \in Nat, NEW S \in SUBSET Due(ts), ClaimRows(S)
      PROVE  row' \in [Task -> Row] /\ taken' \subseteq WakeupKey
  BY <1>1, <1>3 DEF ClaimRows, Claimed, Due, Free
<1> QED  BY <1>2, <1>3

LEMMA UpdateTyping ==
    ASSUME StoreTypeOK, NEW t \in Task, NEW v, NEW s \in Status, NEW w \in Nat,
           UpdateRow(t, v, s, w)
    PROVE  row' \in [Task -> Row]
<1>1. row[t].version + 1 \in Nat /\ row[t].expiresAt \in Nat /\ now \in Nat /\ s \in AnyStatus
  BY StatusFacts DEF StoreTypeOK, Row
<1>2. Written(row[t], s, w) \in Row
  BY <1>1 DEF Written, Row
<1> QED  BY <1>2 DEF StoreTypeOK, UpdateRow

PcType == {"idle", "expire", "claim", "handle", "stopped"}

LEMMA NewClaimsType ==
    ASSUME TypeOK, NEW w \in Worker, NEW S \in SUBSET Task
    PROVE  NewClaims(w, S) \subseteq Claim
BY DEF TypeOK, StoreTypeOK, NewClaims, Claim, Row

LEMMA TypeStep == TypeOK /\ [Next]_vars => TypeOK'
<1> SUFFICES ASSUME TypeOK, [Next]_vars
             PROVE  TypeOK'
  OBVIOUS
<1> USE DEF TypeOK, StoreTypeOK
<1>1. ASSUME NEW w \in Worker, RecoverStale(w)
      PROVE  TypeOK'
  BY <1>1, StoreTyping DEF RecoverStale, Reply, Fault
<1>2. ASSUME NEW w \in Worker, ExpireDue(w)
      PROVE  TypeOK'
  BY <1>2, StoreTyping DEF ExpireDue, Reply, Fault
<1>3. ASSUME NEW w \in Worker, ClaimDue(w)
      PROVE  TypeOK'
  <2>1. PICK S \in SUBSET Due(at[w]) :
            /\ Batch(S, at[w])
            /\ ClaimRows(S)
            /\ Reply(w, IF Free(S) = {} THEN "idle" ELSE "handle")
            /\ claims' = IF pc'[w] = "stopped" THEN claims
                                               ELSE claims \cup NewClaims(w, Free(S))
    BY <1>3 DEF ClaimDue
  <2>2. NewClaims(w, Free(S)) \subseteq Claim
    BY NewClaimsType DEF Due, Free
  <2>3. row' \in [Task -> Row] /\ taken' \subseteq WakeupKey
    BY <2>1, StoreTyping
  <2>4. pc' \in [Worker -> PcType] /\ faults' \in Nat
    BY <2>1 DEF Reply, Fault, PcType
  <2>5. QED
    BY <1>3, <2>1, <2>2, <2>3, <2>4 DEF ClaimDue, PcType
<1>4. ASSUME NEW w \in Worker, NEW c \in claims,
             GoBackToSleep(w, c) \/ Complete(w, c)
      PROVE  TypeOK'
  <2>1. c.task \in Task /\ c.wakeupAt \in Nat /\ at[w] + Cadence \in Nat
    BY SchedulerAssumption DEF Claim
  <2>2. row' \in [Task -> Row]
    BY <1>4, <2>1, UpdateTyping DEF GoBackToSleep, Complete, Status
  <2>3. QED
    BY <1>4, <2>2 DEF GoBackToSleep, Complete, Dismiss
<1>5. ASSUME NEW w \in Worker, NEW c \in claims, Enqueue(w, c)
      PROVE  TypeOK'
  <2>1. Key(c.task, c.wakeupAt) \in WakeupKey
    BY DEF Claim, Key, WakeupKey
  <2>2. [c EXCEPT !.stage = "enqueued"] \in Claim
    BY DEF Claim
  <2>3. QED
    BY <1>5, <2>1, <2>2 DEF Enqueue, EnqueueNotification
<1>6. ASSUME NEW w \in Worker, NEW c \in claims, SettleFails(w, c)
      PROVE  TypeOK'
  BY <1>6 DEF SettleFails, Dismiss, Fault
<1>7. ASSUME NEW w \in Worker, CallFails(w) \/ Crash(w)
      PROVE  TypeOK'
  BY <1>7 DEF CallFails, Crash, Fault
<1>8. ASSUME NEW t \in Task, NEW w \in {now, now + 1},
             NEW e \in now + 1 .. Horizon, CreateTask(t, w, e)
      PROVE  TypeOK'
  <2>1. w \in Nat /\ e \in Nat
    BY StoreAssumption DEF Horizon
  <2>2. row' \in [Task -> Row]
    BY <1>8, <2>1, StatusFacts DEF CreateTask, CreateRow, Row, Status
  <2>3. QED
    BY <1>8, <2>2 DEF CreateTask, workerVars
<1>9. ASSUME NEW t \in Task, CancelRead(t) \/ CancelReread(t)
      PROVE  TypeOK'
  <2>1. /\ AnswerFor(row[t].status, "read") \in Stage
        /\ AnswerFor(row[t].status, "again") \in Stage
        /\ row[t].version \in Nat
    BY DEF AnswerFor, Stage, Row
  <2>2. QED
    BY <1>9, <2>1 DEF CancelRead, CancelReread, CancelReads, workerVars
<1>10. ASSUME NEW t \in Task, CancelWrite(t) \/ CancelRetry(t) \/ CancelFails(t)
       PROVE  TypeOK'
  <2>1. row[t].wakeupAt \in Nat
    BY DEF Row
  <2>2. row' \in [Task -> Row]
    BY <1>10, <2>1, UpdateTyping
       DEF CancelWrite, CancelRetry, CancelWrites, CancelFails, Status
  <2>3. QED
    BY <1>10, <2>2 DEF CancelWrite, CancelRetry, CancelWrites, CancelFails,
                       Stage, Fault, workerVars
<1>11. ASSUME TickClock \/ \E t \in Task : CreateRaises(t)
       PROVE  TypeOK'
  BY <1>11 DEF TickClock, Tick, CreateRaises, workerVars
<1>12. ASSUME UNCHANGED vars
       PROVE  TypeOK'
  BY <1>12 DEF vars
<1>13. QED
  BY <1>1, <1>2, <1>3, <1>4, <1>5, <1>6, <1>7, <1>8, <1>9, <1>10, <1>11, <1>12
     DEF Next, WorkerStep, Settle, Failure, User, ClaimsOf

\* The type invariant of the store, the workers and the cancel requests.
THEOREM TypeCorrect == Spec => []TypeOK
<1>1. Init => TypeOK
  BY AbsentRowType DEF Init, StoreInit, TypeOK, StoreTypeOK, Stage
<1>2. QED
  BY <1>1, TypeStep, PTL DEF Spec

-----------------------------------------------------------------------------
(* The lease.  Neither ClaimIsLease nor CurrentClaimIsExclusive is         *)
(* inductive: what excludes a second current claim is that the version     *)
(* only grows and that only staleness takes a RUNNING row from its holder. *)

\* One claim against its row, and against its worker's tick.
ClaimOK(c) ==
    /\ Exists(c.task)
    /\ c.version <= row[c.task].version
    /\ c.version = row[c.task].version =>
            /\ row[c.task].status = "RUNNING"
            /\ row[c.task].updatedAt = c.claimedAt
            /\ row[c.task].wakeupAt = c.wakeupAt
    /\ c.version < row[c.task].version => c.claimedAt + StaleAfter <= now
    /\ c.wakeupAt <= at[c.worker]
    /\ c.stage = "enqueued" => Key(c.task, c.wakeupAt) \in outbox

DistinctVersions ==
    \A c, d \in claims : c.task = d.task /\ c.version = d.version => c = d

Cancellable == Status \ (Terminal \cup {"RUNNING", "TRIGGERED"})

\* One cancel request against its row.
CancelOK(t) ==
    /\ cancel[t].stage = "ok" => row[t].status = "CANCELLED"
    /\ cancel[t].stage = "lost" => Exists(t)
    /\ cancel[t].stage \in {"read", "again"} =>
            /\ Exists(t)
            /\ cancel[t].version <= row[t].version
            /\ cancel[t].version = row[t].version
                    => row[t].status \in Cancellable

LeaseInv ==
    /\ TypeOK
    /\ \A w \in Worker : at[w] <= now
    /\ \A c \in claims : ClaimOK(c)
    /\ DistinctVersions
    /\ \A t \in Task : CancelOK(t)

\* A row and the claims on it as a step leaves them.  A write either takes
\* a row that no claim holds, or one whose claim is stale or given up.
RowLease(t) ==
    \/ row'[t] = row[t]
    \/ /\ ~Exists(t)
       /\ row'[t].status = "SCHEDULED"
       /\ row'[t].version = 0
    \/ /\ Exists(t)
       /\ row'[t].status # Absent
       /\ row'[t].version = row[t].version + 1
       /\ row[t].status # "CANCELLED"
       /\ \A c \in claims' \cap claims : Current(t, c.version) /\ c.task = t
                => c.claimedAt + StaleAfter <= now

\* Time, the ticks and the notifications only go forward.
Forward ==
    /\ now <= now'
    /\ \A w \in Worker : at[w] <= at'[w] /\ at'[w] <= now'
    /\ outbox \subseteq outbox'

\* A write under such a step keeps the claims that survive it in order.
LEMMA OldClaims ==
    ASSUME TypeOK, TypeOK', Forward,
           NEW c \in claims, c \in claims', ClaimOK(c), RowLease(c.task)
    PROVE  ClaimOK(c)'
<1>1. /\ c.task \in Task /\ c.version \in Nat /\ c.claimedAt \in Nat
      /\ row[c.task].version \in Nat /\ row'[c.task].version \in Nat
      /\ now \in Nat /\ now' \in Nat /\ StaleAfter \in Nat
  BY StoreAssumption DEF TypeOK, StoreTypeOK, Claim, Row
<1>2. /\ c.wakeupAt <= at'[c.worker]
      /\ c.stage = "enqueued" => Key(c.task, c.wakeupAt) \in outbox'
  <2>1. /\ c.worker \in Worker /\ c.wakeupAt \in Nat
        /\ at[c.worker] \in Nat /\ at'[c.worker] \in Nat
    BY DEF TypeOK, Claim
  <2>2. QED
    BY <2>1 DEF Forward, ClaimOK
<1>3. CASE row'[c.task] = row[c.task]
  BY <1>1, <1>2, <1>3 DEF ClaimOK, Exists, Forward, Key
<1>4. CASE row'[c.task] # row[c.task]
  <2>1. /\ row'[c.task].status # Absent
        /\ row'[c.task].version = row[c.task].version + 1
        /\ Current(c.task, c.version) => c.claimedAt + StaleAfter <= now
    BY <1>4 DEF RowLease, ClaimOK
  <2>2. c.claimedAt + StaleAfter <= now
    BY <1>1, <2>1 DEF ClaimOK, Current
  <2>3. c.claimedAt + StaleAfter <= now'
    BY <1>1, <2>2 DEF Forward
  <2>4. c.version < row'[c.task].version
    BY <1>1, <2>1 DEF ClaimOK
  <2>5. QED
    BY <1>1, <1>2, <2>1, <2>3, <2>4 DEF ClaimOK, Exists, Key
<1>5. QED
  BY <1>3, <1>4

\* The same for a pending or answered cancel request that the step leaves.
LEMMA OldCancel ==
    ASSUME TypeOK, TypeOK', NEW t \in Task, CancelOK(t), RowLease(t),
           cancel'[t] = cancel[t]
    PROVE  CancelOK(t)'
<1>1. /\ row[t].version \in Nat /\ row'[t].version \in Nat
      /\ cancel[t].version \in Nat
  BY DEF TypeOK, StoreTypeOK, Row
<1>2. CASE row'[t] = row[t]
  BY <1>2 DEF CancelOK, Exists
<1>3. CASE row'[t] # row[t]
  BY <1>1, <1>3 DEF CancelOK, RowLease, Exists, Absent
<1>4. QED
  BY <1>2, <1>3

\* What remains to show of a step that makes no claim: how it treats rows
\* and requests.
LEMMA QuietStep ==
    ASSUME LeaseInv, TypeOK', Forward, claims' \subseteq claims,
           \A t \in Task : RowLease(t),
           \A t \in Task : cancel'[t] = cancel[t] \/ CancelOK(t)'
    PROVE  LeaseInv'
<1>1. \A c \in claims' : ClaimOK(c)'
  BY OldClaims DEF LeaseInv, TypeOK, Claim
<1>2. DistinctVersions'
  BY DEF LeaseInv, DistinctVersions
<1>3. \A t \in Task : CancelOK(t)'
  BY OldCancel DEF LeaseInv
<1>4. QED
  BY <1>1, <1>2, <1>3 DEF LeaseInv, Forward

\* Most steps leave the clock, the ticks and the notifications alone.
LEMMA StandStill ==
    ASSUME LeaseInv, UNCHANGED <<now, at, outbox>>
    PROVE  Forward
BY DEF LeaseInv, TypeOK, StoreTypeOK, Forward

LEMMA LeaseClaimDue ==
    ASSUME LeaseInv, TypeOK', NEW w \in Worker, ClaimDue(w)
    PROVE  LeaseInv'
<1> USE DEF LeaseInv
<1>1. PICK S \in SUBSET Due(at[w]) :
          /\ Batch(S, at[w])
          /\ ClaimRows(S)
          /\ claims' = IF pc'[w] = "stopped" THEN claims
                                             ELSE claims \cup NewClaims(w, Free(S))
  BY DEF ClaimDue
<1> DEFINE F == Free(S)
<1>2. /\ F \subseteq Task
      /\ \A t \in F : row[t].status \in Sleeping /\ row[t].wakeupAt <= at[w]
  BY DEF Due, Free
<1>3. /\ now' = now /\ now \in Nat /\ cancel' = cancel /\ at' = at
      /\ \A t \in Task : row[t].version \in Nat
      /\ Forward
  BY StandStill DEF ClaimDue, TypeOK, StoreTypeOK, Row
\* Nobody holds the current version of a row that is due.
<1>4. ASSUME NEW c \in claims, c.task \in F
      PROVE  /\ c.version < row[c.task].version
             /\ c.claimedAt + StaleAfter <= now
  <2>1. row[c.task].status # "RUNNING" /\ c.version \in Nat /\ c.task \in Task
    BY <1>2, <1>4 DEF Sleeping, TypeOK, Claim
  <2>2. QED
    BY <1>3, <2>1 DEF ClaimOK
<1>5. ASSUME NEW t \in Task
      PROVE  RowLease(t)
  <2>1. CASE t \in F
    <3>1. /\ row'[t].status = "RUNNING"
          /\ row'[t].version = row[t].version + 1
      BY <1>1, <2>1 DEF ClaimRows, Claimed, Written
    <3>2. Exists(t) /\ row[t].status # "CANCELLED"
      BY <1>2, <2>1 DEF Exists, Sleeping, Absent
    <3>3. QED
      BY <1>4, <2>1, <3>1, <3>2 DEF RowLease, Absent
  <2>2. CASE t \notin F
    BY <1>1, <2>2 DEF ClaimRows, RowLease
  <2>3. QED
    BY <2>1, <2>2
<1>6. \A c \in claims : ClaimOK(c)'
  <2>1. \A c \in claims : c \in claims' /\ c.task \in Task
    BY <1>1 DEF TypeOK, Claim
  <2>2. QED
    BY <1>3, <1>5, <2>1, OldClaims
<1>7. ASSUME NEW c \in NewClaims(w, F)
      PROVE  /\ c.task \in F
             /\ c.version = row[c.task].version + 1
             /\ ClaimOK(c)'
  <2>1. /\ c.task \in F
        /\ c.version = row[c.task].version + 1
        /\ c.claimedAt = now
        /\ c.wakeupAt = row[c.task].wakeupAt
        /\ c.worker = w
        /\ c.stage = "woken"
    BY <1>7 DEF NewClaims
  <2>2. /\ row'[c.task].status = "RUNNING"
        /\ row'[c.task].version = row[c.task].version + 1
        /\ row'[c.task].updatedAt = now
        /\ row'[c.task].wakeupAt = row[c.task].wakeupAt
    BY <1>1, <1>2, <2>1 DEF ClaimRows, Claimed, Written
  <2>3. c.wakeupAt <= at'[c.worker]
    BY <1>2, <1>3, <2>1
  <2>4. QED
    BY <1>2, <1>3, <2>1, <2>2, <2>3 DEF ClaimOK, Exists, Absent
<1>8. ASSUME NEW c \in NewClaims(w, F), NEW d \in NewClaims(w, F), c.task = d.task
      PROVE  c = d
  BY <1>8 DEF NewClaims
<1>9. ASSUME NEW c \in NewClaims(w, F), NEW d \in claims, c.task = d.task
      PROVE  c.version # d.version
  <2>1. d.version < row[c.task].version /\ d.version \in Nat
    BY <1>4, <1>7, <1>9 DEF TypeOK, Claim
  <2>2. row[c.task].version \in Nat
    BY <1>2, <1>3, <1>7
  <2>3. QED
    BY <1>7, <2>1, <2>2
<1>10. DistinctVersions'
  BY <1>1, <1>8, <1>9 DEF DistinctVersions
<1>11. \A t \in Task : CancelOK(t)'
  BY <1>3, <1>5, OldCancel
<1>12. QED
  BY <1>1, <1>3, <1>6, <1>7, <1>10, <1>11 DEF Forward

\* The handler's write, if it happens, is to the row it holds alone.
LEMMA LeaseSettle ==
    ASSUME LeaseInv, TypeOK', NEW w \in Worker, NEW c \in claims,
           GoBackToSleep(w, c) \/ Complete(w, c) \/ SettleFails(w, c)
    PROVE  LeaseInv'
<1> USE DEF LeaseInv
<1>1. /\ claims' = claims \ {c} /\ cancel' = cancel /\ Forward
  BY StandStill DEF GoBackToSleep, Complete, SettleFails, Dismiss
<1>2. c.task \in Task /\ ClaimOK(c)
  BY DEF TypeOK, Claim
<1>3. ASSUME NEW t \in Task
      PROVE  RowLease(t)
  <2>1. CASE row'[t] = row[t]
    BY <2>1 DEF RowLease
  <2>2. CASE row'[t] # row[t]
    <3>1. PICK s \in {"WAITING", "COMPLETED"}, n \in Nat : UpdateRow(c.task, c.version, s, n)
      BY <2>2, SchedulerAssumption
         DEF GoBackToSleep, Complete, SettleFails, TypeOK, StoreTypeOK, Claim
    <3>2. t = c.task /\ Current(t, c.version)
      BY <1>2, <2>2, <3>1 DEF UpdateRow, TypeOK, StoreTypeOK
    <3>3. row' = [row EXCEPT ![t] = Written(@, s, n)]
      BY <3>1, <3>2 DEF UpdateRow
    <3>4. /\ row'[t].status = s
          /\ row'[t].version = row[t].version + 1
      BY <3>3 DEF Written, TypeOK, StoreTypeOK
    <3>5. row[t].status = "RUNNING" /\ Exists(t)
      BY <1>2, <3>2 DEF ClaimOK, Current
    <3>6. \A d \in claims : d.task = t /\ Current(t, d.version) => d = c
      BY <3>2 DEF DistinctVersions, Current
    <3>7. QED
      BY <1>1, <3>4, <3>5, <3>6 DEF RowLease, Absent
  <2>3. QED
    BY <2>1, <2>2
<1>4. QED
  BY <1>1, <1>3, QuietStep

\* An enqueued notification changes what its own claim says, no row.
LEMMA LeaseEnqueue ==
    ASSUME LeaseInv, TypeOK', NEW w \in Worker, NEW c \in claims, Enqueue(w, c)
    PROVE  LeaseInv'
<1> USE DEF LeaseInv
<1>1. PICK e : e = [c EXCEPT !.stage = "enqueued"]
  OBVIOUS
<1>2. /\ claims' = (claims \ {c}) \cup {e}
      /\ outbox' = outbox \cup {Key(c.task, c.wakeupAt)}
      /\ UNCHANGED <<row, now, at, cancel>>
  BY <1>1 DEF Enqueue, EnqueueNotification
<1>3. Forward
  BY <1>2 DEF Forward, TypeOK, StoreTypeOK
<1>4. /\ e.task = c.task /\ e.version = c.version /\ e.wakeupAt = c.wakeupAt
      /\ e.claimedAt = c.claimedAt /\ e.worker = c.worker
  BY <1>1 DEF TypeOK, Claim
<1>5. ClaimOK(e)'
  <2>1. ClaimOK(c) /\ Key(c.task, c.wakeupAt)' = Key(c.task, c.wakeupAt)
    BY DEF Key
  <2>2. QED
    BY <1>2, <1>4, <2>1 DEF ClaimOK, Exists
<1>6. \A d \in claims \ {c} : ClaimOK(d)'
  BY <1>2, <1>3, OldClaims DEF RowLease, TypeOK, Claim
<1>7. DistinctVersions'
  <2> SUFFICES ASSUME NEW d \in claims', NEW f \in claims',
                      d.task = f.task, d.version = f.version
               PROVE  d = f
    BY DEF DistinctVersions
  <2>1. ASSUME NEW g \in claims, g # c
        PROVE  ~(g.task = e.task /\ g.version = e.version)
    BY <1>4, <2>1 DEF DistinctVersions
  <2>2. QED
    BY <1>2, <2>1 DEF DistinctVersions
<1>8. \A t \in Task : CancelOK(t)'
  BY <1>2, OldCancel DEF RowLease
<1>9. QED
  BY <1>2, <1>3, <1>5, <1>6, <1>7, <1>8 DEF Forward

LEMMA LeaseCancel ==
    ASSUME LeaseInv, TypeOK', NEW t \in Task,
           CancelWrite(t) \/ CancelRetry(t) \/ CancelFails(t)
    PROVE  LeaseInv'
<1> USE DEF LeaseInv
<1>1. /\ claims' = claims /\ Forward /\ CancelOK(t)
      /\ cancel[t].stage \in {"read", "again"} \/ (row' = row /\ CancelFails(t))
      /\ \A u \in Task \ {t} : cancel'[u] = cancel[u]
  BY StandStill DEF CancelWrite, CancelRetry, CancelWrites, CancelFails,
                    workerVars, TypeOK
<1>2. \/ row' = row
      \/ /\ Current(t, cancel[t].version)
         /\ cancel[t].stage \in {"read", "again"}
         /\ row' = [row EXCEPT ![t] = Written(@, "CANCELLED", row[t].wakeupAt)]
  BY <1>1 DEF CancelWrite, CancelRetry, CancelWrites, CancelFails, UpdateRow
<1>3. ASSUME Current(t, cancel[t].version), cancel[t].stage \in {"read", "again"}
      PROVE  /\ Exists(t) /\ row[t].status \in Cancellable
             /\ \A c \in claims : c.task = t => ~Current(t, c.version)
  BY <1>1, <1>3 DEF CancelOK, Current, ClaimOK, Cancellable
<1>4. ASSUME NEW u \in Task
      PROVE  RowLease(u)
  <2>1. CASE row'[u] = row[u]
    BY <2>1 DEF RowLease
  <2>2. CASE row'[u] # row[u]
    <3>1. /\ u = t
          /\ Current(t, cancel[t].version)
          /\ cancel[t].stage \in {"read", "again"}
          /\ row' = [row EXCEPT ![t] = Written(@, "CANCELLED", row[t].wakeupAt)]
      BY <1>2, <2>2 DEF TypeOK, StoreTypeOK
    <3>2. /\ row'[t].status = "CANCELLED"
          /\ row'[t].version = row[t].version + 1
      BY <3>1 DEF Written, TypeOK, StoreTypeOK
    <3>3. QED
      BY <1>3, <3>1, <3>2 DEF RowLease, Cancellable, Terminal, Absent
  <2>3. QED
    BY <2>1, <2>2
<1>5. CancelOK(t)'
  <2>1. CASE CancelFails(t)
    BY <2>1 DEF CancelFails, CancelOK, TypeOK
  <2>2. ASSUME NEW s \in {"lost", "refused"}, CancelWrites(t, s),
               cancel[t].stage \in {"read", "again"}
        PROVE  CancelOK(t)'
    <3>1. cancel'[t].stage = IF Current(t, cancel[t].version) THEN "ok" ELSE s
      BY <2>2 DEF CancelWrites, TypeOK
    <3>2. Current(t, cancel[t].version) => row'[t].status = "CANCELLED"
      BY <2>2 DEF CancelWrites, UpdateRow, Written, TypeOK, StoreTypeOK
    <3>3. ~Current(t, cancel[t].version) => row' = row
      BY <2>2 DEF CancelWrites, UpdateRow
    <3>4. Exists(t)
      BY <1>1, <2>2 DEF CancelOK
    <3>5. QED
      BY <3>1, <3>2, <3>3, <3>4 DEF CancelOK, Exists
  <2>3. QED
    BY <2>1, <2>2 DEF CancelWrite, CancelRetry
<1>6. \A u \in Task : cancel'[u] = cancel[u] \/ CancelOK(u)'
  BY <1>1, <1>5
<1>7. QED
  BY <1>1, <1>4, <1>6, QuietStep

\* Expiry takes rows nobody holds, recovery rows whose claim is stale.
LEMMA LeaseSweep ==
    ASSUME LeaseInv, TypeOK', NEW w \in Worker,
           RecoverStale(w) \/ ExpireDue(w)
    PROVE  LeaseInv'
<1> USE DEF LeaseInv
<1>1. claims' = claims /\ cancel' = cancel /\ now \in Nat
  BY DEF RecoverStale, ExpireDue, TypeOK, StoreTypeOK
<1>2. Forward
  <2>1. CASE RecoverStale(w)
    <3>1. now' = now /\ outbox' = outbox /\ at' = [at EXCEPT ![w] = now]
      BY <2>1 DEF RecoverStale
    <3>2. \A v \in Worker : at[v] \in Nat /\ at[v] <= now
      BY DEF TypeOK
    <3>3. QED
      BY <1>1, <3>1, <3>2 DEF Forward, TypeOK
  <2>2. CASE ExpireDue(w)
    BY <2>2, StandStill DEF ExpireDue
  <2>3. QED
    BY <2>1, <2>2
<1>3. ASSUME NEW c \in claims, Current(c.task, c.version)
      PROVE  /\ row[c.task].status = "RUNNING"
             /\ row[c.task].updatedAt = c.claimedAt
  BY <1>3 DEF ClaimOK, Current
<1>4. ASSUME RecoverStale(w), NEW t \in Task
      PROVE  RowLease(t)
  <2>1. CASE t \in Stale(now)
    <3>1. /\ row'[t].status = "WAITING"
          /\ row'[t].version = row[t].version + 1
      BY <1>4, <2>1 DEF RecoverStale, RecoverRows, Written
    <3>2. row[t].status = "RUNNING" /\ row[t].updatedAt + StaleAfter <= now
      BY <2>1 DEF Stale
    <3>3. QED
      BY <1>3, <3>1, <3>2 DEF RowLease, Exists, Absent
  <2>2. CASE t \notin Stale(now)
    BY <1>4, <2>2 DEF RecoverStale, RecoverRows, RowLease
  <2>3. QED
    BY <2>1, <2>2
<1>5. ASSUME ExpireDue(w), NEW t \in Task
      PROVE  RowLease(t)
  <2>1. CASE t \in Overdue(at[w])
    <3>1. /\ row'[t].status = "EXPIRED"
          /\ row'[t].version = row[t].version + 1
      BY <1>5, <2>1 DEF ExpireDue, ExpireRows, Written
    <3>2. row[t].status \in Sleeping
      BY <2>1 DEF Overdue
    <3>3. QED
      BY <1>3, <3>1, <3>2 DEF RowLease, Exists, Absent, Sleeping
  <2>2. CASE t \notin Overdue(at[w])
    BY <1>5, <2>2 DEF ExpireDue, ExpireRows, RowLease
  <2>3. QED
    BY <2>1, <2>2
<1>6. QED
  BY <1>1, <1>2, <1>4, <1>5, QuietStep

LEMMA LeaseCreate ==
    ASSUME LeaseInv, TypeOK', NEW t \in Task, NEW w \in Nat, NEW e \in Nat,
           CreateTask(t, w, e)
    PROVE  LeaseInv'
<1>1. claims' = claims /\ cancel' = cancel /\ Forward
  BY StandStill DEF CreateTask, workerVars
<1>2. ASSUME NEW u \in Task
      PROVE  RowLease(u)
  BY DEF CreateTask, CreateRow, RowLease, LeaseInv, TypeOK, StoreTypeOK
<1>3. QED
  BY <1>1, <1>2, QuietStep

\* Steps that leave every row alone.
LEMMA LeaseRest ==
    ASSUME LeaseInv, TypeOK',
           \/ \E w \in Worker : CallFails(w) \/ Crash(w)
           \/ \E t \in Task : CancelRead(t) \/ CancelReread(t) \/ CreateRaises(t)
           \/ TickClock
           \/ UNCHANGED vars
    PROVE  LeaseInv'
<1>1. /\ row' = row /\ now <= now' /\ claims' \subseteq claims
      /\ at' = at /\ outbox' = outbox
  BY DEF CallFails, Crash, CancelRead, CancelReread, CancelReads, CreateRaises,
         TickClock, Tick, workerVars, vars, LeaseInv, TypeOK, StoreTypeOK
<1>2. (\A t \in Task : RowLease(t)) /\ Forward
  <2>1. /\ now \in Nat /\ now' \in Nat
        /\ \A w \in Worker : at[w] \in Nat /\ at[w] <= now
    BY DEF LeaseInv, TypeOK, StoreTypeOK
  <2>2. QED
    BY <1>1, <2>1 DEF RowLease, Forward
<1>3. ASSUME NEW t \in Task, NEW s \in {"read", "again"}, Exists(t), CancelReads(t, s)
      PROVE  CancelOK(t)' /\ \A u \in Task \ {t} : cancel'[u] = cancel[u]
  <2>1. /\ cancel'[t].stage = AnswerFor(row[t].status, s)
        /\ cancel'[t].version = row[t].version
        /\ \A u \in Task \ {t} : cancel'[u] = cancel[u]
    BY <1>3 DEF CancelReads, LeaseInv, TypeOK
  <2>2. row[t].status \in Status /\ row[t].version \in Nat
    BY <1>3 DEF Exists, LeaseInv, TypeOK, StoreTypeOK, Row, AnyStatus
  <2>3. CancelOK(t)'
    BY <1>1, <1>3, <2>1, <2>2 DEF CancelOK, AnswerFor, Cancellable, Exists
  <2>4. QED
    BY <2>1, <2>3
<1>4. \A t \in Task : CancelRead(t) \/ CancelReread(t)
                        => \E s \in {"read", "again"} : Exists(t) /\ CancelReads(t, s)
  BY DEF CancelRead, CancelReread, LeaseInv, CancelOK
<1>5. \A t \in Task : cancel'[t] = cancel[t] \/ CancelOK(t)'
  <2>1. CASE \E t \in Task : CancelRead(t) \/ CancelReread(t)
    BY <1>3, <1>4, <2>1
  <2>2. CASE cancel' = cancel
    BY <2>2
  <2>3. QED
    BY <2>1, <2>2 DEF CallFails, Crash, CreateRaises, TickClock, vars
<1>6. QED
  BY <1>1, <1>2, <1>5, QuietStep

LEMMA LeaseInductive == LeaseInv /\ [Next]_vars => LeaseInv'
<1> SUFFICES ASSUME LeaseInv, [Next]_vars
             PROVE  LeaseInv'
  OBVIOUS
<1>1. TypeOK'
  BY TypeStep DEF LeaseInv
<1>2. ASSUME NEW w \in Worker, WorkerStep(w)
      PROVE  LeaseInv'
  BY <1>1, <1>2, LeaseSweep, LeaseClaimDue, LeaseSettle, LeaseEnqueue
     DEF WorkerStep, Settle, ClaimsOf
<1>3. ASSUME NEW w \in Worker, Failure(w)
      PROVE  LeaseInv'
  BY <1>1, <1>3, LeaseRest, LeaseSettle DEF Failure, ClaimsOf
<1>4. ASSUME NEW t \in Task, NEW w \in {now, now + 1},
             NEW e \in now + 1 .. Horizon, CreateTask(t, w, e)
      PROVE  LeaseInv'
  <2>1. w \in Nat /\ e \in Nat
    BY StoreAssumption DEF Horizon, LeaseInv, TypeOK, StoreTypeOK
  <2>2. QED
    BY <1>1, <1>4, <2>1, LeaseCreate
<1>5. ASSUME User
      PROVE  LeaseInv'
  BY <1>1, <1>4, <1>5, LeaseRest, LeaseCancel DEF User
<1>6. QED
  BY <1>1, <1>2, <1>3, <1>5, LeaseRest DEF Next

\* The lease invariant holds in every reachable state.
THEOREM LeaseInvariant == Spec => []LeaseInv
<1>1. Init => LeaseInv
  BY AbsentRowType DEF Init, StoreInit, LeaseInv, TypeOK, StoreTypeOK, Stage,
                       DistinctVersions, CancelOK
<1>2. QED
  BY <1>1, LeaseInductive, PTL DEF Spec

\* Two wakeups of one task overlap only when the earlier has outlived the
\* staleness limit.
THEOREM WakeupsAreLeased == Spec => []ClaimIsLease
<1>1. LeaseInv => ClaimIsLease
  BY DEF LeaseInv, ClaimOK, ClaimIsLease, TypeOK, StoreTypeOK, Claim, Row
<1>2. QED
  BY <1>1, LeaseInvariant, PTL

\* At most one worker can write a task's row back, and only while the row
\* is RUNNING for it.
THEOREM HolderIsAlone == Spec => []CurrentClaimIsExclusive
<1>1. LeaseInv => CurrentClaimIsExclusive
  BY DEF LeaseInv, ClaimOK, DistinctVersions, CurrentClaimIsExclusive, Current
<1>2. QED
  BY <1>1, LeaseInvariant, PTL

\* After an answered cancel the task stays cancelled and no wakeup still
\* running can write it.
THEOREM CancelIsFinal == Spec => []CancelledForGood
<1>1. LeaseInv => CancelledForGood
  BY DEF LeaseInv, ClaimOK, CancelOK, CancelledForGood, Current
<1>2. QED
  BY <1>1, LeaseInvariant, PTL

-----------------------------------------------------------------------------
(* The wakeup keys.  SlotIsFree is not inductive: it takes that the keys   *)
(* of a task are of wakeups before the one it waits for, that the one a    *)
(* RUNNING task works on is the latest, and that a handler goes back to    *)
(* sleep for a later one.                                                  *)

\* The keys that are taken against the row of their task.
SlotOK(t) ==
    \A k \in taken :
        k.task = t =>
            /\ Exists(t)
            /\ row[t].status \in Sleeping => k.slot < row[t].wakeupAt
            /\ row[t].status = "RUNNING" => k.slot <= row[t].wakeupAt

DoneOK(t) == row[t].status = "COMPLETED" => KeyOf(t) \in outbox

SlotInv == \A t \in Task : SlotOK(t) /\ DoneOK(t)

\* A task whose row a step leaves alone, with no key of its own added.
LEMMA SlotKept ==
    ASSUME SlotInv, NEW t \in Task, row'[t] = row[t], outbox \subseteq outbox',
           \A k \in taken' : k.task = t => k \in taken
    PROVE  SlotOK(t)' /\ DoneOK(t)'
BY DEF SlotInv, SlotOK, DoneOK, KeyOf, Key, Exists

\* A task that ends without being completed, or is created, waits for
\* nothing that is taken.
LEMMA SlotEnded ==
    ASSUME SlotInv, NEW t \in Task, Exists(t), taken' \subseteq taken,
           row'[t].status \in {"CANCELLED", "EXPIRED"}
    PROVE  SlotOK(t)' /\ DoneOK(t)'
BY DEF SlotInv, SlotOK, DoneOK, Exists, Absent, Sleeping

LEMMA SlotSweep ==
    ASSUME LeaseInv, SlotInv, NEW w \in Worker, RecoverStale(w) \/ ExpireDue(w)
    PROVE  SlotInv'
<1> SUFFICES ASSUME NEW t \in Task
             PROVE  SlotOK(t)' /\ DoneOK(t)'
  BY DEF SlotInv
<1>1. /\ row[t] \in Row /\ taken \subseteq WakeupKey /\ taken' \subseteq taken
      /\ outbox' = outbox
  BY DEF LeaseInv, TypeOK, StoreTypeOK, RecoverStale, RecoverRows, ExpireDue, ExpireRows
<1>2. CASE row'[t] = row[t]
  BY <1>1, <1>2, SlotKept
<1>3. CASE RecoverStale(w) /\ t \in Stale(now)
  <2>1. /\ row'[t].status = "WAITING" /\ row'[t].wakeupAt = row[t].wakeupAt
        /\ KeyOf(t) \notin taken'
        /\ row[t].status = "RUNNING"
    BY <1>3 DEF RecoverStale, RecoverRows, Stale, Written
  <2>2. ASSUME NEW k \in taken', k.task = t
        PROVE  k.slot < row[t].wakeupAt
    <3>1. k \in WakeupKey /\ k.slot <= row[t].wakeupAt
      BY <1>1, <2>1, <2>2 DEF SlotInv, SlotOK
    <3>2. k # KeyOf(t)
      BY <2>1
    <3>3. k.slot # row[t].wakeupAt
      BY <2>2, <3>1, <3>2 DEF KeyOf, Key, WakeupKey
    <3>4. QED
      BY <1>1, <3>1, <3>3 DEF WakeupKey, Row
  <2>3. QED
    BY <2>1, <2>2 DEF SlotOK, DoneOK, Exists, Absent, Sleeping
<1>4. CASE ExpireDue(w) /\ t \in Overdue(at[w])
  <2>1. row'[t].status = "EXPIRED" /\ Exists(t)
    BY <1>4 DEF ExpireDue, ExpireRows, Overdue, Written, Exists, Sleeping, Absent
  <2>2. QED
    BY <1>1, <2>1, SlotEnded
<1>5. QED
  BY <1>2, <1>3, <1>4 DEF RecoverStale, RecoverRows, ExpireDue, ExpireRows

LEMMA SlotClaim ==
    ASSUME LeaseInv, SlotInv, NEW w \in Worker, ClaimDue(w)
    PROVE  SlotInv'
<1> SUFFICES ASSUME NEW t \in Task
             PROVE  SlotOK(t)' /\ DoneOK(t)'
  BY DEF SlotInv
<1>1. PICK S \in SUBSET Due(at[w]) : ClaimRows(S)
  BY DEF ClaimDue
<1>2. /\ taken \subseteq WakeupKey /\ row[t].wakeupAt \in Nat /\ outbox' = outbox
  BY DEF LeaseInv, TypeOK, StoreTypeOK, Row, ClaimDue
<1>3. CASE t \in Free(S)
  <2>1. /\ row'[t].status = "RUNNING" /\ row'[t].wakeupAt = row[t].wakeupAt
        /\ row[t].status \in Sleeping
    BY <1>1, <1>3 DEF ClaimRows, Claimed, Written, Free, Due
  <2>2. ASSUME NEW k \in taken', k.task = t
        PROVE  k.slot <= row[t].wakeupAt
    <3>1. CASE k \in taken
      BY <1>2, <2>1, <2>2, <3>1 DEF SlotInv, SlotOK, WakeupKey
    <3>2. CASE k \notin taken
      BY <1>1, <1>2, <2>2, <3>2 DEF ClaimRows, KeyOf, Key
    <3>3. QED
      BY <3>1, <3>2
  <2>3. QED
    BY <2>1, <2>2 DEF SlotOK, DoneOK, Exists, Absent, Sleeping
<1>4. CASE t \notin Free(S)
  <2>1. row'[t] = row[t] /\ \A k \in taken' : k.task = t => k \in taken
    BY <1>1, <1>4 DEF ClaimRows, KeyOf, Key
  <2>2. QED
    BY <1>2, <2>1, SlotKept
<1>5. QED
  BY <1>3, <1>4

LEMMA SlotSettle ==
    ASSUME LeaseInv, SlotInv, NEW w \in Worker, NEW c \in ClaimsOf(w),
           GoBackToSleep(w, c) \/ Complete(w, c)
    PROVE  SlotInv'
<1> SUFFICES ASSUME NEW t \in Task
             PROVE  SlotOK(t)' /\ DoneOK(t)'
  BY DEF SlotInv
<1>1. /\ taken' = taken /\ outbox' = outbox /\ c \in claims /\ c.worker = w
      /\ taken \subseteq WakeupKey /\ row \in [Task -> Row]
  BY DEF GoBackToSleep, Complete, ClaimsOf, LeaseInv, TypeOK, StoreTypeOK
<1>2. c.task \in Task /\ ClaimOK(c) /\ c.wakeupAt \in Nat /\ at[w] \in Nat
  BY <1>1 DEF LeaseInv, TypeOK, Claim
<1>3. CASE row'[t] = row[t]
  BY <1>1, <1>3, SlotKept
<1>4. CASE row'[t] # row[t] /\ GoBackToSleep(w, c)
  <2>1. t = c.task /\ Current(t, c.version)
    BY <1>1, <1>2, <1>4 DEF GoBackToSleep, UpdateRow
  <2>2. row'[t].status = "WAITING" /\ row'[t].wakeupAt = at[w] + Cadence
    BY <1>1, <1>4, <2>1 DEF GoBackToSleep, UpdateRow, Written
  <2>3. row[t].status = "RUNNING" /\ row[t].wakeupAt <= at[w]
    BY <1>1, <1>2, <2>1 DEF ClaimOK, Current
  <2>4. ASSUME NEW k \in taken, k.task = t
        PROVE  k.slot < at[w] + Cadence
    <3>1. k.slot \in Nat /\ k.slot <= row[t].wakeupAt /\ row[t].wakeupAt \in Nat
      BY <1>1, <2>3, <2>4 DEF SlotInv, SlotOK, WakeupKey, Row
    <3>2. QED
      BY <1>2, <2>3, <3>1, SchedulerAssumption
  <2>5. QED
    BY <1>1, <2>2, <2>4 DEF SlotOK, DoneOK, Exists, Absent, Sleeping
<1>5. CASE row'[t] # row[t] /\ Complete(w, c)
  <2>1. t = c.task /\ Current(t, c.version)
    BY <1>1, <1>2, <1>5 DEF Complete, UpdateRow
  <2>2. row'[t].status = "COMPLETED" /\ row'[t].wakeupAt = c.wakeupAt
    BY <1>1, <1>5, <2>1 DEF Complete, UpdateRow, Written
  <2>3. Key(t, c.wakeupAt) \in outbox
    BY <1>2, <1>5, <2>1 DEF ClaimOK, Complete
  <2>4. QED
    BY <1>1, <2>2, <2>3 DEF SlotOK, DoneOK, KeyOf, Key, Exists, Absent, Sleeping
<1>6. QED
  BY <1>3, <1>4, <1>5

LEMMA SlotUser ==
    ASSUME LeaseInv, SlotInv, NEW t \in Task,
           \/ \E w, e : CreateTask(t, w, e)
           \/ CancelWrite(t) \/ CancelRetry(t) \/ CancelFails(t)
    PROVE  SlotInv'
<1> SUFFICES ASSUME NEW u \in Task
             PROVE  SlotOK(u)' /\ DoneOK(u)'
  BY DEF SlotInv
<1>1. taken' = taken /\ outbox' = outbox /\ row \in [Task -> Row]
  BY DEF CreateTask, CancelWrite, CancelRetry, CancelWrites, CancelFails,
         LeaseInv, TypeOK, StoreTypeOK
<1>2. CASE row'[u] = row[u]
  BY <1>1, <1>2, SlotKept
<1>3. ASSUME NEW w, NEW e, CreateTask(t, w, e), row'[u] # row[u]
      PROVE  SlotOK(u)' /\ DoneOK(u)'
  <2>1. ~Exists(u) /\ row'[u].status = "SCHEDULED"
    BY <1>1, <1>3 DEF CreateTask, CreateRow
  <2>2. \A k \in taken' : k.task # u
    BY <1>1, <2>1 DEF SlotInv, SlotOK
  <2>3. QED
    BY <2>1, <2>2 DEF SlotOK, DoneOK
<1>4. ASSUME CancelWrite(t) \/ CancelRetry(t) \/ CancelFails(t), row'[u] # row[u]
      PROVE  SlotOK(u)' /\ DoneOK(u)'
  <2>1. Exists(u) /\ row'[u].status = "CANCELLED"
    BY <1>1, <1>4 DEF CancelWrite, CancelRetry, CancelWrites, CancelFails,
                      UpdateRow, Current, Written
  <2>2. QED
    BY <1>1, <2>1, SlotEnded
<1>5. QED
  BY <1>2, <1>3, <1>4

LEMMA SlotInductive == LeaseInv /\ SlotInv /\ [Next]_vars => SlotInv'
<1> SUFFICES ASSUME LeaseInv, SlotInv, [Next]_vars
             PROVE  SlotInv'
  OBVIOUS
<1>1. ASSUME row' = row, taken' = taken, outbox \subseteq outbox'
      PROVE  SlotInv'
  BY <1>1, SlotKept DEF SlotInv
<1>2. ASSUME NEW w \in Worker, WorkerStep(w)
      PROVE  SlotInv'
  BY <1>1, <1>2, SlotSweep, SlotClaim, SlotSettle
     DEF WorkerStep, Settle, Enqueue, EnqueueNotification
<1>3. ASSUME NEW w \in Worker, Failure(w)
      PROVE  SlotInv'
  BY <1>1, <1>3 DEF Failure, CallFails, Crash, SettleFails
<1>4. ASSUME User
      PROVE  SlotInv'
  BY <1>1, <1>4, SlotUser DEF User, CreateRaises, CancelRead, CancelReread, CancelReads
<1>5. ASSUME TickClock \/ UNCHANGED vars
      PROVE  SlotInv'
  BY <1>1, <1>5 DEF TickClock, Tick, vars
<1>6. QED
  BY <1>2, <1>3, <1>4, <1>5 DEF Next

\* In every reachable state the keys that are taken belong to earlier wakeups
\* than the one a sleeping task waits for, and a completed row was notified.
THEOREM SlotInvariant == Spec => []SlotInv
<1>1. Init => SlotInv
  BY AbsentRowType DEF Init, StoreInit, SlotInv, SlotOK, DoneOK, Absent
<1>2. QED
  BY <1>1, SlotInductive, LeaseInvariant, PTL DEF Spec

\* No sleeping task waits for a wakeup whose key is taken: each of them is
\* claimed when its turn comes.
THEOREM NoSlotIsLost == Spec => []SlotIsFree
<1>1. LeaseInv /\ SlotInv => SlotIsFree
  <2> SUFFICES ASSUME LeaseInv, SlotInv, NEW t \in Task,
                      row[t].status \in Sleeping, KeyOf(t) \in taken
               PROVE  FALSE
    BY DEF SlotIsFree
  <2>1. KeyOf(t).task = t /\ KeyOf(t).slot = row[t].wakeupAt
    BY DEF KeyOf, Key
  <2>2. row[t].wakeupAt \in Nat /\ row[t].wakeupAt < row[t].wakeupAt
    BY <2>1 DEF SlotInv, SlotOK, LeaseInv, TypeOK, StoreTypeOK, Row
  <2>3. QED
    BY <2>2
<1>2. QED
  BY <1>1, LeaseInvariant, SlotInvariant, PTL

\* No completed task lacks the notification of the wakeup that completed it.
THEOREM CompletionsAreNotified == Spec => []CompletedIsNotified
<1>1. SlotInv => CompletedIsNotified
  BY DEF SlotInv, DoneOK, CompletedIsNotified
<1>2. QED
  BY <1>1, SlotInvariant, PTL

RemoteInv == store = "remote" => row = [t \in Task |-> AbsentRow] /\ claims = {}

\* On the remote store no task is ever stored, so no worker ever holds one:
\* the finding of task_create, for every instance.
THEOREM NothingIsStoredRemotely ==
    Spec => [](store = "remote" => \A t \in Task : ~Exists(t))
<1>1. Init => RemoteInv
  BY DEF Init, StoreInit, RemoteInv
<1>2. LeaseInv /\ RemoteInv /\ [Next]_vars => RemoteInv'
  <2> SUFFICES ASSUME LeaseInv, RemoteInv, [Next]_vars, store' = "remote"
               PROVE  RemoteInv'
    BY DEF RemoteInv
  <2>1. store = "remote"
    BY DEF Next, WorkerStep, RecoverStale, ExpireDue, ClaimDue, Settle,
           GoBackToSleep, Enqueue, Complete, Failure, CallFails, Crash, SettleFails,
           User, CreateTask, CreateRaises, CancelRead, CancelReread, CancelReads,
           CancelWrite, CancelRetry, CancelWrites, CancelFails, TickClock, vars
  <2>2. /\ \A t \in Task : row[t] = AbsentRow
        /\ claims = {}
        /\ row = [t \in Task |-> AbsentRow]
        /\ row = [t \in Task |-> row[t]]
    BY <2>1 DEF RemoteInv
  <2>3. \A t \in Task : ~Exists(t)
    BY <2>2, AbsentRowType DEF Exists
  <2>4. \A ts : Due(ts) = {} /\ Overdue(ts) = {} /\ Stale(ts) = {}
    BY <2>2, AbsentRowType DEF Due, Overdue, Stale, Sleeping, Absent
  <2>5. ASSUME NEW w \in Worker, WorkerStep(w) \/ Failure(w)
        PROVE  row' = row /\ claims' = {}
    <3>1. CASE RecoverStale(w) \/ ExpireDue(w)
      BY <2>2, <2>4, <3>1 DEF RecoverStale, RecoverRows, ExpireDue, ExpireRows
    <3>2. CASE ClaimDue(w)
      <4>1. PICK S \in SUBSET Due(at[w]) :
                /\ ClaimRows(S)
                /\ claims' = IF pc'[w] = "stopped" THEN claims
                                ELSE claims \cup NewClaims(w, Free(S))
        BY <3>2 DEF ClaimDue
      <4>2. Free(S) = {}
        BY <2>4 DEF Free
      <4>3. NewClaims(w, Free(S)) = {}
        BY <4>2 DEF NewClaims
      <4>4. QED
        BY <2>2, <4>1, <4>2, <4>3 DEF ClaimRows
    <3>3. CASE CallFails(w) \/ Crash(w)
      BY <2>2, <3>3 DEF CallFails, Crash
    <3>4. QED
      BY <2>2, <2>5, <3>1, <3>2, <3>3 DEF WorkerStep, Settle, Failure, ClaimsOf
  <2>6. ASSUME User \/ TickClock \/ UNCHANGED vars
        PROVE  row' = row /\ claims' = claims
    BY <2>1, <2>3, <2>6
       DEF User, CreateTask, CreateRaises, CancelRead, CancelReread, CancelReads,
           CancelWrite, CancelRetry, CancelWrites, CancelFails, UpdateRow, Current,
           TickClock, Tick, workerVars, vars
  <2>7. QED
    BY <2>2, <2>5, <2>6 DEF Next, RemoteInv
<1>3. RemoteInv => (store = "remote" => \A t \in Task : ~Exists(t))
  BY AbsentRowType DEF RemoteInv, Exists
<1>4. QED
  BY <1>1, <1>2, <1>3, LeaseInvariant, PTL DEF Spec

=============================================================================
