------------------------- MODULE TaskStoreApiProofs -------------------------
(***************************************************************************)
(* Proofs about TaskStoreApi for every set of tasks and callers and every  *)
(* value of the bounds.                                                    *)
(***************************************************************************)
EXTENDS TaskStoreApi, TLAPS

LEMMA StatusFacts ==
    /\ Sleeping \subseteq Status
    /\ Status \subseteq AnyStatus
    /\ Absent \notin Status
    /\ Absent \in AnyStatus
BY DEF Sleeping, Status, AnyStatus, Absent

LEMMA AbsentRowType == AbsentRow \in Row /\ AbsentRow.status = Absent
BY StatusFacts DEF AbsentRow, Row

-----------------------------------------------------------------------------
(* Each transaction of the store, seen from one row: the row is untouched, *)
(* is inserted, or is written with the next version and a legal status.    *)

RowStep(t) ==
    \/ row'[t] = row[t]
    \/ /\ row[t].status = Absent
       /\ row'[t] \in Row
       /\ row'[t].status = "SCHEDULED"
       /\ row'[t].version = 0
    \/ /\ row[t].status # Absent
       /\ row'[t] \in Row
       /\ row'[t].status # Absent
       /\ row'[t].version = row[t].version + 1

LEMMA CreateStep ==
    ASSUME StoreTypeOK, NEW t \in Task, NEW w \in Nat, NEW e \in Nat,
           CreateRow(t, w, e)
    PROVE  /\ row' \in [Task -> Row]
           /\ \A u \in Task : RowStep(u)
BY StatusFacts DEF StoreTypeOK, CreateRow, Exists, RowStep, Row, Status, Absent

LEMMA UpdateStep ==
    ASSUME StoreTypeOK, NEW t \in Task, NEW v, NEW s \in Status, NEW w \in Nat,
           UpdateRow(t, v, s, w)
    PROVE  /\ row' \in [Task -> Row]
           /\ \A u \in Task : RowStep(u)
BY StatusFacts DEF StoreTypeOK, UpdateRow, Current, Exists, RowStep, Row, Written

LEMMA ClaimStep ==
    ASSUME StoreTypeOK, NEW S, Batch(S), ClaimRows(S)
    PROVE  /\ row' \in [Task -> Row]
           /\ \A u \in Task : RowStep(u)
BY StatusFacts DEF StoreTypeOK, ClaimRows, Claimed, Batch, Due, RowStep, Row, Written,
                   Status, Sleeping

LEMMA ExpireStep ==
    ASSUME StoreTypeOK, ExpireRows
    PROVE  /\ row' \in [Task -> Row]
           /\ \A u \in Task : RowStep(u)
BY StatusFacts DEF StoreTypeOK, ExpireRows, Overdue, RowStep, Row, Written, Status, Sleeping

LEMMA RecoverStep ==
    ASSUME StoreTypeOK, RecoverRows
    PROVE  /\ row' \in [Task -> Row]
           /\ \A u \in Task : RowStep(u)
BY StatusFacts DEF StoreTypeOK, RecoverRows, Stale, RowStep, Row, Written, Status

LEMMA CompleteStep ==
    ASSUME StoreTypeOK, NEW t \in Task, NEW v \in Nat, NEW k \in WakeupKey,
           CompleteAndEnqueue(t, v, k)
    PROVE  /\ row' \in [Task -> Row]
           /\ outbox' \subseteq Event
           /\ \A u \in Task : RowStep(u)
BY StatusFacts DEF StoreTypeOK, CompleteAndEnqueue, Completable, Current, Exists,
                   RowStep, Row, Written, Status, Event

-----------------------------------------------------------------------------
(* One step of the whole system, seen from one row and one snapshot.       *)

\* A snapshot is kept, dropped, or replaced by the row of the reply.
HeldStep(c, t) == held'[c][t] \in {held[c][t], AbsentRow, row'[t]}

StepOK ==
    /\ row' \in [Task -> Row]
    /\ outbox' \subseteq Event
    /\ now' \in Nat
    /\ held' \in [Client -> [Task -> Row]]
    /\ \A t \in Task : RowStep(t)
    /\ \A c \in Client, t \in Task : HeldStep(c, t)

\* Every action of the specification is such a step.
LEMMA NextIsStep ==
    ASSUME TypeOK, [Next]_vars
    PROVE  StepOK
<1> USE DEF TypeOK
<1>1. ASSUME NEW c \in Client, NEW t \in Task, NEW w \in 0..MaxTime,
             NEW e \in 0..MaxTime, Create(c, t, w, e)
      PROVE  StepOK
  <2>1. row' \in [Task -> Row] /\ \A u \in Task : RowStep(u)
    BY <1>1, CreateStep, StoreAssumption DEF Create
  <2>2. QED
    BY <1>1, <2>1 DEF Create, Learn, StepOK, HeldStep, StoreTypeOK
<1>2. ASSUME NEW c \in Client, NEW t \in Task, Get(c, t)
      PROVE  StepOK
  BY <1>2 DEF Get, Learn, StepOK, HeldStep, RowStep, storeVars, StoreTypeOK
<1>3. ASSUME NEW c \in Client, NEW t \in Task, NEW s \in Status, Update(c, t, s)
      PROVE  StepOK
  <2> DEFINE w == IF s = "WAITING" THEN now + Cadence ELSE held[c][t].wakeupAt
  <2>1. w \in Nat
    BY ApiAssumption DEF StoreTypeOK, Row
  <2>2. UpdateRow(t, held[c][t].version, s, w)
    BY <1>3 DEF Update
  <2>3. row' \in [Task -> Row] /\ \A u \in Task : RowStep(u)
    BY <2>1, <2>2, UpdateStep
  <2>4. QED
    BY <1>3, <2>3, AbsentRowType DEF Update, StepOK, HeldStep, StoreTypeOK
<1>4. ASSUME NEW c \in Client, NEW t \in Task, Complete(c, t)
      PROVE  StepOK
  <2>1. held[c][t].version \in Nat
    BY DEF Row
  <2>2. [task |-> t, slot |-> held[c][t].wakeupAt] \in WakeupKey
    BY DEF Row, WakeupKey
  <2>3. /\ row' \in [Task -> Row]
        /\ outbox' \subseteq Event
        /\ \A u \in Task : RowStep(u)
    BY <1>4, <2>1, <2>2, CompleteStep DEF Complete
  <2>4. QED
    BY <1>4, <2>3 DEF Complete, StepOK, HeldStep, StoreTypeOK
<1>5. ASSUME NEW c \in Client, NEW S \in SUBSET Task, Claim(c, S)
      PROVE  StepOK
  <2>1. row' \in [Task -> Row] /\ \A u \in Task : RowStep(u)
    BY <1>5, ClaimStep DEF Claim
  <2>2. QED
    BY <1>5, <2>1 DEF Claim, StepOK, HeldStep, StoreTypeOK
<1>6. ASSUME NEW c \in Client, Crash(c)
      PROVE  StepOK
  BY <1>6, AbsentRowType DEF Crash, StepOK, HeldStep, RowStep, storeVars, StoreTypeOK
<1>7. ASSUME Expire
      PROVE  StepOK
  BY <1>7, ExpireStep DEF Expire, StepOK, HeldStep, StoreTypeOK
<1>8. ASSUME Recover
      PROVE  StepOK
  BY <1>8, RecoverStep DEF Recover, StepOK, HeldStep, StoreTypeOK
<1>9. ASSUME Tick, UNCHANGED held
      PROVE  StepOK
  BY <1>9 DEF Tick, StepOK, HeldStep, RowStep, StoreTypeOK
<1>10. ASSUME UNCHANGED vars
       PROVE  StepOK
  BY <1>10 DEF vars, StepOK, HeldStep, RowStep, StoreTypeOK
<1>11. QED
  BY <1>1, <1>2, <1>3, <1>4, <1>5, <1>6, <1>7, <1>8, <1>9, <1>10 DEF Next

\* The type invariant of the store and of its callers.
THEOREM TypeCorrect == Spec => []TypeOK
<1>1. Init => TypeOK
  BY AbsentRowType DEF Init, StoreInit, TypeOK, StoreTypeOK
<1>2. TypeOK /\ [Next]_vars => TypeOK'
  BY NextIsStep DEF StepOK, TypeOK, StoreTypeOK
<1>3. QED
  BY <1>1, <1>2, PTL DEF Spec

-----------------------------------------------------------------------------
(* Snapshots.  The invariant alone is not inductive: a snapshot must also  *)
(* belong to a row that exists, or creation could meet an older snapshot.  *)

HeldRowsExist == \A c \in Client, t \in Task : Holds(c, t) => Exists(t)

SnapshotInv == TypeOK /\ HeldRowsExist /\ VersionNamesContent

LEMMA SnapshotStep == SnapshotInv /\ [Next]_vars => SnapshotInv'
<1> SUFFICES ASSUME SnapshotInv, [Next]_vars
             PROVE  SnapshotInv'
  OBVIOUS
<1>1. StepOK
  BY NextIsStep DEF SnapshotInv
<1>2. TypeOK'
  BY <1>1 DEF StepOK, TypeOK, StoreTypeOK
<1>3. ASSUME NEW c \in Client, NEW t \in Task, Holds(c, t)'
      PROVE  /\ Exists(t)'
             /\ held'[c][t].version <= row'[t].version
             /\ held'[c][t].version = row'[t].version => held'[c][t] = row'[t]
  <2>1. RowStep(t) /\ HeldStep(c, t)
    BY <1>1 DEF StepOK
  <2>2. row[t] \in Row /\ row'[t] \in Row /\ held[c][t] \in Row
    BY <1>1 DEF SnapshotInv, TypeOK, StoreTypeOK, StepOK
  <2>3. CASE held'[c][t] = row'[t]
    BY <1>3, <2>2, <2>3 DEF Holds, Exists, Row
  <2>4. CASE held'[c][t] = AbsentRow
    BY <1>3, <2>4, AbsentRowType DEF Holds
  <2>5. CASE held'[c][t] = held[c][t]
    <3>1. Holds(c, t)
      BY <1>3, <2>5 DEF Holds
    <3>2. /\ Exists(t)
          /\ held[c][t].version <= row[t].version
          /\ held[c][t].version = row[t].version => held[c][t] = row[t]
      BY <3>1 DEF SnapshotInv, HeldRowsExist, VersionNamesContent
    <3>3. CASE row'[t] = row[t]
      BY <2>5, <3>2, <3>3 DEF Exists
    <3>4. CASE row'[t] # row[t]
      <4>1. row'[t].status # Absent /\ row'[t].version = row[t].version + 1
        BY <2>1, <3>2, <3>4 DEF RowStep, Exists
      <4>2. held[c][t].version \in Nat /\ row[t].version \in Nat
        BY <2>2 DEF Row
      <4>3. QED
        BY <2>5, <3>2, <4>1, <4>2 DEF Exists
    <3>5. QED
      BY <3>3, <3>4
  <2>6. QED
    BY <2>1, <2>3, <2>4, <2>5 DEF HeldStep
<1>4. QED
  BY <1>2, <1>3 DEF SnapshotInv, HeldRowsExist, VersionNamesContent

LEMMA SnapshotInvariant == Spec => []SnapshotInv
<1>1. Init => SnapshotInv
  BY AbsentRowType DEF Init, StoreInit, SnapshotInv, HeldRowsExist,
                       VersionNamesContent, Holds, TypeOK, StoreTypeOK
<1>2. QED
  BY <1>1, SnapshotStep, PTL DEF Spec

\* A snapshot that passes the version check is the stored row.
THEOREM SnapshotsAreCurrent == Spec => []VersionNamesContent
<1>1. SnapshotInv => VersionNamesContent
  BY DEF SnapshotInv
<1>2. QED
  BY <1>1, SnapshotInvariant, PTL

-----------------------------------------------------------------------------
(* Legal moves.  A step either moves rows along the table without          *)
(* completing any, or completes one TRIGGERED row with its event.          *)

PlainStep ==
    /\ outbox' = outbox
    /\ \A t \in Task : \/ row'[t] = row[t]
                       \/ /\ LegalMove(row[t].status, row'[t].status)
                          /\ row'[t].status # "COMPLETED"

CompletionStep(t) ==
    /\ row[t].status = "TRIGGERED"
    /\ row'[t].status = "COMPLETED"
    /\ \A u \in Task \ {t} : row'[u] = row[u]
    /\ \E e : /\ outbox' = outbox \cup {e}
             /\ e.task = t
             /\ e.version = row'[t].version

LEMMA LegalStep ==
    ASSUME SnapshotInv, [Next]_vars
    PROVE  PlainStep \/ \E t \in Task : CompletionStep(t)
<1> USE DEF SnapshotInv, TypeOK, StoreTypeOK
<1>1. ASSUME NEW c \in Client, NEW t \in Task, NEW w \in 0..MaxTime,
             NEW e \in 0..MaxTime, Create(c, t, w, e)
      PROVE  PlainStep
  BY <1>1 DEF Create, CreateRow, Exists, PlainStep, LegalMove, Absent
<1>2. ASSUME NEW c \in Client, NEW t \in Task, Get(c, t)
      PROVE  PlainStep
  BY <1>2 DEF Get, storeVars, PlainStep
<1>3. ASSUME NEW c \in Client, NEW t \in Task, NEW s \in Status, Update(c, t, s)
      PROVE  PlainStep
  <2>1. CASE ~Current(t, held[c][t].version)
    BY <1>3, <2>1 DEF Update, UpdateRow, PlainStep
  <2>2. CASE Current(t, held[c][t].version)
    <3>1. held[c][t] = row[t] /\ row[t].status # Absent
      BY <1>3, <2>2 DEF Update, VersionNamesContent, Current, Exists
    <3>2. row[t].status \in Status
      BY <3>1 DEF Row, AnyStatus
    <3>3. s \in Transitions[row[t].status] /\ s # "COMPLETED"
      BY <1>3, <3>1 DEF Update
    <3>4. row'[t].status = s /\ \A u \in Task \ {t} : row'[u] = row[u]
      BY <1>3, <2>2 DEF Update, UpdateRow, Written
    <3>5. QED
      BY <1>3, <3>2, <3>3, <3>4 DEF Update, PlainStep, LegalMove
  <2>3. QED
    BY <2>1, <2>2
<1>4. ASSUME NEW c \in Client, NEW t \in Task, Complete(c, t)
      PROVE  PlainStep \/ CompletionStep(t)
  <2> DEFINE v == held[c][t].version
             key == [task |-> t, slot |-> held[c][t].wakeupAt]
             e == [key |-> key, task |-> t, version |-> v + 1]
  <2>1. CASE ~Completable(t, v, key)
    BY <1>4, <2>1 DEF Complete, CompleteAndEnqueue, PlainStep
  <2>2. CASE Completable(t, v, key)
    <3>1. row[t].status = "TRIGGERED" /\ row[t].version = v
      BY <2>2 DEF Completable, Current
    <3>2. /\ row' = [row EXCEPT ![t] = Written(@, "COMPLETED", @.wakeupAt)]
          /\ outbox' = outbox \cup {e}
      BY <1>4, <2>2 DEF Complete, CompleteAndEnqueue
    <3>3. row'[t].status = "COMPLETED" /\ row'[t].version = v + 1
      BY <3>1, <3>2 DEF Written
    <3>4. e.task = t /\ e.version = v + 1
      OBVIOUS
    <3>5. \A u \in Task \ {t} : row'[u] = row[u]
      BY <3>2
    <3> HIDE DEF e, v, key
    <3>6. QED
      BY <3>1, <3>2, <3>3, <3>4, <3>5 DEF CompletionStep
  <2>3. QED
    BY <2>1, <2>2
<1>5. ASSUME NEW c \in Client, NEW S \in SUBSET Task, Claim(c, S)
      PROVE  PlainStep
  BY <1>5 DEF Claim, Batch, Due, ClaimRows, Claimed, Written, PlainStep,
              LegalMove, Transitions, Sleeping, Status
<1>6. ASSUME NEW c \in Client, Crash(c)
      PROVE  PlainStep
  BY <1>6 DEF Crash, storeVars, PlainStep
<1>7. ASSUME Expire
      PROVE  PlainStep
  BY <1>7 DEF Expire, ExpireRows, Overdue, Written, PlainStep,
              LegalMove, Transitions, Sleeping, Status
<1>8. ASSUME Recover
      PROVE  PlainStep
  BY <1>8 DEF Recover, RecoverRows, Stale, Written, PlainStep,
              LegalMove, Transitions, Status
<1>9. ASSUME Tick
      PROVE  PlainStep
  BY <1>9 DEF Tick, PlainStep
<1>10. ASSUME UNCHANGED vars
       PROVE  PlainStep
  BY <1>10 DEF vars, PlainStep
<1>11. QED
  BY <1>1, <1>2, <1>3, <1>4, <1>5, <1>6, <1>7, <1>8, <1>9, <1>10 DEF Next

LEMMA CompletionInductive ==
    OneNotificationPerCompletion /\ SnapshotInv /\ [Next]_vars
        => OneNotificationPerCompletion'
<1> SUFFICES ASSUME OneNotificationPerCompletion, SnapshotInv, [Next]_vars
             PROVE  OneNotificationPerCompletion'
  OBVIOUS
<1>1. CASE PlainStep
  <2> SUFFICES ASSUME NEW t \in Task
               PROVE  LET events == {e \in outbox' : e.task = t}
                      IN  IF row'[t].status = "COMPLETED"
                          THEN \E e \in events : events = {e}
                                                 /\ e.version = row'[t].version
                          ELSE events = {}
    BY DEF OneNotificationPerCompletion
  <2>1. CASE row'[t] = row[t]
    BY <1>1, <2>1 DEF PlainStep, OneNotificationPerCompletion
  <2>2. CASE row'[t] # row[t]
    <3>1. row[t].status # "COMPLETED" /\ row'[t].status # "COMPLETED"
      BY <1>1, <2>2 DEF PlainStep, LegalMove, Transitions, Status, Absent
    <3>2. QED
      BY <1>1, <3>1 DEF PlainStep, OneNotificationPerCompletion
  <2>3. QED
    BY <2>1, <2>2
<1>2. ASSUME NEW t \in Task, CompletionStep(t)
      PROVE  OneNotificationPerCompletion'
  <2>1. PICK e : /\ outbox' = outbox \cup {e}
                 /\ e.task = t
                 /\ e.version = row'[t].version
    BY <1>2 DEF CompletionStep
  <2>2. {f \in outbox : f.task = t} = {}
    BY <1>2 DEF CompletionStep, OneNotificationPerCompletion
  <2>3. {f \in outbox' : f.task = t} = {e}
    BY <2>1, <2>2
  <2>4. ASSUME NEW u \in Task \ {t}
        PROVE  /\ row'[u] = row[u]
               /\ {f \in outbox' : f.task = u} = {f \in outbox : f.task = u}
    BY <1>2, <2>1, <2>4 DEF CompletionStep
  <2>5. ASSUME NEW u \in Task
        PROVE  LET events == {f \in outbox' : f.task = u}
               IN  IF row'[u].status = "COMPLETED"
                   THEN \E f \in events : events = {f}
                                          /\ f.version = row'[u].version
                   ELSE events = {}
    <3>1. CASE u = t
      BY <1>2, <2>1, <2>3, <3>1 DEF CompletionStep
    <3>2. CASE u # t
      BY <2>4, <3>2 DEF OneNotificationPerCompletion
    <3>3. QED
      BY <3>1, <3>2
  <2>6. QED
    BY <2>5 DEF OneNotificationPerCompletion
<1>3. QED
  BY <1>1, <1>2, LegalStep

\* However calls are retried, lost or raced, a task is completed exactly
\* when its single notification event exists.
THEOREM CompletionIsAtomic == Spec => []OneNotificationPerCompletion
<1>1. Init => OneNotificationPerCompletion
  BY AbsentRowType DEF Init, StoreInit, OneNotificationPerCompletion, Absent
<1>2. QED
  BY <1>1, CompletionInductive, SnapshotInvariant, PTL DEF Spec

-----------------------------------------------------------------------------

\* The abstract specification uses the same state machine.
LEMMA SameStateMachine ==
    /\ Lifecycle!Absent = Absent
    /\ Lifecycle!AnyStatus = AnyStatus
    /\ \A s, r : LegalMove(s, r) => Lifecycle!LegalMove(s, r)
BY DEF Lifecycle!Absent, Absent, Lifecycle!AnyStatus, AnyStatus,
       Lifecycle!Status, Status, Lifecycle!LegalMove, LegalMove,
       Lifecycle!Transitions, Transitions

\* The store, driven by any callers, implements the task lifecycle.
THEOREM Refinement == Spec => ImplementsLifecycle
<1>1. Init => Lifecycle!Init
  BY AbsentRowType, SameStateMachine DEF Init, StoreInit, Lifecycle!Init, StatusOf, Notified
<1>2. /\ SnapshotInv /\ SnapshotInv'
      /\ OneNotificationPerCompletion /\ OneNotificationPerCompletion'
      /\ [Next]_vars
      => [Lifecycle!Next]_Lifecycle!lifecycleVars
  <2> SUFFICES ASSUME SnapshotInv, SnapshotInv', [Next]_vars,
                      OneNotificationPerCompletion
               PROVE  [Lifecycle!Next]_Lifecycle!lifecycleVars
    OBVIOUS
  <2>1. StatusOf' \in [Task -> AnyStatus]
    BY DEF SnapshotInv, TypeOK, StoreTypeOK, StatusOf, Row
  <2>2. CASE PlainStep
    <3>1. UNCHANGED Notified
      BY <2>2 DEF PlainStep, Notified
    <3>2. \A t \in Task : \/ StatusOf'[t] = StatusOf[t]
                         \/ /\ LegalMove(StatusOf[t], StatusOf'[t])
                            /\ StatusOf'[t] # "COMPLETED"
      BY <2>2 DEF PlainStep, StatusOf
    <3>3. Lifecycle!Advance
      BY <2>1, <3>1, <3>2, SameStateMachine DEF Lifecycle!Advance
    <3>4. QED
      BY <3>3 DEF Lifecycle!Next
  <2>3. ASSUME NEW t \in Task, CompletionStep(t)
        PROVE  Lifecycle!Complete(t)
    <3>1. StatusOf[t] = "TRIGGERED"
      BY <2>3 DEF CompletionStep, StatusOf
    <3>2. StatusOf' = [StatusOf EXCEPT ![t] = "COMPLETED"]
      BY <2>3 DEF CompletionStep, StatusOf
    <3>3. t \notin Notified
      BY <2>3 DEF CompletionStep, OneNotificationPerCompletion, Notified
    <3>4. Notified' = Notified \cup {t}
      BY <2>3 DEF CompletionStep, Notified
    <3>5. QED
      BY <3>1, <3>2, <3>3, <3>4 DEF Lifecycle!Complete
  <2>4. QED
    BY <2>2, <2>3, LegalStep DEF Lifecycle!Next
<1>3. QED
  BY <1>1, <1>2, SnapshotInvariant, CompletionIsAtomic, PTL
     DEF Spec, ImplementsLifecycle, Lifecycle!Spec

=============================================================================
