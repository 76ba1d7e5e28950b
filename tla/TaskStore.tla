----------------------------- MODULE TaskStore -----------------------------
(***************************************************************************)
(* The Java task store: table runtime.financial_task and the part of       *)
(* runtime.outbox_event a task completion writes.  One operator per        *)
(* transaction of FinancialTaskStoreService and TaskOutboxService; each is *)
(* a total function of the database, and its reply is read off the same    *)
(* guard by the caller.  PostgreSQL runs each of them atomically (a single *)
(* UPDATE, or rows taken FOR UPDATE), so a transaction is one step.        *)
(*                                                                         *)
(* A row belongs to one user and every call of another user is answered    *)
(* 404 without touching it, so owners are not represented.                 *)
(***************************************************************************)
EXTENDS Naturals, FiniteSets, FinancialTask

CONSTANTS
    Task,        \* task ids: a hash of the user and the idempotency key
    MaxTime,     \* bound of the clock
    StaleAfter,  \* the five minutes after which a RUNNING row is stale
    BatchLimit   \* rows one claim may take

ASSUME StoreAssumption ==
    /\ MaxTime \in Nat
    /\ StaleAfter \in Nat \ {0}
    /\ BatchLimit \in Nat \ {0}

VARIABLES
    row,     \* financial_task, one row per task id
    outbox,  \* outbox_event rows written by a completion
    now      \* the clock of the database and of the services

storeVars == <<row, outbox, now>>

Row == [status    : AnyStatus,
        version   : Nat,
        wakeupAt  : Nat,
        expiresAt : Nat,
        updatedAt : Nat]

AbsentRow == [status |-> Absent, version |-> 0, wakeupAt |-> 0,
              expiresAt |-> 0, updatedAt |-> 0]

\* "task-notification:<task>:<next_wakeup_at of the claim>"
WakeupKey == [task : Task, slot : Nat]

Event == [key : WakeupKey, task : Task, version : Nat]

StoreInit ==
    /\ row = [t \in Task |-> AbsentRow]
    /\ outbox = {}
    /\ now = 0

Exists(t) == row[t].status # Absent

\* The condition "WHERE task_id = ? AND version = ?".
Current(t, expected) == Exists(t) /\ row[t].version = expected

\* A row after a write: its version counted up, its update time now.
Written(r, s, w) == [status |-> s, version |-> r.version + 1, wakeupAt |-> w,
                     expiresAt |-> r.expiresAt, updatedAt |-> now]

-----------------------------------------------------------------------------

\* INSERT unless the id exists; an existing row is returned as it is.
CreateRow(t, w, e) ==
    row' = IF Exists(t)
           THEN row
           ELSE [row EXCEPT ![t] = [status |-> "SCHEDULED", version |-> 0,
                                    wakeupAt |-> w, expiresAt |-> e,
                                    updatedAt |-> now]]

\* The optimistic-lock update.  It trusts the caller for the new status.
UpdateRow(t, expected, s, w) ==
    row' = IF Current(t, expected)
           THEN [row EXCEPT ![t] = Written(@, s, w)]
           ELSE row

Due == {t \in Task : /\ row[t].status \in Sleeping
                     /\ row[t].wakeupAt <= now
                     /\ row[t].expiresAt > now}

\* The earliest due rows, at most BatchLimit of them.
Batch(S) ==
    /\ S \subseteq Due
    /\ \/ S = Due /\ Cardinality(S) <= BatchLimit
       \/ Cardinality(S) = BatchLimit
    /\ \A t \in S, u \in Due \ S : row[t].wakeupAt <= row[u].wakeupAt

\* Mutant: a claim forgets to count the version up.
ClaimedUncounted(t) == [row[t] EXCEPT !.status = "RUNNING", !.updatedAt = now]

Claimed(t) == Written(row[t], "RUNNING", row[t].wakeupAt)

ClaimRows(S) ==
    row' = [t \in Task |-> IF t \in S THEN Claimed(t) ELSE row[t]]

Overdue == {t \in Task : /\ row[t].status \in Sleeping
                         /\ row[t].expiresAt <= now}

ExpireRows ==
    row' = [t \in Task |-> IF t \in Overdue
                           THEN Written(row[t], "EXPIRED", row[t].wakeupAt)
                           ELSE row[t]]

Stale == {t \in Task : /\ row[t].status = "RUNNING"
                       /\ row[t].updatedAt + StaleAfter <= now}

\* The row is handed back for the current instant: a new wakeup slot.
RecoverRows ==
    row' = [t \in Task |-> IF t \in Stale
                           THEN Written(row[t], "WAITING", now)
                           ELSE row[t]]

\* A completion with this key was committed before: the call is answered
\* with the event of that commit, and nothing is written.
Replayed(key) == \E e \in outbox : e.key = key

\* Mutant: the status is not checked.
CompletableAnyStatus(t, expected, key) ==
    /\ ~Replayed(key)
    /\ Current(t, expected)

Completable(t, expected, key) ==
    /\ ~Replayed(key)
    /\ Current(t, expected)
    /\ row[t].status = "TRIGGERED"

\* Mutant: the event is inserted before the row is checked, and stays.
EnqueueFirst(t, expected, key) ==
    /\ outbox' = IF Replayed(key)
                 THEN outbox
                 ELSE outbox \cup {[key |-> key, task |-> t, version |-> expected + 1]}
    /\ row' = IF Completable(t, expected, key)
              THEN [row EXCEPT ![t] = Written(@, "COMPLETED", @.wakeupAt)]
              ELSE row

\* One transaction: the row becomes COMPLETED and the event is inserted.
CompleteAndEnqueue(t, expected, key) ==
    IF Completable(t, expected, key)
    THEN /\ row' = [row EXCEPT ![t] = Written(@, "COMPLETED", @.wakeupAt)]
         /\ outbox' = outbox \cup
                {[key |-> key, task |-> t, version |-> expected + 1]}
    ELSE UNCHANGED <<row, outbox>>

Tick ==
    /\ now < MaxTime
    /\ now' = now + 1
    /\ UNCHANGED <<row, outbox>>

-----------------------------------------------------------------------------

StoreTypeOK ==
    /\ row \in [Task -> Row]
    /\ outbox \subseteq Event
    /\ now \in Nat

\* The view of the store the abstract specification speaks about.
StatusOf == [t \in Task |-> row[t].status]
Notified == {t \in Task : \E e \in outbox : e.task = t}

=============================================================================
