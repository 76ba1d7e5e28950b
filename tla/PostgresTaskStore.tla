------------------------- MODULE PostgresTaskStore -------------------------
(***************************************************************************)
(* The task store and the notification outbox of the engine on its own     *)
(* PostgreSQL tables (PostgresTaskStore and PostgresNotificationOutbox in  *)
(* infra/tasks.py): the rows of bdlh_runtime_financial_task, the wakeup    *)
(* keys that are taken (bdlh_runtime_task_wakeup) and the keys of the      *)
(* notifications.  One operator per call; a call is one transaction.       *)
(*                                                                         *)
(* The sweeps are given the timestamp of the caller's tick, which may be   *)
(* older than the clock; updated_at is always the clock of the database.   *)
(* A row belongs to one user and is invisible to the others, so owners are *)
(* not represented.                                                        *)
(***************************************************************************)
EXTENDS Naturals, FiniteSets, FinancialTask

CONSTANTS
    Task,        \* task ids: a hash of the user and the idempotency key
    MaxTime,     \* bound of the clock
    StaleAfter,  \* the five minutes after which a RUNNING row is stale
    BatchLimit   \* rows one claim may take

ASSUME StoreAssumption ==
    /\ MaxTime \in Nat
    /\ StaleAfter \in Nat \ {0}
    /\ BatchLimit \in Nat \ {0}

VARIABLES
    row,     \* bdlh_runtime_financial_task, one row per task id
    taken,   \* bdlh_runtime_task_wakeup: the wakeup keys that are taken
    outbox,  \* the idempotency keys of bdlh_runtime_notification_outbox
    now      \* the clock of the database and of the engine processes

Row == [status    : AnyStatus,
        version   : Nat,
        wakeupAt  : Nat,
        expiresAt : Nat,
        updatedAt : Nat]

AbsentRow == [status |-> Absent, version |-> 0, wakeupAt |-> 0,
              expiresAt |-> 0, updatedAt |-> 0]

\* "<task>:<next_wakeup_at>"; a notification is keyed by the wakeup it
\* comes from.
WakeupKey == [task : Task, slot : Nat]

Key(t, w) == [task |-> t, slot |-> w]

\* The key of the wakeup a row waits for or works on.
KeyOf(t) == Key(t, row[t].wakeupAt)

StoreInit ==
    /\ row = [t \in Task |-> AbsentRow]
    /\ taken = {}
    /\ outbox = {}
    /\ now = 0

Exists(t) == row[t].status # Absent

\* The condition "WHERE task_id = ? AND user_id = ? AND version = ?".
Current(t, expected) == Exists(t) /\ row[t].version = expected

\* A row after a write: its version counted up, its update time now.
Written(r, s, w) == [status |-> s, version |-> r.version + 1, wakeupAt |-> w,
                     expiresAt |-> r.expiresAt, updatedAt |-> now]

-----------------------------------------------------------------------------

\* ON CONFLICT DO NOTHING: an existing row is returned as it is.
CreateRow(t, w, e) ==
    row' = IF Exists(t)
           THEN row
           ELSE [row EXCEPT ![t] = [status |-> "SCHEDULED", version |-> 0,
                                    wakeupAt |-> w, expiresAt |-> e,
                                    updatedAt |-> now]]

\* Mutant: the WHERE clause forgets the version.
UpdateRowUnchecked(t, expected, s, w) ==
    row' = IF Exists(t) THEN [row EXCEPT ![t] = Written(@, s, w)] ELSE row

\* The optimistic-lock update; otherwise TASK_VERSION_CONFLICT is raised.
\* It trusts the caller for the status, and keeps no table of wakeups.
UpdateRow(t, expected, s, w) ==
    row' = IF Current(t, expected)
           THEN [row EXCEPT ![t] = Written(@, s, w)]
           ELSE row

Due(ts) == {t \in Task : /\ row[t].status \in Sleeping
                         /\ row[t].wakeupAt <= ts
                         /\ row[t].expiresAt > ts}

\* The earliest due rows, at most BatchLimit of them.
Batch(S, ts) ==
    /\ S \subseteq Due(ts)
    /\ \/ S = Due(ts) /\ Cardinality(S) <= BatchLimit
       \/ Cardinality(S) = BatchLimit
    /\ \A t \in S, u \in Due(ts) \ S : row[t].wakeupAt <= row[u].wakeupAt

\* The rows of a batch that are really claimed: a row whose wakeup key is
\* taken already is passed over and stays as it is.
Free(S) == {t \in S : KeyOf(t) \notin taken}

Claimed(t) == Written(row[t], "RUNNING", row[t].wakeupAt)

ClaimRows(S) ==
    /\ row' = [t \in Task |-> IF t \in Free(S) THEN Claimed(t) ELSE row[t]]
    /\ taken' = taken \cup {KeyOf(t) : t \in Free(S)}

\* Mutant: expiry looks at tasks that were never woken only.
OverdueUnwoken(ts) == {t \in Task : /\ row[t].status = "SCHEDULED"
                                    /\ row[t].expiresAt <= ts}

Overdue(ts) == {t \in Task : /\ row[t].status \in Sleeping
                             /\ row[t].expiresAt <= ts}

ExpireRows(ts) ==
    /\ row' = [t \in Task |-> IF t \in Overdue(ts)
                              THEN Written(row[t], "EXPIRED", row[t].wakeupAt)
                              ELSE row[t]]
    /\ taken' = taken \ {KeyOf(t) : t \in Overdue(ts)}

\* Mutant: recovery takes every RUNNING row, however fresh.
StaleAnyAge(ts) == {t \in Task : row[t].status = "RUNNING"}

Stale(ts) == {t \in Task : /\ row[t].status = "RUNNING"
                           /\ row[t].updatedAt + StaleAfter <= ts}

\* Mutant: recovery forgets to count the version up.
RecoverRowsUncounted(ts) ==
    /\ row' = [t \in Task |-> IF t \in Stale(ts)
                              THEN [row[t] EXCEPT !.status = "WAITING", !.updatedAt = now]
                              ELSE row[t]]
    /\ taken' = taken \ {KeyOf(t) : t \in Stale(ts)}

\* Mutant: recovery leaves the key of the wakeup it takes back.
RecoverRowsKeepingKeys(ts) ==
    /\ row' = [t \in Task |-> IF t \in Stale(ts)
                              THEN Written(row[t], "WAITING", row[t].wakeupAt)
                              ELSE row[t]]
    /\ UNCHANGED taken

\* The row waits for the same wakeup again, and its key is given back.
RecoverRows(ts) ==
    /\ row' = [t \in Task |-> IF t \in Stale(ts)
                              THEN Written(row[t], "WAITING", row[t].wakeupAt)
                              ELSE row[t]]
    /\ taken' = taken \ {KeyOf(t) : t \in Stale(ts)}

\* A notification whose key exists is not inserted again.
EnqueueNotification(key) == outbox' = outbox \cup {key}

Tick ==
    /\ now < MaxTime
    /\ now' = now + 1
    /\ UNCHANGED <<row, taken, outbox>>

-----------------------------------------------------------------------------

StoreTypeOK ==
    /\ row \in [Task -> Row]
    /\ taken \subseteq WakeupKey
    /\ outbox \subseteq WakeupKey
    /\ now \in Nat

=============================================================================
