---------------------------- MODULE TaskStoreApi ----------------------------
(***************************************************************************)
(* The Java task store behind its internal HTTP API (TaskOutboxController) *)
(* and any number of callers.  A caller acts on the snapshot it last read, *)
(* however old, computes the next status with the state machine of         *)
(* infra/tasks.py and sends the snapshot's version along.  Replies may be  *)
(* lost and callers may crash.                                             *)
(*                                                                         *)
(* The callers here follow the contract of the completion endpoint: they   *)
(* store TRIGGERED first and never store COMPLETED themselves.  What the   *)
(* engine's own wakeup handler does instead is in TaskScheduler.           *)
(***************************************************************************)
EXTENDS TaskStore

CONSTANTS
    Client,      \* processes that call the API
    Cadence,     \* distance of the next wakeup a caller asks for
    MaxVersion   \* bound of the row versions

ASSUME ApiAssumption == Cadence \in Nat \ {0} /\ MaxVersion \in Nat

VARIABLE held    \* held[c][t]: the snapshot of t in the memory of c

vars == <<row, outbox, now, held>>

Init ==
    /\ StoreInit
    /\ held = [c \in Client |-> [t \in Task |-> AbsentRow]]

Holds(c, t) == held[c][t].status # Absent

\* The caller keeps the row the reply carried.
Learn(c, t) == held' = [held EXCEPT ![c][t] = row'[t]]

\* Only the bound: a row that has reached it is no longer written.
Writable(t) == row[t].version < MaxVersion

Create(c, t, w, e) ==
    /\ w < e /\ now < e
    /\ CreateRow(t, w, e)
    /\ Learn(c, t)
    /\ UNCHANGED <<outbox, now>>

Get(c, t) ==
    /\ Exists(t)
    /\ UNCHANGED storeVars
    /\ Learn(c, t)

\* A caller moves its snapshot along one edge and stores it.  A task that
\* goes back to sleep gets its next wakeup, every other keeps its slot.
Update(c, t, s) ==
    LET snapshot == held[c][t]
        w == IF s = "WAITING" THEN now + Cadence ELSE snapshot.wakeupAt
    IN  /\ Holds(c, t) /\ Writable(t)
        /\ s \in Transitions[snapshot.status] \ {"COMPLETED"}
        /\ UpdateRow(t, snapshot.version, s, w)
        /\ held' = [held EXCEPT ![c][t] =
                        IF Current(t, snapshot.version) THEN row'[t]
                                                        ELSE AbsentRow]
        /\ UNCHANGED <<outbox, now>>

Claim(c, S) ==
    /\ S # {} /\ Batch(S)
    /\ \A t \in S : Writable(t)
    /\ ClaimRows(S)
    /\ held' = [held EXCEPT ![c] = [t \in Task |-> IF t \in S THEN row'[t]
                                                             ELSE @[t]]]
    /\ UNCHANGED <<outbox, now>>

Expire ==
    /\ Overdue # {}
    /\ ExpireRows
    /\ UNCHANGED <<outbox, now, held>>

Recover ==
    /\ Stale # {}
    /\ \A t \in Stale : Writable(t)
    /\ RecoverRows
    /\ UNCHANGED <<outbox, now, held>>

\* The caller still holds its snapshot afterwards: a call whose reply was
\* lost is sent again with the same key and version.
Complete(c, t) ==
    /\ Holds(c, t)
    /\ CompleteAndEnqueue(t, held[c][t].version,
                          [task |-> t, slot |-> held[c][t].wakeupAt])
    /\ UNCHANGED <<now, held>>

Crash(c) ==
    /\ held' = [held EXCEPT ![c] = [t \in Task |-> AbsentRow]]
    /\ UNCHANGED storeVars

Next ==
    \/ \E c \in Client, t \in Task :
        \/ \E w, e \in 0..MaxTime : Create(c, t, w, e)
        \/ Get(c, t)
        \/ \E s \in Status : Update(c, t, s)
        \/ Complete(c, t)
    \/ \E c \in Client, S \in SUBSET Task : Claim(c, S)
    \/ \E c \in Client : Crash(c)
    \/ Expire
    \/ Recover
    \/ Tick /\ UNCHANGED held

Spec == Init /\ [][Next]_vars

-----------------------------------------------------------------------------

TypeOK ==
    /\ StoreTypeOK
    /\ held \in [Client -> [Task -> Row]]

\* A version names one content of the row: a snapshot whose version is the
\* stored one is the stored row, whoever wrote in between.  This is what
\* lets callers compute the next status locally and write it under a
\* version check alone (the UPDATE checks no status).
VersionNamesContent ==
    \A c \in Client, t \in Task :
        Holds(c, t) => /\ held[c][t].version <= row[t].version
                       /\ held[c][t].version = row[t].version
                              => held[c][t] = row[t]

\* A task is COMPLETED exactly when one notification event of it exists,
\* however often completion is retried and whatever raced with it.
OneNotificationPerCompletion ==
    \A t \in Task :
        LET events == {e \in outbox : e.task = t}
        IN  IF row[t].status = "COMPLETED"
            THEN \E e \in events : events = {e} /\ e.version = row[t].version
            ELSE events = {}

Lifecycle == INSTANCE TaskLifecycle WITH status <- StatusOf,
                                         notified <- Notified

\* Stale callers, lost replies and the bulk statements together never take
\* a task off its state machine, and no terminal status is ever left.
ImplementsLifecycle == Lifecycle!Spec

=============================================================================
