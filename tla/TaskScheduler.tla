--------------------------- MODULE TaskScheduler ---------------------------
(***************************************************************************)
(* The engine side of price-observation tasks: the worker loops that       *)
(* recover, expire, claim and wake tasks, and the endpoints that create    *)
(* and cancel them.  Workers are the loops of different engine processes   *)
(* on one database.                                                        *)
(*                                                                         *)
(* The scheduler is written against the port TaskStore.  Two of its        *)
(* implementations are represented, one of them for a whole behaviour:     *)
(*   - "remote", what create_application assembles.  Its create and its    *)
(*     update hand datetime objects to the JSON encoder of httpx, so both  *)
(*     raise before a request is sent, always; and nothing else creates    *)
(*     tasks, so the sweeps find no row;                                   *)
(*   - "postgres", the engine's own tables (PostgresTaskStore).            *)
(*                                                                         *)
(* A store call is one step: it reaches the store or it does not, and its  *)
(* reply arrives or it does not.  The clock runs between any two steps, so *)
(* a wakeup - the agent run the handler awaits - may outlive the claim it  *)
(* works for.                                                              *)
(***************************************************************************)
EXTENDS PostgresTaskStore

CONSTANTS
    Worker,     \* engine processes running the worker loop
    Cadence,    \* cadence_seconds, in clock units
    MaxFaults   \* bound of the lost calls, lost replies and crashes

ASSUME SchedulerAssumption ==
    /\ Cadence \in Nat \ {0}
    /\ MaxFaults \in Nat

VARIABLES
    store,   \* the task store of this deployment
    pc,      \* where each worker loop is
    at,      \* the timestamp a worker's tick began with
    claims,  \* claimed tasks the workers have not settled yet
    cancel,  \* the cancel request of each task: its stage and snapshot
    raised, \* tasks whose creation was answered with a server error
    faults

workerVars == <<pc, at, claims>>
vars == <<row, taken, outbox, now, store, pc, at, claims, cancel, raised, faults>>

Store == {"remote", "postgres"}

\* What a worker remembers of a claim.  A handler that has enqueued the
\* notification and not yet completed the row is at "enqueued".
Claim == [worker : Worker, task : Task, version : Nat, wakeupAt : Nat,
          claimedAt : Nat, stage : {"woken", "enqueued"}]

ClaimsOf(w) == {c \in claims : c.worker = w}

Init ==
    /\ StoreInit
    /\ store \in Store
    /\ pc = [w \in Worker |-> "idle"]
    /\ at = [w \in Worker |-> 0]
    /\ claims = {}
    /\ cancel = [t \in Task |-> [stage |-> "none", version |-> 0]]
    /\ raised = {}
    /\ faults = 0

\* Bound of faults and of the expiry users ask for: what is claimed until
\* then can still become stale before the clock stops.
Horizon == MaxTime - StaleAfter

\* A fault is taken from the budget of the instance.
Fault == faults < MaxFaults /\ now <= Horizon /\ faults' = faults + 1

-----------------------------------------------------------------------------
(* One tick of a worker loop: recover_stale, expire_due, claim_due, then   *)
(* the claimed tasks one after the other.  Nothing in tick or in the loop  *)
(* around it catches an error of the first three calls, so an error there  *)
(* ends the loop for good while the process stays up.  The loop then gives *)
(* the notification worker its turn, which touches no task; a failing call *)
(* of that worker ends the loop as well.                                   *)

\* The reply arrives and the worker goes on, or it is lost and the loop ends.
Reply(w, next) ==
    \/ pc' = [pc EXCEPT ![w] = next] /\ UNCHANGED faults
    \/ pc' = [pc EXCEPT ![w] = "stopped"] /\ Fault

RecoverStale(w) ==
    /\ pc[w] = "idle"
    /\ at' = [at EXCEPT ![w] = now]
    /\ RecoverRows(now)
    /\ Reply(w, "expire")
    /\ UNCHANGED <<outbox, now, store, claims, cancel, raised>>

ExpireDue(w) ==
    /\ pc[w] = "expire"
    /\ ExpireRows(at[w])
    /\ Reply(w, "claim")
    /\ UNCHANGED <<outbox, now, store, at, claims, cancel, raised>>

\* The worker's memory of the rows a claim returned.
NewClaims(w, S) ==
    {[worker |-> w, task |-> t, version |-> row[t].version + 1,
      wakeupAt |-> row[t].wakeupAt, claimedAt |-> now,
      stage |-> "woken"] : t \in S}

ClaimDue(w) ==
    /\ pc[w] = "claim"
    /\ \E S \in SUBSET Due(at[w]) :
        /\ Batch(S, at[w])
        /\ ClaimRows(S)
        /\ Reply(w, IF Free(S) = {} THEN "idle" ELSE "handle")
        /\ claims' = IF pc'[w] = "stopped" THEN claims
                                           ELSE claims \cup NewClaims(w, Free(S))
    /\ UNCHANGED <<outbox, now, store, at, cancel, raised>>

\* The call never reached the store.
CallFails(w) ==
    /\ pc[w] \in {"idle", "expire", "claim"}
    /\ pc' = [pc EXCEPT ![w] = "stopped"]
    /\ Fault
    /\ UNCHANGED <<row, taken, outbox, now, store, at, claims, cancel, raised>>

\* Claims are handled in the order the store returned them.
NextClaim(w, c) ==
    /\ pc[w] = "handle"
    /\ c \in ClaimsOf(w)
    /\ \A d \in ClaimsOf(w) : c.wakeupAt <= d.wakeupAt
                              /\ (d.stage = "enqueued" => d = c)

\* The claim leaves the worker's list; after the last one the tick is over.
Dismiss(w, c) ==
    /\ claims' = claims \ {c}
    /\ pc' = IF ClaimsOf(w) = {c} THEN [pc EXCEPT ![w] = "idle"] ELSE pc

\* The run failed, the quote was unusable or in another currency, or the
\* condition is not met: four branches of the handler that store the same.
\* A conflict is raised out of the handler, and the tick swallows it.
GoBackToSleep(w, c) ==
    /\ NextClaim(w, c)
    /\ c.stage = "woken"
    /\ UpdateRow(c.task, c.version, "WAITING", at[w] + Cadence)
    /\ Dismiss(w, c)
    /\ UNCHANGED <<taken, outbox, now, store, at, cancel, raised, faults>>

\* Mutant: the handler goes on to complete the row when enqueue has failed.
EnqueueSwallowing(w, c) ==
    /\ NextClaim(w, c)
    /\ c.stage = "woken"
    /\ \/ EnqueueNotification(Key(c.task, c.wakeupAt)) /\ UNCHANGED faults
       \/ UNCHANGED outbox /\ Fault
    /\ claims' = (claims \ {c}) \cup {[c EXCEPT !.stage = "enqueued"]}
    /\ UNCHANGED <<row, taken, now, store, pc, at, cancel, raised>>

\* The condition is met.  This store has no call that completes and
\* notifies in one, so the notification is enqueued first ...
Enqueue(w, c) ==
    /\ NextClaim(w, c)
    /\ c.stage = "woken"
    /\ EnqueueNotification(Key(c.task, c.wakeupAt))
    /\ claims' = (claims \ {c}) \cup {[c EXCEPT !.stage = "enqueued"]}
    /\ UNCHANGED <<row, taken, now, store, pc, at, cancel, raised, faults>>

\* ... and the row is completed under the version claimed: the handler
\* moved its copy through TRIGGERED, the row goes from RUNNING to COMPLETED.
Complete(w, c) ==
    /\ NextClaim(w, c)
    /\ c.stage = "enqueued"
    /\ UpdateRow(c.task, c.version, "COMPLETED", c.wakeupAt)
    /\ Dismiss(w, c)
    /\ UNCHANGED <<taken, outbox, now, store, at, cancel, raised, faults>>

\* The handler's call fails before the store sees it; the tick goes on.
SettleFails(w, c) ==
    /\ NextClaim(w, c)
    /\ Dismiss(w, c)
    /\ Fault
    /\ UNCHANGED <<row, taken, outbox, now, store, at, cancel, raised>>

\* The process dies and is started again: its claims are forgotten, and a
\* loop that had ended runs again.
Crash(w) ==
    /\ pc' = [pc EXCEPT ![w] = "idle"]
    /\ claims' = claims \ ClaimsOf(w)
    /\ Fault
    /\ UNCHANGED <<row, taken, outbox, now, store, at, cancel, raised>>

-----------------------------------------------------------------------------
(* The user's endpoints.                                                   *)

\* A valid creation the user has confirmed.
CreateTask(t, w, e) ==
    /\ store = "postgres"
    /\ ~Exists(t)
    /\ now < e /\ w < e
    /\ CreateRow(t, w, e)
    /\ UNCHANGED <<taken, outbox, now, store, workerVars, cancel, raised, faults>>

\* The same on the remote store: its payload cannot be encoded, the client
\* raises, and the endpoint answers 500.
CreateRaises(t) ==
    /\ store = "remote"
    /\ raised' = raised \cup {t}
    /\ UNCHANGED <<row, taken, outbox, now, store, workerVars, cancel, faults>>

Stage == {"none", "read", "lost", "again", "ok", "refused", "error"}

\* The answer for a status that cannot be cancelled now, or the stage to go
\* on from.
AnswerFor(s, go) ==
    IF s = "CANCELLED" THEN "ok"
    ELSE IF s \in Terminal \cup {"RUNNING", "TRIGGERED"} THEN "refused"
    ELSE go

CancelReads(t, go) ==
    /\ cancel' = [cancel EXCEPT ![t] =
            [stage |-> AnswerFor(row[t].status, go), version |-> row[t].version]]
    /\ UNCHANGED <<row, taken, outbox, now, store, workerVars, raised, faults>>

\* A user asks again only after an answer that was not "ok".
CancelRead(t) ==
    /\ Exists(t)
    /\ cancel[t].stage \in {"none", "refused", "error"}
    /\ CancelReads(t, "read")

\* The update of a cancel: "ok", or what a conflict leads to.
CancelWrites(t, conflict) ==
    /\ UpdateRow(t, cancel[t].version, "CANCELLED", row[t].wakeupAt)
    /\ cancel' = [cancel EXCEPT ![t].stage =
            IF Current(t, cancel[t].version) THEN "ok" ELSE conflict]
    /\ UNCHANGED <<taken, outbox, now, store, workerVars, raised, faults>>

CancelWrite(t) == cancel[t].stage = "read" /\ CancelWrites(t, "lost")

\* After a lost race the task is read again and the update tried once more.
CancelReread(t) == cancel[t].stage = "lost" /\ CancelReads(t, "again")

CancelRetry(t) == cancel[t].stage = "again" /\ CancelWrites(t, "refused")

\* A call of the request is lost on its way, or the reply of an update is.
CancelFails(t) ==
    /\ cancel[t].stage \in {"read", "lost", "again"}
    /\ \/ /\ cancel[t].stage # "lost"
          /\ UpdateRow(t, cancel[t].version, "CANCELLED", row[t].wakeupAt)
       \/ UNCHANGED row
    /\ cancel' = [cancel EXCEPT ![t].stage = "error"]
    /\ Fault
    /\ UNCHANGED <<taken, outbox, now, store, workerVars, raised>>

-----------------------------------------------------------------------------

TickClock == Tick /\ UNCHANGED <<store, workerVars, cancel, raised, faults>>

Settle(w) ==
    \E c \in ClaimsOf(w) : GoBackToSleep(w, c) \/ Enqueue(w, c) \/ Complete(w, c)

WorkerStep(w) == RecoverStale(w) \/ ExpireDue(w) \/ ClaimDue(w) \/ Settle(w)

Failure(w) ==
    \/ CallFails(w)
    \/ Crash(w)
    \/ \E c \in ClaimsOf(w) : SettleFails(w, c)

User ==
    \E t \in Task :
        \/ \E w \in {now, now + 1}, e \in now + 1 .. Horizon :
                CreateTask(t, w, e)
        \/ CreateRaises(t)
        \/ CancelRead(t)
        \/ CancelWrite(t)
        \/ CancelReread(t)
        \/ CancelRetry(t)
        \/ CancelFails(t)

Next ==
    \/ \E w \in Worker : WorkerStep(w) \/ Failure(w)
    \/ User
    \/ TickClock

Spec == Init /\ [][Next]_vars

\* Time passes, and a loop that has not ended keeps ticking: the agent run
\* is bounded and a store call returns or raises, so each await ends.
\* Nothing obliges users to act, and nothing restarts an ended loop.
FairSpec ==
    /\ Spec
    /\ WF_vars(TickClock)
    /\ \A w \in Worker : WF_vars(WorkerStep(w))

-----------------------------------------------------------------------------

TypeOK ==
    /\ StoreTypeOK
    /\ store \in Store
    /\ pc \in [Worker -> {"idle", "expire", "claim", "handle", "stopped"}]
    /\ at \in [Worker -> Nat]
    /\ claims \subseteq Claim
    /\ cancel \in [Task -> [stage : Stage, version : Nat]]
    /\ raised \subseteq Task
    /\ faults \in Nat

\* A claim is a lease: while two workers hold the same task, all but the
\* latest of their claims are older than the staleness limit.  So no two
\* wakeups of one task are in flight unless the earlier has overrun.
ClaimIsLease ==
    \A c, d \in claims :
        /\ c.task = d.task
        /\ c.version < d.version
        => c.claimedAt + StaleAfter <= now

\* A worker that can still write its claim back holds it alone, and the row
\* is RUNNING for it: not cancelled, not expired, not another worker's.
CurrentClaimIsExclusive ==
    \A c \in claims :
        Current(c.task, c.version) =>
            /\ row[c.task].status = "RUNNING"
            /\ \A d \in claims : d.task = c.task /\ d.version = c.version
                                    => d = c

\* An answered cancel is final: the task is cancelled, stays so, and no
\* worker can write it any more.
CancelledForGood ==
    \A t \in Task :
        cancel[t].stage = "ok" =>
            /\ row[t].status = "CANCELLED"
            /\ \A c \in claims : c.task = t => ~Current(t, c.version)

\* The wakeup a sleeping task waits for is free.  claim_due passes over a
\* row whose key is taken, at every tick: such a task would never be woken
\* again.  Handing back, going back to sleep and a claim whose reply was
\* lost must all leave the key of the next wakeup free.
SlotIsFree ==
    \A t \in Task : row[t].status \in Sleeping => KeyOf(t) \notin taken

\* A completed task has the notification of the wakeup that completed it,
\* although the handler writes the two in separate transactions and another
\* worker may have taken the wakeup over in between.
CompletedIsNotified ==
    \A t \in Task : row[t].status = "COMPLETED" => KeyOf(t) \in outbox

\* Every task comes to an end - at the latest its expiry is noticed - as
\* long as one worker loop is left running.
EveryTaskEnds ==
    \A t \in Task :
        Exists(t) ~> \/ row[t].status \in Terminal
                     \/ \A w \in Worker : pc[w] = "stopped"

\* What the documents say of the creation endpoint: a valid request creates
\* the task.
CreatesAreStored == raised = {}

=============================================================================
