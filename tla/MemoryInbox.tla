---------------------------- MODULE MemoryInbox ----------------------------
(***************************************************************************)
(* The consumer of memory candidates (sentinel-memory): processes with one *)
(* consuming thread each, the table memory.consumer_inbox they share, and  *)
(* the Mem0 store they write.  Three calls make one consumption - claim,   *)
(* add, complete - and no transaction spans them: every call may fail, the *)
(* process may die between them, and time passes.                          *)
(*                                                                         *)
(* The broker hands a message out again when it is not acknowledged, and   *)
(* sometimes when it is.  Messages of candidates the policy refuses are    *)
(* acknowledged without any state change and are not represented.          *)
(***************************************************************************)
EXTENDS Naturals, FiniteSets

CONSTANTS
    EventId,     \* candidates the outbox has published
    Consumer,    \* memory-service processes
    StaleAfter,  \* the five minutes of the claim's WHERE clause
    MaxTime,     \* bound of the clock
    MaxFaults    \* bound of failing calls, crashes and duplicates

ASSUME MemoryAssumption ==
    /\ {MaxTime, MaxFaults} \subseteq Nat
    /\ StaleAfter \in Nat \ {0}

VARIABLES
    row,       \* memory.consumer_inbox
    memories,  \* memories Mem0 holds of each candidate
    topic,     \* copies of each message waiting for delivery
    work,      \* work[c]: the consumption in progress, or Free
    now,
    faults

vars == <<row, memories, topic, work, now, faults>>

InboxRow == [status : {"ABSENT", "PROCESSING", "PROCESSED", "FAILED"}, updatedAt : Nat]

Free == [stage |-> "free"]

Work == {Free} \cup [stage : {"add", "complete", "fail"}, id : EventId, claimedAt : Nat]

Busy(c) == work[c].stage # "free"

Init ==
    /\ row = [e \in EventId |-> [status |-> "ABSENT", updatedAt |-> 0]]
    /\ memories = [e \in EventId |-> 0]
    /\ topic = [e \in EventId |-> 1]
    /\ work = [c \in Consumer |-> Free]
    /\ now = 0
    /\ faults = 0

Fault == faults < MaxFaults /\ faults' = faults + 1

-----------------------------------------------------------------------------

\* mutant: a row in progress may be claimed whatever its age
ClaimableAnyAge(e) ==
    \/ row[e].status \in {"ABSENT", "FAILED", "PROCESSING"}
    \/ row[e].updatedAt + StaleAfter <= now

\* "ON CONFLICT DO UPDATE ... WHERE status = 'FAILED' OR updated_at <= ..."
Claimable(e) ==
    \/ row[e].status \in {"ABSENT", "FAILED"}
    \/ row[e].updatedAt + StaleAfter <= now

Write(e, s) == row' = [row EXCEPT ![e] = [status |-> s, updatedAt |-> now]]

\* The end of a consumption: SUCCESS acknowledges the copy, FAILURE - and a
\* process that dies - leaves it with the broker.
Acknowledge(c) == work' = [work EXCEPT ![c] = Free] /\ UNCHANGED topic

\* mutant: the listener answers SUCCESS after an exception
RejectQuietly(c) == work' = [work EXCEPT ![c] = Free] /\ UNCHANGED topic

Reject(c) ==
    /\ work' = [work EXCEPT ![c] = Free]
    /\ topic' = [topic EXCEPT ![work[c].id] = @ + 1]

\* mutant: a copy the inbox does not let in is answered FAILURE
DeliverRefusing(c, e) ==
    /\ ~Busy(c)
    /\ topic[e] > 0
    /\ Claimable(e)
    /\ topic' = [topic EXCEPT ![e] = @ - 1]
    /\ Write(e, "PROCESSING")
    /\ work' = [work EXCEPT ![c] = [stage |-> "add", id |-> e, claimedAt |-> now]]
    /\ UNCHANGED <<memories, now, faults>>

\* A copy is delivered.  If the claim finds the row taken, consume returns
\* False and the listener answers SUCCESS.
Deliver(c, e) ==
    /\ ~Busy(c)
    /\ topic[e] > 0
    /\ topic' = [topic EXCEPT ![e] = @ - 1]
    /\ IF Claimable(e)
       THEN /\ Write(e, "PROCESSING")
            /\ work' = [work EXCEPT ![c] = [stage |-> "add", id |-> e, claimedAt |-> now]]
       ELSE UNCHANGED <<row, work>>
    /\ UNCHANGED <<memories, now, faults>>

\* The claim raises, before or after it was committed: FAILURE.
ClaimFails(c, e) ==
    /\ ~Busy(c)
    /\ topic[e] > 0
    /\ \/ Claimable(e) /\ Write(e, "PROCESSING")
       \/ UNCHANGED row
    /\ Fault
    /\ UNCHANGED <<memories, topic, work, now>>

\* mutant: an exception of Mem0 is swallowed
AddSwallowing(c) ==
    /\ work[c].stage = "add"
    /\ LET e == work[c].id
       IN  \/ memories' = [memories EXCEPT ![e] = @ + 1] /\ UNCHANGED faults
           \/ UNCHANGED memories /\ Fault
    /\ work' = [work EXCEPT ![c].stage = "complete"]
    /\ UNCHANGED <<row, topic, now>>

\* Mem0's add returns, or raises - before or after it stored the memory.
Add(c) ==
    /\ work[c].stage = "add"
    /\ LET e == work[c].id
           stored == [memories EXCEPT ![e] = @ + 1]
       IN  \/ /\ memories' = stored
              /\ work' = [work EXCEPT ![c].stage = "complete"]
              /\ UNCHANGED faults
           \/ /\ memories' \in {memories, stored}
              /\ work' = [work EXCEPT ![c].stage = "fail"]
              /\ Fault
    /\ UNCHANGED <<row, topic, now>>

\* The update names the event only: it is not tied to the claim.
Complete(c) ==
    /\ work[c].stage = "complete"
    /\ \/ Write(work[c].id, "PROCESSED") /\ Acknowledge(c) /\ UNCHANGED faults
       \/ /\ Write(work[c].id, "PROCESSED") \/ UNCHANGED row
          /\ work' = [work EXCEPT ![c].stage = "fail"]
          /\ Fault
          /\ UNCHANGED topic
    /\ UNCHANGED <<memories, now>>

\* The failure is recorded, or that fails too; either way FAILURE.
Fail(c) ==
    /\ work[c].stage = "fail"
    /\ \/ Write(work[c].id, "FAILED") /\ UNCHANGED faults
       \/ UNCHANGED row /\ Fault
    /\ Reject(c)
    /\ UNCHANGED <<memories, now>>

Crash(c) ==
    /\ Busy(c)
    /\ Reject(c)
    /\ Fault
    /\ UNCHANGED <<row, memories, now>>

\* The broker hands a message out once more: the relay sent it twice, or an
\* acknowledgement was lost, or a consumption took longer than the broker
\* waits.
Duplicate(e) ==
    /\ row[e].status # "ABSENT"
    /\ topic' = [topic EXCEPT ![e] = @ + 1]
    /\ Fault
    /\ UNCHANGED <<row, memories, work, now>>

Tick ==
    /\ now < MaxTime
    /\ now' = now + 1
    /\ UNCHANGED <<row, memories, topic, work, faults>>

ConsumerStep(c) ==
    \/ \E e \in EventId : Deliver(c, e)
    \/ Add(c) \/ Complete(c) \/ Fail(c)

Next ==
    \/ \E c \in Consumer :
        \/ ConsumerStep(c)
        \/ Crash(c)
        \/ \E e \in EventId : ClaimFails(c, e)
    \/ \E e \in EventId : Duplicate(e)
    \/ Tick

Spec == Init /\ [][Next]_vars

\* The broker keeps delivering and every call ends.
FairSpec == Spec /\ \A c \in Consumer : WF_vars(ConsumerStep(c))

-----------------------------------------------------------------------------

TypeOK ==
    /\ row \in [EventId -> InboxRow]
    /\ memories \in [EventId -> Nat]
    /\ topic \in [EventId -> Nat]
    /\ work \in [Consumer -> Work]
    /\ now \in Nat /\ faults \in Nat

\* A candidate marked PROCESSED has a memory, whatever failed on the way
\* (MemoryApplication.consume: complete only after add returned).
ProcessedIsRemembered ==
    \A e \in EventId : row[e].status = "PROCESSED" => memories[e] > 0

\* A recorded failure is retried: the broker still holds a copy of every
\* candidate whose row says FAILED (fail is followed by FAILURE, and a copy
\* delivered while the row is FAILED is claimed, never acknowledged).
FailureIsRedelivered ==
    \A e \in EventId : row[e].status = "FAILED" => topic[e] > 0

\* A second consumption of a candidate starts only when a failure of it was
\* recorded, or when the claim of every consumption still under way is older
\* than the five minutes (the WHERE clause of claim, against updates that
\* name the event but not the claim).
SecondConsumerWaits ==
    [][\A c, d \in Consumer :
         Busy(d) /\ ~Busy(c) /\ (Busy(c) /\ work[c].id = work[d].id)'
         => \/ row[work[d].id].status = "FAILED"
            \/ work[d].claimedAt + StaleAfter <= now]_vars

\* Every message is settled in the end: no copy is redelivered for ever and
\* no consumption stays open, once calls stop failing.
EverythingSettles ==
    <>[](/\ \A e \in EventId : topic[e] = 0
         /\ \A c \in Consumer : ~Busy(c))

\* What the consumer's docstring says of its acknowledgements (ACK only after
\* the inbox processing succeeded): a message is gone only once processed.
AckAfterProcessing ==
    \A e \in EventId :
        topic[e] = 0 /\ (\A c \in Consumer : Busy(c) => work[c].id # e)
            => row[e].status = "PROCESSED"

\* What the documentation says of redelivery (consumers are idempotent): a
\* candidate whose processing was recorded, and that no consumption is still
\* working on, is not taken up again.
ProcessedIsFinal ==
    [][\A e \in EventId :
         /\ row[e].status = "PROCESSED"
         /\ \A c \in Consumer : Busy(c) => work[c].id # e
         => row'[e].status = "PROCESSED"]_vars

=============================================================================
