--------------------------- MODULE TaskLifecycle ---------------------------
(***************************************************************************)
(* What the task subsystem promises its users, with no versions, clocks,   *)
(* workers or requests: a task only moves along the edges of its state     *)
(* machine, and a task is completed in the same instant in which its one   *)
(* notification is recorded.                                               *)
(***************************************************************************)
EXTENDS FinancialTask

CONSTANT Task

VARIABLES status, notified

lifecycleVars == <<status, notified>>

Init ==
    /\ status = [t \in Task |-> Absent]
    /\ notified = {}

\* Any number of tasks move at once (a claim or an expiry is one SQL
\* statement over many rows), but none of them to COMPLETED.
Advance ==
    /\ status' \in [Task -> AnyStatus]
    /\ \A t \in Task : \/ status'[t] = status[t]
                       \/ /\ LegalMove(status[t], status'[t])
                          /\ status'[t] # "COMPLETED"
    /\ UNCHANGED notified

Complete(t) ==
    /\ status[t] = "TRIGGERED"
    /\ t \notin notified
    /\ status' = [status EXCEPT ![t] = "COMPLETED"]
    /\ notified' = notified \cup {t}

Next == Advance \/ \E t \in Task : Complete(t)

Spec == Init /\ [][Next]_lifecycleVars

=============================================================================
