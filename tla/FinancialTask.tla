--------------------------- MODULE FinancialTask ---------------------------
(***************************************************************************)
(* The state machine of one price-observation task, as the domain object   *)
(* of the engine defines it (infra/tasks.py).  Every component that moves  *)
(* a task - the scheduler, the wakeup handler, the cancel endpoint and the *)
(* SQL of the Java store - is measured against this table.                 *)
(***************************************************************************)

Status == {"DRAFT", "SCHEDULED", "RUNNING", "WAITING", "TRIGGERED",
           "COMPLETED", "FAILED", "CANCELLED", "EXPIRED"}

Terminal == {"COMPLETED", "FAILED", "CANCELLED", "EXPIRED"}

\* The statuses a task may be woken or expired from.
Sleeping == {"SCHEDULED", "WAITING"}

Transitions ==
    [s \in Status |->
        CASE s = "DRAFT"     -> {"SCHEDULED", "CANCELLED"}
          [] s = "SCHEDULED" -> {"RUNNING", "CANCELLED", "EXPIRED"}
          [] s = "WAITING"   -> {"RUNNING", "CANCELLED", "EXPIRED"}
          [] s = "RUNNING"   -> {"WAITING", "TRIGGERED", "FAILED",
                                 "CANCELLED", "EXPIRED"}
          [] s = "TRIGGERED" -> {"COMPLETED", "FAILED"}
          [] OTHER           -> {}]

\* A task id with no row in the store.
Absent == "ABSENT"

AnyStatus == Status \cup {Absent}

\* The moves of a stored status: creation, or one edge of the table.  The
\* engine creates tasks as SCHEDULED; nothing stores a DRAFT.
LegalMove(s, r) ==
    \/ s = Absent /\ r = "SCHEDULED"
    \/ s \in Status /\ r \in Transitions[s]

=============================================================================
