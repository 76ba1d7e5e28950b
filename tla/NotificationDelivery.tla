------------------------ MODULE NotificationDelivery ------------------------
(***************************************************************************)
(* What the outbox pipeline promises: a command accepted for delivery is   *)
(* carried out at most once, and nothing is carried out that was not       *)
(* accepted.  Relays, brokers, retries and crashes do not appear here.     *)
(***************************************************************************)
EXTENDS Naturals

CONSTANT Event

VARIABLES accepted, effects

deliveryVars == <<accepted, effects>>

Init ==
    /\ accepted = {}
    /\ effects = [e \in Event |-> 0]

Accept(e) ==
    /\ e \notin accepted
    /\ accepted' = accepted \cup {e}
    /\ UNCHANGED effects

CarryOut(e) ==
    /\ e \in accepted
    /\ effects[e] = 0
    /\ effects' = [effects EXCEPT ![e] = 1]
    /\ UNCHANGED accepted

Next == \E e \in Event : Accept(e) \/ CarryOut(e)

Spec == Init /\ [][Next]_deliveryVars

=============================================================================
