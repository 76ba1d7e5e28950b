---------------------------- MODULE WatchEventsMC ----------------------------
(* Two processes: both poll, both run the cron source, or one of them runs  *)
(* it and the other serves demo events and wakeups.  Two price rules on two *)
(* symbols and a daily one; days of two moments, the second without a       *)
(* session, and no holiday before the clock stops.                          *)
EXTENDS WatchEvents

CONSTANTS w1, w2, up, down, brief, s1, s2

MCRoles == {w1 :> a @@ w2 :> a : a \in {"poller", "cron"}} \cup {w1 :> "cron" @@ w2 :> "api"}
MCConfig == up :> [symbol |-> s1, direction |-> "up", limit |-> 1]
            @@ down :> [symbol |-> s2, direction |-> "down", limit |-> 0]
MCPrice == {0, 1}
MCOpen == {0}
MCHoliday == {2}
=============================================================================
