---------------------------- MODULE WatchEvents ----------------------------
(***************************************************************************)
(* The watch ring: pollers that compare quotes with price rules, a source  *)
(* of daily briefings, the injection of demo events, and the wakeup that   *)
(* turns an event into a notification.  Rules and events are tables of a   *)
(* database with a unique key of events; every process runs its own        *)
(* sources, and each call to a table is a step of its own.                 *)
(***************************************************************************)
EXTENDS Naturals, FiniteSets, Sequences, SequencesExt

CONSTANTS
    Process,
    Roles,            \* the roles of the processes of an instance: poller, cron, api
    PriceRule, DailyRule,
    Config,           \* price rules: symbol, direction, limit
    Symbol, Price,
    MaxTime,          \* bound of the clock
    DayLength, Open,  \* the moments of a day; those of the trading session
    Holiday,          \* days without trading
    Base, MaxWait,    \* pause between ticks, and its limit
    MaxFaults,        \* bound of failing calls
    MaxDemo,          \* bound of injected events
    Pausable,         \* rules the user pauses and takes up
    Run,              \* wakeup runs
    None

ASSUME WatchAssumption ==
    /\ Config \in [PriceRule -> [symbol : Symbol, direction : {"up", "down"}, limit : Price]]
    /\ Price \subseteq Nat /\ DayLength \in Nat \ {0} /\ Open \subseteq 0 .. DayLength - 1
    /\ Base \in Nat \ {0} /\ MaxWait \in Nat /\ MaxWait >= Base
    /\ MaxTime \in Nat /\ MaxFaults \in Nat /\ MaxDemo \in Nat
    /\ Roles \subseteq [Process -> {"poller", "cron", "api"}]
    /\ PriceRule \cap DailyRule = {} /\ IsFiniteSet(PriceRule) /\ IsFiniteSet(DailyRule)
    /\ None \notin PriceRule \cup DailyRule /\ None \notin Nat
    /\ Pausable \subseteq PriceRule \cup DailyRule

VARIABLES
    role,       \* what each process does
    now,
    paused,     \* rules the user paused
    fired,      \* last_fired_at of each rule
    events,     \* the event table
    source,     \* each process's tick
    notes,      \* the notifications of wakeup runs
    faults

vars == <<role, now, paused, fired, events, source, notes, faults>>

Rule == PriceRule \cup DailyRule
Day(t) == t \div DayLength
TradingDay(t) == Day(t) \notin Holiday

\* AShareTradingSessionGate.
Session(t) == TradingDay(t) /\ t % DayLength \in Open

\* Mutants: the window is left out of the key; it is the moment of the tick.
PriceKeyForever(rule, t) ==
    [kind |-> "pt", rule |-> rule, direction |-> Config[rule].direction, window |-> 0]
CronKeyOfMoment(rule, t) == [kind |-> "cron", rule |-> rule, direction |-> "none", window |-> t]

\* make_price_threshold_dedupe_key (a rule has one symbol) and
\* make_cron_dedupe_key; a demo event has a key of its own.
PriceKey(rule, t) ==
    [kind |-> "pt", rule |-> rule, direction |-> Config[rule].direction, window |-> Day(t)]
CronKey(rule, t) == [kind |-> "cron", rule |-> rule, direction |-> "none", window |-> Day(t)]
DemoKey(n) == [kind |-> "demo", rule |-> None, direction |-> "none", window |-> n]
KeyOf(rule, t) == IF rule \in PriceRule THEN PriceKey(rule, t) ELSE CronKey(rule, t)

Event(key, at) ==
    [key |-> key, at |-> at, source |-> CASE key.kind = "pt" -> "market_poll"
                                          [] key.kind = "cron" -> "cron"
                                          [] key.kind = "demo" -> "demo_inject"]
Known(key) == \E e \in events : e.key = key

\* _evaluate_crossing of a quote p.
Crosses(rule, p) ==
    IF Config[rule].direction = "up" THEN p >= Config[rule].limit ELSE p <= Config[rule].limit

-----------------------------------------------------------------------------
(* A tick: the crossing rules it has found, those still to look at, the    *)
(* time taken at its start, and its counts; and the pause that follows it. *)

Counts == [crossed |-> 0, produced |-> 0, skipped |-> 0, failed |-> 0]
Resting(wait) == [stage |-> "resting", found |-> {}, todo |-> <<>>, at |-> 0,
                  counts |-> Counts, wait |-> wait]

Init ==
    /\ role \in Roles /\ now = 0 /\ faults = 0 /\ paused = {} /\ events = {} /\ notes = {}
    /\ fired = [r \in Rule |-> None]
    /\ source = [p \in Process |-> Resting(Base)]

\* run_price_poller_loop: a round that failed and produced nothing doubles
\* the pause.
NextWait(wait, c) ==
    IF c.produced = 0 /\ c.failed > 0
    THEN IF 2 * wait < MaxWait THEN 2 * wait ELSE MaxWait
    ELSE Base

Poller(p) == role[p] = "poller"
Rested(p, c) == Resting(IF Poller(p) THEN NextWait(source[p].wait, c) ELSE Base)

\* Go through the found rules, in an order of the store's; or rest.
Through(p, rules, c) ==
    IF rules = <<>> THEN Rested(p, c)
    ELSE [source[p] EXCEPT !.stage = "rules", !.todo = rules, !.counts = c]
After(p, c) == Through(p, Tail(source[p].todo), c)

\* PriceThresholdPoller.tick up to its await: with no session or no active
\* rule there is nothing to do.
Tick(p) ==
    /\ Poller(p) /\ source[p].stage = "resting"
    /\ LET rules == PriceRule \ paused IN
       \/ (~Session(now) \/ rules = {}) /\ source' = [source EXCEPT ![p] = Rested(p, Counts)]
       \/ /\ Session(now) /\ rules # {}
          /\ source' = [source EXCEPT ![p] = [source[p] EXCEPT !.stage = "quoting",
                                                               !.found = rules, !.at = now]]
    /\ UNCHANGED <<role, now, paused, fired, events, notes, faults>>

\* The rules that a tick finds to cross.
Found(rules, quotes) ==
    {r \in rules : /\ Config[r].symbol \in DOMAIN quotes
                   /\ Crosses(r, quotes[Config[r].symbol])}

\* The quotes arrive, those of some symbols missing, stale or invalid.
Quotes(p, quotes) ==
    /\ source[p].stage = "quoting"
    /\ faults' = faults + (IF DOMAIN quotes = Symbol THEN 0 ELSE 1) /\ faults' <= MaxFaults
    /\ LET rules == source[p].found
           found == Found(rules, quotes)
           c == [Counts EXCEPT !.failed = Cardinality({r \in rules :
                                              Config[r].symbol \notin DOMAIN quotes})]
       IN  source' = [source EXCEPT ![p] = [Through(p, SetToSeq(found), c) EXCEPT !.found = found]]
    /\ UNCHANGED <<role, now, paused, fired, events, notes>>

\* The provider fails: the round is given up.
QuotesFail(p) ==
    /\ source[p].stage = "quoting" /\ faults < MaxFaults
    /\ faults' = faults + 1
    /\ source' = [source EXCEPT ![p] =
                      Rested(p, [Counts EXCEPT !.failed = Cardinality(source[p].found)])]
    /\ UNCHANGED <<role, now, paused, fired, events, notes>>

\* CronEventSource.produce_for on a trading day.
CronTick(p) ==
    /\ role[p] = "cron" /\ source[p].stage \in {"resting", "failed"}
    /\ TradingDay(now) /\ DailyRule \ paused # {}
    /\ source' = [source EXCEPT ![p] =
           [Through(p, SetToSeq(DailyRule \ paused), Counts) EXCEPT !.found = DailyRule \ paused,
                                                                    !.at = now]]
    /\ UNCHANGED <<role, now, paused, fired, events, notes, faults>>

-----------------------------------------------------------------------------
(* The next rule that crosses, or daily one: looked up, appended, marked.  *)

Next1(p) == Head(source[p].todo)

\* Is its event there already?
LookUp(p) ==
    /\ source[p].stage = "rules"
    /\ LET c == [source[p].counts EXCEPT !.crossed = @ + 1] IN
       source' = [source EXCEPT ![p] =
           IF Known(KeyOf(Next1(p), source[p].at)) THEN After(p, [c EXCEPT !.skipped = @ + 1])
           ELSE [source[p] EXCEPT !.stage = "append", !.counts = c]]
    /\ UNCHANGED <<role, now, paused, fired, events, notes, faults>>

\* Mutant: the conflict ends the loop.
ConflictFatal(p) == [source[p] EXCEPT !.stage = "dead"]

\* The unique key holds: another process was first, and that is fine.
Conflict(p) == After(p, [source[p].counts EXCEPT !.skipped = @ + 1])

Append1(p) ==
    /\ source[p].stage = "append"
    /\ LET key == KeyOf(Next1(p), source[p].at)
           c   == [source[p].counts EXCEPT !.produced = @ + 1]
       IN  \/ /\ Known(key)
              /\ source' = [source EXCEPT ![p] = Conflict(p)] /\ UNCHANGED events
           \/ /\ ~Known(key)
              /\ events' = events \cup {Event(key, source[p].at)}
              /\ source' = [source EXCEPT ![p] =
                     IF Poller(p) THEN [source[p] EXCEPT !.stage = "mark", !.counts = c]
                     ELSE After(p, c)]
    /\ UNCHANGED <<role, now, paused, fired, notes, faults>>

\* Mutant: the clock is read again.
FiredNow(p) == now

\* mark_fired, with the time of the tick.
FiredAt(p) == source[p].at
MarkFired(p) ==
    /\ source[p].stage = "mark"
    /\ fired' = [fired EXCEPT ![Next1(p)] = FiredAt(p)]
    /\ source' = [source EXCEPT ![p] = After(p, source[p].counts)]
    /\ UNCHANGED <<role, now, paused, events, notes, faults>>

\* A call to a table fails and nothing catches it: the rest of the rules is
\* dropped; a poller's loop has ended, a cron source may be called again.
StoreFails(p) ==
    /\ source[p].stage \in {"rules", "append", "mark"} /\ faults < MaxFaults
    /\ faults' = faults + 1
    /\ source' = [source EXCEPT ![p] = [Resting(Base) EXCEPT !.stage = "failed"]]
    /\ UNCHANGED <<role, now, paused, fired, events, notes>>

-----------------------------------------------------------------------------
(* Demo events, wakeups, and what goes on around them.                     *)

\* inject_demo_event: a key of its own, at any time of day.
Inject(p, n) ==
    /\ role[p] = "api" /\ ~Known(DemoKey(n)) /\ \A k \in 1 .. n - 1 : Known(DemoKey(k))
    /\ events' = events \cup {Event(DemoKey(n), now)}
    /\ UNCHANGED <<role, now, paused, fired, source, notes, faults>>

Parts == {"portfolio", "risk_profile", "memory"}

\* WatchNotificationWriter.write of a wakeup whose parts in "degraded" failed.
Note(run, e, degraded) ==
    [run |-> run, event |-> e, source |-> e.source, degraded |-> degraded]

\* A run is woken, its context assembled whatever parts fail, and its
\* result written once: a run that is repeated finds its notification.
Wake(p, run, e, degraded) ==
    /\ role[p] = "api" /\ faults + Cardinality(degraded) <= MaxFaults
    /\ faults' = faults + Cardinality(degraded)
    /\ notes' = IF \E n \in notes : n.run = run THEN notes
                ELSE notes \cup {Note(run, e, degraded)}
    /\ UNCHANGED <<role, now, paused, fired, events, source>>

\* The user pauses a rule or takes it up again, also during a tick.
Toggle(r) ==
    /\ paused' = IF r \in paused THEN paused \ {r} ELSE paused \cup {r}
    /\ UNCHANGED <<role, now, fired, events, source, notes, faults>>

Clock ==
    /\ now < MaxTime /\ now' = now + 1
    /\ UNCHANGED <<role, paused, fired, events, source, notes, faults>>

\* What the event loop of a process goes on with.
TickStep(p) ==
    \/ \E good \in SUBSET Symbol : \E quotes \in [good -> Price] : Quotes(p, quotes)
    \/ QuotesFail(p) \/ StoreFails(p)
    \/ LookUp(p) \/ Append1(p) \/ MarkFired(p)

Next ==
    \/ \E p \in Process :
          \/ Tick(p) \/ CronTick(p) \/ TickStep(p)
          \/ \E n \in 1 .. MaxDemo : Inject(p, n)
          \/ \E run \in Run, e \in events, degraded \in SUBSET Parts : Wake(p, run, e, degraded)
    \/ \E r \in Pausable : Toggle(r)
    \/ Clock

\* A tick that began is carried on by its event loop.
Spec == Init /\ [][Next]_vars
FairSpec == Spec /\ \A p \in Process : WF_vars(TickStep(p))

-----------------------------------------------------------------------------
(* Properties.                                                             *)

\* Every source, event and notification has its form; the pause between two
\* rounds stays within its limits however many rounds fail.
TypeOK ==
    /\ now \in 0 .. MaxTime /\ faults \in 0 .. MaxFaults
    /\ paused \subseteq Rule /\ fired \in [Rule -> 0 .. MaxTime \cup {None}]
    /\ \A e \in events : e.at \in 0 .. MaxTime /\ e = Event(e.key, e.at)
    /\ \A p \in Process :
          /\ source[p].stage \in {"resting", "quoting", "rules", "append", "mark", "failed"}
          /\ source[p].wait \in Base .. MaxWait /\ source[p].at \in 0 .. MaxTime
          /\ ToSet(source[p].todo) \subseteq source[p].found
    /\ \A n \in notes : n.run \in Run /\ n.event \in events /\ n.degraded \subseteq Parts

\* A tick that comes to its end has dealt with every crossing it was shown:
\* of each rule whose quote crosses its limit there is an event of that day,
\* its own or another process's, whatever the rules around it met (tick).
NoCrossingLost ==
    [][\A p \in Process :
         source[p].stage \in {"rules", "append", "mark"} /\ source'[p].stage = "resting" =>
            \A r \in source[p].found :
                \E e \in events' : e.key.rule = r /\ Day(e.at) = Day(source[p].at)]_vars

\* A rule fires once a day, however many processes poll and whichever of
\* them looked before the other appended.
OncePerDay ==
    \A e, f \in events :
        e.key.rule # None /\ e.key.rule = f.key.rule /\ Day(e.at) = Day(f.at) => e = f

\* last_fired_at is the time of an event of that rule: a poller that lost the
\* race for the event does not mark its own.
FiredHasEvent ==
    \A r \in Rule : fired[r] # None => \E e \in events : e.key.rule = r /\ e.at = fired[r]

\* A tick comes to its end: at rest, or at a table that failed; never at the
\* conflict of two processes.
EveryTickEnds ==
    \A p \in Process :
        source[p].stage # "resting" ~> source[p].stage \in {"resting", "failed"}

=============================================================================
