------------------------- MODULE WatchEventsProofs -------------------------
(***************************************************************************)
(* However many processes poll, whatever fails and whenever the user       *)
(* pauses a rule: a rule has one event a day, a mark has its event, and a  *)
(* tick that comes to its end has lost no crossing.                        *)
(***************************************************************************)
EXTENDS WatchEvents, FiniteSetTheorems, SequenceTheorems, TLAPS

USE WatchAssumption

-----------------------------------------------------------------------------
(* The order in which a store returns its rules has each of them.          *)

LEMMA SetToSeqOK ==
    ASSUME NEW S, IsFiniteSet(S)
    PROVE  SetToSeq(S) \in Seq(S) /\ ToSet(SetToSeq(S)) = S
<1> DEFINE n == Cardinality(S)
           f == SetToSeq(S)
<1>1. n \in Nat /\ ExistsBijection(1 .. n, S)
  BY FS_CardinalityType
<1>2. \E g \in [1 .. n -> S] : IsInjective(g)
  BY <1>1 DEF ExistsBijection, Bijection, Injection
<1>3. f \in [1 .. n -> S] /\ IsInjective(f)
  BY <1>2 DEF SetToSeq
<1> HIDE DEF f
<1>4. f \in Seq(S) /\ DOMAIN f = 1 .. n
  BY <1>1, <1>3, SeqDef
<1> DEFINE T == ToSet(f)
<1>5. T \in SUBSET S /\ f \in [1 .. n -> T]
  BY <1>3, <1>4 DEF ToSet
<1>6. f \in Bijection(1 .. n, T)
  BY <1>3, <1>4, <1>5 DEF Bijection, Injection, Surjection, ToSet
<1>7. IsFiniteSet(T) /\ Cardinality(T) = n
  BY <1>1, <1>6, FS_CountingElements, FS_Subset, <1>5 DEF ExistsBijection
<1>8. T = S
  BY <1>5, <1>7, FS_Subset
<1> QED  BY <1>4, <1>8 DEF f

LEMMA TailOK ==
    ASSUME NEW S, NEW s \in Seq(S), s # <<>>
    PROVE  /\ Head(s) \in S /\ Tail(s) \in Seq(S)
           /\ ToSet(s) = {Head(s)} \cup ToSet(Tail(s))
<1>1. /\ Head(s) \in S /\ Tail(s) \in Seq(S) /\ Len(Tail(s)) = Len(s) - 1 /\ Len(s) \in Nat \ {0}
      /\ \A i \in 1 .. Len(Tail(s)) : Tail(s)[i] = s[i + 1]
      /\ Head(s) = s[1]
  BY HeadTailProperties, EmptySeq
<1>2. DOMAIN s = 1 .. Len(s) /\ DOMAIN Tail(s) = 1 .. Len(s) - 1
  BY <1>1, LenProperties
<1>3. ASSUME NEW x \in ToSet(s) PROVE x \in {Head(s)} \cup ToSet(Tail(s))
  <2>1. PICK i \in 1 .. Len(s) : x = s[i]
    BY <1>2 DEF ToSet
  <2>2. CASE i = 1
    BY <1>1, <2>1, <2>2
  <2>3. CASE i # 1
    <3>1. i - 1 \in 1 .. Len(s) - 1
      BY <1>1, <2>1, <2>3
    <3>2. Tail(s)[i - 1] = x
      BY <1>1, <2>1, <3>1
    <3> QED  BY <1>2, <3>1, <3>2 DEF ToSet
  <2> QED  BY <2>2, <2>3
<1>4. ASSUME NEW x \in {Head(s)} \cup ToSet(Tail(s)) PROVE x \in ToSet(s)
  <2>1. CASE x = Head(s)
    BY <1>1, <1>2, <2>1 DEF ToSet
  <2>2. CASE x \in ToSet(Tail(s))
    <3>1. PICK i \in 1 .. Len(s) - 1 : x = Tail(s)[i]
      BY <1>2, <2>2 DEF ToSet
    <3>2. i + 1 \in 1 .. Len(s) /\ x = s[i + 1]
      BY <1>1, <3>1
    <3> QED  BY <1>2, <3>2 DEF ToSet
  <2> QED  BY <2>1, <2>2
<1> QED  BY <1>1, <1>3, <1>4

-----------------------------------------------------------------------------
(* The inductive invariant: forms, the keys of events, and what a tick has *)
(* done so far.                                                            *)

Busy == {"rules", "append", "mark"}
CountsType == [crossed : Nat, produced : Nat, skipped : Nat, failed : Nat]
SourceType ==
    [stage : {"resting", "quoting", "failed"} \cup Busy, found : SUBSET Rule, todo : Seq(Rule),
     at : 0 .. MaxTime, counts : CountsType, wait : Base .. MaxWait]

\* Of the rule there is an event of the day of t.
Dealt(r, t, E) == \E e \in E : e.key.rule = r /\ Day(e.at) = Day(t)

\* Every rule that was found is still to be looked at, or has its event; a
\* rule about to be marked has an event of the time of the tick.
TickInv(s, E) ==
    /\ s.stage \in Busy => /\ s.todo # <<>> /\ ToSet(s.todo) \subseteq s.found
                           /\ \A r \in s.found : r \in ToSet(s.todo) \/ Dealt(r, s.at, E)
    /\ s.stage \notin Busy => s.todo = <<>>
    /\ s.stage = "mark" => \E e \in E : e.key.rule = Head(s.todo) /\ e.at = s.at

EventOK(e) ==
    /\ e.at \in 0 .. MaxTime /\ e = Event(e.key, e.at)
    /\ e.key.rule # None => e.key = KeyOf(e.key.rule, e.at)

Plain ==
    /\ now \in 0 .. MaxTime /\ faults \in 0 .. MaxFaults
    /\ paused \subseteq Rule /\ fired \in [Rule -> 0 .. MaxTime \cup {None}]
Keyed ==
    /\ \A e \in events : EventOK(e)
    /\ \A e, f \in events : e.key = f.key => e = f
Ticking ==
    /\ source \in [Process -> SourceType]
    /\ \A p \in Process : TickInv(source[p], events)
Written ==
    \A n \in notes : n.run \in Run /\ n.event \in events /\ n.degraded \subseteq Parts

IInv == Plain /\ Keyed /\ Ticking /\ Written /\ FiredHasEvent

-----------------------------------------------------------------------------
(* Keys: of one rule, two keys are equal exactly when the days are.        *)

LEMMA KeyOfRule ==
    ASSUME NEW r, NEW t
    PROVE  KeyOf(r, t).rule = r /\ KeyOf(r, t).window = Day(t)
BY DEF KeyOf, PriceKey, CronKey

LEMMA KeyOfDay ==
    ASSUME NEW r, NEW t, NEW u, Day(t) = Day(u)
    PROVE  KeyOf(r, t) = KeyOf(r, u)
BY DEF KeyOf, PriceKey, CronKey

LEMMA EventFields ==
    ASSUME NEW key, NEW t
    PROVE  Event(key, t).key = key /\ Event(key, t).at = t
BY DEF Event

\* An event of a rule's key is an event of its rule and its day.
LEMMA KnownIsDealt ==
    ASSUME Keyed, NEW r \in Rule, NEW t, Known(KeyOf(r, t))
    PROVE  Dealt(r, t, events)
<1>1. PICK e \in events : e.key = KeyOf(r, t)
  BY DEF Known
<1>2. e.key.rule = r /\ r # None
  BY <1>1, KeyOfRule DEF Rule
<1>3. KeyOf(r, t) = KeyOf(r, e.at)
  BY <1>1, <1>2 DEF Keyed, EventOK
<1>4. Day(t) = Day(e.at)
  BY <1>3, KeyOfRule
<1> QED  BY <1>1, <1>2, <1>4 DEF Dealt

\* A new event of a key no event has leaves the keys as they were.
LEMMA NewEvent ==
    ASSUME Keyed, NEW key, NEW t \in 0 .. MaxTime, ~Known(key),
           key.rule # None => key = KeyOf(key.rule, t),
           events' = events \cup {Event(key, t)}
    PROVE  Keyed'
<1> DEFINE e0 == Event(key, t)
<1>1. e0.key = key /\ e0.at = t
  BY EventFields
<1>2. EventOK(e0)
  BY <1>1 DEF EventOK
<1> HIDE DEF e0
<1>3. events' = events \cup {e0}
  BY DEF e0
<1>4. \A e \in events' : EventOK(e)
  BY <1>2, <1>3 DEF Keyed
<1>5. \A e \in events : e.key # e0.key
  BY <1>1 DEF Known
<1>6. \A e, f \in events' : e.key = f.key => e = f
  BY <1>3, <1>5 DEF Keyed
<1> QED  BY <1>4, <1>6 DEF Keyed, EventOK

LEMMA TickInvGrows ==
    ASSUME NEW s, NEW E, NEW F, E \subseteq F, TickInv(s, E)
    PROVE  TickInv(s, F)
BY DEF TickInv, Dealt

-----------------------------------------------------------------------------
(* How a source goes on.                                                   *)

LEMMA RestingOK ==
    ASSUME NEW w \in Base .. MaxWait, NEW E
    PROVE  /\ Resting(w) \in SourceType /\ TickInv(Resting(w), E)
           /\ [Resting(w) EXCEPT !.stage = "failed"] \in SourceType
           /\ TickInv([Resting(w) EXCEPT !.stage = "failed"], E)
           /\ Resting(w).stage = "resting"
<1> DEFINE s == Resting(w)
           f == [s EXCEPT !.stage = "failed"]
<1>1. /\ s.stage = "resting" /\ s.todo = <<>>
      /\ f.stage = "failed" /\ f.todo = <<>>
  BY DEF Resting
<1>2. <<>> \in Seq(Rule) /\ 0 \in 0 .. MaxTime /\ Counts \in CountsType
  BY EmptySeq DEF Counts, CountsType
<1>3. s \in SourceType
  BY <1>2 DEF Resting, SourceType
<1>4. f \in SourceType
  BY <1>3 DEF SourceType
<1>5. TickInv(s, E) /\ TickInv(f, E)
  BY <1>1 DEF TickInv, Busy
<1> QED  BY <1>1, <1>3, <1>4, <1>5

LEMMA RestedOK ==
    ASSUME Ticking, NEW p \in Process, NEW c, NEW E
    PROVE  /\ Rested(p, c) \in SourceType /\ TickInv(Rested(p, c), E)
           /\ Rested(p, c).stage = "resting"
<1>1. source[p].wait \in Base .. MaxWait
  BY DEF Ticking, SourceType
<1>2. NextWait(source[p].wait, c) \in Base .. MaxWait /\ Base \in Base .. MaxWait
  BY <1>1 DEF NextWait
<1>3. \E w \in Base .. MaxWait : Rested(p, c) = Resting(w)
  BY <1>2 DEF Rested
<1>4. \A w \in Base .. MaxWait :
         Resting(w) \in SourceType /\ TickInv(Resting(w), E) /\ Resting(w).stage = "resting"
  BY RestingOK
<1> QED  BY <1>3, <1>4

\* Going on with the rules that are left, the first one dealt with.
LEMMA AfterOK ==
    ASSUME Ticking, NEW p \in Process, NEW c \in CountsType, NEW E, events \subseteq E,
           source[p].stage \in Busy,
           Dealt(Next1(p), source[p].at, E)
    PROVE  /\ After(p, c) \in SourceType /\ TickInv(After(p, c), E)
           /\ After(p, c).stage = "resting" =>
                 \A r \in source[p].found : Dealt(r, source[p].at, E)
<1> DEFINE s == source[p]
           rest == Tail(s.todo)
<1>1. /\ s \in SourceType /\ TickInv(s, E)
      /\ s.todo \in Seq(Rule) /\ s.found \in SUBSET Rule /\ s.at \in 0 .. MaxTime
  BY TickInvGrows DEF Ticking, SourceType
<1>2. /\ s.todo # <<>> /\ ToSet(s.todo) \subseteq s.found
      /\ \A r \in s.found : r \in ToSet(s.todo) \/ Dealt(r, s.at, E)
  BY <1>1 DEF TickInv
<1>3. rest \in Seq(Rule) /\ ToSet(s.todo) = {Next1(p)} \cup ToSet(rest)
  BY <1>1, <1>2, TailOK DEF Next1
<1> HIDE DEF rest
<1>4. /\ ToSet(rest) \subseteq s.found
      /\ \A r \in s.found : r \in ToSet(rest) \/ Dealt(r, s.at, E)
  BY <1>2, <1>3
<1>5. After(p, c) = Through(p, rest, c)
  BY DEF After, rest
<1>6. CASE rest = <<>>
  <2>1. After(p, c) = Rested(p, c)
    BY <1>5, <1>6 DEF Through
  <2>2. ToSet(rest) = {}
    BY <1>6 DEF ToSet
  <2> QED  BY <1>4, <2>1, <2>2, RestedOK
<1>7. CASE rest # <<>>
  <2> DEFINE n == [s EXCEPT !.stage = "rules", !.todo = rest, !.counts = c]
  <2>1. After(p, c) = n
    BY <1>5, <1>7 DEF Through
  <2>2. n \in SourceType
    BY <1>1, <1>3 DEF SourceType, Busy
  <2>3. n.stage = "rules" /\ n.todo = rest /\ n.found = s.found /\ n.at = s.at
    BY <1>1 DEF SourceType
  <2> HIDE DEF n
  <2>4. TickInv(n, E)
    BY <1>4, <1>7, <2>3 DEF TickInv, Busy
  <2> QED  BY <2>1, <2>2, <2>3, <2>4
<1> QED  BY <1>6, <1>7

\* One source goes on, events are only added: the sources stay in order.
LEMMA TickingStep ==
    ASSUME Ticking, NEW p \in Process, NEW s \in SourceType,
           source' = [source EXCEPT ![p] = s], events \subseteq events', TickInv(s, events')
    PROVE  Ticking'
<1>1. source' \in [Process -> SourceType] /\ source'[p] = s
      /\ \A q \in Process \ {p} : source'[q] = source[q]
  BY DEF Ticking
<1>2. ASSUME NEW q \in Process PROVE TickInv(source'[q], events')
  <2>1. CASE q = p
    BY <1>1, <2>1
  <2>2. CASE q # p
    <3>1. source'[q] = source[q] /\ TickInv(source[q], events)
      BY <1>1, <2>2 DEF Ticking
    <3> QED  BY <3>1, TickInvGrows
  <2> QED  BY <2>1, <2>2
<1> QED  BY <1>1, <1>2 DEF Ticking, TickInv, Dealt

\* The same with no source going on.
LEMMA TickingStays ==
    ASSUME Ticking, source' = source, events \subseteq events'
    PROVE  Ticking'
<1>1. \A q \in Process : TickInv(source'[q], events')
  BY TickInvGrows DEF Ticking
<1> QED  BY <1>1 DEF Ticking, TickInv, Dealt

-----------------------------------------------------------------------------
(* The first facts and every step.                                         *)

\* The rules of a new tick.
LEMMA BeginOK ==
    ASSUME Ticking, NEW p \in Process, NEW found \in SUBSET Rule, IsFiniteSet(found),
           NEW c \in CountsType, NEW n, n = Through(p, SetToSeq(found), c)
    PROVE  /\ n \in SourceType
           /\ \/ n.stage = "resting" /\ n.todo = <<>>
              \/ n.stage = "rules" /\ n.todo # <<>> /\ ToSet(n.todo) = found
<1> DEFINE rules == SetToSeq(found)
<1>1. rules \in Seq(Rule) /\ ToSet(rules) = found
  <2>1. rules \in Seq(found) /\ ToSet(rules) = found
    BY SetToSeqOK
  <2> HIDE DEF rules
  <2> QED  BY <2>1, SeqDef
<1>2. n = Through(p, rules, c)
  OBVIOUS
<1> HIDE DEF rules
<1>3. source[p] \in SourceType
  BY DEF Ticking
<1>4. CASE rules = <<>>
  <2>1. n = Rested(p, c)
    BY <1>2, <1>4 DEF Through
  <2>2. n \in SourceType /\ TickInv(n, {}) /\ n.stage = "resting"
    BY <2>1, RestedOK
  <2> QED  BY <2>2 DEF TickInv, Busy
<1>5. CASE rules # <<>>
  <2>1. n = [source[p] EXCEPT !.stage = "rules", !.todo = rules, !.counts = c]
    BY <1>2, <1>5 DEF Through
  <2>2. n \in SourceType /\ n.stage = "rules" /\ n.todo = rules
    BY <1>1, <1>3, <2>1 DEF SourceType, Busy
  <2> QED  BY <1>1, <1>5, <2>2
<1> QED  BY <1>4, <1>5

LEMMA InitOK == Init => IInv
<1> SUFFICES ASSUME Init PROVE IInv
  OBVIOUS
<1>1. Plain /\ Keyed /\ Written /\ FiredHasEvent
  BY DEF Init, Plain, Keyed, Written, FiredHasEvent
<1>2. Base \in Base .. MaxWait
  OBVIOUS
<1>3. Resting(Base) \in SourceType /\ TickInv(Resting(Base), events)
  BY <1>2, RestingOK
<1>4. Ticking
  BY <1>3 DEF Init, Ticking
<1> QED  BY <1>1, <1>4 DEF IInv

\* Steps that leave events, marks and notifications.
LEMMA QuietStep ==
    ASSUME IInv, Plain', Ticking', UNCHANGED <<events, notes, fired>>
    PROVE  IInv'
BY DEF IInv, Keyed, EventOK, Written, FiredHasEvent

LEMMA TickOK ==
    ASSUME IInv, NEW p \in Process, Tick(p)
    PROVE  IInv'
<1>1. Plain'
  BY DEF IInv, Plain, Tick
<1>2. PICK s \in SourceType :
         TickInv(s, events) /\ source' = [source EXCEPT ![p] = s]
  <2>1. CASE source' = [source EXCEPT ![p] = Rested(p, Counts)]
    BY <2>1, RestedOK DEF IInv
  <2>2. CASE /\ Session(now) /\ PriceRule \ paused # {}
             /\ source' = [source EXCEPT ![p] =
                    [source[p] EXCEPT !.stage = "quoting", !.found = PriceRule \ paused,
                                      !.at = now]]
    <3> DEFINE s == [source[p] EXCEPT !.stage = "quoting", !.found = PriceRule \ paused,
                                      !.at = now]
    <3>1. source[p] \in SourceType /\ TickInv(source[p], events) /\ source[p].stage = "resting"
      BY DEF IInv, Ticking, Tick
    <3>2. source[p].todo = <<>> /\ now \in 0 .. MaxTime /\ PriceRule \ paused \in SUBSET Rule
      BY <3>1 DEF TickInv, Busy, IInv, Plain, Rule
    <3>3. s \in SourceType /\ s.stage = "quoting" /\ s.todo = <<>>
      BY <3>1, <3>2 DEF SourceType
    <3>4. source' = [source EXCEPT ![p] = s]
      BY <2>2
    <3> HIDE DEF s
    <3>5. TickInv(s, events)
      BY <3>3 DEF TickInv, Busy
    <3> QED  BY <3>3, <3>4, <3>5
  <2> QED  BY <2>1, <2>2 DEF Tick
<1>3. events' = events
  BY DEF Tick
<1>4. Ticking'
  BY <1>2, <1>3, TickingStep DEF IInv
<1> QED  BY <1>1, <1>4, QuietStep DEF Tick

LEMMA QuotesOK ==
    ASSUME IInv, NEW p \in Process, NEW quotes, Quotes(p, quotes)
    PROVE  IInv'
<1> DEFINE rules == source[p].found
           found == Found(rules, quotes)
           bad == Cardinality({r \in rules : Config[r].symbol \notin DOMAIN quotes})
           c == [Counts EXCEPT !.failed = bad]
           n == Through(p, SetToSeq(found), c)
           s == [n EXCEPT !.found = found]
<1>1. source' = [source EXCEPT ![p] = s] /\ events' = events
  BY DEF Quotes
<1>2. rules \in SUBSET Rule /\ IsFiniteSet(Rule)
  <2>1. IsFiniteSet(Rule)
    BY FS_Union DEF Rule
  <2> QED  BY <2>1 DEF IInv, Ticking, SourceType
<1>3. found \in SUBSET rules /\ IsFiniteSet(found) /\ IsFiniteSet(rules)
  BY <1>2, FS_Subset DEF Found
<1>4. c \in CountsType
  <2>1. bad \in Nat
    BY <1>3, FS_Subset, FS_CardinalityType
  <2> HIDE DEF bad
  <2> QED  BY <2>1 DEF Counts, CountsType
<1> HIDE DEF found, c, n
<1>5. /\ n \in SourceType
      /\ \/ n.stage = "resting" /\ n.todo = <<>>
         \/ n.stage = "rules" /\ n.todo # <<>> /\ ToSet(n.todo) = found
  BY <1>2, <1>3, <1>4, BeginOK DEF n, IInv
<1>6. s \in SourceType /\ s.stage = n.stage /\ s.todo = n.todo /\ s.found = found
  BY <1>2, <1>3, <1>5 DEF SourceType
<1> HIDE DEF s, rules
<1>7. TickInv(s, events)
  BY <1>5, <1>6 DEF TickInv, Busy
<1>8. Ticking'
  BY <1>1, <1>6, <1>7, TickingStep DEF IInv
<1>9. Plain'
  BY DEF IInv, Plain, Quotes
<1> QED  BY <1>8, <1>9, QuietStep DEF Quotes

LEMMA QuotesFailOK ==
    ASSUME IInv, NEW p \in Process, QuotesFail(p)
    PROVE  IInv'
<1>1. Plain' /\ events' = events
  BY DEF IInv, Plain, QuotesFail
<1> DEFINE s == Rested(p, [Counts EXCEPT !.failed = Cardinality(source[p].found)])
<1>2. s \in SourceType /\ TickInv(s, events)
  BY RestedOK DEF IInv
<1>3. source' = [source EXCEPT ![p] = s]
  BY DEF QuotesFail
<1> HIDE DEF s
<1>4. Ticking'
  BY <1>1, <1>2, <1>3, TickingStep DEF IInv
<1> QED  BY <1>1, <1>4, QuietStep DEF QuotesFail

LEMMA CronTickOK ==
    ASSUME IInv, NEW p \in Process, CronTick(p)
    PROVE  IInv'
<1> DEFINE found == DailyRule \ paused
           n == Through(p, SetToSeq(found), Counts)
           s == [n EXCEPT !.found = found, !.at = now]
<1>1. source' = [source EXCEPT ![p] = s] /\ events' = events
  BY DEF CronTick
<1>2. found \in SUBSET Rule /\ IsFiniteSet(found) /\ Counts \in CountsType
  BY FS_Subset DEF Rule, Counts, CountsType
<1> HIDE DEF found, n
<1>3. /\ n \in SourceType
      /\ \/ n.stage = "resting" /\ n.todo = <<>>
         \/ n.stage = "rules" /\ n.todo # <<>> /\ ToSet(n.todo) = found
  BY <1>2, BeginOK DEF n, IInv
<1>4. s \in SourceType /\ s.stage = n.stage /\ s.todo = n.todo /\ s.found = found
  <2>1. now \in 0 .. MaxTime
    BY DEF IInv, Plain
  <2> QED  BY <1>2, <1>3, <2>1 DEF SourceType
<1> HIDE DEF s
<1>5. TickInv(s, events)
  BY <1>3, <1>4 DEF TickInv, Busy
<1>6. Ticking'
  BY <1>1, <1>4, <1>5, TickingStep DEF IInv
<1>7. Plain'
  BY DEF IInv, Plain, CronTick
<1> QED  BY <1>6, <1>7, QuietStep DEF CronTick

\* What a busy source stands on.
LEMMA BusyFacts ==
    ASSUME IInv, NEW p \in Process, source[p].stage \in Busy
    PROVE  /\ source[p] \in SourceType /\ TickInv(source[p], events)
           /\ source[p].todo \in Seq(Rule) /\ source[p].todo # <<>>
           /\ Next1(p) \in Rule /\ source[p].at \in 0 .. MaxTime
           /\ source[p].found \in SUBSET Rule /\ source[p].counts \in CountsType
<1>1. /\ source[p] \in SourceType /\ TickInv(source[p], events)
      /\ source[p].todo \in Seq(Rule) /\ source[p].at \in 0 .. MaxTime
      /\ source[p].found \in SUBSET Rule /\ source[p].counts \in CountsType
  BY DEF IInv, Ticking, SourceType
<1>2. source[p].todo # <<>>
  BY <1>1 DEF TickInv
<1>3. Next1(p) \in Rule
  BY <1>1, <1>2, TailOK DEF Next1
<1> QED  BY <1>1, <1>2, <1>3

\* What the end of a rule's turn asks of its tick, and that a crossing is not
\* lost when the turn was the last one.
Settled(p) ==
    source'[p].stage = "resting" =>
        \A r \in source[p].found : Dealt(r, source[p].at, events')

LEMMA LookUpOK ==
    ASSUME IInv, NEW p \in Process, LookUp(p)
    PROVE  IInv' /\ Settled(p)
<1> DEFINE c == [source[p].counts EXCEPT !.crossed = @ + 1]
           d == [c EXCEPT !.skipped = @ + 1]
<1>1. source[p].stage = "rules" /\ source[p].stage \in Busy
  BY DEF LookUp, Busy
<1>2. c \in CountsType /\ d \in CountsType
  <2>1. source[p].counts \in CountsType
    BY <1>1, BusyFacts
  <2>2. c \in CountsType
    BY <2>1 DEF CountsType
  <2> HIDE DEF c
  <2> QED  BY <2>2 DEF CountsType
<1>3. Plain' /\ events' = events
  BY DEF IInv, Plain, LookUp
<1> HIDE DEF c, d
<1>4. CASE Known(KeyOf(Next1(p), source[p].at))
  <2> DEFINE s == After(p, d)
  <2>1. source' = [source EXCEPT ![p] = s]
    BY <1>4 DEF LookUp, c, d
  <2>2. Dealt(Next1(p), source[p].at, events)
    BY <1>1, <1>4, BusyFacts, KnownIsDealt DEF IInv
  <2>3. /\ s \in SourceType /\ TickInv(s, events)
        /\ s.stage = "resting" => \A r \in source[p].found : Dealt(r, source[p].at, events)
    BY <1>1, <1>2, <2>2, AfterOK DEF IInv
  <2> HIDE DEF s
  <2>4. Ticking' /\ source'[p] = s
    BY <1>3, <2>1, <2>3, TickingStep DEF IInv, Ticking
  <2>5. Settled(p)
    BY <1>3, <2>3, <2>4 DEF Settled
  <2> QED  BY <1>3, <2>4, <2>5, QuietStep DEF LookUp
<1>5. CASE ~Known(KeyOf(Next1(p), source[p].at))
  <2> DEFINE s == [source[p] EXCEPT !.stage = "append", !.counts = c]
  <2>1. source' = [source EXCEPT ![p] = s]
    BY <1>5 DEF LookUp, c
  <2>2. s \in SourceType /\ TickInv(s, events) /\ s.stage = "append"
    <3>1. source[p] \in SourceType /\ TickInv(source[p], events)
      BY <1>1, BusyFacts
    <3>2. /\ s \in SourceType /\ s.stage = "append" /\ s.todo = source[p].todo
          /\ s.found = source[p].found /\ s.at = source[p].at
      BY <1>2, <3>1 DEF SourceType, Busy
    <3> HIDE DEF s
    <3> QED  BY <1>1, <3>1, <3>2 DEF TickInv, Busy
  <2> HIDE DEF s
  <2>3. Ticking' /\ source'[p] = s
    BY <1>3, <2>1, <2>2, TickingStep DEF IInv, Ticking
  <2>4. Settled(p)
    BY <2>2, <2>3 DEF Settled
  <2> QED  BY <1>3, <2>3, <2>4, QuietStep DEF LookUp
<1> QED  BY <1>4, <1>5

\* Events that are only added keep what is said of notifications and marks.
LEMMA MoreEvents ==
    ASSUME IInv, events \subseteq events', notes' = notes, fired' = fired
    PROVE  Written' /\ FiredHasEvent'
<1>1. Written'
  BY DEF IInv, Written
<1>2. FiredHasEvent'
  BY DEF IInv, FiredHasEvent
<1> QED  BY <1>1, <1>2

LEMMA AppendOK ==
    ASSUME IInv, NEW p \in Process, Append1(p)
    PROVE  IInv' /\ Settled(p)
<1> DEFINE key == KeyOf(Next1(p), source[p].at)
           c == [source[p].counts EXCEPT !.produced = @ + 1]
           d == [source[p].counts EXCEPT !.skipped = @ + 1]
<1>1. source[p].stage \in Busy
  BY DEF Append1, Busy
<1>2. c \in CountsType /\ d \in CountsType
  <2>1. source[p].counts \in CountsType
    BY <1>1, BusyFacts
  <2> QED  BY <2>1 DEF CountsType
<1>3. Plain' /\ notes' = notes /\ fired' = fired
  BY DEF IInv, Plain, Append1
<1>4. /\ key.rule = Next1(p) /\ key = KeyOf(key.rule, source[p].at)
      /\ Next1(p) \in Rule /\ source[p].at \in 0 .. MaxTime
  BY <1>1, KeyOfRule, BusyFacts
<1> HIDE DEF c, d, key
<1>5. CASE Known(key)
  <2> DEFINE s == After(p, d)
  <2>1. source' = [source EXCEPT ![p] = s] /\ events' = events
    BY <1>5 DEF Append1, Conflict, d, key
  <2>2. Dealt(Next1(p), source[p].at, events)
    BY <1>4, <1>5, KnownIsDealt DEF IInv, key
  <2>3. /\ s \in SourceType /\ TickInv(s, events)
        /\ s.stage = "resting" => \A r \in source[p].found : Dealt(r, source[p].at, events)
    BY <1>1, <1>2, <2>2, AfterOK DEF IInv
  <2> HIDE DEF s
  <2>4. Ticking' /\ source'[p] = s
    BY <2>1, <2>3, TickingStep DEF IInv, Ticking
  <2>5. Settled(p)
    BY <2>1, <2>3, <2>4 DEF Settled
  <2> QED  BY <1>3, <2>1, <2>4, <2>5, QuietStep
<1>6. CASE ~Known(key)
  <2> DEFINE e0 == Event(key, source[p].at)
             m == [source[p] EXCEPT !.stage = "mark", !.counts = c]
             a == After(p, c)
  <2>1. /\ events' = events \cup {e0}
        /\ source' = [source EXCEPT ![p] = IF Poller(p) THEN m ELSE a]
    BY <1>6 DEF Append1, c, key
  <2>2. e0.key.rule = Next1(p) /\ e0.at = source[p].at /\ e0 \in events'
    BY <1>4, <2>1, EventFields
  <2>3. Dealt(Next1(p), source[p].at, events') /\ events \subseteq events'
    BY <2>1, <2>2 DEF Dealt
  <2>4. Keyed'
    BY <1>4, <1>6, <2>1, NewEvent DEF IInv
  <2>5. Written' /\ FiredHasEvent'
    BY <1>3, <2>3, MoreEvents
  <2>6. m \in SourceType /\ TickInv(m, events') /\ m.stage = "mark"
    <3>1. "mark" \in Busy /\ \E e \in events' : e.key.rule = Next1(p) /\ e.at = source[p].at
      BY <2>2 DEF Busy
    <3>2. source[p] \in SourceType /\ TickInv(source[p], events')
      BY <1>1, <2>3, BusyFacts, TickInvGrows
    <3>3. /\ m \in SourceType /\ m.stage = "mark" /\ m.todo = source[p].todo
          /\ m.found = source[p].found /\ m.at = source[p].at
      BY <1>2, <3>2 DEF SourceType, Busy
    <3> HIDE DEF m
    <3> QED  BY <1>1, <3>1, <3>2, <3>3 DEF TickInv, Next1
  <2>7. /\ a \in SourceType /\ TickInv(a, events')
        /\ a.stage = "resting" => \A r \in source[p].found : Dealt(r, source[p].at, events')
    BY <1>1, <1>2, <2>3, AfterOK DEF IInv
  <2> HIDE DEF m, a, e0
  <2>8. PICK s \in SourceType :
           /\ source' = [source EXCEPT ![p] = s] /\ TickInv(s, events')
           /\ s.stage = "resting" => \A r \in source[p].found : Dealt(r, source[p].at, events')
    BY <2>1, <2>6, <2>7
  <2>9. Ticking' /\ source'[p] = s
    BY <2>3, <2>8, TickingStep DEF IInv, Ticking
  <2>10. Settled(p)
    BY <2>8, <2>9 DEF Settled
  <2> QED  BY <1>3, <2>4, <2>5, <2>9, <2>10 DEF IInv
<1> QED  BY <1>5, <1>6

LEMMA MarkFiredOK ==
    ASSUME IInv, NEW p \in Process, MarkFired(p)
    PROVE  IInv' /\ Settled(p)
<1> DEFINE s == After(p, source[p].counts)
<1>1. source[p].stage = "mark" /\ source[p].stage \in Busy
  BY DEF MarkFired, Busy
<1>2. /\ source[p] \in SourceType /\ TickInv(source[p], events) /\ Next1(p) \in Rule
      /\ source[p].at \in 0 .. MaxTime /\ source[p].counts \in CountsType
  BY <1>1, BusyFacts
<1>3. PICK e \in events : e.key.rule = Next1(p) /\ e.at = source[p].at
  BY <1>1, <1>2 DEF TickInv, Next1
<1>4. Dealt(Next1(p), source[p].at, events)
  BY <1>3 DEF Dealt
<1>5. /\ s \in SourceType /\ TickInv(s, events)
      /\ s.stage = "resting" => \A r \in source[p].found : Dealt(r, source[p].at, events)
  BY <1>1, <1>2, <1>4, AfterOK DEF IInv
<1>6. /\ source' = [source EXCEPT ![p] = s] /\ events' = events /\ notes' = notes
      /\ fired' = [fired EXCEPT ![Next1(p)] = source[p].at]
  BY DEF MarkFired, FiredAt
<1> HIDE DEF s
<1>7. Ticking' /\ source'[p] = s
  BY <1>5, <1>6, TickingStep DEF IInv, Ticking
<1>8. Settled(p)
  BY <1>5, <1>6, <1>7 DEF Settled
<1>9. Plain'
  BY <1>2, <1>6 DEF IInv, Plain, MarkFired
<1>10. Keyed' /\ Written'
  BY <1>6 DEF IInv, Keyed, EventOK, Written
<1>11. FiredHasEvent'
  BY <1>2, <1>3, <1>6 DEF IInv, FiredHasEvent, Plain
<1> QED  BY <1>7, <1>8, <1>9, <1>10, <1>11 DEF IInv

LEMMA StoreFailsOK ==
    ASSUME IInv, NEW p \in Process, StoreFails(p)
    PROVE  IInv' /\ Settled(p)
<1> DEFINE s == [Resting(Base) EXCEPT !.stage = "failed"]
<1>1. Plain' /\ events' = events
  BY DEF IInv, Plain, StoreFails
<1>2. s \in SourceType /\ TickInv(s, events)
  <2>1. Base \in Base .. MaxWait
    OBVIOUS
  <2> QED  BY <2>1, RestingOK
<1>3. source' = [source EXCEPT ![p] = s] /\ s.stage = "failed"
  BY DEF StoreFails, Resting
<1> HIDE DEF s
<1>4. Ticking' /\ source'[p] = s
  BY <1>1, <1>2, <1>3, TickingStep DEF IInv, Ticking
<1>5. Settled(p)
  BY <1>3, <1>4 DEF Settled
<1> QED  BY <1>1, <1>4, <1>5, QuietStep DEF StoreFails

LEMMA InjectOK ==
    ASSUME IInv, NEW p \in Process, NEW n \in 1 .. MaxDemo, Inject(p, n)
    PROVE  IInv'
<1>1. /\ events' = events \cup {Event(DemoKey(n), now)} /\ ~Known(DemoKey(n))
      /\ events \subseteq events' /\ source' = source /\ fired' = fired /\ notes' = notes
  BY DEF Inject
<1>2. DemoKey(n).rule = None /\ now \in 0 .. MaxTime
  BY DEF DemoKey, IInv, Plain
<1>3. Keyed'
  BY <1>1, <1>2, NewEvent DEF IInv
<1>4. Written' /\ FiredHasEvent'
  BY <1>1, MoreEvents
<1>5. Ticking'
  BY <1>1, TickingStays DEF IInv
<1>6. Plain'
  BY DEF IInv, Plain, Inject
<1> QED  BY <1>3, <1>4, <1>5, <1>6 DEF IInv

LEMMA WakeOK ==
    ASSUME IInv, NEW p \in Process, NEW run \in Run, NEW e \in events,
           NEW degraded \in SUBSET Parts, Wake(p, run, e, degraded)
    PROVE  IInv'
<1>1. Note(run, e, degraded).run = run /\ Note(run, e, degraded).event = e
      /\ Note(run, e, degraded).degraded = degraded
  BY DEF Note
<1>2. notes' \subseteq notes \cup {Note(run, e, degraded)} /\ events' = events
  BY DEF Wake
<1>3. Written'
  BY <1>1, <1>2 DEF IInv, Written
<1>4. faults' \in 0 .. MaxFaults
  <2>1. IsFiniteSet(degraded)
    <3>1. IsFiniteSet({} \cup {"portfolio"})
      BY FS_EmptySet, FS_AddElement
    <3>2. IsFiniteSet(({} \cup {"portfolio"}) \cup {"risk_profile"})
      BY <3>1, FS_AddElement
    <3>3. IsFiniteSet((({} \cup {"portfolio"}) \cup {"risk_profile"}) \cup {"memory"})
      BY <3>2, FS_AddElement
    <3>4. Parts = (({} \cup {"portfolio"}) \cup {"risk_profile"}) \cup {"memory"}
      BY DEF Parts
    <3> QED  BY <3>3, <3>4, FS_Subset
  <2>2. Cardinality(degraded) \in Nat
    BY <2>1, FS_CardinalityType
  <2> QED  BY <2>2 DEF Wake, IInv, Plain
<1>5. Plain'
  BY <1>4 DEF IInv, Plain, Wake
<1>6. Ticking'
  BY <1>2, TickingStays DEF IInv, Wake
<1>7. Keyed' /\ FiredHasEvent'
  BY <1>2 DEF IInv, Keyed, EventOK, FiredHasEvent, Wake
<1> QED  BY <1>3, <1>5, <1>6, <1>7 DEF IInv

LEMMA AroundOK ==
    ASSUME IInv, (\E r \in Pausable : Toggle(r)) \/ Clock \/ UNCHANGED vars
    PROVE  IInv'
<1>1. /\ events' = events /\ source' = source /\ fired' = fired /\ notes' = notes
  BY DEF Toggle, Clock, vars
<1>2. Plain'
  BY DEF IInv, Plain, Toggle, Clock, vars, Rule
<1>3. Ticking'
  BY <1>1, TickingStays DEF IInv
<1> QED  BY <1>1, <1>2, <1>3, QuietStep

LEMMA NextOK ==
    ASSUME IInv, [Next]_vars
    PROVE  IInv'
<1>1. ASSUME NEW p \in Process, TickStep(p) PROVE IInv'
  BY <1>1, QuotesOK, QuotesFailOK, StoreFailsOK, LookUpOK, AppendOK, MarkFiredOK DEF TickStep
<1>2. ASSUME NEW p \in Process,
             \/ Tick(p) \/ CronTick(p) \/ TickStep(p)
             \/ \E n \in 1 .. MaxDemo : Inject(p, n)
             \/ \E run \in Run, e \in events, degraded \in SUBSET Parts :
                   Wake(p, run, e, degraded)
      PROVE  IInv'
  BY <1>1, <1>2, TickOK, CronTickOK, InjectOK, WakeOK
<1> QED  BY <1>2, AroundOK DEF Next

LEMMA Invariant == Spec => []IInv
<1>1. IInv /\ [Next]_vars => IInv'
  BY NextOK
<1> QED  BY InitOK, <1>1, PTL DEF Spec

-----------------------------------------------------------------------------
(* Theorems.                                                               *)

\* Every source, event, mark and notification has its form, and the pause
\* between two rounds stays within its limits however many rounds fail.
THEOREM TypeCorrect == Spec => []TypeOK
<1>1. IInv => TypeOK
  <2> SUFFICES ASSUME IInv PROVE TypeOK
    OBVIOUS
  <2>1. ASSUME NEW p \in Process
        PROVE  /\ source[p].stage \in {"resting", "quoting", "rules", "append", "mark", "failed"}
               /\ source[p].wait \in Base .. MaxWait /\ source[p].at \in 0 .. MaxTime
               /\ ToSet(source[p].todo) \subseteq source[p].found
    <3>1. source[p] \in SourceType /\ TickInv(source[p], events)
      BY DEF IInv, Ticking
    <3>2. CASE source[p].stage \in Busy
      BY <3>1, <3>2 DEF SourceType, TickInv, Busy
    <3>3. CASE source[p].stage \notin Busy
      BY <3>1, <3>3 DEF SourceType, TickInv, Busy, ToSet
    <3> QED  BY <3>2, <3>3
  <2> QED  BY <2>1 DEF TypeOK, IInv, Plain, Keyed, EventOK, Written
<1> QED  BY <1>1, Invariant, PTL

\* A rule has at most one event of a day, whichever of the processes looked
\* before another one appended.
THEOREM OneEventADay == Spec => []OncePerDay
<1>1. IInv => OncePerDay
  <2> SUFFICES ASSUME IInv, NEW e \in events, NEW f \in events,
                      e.key.rule # None, e.key.rule = f.key.rule, Day(e.at) = Day(f.at)
               PROVE  e = f
    BY DEF OncePerDay
  <2>1. e.key = KeyOf(e.key.rule, e.at) /\ f.key = KeyOf(e.key.rule, f.at)
    BY DEF IInv, Keyed, EventOK
  <2>2. e.key = f.key
    BY <2>1, KeyOfDay
  <2> QED  BY <2>2 DEF IInv, Keyed
<1> QED  BY <1>1, Invariant, PTL

\* A mark is the time of an event of its rule, whichever process lost the
\* race for it.
THEOREM MarksHaveEvents == Spec => []FiredHasEvent
<1>1. IInv => FiredHasEvent
  BY DEF IInv
<1> QED  BY <1>1, Invariant, PTL

\* A tick that comes to its end leaves an event for each rule it found to
\* cross, its own or another process's.
THEOREM CrossingsAreKept == Spec => NoCrossingLost
<1> DEFINE Kept == \A p \in Process :
         source[p].stage \in {"rules", "append", "mark"} /\ source'[p].stage = "resting" =>
            \A r \in source[p].found :
                \E e \in events' : e.key.rule = r /\ Day(e.at) = Day(source[p].at)
<1>1. IInv /\ [Next]_vars => [Kept]_vars
  <2> SUFFICES ASSUME IInv, Next, NEW p \in Process, source[p].stage \in Busy,
                      source'[p].stage = "resting"
               PROVE  \A r \in source[p].found : Dealt(r, source[p].at, events')
    BY DEF Busy, Dealt
  <2>1. source \in [Process -> SourceType] /\ source[p].stage # "resting"
    BY DEF IInv, Ticking, Busy
  <2>2. source' # source
    BY <2>1
  <2>3. PICK q \in Process : Tick(q) \/ CronTick(q) \/ TickStep(q)
    BY <2>2 DEF Next, Inject, Wake, Toggle, Clock
  <2>4. q = p
    <3>1. \E s : source' = [source EXCEPT ![q] = s]
      BY <2>3 DEF Tick, CronTick, TickStep, Quotes, QuotesFail, StoreFails, LookUp, Append1,
                  MarkFired
    <3> QED  BY <2>1, <3>1
  <2>5. LookUp(p) \/ Append1(p) \/ MarkFired(p) \/ StoreFails(p)
    BY <2>3, <2>4 DEF TickStep, Tick, CronTick, Quotes, QuotesFail, Busy
  <2>6. Settled(p)
    BY <2>5, LookUpOK, AppendOK, MarkFiredOK, StoreFailsOK
  <2> QED  BY <2>6 DEF Settled
<1> QED  BY <1>1, Invariant, PTL DEF Spec, NoCrossingLost

=============================================================================
