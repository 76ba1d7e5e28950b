----------------------------- MODULE ToolProofs -----------------------------
(***************************************************************************)
(* Proofs about a deep research and about the tool calls that await one    *)
(* source or several, for all values of the constants.  The research is    *)
(* what a call of research.deep_search awaits; ToolCall knows of it only   *)
(* the replies it may give, and the last theorem shows that it gives no    *)
(* other.                                                                  *)
(***************************************************************************)
EXTENDS DeepResearch, ToolCall, FiniteSetTheorems, SequenceTheorems, TLAPS

-----------------------------------------------------------------------------
(* A research.                                                             *)

\* What the limits are.
LEMMA Numbers ==
    /\ MaxUnits \in Nat \ {0} /\ Rounds \in Nat \ {0} /\ Searches \in Nat \ {0}
    /\ Calls \in Nat \ {0} /\ Page \in Nat \ {0} /\ Rate \in Nat \ {0}
    /\ Stagnation \subseteq Nat \ {0}
    /\ Runtime \in Nat /\ Window \in Nat /\ MaxClock \in Nat /\ MaxOther \in Nat
  BY ResearchAssumption

-----------------------------------------------------------------------------
(* The inductive invariant of a research.                                 *)

Phase == {"idle", "plan", "round", "unit", "turn", "searching", "route", "assemble", "done"}
Source == [unit : 1 .. MaxUnits, url : Url]
WorkType == [phase : Phase, started : 0 .. MaxClock, at : Nat, round : Nat, searches : Nat,
             sources : Seq(Source), limitations : SUBSET Limitation, failed : BOOLEAN,
             exhausted : BOOLEAN, progressed : BOOLEAN]
UnitType == [urls : SUBSET Url, stagnant : Nat, calls : Nat, done : BOOLEAN]
ObsStatuses == {"none", "SUCCESS", "PARTIAL", "FAILED", "UNAVAILABLE"}

Typed ==
    /\ request \in Requests /\ clock \in 0 .. MaxClock /\ granted \in Seq(0 .. MaxClock)
    /\ work \in WorkType /\ units \in Seq(UnitType) /\ status \in ObsStatuses

\* A search or a round is begun only while one is left.
Budgets ==
    /\ work.round <= Rounds /\ work.searches <= Searches
    /\ work.phase \notin {"route", "assemble", "done"} => work.round < Rounds
    /\ work.phase \in {"turn", "searching"} => work.searches < Searches

\* A turn and a search are those of a unit, one that may search.
Position ==
    /\ work.phase \in {"unit", "turn", "searching"} => work.at >= 1
    /\ work.phase \in {"turn", "searching"} => work.at <= Len(units)
    /\ work.phase = "searching" => ~Stops(units[work.at])

\* A unit stays within its calls and its stagnation.
UnitBounded(u, n) == u.calls <= Calls /\ u.stagnant <= n
UnitsBounded ==
    /\ Len(units) <= MaxUnits
    /\ \A i \in 1 .. Len(units) : UnitBounded(units[i], request.stagnation)

\* A provider that failed is remembered in both ways, or in neither.
Remembered == work.failed = (work.limitations \cap SearchFailure # {})

ResearchInv ==
    Typed /\ Budgets /\ Position /\ UnitsBounded /\ Remembered /\ RateHolds /\ GuardAgrees

-----------------------------------------------------------------------------
\* The invariant holds before the executor was called.
LEMMA ResearchInitOK == ResearchInit => ResearchInv
<1> SUFFICES ASSUME ResearchInit PROVE ResearchInv
  OBVIOUS
<1>1. Typed
  <2>1. Idle \in WorkType /\ 0 \in 0 .. MaxClock
    BY Numbers DEF Idle, WorkType, Phase, Limitation, SearchFailure
  <2> QED  BY <2>1 DEF ResearchInit, Typed, ObsStatuses
<1>2. Budgets /\ Position
  BY Numbers DEF ResearchInit, Budgets, Position, Idle
<1>3. Remembered
  BY DEF ResearchInit, Idle, Remembered
<1>4. UnitsBounded
  BY Numbers DEF ResearchInit, UnitsBounded
<1>5. RateHolds
  <2> SUFFICES ASSUME NEW t \in 0 .. MaxClock
               PROVE  Cardinality({i \in DOMAIN granted : granted[i] \in t .. t + Window}) <= Rate
    BY DEF RateHolds
  <2>1. {i \in DOMAIN granted : granted[i] \in t .. t + Window} = {}
    BY DEF ResearchInit
  <2> QED  BY <2>1, FS_EmptySet, Numbers
<1>6. GuardAgrees
  BY DEF ResearchInit, GuardAgrees, Blocked, Leaks, NoBundle
<1> QED  BY <1>1, <1>2, <1>4, <1>5, <1>6, <1>3 DEF ResearchInv

\* A search let through keeps the rate: any stretch of time that holds it
\* began at most a window ago, and lies in what the limiter counted.
LEMMA GrantOK ==
    ASSUME granted \in Seq(0 .. MaxClock), clock \in 0 .. MaxClock, RateHolds, Free,
           granted' = Append(granted, clock)
    PROVE  granted' \in Seq(0 .. MaxClock) /\ RateHolds'
<1>1. granted' \in Seq(0 .. MaxClock)
  OBVIOUS
<1> SUFFICES ASSUME NEW t \in 0 .. MaxClock
             PROVE  Cardinality({i \in DOMAIN granted' : granted'[i] \in t .. t + Window}) <= Rate
  BY <1>1 DEF RateHolds
<1> DEFINE n    == Len(granted)
           old  == {i \in DOMAIN granted : granted[i] \in t .. t + Window}
           late == {i \in DOMAIN granted : granted[i] >= clock - Window}
           new  == {i \in DOMAIN granted' : granted'[i] \in t .. t + Window}
<1>2. /\ n \in Nat /\ DOMAIN granted = 1 .. n /\ DOMAIN granted' = 1 .. n + 1
      /\ \A i \in 1 .. n : granted[i] \in 0 .. MaxClock /\ granted'[i] = granted[i]
      /\ granted'[n + 1] = clock
  <2>1. n \in Nat /\ DOMAIN granted = 1 .. n /\ \A i \in 1 .. n : granted[i] \in 0 .. MaxClock
    BY LenProperties, ElementOfSeq
  <2>2. /\ Len(granted') = n + 1 /\ granted'[n + 1] = clock
        /\ \A i \in 1 .. n : granted'[i] = granted[i]
    BY AppendProperties
  <2>3. DOMAIN granted' = 1 .. Len(granted')
    BY <1>1, LenProperties
  <2> QED  BY <2>1, <2>2, <2>3
<1>3. IsFiniteSet(DOMAIN granted)
  BY <1>2, FS_Interval
<1>4. IsFiniteSet(old) /\ IsFiniteSet(late)
  BY <1>3, FS_Subset
<1>5. Cardinality(old) <= Rate /\ Cardinality(late) < Rate
  BY DEF RateHolds, Free, Recent
<1>6. CASE clock \in t .. t + Window
  <2>1. old \subseteq late
    BY <1>2, <1>6, Numbers
  <2>2. Cardinality(old) <= Cardinality(late)
    BY <1>4, <2>1, FS_Subset
  <2>3. new = old \cup {n + 1}
    BY <1>2, <1>6
  <2> HIDE DEF old, late, new
  <2>4. Cardinality(new) \in {Cardinality(old), Cardinality(old) + 1}
    BY <1>4, <2>3, FS_AddElement
  <2>5. Cardinality(old) \in Nat /\ Cardinality(late) \in Nat
    BY <1>4, FS_CardinalityType
  <2>6. Cardinality(new) <= Rate
    BY <1>5, <2>2, <2>4, <2>5, Numbers
  <2> QED  BY <2>6 DEF new
<1>7. CASE clock \notin t .. t + Window
  <2>1. new = old
    BY <1>2, <1>7
  <2> QED  BY <1>5, <2>1
<1> QED  BY <1>6, <1>7

-----------------------------------------------------------------------------
\* A sequence of a finite set is one of its members.
LEMMA SeqOfNewsOK ==
    ASSUME NEW S, IsFiniteSet(S)
    PROVE  SetToSeq(S) \in Seq(S)
<1> DEFINE n == Cardinality(S)
           f == SetToSeq(S)
<1>1. n \in Nat /\ ExistsBijection(1 .. n, S)
  BY FS_CardinalityType
<1>2. \E g \in [1 .. n -> S] : IsInjective(g)
  BY <1>1 DEF ExistsBijection, Bijection, Injection
<1>3. f \in [1 .. n -> S]
  BY <1>2 DEF SetToSeq
<1> HIDE DEF f
<1>4. f \in Seq(S)
  BY <1>1, <1>3, SeqDef
<1> QED  BY <1>4 DEF f

\* A budget that is used up is no failure of the provider.
LEMMA ExhaustedOK ==
    ASSUME NEW code \in {"runtime_seconds", "search_calls"}, work \in WorkType, Remembered
    PROVE  LET w == Exhausted(code) IN
           /\ w = [work EXCEPT !.exhausted = TRUE, !.limitations = work.limitations \cup {code}]
           /\ w \in WorkType /\ w.round = work.round /\ w.searches = work.searches
           /\ w.at = work.at /\ w.phase = work.phase
           /\ w.failed = (w.limitations \cap SearchFailure # {})
  BY DEF Exhausted, WorkType, Remembered, Limitation, SearchFailure

\* Neither is a round without news.
LEMMA LeaveOK ==
    ASSUME NEW w \in WorkType, NEW us, w.failed = (w.limitations \cap SearchFailure # {})
    PROVE  LET v == Leave(w, us) IN
           /\ v \in WorkType /\ v.round = w.round + 1 /\ v.searches = w.searches
           /\ v.phase = "route" /\ v.failed = (v.limitations \cap SearchFailure # {})
<1> DEFINE l == IF ~w.progressed /\ \A i \in DOMAIN us : us[i].done
                THEN w.limitations \cup {"no_new_url"} ELSE w.limitations
           v == Leave(w, us)
<1>1. l \in SUBSET Limitation /\ l \cap SearchFailure = w.limitations \cap SearchFailure
  BY DEF WorkType, Limitation, SearchFailure
<1> HIDE DEF l
<1>2. v = [w EXCEPT !.phase = "route", !.round = w.round + 1, !.at = 0,
                    !.limitations = l, !.progressed = FALSE]
  BY DEF Leave, l
<1> HIDE DEF v
<1>3. v \in WorkType /\ v.round = w.round + 1 /\ v.searches = w.searches
      /\ v.phase = "route" /\ v.failed = w.failed /\ v.limitations = l
  <2>1. /\ w \in WorkType /\ w.round + 1 \in Nat /\ 0 \in Nat /\ "route" \in Phase
        /\ FALSE \in BOOLEAN
    BY DEF WorkType, Phase
  <2>2. v \in WorkType
    BY <1>1, <1>2, <2>1 DEF WorkType
  <2>3. /\ v.round = w.round + 1 /\ v.searches = w.searches /\ v.phase = "route"
        /\ v.failed = w.failed /\ v.limitations = l
    BY <1>2 DEF WorkType
  <2> QED  BY <2>2, <2>3
<1> QED  BY <1>1, <1>3 DEF v

\* While the bundle is not touched, the guard agrees.
LEMMA BundleKept ==
    ASSUME GuardAgrees, UNCHANGED bundle
    PROVE  GuardAgrees'
  BY DEF GuardAgrees, Blocked, Leaks

\* The steps of the graph, one by one.
LEMMA ExecuteOK == ASSUME ResearchInv, Execute PROVE ResearchInv'
<1> USE DEF ResearchInv
<1>1. /\ work' \in WorkType /\ work'.round = work.round /\ work'.searches = work.searches
      /\ work'.phase \in {"plan", "done"} /\ work'.failed = work.failed
      /\ work'.limitations = work.limitations
  <2>1. work' = [work EXCEPT !.phase = "done"]
        \/ work' = [work EXCEPT !.phase = "plan", !.started = clock]
    BY DEF Execute, Ends
  <2> QED  BY <2>1 DEF Typed, WorkType, Phase
<1>2. status' \in ObsStatuses
  BY DEF Execute, Ends, ObsStatuses, Typed
<1>3. Typed' /\ UnitsBounded' /\ RateHolds'
  BY <1>1, <1>2 DEF Execute, Typed, UnitsBounded, RateHolds, UnitBounded
<1>4. Budgets'
  BY <1>1 DEF Execute, Budgets
<1>5. Position' /\ Remembered'
  BY <1>1 DEF Position, Remembered
<1>6. GuardAgrees'
  <2>1. CASE UNCHANGED bundle
    BY <2>1, BundleKept
  <2>2. ASSUME NEW words \in BOOLEAN,
               bundle' = [NoBundle EXCEPT !.status = "NEEDS_CLARIFICATION", !.words = words]
        PROVE  GuardAgrees'
    BY <2>2 DEF GuardAgrees, Blocked, Leaks, NoBundle
  <2> QED  BY <2>1, <2>2 DEF Execute
<1> QED  BY <1>3, <1>4, <1>5, <1>6

\* The plan opens the units and begins the first round.
LEMMA PlanOK == ASSUME ResearchInv, NEW n \in 1 .. MaxUnits, Plan(n) PROVE ResearchInv'
<1> USE DEF ResearchInv
<1>1. /\ work' \in WorkType /\ work'.round = work.round /\ work'.searches = work.searches
      /\ work'.phase = "round" /\ work'.failed = work.failed
      /\ work'.limitations = work.limitations
  BY DEF Plan, Typed, WorkType, Phase
<1>2. /\ units' \in Seq(UnitType) /\ Len(units') = n
      /\ \A i \in 1 .. n : units'[i] = Unit
  <2>1. Unit \in UnitType
    BY DEF Unit, UnitType
  <2>2. n \in Nat
    BY Numbers
  <2>3. units' \in [1 .. n -> UnitType] /\ \A i \in 1 .. n : units'[i] = Unit
    BY <2>1 DEF Plan
  <2> QED  BY <2>2, <2>3, SeqDef, LenProperties
<1>3. Typed' /\ RateHolds'
  BY <1>1, <1>2 DEF Plan, Typed, RateHolds
<1>4. UnitsBounded'
  <2>1. request.stagnation \in Nat /\ n <= MaxUnits /\ request' = request
    BY Numbers DEF Typed, Requests, Plan
  <2> QED  BY <1>2, <2>1, Numbers DEF UnitsBounded, UnitBounded, Unit
<1>5. Budgets' /\ Position' /\ Remembered'
  BY <1>1 DEF Plan, Budgets, Position, Remembered
<1>6. GuardAgrees'
  BY BundleKept DEF Plan
<1> QED  BY <1>3, <1>4, <1>5, <1>6

\* A step that touches the graph's state and its units alone.
LEMMA GraphStep ==
    ASSUME ResearchInv, UNCHANGED <<request, clock, granted, bundle>>,
           work' \in WorkType, units' \in Seq(UnitType), status' \in ObsStatuses,
           UnitsBounded', Budgets', Position', Remembered'
    PROVE  ResearchInv'
<1>1. Typed' /\ RateHolds'
  BY DEF ResearchInv, Typed, RateHolds
<1>2. GuardAgrees'
  BY BundleKept DEF ResearchInv
<1> QED  BY <1>1, <1>2 DEF ResearchInv

\* A step that touches the graph's state alone.
LEMMA WorkStep ==
    ASSUME ResearchInv, UNCHANGED <<request, clock, granted, units, bundle, status>>,
           work' \in WorkType, Budgets', Position', Remembered'
    PROVE  ResearchInv'
<1>1. units' \in Seq(UnitType) /\ status' \in ObsStatuses /\ UnitsBounded'
  BY DEF ResearchInv, Typed, UnitsBounded, UnitBounded
<1> QED  BY <1>1, GraphStep

\* The head of a round ends the research, or begins a round that is left.
LEMMA RoundHeadOK == ASSUME ResearchInv, RoundHead PROVE ResearchInv'
<1>1. work \in WorkType /\ Remembered /\ work.round + 1 \in Nat /\ work.round < Rounds
  BY DEF ResearchInv, RoundHead, Typed, Budgets, WorkType
<1>2. ASSUME NEW code \in {"runtime_seconds", "search_calls"},
             work' = [Exhausted(code) EXCEPT !.phase = "route", !.round = @ + 1]
      PROVE  ResearchInv'
  <2> DEFINE w == Exhausted(code)
  <2>1. /\ w \in WorkType /\ w.round = work.round /\ w.searches = work.searches
        /\ w.failed = (w.limitations \cap SearchFailure # {})
    BY <1>1, ExhaustedOK
  <2>2. work' = [w EXCEPT !.phase = "route", !.round = w.round + 1]
    BY <1>2
  <2> HIDE DEF w
  <2>3. work' \in WorkType
    BY <1>1, <2>1, <2>2 DEF WorkType, Phase
  <2>4. /\ work'.phase = "route" /\ work'.round = work.round + 1
        /\ work'.searches = work.searches /\ work'.failed = w.failed
        /\ work'.limitations = w.limitations
    BY <2>1, <2>2 DEF WorkType
  <2>5. Budgets' /\ Position'
    BY <1>1, <2>4, Numbers DEF ResearchInv, Budgets, Position, WorkType
  <2>6. Remembered'
    BY <2>1, <2>4 DEF Remembered
  <2> QED  BY <2>3, <2>5, <2>6, WorkStep DEF RoundHead
<1>3. CASE work' = [work EXCEPT !.phase = "unit", !.at = 1]
  <2>1. /\ work' \in WorkType /\ work'.phase = "unit" /\ work'.at = 1
        /\ work'.round = work.round /\ work'.searches = work.searches
    BY <1>1, <1>3 DEF WorkType, Phase
  <2>2. work'.failed = work.failed /\ work'.limitations = work.limitations
    BY <1>1, <1>3 DEF WorkType
  <2>3. Budgets' /\ Position'
    BY <1>1, <2>1 DEF ResearchInv, Budgets, Position
  <2>4. Remembered'
    BY <1>1, <2>2 DEF Remembered
  <2> QED  BY <2>1, <2>3, <2>4, WorkStep DEF RoundHead
<1> QED  BY <1>2, <1>3 DEF RoundHead

\* A round that is left was one of the rounds there are.
LEMMA LeaveStep ==
    ASSUME ResearchInv, UNCHANGED <<request, clock, granted, units, bundle, status>>,
           NEW w \in WorkType, w.failed = (w.limitations \cap SearchFailure # {}),
           w.round = work.round, w.searches = work.searches, work.round < Rounds,
           work' = Leave(w, units)
    PROVE  ResearchInv'
<1>1. /\ work' \in WorkType /\ work'.round = work.round + 1
      /\ work'.searches = work.searches /\ work'.phase = "route"
      /\ work'.failed = (work'.limitations \cap SearchFailure # {})
  BY LeaveOK
<1>2. Remembered'
  BY <1>1 DEF Remembered
<1>3. Budgets' /\ Position'
  BY <1>1, Numbers DEF ResearchInv, Typed, WorkType, Budgets, Position
<1> QED  BY <1>1, <1>2, <1>3, WorkStep

\* Passing over a unit, entering it or leaving the round.
LEMMA NextUnitOK == ASSUME ResearchInv, NextUnit PROVE ResearchInv'
<1>1. /\ work \in WorkType /\ Remembered /\ work.round < Rounds /\ work.at \in Nat \ {0}
      /\ work.searches \in Nat /\ work.phase = "unit"
      /\ UNCHANGED <<request, clock, granted, units, bundle, status>>
  BY DEF ResearchInv, NextUnit, Typed, Budgets, WorkType, Position
<1>2. CASE work' = Leave(work, units)
  BY <1>1, <1>2, LeaveStep DEF Remembered
<1>3. ASSUME NEW code \in {"runtime_seconds", "search_calls"},
             work' = Leave(Exhausted(code), units)
      PROVE  ResearchInv'
  BY <1>1, <1>3, ExhaustedOK, LeaveStep
<1>4. CASE work' = [work EXCEPT !.at = work.at + 1]
  <2>1. /\ work' \in WorkType /\ work'.phase = "unit" /\ work'.at = work.at + 1
        /\ work'.round = work.round /\ work'.searches = work.searches
    <3>1. work.at + 1 \in Nat
      BY <1>1
    <3>2. work' \in WorkType
      BY <1>1, <1>4, <3>1 DEF WorkType
    <3> QED  BY <1>1, <1>4, <3>2 DEF WorkType
  <2>2. work'.failed = work.failed /\ work'.limitations = work.limitations
    BY <1>1, <1>4 DEF WorkType
  <2>3. Budgets' /\ Position' /\ Remembered'
    BY <1>1, <2>1, <2>2 DEF ResearchInv, Budgets, Position, Remembered
  <2> QED  BY <1>1, <2>1, <2>3, WorkStep
<1>5. CASE work' = [work EXCEPT !.phase = "turn"] /\ work.at <= Len(units) /\ ~Spent
  <2>1. /\ work' \in WorkType /\ work'.phase = "turn" /\ work'.at = work.at
        /\ work'.round = work.round /\ work'.searches = work.searches
    BY <1>1, <1>5 DEF WorkType, Phase
  <2>2. work'.failed = work.failed /\ work'.limitations = work.limitations
    BY <1>1, <1>5 DEF WorkType
  <2>3. work.searches < Searches
    BY <1>1, <1>5, Numbers DEF Spent
  <2>4. Budgets' /\ Position' /\ Remembered'
    BY <1>1, <1>5, <2>1, <2>2, <2>3 DEF ResearchInv, Budgets, Position, Remembered
  <2> QED  BY <1>1, <2>1, <2>4, WorkStep
<1>6. Len(units) \in Nat
  BY DEF ResearchInv, Typed
<1> QED  BY <1>1, <1>2, <1>3, <1>4, <1>5, <1>6 DEF NextUnit, Past

\* Replacing one unit by another within its bounds.
LEMMA UnitsStep ==
    ASSUME units \in Seq(UnitType), UnitsBounded, request' = request,
           NEW k \in 1 .. Len(units), NEW u \in UnitType, UnitBounded(u, request.stagnation),
           units' = [units EXCEPT ![k] = u]
    PROVE  /\ units' \in Seq(UnitType) /\ Len(units') = Len(units) /\ UnitsBounded'
           /\ units'[k] = u
<1>1. /\ units' \in Seq(UnitType) /\ Len(units') = Len(units) /\ units'[k] = u
      /\ \A i \in 1 .. Len(units) : units'[i] = IF i = k THEN u ELSE units[i]
  BY ExceptSeq
<1>2. UnitsBounded'
  BY <1>1 DEF UnitsBounded
<1> QED  BY <1>1, <1>2

\* A search that was not available counts against its unit, which had a
\* search left and was not stopped.
LEMMA MissedOK ==
    ASSUME ResearchInv, NEW code \in SearchFailure, Missed(code),
           work.phase \in {"turn", "searching"}, ~Stops(units[work.at]),
           UNCHANGED <<request, clock, granted, bundle, status>>
    PROVE  ResearchInv'
<1> DEFINE u == units[work.at]
           v == WithoutBatch(u)
<1>1. /\ work \in WorkType /\ work.round < Rounds /\ work.at \in 1 .. Len(units)
      /\ work.searches < Searches /\ work.searches \in Nat /\ units \in Seq(UnitType)
      /\ UnitsBounded /\ work.round <= Rounds
  BY DEF ResearchInv, Typed, Budgets, WorkType, Position
<1>2. u \in UnitType /\ request.stagnation \in Nat
  BY <1>1, ElementOfSeq, Numbers DEF ResearchInv, Typed, Requests
<1>3. u.calls < Calls /\ u.stagnant < request.stagnation
  BY <1>2, Numbers DEF Stops, UnitType
<1> HIDE DEF u
<1>4. v \in UnitType /\ UnitBounded(v, request.stagnation)
  <2>1. v = [u EXCEPT !.calls = u.calls + 1, !.stagnant = u.stagnant + 1]
    BY DEF WithoutBatch
  <2>2. u.calls + 1 \in Nat /\ u.stagnant + 1 \in Nat
    BY <1>2 DEF UnitType
  <2>3. v \in UnitType /\ v.calls = u.calls + 1 /\ v.stagnant = u.stagnant + 1
    BY <1>2, <2>1, <2>2 DEF UnitType
  <2>4. u.calls \in Nat /\ u.stagnant \in Nat
    BY <1>2 DEF UnitType
  <2> HIDE DEF v
  <2> QED  BY <1>2, <1>3, <2>3, <2>4, Numbers DEF UnitBounded
<1>5. units' = [units EXCEPT ![work.at] = v]
  BY DEF Missed, u
<1> HIDE DEF v
<1>6. units' \in Seq(UnitType) /\ Len(units') = Len(units) /\ UnitsBounded'
  BY <1>1, <1>4, <1>5, UnitsStep
<1>7. /\ work' \in WorkType /\ work'.phase = "unit" /\ work'.at = work.at + 1
      /\ work'.round = work.round /\ work'.searches = work.searches + 1
      /\ work'.failed = TRUE /\ work'.limitations = work.limitations \cup {code}
  <2>1. work' = [work EXCEPT !.phase = "unit", !.failed = TRUE,
                             !.searches = work.searches + 1, !.at = work.at + 1,
                             !.limitations = work.limitations \cup {code}]
    BY DEF Missed
  <2>2. /\ work.searches + 1 \in Nat /\ work.at + 1 \in Nat /\ "unit" \in Phase
        /\ work.limitations \cup {code} \in SUBSET Limitation
    BY <1>1 DEF WorkType, Limitation, Phase
  <2>3. work' \in WorkType
    BY <1>1, <2>1, <2>2 DEF WorkType
  <2>4. /\ work'.phase = "unit" /\ work'.at = work.at + 1
        /\ work'.round = work.round /\ work'.searches = work.searches + 1
    BY <1>1, <2>1 DEF WorkType
  <2>5. work'.failed = TRUE /\ work'.limitations = work.limitations \cup {code}
    BY <1>1, <2>1 DEF WorkType
  <2> QED  BY <2>3, <2>4, <2>5
<1>8. Budgets' /\ Position'
  BY <1>1, <1>7, Numbers DEF Budgets, Position
<1>9. Remembered'
  BY <1>7 DEF Remembered
<1>10. status' \in ObsStatuses
  BY DEF ResearchInv, Typed
<1> QED  BY <1>6, <1>7, <1>8, <1>9, <1>10, GraphStep

\* At a turn a search is left, so that one result at least is asked for.
LEMMA TurnOK == ASSUME ResearchInv, NEW query \in BOOLEAN, Turn(query) PROVE ResearchInv'
<1> DEFINE u == units[work.at]
           searches == ~Stops(u) /\ (u.calls = 0 \/ query)
<1>1. /\ work \in WorkType /\ work.round < Rounds /\ work.at \in 1 .. Len(units)
      /\ work.searches < Searches /\ work.searches \in Nat /\ units \in Seq(UnitType)
      /\ UnitsBounded /\ Remembered /\ status \in ObsStatuses
      /\ work.phase = "turn" /\ UNCHANGED <<request, clock, bundle>>
  BY DEF ResearchInv, Typed, Budgets, WorkType, Position, Turn
<1>2. u \in UnitType /\ UnitBounded(u, request.stagnation)
  BY <1>1, ElementOfSeq DEF UnitsBounded
<1>3. CASE /\ units' = [units EXCEPT ![work.at].done = TRUE]
           /\ work' = [work EXCEPT !.phase = "unit", !.at = work.at + 1]
           /\ UNCHANGED <<granted, status>>
  <2> DEFINE v == [u EXCEPT !.done = TRUE]
  <2>1. v \in UnitType /\ v.calls = u.calls /\ v.stagnant = u.stagnant
    BY <1>2 DEF UnitType
  <2>2. units' = [units EXCEPT ![work.at] = v]
    BY <1>3
  <2> HIDE DEF u, v
  <2>3. UnitBounded(v, request.stagnation)
    BY <1>2, <2>1 DEF UnitBounded
  <2>4. units' \in Seq(UnitType) /\ Len(units') = Len(units) /\ UnitsBounded'
    BY <1>1, <2>1, <2>2, <2>3, UnitsStep
  <2>5. work.at + 1 \in Nat /\ "unit" \in Phase
    BY <1>1 DEF Phase
  <2>6. work' \in WorkType
    BY <1>1, <1>3, <2>5 DEF WorkType
  <2>7. /\ work'.phase = "unit" /\ work'.at = work.at + 1
        /\ work'.round = work.round /\ work'.searches = work.searches
    BY <1>1, <1>3 DEF WorkType
  <2>8. work'.failed = work.failed /\ work'.limitations = work.limitations
    BY <1>1, <1>3 DEF WorkType
  <2>9. Budgets' /\ Position' /\ Remembered'
    BY <1>1, <2>7, <2>8 DEF ResearchInv, Budgets, Position, Remembered
  <2> QED  BY <1>1, <1>3, <2>4, <2>6, <2>9, GraphStep
<1>4. Results >= 1 /\ ~(Results < 1)
  BY <1>1, Numbers DEF Results
<1>5. CASE searches /\ Missed("ATOMIC_SEARCH_RATE_LIMITED") /\ UNCHANGED <<granted, status>>
  BY <1>1, <1>5, MissedOK DEF SearchFailure
<1>6. CASE /\ searches /\ Free /\ granted' = Append(granted, clock)
           /\ work' = [work EXCEPT !.phase = "searching"] /\ UNCHANGED <<units, status>>
  <2>1. granted' \in Seq(0 .. MaxClock) /\ RateHolds'
    BY <1>6, GrantOK DEF ResearchInv, Typed
  <2>2. work' \in WorkType
    BY <1>1, <1>6 DEF WorkType, Phase
  <2>3. /\ work'.phase = "searching" /\ work'.at = work.at
        /\ work'.round = work.round /\ work'.searches = work.searches
    BY <1>1, <1>6 DEF WorkType
  <2>4. work'.failed = work.failed /\ work'.limitations = work.limitations
    BY <1>1, <1>6 DEF WorkType
  <2>5. Typed' /\ UnitsBounded'
    BY <1>1, <1>6, <2>1, <2>2 DEF ResearchInv, Typed, UnitsBounded, UnitBounded
  <2>6. Position'
    BY <1>1, <1>6, <2>3 DEF Position, Stops
  <2>7. Budgets' /\ Remembered'
    BY <1>1, <2>3, <2>4 DEF ResearchInv, Budgets, Remembered
  <2>8. GuardAgrees'
    BY <1>1, BundleKept DEF ResearchInv
  <2> QED  BY <2>1, <2>5, <2>6, <2>7, <2>8 DEF ResearchInv
<1> QED  BY <1>3, <1>4, <1>5, <1>6 DEF Turn

\* A search that fails is a search that brought nothing.
LEMMA SearchFailsOK == ASSUME ResearchInv, SearchFails PROVE ResearchInv'
  BY MissedOK DEF SearchFails, SearchFailure, ResearchInv, Position

\* A search that answers keeps the unit within its stagnation.
LEMMA SearchAnswersOK ==
    ASSUME ResearchInv, NEW hits \in SUBSET Url, SearchAnswers(hits) PROVE ResearchInv'
<1> DEFINE u     == units[work.at]
           fresh == Fresh(u, hits)
           stale == IF fresh = {} THEN u.stagnant + 1 ELSE 0
           after == [u EXCEPT !.urls = u.urls \cup fresh, !.calls = u.calls + 1,
                              !.stagnant = stale]
           last  == [after EXCEPT !.done = Stops(after)]
           found == {[unit |-> work.at, url |-> x] : x \in fresh}
           news  == SetToSeq(found)
<1>1. /\ work \in WorkType /\ work.round < Rounds /\ work.at \in 1 .. Len(units)
      /\ work.searches < Searches /\ work.searches \in Nat /\ units \in Seq(UnitType)
      /\ UnitsBounded /\ Remembered /\ status \in ObsStatuses /\ ~Stops(u)
      /\ work.round <= Rounds /\ work.sources \in Seq(Source) /\ work.at + 1 \in Nat
      /\ UNCHANGED <<request, clock, granted, bundle, status>>
  BY DEF ResearchInv, Typed, Budgets, WorkType, Position, SearchAnswers
<1>2. /\ IsFiniteSet(hits)
      /\ units' = [units EXCEPT ![work.at] = last]
      /\ work' = [work EXCEPT !.phase = "unit", !.at = work.at + 1,
                              !.searches = work.searches + 1,
                              !.sources = work.sources \o news,
                              !.progressed = work.progressed \/ fresh # {}]
  BY DEF SearchAnswers
<1>3. u \in UnitType /\ request.stagnation \in Nat \ {0}
  BY <1>1, ElementOfSeq, Numbers DEF ResearchInv, Typed, Requests
<1>4. fresh \in SUBSET Url /\ IsFiniteSet(fresh)
  BY <1>2, FS_Subset DEF Fresh
<1>5. news \in Seq(Source)
  <2>1. IsFiniteSet(found)
    <3> DEFINE page == [x \in fresh |-> [unit |-> work.at, url |-> x]]
    <3>1. page \in Surjection(fresh, found)
      BY DEF Surjection
    <3> HIDE DEF page, found, fresh
    <3> QED  BY <1>4, <3>1, FS_Surjection
  <2>2. found \subseteq Source
    <3>1. work.at \in 1 .. MaxUnits
      BY <1>1, Numbers DEF UnitsBounded
    <3> QED  BY <1>4, <3>1 DEF Source
  <2> HIDE DEF found
  <2>3. news \in Seq(found)
    BY <2>1, SeqOfNewsOK
  <2> HIDE DEF news
  <2> QED  BY <2>2, <2>3, SeqMonotonic
<1> HIDE DEF news, fresh, u
<1>6. last \in UnitType /\ UnitBounded(last, request.stagnation)
  <2>1. u.calls \in Nat /\ u.stagnant \in Nat
    BY <1>3 DEF UnitType
  <2>2. u.calls < Calls /\ u.stagnant < request.stagnation
    BY <1>1, <1>3, <2>1, Numbers DEF Stops
  <2>3. u.calls + 1 \in Nat /\ stale \in Nat /\ stale <= request.stagnation
        /\ u.calls + 1 <= Calls
    BY <1>3, <2>1, <2>2, Numbers
  <2> HIDE DEF stale
  <2>4. u.urls \cup fresh \in SUBSET Url
    BY <1>3, <1>4 DEF UnitType
  <2>5. after \in UnitType /\ after.calls = u.calls + 1 /\ after.stagnant = stale
    BY <1>3, <2>3, <2>4 DEF UnitType
  <2> HIDE DEF after
  <2>6. Stops(after) \in BOOLEAN
    BY DEF Stops
  <2>7. last \in UnitType /\ last.calls = after.calls /\ last.stagnant = after.stagnant
    BY <2>5, <2>6 DEF UnitType
  <2> HIDE DEF last
  <2> QED  BY <2>3, <2>5, <2>7 DEF UnitBounded
<1> HIDE DEF last
<1>7. units' \in Seq(UnitType) /\ Len(units') = Len(units) /\ UnitsBounded'
  BY <1>1, <1>2, <1>6, UnitsStep
<1>8. /\ work' \in WorkType /\ work'.phase = "unit" /\ work'.at = work.at + 1
      /\ work'.round = work.round /\ work'.searches = work.searches + 1
  <2>1. /\ work.searches + 1 \in Nat /\ "unit" \in Phase
        /\ work.sources \o news \in Seq(Source)
    BY <1>1, <1>5, ConcatProperties DEF Phase
  <2>2. (work.progressed \/ fresh # {}) \in BOOLEAN
    OBVIOUS
  <2>3. work' \in WorkType
    BY <1>1, <1>2, <2>1, <2>2 DEF WorkType
  <2>4. /\ work'.phase = "unit" /\ work'.at = work.at + 1
        /\ work'.round = work.round /\ work'.searches = work.searches + 1
    BY <1>1, <1>2 DEF WorkType
  <2> QED  BY <2>3, <2>4
<1>9. work'.failed = work.failed /\ work'.limitations = work.limitations
  BY <1>1, <1>2 DEF WorkType
<1>10. Budgets' /\ Position' /\ Remembered'
  BY <1>1, <1>8, <1>9, Numbers DEF Budgets, Position, Remembered
<1> QED  BY <1>1, <1>7, <1>8, <1>10, GraphStep

\* A round is begun again only below its limit.
LEMMA RouteOK == ASSUME ResearchInv, RouteAfterResearcher PROVE ResearchInv'
<1>1. /\ work \in WorkType /\ Remembered /\ work.round <= Rounds /\ work.round \in Nat
      /\ UNCHANGED <<request, clock, granted, units, bundle, status>>
  BY DEF ResearchInv, RouteAfterResearcher, Typed, Budgets, WorkType
<1>2. PICK p \in {"assemble", "round"} :
           work' = [work EXCEPT !.phase = p] /\ (p = "round" => work.round < Rounds)
  BY <1>1, Numbers DEF RouteAfterResearcher, Enough
<1>3. /\ work' \in WorkType /\ work'.phase = p
      /\ work'.round = work.round /\ work'.searches = work.searches
  BY <1>1, <1>2 DEF WorkType, Phase
<1>4. work'.failed = work.failed /\ work'.limitations = work.limitations
  BY <1>1, <1>2 DEF WorkType
<1>5. Budgets' /\ Position' /\ Remembered'
  BY <1>1, <1>2, <1>3, <1>4 DEF ResearchInv, Budgets, Position, Remembered
<1> QED  BY <1>1, <1>3, <1>5, WorkStep

\* The bundle the assembly makes passes the guard.
LEMMA AssembleOK ==
    ASSUME ResearchInv, NEW summary \in BOOLEAN, NEW words \in BOOLEAN,
           Assemble(summary, words)
    PROVE  ResearchInv'
<1> DEFINE s       == Gated(BundleStatus(summary))
           more    == IF work.failed /\ Found = {} THEN {"ATOMIC_SEARCH_UNAVAILABLE"}
                      ELSE IF Found = {} THEN {"no_sources"} ELSE {}
           sources == {[id |-> i, url |-> work.sources[i].url] : i \in Found}
<1>1. /\ work \in WorkType /\ Remembered /\ work.phase = "assemble"
      /\ UNCHANGED <<request, clock, granted, units>>
  BY DEF ResearchInv, Typed, Assemble
<1>2. /\ bundle' = [status |-> s, sources |-> sources,
                    findings |-> {[id |-> i, sources |-> {i}] : i \in Found},
                    limitations |-> work.limitations \cup more, words |-> words]
      /\ status' = ObsStatus(bundle') /\ work' = [work EXCEPT !.phase = "done"]
  BY DEF Assemble, Ends
<1>3. s \in {"FAILED", "LIMITED", "PARTIAL", "COMPLETE"}
  BY DEF Gated, BundleStatus
<1>4. s = "COMPLETE" => ~work.failed /\ Found # {}
  BY DEF Gated, BundleStatus
<1> HIDE DEF s, more
<1>5. status' \in ObsStatuses
  BY <1>2, <1>3 DEF ObsStatus, ObsStatuses
<1>6. /\ work' \in WorkType /\ work'.phase = "done"
      /\ work'.round = work.round /\ work'.searches = work.searches
  BY <1>1, <1>2 DEF WorkType, Phase
<1>7. work'.failed = work.failed /\ work'.limitations = work.limitations
  BY <1>1, <1>2 DEF WorkType
<1>8. Budgets' /\ Position' /\ Remembered'
  BY <1>1, <1>6, <1>7 DEF ResearchInv, Budgets, Position, Remembered
<1>9. Typed' /\ UnitsBounded' /\ RateHolds'
  BY <1>1, <1>5, <1>6 DEF ResearchInv, Typed, UnitsBounded, UnitBounded, RateHolds
<1>10. GuardAgrees'
  <2>1. s = "COMPLETE" => sources # {} /\ (work.limitations \cup more) \cap SearchFailure = {}
    BY <1>1, <1>4 DEF Remembered, more
  <2>2. \A f \in bundle'.findings : f.sources # {} /\ f.sources \cap {x.id : x \in sources} # {}
    <3> SUFFICES ASSUME NEW i \in Found
                 PROVE  /\ [id |-> i, sources |-> {i}].sources # {}
                        /\ [id |-> i, sources |-> {i}].sources
                              \cap {x.id : x \in sources} # {}
      BY <1>2
    <3>1. [id |-> i, url |-> work.sources[i].url] \in sources
      OBVIOUS
    <3> HIDE DEF sources
    <3>2. [id |-> i, url |-> work.sources[i].url].id \in {x.id : x \in sources}
      BY <3>1
    <3> QED  BY <3>2
  <2> HIDE DEF sources
  <2> QED  BY <1>2, <2>1, <2>2 DEF GuardAgrees, Blocked
<1> QED  BY <1>8, <1>9, <1>10 DEF ResearchInv

\* Time changes nothing but the clock.
LEMMA TimeOK == ASSUME ResearchInv, Clock PROVE ResearchInv'
<1>1. clock' \in 0 .. MaxClock /\ UNCHANGED <<request, granted, work, units, bundle, status>>
  BY Numbers DEF ResearchInv, Typed, Clock
<1>2. Typed'
  BY <1>1 DEF ResearchInv, Typed
<1>3. Budgets' /\ Position' /\ UnitsBounded' /\ Remembered' /\ RateHolds'
  BY <1>1 DEF ResearchInv, Budgets, Position, UnitsBounded, UnitBounded, Remembered,
              RateHolds, Stops
<1> QED  BY <1>1, <1>2, <1>3, BundleKept DEF ResearchInv

\* Another research of the process takes from the same limiter.
LEMMA OtherOK == ASSUME ResearchInv, Other PROVE ResearchInv'
<1>1. granted' \in Seq(0 .. MaxClock) /\ RateHolds'
  BY GrantOK DEF Other, ResearchInv, Typed
<1>2. UNCHANGED <<request, clock, work, units, bundle, status>>
  BY DEF Other
<1>3. Typed'
  BY <1>1, <1>2 DEF ResearchInv, Typed
<1>4. Budgets' /\ Position' /\ UnitsBounded' /\ Remembered'
  BY <1>2 DEF ResearchInv, Budgets, Position, UnitsBounded, UnitBounded, Remembered,
     Stops
<1> QED  BY <1>1, <1>2, <1>3, <1>4, BundleKept DEF ResearchInv

\* The invariant is inductive.
LEMMA ResearchNextOK == ResearchInv /\ [ResearchNext]_researchVars => ResearchInv'
<1> SUFFICES ASSUME ResearchInv, [ResearchNext]_researchVars PROVE ResearchInv'
  OBVIOUS
<1>1. CASE ResearchNext
  BY <1>1, ExecuteOK, PlanOK, RoundHeadOK, NextUnitOK, TurnOK, SearchFailsOK,
     SearchAnswersOK, RouteOK, AssembleOK, TimeOK, OtherOK DEF ResearchNext, Proceed
<1>2. CASE UNCHANGED researchVars
  <2>1. UNCHANGED <<request, clock, granted, bundle, status, work, units>>
    BY <1>2 DEF researchVars
  <2> QED  BY <2>1, BundleKept DEF ResearchInv, Typed, Budgets, Position, UnitsBounded,
              UnitBounded, Remembered, RateHolds, Stops
<1> QED  BY <1>1, <1>2

\* The graph's state has its form and every number in it stays within its
\* budget.
THEOREM ResearchTyped == ResearchSpec => []ResearchTypeOK
<1>1. ResearchInv => ResearchTypeOK
  <2> SUFFICES ASSUME ResearchInv PROVE ResearchTypeOK
    OBVIOUS
  <2>1. /\ work.phase \in Phase /\ work.searches \in 0 .. Searches
        /\ work.round \in 0 .. Rounds /\ work.sources \in Seq(Source)
        /\ work.limitations \subseteq Limitation
    BY Numbers DEF ResearchInv, Typed, Budgets, WorkType
  <2>2. request.stagnation \in Nat
    BY Numbers DEF ResearchInv, Typed, Requests
  <2>3. ASSUME NEW i \in DOMAIN units
        PROVE  /\ units[i].urls \subseteq Url
               /\ units[i].calls \in 0 .. Calls /\ units[i].stagnant \in 0 .. request.stagnation
    <3>1. i \in 1 .. Len(units) /\ units[i] \in UnitType
      BY LenProperties, ElementOfSeq DEF ResearchInv, Typed
    <3>2. UnitBounded(units[i], request.stagnation)
      BY <3>1 DEF ResearchInv, UnitsBounded
    <3> QED  BY <2>2, <3>1, <3>2, Numbers DEF UnitType, UnitBounded
  <2> QED  BY <2>1, <2>3 DEF ResearchInv, Typed, ResearchTypeOK, UnitsBounded, Phase, Source,
              ObsStatuses
<1> QED  BY <1>1, ResearchInitOK, ResearchNextOK, PTL DEF ResearchSpec

\* The limiter lets no more than Rate searches through in any stretch of
\* time of the window's length, whoever asks for them.
THEOREM RateHeld == ResearchSpec => []RateHolds
<1>1. ResearchInv => RateHolds
  BY DEF ResearchInv
<1> QED  BY <1>1, ResearchInitOK, ResearchNextOK, PTL DEF ResearchSpec

\* A search is never asked for less than one result, so that no research is
\* lost to the contract of the request.
THEOREM NeverRaised == ResearchSpec => []NeverRaises
<1>1. ResearchInv => NeverRaises
  BY DEF ResearchInv, Typed, ObsStatuses, NeverRaises
<1> QED  BY <1>1, ResearchInitOK, ResearchNextOK, PTL DEF ResearchSpec

\* The data-quality guard finds in a bundle only what came with the pages and
\* the words, a secret term or an address that is not http, and no fault of
\* the assembly.
THEOREM GuardAlwaysAgrees == ResearchSpec => []GuardAgrees
<1>1. ResearchInv => GuardAgrees
  BY DEF ResearchInv
<1> QED  BY <1>1, ResearchInitOK, ResearchNextOK, PTL DEF ResearchSpec

-----------------------------------------------------------------------------
(* The inductive invariant of a call: how each part came to be answered,   *)
(* and that the outcome is the wrapped observation of the parts.           *)

Mcp == {"cn-financial-mcp", "akshare-one-mcp"}
McpRoutes == {<<"cn-financial-mcp">>, <<"cn-financial-mcp", "akshare-one-mcp">>,
              <<"akshare-one-mcp", "cn-financial-mcp">>}
NoReply == [kind |-> "empty", marks |-> {}]
Leg == [at : {1, 2}, state : {"waiting", "answered", "lost"}, reply : Reply]

\* The reply of the source now asked, which the adapter could use.
Answer(card, leg) ==
    /\ leg.reply \in RepliesOf(Route(card)[leg.at], card.parameters)
    /\ Usable(Route(card)[leg.at], leg.reply.kind)
LegOK(card, leg) ==
    /\ leg.at \in 1 .. Len(Route(card))
    /\ leg.state = "answered" => Answer(card, leg)
    /\ leg.state # "answered" => leg.reply = NoReply
    /\ leg.state = "lost" => card.name \in Market
LegsOK(card, legs) ==
    /\ legs \in [Legs(card.name) -> Leg]
    /\ \A l \in Legs(card.name) : LegOK(card, legs[l])

\* A call in flight has a card of the catalogue and every part in order.
Awaiting ==
    call.stage = "waiting" =>
        /\ call = [stage |-> "waiting", card |-> call.card, legs |-> call.legs]
        /\ call.card \in cards /\ Immediate(call.card) = {} /\ LegsOK(call.card, call.legs)

\* What a finished call hands the loop is its observation, after the guard.
Ended ==
    Done =>
        /\ call.card \in cards
        /\ \/ /\ call.legs = <<>>
              /\ \E obs \in Immediate(call.card) : call.outcome = Outcome(obs)
           \/ /\ Immediate(call.card) = {} /\ LegsOK(call.card, call.legs)
              /\ \A l \in DOMAIN call.legs : call.legs[l].state # "waiting"
              /\ call.outcome = Outcome(Observation(call.card, call.legs))

\* The catalogue is empty, or that of a registry the start accepted.
Started ==
    /\ registry \in Registries /\ settings \in SettingsSpace
    /\ call.stage \in {"starting", "refused", "idle", "waiting", "done"}
    /\ \/ cards = {}
       \/ StartChecks /\ cards = Catalogue(registry, settings)

CallInv == Started /\ Awaiting /\ Ended

-----------------------------------------------------------------------------
\* Where a call that awaits something is sent.
LEMMA Routes ==
    ASSUME NEW card, Immediate(card) = {}
    PROVE  \/ card.name \in Market /\ Route(card) \in McpRoutes
           \/ /\ card.name \notin Market /\ Legs(card.name) = {"main"}
              /\ \/ card.name = MemoryRecall /\ Route(card) = <<"memory">>
                 \/ card.name = DeepSearch /\ Route(card) = <<"research">>
                 \/ card.name = WebSearch /\ Route(card) = <<"web-search">>
                 \/ card.name \in Owned /\ Route(card) = <<"java-api">>
<1>1. CASE card.name \in Market
  <2>1. card.name \notin {MemoryRecall, DeepSearch, WebSearch} \cup Owned
    BY <1>1 DEF Market, Owned, MemoryRecall, DeepSearch,
       WebSearch
  <2>2. Route(card) = McpRoute[card.name]
    BY <1>1, <2>1 DEF Route
  <2>3. McpRoute[card.name] \in McpRoutes
    BY <1>1 DEF McpRoute, McpRoutes, Market, Statements
  <2> QED  BY <1>1, <2>2, <2>3
<1>2. CASE card.name \notin Market
  <2>1. Route(card) # <<>>
    BY DEF Immediate, Route, DeepSearch, WebSearch, Valuation,
       Analysis, Obs, Raised, Dict, Unavailable
  <2>2. card.name \in {MemoryRecall, DeepSearch, WebSearch} \cup Owned
    BY <1>2, <2>1 DEF Route
  <2>3. Legs(card.name) = {"main"}
    BY <1>2 DEF Legs, Statements, Market
  <2> QED  BY <1>2, <2>2, <2>3 DEF Route, Owned, MemoryRecall,
              DeepSearch, WebSearch
<1> QED  BY <1>1, <1>2

\* What comes back is a reply, and MCP servers serve the market alone.
LEMMA Replies ==
    ASSUME NEW card, Immediate(card) = {}, NEW i \in 1 .. Len(Route(card))
    PROVE  /\ i \in {1, 2}
           /\ RepliesOf(Route(card)[i], card.parameters) \subseteq Reply
           /\ card.name \in Market <=> Route(card)[i] \in Mcp
<1>1. /\ i \in {1, 2} /\ Route(card)[i] \in Server
      /\ card.name \in Market <=> Route(card)[i] \in Mcp
  <2>1. \A r \in McpRoutes : \A k \in 1 .. Len(r) : k \in {1, 2} /\ r[k] \in Mcp
    <3>1. \A a : Len(<<a>>) = 1 /\ <<a>>[1] = a
      OBVIOUS
    <3>2. \A a, b : Len(<<a, b>>) = 2 /\ <<a, b>>[1] = a /\ <<a, b>>[2] = b
      OBVIOUS
    <3>3. SUFFICES ASSUME NEW r \in McpRoutes, NEW k \in 1 .. Len(r)
                   PROVE  k \in {1, 2} /\ r[k] \in Mcp
      OBVIOUS
    <3>4. CASE r = <<"cn-financial-mcp">>
      BY <3>1, <3>4 DEF Mcp
    <3>5. CASE r = <<"cn-financial-mcp", "akshare-one-mcp">>
      BY <3>2, <3>5 DEF Mcp
    <3>6. CASE r = <<"akshare-one-mcp", "cn-financial-mcp">>
      BY <3>2, <3>6 DEF Mcp
    <3> QED  BY <3>4, <3>5, <3>6 DEF McpRoutes
  <2>2. CASE card.name \in Market
    BY <2>1, <2>2, Routes DEF Mcp, Server
  <2>3. CASE card.name \notin Market
    <3>1. PICK s \in Server \ Mcp : Route(card) = <<s>>
      BY <2>3, Routes DEF Server, Mcp
    <3> QED  BY <2>3, <3>1
  <2> QED  BY <2>2, <2>3
<1>2. \A a : \A s \in Server : RepliesOf(s, a) \subseteq Reply
  BY DEF RepliesOf, OfData, Reply, Server, McpReply, Mark, Status
<1> QED  BY <1>1, <1>2

\* No call was made.
LEMMA CallInitOK == Init => CallInv
  BY DEF Init, CallInv, Started, Awaiting, Ended, Done

\* A new call has its parts in order.
LEMMA WaitingOK ==
    ASSUME NEW card, Immediate(card) = {}
    PROVE  LegsOK(card, Waiting(card).legs)
<1>1. NoReply \in Reply
  BY DEF NoReply, Reply, McpReply
<1>2. 1 \in 1 .. Len(Route(card))
  BY Routes DEF McpRoutes
<1> QED  BY <1>1, <1>2 DEF LegsOK, LegOK, Waiting, Leg, NoReply

\* One attempt at a part: answered, tried at the fallback, or lost.
LEMMA AttemptOK ==
    ASSUME NEW card, Immediate(card) = {}, NEW leg \in Leg, LegOK(card, leg),
           leg.state = "waiting",
           NEW reply \in RepliesOf(Route(card)[leg.at], card.parameters),
           NEW next, next = IF Usable(Route(card)[leg.at], reply.kind)
                            THEN [leg EXCEPT !.state = "answered", !.reply = reply]
                            ELSE NextTarget(leg, Route(card))
    PROVE  next \in Leg /\ LegOK(card, next)
<1> DEFINE route == Route(card)
<1>1. leg.at \in {1, 2} /\ leg.at \in 1 .. Len(route) /\ reply \in Reply /\ leg.reply = NoReply
  BY Replies DEF LegOK
<1>2. Len(route) \in {1, 2}
  BY Routes DEF McpRoutes
<1>3. CASE Usable(route[leg.at], reply.kind)
  <2>1. next = [leg EXCEPT !.state = "answered", !.reply = reply]
    BY <1>3
  <2>2. next \in Leg /\ next.at = leg.at /\ next.state = "answered" /\ next.reply = reply
    BY <1>1, <2>1 DEF Leg
  <2> QED  BY <1>1, <1>3, <2>2 DEF LegOK, Answer
<1>4. CASE ~Usable(route[leg.at], reply.kind)
  <2>1. next = NextTarget(leg, route)
    BY <1>4
  <2>2. CASE leg.at < Len(route)
    <3>1. next = [leg EXCEPT !.at = leg.at + 1]
      BY <2>1, <2>2 DEF NextTarget
    <3>2. \A a, b \in {1, 2} : a < b => a + 1 \in {1, 2} /\ a + 1 \in 1 .. b
      OBVIOUS
    <3>3. leg.at + 1 \in {1, 2} /\ leg.at + 1 \in 1 .. Len(route)
      BY <1>1, <1>2, <2>2, <3>2
    <3>4. next \in Leg /\ next.at = leg.at + 1 /\ next.state = "waiting" /\ next.reply = NoReply
      BY <1>1, <3>1, <3>3 DEF Leg
    <3> QED  BY <3>4, <3>3 DEF LegOK
  <2>3. CASE ~(leg.at < Len(route))
    <3>1. next = [leg EXCEPT !.state = "lost"]
      BY <2>1, <2>3 DEF NextTarget
    <3>2. next \in Leg /\ next.at = leg.at /\ next.state = "lost" /\ next.reply = NoReply
      BY <1>1, <3>1 DEF Leg
    <3>3. card.name \in Market
      BY <1>1, <1>4, Replies DEF Usable, Mcp
    <3> QED  BY <1>1, <3>2, <3>3 DEF LegOK
  <2> QED  BY <2>2, <2>3
<1> QED  BY <1>3, <1>4

\* The steps of the process, one by one.
LEMMA StartOK == ASSUME CallInv, Start PROVE CallInv'
<1>1. Started'
  BY DEF CallInv, Started, Start, StartChecks, NoCall
<1>2. Awaiting' /\ Ended'
  BY DEF Start, NoCall, Awaiting, Ended, Done
<1> QED  BY <1>1, <1>2 DEF CallInv

\* A process that refuses to start serves nothing.
LEMMA RefuseOK == ASSUME CallInv, Refuse PROVE CallInv'
<1>1. Started'
  BY DEF CallInv, Started, Refuse, StartChecks
<1>2. Awaiting' /\ Ended'
  BY DEF Refuse, Awaiting, Ended, Done
<1> QED  BY <1>1, <1>2 DEF CallInv

\* A call is answered at once, or waits with every part in order.
LEMMA CallOK == ASSUME CallInv, NEW card \in cards, Call(card) PROVE CallInv'
<1>1. UNCHANGED <<registry, settings, cards>> /\ Immediate(card)' = Immediate(card)
  BY DEF Call, Immediate, DeepEnabled
<1>2. CASE Immediate(card) = {}
  <2>1. call' = Waiting(card)
    BY <1>2 DEF Call
  <2>2. /\ call'.stage = "waiting" /\ call'.card = card /\ call'.legs = Waiting(card).legs
        /\ call' = [stage |-> "waiting", card |-> call'.card, legs |-> call'.legs]
    BY <2>1 DEF Waiting
  <2>3. Started'
    BY <1>1, <2>2 DEF CallInv, Started, StartChecks
  <2>4. LegsOK(card, call'.legs)
    BY <1>2, <2>2, WaitingOK
  <2>5. Awaiting'
    BY <1>1, <1>2, <2>2, <2>4 DEF Awaiting, LegsOK, LegOK, Answer
  <2> QED  BY <2>2, <2>3, <2>5 DEF CallInv, Ended, Done
<1>3. CASE Immediate(card) # {}
  <2>1. PICK obs \in Immediate(card) :
             call' = [stage |-> "done", card |-> card, outcome |-> Outcome(obs), legs |-> <<>>]
    BY <1>3 DEF Call
  <2>2. Started'
    BY <1>1, <2>1 DEF CallInv, Started, StartChecks
  <2>3. Ended'
    BY <1>1, <2>1 DEF Ended
  <2> QED  BY <2>1, <2>2, <2>3 DEF CallInv, Awaiting
<1> QED  BY <1>2, <1>3

\* A reply, an error or a silence leaves its part in order.
LEMMA ReturnOK == ASSUME CallInv, NEW l, Return(l) PROVE CallInv'
<1> DEFINE card == call.card
           legs == call.legs
           leg  == legs[l]
<1>1. /\ call = [stage |-> "waiting", card |-> card, legs |-> legs] /\ card \in cards
      /\ Immediate(card) = {} /\ LegsOK(card, legs) /\ l \in DOMAIN legs
      /\ UNCHANGED <<registry, settings, cards>>
  BY DEF CallInv, Awaiting, Return
<1>2. leg \in Leg /\ LegOK(card, leg) /\ leg.state = "waiting" /\ l \in Legs(card.name)
  BY <1>1 DEF LegsOK, Return
<1>3. PICK reply \in RepliesOf(Route(card)[leg.at], card.parameters) :
           call' = [call EXCEPT !.legs[l] =
                        IF Usable(Route(card)[leg.at], reply.kind)
                        THEN [leg EXCEPT !.state = "answered", !.reply = reply]
                        ELSE NextTarget(leg, Route(card))]
  BY DEF Return
<1> DEFINE next == IF Usable(Route(card)[leg.at], reply.kind)
                   THEN [leg EXCEPT !.state = "answered", !.reply = reply]
                   ELSE NextTarget(leg, Route(card))
           then == [legs EXCEPT ![l] = next]
<1>4. next \in Leg /\ LegOK(card, next)
  BY <1>1, <1>2, AttemptOK
<1>5. call' = [call EXCEPT !.legs = then]
  BY <1>3
<1> HIDE DEF next
<1>6. LegsOK(card, then)
  BY <1>1, <1>2, <1>4 DEF LegsOK
<1> HIDE DEF then
<1>7. call' = [stage |-> "waiting", card |-> card, legs |-> then]
  BY <1>1, <1>5
<1> HIDE DEF card, legs
<1>8. /\ call'.stage = "waiting" /\ call'.card = card /\ call'.legs = then
      /\ call' = [stage |-> "waiting", card |-> call'.card, legs |-> call'.legs]
  BY <1>7
<1>9. Started'
  BY <1>1, <1>8 DEF CallInv, Started, StartChecks
<1>10. Immediate(call.card)' = {}
  BY <1>1, <1>8 DEF Immediate, DeepEnabled
<1>11. Awaiting'
  BY <1>1, <1>6, <1>8, <1>10 DEF Awaiting
<1> QED  BY <1>8, <1>9, <1>11 DEF CallInv, Ended, Done

\* The parts settled, the outcome is that of their observation.
LEMMA FinishOK == ASSUME CallInv, Finish PROVE CallInv'
<1> DEFINE card == call.card
           legs == call.legs
<1>1. /\ card \in cards /\ Immediate(card) = {} /\ LegsOK(card, legs)
      /\ \A l \in DOMAIN legs : legs[l].state # "waiting"
      /\ UNCHANGED <<registry, settings, cards>>
      /\ call' = [stage |-> "done", card |-> card, legs |-> legs,
                  outcome |-> Outcome(Observation(card, legs))]
  BY DEF CallInv, Awaiting, Finish
<1> HIDE DEF card, legs
<1>2. /\ call'.stage = "done" /\ call'.card = card /\ call'.legs = legs
      /\ call'.outcome = Outcome(Observation(card, legs))
  BY <1>1
<1>3. Started'
  BY <1>1, <1>2 DEF CallInv, Started, StartChecks
<1>4. Immediate(call.card)' = {}
  BY <1>1, <1>2 DEF Immediate, DeepEnabled
<1>5. Ended'
  BY <1>1, <1>2, <1>4 DEF Ended
<1> QED  BY <1>2, <1>3, <1>5 DEF CallInv, Awaiting

\* The invariant is inductive.
LEMMA CallNextOK == CallInv /\ [Next]_vars => CallInv'
<1> SUFFICES ASSUME CallInv, [Next]_vars PROVE CallInv'
  OBVIOUS
<1>1. CASE Next
  BY <1>1, StartOK, RefuseOK, CallOK, ReturnOK, FinishOK DEF Next
<1>2. CASE UNCHANGED vars
  <2>1. UNCHANGED <<registry, settings, cards, call>>
    BY <1>2 DEF vars
  <2> QED  BY <2>1 DEF CallInv, Started, StartChecks, Awaiting, Ended, Done,
              Immediate, DeepEnabled
<1> QED  BY <1>1, <1>2

\* It holds in every state.
LEMMA CallAlways == Spec => []CallInv
  BY CallInitOK, CallNextOK, PTL DEF Spec

-----------------------------------------------------------------------------
(* From the observation to the outcome.                                   *)

IsObs(obs) == {"status", "marks"} \subseteq DOMAIN obs

\* The guard lets no failure through, nor any mark.
LEMMA OutcomeOf ==
    ASSUME NEW obs, IsObs(obs), obs.status # "RAISED"
    PROVE  LET o == Outcome(obs) IN
           /\ o.obs.status = obs.status
           /\ o.status = "SUCCESS" => /\ obs.status \notin {"FAILED", "UNAVAILABLE"}
                                      /\ obs.marks \cap Mark = {}
<1>1. obs # Raised
  BY DEF Raised, Obs
<1> DEFINE wrapped == Wrap(obs)
<1>2. wrapped.status = obs.status /\ wrapped.marks = obs.marks
  BY DEF Wrap, IsObs
<1> HIDE DEF wrapped
<1>3. Outcome(obs) =
          [status |-> IF Guard(wrapped) = "allow" THEN "SUCCESS" ELSE "REJECTED",
           code   |-> Guard(wrapped), obs |-> wrapped]
  BY <1>1 DEF Outcome, wrapped
<1>4. Guard(wrapped) = "allow" => /\ obs.status \notin {"FAILED", "UNAVAILABLE"}
                                  /\ obs.marks \cap Mark = {}
  BY <1>2 DEF Guard, Mark
<1> QED  BY <1>2, <1>3, <1>4

\* The other adapters await one source; a call that succeeds got an answer
\* from it that was no error and had no mark.
LEMMA OtherOutcome ==
    ASSUME NEW card, Immediate(card) = {}, card.name \notin Market,
           NEW legs, LegsOK(card, legs), legs["main"].state # "waiting",
           Outcome(Observation(card, legs)).status = "SUCCESS"
    PROVE  /\ DOMAIN legs = {"main"} /\ legs["main"].state = "answered"
           /\ legs["main"].reply.kind \notin {"raises", "is_error", "text_error", "json_error"}
           /\ legs["main"].reply.marks = {}
<1> DEFINE leg   == legs["main"]
           reply == leg.reply
<1>1. DOMAIN legs = {"main"} /\ leg \in Leg /\ LegOK(card, leg)
  BY Routes DEF LegsOK
<1>2. leg.state = "answered"
  BY <1>1 DEF LegOK, Leg
<1>3. PICK s : /\ Route(card) = <<s>>
               /\ s \in {"memory", "research", "web-search", "java-api"}
               /\ s = "research" => card.name = DeepSearch
               /\ s = "web-search" => card.name = WebSearch
               /\ s = "java-api" => card.name \in Owned
  BY Routes
<1>4. leg.at = 1 /\ Route(card)[leg.at] = s
  BY <1>1, <1>3 DEF LegOK
<1>5. reply \in RepliesOf(s, card.parameters)
  BY <1>1, <1>2, <1>4 DEF LegOK, Answer
<1> HIDE DEF leg, reply
<1>6. reply.kind \notin {"is_error", "text_error", "json_error"}
  BY <1>3, <1>5 DEF RepliesOf, Status
<1>7. Observation(card, legs) = ObsOf(card, reply)
  BY DEF Observation, reply, leg
<1>8. reply.kind = "raises" => ObsOf(card, reply) = OnError(card)
  BY DEF ObsOf, Status
<1>9. reply.kind # "raises"
  <2> SUFFICES ASSUME reply.kind = "raises" PROVE FALSE
    OBVIOUS
  <2>1. CASE card.name = DeepSearch
    <3>1. ObsOf(card, reply) = Raised
      BY <1>8, <2>1 DEF OnError
    <3> QED  BY <1>7, <3>1 DEF Outcome
  <2>2. CASE card.name # DeepSearch
    <3> DEFINE obs == ObsOf(card, reply)
    <3>1. IsObs(obs) /\ obs.status = "UNAVAILABLE"
      BY <1>8, <2>2 DEF OnError, IsObs, Unavailable, Obs
    <3> HIDE DEF obs
    <3>2. Outcome(obs).status # "SUCCESS"
      BY <3>1, OutcomeOf
    <3> QED  BY <1>7, <3>2 DEF obs
  <2> QED  BY <2>1, <2>2
<1>10. reply.marks = {}
  <2>1. CASE s = "memory"
    BY <1>5, <2>1 DEF RepliesOf
  <2>2. CASE s # "memory"
    <3> DEFINE obs == ObsOf(card, reply)
    <3>1. /\ reply.marks \in SUBSET Mark
          /\ reply.kind \in {"complete", "incomplete", "results", "results_errors", "nothing"}
                               \cup Status
      BY <1>3, <1>5, <1>9, <2>2 DEF RepliesOf, OfData, Mark
    <3>2. IsObs(obs) /\ obs.status # "RAISED" /\ obs.marks = reply.marks
      <4>1. CASE reply.kind \in {"complete", "results"}
        <5>1. obs = [Obs("SUCCESS") EXCEPT !.marks = reply.marks]
          BY <4>1 DEF ObsOf, Status
        <5> QED  BY <5>1 DEF IsObs, Obs
      <4>2. CASE reply.kind = "results_errors"
        <5>1. obs = [Obs("PARTIAL") EXCEPT !.marks = reply.marks]
          BY <4>2 DEF ObsOf, Status
        <5> QED  BY <5>1 DEF IsObs, Obs
      <4>3. CASE reply.kind \in {"incomplete", "nothing"}
        <5>1. obs = [Obs("PARTIAL") EXCEPT !.unavailable = {card.name}, !.marks = reply.marks]
          BY <4>3 DEF ObsOf, Status
        <5> QED  BY <5>1 DEF IsObs, Obs
      <4>4. CASE reply.kind \in Status
        <5>1. obs = [Obs(reply.kind) EXCEPT !.marks = reply.marks]
          BY <4>4 DEF ObsOf, Status
        <5> QED  BY <4>4, <5>1 DEF IsObs, Obs, Status
      <4> QED  BY <3>1, <4>1, <4>2, <4>3, <4>4
    <3> HIDE DEF obs
    <3>3. obs.marks \cap Mark = {}
      BY <1>7, <3>2, OutcomeOf DEF obs
    <3> QED  BY <3>1, <3>2, <3>3
  <2> QED  BY <1>3, <2>1, <2>2
<1> QED  BY <1>1, <1>2, <1>6, <1>9, <1>10 DEF leg, reply

-----------------------------------------------------------------------------
\* No error a source wrapped as an answer, in a form the adapter knows, stands
\* for a part of a result that the model is given.
THEOREM NoErrorIsData == Spec => []ErrorsAreNotData
<1>1. ASSUME CallInv PROVE ErrorsAreNotData
  <2> SUFFICES ASSUME Done, call.outcome.status = "SUCCESS", NEW l \in DOMAIN call.legs,
                      call.legs[l].state = "answered"
               PROVE  call.legs[l].reply.kind
                          \notin {"raises", "is_error", "text_error", "json_error"}
    BY DEF ErrorsAreNotData
  <2> DEFINE card == call.card
             legs == call.legs
  <2>1. /\ Immediate(card) = {} /\ LegsOK(card, legs)
        /\ call.outcome = Outcome(Observation(card, legs))
        /\ \A k \in DOMAIN legs : legs[k].state # "waiting"
    BY <1>1 DEF CallInv, Ended
  <2>2. legs[l] \in Leg /\ LegOK(card, legs[l]) /\ l \in Legs(card.name)
    BY <2>1 DEF LegsOK
  <2> HIDE DEF card, legs
  <2>3. CASE card.name \in Market
    <3>1. /\ Route(card)[legs[l].at] \in Mcp
          /\ Usable(Route(card)[legs[l].at], legs[l].reply.kind)
      BY <2>1, <2>2, <2>3, Replies DEF LegOK, Answer, legs
    <3> QED  BY <3>1 DEF Usable, Swallowed, Mcp, legs
  <2>4. CASE card.name \notin Market
    <3>1. l = "main"
      BY <2>1, <2>2, <2>4, Routes
    <3> QED  BY <2>1, <2>4, <3>1, <2>2, OtherOutcome DEF legs, LegsOK
  <2> QED  BY <2>3, <2>4
<1> QED  BY <1>1, CallAlways, PTL

\* No mark and no fault reaches the model in a result of a source that answers
\* with fields; of the market's texts nothing of the kind is claimed.
THEOREM OnlyRealDataPassed == Spec => []OnlyRealDataPasses
<1>1. ASSUME CallInv PROVE OnlyRealDataPasses
  <2> SUFFICES ASSUME Done, call.outcome.status = "SUCCESS", call.card.name \notin Market,
                      NEW l \in DOMAIN call.legs
               PROVE  call.legs[l].reply.marks = {}
    BY DEF OnlyRealDataPasses
  <2> DEFINE card == call.card
             legs == call.legs
  <2>1. /\ Immediate(card) = {} /\ LegsOK(card, legs)
        /\ call.outcome = Outcome(Observation(card, legs))
        /\ \A k \in DOMAIN legs : legs[k].state # "waiting"
    BY <1>1 DEF CallInv, Ended
  <2>2. card.name \notin Market /\ l \in Legs(card.name)
    BY <2>1 DEF LegsOK
  <2> HIDE DEF card, legs
  <2>3. l = "main"
    BY <2>1, <2>2, Routes
  <2> QED  BY <2>1, <2>2, <2>3, OtherOutcome DEF legs, LegsOK
<1> QED  BY <1>1, CallAlways, PTL

\* A capability that writes is in no catalogue the process serves; two rows
\* have different names, which are the key of their table.
THEOREM WritingNeverOffered == Spec => []WritingIsNotOffered
<1>1. ASSUME CallInv PROVE WritingIsNotOffered
  <2> SUFFICES ASSUME NEW c \in cards, NEW cap \in registry.capabilities, c.name = cap.name
               PROVE  cap.readOnly
    BY DEF WritingIsNotOffered
  <2>1. StartChecks /\ cards = Catalogue(registry, settings) /\ registry \in Registries
    BY <1>1 DEF CallInv, Started
  <2>2. cap.name \notin EngineTool
    BY <2>1 DEF StartChecks, Registrable
  <2>3. PICK row \in Menu(registry, settings) : c.name = row.name
    BY <2>1, <2>2 DEF Catalogue
  <2>4. row \in registry.capabilities /\ row.readOnly
    BY <2>3 DEF Menu, FeatureGate, Eligible
  <2>5. row = cap
    BY <2>1, <2>3, <2>4, RegistryAssumption
  <2> QED  BY <2>4, <2>5
<1> QED  BY <1>1, CallAlways, PTL

(* The tools whose contract and adapter contradict each other.             *)

Refusal == [Obs("FAILED") EXCEPT !.refused = TRUE, !.sourced = FALSE]

\* What the deep executor answers without a research.
LEMMA Refusals ==
    /\ IsObs(Refusal) /\ Refusal.status = "FAILED"
    /\ \A tool : IsObs(Unavailable(tool)) /\ Unavailable(tool).status = "UNAVAILABLE"
  BY DEF Refusal, IsObs, Obs, Unavailable

\* No call of a tool that reads the user's own data succeeds, nor one of
\* deep research: the contract forbids the argument the adapter demands.
UserDataIsNeverServed ==
    Done /\ call.card.name \in Owned \cup {DeepSearch} =>
        call.outcome.status # "SUCCESS"

\* So it is with every registry, every setting and every answer of the
\* data service: what the run tool_arguments finds is no accident of its
\* instance.
THEOREM UserDataNeverServed == Spec => []UserDataIsNeverServed
<1>1. ASSUME CallInv PROVE UserDataIsNeverServed
  <2> SUFFICES ASSUME Done, call.card.name \in Owned \cup {DeepSearch},
                      call.outcome.status = "SUCCESS"
               PROVE  FALSE
    BY DEF UserDataIsNeverServed
  <2> DEFINE card == call.card
             legs == call.legs
  <2>1. card \in SourceCards(registry) /\ card.name \notin EngineTool
    <3>1. card \in SourceCards(registry)
      BY <1>1 DEF CallInv, Ended, Started, Catalogue
    <3>2. card.name \notin EngineTool
      BY DEF Owned, DeepSearch, EngineTool, MemoryRecall,
         MetaSearch
    <3> QED  BY <3>1, <3>2
  <2>2. PICK cap : card = CardOf(cap)
    BY <2>1 DEF SourceCards, EngineCards
  <2>3. card.parameters = Parameters(card.name, cap.arguments)
    BY <2>2 DEF CardOf
  <2>4. CASE card.name = DeepSearch
    <3>1. card.parameters = {"question", "objective"}
      BY <2>3, <2>4 DEF Parameters, DeepSearch, Market, Owned,
         WebSearch, Analysis
    <3>2. Immediate(card) # {} /\ \A obs \in Immediate(card) :
              IsObs(obs) /\ obs.status \in {"UNAVAILABLE", "FAILED"}
      <4>1. ~(Needed(card.name) \subseteq card.parameters)
        BY <2>4, <3>1 DEF Needed
      <4>2. Immediate(card) =
                  IF ~DeepEnabled THEN {Unavailable(card.name)} ELSE {Refusal}
        BY <2>4, <4>1 DEF Immediate, Refusal
      <4> QED  BY <4>2, Refusals
    <3>3. PICK obs \in Immediate(card) : call.outcome = Outcome(obs)
      BY <1>1, <3>2 DEF CallInv, Ended
    <3> QED  BY <3>2, <3>3, OutcomeOf
  <2>5. CASE card.name \in Owned
    <3>1. card.name \notin Market /\ card.parameters = {}
      BY <2>3, <2>5 DEF Parameters, DeepSearch, Market, Owned,
         WebSearch, Analysis
    <3>2. CASE Immediate(card) = {}
      <4>1. /\ LegsOK(card, legs) /\ call.outcome = Outcome(Observation(card, legs))
            /\ \A k \in DOMAIN legs : legs[k].state # "waiting"
        BY <1>1, <3>2 DEF CallInv, Ended
      <4> HIDE DEF card, legs
      <4>2. DOMAIN legs = {"main"}
        BY <3>1, <3>2, <4>1, Routes DEF LegsOK
      <4>3. legs["main"].state = "answered" /\ legs["main"].reply.kind # "raises"
        BY <3>1, <3>2, <4>1, <4>2, OtherOutcome
      <4>4. Route(card) = <<"java-api">>
        BY <2>5, <3>1, <3>2, Routes DEF Owned, MemoryRecall, DeepSearch,
           WebSearch
      <4>5. legs["main"].reply \in RepliesOf("java-api", {})
        BY <3>1, <4>1, <4>2, <4>3, <4>4 DEF LegsOK, LegOK, Answer
      <4> QED  BY <4>3, <4>5 DEF RepliesOf
    <3>3. Immediate(card) = {}
      <4>1. card.name \notin Market \cup {MemoryRecall, DeepSearch, WebSearch,
                                              Valuation, Analysis}
        BY <2>5 DEF Owned, MemoryRecall, DeepSearch, WebSearch,
           Valuation, Analysis, Market
      <4> QED  BY <2>5, <4>1 DEF Immediate, Route
    <3> QED  BY <3>2, <3>3
  <2> QED  BY <2>4, <2>5
<1> QED  BY <1>1, CallAlways, PTL

\* The types of the catalogue and of the call.
THEOREM ToolTyped == Spec => []TypeOK
<1>1. ASSUME CallInv PROVE TypeOK
  <2>1. cards \subseteq SourceCards(registry)
    BY <1>1 DEF CallInv, Started, Catalogue
  <2>2. ASSUME call.stage = "waiting", NEW l \in DOMAIN call.legs
        PROVE  call.legs[l] \in [at : {1, 2}, state : {"waiting", "answered", "lost"},
                                 reply : Reply]
    BY <1>1, <2>2 DEF CallInv, Awaiting, LegsOK, Leg
  <2>3. ASSUME Done PROVE call.outcome.status \in {"SUCCESS", "REJECTED", "FAILED"}
    <3>1. PICK obs : call.outcome = Outcome(obs)
      BY <1>1, <2>3 DEF CallInv, Ended
    <3> QED  BY <3>1 DEF Outcome
  <2> QED  BY <1>1, <2>1, <2>2, <2>3 DEF CallInv, Started, TypeOK
<1> QED  BY <1>1, CallAlways, PTL

-----------------------------------------------------------------------------
(* The research as a source of a call.                                     *)
\* Its status, and its bundle's faults, are among those a call reckons with.
ResearchAnswers ==
    status # "none" =>
        [kind |-> status, marks |-> IF Blocked(bundle) = "allow" THEN {} ELSE {"fault"}]
            \in RepliesOf("research", {})

\* A research ends in an answer that a call of it reckons with.
THEOREM ResearchIsAwaited == ResearchSpec => []ResearchAnswers
<1>1. ResearchInv => ResearchAnswers
  BY DEF ResearchInv, Typed, ObsStatuses, ResearchAnswers, RepliesOf, Status
<1> QED  BY <1>1, ResearchInitOK, ResearchNextOK, PTL DEF ResearchSpec

=============================================================================
