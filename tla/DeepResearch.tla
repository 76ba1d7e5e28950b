---------------------------- MODULE DeepResearch ----------------------------
(***************************************************************************)
(* One deep research: the executor's checks, the graph that plans units    *)
(* and lets each search the web until a budget, a hard stop or the model   *)
(* ends it, and the bundle assembled from what was found.  The model and   *)
(* the search are awaited, and time passes meanwhile; the rate limiter of  *)
(* the provider is shared with the other searches of the process.          *)
(***************************************************************************)
EXTENDS Integers, FiniteSets, Sequences, SequencesExt

CONSTANTS
    Url, Web,          \* URLs; those that are http or https
    Covering,          \* URLs whose text covers the criteria and the topics
    Telling,           \* URLs of pages with a secret term in address, title or summary
    MaxUnits,          \* max_concurrent_research_units
    Rounds,            \* max_supervisor_iterations
    Searches,          \* search_call_limit
    Calls,             \* max_react_tool_calls
    Stagnation,        \* what no_new_url_rounds_limit may be
    Runtime,           \* runtime_seconds
    Page,              \* results of a search
    Rate, Window,      \* the limiter: searches in a window of time
    MaxClock,          \* bound of the clock
    MaxOther           \* bound of the process's other searches

ASSUME ResearchAssumption ==
    /\ Web \subseteq Url /\ Covering \subseteq Url /\ Telling \subseteq Url
    /\ {MaxUnits, Rounds, Searches, Calls, Page, Rate} \cup Stagnation \subseteq Nat \ {0}
    /\ {Runtime, Window, MaxClock, MaxOther} \subseteq Nat

VARIABLES
    request,    \* what was asked, and what the executor allows
    clock,
    granted,    \* the times at which the limiter let a search through
    work,       \* the graph's state
    units,      \* one record for each research unit
    bundle,     \* the ResearchBundle
    status      \* of the observation; "none" until there is one

researchVars == <<request, clock, granted, work, units, bundle, status>>

Requests == [enabled : BOOLEAN, valid : BOOLEAN, blank : BOOLEAN,
             asks : {"nothing", "criteria", "topics"}, complete : BOOLEAN,
             stagnation : Stagnation]

SearchFailure == {"ATOMIC_SEARCH_UNAVAILABLE", "ATOMIC_SEARCH_RATE_LIMITED"}
Limitation == SearchFailure \cup {"runtime_seconds", "search_calls", "no_new_url", "no_sources"}

\* words: the question, the brief or the summary holds a secret term.
NoBundle == [status |-> "none", sources |-> {}, findings |-> {}, limitations |-> {},
             words |-> FALSE]
Idle == [phase |-> "idle", started |-> 0, at |-> 0, round |-> 0, searches |-> 0,
         sources |-> <<>>, limitations |-> {}, failed |-> FALSE, exhausted |-> FALSE,
         progressed |-> FALSE]
Unit == [urls |-> {}, stagnant |-> 0, calls |-> 0, done |-> FALSE]

ResearchInit ==
    /\ request \in Requests
    /\ clock = 0 /\ granted = <<>> /\ work = Idle /\ units = <<>>
    /\ bundle = NoBundle /\ status = "none"

Late == clock - work.started >= Runtime

-----------------------------------------------------------------------------
(* ProcessRateLimiter.try_acquire: granted holds every search let through; *)
(* the code keeps those still in the window.                               *)

\* Mutant: what is exactly one window old no longer counts.
RecentOpen(t) == Cardinality({i \in DOMAIN granted : granted[i] > t - Window})

Recent(t) == Cardinality({i \in DOMAIN granted : granted[i] >= t - Window})

Free == Recent(clock) < Rate

-----------------------------------------------------------------------------
(* The bundle.                                                             *)

\* The indices of sources stand for source_ids; a finding cites its own.
Found == DOMAIN work.sources

Covered(summary) ==
    CASE request.asks = "nothing" -> FALSE      \* not computable
      [] request.asks = "criteria" -> \E i \in Found : work.sources[i].url \in Covering
      [] request.asks = "topics" -> summary \/ \E i \in Found : work.sources[i].url \in Covering

\* Mutant: a provider that failed in between is forgotten.
BundleStatusForgiving(summary) ==
    IF work.failed /\ Found = {} THEN "FAILED"
    ELSE IF Found = {} THEN IF work.exhausted THEN "LIMITED" ELSE "FAILED"
    ELSE IF work.exhausted THEN "LIMITED"
    ELSE IF ~Covered(summary) THEN "PARTIAL" ELSE "COMPLETE"

\* assemble_research_bundle, for a request without missing fields.
BundleStatus(summary) ==
    IF work.failed /\ Found = {} THEN "FAILED"
    ELSE IF Found = {} THEN IF work.exhausted THEN "LIMITED" ELSE "FAILED"
    ELSE IF work.exhausted THEN "LIMITED"
    ELSE IF work.failed \/ ~Covered(summary) THEN "PARTIAL" ELSE "COMPLETE"

\* assemble_node: COMPLETE is kept only when the caller allows it.
Gated(s) == IF s = "COMPLETE" /\ ~request.complete THEN "PARTIAL" ELSE s

\* The executor's status of the observation.
ObsStatus(b) ==
    CASE b.status \in {"PARTIAL", "COMPLETE"} -> "SUCCESS"
      [] b.status \in {"LIMITED", "NEEDS_CLARIFICATION"} -> "PARTIAL"
      [] b.status = "FAILED" ->
             IF b.limitations \cap SearchFailure # {} THEN "UNAVAILABLE" ELSE "FAILED"

\* The terms are looked for in all the text of the observation, where "sk-"
\* is found in "risk-free" as well as in a key.
Leaks(b) == b.words \/ \E s \in b.sources : s.url \in Telling

\* evaluate_research_observation: the audit code the data-quality guard
\* blocks a bundle with.
Blocked(b) ==
    IF Leaks(b) THEN "RESEARCH_SECRET_LEAK"
    ELSE IF b.status = "COMPLETE" /\ b.sources = {} THEN "RESEARCH_COMPLETE_WITHOUT_SOURCES"
    ELSE IF b.status = "COMPLETE" /\ b.limitations \cap SearchFailure # {}
    THEN "RESEARCH_COMPLETE_WITH_PROVIDER_FAILURE"
    ELSE IF \E f \in b.findings : f.sources = {} THEN "RESEARCH_FINDING_WITHOUT_SOURCE"
    ELSE IF \E f \in b.findings : f.sources \cap {s.id : s \in b.sources} = {}
    THEN "RESEARCH_FINDING_SOURCE_UNCLOSED"
    ELSE IF \E s \in b.sources : s.url \notin Web THEN "RESEARCH_URL_SCHEME_BLOCKED"
    ELSE "allow"

-----------------------------------------------------------------------------
(* The executor and the head of the graph.                                 *)

Ends(s) == /\ status' = s /\ work' = [work EXCEPT !.phase = "done"]

\* DeepResearchToolExecutor.execute up to the graph.
Execute ==
    /\ work.phase = "idle"
    /\ \/ ~request.enabled /\ Ends("UNAVAILABLE") /\ UNCHANGED bundle
       \/ request.enabled /\ ~request.valid /\ Ends("FAILED") /\ UNCHANGED bundle
       \/ /\ request.enabled /\ request.valid /\ request.blank
          /\ \E words \in BOOLEAN :
                 bundle' = [NoBundle EXCEPT !.status = "NEEDS_CLARIFICATION", !.words = words]
          /\ Ends("PARTIAL")
       \/ /\ request.enabled /\ request.valid /\ ~request.blank
          /\ work' = [work EXCEPT !.phase = "plan", !.started = clock]
          /\ UNCHANGED <<bundle, status>>
    /\ UNCHANGED <<request, clock, granted, units>>

\* write_research_brief and research_supervisor: the model's units, or one
\* of the question when it fails.
Plan(n) ==
    /\ work.phase = "plan"
    /\ units' = [i \in 1 .. n |-> Unit]
    /\ work' = [work EXCEPT !.phase = "round"]
    /\ UNCHANGED <<request, clock, granted, bundle, status>>

-----------------------------------------------------------------------------
(* researcher_round.  Leave ends the round; Next1 goes on with a unit.     *)

Exhausted(code) == [work EXCEPT !.exhausted = TRUE, !.limitations = @ \cup {code}]
Leave(w, us) ==
    [w EXCEPT !.phase = "route", !.round = @ + 1, !.at = 0,
              !.limitations = IF ~w.progressed /\ \A i \in DOMAIN us : us[i].done
                              THEN @ \cup {"no_new_url"} ELSE @,
              !.progressed = FALSE]

\* A round that finds its budgets used up does nothing.
RoundHead ==
    /\ work.phase = "round"
    /\ work' = IF Late
               THEN [Exhausted("runtime_seconds") EXCEPT !.phase = "route", !.round = @ + 1]
               ELSE IF work.searches >= Searches
               THEN [Exhausted("search_calls") EXCEPT !.phase = "route", !.round = @ + 1]
               ELSE [work EXCEPT !.phase = "unit", !.at = 1]
    /\ UNCHANGED <<request, clock, granted, units, bundle, status>>

\* Mutant: the searches are counted at the head of the round alone.
SpentAtHead == FALSE

Spent == work.searches >= Searches

\* Mutant: a unit that is done is not passed over.
PastNot(at) == at

Past(at) == at + 1

\* The next unit that is not done, as long as the budgets last.
NextUnit ==
    /\ work.phase = "unit"
    /\ work' = IF work.at > Len(units) THEN Leave(work, units)
               ELSE IF units[work.at].done THEN [work EXCEPT !.at = Past(@)]
               ELSE IF Spent THEN Leave(Exhausted("search_calls"), units)
               ELSE IF Late THEN Leave(Exhausted("runtime_seconds"), units)
               ELSE [work EXCEPT !.phase = "turn"]
    /\ UNCHANGED <<request, clock, granted, units, bundle, status>>

\* What the search is asked for: none is asked for nothing.
Results == IF Page < Searches - work.searches THEN Page ELSE Searches - work.searches

\* A unit whose search was not available: counted, but not yet stopped.
WithoutBatch(u) == [u EXCEPT !.calls = @ + 1, !.stagnant = @ + 1]

Missed(code) ==
    /\ units' = [units EXCEPT ![work.at] = WithoutBatch(@)]
    /\ work' = [work EXCEPT !.phase = "unit", !.failed = TRUE, !.searches = @ + 1,
                            !.at = @ + 1, !.limitations = @ \cup {code}]

\* next_researcher_turn: its hard stops before the model's opinion.
Stops(u) == u.calls >= Calls \/ u.stagnant >= request.stagnation

Turn(query) ==
    /\ work.phase = "turn"
    /\ LET u == units[work.at]
           searches == ~Stops(u) /\ (u.calls = 0 \/ query)
       IN  \/ /\ ~searches
              /\ units' = [units EXCEPT ![work.at].done = TRUE]
              /\ work' = [work EXCEPT !.phase = "unit", !.at = @ + 1]
              /\ UNCHANGED <<granted, status>>
           \/ /\ searches /\ Results < 1 /\ Ends("RAISED") /\ UNCHANGED <<granted, units>>
           \/ /\ searches /\ Results >= 1 /\ ~Free
              /\ Missed("ATOMIC_SEARCH_RATE_LIMITED") /\ UNCHANGED <<granted, status>>
           \/ /\ searches /\ Results >= 1 /\ Free
              /\ granted' = Append(granted, clock)
              /\ work' = [work EXCEPT !.phase = "searching"] /\ UNCHANGED <<units, status>>
    /\ UNCHANGED <<request, clock, bundle>>

\* The provider's call fails.
SearchFails ==
    /\ work.phase = "searching" /\ Missed("ATOMIC_SEARCH_UNAVAILABLE")
    /\ UNCHANGED <<request, clock, granted, bundle, status>>

\* The hits a unit has not seen.
Fresh(u, hits) == hits \ u.urls

\* A search that answers, with nothing or with up to Results hits.
SearchAnswers(hits) ==
    /\ work.phase = "searching" /\ IsFiniteSet(hits) /\ Cardinality(hits) <= Results
    /\ LET u     == units[work.at]
           fresh == Fresh(u, hits)
           after == [u EXCEPT !.urls = @ \cup fresh, !.calls = @ + 1,
                              !.stagnant = IF fresh = {} THEN @ + 1 ELSE 0]
           news  == SetToSeq({[unit |-> work.at, url |-> x] : x \in fresh})
       IN  /\ units' = [units EXCEPT ![work.at] = [after EXCEPT !.done = Stops(after)]]
           /\ work' = [work EXCEPT !.phase = "unit", !.at = @ + 1, !.searches = @ + 1,
                                   !.sources = @ \o news,
                                   !.progressed = @ \/ fresh # {}]
    /\ UNCHANGED <<request, clock, granted, bundle, status>>

AllDone == \A i \in DOMAIN units : units[i].done

Enough == work.exhausted \/ work.round >= Rounds \/ work.searches >= Searches \/ AllDone

\* route_after_researcher: the clock is read last.
RouteAfterResearcher ==
    /\ work.phase = "route"
    /\ work' = [work EXCEPT !.phase = IF Enough \/ Late THEN "assemble" ELSE "round"]
    /\ UNCHANGED <<request, clock, granted, units, bundle, status>>

\* compress_research, which may write a summary that covers the topics, and
\* the assembly of the bundle; words: what the user and the model wrote holds
\* a secret term.
Assemble(summary, words) ==
    /\ work.phase = "assemble"
    /\ LET s == Gated(BundleStatus(summary))
           sources == {[id |-> i, url |-> work.sources[i].url] : i \in Found}
       IN  bundle' = [status |-> s, sources |-> sources,
                      findings |-> {[id |-> i, sources |-> {i}] : i \in Found},
                      limitations |-> work.limitations
                          \cup (IF work.failed /\ Found = {} THEN {"ATOMIC_SEARCH_UNAVAILABLE"}
                                ELSE IF Found = {} THEN {"no_sources"} ELSE {}),
                      words |-> words]
    /\ Ends(ObsStatus(bundle'))
    /\ UNCHANGED <<request, clock, granted, units>>

-----------------------------------------------------------------------------
Clock ==
    /\ clock < MaxClock /\ clock' = clock + 1
    /\ UNCHANGED <<request, granted, work, units, bundle, status>>

\* Another search of the process, where the limiter lets it through.
Other ==
    /\ Free /\ Len(granted) - work.searches < MaxOther
    /\ granted' = Append(granted, clock)
    /\ UNCHANGED <<request, clock, work, units, bundle, status>>

Proceed ==
    \/ Execute \/ \E n \in 1 .. MaxUnits : Plan(n)
    \/ RoundHead \/ NextUnit \/ \E query \in BOOLEAN : Turn(query)
    \/ SearchFails \/ \E hits \in SUBSET Url : SearchAnswers(hits)
    \/ RouteAfterResearcher \/ \E summary, words \in BOOLEAN : Assemble(summary, words)

ResearchNext == Proceed \/ Clock \/ Other

\* The model and the provider answer or fail within their timeouts.  The
\* names leave room for those of ToolCall, which awaits a research.
ResearchSpec == ResearchInit /\ [][ResearchNext]_researchVars
ResearchFairSpec == ResearchSpec /\ WF_researchVars(Proceed)

-----------------------------------------------------------------------------
(* Properties.                                                             *)

ResearchDone == work.phase = "done"

\* The graph's state has its form, and every number in it stays within its
\* budget: searches, rounds, and the calls and stagnation of each unit.
ResearchTypeOK ==
    /\ request \in Requests /\ clock \in 0 .. MaxClock
    /\ granted \in Seq(0 .. MaxClock)
    /\ work.phase \in {"idle", "plan", "round", "unit", "turn", "searching", "route",
                       "assemble", "done"}
    /\ work.searches \in 0 .. Searches /\ work.round \in 0 .. Rounds
    /\ work.sources \in Seq([unit : 1 .. MaxUnits, url : Url])
    /\ work.limitations \subseteq Limitation /\ Len(units) <= MaxUnits
    /\ \A i \in DOMAIN units :
          /\ units[i].urls \subseteq Url
          /\ units[i].calls \in 0 .. Calls /\ units[i].stagnant \in 0 .. request.stagnation
    /\ status \in {"none", "SUCCESS", "PARTIAL", "FAILED", "UNAVAILABLE", "RAISED"}

\* The limiter lets no more than Rate searches through in any stretch of time
\* of the window's length, wherever it begins (ProcessRateLimiter).
RateHolds ==
    \A t \in 0 .. MaxClock :
        Cardinality({i \in DOMAIN granted : granted[i] \in t .. t + Window}) <= Rate

\* A search is never asked for less than one result, which the request's
\* contract refuses and which would lose all that was found.
NeverRaises == status # "RAISED"

\* What the data-quality guard finds in a bundle came with the pages or the
\* words, a secret term or an address that is not http: none of the faults an
\* assembly could make, a COMPLETE bundle without sources or in spite of a
\* provider that failed, or a finding whose source is not there.
GuardAgrees ==
    Blocked(bundle) \in {"allow", "RESEARCH_SECRET_LEAK", "RESEARCH_URL_SCHEME_BLOCKED"}

\* A research that the budget of searches or of rounds ended before its
\* units were done is not COMPLETE (assembly.py: "no false COMPLETE: budget
\* exhausted, ..."): only the graph's own flag is looked at.
ExhaustedIsNotComplete ==
    ResearchDone /\ (work.searches = Searches \/ work.round = Rounds)
         /\ (\E i \in DOMAIN units : ~units[i].done) => bundle.status # "COMPLETE"

\* Every research ends, whatever the model asks for and the provider answers.
EveryResearchEnds == <>ResearchDone

=============================================================================
