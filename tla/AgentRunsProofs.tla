-------------------------- MODULE AgentRunsProofs --------------------------
(***************************************************************************)
(* The gates hold for any number of runs, users and tools, although all    *)
(* runs share one loader and one executor; the budget and the rounds of a  *)
(* run are never exceeded, and whoever observes the executor is at work.   *)
(***************************************************************************)
EXTENDS AgentRuns, TLAPS

(***************************************************************************)
(* The account of a run: a call is charged at least one, so the rounds     *)
(* that executed something are no more than what is paid.                  *)
(***************************************************************************)
InLoop == {"model", "calling", "tool"}

Account(s) ==
    /\ s.round >= 1 /\ s.barren <= s.round - 1
    /\ s.round - 1 - s.barren + (IF s.ran THEN 1 ELSE 0) <= MaxToolCalls - s.remaining

(***************************************************************************)
(* What a run is bound, unless it may search, has passed the checks of the *)
(* gates already, made by the loader with labels of its own.               *)
(***************************************************************************)
Fits(s) ==
    SearchTools \notin s.loaded =>
        \A t \in s.loaded : /\ AuthGate(t, LoggedIn(s.turn))
                            /\ ScopeGate(t, s.granted)

Bound(s) ==
    /\ Fits(s)
    /\ mode = "scoped" => SearchTools \notin s.loaded

RunOK(s) ==
    /\ s.stage \in InLoop => Account(s)
    /\ s.stage = "calling" => s.left >= 1
    /\ s.stage = "idle" => s = Waiting(s.turn)
    /\ s.response = "LIMIT" => s.stage = "done" /\ s.barren >= 2
    /\ Bound(s)

RunsOK == \A r \in Run : RunOK(run[r])

Inv == TypeOK /\ RunsOK /\ ScopedRunsAreIsolated /\ ObserverIsActive

-----------------------------------------------------------------------------

USE ToolAssumption, AgentAssumption

(***************************************************************************)
(* What the loader hands out are tools of the catalogue and labels; in     *)
(* scoped mode, or once it has given up searching, never the meta tool,    *)
(* and nothing the gates refuse.                                           *)
(***************************************************************************)
LEMMA Loaded ==
    ASSUME NEW load \in Loader, NEW scene \in Scene, NEW auth \in BOOLEAN,
           mode \in {"scoped", "search"},
           mode = "scoped" => load = FreshLoader
    PROVE  /\ LoadForTurn(load, mode, scene, auth) \in SUBSET Tool
           /\ GrantedScopes(load, scene, auth) \in SUBSET Label
           /\ mode = "scoped" => SearchTools \notin LoadForTurn(load, mode, scene, auth)
           /\ SearchTools \notin LoadForTurn(load, mode, scene, auth) =>
                \A t \in LoadForTurn(load, mode, scene, auth) :
                    AuthGate(t, auth) /\ ScopeGate(t, GrantedScopes(load, scene, auth))
<1> DEFINE wide == IF load.fallback THEN "research" ELSE scene
           pack == LoadForTurn(load, mode, scene, auth)
           granted == GrantedScopes(load, scene, auth)
<1>1. /\ load.cache \in SUBSET Tool /\ load.fallback \in BOOLEAN
      /\ FreshLoader.fallback = FALSE
  BY DEF Loader, FreshLoader
<1>2. SceneToolsets[wide] \in SUBSET Toolset /\ "authenticated" \notin Toolset
  BY <1>1 DEF SceneToolsets, Scene, Toolset
<1>3. granted = SceneToolsets[wide] \cup (IF auth THEN {"authenticated"} ELSE {})
  BY DEF GrantedScopes
<1>4. granted \in SUBSET Label
  BY <1>2, <1>3 DEF Label
<1>5. CASE mode = "search" /\ ~load.fallback
  <2>1. pack = {SearchTools} \cup load.cache
    BY <1>5 DEF LoadForTurn, SearchPack
  <2> QED  BY <1>1, <1>4, <1>5, <2>1
<1>6. CASE ~(mode = "search" /\ ~load.fallback)
  <2>1. pack = {t \in Tool : Visible(t, wide, auth)}
    BY <1>6 DEF LoadForTurn, LoadScoped
  <2>2. pack \in SUBSET Tool /\ SearchTools \notin pack
    BY <2>1 DEF Visible
  <2>3. ASSUME NEW t \in pack PROVE AuthGate(t, auth) /\ ScopeGate(t, granted)
    <3>1. t \in Tool /\ Visible(t, wide, auth)
      BY <2>1
    <3>2. AuthGate(t, auth)
      BY <3>1 DEF Visible, AuthGate
    <3>3. CASE Card[t].scopes \ {"authenticated"} = {}
      BY <3>1, <3>2, <3>3, <1>3 DEF ScopeGate, AuthGate
    <3>4. CASE (Card[t].scopes \ {"authenticated"}) \cap SceneToolsets[wide] # {}
      BY <3>1, <3>2, <3>4, <1>3 DEF ScopeGate
    <3> QED  BY <3>1, <3>2, <3>3, <3>4 DEF Visible
  <2> QED  BY <2>2, <2>3, <1>4
<1> QED  BY <1>5, <1>6

(***************************************************************************)
(* A search keeps the loader's record in its type.                         *)
(***************************************************************************)
LEMMA Searched ==
    ASSUME NEW load \in Loader, NEW scene \in Scene, NEW auth \in BOOLEAN, NEW topK,
           NEW hits \in SearchResults(scene, auth, topK)
    PROVE  AfterSearch(load, hits) \in Loader
<1>1. hits \in SUBSET Tool
  BY DEF SearchResults, LoadScoped
<1>2. load = [cache |-> load.cache, misses |-> load.misses, fallback |-> load.fallback]
      /\ load.cache \in SUBSET Tool /\ load.misses \in Nat /\ load.fallback \in BOOLEAN
  BY DEF Loader
<1>3. CASE hits # {}
  <2>1. AfterSearch(load, hits)
          = [cache |-> load.cache \cup hits, misses |-> 0, fallback |-> load.fallback]
    BY <1>2, <1>3 DEF AfterSearch
  <2> QED  BY <1>1, <1>2, <2>1 DEF Loader
<1>4. CASE hits = {}
  <2>1. PICK given \in BOOLEAN : AfterSearch(load, hits)
          = [cache |-> load.cache, misses |-> load.misses + 1, fallback |-> given]
    BY <1>2, <1>4 DEF AfterSearch
  <2> QED  BY <1>2, <2>1 DEF Loader
<1> QED  BY <1>3, <1>4

(***************************************************************************)
(* What passing the gates means.                                           *)
(***************************************************************************)
LEMMA Passed ==
    ASSUME TypeOK, NEW r \in Run, NEW name, NEW argumentsOk, Gate(r, name, argumentsOk) = "pass"
    PROVE  /\ name \in run[r].loaded \cap Tool
           /\ run[r].remaining >= Weight(name)
<1>1. name \in run[r].loaded \cap Tool
  BY DEF Gate, PreGates
<1>2. ~(run[r].remaining < Weight(name))
  BY <1>1 DEF Gate, PreGates
<1>3. run[r].remaining \in Nat /\ Weight(name) \in Nat
  BY DEF TypeOK, RunState, Weight
<1> QED  BY <1>1, <1>2, <1>3

LEMMA Weighs == \A t : Weight(t) \in Nat /\ Weight(t) >= 1
  BY DEF Weight

-----------------------------------------------------------------------------

ExecutorType == [user : User \cup {None}, observer : Run \cup {None}]

(***************************************************************************)
(* A step that gives one run a state s in order, and leaves the observer   *)
(* at work or free, preserves the invariant.                               *)
(***************************************************************************)
LEMMA Shift ==
    ASSUME Inv, NEW r \in Run, NEW s \in RunState, RunOK(s),
           run' = [run EXCEPT ![r] = s], mode' = mode,
           loader' \in Loader, mode = "scoped" => loader' = FreshLoader,
           executor' \in ExecutorType,
           \/ executor'.observer = None
           \/ executor'.observer \in {executor.observer, r} /\ s.stage \in Active
           \/ executor'.observer = executor.observer /\ run[r].stage = "idle"
    PROVE  Inv'
<1>1. run' \in [Run -> RunState] /\ run'[r] = s /\ \A q \in Run \ {r} : run'[q] = run[q]
  BY DEF Inv, TypeOK
<1>2. TypeOK'
  BY <1>1 DEF Inv, TypeOK, ExecutorType
<1>3. RunsOK'
  <2>1. ASSUME NEW q \in Run PROVE RunOK(run[q])'
    BY <1>1 DEF Inv, RunsOK, RunOK, Bound
  <2> QED  BY <2>1 DEF RunsOK
<1>4. ScopedRunsAreIsolated'
  BY DEF ScopedRunsAreIsolated
<1>5. ObserverIsActive'
  <2> SUFFICES ASSUME executor'.observer # None
               PROVE  run'[executor'.observer].stage \in Active
    BY DEF ObserverIsActive
  <2>1. executor'.observer \in Run
    BY DEF ExecutorType
  <2>2. executor'.observer = executor.observer /\ run[r].stage = "idle"
            => executor'.observer # r
    BY DEF Inv, ObserverIsActive, Active
  <2> QED  BY <1>1, <2>1, <2>2 DEF Inv, ObserverIsActive
<1> QED  BY <1>2, <1>3, <1>4, <1>5 DEF Inv

(***************************************************************************)
(* A run that ends is in order; the limit needs two barren rounds.         *)
(***************************************************************************)
LEMMA EndedOK ==
    ASSUME NEW s \in RunState, NEW response \in Response,
           response = "LIMIT" => s.barren >= 2
    PROVE  Ended(s, response) \in RunState /\ RunOK(Ended(s, response))
<1> DEFINE e == Ended(s, response)
           b == IF response = "LIMIT" THEN s.barren ELSE 0
<1>0. b \in 0 .. MaxRounds /\ (response = "LIMIT" => b >= 2)
  BY DEF RunState, MaxRounds
<1>1. e = [stage |-> "done", turn |-> s.turn, response |-> response,
           round |-> 0, barren |-> b, ran |-> FALSE, left |-> 0, tool |-> None,
           about |-> None, remaining |-> MaxToolCalls, loaded |-> {}, granted |-> {}]
  <2>1. e = [Waiting(s.turn) EXCEPT !.stage = "done", !.response = response, !.barren = b]
    BY DEF Ended
  <2> HIDE DEF e, b
  <2> QED  BY <2>1 DEF Waiting
<1> HIDE DEF e, b
<1>2. e \in RunState
  BY <1>0, <1>1 DEF RunState, Stage, MaxRounds
<1>3. RunOK(e)
  BY <1>0, <1>1 DEF RunOK, Bound, Fits, InLoop
<1> QED  BY <1>2, <1>3 DEF e

(***************************************************************************)
(* A run whose rounds so far are accounted for may begin another one.      *)
(***************************************************************************)
LEMMA NextRoundOK ==
    ASSUME mode \in {"scoped", "search"},
           NEW load \in Loader, mode = "scoped" => load = FreshLoader,
           NEW s \in RunState, s.round < MaxRounds, s.barren <= s.round,
           s.round - s.barren <= MaxToolCalls - s.remaining,
           s.response # "LIMIT", Bound(s)
    PROVE  NextRound(s, load) \in RunState /\ RunOK(NextRound(s, load))
<1> DEFINE auth == LoggedIn(s.turn)
           loaded == LoadForTurn(load, mode, s.turn.scene, auth)
           granted == GrantedScopes(load, s.turn.scene, auth)
           n == NextRound(s, load)
<1>1. s.turn.scene \in Scene /\ auth \in BOOLEAN
  BY DEF RunState, LoggedIn
<1>2. /\ loaded \in SUBSET Tool /\ granted \in SUBSET Label
      /\ mode = "scoped" => SearchTools \notin loaded
      /\ SearchTools \notin loaded =>
            \A t \in loaded : AuthGate(t, auth) /\ ScopeGate(t, granted)
  BY <1>1, Loaded
<1>3. n = [s EXCEPT !.stage = "model", !.round = @ + 1, !.ran = FALSE,
                    !.loaded = loaded, !.granted = granted]
  BY DEF NextRound
<1> HIDE DEF loaded, granted, n
<1>4. n \in RunState
  <2>1. s.round + 1 \in 0 .. MaxRounds /\ "model" \in Stage
    BY DEF RunState, MaxRounds, Stage, Active
  <2> QED  BY <1>2, <1>3, <2>1 DEF RunState
<1>5. /\ n.stage = "model" /\ n.round = s.round + 1 /\ n.ran = FALSE /\ n.barren = s.barren
      /\ n.loaded = loaded /\ n.granted = granted /\ n.turn = s.turn /\ n.tool = s.tool
      /\ n.response = s.response /\ n.remaining = s.remaining
  BY <1>3 DEF RunState
<1>6. Account(n)
  BY <1>5 DEF Account, RunState
<1>7. Bound(n)
  BY <1>2, <1>5 DEF Bound, Fits
<1> QED  BY <1>4, <1>5, <1>6, <1>7 DEF RunOK, n

(***************************************************************************)
(* After a call: the next call, the next round or the limit, from a state  *)
(* u in order up to its calls.                                             *)
(***************************************************************************)
Called(u) ==
    /\ u.stage \in InLoop /\ u.response # "LIMIT" /\ Account(u) /\ Bound(u)

LEMMA AfterCallsOK ==
    ASSUME Inv, NEW r \in Run, NEW u \in RunState, Called(u), mode' = mode,
           NEW load \in Loader, mode = "scoped" => load = FreshLoader,
           loader' = load, AfterCalls(r, u, load)
    PROVE  Inv'
<1> DEFINE t == [u EXCEPT !.barren = IF u.ran THEN @ ELSE @ + 1]
<1>1. executor \in ExecutorType /\ mode \in {"scoped", "search"}
  BY DEF Inv, TypeOK, ExecutorType
<1>2. /\ u.round \in Nat /\ u.barren \in Nat /\ u.remaining \in 0 .. MaxToolCalls
      /\ u.left \in Nat /\ u.ran \in BOOLEAN /\ u.round <= MaxRounds
  BY DEF RunState, MaxRounds
<1>3. CASE u.left > 0
  <2> DEFINE s == [u EXCEPT !.stage = "calling"]
  <2>1. run' = [run EXCEPT ![r] = s] /\ executor' = executor
    BY <1>3 DEF AfterCalls
  <2>2. s \in RunState /\ s.stage = "calling"
    BY DEF RunState, Stage, Active
  <2>3. RunOK(s)
    BY <1>2, <1>3, <2>2 DEF Called, RunOK, Account, Bound, Fits, RunState
  <2> HIDE DEF s
  <2> QED  BY <1>1, <2>1, <2>2, <2>3, Shift DEF Active
<1>4. CASE ~(u.left > 0)
  <2>1. /\ t.barren = (IF u.ran THEN u.barren ELSE u.barren + 1)
        /\ t.round = u.round /\ t.remaining = u.remaining /\ t.turn = u.turn
        /\ t.tool = u.tool /\ t.loaded = u.loaded /\ t.granted = u.granted
        /\ t.response = u.response
    BY DEF RunState
  <2>2. t.barren <= t.round /\ t.round - t.barren <= MaxToolCalls - t.remaining
    BY <1>2, <2>1 DEF Called, Account
  <2>3. t \in RunState
    <3>1. (IF u.ran THEN u.barren ELSE u.barren + 1) \in 0 .. MaxRounds
      BY <1>2 DEF Called, Account, MaxRounds
    <3> QED  BY <3>1 DEF RunState
  <2>4. Bound(t) /\ t.response # "LIMIT"
    BY <2>1 DEF Called, Bound, Fits
  <2>5. CASE t.round < MaxRounds
    <3> DEFINE s == NextRound(t, load)
    <3>1. run' = [run EXCEPT ![r] = s] /\ executor' = executor
      BY <1>4, <2>5 DEF AfterCalls
    <3>2. s \in RunState /\ RunOK(s)
      BY <1>1, <2>2, <2>3, <2>4, <2>5, NextRoundOK
    <3>3. s.stage = "model"
      BY <2>3 DEF NextRound, RunState
    <3> HIDE DEF s
    <3> QED  BY <1>1, <3>1, <3>2, <3>3, Shift DEF Active
  <2>6. CASE ~(t.round < MaxRounds)
    <3>1. End(r, t, "LIMIT")
      BY <1>4, <2>6 DEF AfterCalls
    <3>2. t.barren >= 2
      <4> HIDE DEF t
      <4> QED  BY <1>2, <2>1, <2>2, <2>6 DEF MaxRounds
    <3> DEFINE s == Ended(t, "LIMIT")
    <3>3. s \in RunState /\ RunOK(s)
      BY <2>3, <3>2, EndedOK DEF Response
    <3>4. run' = [run EXCEPT ![r] = s] /\ executor' = [executor EXCEPT !.observer = None]
      BY <3>1 DEF End
    <3>5. executor' \in ExecutorType /\ executor'.observer = None
      BY <1>1, <3>4 DEF ExecutorType
    <3> HIDE DEF s
    <3> QED  BY <3>3, <3>4, <3>5, Shift
  <2> QED  BY <2>5, <2>6
<1> QED  BY <1>3, <1>4

(***************************************************************************)
(* A run that ends by an answer or an exception.                           *)
(***************************************************************************)
LEMMA EndOK ==
    ASSUME Inv, NEW r \in Run, NEW response \in Response \ {"LIMIT"},
           UNCHANGED <<mode, loader>>, End(r, run[r], response)
    PROVE  Inv'
<1> DEFINE s == Ended(run[r], response)
<1>1. s \in RunState /\ RunOK(s)
  BY EndedOK DEF Inv, TypeOK
<1>2. run' = [run EXCEPT ![r] = s] /\ executor' = [executor EXCEPT !.observer = None]
  BY DEF End
<1>3. executor' \in ExecutorType /\ executor'.observer = None
  BY <1>2 DEF Inv, TypeOK, ExecutorType
<1> HIDE DEF s
<1> QED  BY <1>1, <1>2, <1>3, Shift DEF Inv, TypeOK, ScopedRunsAreIsolated

-----------------------------------------------------------------------------

LEMMA Initially == Init => Inv
<1> SUFFICES ASSUME Init PROVE Inv
  OBVIOUS
<1>1. PICK turn \in [Run -> UNION {Turn[r] : r \in Run}] :
          /\ \A r \in Run : turn[r] \in Turn[r]
          /\ run = [r \in Run |-> Waiting(turn[r])]
  BY DEF Init
<1>2. ASSUME NEW r \in Run
      PROVE  run[r] \in RunState /\ RunOK(run[r])
  <2>1. turn[r] \in [user : User, scene : Scene] /\ run[r] = Waiting(turn[r])
    BY <1>1
  <2>2. run[r] \in RunState
    BY <2>1 DEF Waiting, RunState, Stage, Response, MaxRounds
  <2>3. /\ run[r].stage = "idle" /\ run[r].response = "none" /\ run[r].tool = None
        /\ run[r].loaded = {} /\ run[r].turn = turn[r]
    BY <2>1 DEF Waiting
  <2> QED  BY <2>1, <2>2, <2>3 DEF RunOK, Bound, Fits, InLoop
<1>3. run \in [Run -> RunState] /\ RunsOK
  BY <1>1, <1>2 DEF RunsOK
<1>4. FreshLoader \in Loader /\ Idle \in ExecutorType /\ Idle.observer = None
  BY DEF FreshLoader, Loader, Idle, ExecutorType
<1> QED  BY <1>3, <1>4 DEF Init, Inv, TypeOK, ScopedRunsAreIsolated, ObserverIsActive, ExecutorType

(***************************************************************************)
(* One lemma for each group of actions.                                    *)
(***************************************************************************)
LEMMA StartsOK == ASSUME Inv, NEW r \in Run, Starts(r) PROVE Inv'
<1>1. /\ run[r] \in RunState /\ RunOK(run[r]) /\ loader \in Loader
      /\ mode \in {"scoped", "search"} /\ (mode = "scoped" => loader = FreshLoader)
      /\ executor \in ExecutorType /\ run[r].turn.user \in User
  BY DEF Inv, TypeOK, RunsOK, ScopedRunsAreIsolated, ExecutorType, RunState
<1>2. run[r].stage = "idle" /\ run[r] = Waiting(run[r].turn)
  BY <1>1 DEF Starts, StartPaused, StartCanned, StartDirect, StartLoop, RunOK
<1>3. Ended(run[r], "ANSWER") \in RunState /\ RunOK(Ended(run[r], "ANSWER"))
  BY <1>1, EndedOK DEF Response
<1>4. CASE StartPaused(r)
  BY <1>1, <1>2, <1>3, <1>4, Shift DEF StartPaused
<1>5. CASE StartCanned(r)
  <2>1. executor' \in ExecutorType /\ executor'.observer = None
    BY <1>1, <1>5 DEF StartCanned, ExecutorType
  <2> QED  BY <1>1, <1>3, <1>5, <2>1, Shift DEF StartCanned
<1>6. [user |-> run[r].turn.user, observer |-> r] \in ExecutorType
  BY <1>1 DEF ExecutorType
<1>7. CASE StartDirect(r)
  <2> DEFINE s == [run[r] EXCEPT !.stage = "direct"]
  <2>1. s \in RunState /\ s.stage = "direct"
    BY <1>1 DEF RunState, Stage, Active
  <2>2. RunOK(s)
    BY <1>1, <1>2, <2>1 DEF RunOK, Bound, Fits, InLoop, RunState
  <2>3. run' = [run EXCEPT ![r] = s] /\ UNCHANGED <<mode, loader>>
        /\ executor' = [user |-> run[r].turn.user, observer |-> r]
    BY <1>1, <1>7 DEF StartDirect, Inv, TypeOK
  <2> HIDE DEF s
  <2> QED  BY <1>1, <1>6, <2>1, <2>2, <2>3, Shift DEF Active
<1>8. CASE StartLoop(r)
  <2> DEFINE s == NextRound(run[r], loader)
  <2>1. /\ run[r].round = 0 /\ run[r].barren = 0 /\ run[r].remaining = MaxToolCalls
        /\ run[r].response = "none"
    BY <1>2 DEF Waiting
  <2>2. s \in RunState /\ RunOK(s)
    BY <1>1, <2>1, NextRoundOK DEF RunOK, MaxRounds
  <2>3. s.stage = "model"
    BY <1>1 DEF NextRound, RunState
  <2>4. run' = [run EXCEPT ![r] = s] /\ UNCHANGED <<mode, loader>>
        /\ executor' = [user |-> run[r].turn.user, observer |-> r]
    BY <1>8 DEF StartLoop
  <2> HIDE DEF s
  <2> QED  BY <1>1, <1>6, <2>2, <2>3, <2>4, Shift DEF Active
<1> QED  BY <1>4, <1>5, <1>7, <1>8 DEF Starts

LEMMA ModelOK ==
    ASSUME Inv, NEW r \in Run, ModelSteps(r) \/ Abort(r) PROVE Inv'
<1>1. /\ run[r] \in RunState /\ RunOK(run[r]) /\ loader \in Loader
      /\ (mode = "scoped" => loader = FreshLoader) /\ executor \in ExecutorType
  BY DEF Inv, TypeOK, RunsOK, ScopedRunsAreIsolated, ExecutorType
<1>2. CASE Answer(r)
  BY <1>2, EndOK DEF Answer, Response
<1>3. CASE Abort(r)
  BY <1>3, EndOK DEF Abort, Response
<1>4. ASSUME NEW n \in 1 .. MaxCalls, Calls(r, n) PROVE Inv'
  <2> DEFINE s == [run[r] EXCEPT !.stage = "calling", !.left = n]
  <2>1. run' = [run EXCEPT ![r] = s] /\ UNCHANGED <<mode, loader, executor>>
        /\ run[r].stage = "model"
    BY <1>1, <1>4 DEF Calls, Inv, TypeOK
  <2>2. s \in RunState /\ s.stage = "calling" /\ s.left = n
    <3>1. n \in 0 .. MaxCalls /\ "calling" \in Stage
      BY DEF Stage, Active
    <3> QED  BY <1>1, <3>1 DEF RunState
  <2>3. RunOK(s)
    BY <1>1, <2>1, <2>2 DEF RunOK, Account, Bound, Fits, InLoop, RunState
  <2> HIDE DEF s
  <2> QED  BY <1>1, <2>1, <2>2, <2>3, Shift DEF Active
<1> QED  BY <1>2, <1>3, <1>4 DEF ModelSteps

LEMMA CallsOK ==
    ASSUME Inv, NEW r \in Run, CallSteps(r) \/ Return(r) PROVE Inv'
<1>1. /\ run[r] \in RunState /\ RunOK(run[r]) /\ loader \in Loader /\ TypeOK
      /\ (mode = "scoped" => loader = FreshLoader) /\ executor \in ExecutorType
  BY DEF Inv, TypeOK, RunsOK, ScopedRunsAreIsolated, ExecutorType
<1>2. run[r].remaining \in Nat /\ run[r].left \in 0 .. MaxCalls
      /\ run[r].remaining <= MaxToolCalls /\ run[r].round \in Nat /\ run[r].barren \in Nat
      /\ run[r].ran \in BOOLEAN
  BY <1>1 DEF RunState
<1>3. ASSUME NEW name \in Tool \cup {None}, NEW argumentsOk \in BOOLEAN,
             Refuse(r, name, argumentsOk)
      PROVE  Inv'
  <2> DEFINE u == [run[r] EXCEPT !.left = @ - 1]
  <2>1. run[r].stage = "calling" /\ AfterCalls(r, u, loader) /\ UNCHANGED <<mode, loader>>
    BY <1>3 DEF Refuse
  <2>2. run[r].left >= 1
    BY <1>1, <2>1 DEF RunOK
  <2>3. u \in RunState
    BY <1>1, <1>2, <2>2 DEF RunState
  <2>4. Called(u)
    BY <1>1, <2>1 DEF Called, RunOK, Account, Bound, Fits, InLoop, RunState
  <2> HIDE DEF u
  <2> QED  BY <1>1, <2>1, <2>3, <2>4, AfterCallsOK
<1>4. CASE Search(r)
  <2>1. PICK hits \in SearchResults(run[r].turn.scene, Authenticated(r), TopK) :
            loader' = AfterSearch(loader, hits)
    BY <1>4 DEF Search
  <2>2. run[r].turn.scene \in Scene /\ Authenticated(r) \in BOOLEAN
    BY <1>1 DEF RunState, Authenticated, LoggedIn
  <2>3. loader' \in Loader
    BY <1>1, <2>1, <2>2, Searched
  <2>4. /\ SearchTools \in run[r].loaded /\ run[r].stage = "calling"
        /\ run[r].remaining >= Weight(SearchTools)
    BY <1>1, <1>4, Passed DEF Search
  <2>5. mode # "scoped"
    BY <1>1, <2>4 DEF RunOK, Bound
  <2> DEFINE w == Weight(SearchTools)
             u == [run[r] EXCEPT !.left = @ - 1, !.ran = TRUE, !.remaining = @ - w]
  <2>6. AfterCalls(r, u, loader') /\ mode' = mode
    BY <1>4 DEF Search
  <2>7. w \in Nat /\ w >= 1 /\ run[r].left >= 1 /\ w <= run[r].remaining
    BY <1>1, <2>4, Weighs DEF RunOK
  <2> HIDE DEF w
  <2>8. u \in RunState
    <3>1. run[r].remaining - w \in 0 .. MaxToolCalls /\ run[r].left - 1 \in 0 .. MaxCalls
      BY <1>2, <2>7
    <3> QED  BY <1>1, <3>1 DEF RunState
  <2>9. Called(u)
    <3>1. /\ u.stage = "calling" /\ u.response = run[r].response /\ u.ran
          /\ u.round = run[r].round /\ u.barren = run[r].barren
          /\ u.remaining = run[r].remaining - w /\ u.tool = run[r].tool
          /\ u.turn = run[r].turn /\ u.loaded = run[r].loaded /\ u.granted = run[r].granted
      BY <1>1, <2>4 DEF RunState
    <3>2. Account(run[r])
      BY <1>1, <2>4 DEF RunOK, InLoop
    <3> HIDE DEF u
    <3>3. Account(u)
      BY <1>2, <2>7, <3>1, <3>2 DEF Account
    <3> QED  BY <1>1, <2>4, <3>1, <3>3 DEF Called, RunOK, Bound, Fits, InLoop
  <2> HIDE DEF u
  <2> QED  BY <1>1, <2>3, <2>5, <2>6, <2>8, <2>9, AfterCallsOK
<1>5. ASSUME NEW name \in Tool, Execute(r, name) PROVE Inv'
  <2> DEFINE w == Weight(name)
             who == IF name = Recall THEN executor.user ELSE None
             s == [run[r] EXCEPT !.stage = "tool", !.left = @ - 1, !.tool = name,
                                 !.ran = TRUE, !.remaining = @ - w, !.about = who]
  <2>1. run[r].remaining >= w /\ run[r].stage = "calling"
    BY <1>1, <1>5, Passed DEF Execute
  <2>2. w \in Nat /\ w >= 1 /\ run[r].left >= 1 /\ w <= run[r].remaining
    BY <1>1, <2>1, Weighs DEF RunOK
  <2>3. run' = [run EXCEPT ![r] = s] /\ UNCHANGED <<mode, loader, executor>>
    BY <1>5 DEF Execute
  <2>4. who \in User \cup {None}
    BY <1>1 DEF ExecutorType
  <2> HIDE DEF w, who
  <2>5. s \in RunState
    <3>1. run[r].remaining - w \in 0 .. MaxToolCalls /\ run[r].left - 1 \in 0 .. MaxCalls
          /\ "tool" \in Stage
      BY <1>2, <2>2 DEF Stage, Active
    <3> QED  BY <1>1, <2>4, <3>1 DEF RunState
  <2>6. /\ s.stage = "tool" /\ s.response = run[r].response /\ s.ran
        /\ s.round = run[r].round /\ s.barren = run[r].barren
        /\ s.remaining = run[r].remaining - w /\ s.tool = name
        /\ s.turn = run[r].turn /\ s.loaded = run[r].loaded /\ s.granted = run[r].granted
    BY <1>1 DEF RunState
  <2> HIDE DEF s
  <2>7. Account(s)
    BY <1>1, <1>2, <2>1, <2>2, <2>6 DEF Account, RunOK, InLoop
  <2>8. RunOK(s)
    BY <1>1, <2>1, <2>6, <2>7 DEF RunOK, Bound, Fits, Authenticated
  <2> QED  BY <1>1, <2>3, <2>5, <2>6, <2>8, Shift DEF Active
<1>6. CASE Return(r)
  <2> DEFINE u == [run[r] EXCEPT !.tool = None, !.about = None]
  <2>1. run[r].stage = "tool" /\ AfterCalls(r, u, loader) /\ UNCHANGED <<mode, loader>>
    BY <1>6 DEF Return
  <2>2. u \in RunState
    BY <1>1 DEF RunState
  <2>3. Called(u)
    BY <1>1, <2>1 DEF Called, RunOK, Account, Bound, Fits, InLoop, RunState
  <2> HIDE DEF u
  <2> QED  BY <1>1, <2>1, <2>2, <2>3, AfterCallsOK
<1> QED  BY <1>3, <1>4, <1>5, <1>6 DEF CallSteps

LEMMA Invariance == Spec => []Inv
<1>1. Inv /\ [Next]_vars => Inv'
  <2> SUFFICES ASSUME Inv, [Next]_vars PROVE Inv'
    OBVIOUS
  <2>1. CASE UNCHANGED vars
    BY <2>1 DEF vars, Inv, TypeOK, RunsOK, RunOK, Bound, ScopedRunsAreIsolated, ObserverIsActive
  <2>2. CASE Next
    BY <2>2, StartsOK, ModelOK, CallsOK DEF Next, RunStep
  <2> QED  BY <2>1, <2>2
<1> QED  BY <1>1, Initially, PTL DEF Spec

-----------------------------------------------------------------------------

(***************************************************************************)
(* Types, and with them the budget: it never falls below zero              *)
(* (GovernanceMiddleware), nor are the rounds of the loop exceeded.        *)
(***************************************************************************)
THEOREM TypeCorrect == Spec => []TypeOK
  BY Invariance, PTL DEF Inv

(***************************************************************************)
(* In scoped mode the shared loader stays as it was made.                  *)
(***************************************************************************)
THEOREM ScopedLoaderIsFresh == Spec => []ScopedRunsAreIsolated
  BY Invariance, PTL DEF Inv

(***************************************************************************)
(* What the loader binds, the gates let through.                           *)
(***************************************************************************)
THEOREM LoaderAndGatesAgree == Spec => []BoundIsCallable
<1>1. Inv => BoundIsCallable
  <2> SUFFICES ASSUME Inv, NEW r \in Run, SearchTools \notin run[r].loaded,
                      NEW t \in run[r].loaded
               PROVE  Gate(r, t, TRUE) \in {"pass", "TOOL_BUDGET_EXCEEDED"}
    BY DEF BoundIsCallable
  <2>1. t \in Tool /\ Card[t].readOnly
    BY DEF Inv, TypeOK, RunState
  <2>2. AuthGate(t, Authenticated(r)) /\ ScopeGate(t, run[r].granted)
    BY DEF Inv, RunsOK, RunOK, Bound, Fits, Authenticated
  <2> QED  BY <2>1, <2>2 DEF Gate, PreGates
<1> QED  BY <1>1, Invariance, PTL

(***************************************************************************)
(* A run stopped by the limit of rounds had two rounds without a call made.*)
(***************************************************************************)
THEOREM LimitIsFair == Spec => []LimitLeavesTwoRounds
<1>1. Inv => LimitLeavesTwoRounds
  BY DEF Inv, RunsOK, RunOK, LimitLeavesTwoRounds
<1> QED  BY <1>1, Invariance, PTL

(***************************************************************************)
(* Every way to end a run releases the observer of the shared executor.    *)
(***************************************************************************)
THEOREM ObserversAreReleased == Spec => []ObserverIsActive
  BY Invariance, PTL DEF Inv

=============================================================================
