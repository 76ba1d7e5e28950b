----------------------------- MODULE AgentRuns -----------------------------
(***************************************************************************)
(* The runs of one engine process: each asks the model, makes the calls it *)
(* wants through the governance middleware, and asks again, up to a limit. *)
(* The tool loader and the tool executor, with its user and its observer,  *)
(* are one object each for all runs.                                       *)
(*                                                                         *)
(* Coroutines of one event loop: a run keeps the loop between two awaits,  *)
(* so the gates of its calls (stage "calling") admit no step of another    *)
(* run; it awaits the model ("model", "direct") and its tools ("tool").    *)
(***************************************************************************)
EXTENDS ToolGovernance

CONSTANTS
    Run,
    User,           \* users a run may come from, the API's guest "0" among them
    GuestIds,       \* names the engine takes for guests; "0" is none of them
    None,           \* no user, observer, tool; also a name no card has
    Recall,         \* the tool memory.recall
    Turn,           \* inputs: the users and scenes a run may come from
    MaxToolCalls,   \* tool budget of a run
    MaxCalls,       \* bound of the tool calls in one reply of the model
    TopK            \* bound of the hits of one search

ASSUME AgentAssumption ==
    /\ None \notin User \cup Run \cup Tool
    /\ Recall \in Tool /\ Recall # SearchTools
    /\ \A t \in Tool : Card[t].readOnly      \* ToolCatalog.register refuses others
    /\ Turn \in [Run -> SUBSET [user : User, scene : Scene]]
    /\ MaxToolCalls \in Nat /\ MaxCalls \in Nat /\ TopK \in Nat

VARIABLES
    mode,       \* tool_loading of the process
    loader,
    executor,   \* user and observer of the shared executor
    run         \* the state of each run

vars == <<mode, loader, executor, run>>

\* Mutant: one round fewer.
RoundsShort == MaxToolCalls + 1
MaxRounds == MaxToolCalls + 2

Active == {"model", "direct", "calling", "tool"}
Stage == Active \cup {"idle", "done"}
\* How a run ended; LIMIT is an answer too, the text of the last reply.
Response == {"none", "ANSWER", "LIMIT", "ERROR"}

RunState ==
    [stage : Stage, turn : [user : User, scene : Scene], response : Response,
     round : 0 .. MaxRounds, barren : 0 .. MaxRounds, ran : BOOLEAN,
     left : 0 .. MaxCalls, tool : Tool \cup {None},
     about : User \cup {None}, remaining : 0 .. MaxToolCalls,
     loaded : SUBSET Tool, granted : SUBSET Label]

Waiting(turn) ==
    [stage |-> "idle", turn |-> turn, response |-> "none",
     round |-> 0, barren |-> 0, ran |-> FALSE, left |-> 0, tool |-> None,
     about |-> None, remaining |-> MaxToolCalls, loaded |-> {}, granted |-> {}]

Idle == [user |-> None, observer |-> None]

Init ==
    /\ mode \in {"scoped", "search"}
    /\ loader = FreshLoader
    /\ executor = Idle
    /\ \E turn \in [Run -> UNION {Turn[r] : r \in Run}] :
           /\ \A r \in Run : turn[r] \in Turn[r]
           /\ run = [r \in Run |-> Waiting(turn[r])]

-----------------------------------------------------------------------------

\* Who the engine takes for logged in.  A caller without a token reaches it
\* as "0", and is one of them.
LoggedIn(turn) == turn.user \notin GuestIds
Authenticated(r) == LoggedIn(run[r].turn)
LoopFree(r) == \A q \in Run \ {r} : run[q].stage # "calling"

\* The state s at the head of the next round: tools loaded, model called.
NextRound(s, load) ==
    LET auth == LoggedIn(s.turn) IN
    [s EXCEPT !.stage = "model", !.round = @ + 1, !.ran = FALSE,
              !.loaded = LoadForTurn(load, mode, s.turn.scene, auth),
              !.granted = GrantedScopes(load, s.turn.scene, auth)]

\* What the run knew of its rounds, its calls and its budget goes with it.
Ended(s, response) ==
    [Waiting(s.turn) EXCEPT !.stage = "done", !.response = response,
                            !.barren = IF response = "LIMIT" THEN s.barren ELSE 0]

\* Mutant: an abort skips the finally of EngineRuntime.run.
EndKeepingObserver(r, s, response) ==
    /\ run' = [run EXCEPT ![r] = Ended(s, response)]
    /\ UNCHANGED executor

End(r, s, response) ==
    /\ run' = [run EXCEPT ![r] = Ended(s, response)]
    /\ executor' = [executor EXCEPT !.observer = None]

\* Mutant: a round without any executed call is made again.
AfterCallsAgain(r, s, load) ==
    \/ s.ran /\ End(r, s, "ANSWER")
    \/ /\ ~s.ran
       /\ \E n \in 1 .. MaxCalls :
              run' = [run EXCEPT ![r] = [s EXCEPT !.stage = "calling", !.left = n]]
       /\ UNCHANGED executor

\* The calls of the reply are done: another round, or the limit.
AfterCalls(r, s, load) ==
    LET t == [s EXCEPT !.barren = IF s.ran THEN @ ELSE @ + 1] IN
    IF s.left > 0 THEN /\ run' = [run EXCEPT ![r] = [s EXCEPT !.stage = "calling"]]
                       /\ UNCHANGED executor
    ELSE IF t.round < MaxRounds
    THEN /\ run' = [run EXCEPT ![r] = NextRound(t, load)]
         /\ UNCHANGED executor
    ELSE End(r, t, "LIMIT")

-----------------------------------------------------------------------------
(* EngineRuntime.run and the head of AgentLoop.run.  The fast path and the *)
(* pause answer from a text of their own; which, no property tells apart.  *)

\* A pause was requested before the run began.
StartPaused(r) ==
    /\ run[r].stage = "idle" /\ LoopFree(r)
    /\ run' = [run EXCEPT ![r] = Ended(@, "ANSWER")]
    /\ UNCHANGED <<mode, loader, executor>>

\* The fast path answers by itself: forbidden, or small talk.
StartCanned(r) ==
    /\ run[r].stage = "idle" /\ LoopFree(r)
    /\ run' = [run EXCEPT ![r] = Ended(@, "ANSWER")]
    /\ executor' = [user |-> run[r].turn.user, observer |-> None]
    /\ UNCHANGED <<mode, loader>>

\* The fast path lets the model answer without tools.
StartDirect(r) ==
    /\ run[r].stage = "idle" /\ LoopFree(r)
    /\ run' = [run EXCEPT ![r].stage = "direct"]
    /\ executor' = [user |-> run[r].turn.user, observer |-> r]
    /\ UNCHANGED <<mode, loader>>

StartLoop(r) ==
    /\ run[r].stage = "idle" /\ LoopFree(r)
    /\ run' = [run EXCEPT ![r] = NextRound(@, loader)]
    /\ executor' = [user |-> run[r].turn.user, observer |-> r]
    /\ UNCHANGED <<mode, loader>>

\* The model answers with text alone.
Answer(r) ==
    /\ run[r].stage \in {"model", "direct"} /\ LoopFree(r)
    /\ End(r, run[r], "ANSWER")
    /\ UNCHANGED <<mode, loader>>

\* The model answers with n tool calls.
Calls(r, n) ==
    /\ run[r].stage = "model" /\ LoopFree(r)
    /\ run' = [run EXCEPT ![r].stage = "calling", ![r].left = n]
    /\ UNCHANGED <<mode, loader, executor>>

\* The model fails, or the request is cancelled while it waits.
Abort(r) ==
    /\ run[r].stage \in {"model", "direct", "tool"} /\ LoopFree(r)
    /\ End(r, run[r], "ERROR")
    /\ UNCHANGED <<mode, loader>>

-----------------------------------------------------------------------------
(* GovernanceMiddleware.invoke on the next call of the reply.              *)

Gate(r, name, argumentsOk) ==
    PreGates(name, run[r].loaded, run[r].granted, Authenticated(r),
             run[r].remaining, argumentsOk)

\* A gate refuses the call; nothing is charged.
Refuse(r, name, argumentsOk) ==
    /\ run[r].stage = "calling"
    /\ Gate(r, name, argumentsOk) # "pass"
    /\ AfterCalls(r, [run[r] EXCEPT !.left = @ - 1], loader)
    /\ UNCHANGED <<mode, loader>>

\* search_tools runs in the loop itself and awaits nothing.
Search(r) ==
    /\ run[r].stage = "calling"
    /\ Gate(r, SearchTools, TRUE) = "pass"
    /\ \E hits \in SearchResults(run[r].turn.scene, Authenticated(r), TopK) :
           loader' = AfterSearch(loader, hits)
    /\ AfterCalls(r, [run[r] EXCEPT !.left = @ - 1, !.ran = TRUE,
                                    !.remaining = @ - Weight(SearchTools)], loader')
    /\ UNCHANGED mode

\* The executor takes the call; for a recall it reads its user now.
Execute(r, name) ==
    /\ run[r].stage = "calling" /\ name # SearchTools
    /\ Gate(r, name, TRUE) = "pass"
    /\ run' = [run EXCEPT ![r] =
                  [run[r] EXCEPT
                      !.stage = "tool", !.left = @ - 1, !.tool = name,
                      !.ran = TRUE, !.remaining = @ - Weight(name),
                      !.about = IF name = Recall THEN executor.user ELSE None]]
    /\ UNCHANGED <<mode, loader, executor>>

\* The tool returns or raises; either way the call is answered.
Return(r) ==
    /\ run[r].stage = "tool" /\ LoopFree(r)
    /\ AfterCalls(r, [run[r] EXCEPT !.tool = None, !.about = None], loader)
    /\ UNCHANGED <<mode, loader>>

Starts(r) == StartPaused(r) \/ StartCanned(r) \/ StartDirect(r) \/ StartLoop(r)

ModelSteps(r) == Answer(r) \/ \E n \in 1 .. MaxCalls : Calls(r, n)

CallSteps(r) ==
    \/ \E name \in Tool \cup {None}, argumentsOk \in BOOLEAN : Refuse(r, name, argumentsOk)
    \/ Search(r)
    \/ \E name \in Tool : Execute(r, name)

RunStep(r) == ModelSteps(r) \/ CallSteps(r) \/ Return(r)

Next == \E r \in Run : Starts(r) \/ RunStep(r) \/ Abort(r)

\* The model and the tools answer or time out, and the event loop resumes
\* each coroutine; a client need not start a run or cancel one.
Fairness == \A r \in Run : WF_vars(RunStep(r))

Spec == Init /\ [][Next]_vars
FairSpec == Spec /\ Fairness

-----------------------------------------------------------------------------
(* Properties.                                                             *)

\* Types of the variables.
TypeOK ==
    /\ mode \in {"scoped", "search"}
    /\ loader \in Loader
    /\ executor \in [user : User \cup {None}, observer : Run \cup {None}]
    /\ run \in [Run -> RunState]

\* The budget is what the executed calls weigh: a run that used rounds to
\* execute something has paid at least one for each of them, so a run that
\* is stopped by the round limit has had two rounds with nothing executed:
\* the model was told of the empty budget and could still answer.
LimitLeavesTwoRounds ==
    \A r \in Run : run[r].response = "LIMIT" => run[r].barren >= 2

\* What the loader binds for a scene, the gates let through: in scoped mode,
\* and after the fallback, a bound tool is refused for its budget or its
\* arguments only.  Each side computes the scene's labels for itself.
BoundIsCallable ==
    \A r \in Run : run[r].stage \in {"model", "calling"} /\ SearchTools \notin run[r].loaded
        => \A t \in run[r].loaded :
               Gate(r, t, TRUE) \in {"pass", "TOOL_BUDGET_EXCEEDED"}

\* In scoped mode the shared loader is never written: what a run is bound
\* depends on its own scene and user, whatever the others do.
ScopedRunsAreIsolated ==
    mode = "scoped" => loader = FreshLoader

\* Whoever observes the executor is a run in progress: every way to end one,
\* by answer, limit or exception, releases the observer.
ObserverIsActive ==
    executor.observer # None => run[executor.observer].stage \in Active

\* A run that started ends, whatever tools the model keeps asking for.
EveryRunEnds ==
    \A r \in Run : run[r].stage # "idle" ~> run[r].stage = "done"

\* A recall reads the memory of the user of its run (tools/catalog.py:
\* "the current user's long-term memory").
RecallIsOwn ==
    \A r \in Run : run[r].tool = Recall => run[r].about = run[r].turn.user

=============================================================================
