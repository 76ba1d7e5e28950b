------------------------------ MODULE ChatRun ------------------------------
(***************************************************************************)
(* The runs of one chat session: messages that open, resume or abandon a   *)
(* run, the pause, cancel and resume endpoints, and the executions in      *)
(* flight, over the bookmark of the session, the stored run states and the *)
(* pause requests of the process.                                          *)
(*                                                                         *)
(* The engine is one process with one event loop, and its store client     *)
(* blocks: what a handler does between two awaits is one step.  A store    *)
(* call in the middle of a step may fail; the parameter n of an action is  *)
(* the number of its store writes that took place.                         *)
(*                                                                         *)
(* The stores come with the assembly.  The engine as shipped keeps all of  *)
(* this in Java, and its registry answers no look-up without a user; the   *)
(* other assembly, the tests', keeps it in memory and answers them.        *)
(***************************************************************************)
EXTENDS Naturals

CONSTANTS
    Run,        \* run ids
    NoRun,
    Slot,       \* requests the engine may have in flight
    MaxFaults   \* bound of the failed store calls and crashes

ASSUME ChatAssumption == NoRun \notin Run /\ MaxFaults \in Nat

VARIABLES
    registry,    \* the assembly's stores
    pending,     \* bookmark of the session: its run, whether it has a
                 \* checkpoint id, and whether "which one?" was asked
    projection,  \* stored status of each run
    registered,  \* runs in the registry
    flag,        \* pause requests, in memory
    work,        \* what each slot is doing
    told,        \* what the user was last answered about each run
    faults

Registry == {"remote", "memory"}
Word == {"nothing", "paused", "cancelled", "error"}

vars == <<registry, pending, projection, registered, flag, work, told, faults>>

Ended == {"SUCCESS", "FAILED", "ABANDONED"}
Status == Ended \cup {"ABSENT", "PAUSED_BY_USER"}

\* The state of a run holds a checkpoint exactly while it is paused: every
\* write replaces the whole row, and the others write none.
Saved(r) == projection[r] = "PAUSED_BY_USER"

Bookmark == [run : Run \cup {NoRun}, checkpoint : BOOLEAN, awaiting : BOOLEAN]
NoBookmark == [run |-> NoRun, checkpoint |-> FALSE, awaiting |-> FALSE]
BookmarkOf(r) == [run |-> r, checkpoint |-> TRUE, awaiting |-> FALSE]

\* chat and resume execute a run, create a new one outside the session's
\* chat; ask is the stream that asks which run the user means.
Kind == {"free", "chat", "create", "resume", "ask"}
Stage == {"open", "model", "paused", "answer"}
Free == [kind |-> "free", run |-> NoRun, stage |-> "open"]
Job(k, r, st) == [kind |-> k, run |-> r, stage |-> st]

Busy(s) == work[s].kind # "free"
Executes(s, r) == work[s].kind \in {"chat", "create", "resume"} /\ work[s].run = r
Executing(r) == \E s \in Slot : Executes(s, r)
Fresh == {r \in Run : r \notin registered}

Init ==
    /\ registry \in Registry
    /\ pending = NoBookmark
    /\ projection = [r \in Run |-> "ABSENT"]
    /\ registered = {}
    /\ flag = [r \in Run |-> FALSE]
    /\ work = [s \in Slot |-> Free]
    /\ told = [r \in Run |-> "nothing"]
    /\ faults = 0

\* All writes of a step took place, or a call of Java failed after n of them.
Reach(n, all) ==
    /\ n \in 0 .. all
    /\ \/ n = all /\ UNCHANGED faults
       \/ n < all /\ registry = "remote" /\ faults < MaxFaults /\ faults' = faults + 1
    /\ UNCHANGED registry

-----------------------------------------------------------------------------
(* Writes shared by the handlers.                                          *)

SaveRun(r, status) == projection' = [projection EXCEPT ![r] = status]
Promise(r, word) == told' = [told EXCEPT ![r] = word]

\* The paused state of the run with its checkpoint, then the bookmark (then
\* the registry, which changes nothing here).
Persist(r, n) ==
    /\ projection' = IF n >= 1
                     THEN [projection EXCEPT ![r] = "PAUSED_BY_USER"]
                     ELSE projection
    /\ pending' = IF n >= 2 THEN BookmarkOf(r) ELSE pending

Occupy(s, job) == ~Busy(s) /\ work' = [work EXCEPT ![s] = job]
Leave(s) == work' = [work EXCEPT ![s] = Free]

-----------------------------------------------------------------------------
(* The turn router: what a message means while a bookmark stands.          *)

Message == {"continue", "switch", "symbol", "other"}

Route(m) ==
    IF pending.run = NoRun THEN "fresh"
    ELSE IF m = "continue" THEN "resume"
    ELSE IF m = "switch" THEN "new_turn"
    ELSE IF m = "symbol" /\ ~pending.awaiting THEN "resume"
    ELSE "ask_which"

\* Registers a new run and opens its stream.
OpenRun(s, n, last) ==
    IF n = last
    THEN \E r \in Fresh :
            /\ registered' = registered \cup {r}
            /\ Occupy(s, Job("chat", r, "open"))
    ELSE UNCHANGED <<registered, work>>

\* A message without a bookmark.  "Answer again" drops the bookmark first.
SendFresh(s, regenerate, n) ==
    /\ ~Busy(s)
    /\ regenerate \/ \E m \in Message : Route(m) = "fresh"
    /\ pending' = IF regenerate /\ n >= 1 THEN NoBookmark ELSE pending
    /\ OpenRun(s, n, 2)
    /\ Reach(n, 2)
    /\ UNCHANGED <<projection, flag, told>>

\* The old run is abandoned for a new one.
SendNewTurn(s, n) ==
    LET old == pending.run
    IN  /\ ~Busy(s)
        /\ \E m \in Message : Route(m) = "new_turn"
        /\ pending' = IF n >= 1 THEN NoBookmark ELSE pending
        /\ IF n >= 2
           THEN /\ SaveRun(old, "ABANDONED")
                /\ flag' = [flag EXCEPT ![old] = FALSE]
                /\ Promise(old, IF n = 3 /\ ~Executing(old) THEN "cancelled"
                                                           ELSE "nothing")
           ELSE UNCHANGED <<projection, flag, told>>
        /\ OpenRun(s, n, 3)
        /\ Reach(n, 3)

\* The run of the bookmark goes on.  The bookmark stays, no longer awaiting;
\* the pause request is dropped before the checkpoint is loaded.
SendResume(s, n) ==
    LET r == pending.run
    IN  /\ ~Busy(s)
        /\ \E m \in Message : Route(m) = "resume"
        /\ pending' = IF n >= 1 THEN [pending EXCEPT !.awaiting = FALSE] ELSE pending
        /\ IF n >= 2
           THEN /\ registered' = registered \cup {r}
                /\ flag' = [flag EXCEPT ![r] = FALSE]
                /\ Promise(r, "nothing")
           ELSE UNCHANGED <<registered, flag, told>>
        /\ IF n = 3 THEN Occupy(s, Job("chat", r, "open")) ELSE UNCHANGED work
        /\ Reach(n, 3)
        /\ UNCHANGED projection

\* The answer is a stream: the handler only remembers which run it was.
SendAskWhich(s) ==
    /\ \E m \in Message : Route(m) = "ask_which"
    /\ Occupy(s, Job("ask", pending.run, "open"))
    /\ UNCHANGED <<registry, pending, projection, registered, flag, told, faults>>

\* The stream begins: the bookmark is written anew, for the remembered run,
\* with the checkpoint id the session has now.
AskWhich(s, n) ==
    /\ work[s].kind = "ask"
    /\ pending' = IF n = 1
                  THEN [run |-> work[s].run, checkpoint |-> pending.checkpoint,
                        awaiting |-> TRUE]
                  ELSE pending
    /\ Leave(s)
    /\ Reach(n, 1)
    /\ UNCHANGED <<projection, registered, flag, told>>

-----------------------------------------------------------------------------
(* The stream of a chat run.                                               *)

\* The engine looks at the pause request once, before it does anything.
Begin(s) ==
    /\ work[s].kind = "chat" /\ work[s].stage = "open"
    /\ work' = [work EXCEPT ![s].stage =
                   IF flag[work[s].run] THEN "paused" ELSE "model"]
    /\ UNCHANGED <<registry, pending, projection, registered, flag, told, faults>>

\* Model and tools are done; the result waits in the queue of the stream.
ModelAnswers(s) ==
    /\ work[s].kind = "chat" /\ work[s].stage = "model"
    /\ work' = [work EXCEPT ![s].stage = "answer"]
    /\ UNCHANGED <<registry, pending, projection, registered, flag, told, faults>>

\* The engine raised: the stream says so and nothing is written.  Or the
\* client went away: the stream is cancelled where it waits.
ChatLost(s) ==
    /\ work[s].kind \in {"chat", "ask"}
    /\ Leave(s)
    /\ UNCHANGED <<registry, pending, projection, registered, flag, told, faults>>

\* The run was paused before it began.  The request is not withdrawn.
EndPaused(s, n) ==
    /\ work[s].kind = "chat" /\ work[s].stage = "paused"
    /\ Persist(work[s].run, n)
    /\ Leave(s)
    /\ Reach(n, 3)
    /\ UNCHANGED <<registered, flag, told>>

\* Mutant: the pause request is withdrawn before it is looked at.
EndAnsweredBlindly(s, status, n) ==
    LET r == work[s].run
    IN  /\ work[s].kind = "chat" /\ work[s].stage = "answer"
        /\ projection' = IF n >= 1 THEN [projection EXCEPT ![r] = status] ELSE projection
        /\ pending' = IF n >= 2 THEN NoBookmark ELSE pending
        /\ flag' = IF n = 2 THEN [flag EXCEPT ![r] = FALSE] ELSE flag
        /\ Reach(n, 2)
        /\ Leave(s)
        /\ UNCHANGED <<registered, told>>

\* The run has its answer.  The outcome is saved; then, if a pause was
\* requested, the paused state and the bookmark, else the bookmark is
\* dropped, whosever it is.  A stream that breaks promises nothing.
EndAnswered(s, status, n) ==
    LET r == work[s].run
        all == IF flag[r] THEN 4 ELSE 2
    IN  /\ work[s].kind = "chat" /\ work[s].stage = "answer"
        /\ IF n >= 2 /\ flag[r]
           THEN Persist(r, n - 1)
           ELSE /\ projection' = IF n >= 1 THEN [projection EXCEPT ![r] = status]
                                           ELSE projection
                /\ pending' = IF n >= 2 THEN NoBookmark ELSE pending
        /\ flag' = IF n = all THEN [flag EXCEPT ![r] = FALSE] ELSE flag
        /\ told' = IF n = all THEN told ELSE [told EXCEPT ![r] = "nothing"]
        /\ Reach(n, all)
        /\ Leave(s)
        /\ UNCHANGED registered

-----------------------------------------------------------------------------
(* The run endpoints.                                                      *)

\* A new run outside the chat: nobody knows its id before it has ended.
CreateRun(s) ==
    \E r \in Fresh :
        /\ registered' = registered \cup {r}
        /\ Occupy(s, Job("create", r, "model"))
        /\ UNCHANGED <<registry, pending, projection, flag, told, faults>>

Named(r) == \* a client can name the run
    /\ r \in registered
    /\ \A s \in Slot : ~(work[s].kind = "create" /\ work[s].run = r)

\* Every endpoint of a run looks it up first, without saying for whom.  The
\* remote registry refuses to ask Java that, and the request ends there.
LookedUp(r) == registry = "memory" /\ Named(r)

LookUpRaises(r) ==
    /\ registry = "remote" /\ Named(r)
    /\ Promise(r, "error")
    /\ UNCHANGED <<registry, pending, projection, registered, flag, work, faults>>

\* Mutant: the status is not looked at.
StoppableAlways(r) == LookedUp(r)

Stoppable(r) == LookedUp(r) /\ projection[r] \notin Ended

\* At most one stream, whose end looks at the pause request, is at work.
Pausable(r) ==
    /\ \A s \in Slot : Executes(s, r) => work[s].kind = "chat"
    /\ \A s, t \in Slot : Executes(s, r) /\ Executes(t, r) => s = t

Pause(r, n) ==
    /\ Stoppable(r)
    /\ flag' = [flag EXCEPT ![r] = TRUE]
    /\ Persist(r, n)
    /\ Reach(n, 3)
    /\ IF n = 3 /\ Pausable(r) THEN Promise(r, "paused") ELSE UNCHANGED told
    /\ UNCHANGED <<registered, work>>

\* Mutant: the state is written only where the bookmark is dropped.
CancelBookmarked(r, n) ==
    /\ Stoppable(r)
    /\ flag' = [flag EXCEPT ![r] = FALSE]
    /\ IF pending.run = r
       THEN /\ pending' = NoBookmark
            /\ projection' = [projection EXCEPT ![r] = "ABANDONED"]
       ELSE UNCHANGED <<pending, projection>>
    /\ n = 2 /\ Reach(n, 2)
    /\ Promise(r, IF ~Executing(r) THEN "cancelled" ELSE "nothing")
    /\ UNCHANGED <<registered, work>>

Cancel(r, n) ==
    /\ Stoppable(r)
    /\ flag' = [flag EXCEPT ![r] = FALSE]
    /\ pending' = IF n >= 1 /\ pending.run = r THEN NoBookmark ELSE pending
    /\ projection' = IF n = 2 THEN [projection EXCEPT ![r] = "ABANDONED"] ELSE projection
    /\ Reach(n, 2)
    /\ Promise(r, IF n = 2 /\ ~Executing(r) THEN "cancelled" ELSE "nothing")
    /\ UNCHANGED <<registered, work>>

\* Any stored run is taken, whatever its status.  A pause request that still
\* stands ends the call at once.
Resume(s, r) ==
    /\ LookedUp(r) /\ projection[r] # "ABSENT"
    /\ ~flag[r]
    /\ Occupy(s, Job("resume", r, "model"))
    /\ Promise(r, "nothing")
    /\ UNCHANGED <<registry, pending, projection, registered, flag, faults>>

ResumeRefused(r, n) ==
    /\ LookedUp(r) /\ projection[r] # "ABSENT"
    /\ flag[r]
    /\ Persist(r, n)
    /\ Reach(n, 3)
    /\ Promise(r, "nothing")
    /\ UNCHANGED <<registered, flag, work>>

\* The outcome is saved; after a resumption that did not raise, the bookmark
\* is dropped.  The pause request is neither looked at nor withdrawn.
EndCall(s, status, raised, n) ==
    LET r == work[s].run
        drops == work[s].kind = "resume" /\ ~raised
        all == IF drops THEN 2 ELSE 1
    IN  /\ work[s].kind \in {"create", "resume"}
        /\ raised => status = "FAILED"
        /\ projection' = IF n >= 1 THEN [projection EXCEPT ![r] = status] ELSE projection
        /\ pending' = IF n >= 2 THEN NoBookmark ELSE pending
        /\ Reach(n, all)
        /\ Leave(s)
        /\ UNCHANGED <<registered, flag, told>>

\* The process dies with its streams and its pause requests; what it kept
\* in memory would die with it.
Crash ==
    /\ registry = "remote"
    /\ faults < MaxFaults /\ faults' = faults + 1
    /\ work' = [s \in Slot |-> Free]
    /\ flag' = [r \in Run |-> FALSE]
    /\ UNCHANGED <<registry, pending, projection, registered, told>>

-----------------------------------------------------------------------------

Writes == 0 .. 4

Send(s) ==
    \/ \E n \in Writes, regenerate \in BOOLEAN : SendFresh(s, regenerate, n)
    \/ \E n \in Writes : SendNewTurn(s, n)
    \/ \E n \in Writes : SendResume(s, n)
    \/ SendAskWhich(s)

StreamStep(s) ==
    \/ \E n \in Writes : AskWhich(s, n)
    \/ Begin(s)
    \/ ModelAnswers(s)
    \/ ChatLost(s)
    \/ \E n \in Writes : EndPaused(s, n)
    \/ \E n \in Writes, status \in {"SUCCESS", "FAILED"} : EndAnswered(s, status, n)
    \/ \E n \in Writes, status \in {"SUCCESS", "FAILED"}, raised \in BOOLEAN :
            EndCall(s, status, raised, n)

Next ==
    \/ \E s \in Slot : Send(s) \/ CreateRun(s) \/ StreamStep(s)
    \/ \E r \in Run, n \in Writes : Pause(r, n) \/ Cancel(r, n) \/ ResumeRefused(r, n)
    \/ \E s \in Slot, r \in Run : Resume(s, r)
    \/ \E r \in Run : LookUpRaises(r)
    \/ Crash

Spec == Init /\ [][Next]_vars

-----------------------------------------------------------------------------

TypeOK ==
    /\ registry \in Registry
    /\ pending \in Bookmark
    /\ projection \in [Run -> Status]
    /\ registered \subseteq Run
    /\ flag \in [Run -> BOOLEAN]
    /\ work \in [Slot -> [kind : Kind, run : Run \cup {NoRun}, stage : Stage]]
    /\ told \in [Run -> Word]
    /\ faults \in Nat

\* A pause that was acknowledged holds: the run is stored as paused, with its
\* checkpoint, until the user takes it up or gives it up - although the
\* execution in flight at the pause runs on and saves its answer later.
PauseHolds == \A r \in Run : told[r] = "paused" => Saved(r)

\* A run the user was told is cancelled, none of whose executions was in
\* flight, stays abandoned and is not executed unless he resumes it by name.
CancelHolds ==
    \A r \in Run : told[r] = "cancelled" =>
        projection[r] = "ABANDONED" /\ ~Executing(r)

\* An ended run is written again by an execution of its own only, through a
\* bookmark that still names it or a pause request that was left behind: late
\* pauses and cancels are refused, and no other run's end touches it.
EndedIsSettled ==
    [][\A r \in Run :
        /\ projection[r] \in Ended
        /\ ~Executing(r) /\ ~flag[r]
        /\ pending.run # r
        => projection'[r] = projection[r]]_vars

\* What the pause endpoint says of itself, and the console builds on: a run is
\* stopped and can be taken up again.  No request about a known run is answered
\* with an error while no call of Java fails.
EndpointsAnswer == faults = 0 => \A r \in Run : told[r] # "error"

=============================================================================
