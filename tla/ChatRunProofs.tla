--------------------------- MODULE ChatRunProofs ---------------------------
(***************************************************************************)
(* A pause that was acknowledged holds, a cancel that met no execution     *)
(* holds, and an ended run at rest is left alone: for any number of runs   *)
(* and of requests in flight.  In the assembly that keeps its stores in    *)
(* Java no run is ever stopped, so that there the first two say nothing.   *)
(***************************************************************************)
EXTENDS ChatRun, TLAPS

(***************************************************************************)
(* The records of the state have their types.                              *)
(***************************************************************************)
LEMMA Records ==
    /\ NoBookmark \in Bookmark /\ NoBookmark.run = NoRun
    /\ \A r \in Run : BookmarkOf(r) \in Bookmark /\ BookmarkOf(r).run = r
    /\ Free \in [kind : Kind, run : Run \cup {NoRun}, stage : Stage]
    /\ \A k \in Kind, r \in Run \cup {NoRun}, st \in Stage :
            Job(k, r, st) \in [kind : Kind, run : Run \cup {NoRun}, stage : Stage]
  BY DEF NoBookmark, Bookmark, BookmarkOf, Free, Kind, Stage, Job

(***************************************************************************)
(* An execution belongs to a registered run, and so does the bookmark.     *)
(***************************************************************************)
JobsOK == \A s \in Slot : Busy(s) => work[s].run \in registered
BookmarkOK == pending.run \in registered \cup {NoRun}

Base == TypeOK /\ JobsOK /\ BookmarkOK

(***************************************************************************)
(* The promises about a run, strengthened.  Of a run promised to be paused *)
(* there is at most one execution, a chat stream that will find the pause  *)
(* request.                                                                *)
(***************************************************************************)
Kept(r) ==
    /\ told[r] = "paused" =>
        /\ r \in registered
        /\ Saved(r)
        /\ \A s \in Slot : Executes(s, r) => work[s].kind = "chat" /\ flag[r]
        /\ \A s, t \in Slot : Executes(s, r) /\ Executes(t, r) => s = t
    /\ told[r] = "cancelled" =>
        /\ r \in registered
        /\ projection[r] = "ABANDONED"
        /\ ~Executing(r)

Inv == Base /\ \A r \in Run : Kept(r)

-----------------------------------------------------------------------------

(***************************************************************************)
(* What a message meant is what the bookmark allows.                       *)
(***************************************************************************)
LEMMA Routed ==
    ASSUME NEW m, Route(m) \in {"resume", "new_turn", "ask_which"}
    PROVE  pending.run # NoRun
  BY DEF Route

(***************************************************************************)
(* Opening the stream of a new run keeps the jobs in order.                *)
(***************************************************************************)
JobType == [kind : Kind, run : Run \cup {NoRun}, stage : Stage]

LEMMA OpenRunOK ==
    ASSUME NEW s \in Slot, NEW n, NEW last, Base, OpenRun(s, n, last)
    PROVE  /\ registered \subseteq registered' /\ registered' \subseteq Run
           /\ work' \in [Slot -> JobType]
           /\ JobsOK'
  <1>1. CASE n = last
    <2>1. PICK r \in Fresh : /\ registered' = registered \cup {r}
                             /\ Occupy(s, Job("chat", r, "open"))
      BY <1>1 DEF OpenRun
    <2>2. r \in Run /\ Job("chat", r, "open") \in JobType
      BY <2>1, Records DEF Fresh, JobType, Kind, Stage
    <2>3. work' = [work EXCEPT ![s] = Job("chat", r, "open")]
      BY <2>1 DEF Occupy
    <2> QED
      BY <2>1, <2>2, <2>3 DEF Base, TypeOK, JobType, JobsOK, Busy, Job
  <1>2. CASE n # last
    BY <1>2 DEF OpenRun, Base, TypeOK, JobType, JobsOK, Busy
  <1> QED
    BY <1>1, <1>2

(***************************************************************************)
(* The stores stay those of the assembly.                                  *)
(***************************************************************************)
LEMMA RegistryFixed ==
    ASSUME [Next]_vars
    PROVE  registry' = registry
  BY DEF Next, vars, Send, StreamStep, SendFresh, SendNewTurn, SendResume, SendAskWhich,
     CreateRun, AskWhich, Begin, ModelAnswers, ChatLost, EndPaused, EndAnswered, EndCall,
     Pause, Cancel, ResumeRefused, Resume, LookUpRaises, Crash, Reach

LEMMA BaseStep == Base /\ [Next]_vars => Base'
  <1> SUFFICES ASSUME Base, [Next]_vars PROVE Base'
    OBVIOUS
  <1> USE ChatAssumption DEF Base, Word
  <1>0. registry' = registry /\ registry \in Registry
    BY RegistryFixed DEF TypeOK
  <1> USE <1>0
  <1>1. CASE UNCHANGED vars
    BY <1>1 DEF vars, TypeOK, JobsOK, BookmarkOK, Busy
  <1>2. ASSUME NEW s \in Slot, NEW n \in Writes, NEW g \in BOOLEAN, SendFresh(s, g, n)
        PROVE  Base'
    <2>1. OpenRun(s, n, 2)
      BY <1>2 DEF SendFresh
    <2>2. pending' \in Bookmark /\ pending'.run \in {NoRun, pending.run}
      BY <1>2, Records DEF SendFresh, TypeOK
    <2> QED
      BY <1>2, <2>1, <2>2, OpenRunOK DEF SendFresh, Reach, TypeOK, BookmarkOK, JobType
  <1>3. ASSUME NEW s \in Slot, NEW n \in Writes, SendNewTurn(s, n) PROVE Base'
    <2>1. pending.run \in Run
      BY <1>3, Routed DEF SendNewTurn, TypeOK, Bookmark
    <2>2. OpenRun(s, n, 3)
      BY <1>3 DEF SendNewTurn
    <2>3. pending' \in Bookmark /\ pending'.run \in {NoRun, pending.run}
      BY <1>3, Records DEF SendNewTurn, TypeOK
    <2>4. /\ projection' \in [Run -> Status] /\ flag' \in [Run -> BOOLEAN]
          /\ told' \in [Run -> Word]
      BY <1>3, <2>1 DEF SendNewTurn, TypeOK, SaveRun, Promise, Status, Ended
    <2>5. faults' \in Nat
      BY <1>3 DEF SendNewTurn, Reach, TypeOK
    <2> QED
      BY <2>2, <2>3, <2>4, <2>5, OpenRunOK DEF TypeOK, BookmarkOK, JobType
  <1>4. ASSUME NEW s \in Slot, NEW n \in Writes, SendResume(s, n) PROVE Base'
    <2>1. pending.run \in Run
      BY <1>4, Routed DEF SendResume, TypeOK, Bookmark
    <2>2. pending' \in Bookmark /\ pending'.run = pending.run
      BY <1>4 DEF SendResume, TypeOK, Bookmark
    <2>3. /\ registered' \in {registered, registered \cup {pending.run}}
          /\ n = 3 => registered' = registered \cup {pending.run}
          /\ projection' = projection
      BY <1>4 DEF SendResume
    <2>10. flag' \in [Run -> BOOLEAN]
      <3>1. flag' \in {flag, [flag EXCEPT ![pending.run] = FALSE]}
        BY <1>4 DEF SendResume
      <3> QED
        BY <2>1, <3>1 DEF TypeOK
    <2>11. faults' \in Nat
      BY <1>4 DEF SendResume, TypeOK, Reach
    <2>9. told' \in [Run -> Word]
      BY <1>4, <2>1 DEF SendResume, TypeOK, Promise
    <2>4. \/ work' = work
          \/ work' = [work EXCEPT ![s] = Job("chat", pending.run, "open")]
      BY <1>4 DEF SendResume, Occupy
    <2>5. pending.run \in registered'
      BY <2>1, <2>3 DEF BookmarkOK, TypeOK
    <2>6. Job("chat", pending.run, "open") \in JobType
      BY <2>1, Records DEF JobType, Kind, Stage
    <2>7. work' \in [Slot -> JobType]
      BY <2>4, <2>6 DEF TypeOK, JobType
    <2>8. JobsOK'
      BY <2>3, <2>4, <2>5 DEF JobsOK, Busy, Job, TypeOK
    <2> QED
      BY <2>1, <2>2, <2>3, <2>5, <2>7, <2>8, <2>9, <2>10, <2>11 DEF TypeOK, BookmarkOK, JobType
  <1>5. ASSUME NEW s \in Slot, SendAskWhich(s) PROVE Base'
    <2>1. pending.run \in Run
      BY <1>5, Routed DEF SendAskWhich, TypeOK, Bookmark
    <2> QED
      BY <1>5, <2>1 DEF SendAskWhich, Occupy, TypeOK, JobsOK, BookmarkOK, Busy, Job, Kind, Stage
  <1>6. ASSUME NEW s \in Slot, CreateRun(s) PROVE Base'
    BY <1>6, Records DEF CreateRun, Fresh, Occupy, TypeOK, JobsOK, BookmarkOK, Busy, Job, Kind, Stage
  <1>7. ASSUME NEW s \in Slot, NEW n \in Writes, AskWhich(s, n) PROVE Base'
    BY <1>7, Records DEF AskWhich, Leave, Reach, TypeOK, JobsOK, BookmarkOK, Busy, Free, Bookmark
  <1>8. ASSUME NEW s \in Slot, Begin(s) \/ ModelAnswers(s) PROVE Base'
    BY <1>8 DEF Begin, ModelAnswers, TypeOK, JobsOK, BookmarkOK, Busy, Stage
  <1>9. ASSUME NEW s \in Slot, ChatLost(s) PROVE Base'
    BY <1>9, Records DEF ChatLost, Leave, TypeOK, JobsOK, BookmarkOK, Busy, Free
  <1>10. ASSUME NEW s \in Slot, NEW n \in Writes, EndPaused(s, n) PROVE Base'
    <2>1. work[s].run \in registered /\ work[s].run \in Run
      BY <1>10, Records DEF EndPaused, TypeOK, JobsOK, Busy
    <2> QED
      BY <1>10, <2>1, Records DEF EndPaused, Persist, Leave, Reach, TypeOK, JobsOK, BookmarkOK, Busy,
                 Free, BookmarkOf, Status, Ended
  <1>11. ASSUME NEW s \in Slot, NEW n \in Writes, NEW st \in {"SUCCESS", "FAILED"},
                EndAnswered(s, st, n)
         PROVE  Base'
    <2>1. work[s].run \in registered /\ work[s].run \in Run
      BY <1>11, Records DEF EndAnswered, TypeOK, JobsOK, Busy
    <2>2. /\ pending' \in Bookmark
          /\ pending'.run \in {NoRun, pending.run, work[s].run}
      <3>1. pending' \in {pending, NoBookmark, BookmarkOf(work[s].run)}
        BY <1>11, Records DEF EndAnswered, Persist
      <3> QED
        BY <2>1, <3>1, Records DEF TypeOK
    <2>3. projection' \in [Run -> Status]
      BY <1>11, <2>1, Records DEF EndAnswered, Persist, TypeOK, Status, Ended
    <2>4. flag' \in [Run -> BOOLEAN] /\ told' \in [Run -> Word]
      BY <1>11, <2>1, Records DEF EndAnswered, TypeOK
    <2>5. /\ registered' = registered /\ faults' \in Nat
          /\ work' = [work EXCEPT ![s] = Free]
      BY <1>11, Records DEF EndAnswered, Leave, Reach, TypeOK
    <2> QED
      BY <2>1, <2>2, <2>3, <2>4, <2>5, Records DEF TypeOK, JobsOK, BookmarkOK, Busy, Free
  <1>12. ASSUME NEW s \in Slot, NEW n \in Writes, NEW st \in {"SUCCESS", "FAILED"},
                NEW raised \in BOOLEAN, EndCall(s, st, raised, n)
         PROVE  Base'
    BY <1>12, Records DEF EndCall, Leave, Reach, TypeOK, JobsOK, BookmarkOK, Busy, Free,
                 NoBookmark, Status, Ended, Writes
  <1>13. ASSUME NEW r \in Run, NEW n \in Writes, Pause(r, n) PROVE Base'
    BY <1>13, Records DEF Pause, Stoppable, LookedUp, Named, Persist, Reach, Promise, TypeOK, JobsOK, BookmarkOK,
                 Busy, BookmarkOf, Status, Ended
  <1>14. ASSUME NEW r \in Run, NEW n \in Writes, Cancel(r, n) PROVE Base'
    BY <1>14, Records DEF Cancel, Reach, Promise, TypeOK, JobsOK, BookmarkOK,
                 Busy, NoBookmark, Status, Ended
  <1>15. ASSUME NEW r \in Run, NEW n \in Writes, ResumeRefused(r, n) PROVE Base'
    BY <1>15, Records DEF ResumeRefused, LookedUp, Named, Persist, Reach, Promise, TypeOK, JobsOK, BookmarkOK,
                 Busy, BookmarkOf, Status, Ended
  <1>16. ASSUME NEW s \in Slot, NEW r \in Run, Resume(s, r) PROVE Base'
    BY <1>16, Records DEF Resume, LookedUp, Named, Occupy, Promise, TypeOK, JobsOK, BookmarkOK, Busy, Job,
                 Kind, Stage
  <1>17. CASE Crash
    BY <1>17, Records DEF Crash, TypeOK, JobsOK, BookmarkOK, Busy, Free
  <1>18. ASSUME NEW r \in Run, LookUpRaises(r) PROVE Base'
    BY <1>18 DEF LookUpRaises, Promise, TypeOK, JobsOK, BookmarkOK, Busy
  <1> QED
    BY <1>1, <1>2, <1>3, <1>4, <1>5, <1>6, <1>7, <1>8, <1>9, <1>10, <1>11, <1>12, <1>13,
       <1>14, <1>15, <1>16, <1>17, <1>18 DEF Next, Send, StreamStep

(***************************************************************************)
(* Every value of the state has its type, in every reachable state.        *)
(***************************************************************************)
THEOREM TypeCorrect == Spec => []TypeOK
  <1>1. Init => Base
    BY ChatAssumption, Records DEF Init, Base, TypeOK, JobsOK, BookmarkOK, Busy, Free,
       NoBookmark, Status, Word
  <1>2. Base => TypeOK
    BY DEF Base
  <1> QED
    BY <1>1, <1>2, BaseStep, PTL DEF Spec

-----------------------------------------------------------------------------

(***************************************************************************)
(* A step that leaves a run and its executions alone, or ends some of      *)
(* them, keeps the promises about it; so does one that withdraws them.     *)
(***************************************************************************)
LEMMA Frame ==
    ASSUME NEW r \in Run, Kept(r), told'[r] = told[r], projection'[r] = projection[r],
           registered \subseteq registered', flag'[r] = flag[r],
           \A q \in Slot : Executes(q, r)' => Executes(q, r) /\ work'[q].kind = work[q].kind
    PROVE  Kept(r)'
  BY DEF Kept, Saved, Executing

LEMMA Withdrawn ==
    ASSUME NEW r \in Run, told'[r] \notin {"paused", "cancelled"}
    PROVE  Kept(r)'
  BY DEF Kept

(***************************************************************************)
(* What a slot executes after it was freed, or taken by a new job.         *)
(***************************************************************************)
LEMMA AfterLeave ==
    ASSUME NEW s \in Slot, TypeOK, Leave(s)
    PROVE  \A q \in Slot, r \in Run :
              Executes(q, r)' => Executes(q, r) /\ work'[q].kind = work[q].kind /\ q # s
  BY DEF TypeOK, Leave, Executes, Free

LEMMA AfterOccupy ==
    ASSUME NEW s \in Slot, TypeOK, NEW k, NEW x, NEW st, Occupy(s, Job(k, x, st))
    PROVE  \A q \in Slot, r \in Run :
              r # x => (Executes(q, r)' => Executes(q, r) /\ work'[q].kind = work[q].kind)
  BY DEF TypeOK, Occupy, Executes, Job

(***************************************************************************)
(* Opening a new run leaves the executions of every registered run alone.  *)
(***************************************************************************)
LEMMA OpenRunFrame ==
    ASSUME NEW s \in Slot, NEW n, NEW last, TypeOK, OpenRun(s, n, last)
    PROVE  /\ registered \subseteq registered'
           /\ \A q \in Slot, r \in registered :
                Executes(q, r)' => Executes(q, r) /\ work'[q].kind = work[q].kind
  <1>1. CASE n = last
    <2>1. PICK x \in Fresh : /\ registered' = registered \cup {x}
                             /\ Occupy(s, Job("chat", x, "open"))
      BY <1>1 DEF OpenRun
    <2> QED
      BY <2>1, AfterOccupy DEF Fresh, TypeOK
  <1>2. CASE n # last
    BY <1>2 DEF OpenRun, Executes
  <1> QED
    BY <1>1, <1>2

LEMMA KeptUnregistered ==
    ASSUME NEW r \in Run, Kept(r), TypeOK, r \notin registered
    PROVE  told[r] \notin {"paused", "cancelled"}
  BY DEF Kept, TypeOK

LEMMA KeptStep == Inv /\ [Next]_vars => \A r \in Run : Kept(r)'
  <1> SUFFICES ASSUME Inv, [Next]_vars, NEW r \in Run PROVE Kept(r)'
    OBVIOUS
  <1>0. Base /\ TypeOK /\ JobsOK /\ BookmarkOK /\ Kept(r)
    BY DEF Inv, Base
  <1> HIDE DEF Kept
  <1>1. CASE UNCHANGED vars
    BY <1>0, <1>1, Frame DEF vars, Executes
  <1>2. ASSUME NEW s \in Slot, NEW n \in Writes, NEW g \in BOOLEAN, SendFresh(s, g, n)
        PROVE  Kept(r)'
    <2>1. OpenRun(s, n, 2) /\ UNCHANGED <<projection, flag, told>>
      BY <1>2 DEF SendFresh
    <2>2. CASE r \in registered
      BY <1>0, <2>1, <2>2, OpenRunFrame, Frame
    <2>3. CASE r \notin registered
      BY <1>0, <2>1, <2>3, KeptUnregistered, Withdrawn
    <2> QED
      BY <2>2, <2>3
  <1>3. ASSUME NEW s \in Slot, NEW n \in Writes, SendNewTurn(s, n) PROVE Kept(r)'
    <2>1. OpenRun(s, n, 3)
      BY <1>3 DEF SendNewTurn
    <2>2. pending.run \in Run /\ pending.run \in registered
      BY <1>0, <1>3, Routed DEF SendNewTurn, TypeOK, Bookmark, BookmarkOK
    <2>3. \/ UNCHANGED <<projection, flag, told>>
          \/ /\ SaveRun(pending.run, "ABANDONED")
             /\ flag' = [flag EXCEPT ![pending.run] = FALSE]
             /\ \/ Promise(pending.run, "nothing")
                \/ Promise(pending.run, "cancelled") /\ ~Executing(pending.run)
      BY <1>3 DEF SendNewTurn
    <2>4. CASE r # pending.run \/ UNCHANGED <<projection, flag, told>>
      <3>1. told'[r] = told[r] /\ projection'[r] = projection[r] /\ flag'[r] = flag[r]
        BY <1>0, <2>2, <2>3, <2>4 DEF TypeOK, SaveRun, Promise
      <3>2. CASE r \in registered
        BY <1>0, <2>1, <3>1, <3>2, OpenRunFrame, Frame
      <3>3. CASE r \notin registered
        BY <1>0, <3>1, <3>3, KeptUnregistered, Withdrawn
      <3> QED
        BY <3>2, <3>3
    <2>5. CASE r = pending.run /\ Promise(r, "nothing")
      BY <1>0, <2>5, Withdrawn DEF Promise, TypeOK
    <2>6. CASE /\ r = pending.run /\ Promise(r, "cancelled") /\ ~Executing(r)
               /\ SaveRun(r, "ABANDONED")
      <3>1. told'[r] = "cancelled" /\ projection'[r] = "ABANDONED"
        BY <1>0, <2>6 DEF TypeOK, Promise, SaveRun
      <3>2. r \in registered' /\ ~Executing(r)'
        BY <1>0, <2>1, <2>2, <2>6, OpenRunFrame DEF Executing
      <3> QED
        BY <3>1, <3>2 DEF Kept
    <2> QED
      BY <2>3, <2>4, <2>5, <2>6
  <1>4. ASSUME NEW s \in Slot, NEW n \in Writes, SendResume(s, n) PROVE Kept(r)'
    <2>1. pending.run \in Run
      BY <1>0, <1>4, Routed DEF SendResume, TypeOK, Bookmark
    <2>2. \/ UNCHANGED <<registered, flag, told, work>>
          \/ /\ registered' = registered \cup {pending.run}
             /\ flag' = [flag EXCEPT ![pending.run] = FALSE]
             /\ Promise(pending.run, "nothing")
             /\ \/ UNCHANGED work
                \/ Occupy(s, Job("chat", pending.run, "open"))
      BY <1>4 DEF SendResume, Writes
    <2>3. UNCHANGED projection
      BY <1>4 DEF SendResume
    <2>4. CASE UNCHANGED <<registered, flag, told, work>>
      BY <1>0, <2>3, <2>4, Frame DEF Executes
    <2>5. CASE r = pending.run /\ Promise(r, "nothing")
      BY <1>0, <2>5, Withdrawn DEF Promise, TypeOK
    <2>6. ASSUME r # pending.run, ~UNCHANGED <<registered, flag, told, work>>
          PROVE  Kept(r)'
      <3>1. told'[r] = told[r] /\ flag'[r] = flag[r] /\ registered \subseteq registered'
        BY <1>0, <2>1, <2>2, <2>6 DEF TypeOK, Promise
      <3>2. \A q \in Slot : Executes(q, r)' => Executes(q, r) /\ work'[q].kind = work[q].kind
        BY <1>0, <2>2, <2>6, AfterOccupy DEF Executes
      <3> QED
        BY <1>0, <2>3, <3>1, <3>2, Frame
    <2> QED
      BY <2>2, <2>4, <2>5, <2>6
  <1>5. ASSUME NEW s \in Slot, SendAskWhich(s) PROVE Kept(r)'
    <2>1. \A q \in Slot : Executes(q, r)' => Executes(q, r) /\ work'[q].kind = work[q].kind
      BY <1>0, <1>5 DEF SendAskWhich, Occupy, TypeOK, Executes, Job
    <2> QED
      BY <1>0, <1>5, <2>1, Frame DEF SendAskWhich
  <1>6. ASSUME NEW s \in Slot, CreateRun(s) PROVE Kept(r)'
    <2>1. PICK x \in Fresh : /\ registered' = registered \cup {x}
                             /\ Occupy(s, Job("create", x, "model"))
      BY <1>6 DEF CreateRun
    <2>2. UNCHANGED <<projection, flag, told>>
      BY <1>6 DEF CreateRun
    <2>3. CASE r \in registered
      <3>1. \A q \in Slot : Executes(q, r)' => Executes(q, r) /\ work'[q].kind = work[q].kind
        BY <1>0, <2>1, <2>3, AfterOccupy DEF Fresh
      <3> QED
        BY <1>0, <2>1, <2>2, <3>1, Frame
    <2>4. CASE r \notin registered
      BY <1>0, <2>2, <2>4, KeptUnregistered, Withdrawn
    <2> QED
      BY <2>3, <2>4
  <1>7. ASSUME NEW s \in Slot, NEW n \in Writes, AskWhich(s, n) PROVE Kept(r)'
    BY <1>0, <1>7, AfterLeave, Frame DEF AskWhich
  <1>8. ASSUME NEW s \in Slot, Begin(s) \/ ModelAnswers(s) PROVE Kept(r)'
    <2>1. \A q \in Slot : Executes(q, r)' => Executes(q, r) /\ work'[q].kind = work[q].kind
      BY <1>0, <1>8 DEF Begin, ModelAnswers, TypeOK, Executes
    <2> QED
      BY <1>0, <1>8, <2>1, Frame DEF Begin, ModelAnswers
  <1>9. ASSUME NEW s \in Slot, ChatLost(s) PROVE Kept(r)'
    BY <1>0, <1>9, AfterLeave, Frame DEF ChatLost
  <1>10. ASSUME NEW s \in Slot, NEW n \in Writes, EndPaused(s, n) PROVE Kept(r)'
    <2>1. Executes(s, work[s].run)
      BY <1>10 DEF EndPaused, Executes
    <2>2. \/ UNCHANGED projection
          \/ projection' = [projection EXCEPT ![work[s].run] = "PAUSED_BY_USER"]
      BY <1>10 DEF EndPaused, Persist
    <2>3. UNCHANGED <<registered, flag, told>> /\ Leave(s)
      BY <1>10 DEF EndPaused
    <2>4. CASE projection'[r] = projection[r]
      BY <1>0, <2>3, <2>4, AfterLeave, Frame
    <2>5. CASE projection'[r] # projection[r]
      <3>1. r = work[s].run /\ projection'[r] = "PAUSED_BY_USER"
        BY <1>0, <2>2, <2>5 DEF TypeOK
      <3>2. told[r] # "cancelled"
        BY <1>0, <2>1, <3>1 DEF Kept, Executing
      <3>3. \A q \in Slot : Executes(q, r)' => Executes(q, r) /\ work'[q].kind = work[q].kind
        BY <1>0, <2>3, AfterLeave
      <3> QED
        BY <1>0, <2>3, <3>1, <3>2, <3>3 DEF Kept, Saved
    <2> QED
      BY <2>4, <2>5
  <1>11. ASSUME NEW s \in Slot, NEW n \in Writes, NEW st \in {"SUCCESS", "FAILED"},
                EndAnswered(s, st, n)
         PROVE  Kept(r)'
    <2>1. Executes(s, work[s].run) /\ Leave(s) /\ UNCHANGED registered
      BY <1>11 DEF EndAnswered, Executes
    <2>2. \A q \in Slot : Executes(q, r)' =>
              Executes(q, r) /\ work'[q].kind = work[q].kind /\ q # s
      BY <1>0, <2>1, AfterLeave
    <2>3. CASE r # work[s].run
      <3>1. projection'[r] = projection[r]
        BY <1>0, <1>11, <2>3 DEF EndAnswered, Persist, TypeOK
      <3>2. flag'[r] = flag[r] /\ told'[r] = told[r]
        BY <1>0, <1>11, <2>3 DEF EndAnswered, TypeOK
      <3> QED
        BY <1>0, <2>1, <2>2, <3>1, <3>2, Frame
    <2>4. ASSUME r = work[s].run, told'[r] \in {"paused", "cancelled"} PROVE Kept(r)'
      <3>1. told' = told /\ n = IF flag[r] THEN 4 ELSE 2
        BY <1>0, <1>11, <2>4 DEF EndAnswered, TypeOK
      <3>2. told[r] # "cancelled"
        BY <1>0, <2>1, <2>4 DEF Kept, Executing
      <3>3. told[r] = "paused"
        BY <1>0, <2>4, <3>1, <3>2 DEF TypeOK
      <3>4. /\ flag[r] /\ r \in registered
            /\ \A q \in Slot : Executes(q, r) => q = s
        BY <1>0, <2>1, <2>4, <3>3 DEF Kept
      <3>5. projection' = [projection EXCEPT ![r] = "PAUSED_BY_USER"]
        <4>1. n = 4
          BY <3>1, <3>4
        <4> QED
          BY <1>11, <2>4, <3>4, <4>1 DEF EndAnswered, Persist
      <3>6. Saved(r)'
        BY <1>0, <3>5 DEF Saved, TypeOK
      <3>7. \A q \in Slot : ~Executes(q, r)'
        BY <2>2, <3>4
      <3> QED
        BY <2>1, <3>1, <3>3, <3>4, <3>6, <3>7 DEF Kept
    <2> QED
      BY <2>3, <2>4, Withdrawn
  <1>12. ASSUME NEW s \in Slot, NEW n \in Writes, NEW st \in {"SUCCESS", "FAILED"},
                NEW raised \in BOOLEAN, EndCall(s, st, raised, n)
         PROVE  Kept(r)'
    <2>1. /\ Executes(s, work[s].run) /\ work[s].kind # "chat"
          /\ Leave(s) /\ UNCHANGED <<registered, flag, told>>
      BY <1>12 DEF EndCall, Executes
    <2>2. CASE r # work[s].run
      <3>1. projection'[r] = projection[r]
        BY <1>0, <1>12, <2>2 DEF EndCall, TypeOK
      <3> QED
        BY <1>0, <2>1, <3>1, AfterLeave, Frame
    <2>3. CASE r = work[s].run
      <3>1. told[r] \notin {"paused", "cancelled"}
        BY <1>0, <2>1, <2>3 DEF Kept, Executing, TypeOK
      <3> QED
        BY <2>1, <3>1, Withdrawn
    <2> QED
      BY <2>2, <2>3
  <1>13. ASSUME NEW x \in Run, NEW n \in Writes, Pause(x, n) PROVE Kept(r)'
    <2>1. /\ Stoppable(x) /\ flag' = [flag EXCEPT ![x] = TRUE]
          /\ Persist(x, n) /\ UNCHANGED <<registered, work>>
          /\ \/ UNCHANGED told
             \/ n = 3 /\ Pausable(x) /\ Promise(x, "paused")
      BY <1>13 DEF Pause
    <2>2. \A q \in Slot : Executes(q, r)' <=> Executes(q, r)
      BY <2>1 DEF Executes
    <2>3. \/ UNCHANGED projection
          \/ projection' = [projection EXCEPT ![x] = "PAUSED_BY_USER"]
      BY <2>1 DEF Persist
    <2>4. CASE r # x
      <3>1. /\ projection'[r] = projection[r] /\ flag'[r] = flag[r]
            /\ told'[r] = told[r]
        BY <1>0, <2>1, <2>3, <2>4 DEF TypeOK, Promise
      <3> QED
        BY <1>0, <2>1, <2>2, <3>1, Frame
    <2>5. CASE r = x /\ UNCHANGED told
      <3>1. told[r] # "cancelled"
        BY <1>0, <2>1, <2>5 DEF Kept, Stoppable, LookedUp, Ended
      <3>2. flag'[r]
        BY <1>0, <2>1, <2>5 DEF TypeOK
      <3>3. Saved(r) => Saved(r)'
        BY <1>0, <2>3, <2>5 DEF Saved, TypeOK
      <3> QED
        BY <1>0, <2>1, <2>2, <2>5, <3>1, <3>2, <3>3 DEF Kept
    <2>6. CASE r = x /\ n = 3 /\ Pausable(x) /\ Promise(x, "paused")
      <3>1. flag'[r] /\ told'[r] = "paused" /\ r \in registered'
        BY <1>0, <2>1, <2>6 DEF TypeOK, Promise, Stoppable, LookedUp, Named
      <3>2. Saved(r)'
        BY <1>0, <2>1, <2>6 DEF Persist, Saved, TypeOK
      <3> QED
        BY <2>1, <2>2, <2>6, <3>1, <3>2 DEF Kept, Pausable
    <2> QED
      BY <2>1, <2>4, <2>5, <2>6
  <1>14. ASSUME NEW x \in Run, NEW n \in Writes, Cancel(x, n) PROVE Kept(r)'
    <2>1. /\ Stoppable(x) /\ flag' = [flag EXCEPT ![x] = FALSE]
          /\ UNCHANGED <<registered, work>>
          /\ \/ Promise(x, "nothing")
             \/ n = 2 /\ ~Executing(x) /\ Promise(x, "cancelled")
      BY <1>14 DEF Cancel
    <2>2. \A q \in Slot : Executes(q, r)' <=> Executes(q, r)
      BY <2>1 DEF Executes
    <2>3. projection' = IF n = 2 THEN [projection EXCEPT ![x] = "ABANDONED"] ELSE projection
      BY <1>14 DEF Cancel
    <2>4. CASE r # x
      <3>1. /\ projection'[r] = projection[r] /\ flag'[r] = flag[r]
            /\ told'[r] = told[r]
        BY <1>0, <2>1, <2>3, <2>4 DEF TypeOK, Promise
      <3> QED
        BY <1>0, <2>1, <2>2, <2>4, <3>1, Frame DEF Executes
    <2>5. CASE r = x /\ Promise(x, "nothing")
      BY <1>0, <2>5, Withdrawn DEF Promise, TypeOK
    <2>6. CASE r = x /\ n = 2 /\ ~Executing(x) /\ Promise(x, "cancelled")
      <3>1. told'[r] = "cancelled" /\ projection'[r] = "ABANDONED" /\ r \in registered'
        BY <1>0, <2>1, <2>3, <2>6 DEF TypeOK, Promise, Stoppable, LookedUp, Named
      <3>2. ~Executing(r)'
        BY <2>2, <2>6 DEF Executing
      <3> QED
        BY <3>1, <3>2 DEF Kept
    <2> QED
      BY <2>1, <2>4, <2>5, <2>6
  <1>15. ASSUME NEW x \in Run, NEW n \in Writes, ResumeRefused(x, n) PROVE Kept(r)'
    <2>1. Persist(x, n) /\ Promise(x, "nothing") /\ UNCHANGED <<registered, flag, work>>
      BY <1>15 DEF ResumeRefused
    <2>2. CASE r # x
      <3>1. projection'[r] = projection[r] /\ told'[r] = told[r]
        BY <1>0, <2>1, <2>2 DEF Persist, TypeOK, Promise
      <3> QED
        BY <1>0, <2>1, <3>1, Frame DEF Executes
    <2>3. CASE r = x
      BY <1>0, <2>1, <2>3, Withdrawn DEF Promise, TypeOK
    <2> QED
      BY <2>2, <2>3
  <1>16. ASSUME NEW s \in Slot, NEW x \in Run, Resume(s, x) PROVE Kept(r)'
    <2>1. /\ Occupy(s, Job("resume", x, "model")) /\ Promise(x, "nothing")
          /\ UNCHANGED <<projection, registered, flag>>
      BY <1>16 DEF Resume
    <2>2. CASE r # x
      <3>1. told'[r] = told[r]
        BY <1>0, <2>1, <2>2 DEF TypeOK, Promise
      <3>2. \A q \in Slot : Executes(q, r)' => Executes(q, r) /\ work'[q].kind = work[q].kind
        BY <1>0, <2>1, <2>2, AfterOccupy
      <3> QED
        BY <1>0, <2>1, <3>1, <3>2, Frame
    <2>3. CASE r = x
      BY <1>0, <2>1, <2>3, Withdrawn DEF Promise, TypeOK
    <2> QED
      BY <2>2, <2>3
  <1>17. CASE Crash
    <2>1. \A q \in Slot : ~Executes(q, r)'
      BY <1>17 DEF Crash, Executes, Free
    <2> QED
      BY <1>0, <1>17, <2>1 DEF Crash, Kept, Saved, Executing
  <1>18. ASSUME NEW x \in Run, LookUpRaises(x) PROVE Kept(r)'
    <2>1. UNCHANGED <<projection, registered, flag, work>> /\ Promise(x, "error")
      BY <1>18 DEF LookUpRaises
    <2>2. CASE r = x
      BY <1>0, <2>1, <2>2 DEF Promise, TypeOK, Kept
    <2>3. CASE r # x
      <3>1. told'[r] = told[r]
        BY <1>0, <2>1, <2>3 DEF Promise, TypeOK
      <3> QED
        BY <1>0, <2>1, <3>1, Frame DEF Executes
    <2> QED
      BY <2>2, <2>3
  <1>19. ASSUME NEW s \in Slot, Send(s) \/ CreateRun(s) \/ StreamStep(s)
         PROVE  Kept(r)'
    BY <1>2, <1>3, <1>4, <1>5, <1>6, <1>7, <1>8, <1>9, <1>10, <1>11, <1>12, <1>19
       DEF Send, StreamStep
  <1> QED
    BY <1>1, <1>13, <1>14, <1>15, <1>16, <1>17, <1>18, <1>19 DEF Next

LEMMA Invariant == Spec => []Inv
  <1>1. Init => Inv
    BY ChatAssumption, Records DEF Init, Inv, Base, TypeOK, JobsOK, BookmarkOK, Busy, Free,
       NoBookmark, Status, Word, Kept
  <1>2. Inv /\ [Next]_vars => Inv'
    BY BaseStep, KeptStep DEF Inv
  <1> QED
    BY <1>1, <1>2, PTL DEF Spec

(***************************************************************************)
(* A pause that was acknowledged holds until the user takes the run up or  *)
(* gives it up, for any number of runs and streams.                        *)
(***************************************************************************)
THEOREM PausesHold == Spec => []PauseHolds
  <1>1. Inv => PauseHolds
    BY DEF Inv, Kept, PauseHolds
  <1> QED
    BY <1>1, Invariant, PTL

(***************************************************************************)
(* A cancel that met no execution holds until the run is resumed by name.  *)
(***************************************************************************)
THEOREM CancelsHold == Spec => []CancelHolds
  <1>1. Inv => CancelHolds
    BY DEF Inv, Kept, CancelHolds
  <1> QED
    BY <1>1, Invariant, PTL

-----------------------------------------------------------------------------

(***************************************************************************)
(* Who writes the state of a run: an execution of its own, an endpoint     *)
(* that found it not ended or a pause request for it, or the message that  *)
(* abandons the run of the bookmark.                                       *)
(***************************************************************************)
LEMMA SettledStep ==
    ASSUME Base, [Next]_vars, NEW r \in Run, projection[r] \in Ended,
           ~Executing(r), ~flag[r], pending.run # r
    PROVE  projection'[r] = projection[r]
  <1>0. TypeOK
    BY DEF Base
  <1>1. CASE UNCHANGED projection
    BY <1>1
  <1>2. ASSUME NEW s \in Slot, NEW n \in Writes, SendNewTurn(s, n)
        PROVE  projection'[r] = projection[r]
    BY <1>0, <1>2 DEF SendNewTurn, SaveRun, TypeOK
  <1>3. ASSUME NEW s \in Slot, NEW n \in Writes, EndPaused(s, n)
        PROVE  projection'[r] = projection[r]
    <2>1. r # work[s].run
      BY <1>3 DEF EndPaused, Executing, Executes
    <2> QED
      BY <1>0, <1>3, <2>1 DEF EndPaused, Persist, TypeOK
  <1>4. ASSUME NEW s \in Slot, NEW n \in Writes, NEW st \in {"SUCCESS", "FAILED"},
               EndAnswered(s, st, n)
        PROVE  projection'[r] = projection[r]
    <2>1. r # work[s].run
      BY <1>4 DEF EndAnswered, Executing, Executes
    <2> QED
      BY <1>0, <1>4, <2>1 DEF EndAnswered, Persist, TypeOK
  <1>5. ASSUME NEW s \in Slot, NEW n \in Writes, NEW st \in {"SUCCESS", "FAILED"},
               NEW raised \in BOOLEAN, EndCall(s, st, raised, n)
        PROVE  projection'[r] = projection[r]
    <2>1. r # work[s].run
      BY <1>5 DEF EndCall, Executing, Executes
    <2> QED
      BY <1>0, <1>5, <2>1 DEF EndCall, TypeOK
  <1>6. ASSUME NEW x \in Run, NEW n \in Writes, Pause(x, n)
        PROVE  projection'[r] = projection[r]
    BY <1>0, <1>6 DEF Pause, Stoppable, Persist, TypeOK
  <1>7. ASSUME NEW x \in Run, NEW n \in Writes, Cancel(x, n)
        PROVE  projection'[r] = projection[r]
    BY <1>0, <1>7 DEF Cancel, Stoppable, TypeOK
  <1>8. ASSUME NEW x \in Run, NEW n \in Writes, ResumeRefused(x, n)
        PROVE  projection'[r] = projection[r]
    BY <1>0, <1>8 DEF ResumeRefused, Persist, TypeOK
  <1>9. ASSUME Next
        PROVE  \/ UNCHANGED projection
               \/ \E s \in Slot, n \in Writes : SendNewTurn(s, n) \/ EndPaused(s, n)
               \/ \E s \in Slot, n \in Writes, st \in {"SUCCESS", "FAILED"} :
                      EndAnswered(s, st, n)
               \/ \E s \in Slot, n \in Writes, st \in {"SUCCESS", "FAILED"},
                     raised \in BOOLEAN : EndCall(s, st, raised, n)
               \/ \E x \in Run, n \in Writes :
                      Pause(x, n) \/ Cancel(x, n) \/ ResumeRefused(x, n)
    BY <1>9 DEF Next, Send, StreamStep, SendFresh, SendResume, SendAskWhich, CreateRun,
       AskWhich, Begin, ModelAnswers, ChatLost, Resume, LookUpRaises, Crash
  <1> QED
    BY <1>1, <1>2, <1>3, <1>4, <1>5, <1>6, <1>7, <1>8, <1>9 DEF vars

(***************************************************************************)
(* An ended run that nothing executes, names or asks to pause is not       *)
(* written: no other run's end, late pause or late cancel touches it.      *)
(***************************************************************************)
THEOREM SettledRuns == Spec => EndedIsSettled
  <1>1. Base /\ [Next]_vars =>
          [\A r \in Run :
              /\ projection[r] \in Ended
              /\ ~Executing(r) /\ ~flag[r]
              /\ pending.run # r
              => projection'[r] = projection[r]]_vars
    BY SettledStep
  <1>2. Inv => Base
    BY DEF Inv
  <1> QED
    BY <1>1, <1>2, Invariant, PTL DEF Spec, EndedIsSettled

-----------------------------------------------------------------------------

(***************************************************************************)
(* With the stores in Java no bookmark is ever set: the endpoints that     *)
(* would pause a run fail at its look-up, so there is no pause request,    *)
(* and neither a paused nor a resumed execution.                           *)
(***************************************************************************)
RemoteInv ==
    registry = "remote" =>
        /\ pending = NoBookmark
        /\ \A r \in Run : /\ ~flag[r]
                          /\ projection[r] \in {"ABSENT", "SUCCESS", "FAILED"}
                          /\ told[r] \in {"nothing", "error"}
        /\ \A s \in Slot : work[s].kind # "ask" /\ work[s].stage # "paused"

LEMMA RemoteStep ==
    ASSUME Base, RemoteInv, [Next]_vars
    PROVE  RemoteInv'
  <1> SUFFICES ASSUME registry' = "remote" PROVE RemoteInv'
    BY DEF RemoteInv
  <1>0. registry = "remote" /\ registry' = "remote"
    BY RegistryFixed
  <1>1. /\ pending = NoBookmark
        /\ \A r \in Run : /\ ~flag[r]
                          /\ projection[r] \in {"ABSENT", "SUCCESS", "FAILED"}
                          /\ told[r] \in {"nothing", "error"}
        /\ \A s \in Slot : work[s].kind # "ask" /\ work[s].stage # "paused"
    BY <1>0 DEF RemoteInv
  <1> TypeOK
    BY DEF Base
  <1>2. \A m : Route(m) = "fresh"
    BY <1>1 DEF Route, NoBookmark
  <1>3. CASE UNCHANGED vars
    BY <1>0, <1>1, <1>3 DEF vars, RemoteInv
  <1>4. ASSUME NEW s \in Slot, NEW n \in Writes, NEW g \in BOOLEAN, SendFresh(s, g, n)
        PROVE  RemoteInv'
    <2>1. pending' = NoBookmark /\ UNCHANGED <<projection, flag, told>>
      BY <1>1, <1>4 DEF SendFresh
    <2>2. UNCHANGED work \/ \E r \in Run : work' = [work EXCEPT ![s] = Job("chat", r, "open")]
      BY <1>4 DEF SendFresh, OpenRun, Occupy, Fresh
    <2> QED
      BY <1>1, <2>1, <2>2 DEF RemoteInv, Job, TypeOK
  <1>5. ASSUME NEW s \in Slot, CreateRun(s)
        PROVE  RemoteInv'
    <2>1. UNCHANGED <<pending, projection, flag, told>>
      BY <1>5 DEF CreateRun
    <2>2. \E r \in Run : work' = [work EXCEPT ![s] = Job("create", r, "model")]
      BY <1>5 DEF CreateRun, Occupy, Fresh
    <2> QED
      BY <1>1, <2>1, <2>2 DEF RemoteInv, Job, TypeOK
  <1>6. ASSUME NEW s \in Slot, Begin(s) \/ ModelAnswers(s)
        PROVE  RemoteInv'
    <2>1. UNCHANGED <<pending, projection, flag, told>>
      BY <1>6 DEF Begin, ModelAnswers
    <2>2. CASE Begin(s)
      <3>2. work[s].run \in Run
        BY <2>2 DEF Begin, Base, JobsOK, Busy, TypeOK
      <3>1. work' = [work EXCEPT ![s].stage = "model"]
        BY <1>1, <2>2, <3>2 DEF Begin
      <3> QED
        BY <1>1, <2>1, <3>1 DEF RemoteInv, TypeOK
    <2>3. CASE ModelAnswers(s)
      BY <1>1, <2>1, <2>3 DEF ModelAnswers, RemoteInv, TypeOK
    <2> QED
      BY <1>6, <2>2, <2>3
  <1>7. ASSUME NEW s \in Slot, ChatLost(s)
        PROVE  RemoteInv'
    BY <1>1, <1>7 DEF ChatLost, Leave, Free, RemoteInv, TypeOK
  <1>8. ASSUME NEW s \in Slot, NEW n \in Writes, NEW st \in {"SUCCESS", "FAILED"},
               EndAnswered(s, st, n)
        PROVE  RemoteInv'
    <2>1. work[s].run \in Run
      BY <1>8 DEF EndAnswered, Base, JobsOK, Busy, TypeOK
    <2>2. ~flag[work[s].run]
      BY <1>1, <2>1
    <2>3. pending' = NoBookmark
      BY <1>1, <1>8, <2>2 DEF EndAnswered
    <2>4. \A r \in Run : projection'[r] \in {"ABSENT", "SUCCESS", "FAILED"}
      BY <1>1, <1>8, <2>1, <2>2 DEF EndAnswered, TypeOK
    <2>5. \A r \in Run : ~flag'[r] /\ told'[r] \in {"nothing", "error"}
      BY <1>1, <1>8, <2>1 DEF EndAnswered, TypeOK
    <2>6. work' = [work EXCEPT ![s] = Free]
      BY <1>8 DEF EndAnswered, Leave
    <2> QED
      BY <1>1, <2>3, <2>4, <2>5, <2>6 DEF RemoteInv, Free, TypeOK
  <1>9. ASSUME NEW s \in Slot, NEW n \in Writes, NEW st \in {"SUCCESS", "FAILED"},
               NEW raised \in BOOLEAN, EndCall(s, st, raised, n)
        PROVE  RemoteInv'
    BY <1>1, <1>9 DEF EndCall, Leave, Free, RemoteInv, TypeOK
  <1>10. ASSUME NEW r \in Run, LookUpRaises(r)
         PROVE  RemoteInv'
    BY <1>1, <1>10 DEF LookUpRaises, Promise, RemoteInv, TypeOK
  <1>11. CASE Crash
    BY <1>1, <1>11 DEF Crash, Free, RemoteInv, TypeOK
  <1>12. \A s \in Slot, n \in Writes :
            /\ ~SendNewTurn(s, n) /\ ~SendResume(s, n) /\ ~SendAskWhich(s)
            /\ ~AskWhich(s, n) /\ ~EndPaused(s, n)
    BY <1>1, <1>2 DEF SendNewTurn, SendResume, SendAskWhich, AskWhich, EndPaused
  <1>13. \A r \in Run, n \in Writes :
            ~Pause(r, n) /\ ~Cancel(r, n) /\ ~ResumeRefused(r, n)
    BY <1>0 DEF Pause, Cancel, ResumeRefused, Stoppable, LookedUp
  <1>14. \A s \in Slot, r \in Run : ~Resume(s, r)
    BY <1>0 DEF Resume, LookedUp
  <1> QED
    BY <1>3, <1>4, <1>5, <1>6, <1>7, <1>8, <1>9, <1>10, <1>11, <1>12, <1>13, <1>14
       DEF Next, Send, StreamStep, Writes

(***************************************************************************)
(* In the assembly the engine ships with, no run is ever paused or         *)
(* abandoned, and nobody is told that one is.                              *)
(***************************************************************************)
THEOREM NothingIsStoppedRemotely ==
    Spec => [](registry = "remote" =>
                  \A r \in Run : /\ projection[r] \notin {"PAUSED_BY_USER", "ABANDONED"}
                                 /\ told[r] \notin {"paused", "cancelled"})
  <1>1. Init => RemoteInv
    BY DEF Init, RemoteInv, Free
  <1>2. Inv /\ RemoteInv /\ [Next]_vars => RemoteInv'
    BY RemoteStep DEF Inv
  <1>3. RemoteInv => (registry = "remote" =>
                        \A r \in Run : /\ projection[r] \notin {"PAUSED_BY_USER", "ABANDONED"}
                                       /\ told[r] \notin {"paused", "cancelled"})
    BY DEF RemoteInv
  <1> QED
    BY <1>1, <1>2, <1>3, Invariant, PTL DEF Spec

=============================================================================
