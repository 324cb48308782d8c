--------------------------- MODULE LessonRunProofs ---------------------------
(***************************************************************************)
(* Theorems about LessonRun, for any plan, any halts and any bounds.       *)
(***************************************************************************)
EXTENDS LessonRun, TLAPS

(***************************************************************************)
(* The inductive invariant.                                                *)
(***************************************************************************)
\* Where execute is when run waits for the child.
Submitted == {"authorizing", "admitting", "creating", "starting", "completion"}
Before == {"preparing", "claiming", "clearing", "material", "prepared", "claimingStep",
           "claimed"}
InRun == {"running", "attempt", "resolved"} \cup Submitted

\* A halt that has not yet moved the lesson's status.
Pending(h) == halts[h].pc \notin {"idle", "saving"}

\* What nobody works on: no lesson, a student who is away, no execution.
Rest ==
  /\ work.pc = "idle" => work = NoWork
  /\ lesson.status = Absent => lesson = NoLesson /\ work.pc = "idle"
  /\ journal.status = Absent => journal = NoLesson
  /\ ~joined => lesson.status = Absent

\* The status says where execute is, and an aborted execution is waited for.
Status ==
  /\ work.pc \in Before => lesson.status = "preparing"
  /\ work.pc \in InRun => lesson.status = "running"
  /\ work.pc = "finishing" => lesson.status = "waiting_for_student"
  /\ work.pc = "saving" =>
       lesson.status \in {"waiting_for_student", "finished", "blocked", "unknown"}

Halted ==
  /\ work.aborted => \E h \in Halts : Pending(h)
  /\ \A h \in Halts :
       /\ Pending(h) => halts[h].to \in {"paused", "stopped"}
       /\ halts[h].pc = "saving" /\ halts[h].by = "leave" => work.pc = "idle"

\* The child that run waits for, and what its tools may do.
Child ==
  /\ work.pc = "claimingStep" => lesson.attempts # 0
  /\ work.pc \in {"claimed"} \cup InRun => lesson.child # 0
  /\ waiting # 0 <=> work.pc \in Submitted
  /\ waiting # 0 => waiting = lesson.child
  /\ round # "none" => /\ waiting # 0 /\ ~work.aborted
                       /\ cancelling[waiting] \in {"no", "rejected"}
  /\ work.pc = "attempt" /\ ~work.aborted => cancelling[lesson.child] = "no"
  /\ tool.live => round # "none" /\ tool.task = waiting

\* What is over stays over, on the disk, in the queue and in memory.
OverInOrder ==
  /\ IsOver(journal) => /\ \A i \in 1 .. Len(writes) : IsOver(writes[i][2])
                        /\ lesson.status \in Over \cup {Absent}
  /\ \A i \in 1 .. Len(writes) : IsOver(writes[i][2]) =>
       /\ \A j \in i .. Len(writes) : IsOver(writes[j][2])
       /\ lesson.status \in Over \cup {Absent}

\* Nothing is queued of no lesson.
Queued == \A i \in 1 .. Len(writes) : writes[i][2].status # Absent

\* The disk and the queue name a child.
NamesChild ==
  journal.child # 0 /\ \A i \in 1 .. Len(writes) : writes[i][2].child # 0
WillNameChild ==
  \/ NamesChild
  \/ \E i \in 1 .. Len(writes) :
       writes[i][1] = "work" /\ \A j \in i .. Len(writes) : writes[j][2].child # 0
ChildSaved ==
  /\ work.pc = "running" => WillNameChild
  /\ work.pc \in InRun \ {"running"} => NamesChild

\* As long as no run began during a halt's wait for an earlier child.
Alone ==
  ~overlap =>
    /\ \A h \in Halts : halts[h].pc \notin {"overtaken", "unsure"}
    /\ work.pc \in InRun \ {"running"} /\ ~work.aborted => ~AwaitsChild
    /\ tool.pc = "marking" /\ tool.live => lesson.effect = "dispatching"

\* A copy that Restored does not resume.
Hard(l) == l.status \in Over \cup {"unknown"} \/ Unsettled(l) \/ l.child # 0
AllHard ==
  Hard(journal) /\ \A i \in 1 .. Len(writes) : Hard(writes[i][2])

\* An action of unknown outcome is known to the run, or to the halt that will
\* make the lesson unknown.
InDoubt ==
  /\ lesson.status \in {"running", "unknown", "stopped", Absent}
  /\ lesson.status = "running" =>
       /\ Unsettled(lesson) /\ work.pc \in {"idle", "resolved"} \cup Submitted
       /\ \/ round = "uncertain"
          \/ /\ round = "none" /\ lesson.child # 0
             /\ work.pc # "idle" => work.aborted
             /\ cancelling[lesson.child] \in {"unsure", "unknown"}
             /\ \A h \in Halts :
                  halts[h].pc = "cancelling" => halts[h].task = lesson.child
Doubtful ==
  /\ doubt /\ ~overlap => InDoubt /\ journal.status # Absent /\ AllHard
  /\ tool.pc = "recovering" => ~doubt

LessonInv ==
  /\ TypeOK /\ Rest /\ Status /\ Halted /\ Child /\ OverInOrder /\ Queued /\ ChildSaved
  /\ Alone /\ Doubtful /\ RunningHasWork /\ NoActionAfterHalt

(***************************************************************************)
(* What the steps do to the parts the invariant is about.                  *)
(***************************************************************************)
Quiet == UNCHANGED <<lesson, writes>>
Pushed(w) == lesson'.status # Absent /\ writes' = Append(writes, <<w, lesson'>>)

\* A failure: the status cannot move, or it is saved as unknown or blocked.
Failed(l) ==
  /\ Unsettled(l) => lesson'.effect = l.effect /\ lesson'.child = l.child
  /\ l = NoLesson => lesson' = NoLesson
  /\ \/ /\ work' = NoWork /\ UNCHANGED writes
        /\ lesson'.status = l.status /\ l.status \notin {"preparing", "running"}
     \/ /\ At("saving") /\ Pushed("work")
        /\ l.status \notin Over \cup {Absent} /\ (l.status = "unknown" => Unsettled(l))
        /\ lesson'.status = IF Unsettled(l) THEN "unknown" ELSE "blocked"

\* An execution that ends: it was aborted, or it failed.
Ended ==
  \/ work.aborted /\ work' = NoWork /\ Quiet
  \/ ~work.aborted /\ Failed(lesson)

\* An execution that begins, or is refused.
Started(l) ==
  /\ work.pc = "idle"
  /\ \/ /\ l.status \notin {"running", "unknown"} \cup Over
        /\ work'.pc = "preparing" /\ ~work'.aborted
        /\ lesson'.status = "preparing" /\ lesson'.child = l.child
        /\ lesson'.effect = l.effect /\ Pushed("work")
     \/ Failed(l)

\* A step of the run that leaves the lesson and the child's tools alone.
Idle ==
  UNCHANGED <<lesson, store, work, halts, waiting, cancelling, round, tool, joined, history>>

Frame == UNCHANGED <<journal, halts, joined, history>>
ChildFrame == UNCHANGED <<waiting, cancelling, round, tool>>

EndsBefore ==
  work.pc \notin Submitted \cup {"idle", "saving"} /\ Ended /\ Frame /\ ChildFrame
EndsInRun ==
  work.pc \in Submitted /\ Ended /\ Cleanup /\ Frame /\ UNCHANGED cancelling

\* The steps of an execution that goes on.
Reads ==
  /\ \/ work.pc = "preparing" /\ At("claiming")
     \/ work.pc = "clearing" /\ At("material")
     \/ work.pc \in Submitted /\ \E pc \in Submitted : At(pc)
  /\ Quiet /\ Frame /\ ChildFrame
Saves ==
  /\ \/ work.pc = "claiming" /\ At("clearing")
     \/ work.pc = "material" /\ At("prepared")
     \/ work.pc = "prepared" /\ At("claimingStep") /\ lesson'.attempts # 0
  /\ Pushed("work") /\ lesson'.status = lesson.status
  /\ Frame /\ ChildFrame
Claims ==
  /\ work.pc \in {"prepared", "claimingStep"} /\ At("claimed")
  /\ Pushed("work") /\ lesson'.status = lesson.status
  /\ lesson'.child = IF work.pc = "prepared" THEN lesson.shared ELSE lesson.attempts
  /\ lesson'.child = 0 => work.pc = "claimingStep" /\ lesson.attempts = 0
  /\ Frame /\ ChildFrame
Runs ==
  /\ work.pc = "claimed" /\ At("running")
  /\ Pushed("work") /\ lesson'.status = "running" /\ lesson'.child = lesson.child
  /\ Frame /\ ChildFrame
Forgets ==
  /\ work.pc = "running" /\ Written("work") /\ ~work.aborted /\ At("attempt")
  /\ cancelling' = [cancelling EXCEPT ![lesson.child] = "no"]
  /\ halts' = Overtaken(lesson.child) /\ overlap' = (overlap \/ AwaitsChild)
  /\ Quiet /\ UNCHANGED <<journal, joined, waiting, round, tool, doubt, revoked>>
Registers ==
  /\ work.pc = "attempt" /\ ~work.aborted /\ At("authorizing")
  /\ waiting' = lesson.child /\ round' \in {"open", "none"}
  /\ Quiet /\ Frame /\ UNCHANGED <<cancelling, tool>>
Resolves ==
  /\ work.pc = "completion" /\ At("resolved")
  /\ ~Rejected(waiting) /\ round # "uncertain" /\ Cleanup
  /\ Quiet /\ Frame /\ UNCHANGED cancelling
Shows ==
  /\ work.pc \in {"prepared", "resolved"} /\ (work.pc = "resolved" => ~work.aborted)
  /\ \E pc \in {"finishing", "saving"} : At(pc)
  /\ Pushed("work") /\ lesson'.status = "waiting_for_student"
  /\ Frame /\ ChildFrame
Completes ==
  /\ work.pc = "finishing" /\ At("saving")
  /\ Pushed("work") /\ lesson'.status = "finished"
  /\ Frame /\ ChildFrame
Rests ==
  work.pc = "saving" /\ work' = NoWork /\ Quiet /\ Frame /\ ChildFrame

\* An execution that begins on request.
Starts ==
  /\ ~Leaving
  /\ lesson.status = Absent => journal.status = Absent /\ writes = << >> /\ joined
  /\ \/ Started(lesson)
     \/ \E l \in Lessons :
          /\ lesson.status = "waiting_for_student" /\ l.status = lesson.status
          /\ l.child = lesson.child /\ l.effect = lesson.effect /\ Started(l)
  /\ Frame /\ ChildFrame

\* halt is called, and what it returns to.
Halting(h) ==
  /\ halts[h].pc = "idle" /\ Quiet
  /\ work' = IF work.pc = "idle" THEN work ELSE [work EXCEPT !.aborted = TRUE]
  /\ BeginCancel(lesson.child)
  /\ \E to \in {"paused", "stopped"}, by \in {"student", "question", "leave"} :
       halts' = [halts EXCEPT ![h] =
         [pc |-> IF lesson.child = 0 THEN "awaiting" ELSE "cancelling",
          to |-> to, by |-> by, task |-> lesson.child]]
  /\ halts'[h].by = "leave" => ~Leaving
  /\ UNCHANGED <<journal, joined, waiting, history>>
Returned(h) ==
  \/ /\ halts[h].by = "leave" /\ lesson' = NoLesson /\ joined' = FALSE
     /\ UNCHANGED <<writes, work>>
  \/ /\ ~Leaving /\ joined /\ lesson.status \notin {"unknown", Absent}
     /\ Started(lesson) /\ UNCHANGED joined
  \/ Quiet /\ UNCHANGED <<work, joined>>

HaltFrame == UNCHANGED journal /\ ChildFrame /\ UNCHANGED history

\* A halt moves the status, cannot, or finds nothing to move.
Moved(h) ==
  /\ halts[h].pc = "awaiting" /\ work.pc = "idle" /\ HaltFrame
  /\ \/ ~Active /\ halts' = [halts EXCEPT ![h] = NoHalt] /\ Returned(h)
     \/ /\ Active /\ MayMove(lesson.status, Target(h)) /\ lesson'.status = Target(h)
        /\ lesson'.child = 0 /\ lesson'.effect = lesson.effect /\ Pushed(h)
        /\ halts' = [halts EXCEPT ![h].pc = "saving"] /\ UNCHANGED <<work, joined>>
     \/ /\ Active /\ ~MayMove(lesson.status, Target(h)) /\ lesson'.status = lesson.status
        /\ lesson'.child = 0 /\ lesson'.effect = lesson.effect
        /\ halts' = [halts EXCEPT ![h] = NoHalt] /\ UNCHANGED <<writes, work, joined>>
GivesBack(h) ==
  /\ halts[h].pc = "saving" /\ halts' = [halts EXCEPT ![h] = NoHalt]
  /\ Returned(h) /\ HaltFrame
Closes(h) ==
  /\ work.pc = "idle" /\ halts[h].pc = "idle" /\ ~Leaving
  /\ lesson.status = "waiting_for_student" /\ lesson'.status = "finished" /\ Pushed(h)
  /\ halts' = [halts EXCEPT ![h] = [pc |-> "saving", to |-> "finished",
                                    by |-> "student", task |-> 0]]
  /\ UNCHANGED <<work, joined>> /\ HaltFrame

\* A lesson of which nothing changed but the effect, if there is a lesson.
EffectOnly ==
  \/ lesson' = lesson
  \/ /\ lesson.status # Absent /\ lesson'.status = lesson.status
     /\ lesson'.child = lesson.child /\ lesson'.attempts = lesson.attempts

\* The answer of a cancellation.
Answered(h) ==
  /\ halts[h].pc \in {"cancelling", "overtaken", "unsure"}
  /\ halts' = [halts EXCEPT ![h].pc = "awaiting"]
  /\ EffectOnly
  /\ \/ /\ halts[h].pc = "cancelling" /\ UNCHANGED cancelling
        /\ lesson.status = Absent \/ lesson'.effect = cancelling[halts[h].task]
     \/ /\ halts[h].pc # "cancelling"
        /\ cancelling' = [cancelling EXCEPT ![halts[h].task] =
             IF waiting = halts[h].task /\ @ = "no" THEN "rejected" ELSE @]
  /\ UNCHANGED <<store, work, waiting, round, tool, joined, history>>

\* The child's tools touch the effect of the lesson and the tool policy.
ToolFrame ==
  /\ EffectOnly /\ (UNCHANGED writes \/ Pushed("tool"))
  /\ UNCHANGED <<journal, work, halts, waiting, cancelling, joined, overlap>>

(***************************************************************************)
(* Types.                                                                  *)
(***************************************************************************)
\* What a step may do to the lesson, its queue, the execution and the device.
Typed ==
  /\ lesson' \in Lessons /\ writes' \in Seq(Writers \X Lessons)
  /\ work' \in [pc : WorkSteps, aborted : BOOLEAN, route : Routes]
  /\ reservation' \in {"none", "lesson", "other"}

\* No lesson is a lesson.
LEMMA NoLessonType == NoLesson \in Lessons
BY PlanAssumption, LessonBoundsAssumption DEF NoLesson, Lessons, Absent

\* A lesson without an effect and a child is not changed when they are cleared.
LEMMA NothingSettled ==
  ASSUME NEW l \in Lessons, l.effect = "none", l.child = 0
  PROVE  [l EXCEPT !.effect = "none", !.child = 0] = l
BY DEF Lessons

\* Saving a lesson keeps the types (persist).
LEMMA PersistType ==
  ASSUME TypeOK, NEW w \in Writers, NEW l \in Lessons, Persist(w, l)
  PROVE  lesson' = l /\ writes' \in Seq(Writers \X Lessons)
BY DEF Persist, TypeOK

\* Saving a lesson that there is puts it last in the queue (persist).
LEMMA PersistPushes ==
  ASSUME NEW w, NEW l, Persist(w, l), l.status # Absent
  PROVE  lesson' = l /\ Pushed(w)
BY DEF Persist, Pushed

\* What the catch of launch does (FailWith).
LEMMA FailEffect ==
  ASSUME TypeOK, NEW l \in Lessons, NEW blocked \in BOOLEAN,
         NEW r \in {"none", "lesson", "other"}, FailWith(l, blocked, r)
  PROVE  Failed(l) /\ Typed
<1> DEFINE settled == IF blocked /\ ~Unsettled(l)
                      THEN [l EXCEPT !.effect = "none", !.child = 0] ELSE l
           to == IF Unsettled(l) THEN "unknown" ELSE "blocked"
<1>1. settled \in Lessons /\ settled.status = l.status
  <2>1. 0 \in 0 .. MaxAttempts
    BY LessonBoundsAssumption
  <2>2. /\ [l EXCEPT !.effect = "none", !.child = 0] \in Lessons
        /\ [l EXCEPT !.effect = "none", !.child = 0].status = l.status
    BY <2>1 DEF Lessons
  <2> QED BY <2>2
<1>2. Unsettled(l) => settled = l
  OBVIOUS
<1>3. l = NoLesson => settled = NoLesson
  <2>2. NoLesson.effect = "none" /\ NoLesson.child = 0
    BY DEF NoLesson
  <2> QED BY <2>2, NoLessonType, NothingSettled
<1>4. [settled EXCEPT !.status = to] \in Lessons
  BY <1>1 DEF Lessons, Statuses
<1>5. Released(r) \in {"none", "lesson", "other"} /\ NoWork \in [pc : WorkSteps,
        aborted : BOOLEAN, route : Routes]
  BY DEF Released, NoWork, WorkSteps, Routes
<1>6. CASE l.status = Absent \/ IsOver(l)
  <2>1. lesson' = settled /\ reservation' = Released(r) /\ WorkEnds /\ UNCHANGED writes
    BY <1>6 DEF FailWith
  <2>2. l.status \notin {"preparing", "running"}
    BY <1>6 DEF IsOver, Over, Absent
  <2> HIDE DEF settled, to
  <2> QED BY <2>1, <2>2, <1>1, <1>2, <1>3, <1>5 DEF WorkEnds, Failed, Typed, TypeOK
<1>7. CASE ~(l.status = Absent \/ IsOver(l)) /\ MayMove(l.status, to)
  <2>1. /\ Persist("work", [settled EXCEPT !.status = to])
        /\ At("saving") /\ reservation' = r
    BY <1>7 DEF FailWith
  <2>2. [settled EXCEPT !.status = to].status = to /\ to # Absent
    BY <1>1 DEF Lessons, Absent
  <2>3. /\ [settled EXCEPT !.status = to].effect = settled.effect
        /\ [settled EXCEPT !.status = to].child = settled.child
    BY <1>1 DEF Lessons
  <2>4. "work" \in Writers
    BY DEF Writers
  <2>5. l # NoLesson /\ l.status \notin Over \cup {Absent}
    BY <1>7 DEF NoLesson, IsOver
  <2>6. At("saving") => work' \in [pc : WorkSteps, aborted : BOOLEAN, route : Routes]
    BY DEF TypeOK, At, WorkSteps
  <2>7. to = IF Unsettled(l) THEN "unknown" ELSE "blocked"
    OBVIOUS
  <2> HIDE DEF settled, to
  <2>8. lesson' = [settled EXCEPT !.status = to] /\ writes' \in Seq(Writers \X Lessons)
    BY <2>1, <2>4, <1>4, PersistType
  <2>9. Pushed("work")
    BY <2>1, <2>2, PersistPushes
  <2>10. l.status = "unknown" => Unsettled(l)
    <3>1. ~MayMove("unknown", "blocked")
      BY DEF MayMove, Successors, Statuses, Over
    <3>2. ASSUME l.status = "unknown", ~Unsettled(l) PROVE FALSE
      BY <1>7, <2>7, <3>1, <3>2
    <3> QED BY <3>2
  <2> QED BY <2>1, <2>2, <2>3, <2>5, <2>6, <2>7, <2>8, <2>9, <2>10, <1>2, <1>4 DEF Failed, Typed
<1>8. CASE ~(l.status = Absent \/ IsOver(l)) /\ ~MayMove(l.status, to)
  <2>1. lesson' = settled /\ WorkEnds /\ reservation' = r /\ UNCHANGED writes
    BY <1>8 DEF FailWith
  <2>2. l.status \notin {"preparing", "running"}
    BY <1>8 DEF MayMove, Successors, Statuses, Over
  <2> HIDE DEF settled, to
  <2> QED BY <2>1, <2>2, <1>1, <1>2, <1>3, <1>5 DEF WorkEnds, Failed, Typed, TypeOK
<1> QED BY <1>6, <1>7, <1>8

\* What the end of an execution does (Quit, Fails).
LEMMA EndEffect ==
  ASSUME TypeOK
  PROVE  /\ Quit => Ended /\ Typed
         /\ \A blocked \in BOOLEAN : Fails(blocked) => Ended /\ Typed
<1>0. lesson \in Lessons /\ writes \in Seq(Writers \X Lessons)
      /\ reservation \in {"none", "lesson", "other"}
      /\ NoWork \in [pc : WorkSteps, aborted : BOOLEAN, route : Routes]
  BY DEF TypeOK, NoWork, WorkSteps, Routes
<1>1. Quit => Ended /\ Typed
  BY <1>0 DEF Quit, WorkEnds, Ended, Quiet, Typed
<1>2. ASSUME NEW blocked \in BOOLEAN, Fails(blocked) PROVE Ended /\ Typed
  BY <1>0, <1>2, FailEffect DEF Fails, Ended
<1> QED BY <1>1, <1>2

\* What the beginning of an execution does (Begin).
LEMMA BeginEffect ==
  ASSUME TypeOK, work.pc = "idle", NEW l \in Lessons, NEW route \in Routes,
         NEW r \in {"none", "lesson", "other"}, Begin(l, route, r)
  PROVE  Started(l) /\ Typed
<1> DEFINE started == IF l.status = Absent THEN [l EXCEPT !.status = "received"] ELSE l
           new == [started EXCEPT !.status = "preparing"]
<1>1. CASE MayReserve(r) /\ MayMove(started.status, "preparing")
  <2>1. /\ work' = [pc |-> "preparing", aborted |-> FALSE, route |-> route]
        /\ reservation' = "lesson" /\ Persist("work", new)
    BY <1>1 DEF Begin
  <2>2. /\ new \in Lessons /\ new.status = "preparing"
        /\ new.child = l.child /\ new.effect = l.effect
    BY DEF Lessons, Statuses
  <2>3. l.status \notin {"running", "unknown"} \cup Over
    BY <1>1 DEF MayMove, Successors, Statuses, Over, Absent
  <2>4. "work" \in Writers /\ "preparing" # Absent
    BY DEF Writers, Absent
  <2>5. work' \in [pc : WorkSteps, aborted : BOOLEAN, route : Routes]
        /\ work'.pc = "preparing" /\ ~work'.aborted
    BY <2>1 DEF WorkSteps
  <2> HIDE DEF new, started
  <2>6. lesson' = new /\ writes' \in Seq(Writers \X Lessons)
    BY <2>1, <2>2, <2>4, PersistType
  <2>7. Pushed("work")
    BY <2>1, <2>2, <2>4, PersistPushes
  <2> QED BY <2>1, <2>2, <2>3, <2>5, <2>6, <2>7 DEF Started, Typed
<1>2. CASE ~(MayReserve(r) /\ MayMove(started.status, "preparing"))
  <2>1. FailWith(l, FALSE, r)
    BY <1>2 DEF Begin
  <2> QED BY <2>1, FailEffect DEF Started
<1> QED BY <1>1, <1>2

\* Setting the effect of a lesson changes nothing else.
LEMMA EffectEdit ==
  ASSUME NEW l \in Lessons, NEW e \in {"none", "dispatching", "confirmed", "unknown"}
  PROVE  LET m == [l EXCEPT !.effect = e]
         IN /\ m \in Lessons /\ m.status = l.status /\ m.child = l.child
            /\ m.effect = e /\ m.attempts = l.attempts
BY DEF Lessons

\* Moving the status of a lesson changes nothing else.
LEMMA StatusEdit ==
  ASSUME NEW l \in Lessons, NEW s \in Statuses
  PROVE  LET m == [l EXCEPT !.status = s]
         IN m \in Lessons /\ m.status = s /\ m.effect = l.effect /\ m.child = l.child
BY DEF Lessons

\* A lesson that waits has no child.
LEMMA DoneEdit ==
  ASSUME NEW l \in Lessons
  PROVE  LET m == [l EXCEPT !.status = "waiting_for_student", !.child = 0]
         IN m \in Lessons /\ m.status = "waiting_for_student"
<1>1. 0 \in 0 .. MaxAttempts /\ "waiting_for_student" \in Statuses
  BY LessonBoundsAssumption DEF Statuses
<1> QED BY <1>1 DEF Lessons

\* A shared step keeps its task.
LEMMA SharedEdit ==
  ASSUME NEW l \in Lessons
  PROVE  LET m == [l EXCEPT !.child = l.shared]
         IN m \in Lessons /\ m.status = l.status /\ m.child = l.shared
BY DEF Lessons

\* Another attempt is one more.
LEMMA AttemptEdit ==
  ASSUME NEW l \in Lessons, MayAttempt(l)
  PROVE  LET m == [l EXCEPT !.attempts = @ + 1]
         IN m \in Lessons /\ m.status = l.status /\ m.attempts # 0
<1>1. l.attempts + 1 \in 0 .. MaxAttempts /\ l.attempts + 1 # 0
  BY LessonBoundsAssumption DEF MayAttempt, Lessons
<1> QED BY <1>1 DEF Lessons

\* The step's claim gives the lesson its child.
LEMMA ClaimEdit ==
  ASSUME NEW l \in Lessons, NEW route
  PROVE  LET m == [l EXCEPT !.child = l.attempts,
                            !.shared = IF route = "shared_agent" THEN l.attempts ELSE @]
         IN m \in Lessons /\ m.status = l.status /\ m.child = l.attempts
BY DEF Lessons

\* A lesson that runs keeps its child.
LEMMA RunEdit ==
  ASSUME NEW l \in Lessons, NEW route
  PROVE  LET m == [l EXCEPT !.status = "running",
                     !.effect = IF route = "shared_agent" THEN "none" ELSE "dispatching"]
         IN m \in Lessons /\ m.status = "running" /\ m.child = l.child
BY DEF Lessons, Statuses

\* Where execute goes is a place it has.
LEMMA AtType ==
  ASSUME TypeOK, NEW pc \in WorkSteps, At(pc)
  PROVE  /\ work' \in [pc : WorkSteps, aborted : BOOLEAN, route : Routes]
         /\ work'.pc = pc /\ work'.aborted = work.aborted
BY DEF TypeOK, At

\* The kinds of steps that an execution takes.
ExecutionStep ==
  \/ EndsBefore \/ EndsInRun \/ Reads \/ Saves \/ Claims \/ Runs \/ Forgets \/ Registers
  \/ Resolves \/ Shows \/ Completes \/ Rests

\* An execution that saves its lesson and goes on.
LEMMA SaveEffect ==
  ASSUME TypeOK, NEW l \in Lessons, l.status # Absent, NEW pc \in WorkSteps,
         Persist("work", l), At(pc), UNCHANGED reservation
  PROVE  lesson' = l /\ Pushed("work") /\ Typed
<1>1. "work" \in Writers
  BY DEF Writers
<1>2. lesson' = l /\ Pushed("work") /\ writes' \in Seq(Writers \X Lessons)
  BY <1>1, PersistType, PersistPushes
<1> QED BY <1>2, AtType DEF Typed, TypeOK

\* Every step of execute and run is of one of these kinds (WorkStep, ChildEnds).
LEMMA WorkKinds ==
  ASSUME TypeOK, Rest, Status, Child, WorkStep \/ \E t \in Tasks : ChildEnds(t)
  PROVE  (ExecutionStep \/ Idle) /\ Typed
<1>0. lesson \in Lessons /\ waiting \in 0 .. MaxAttempts
  BY DEF TypeOK

<1>1. CASE Prepare
  <2>1. CASE Quit
    BY <1>1, <2>1, EndEffect DEF Prepare, EndsBefore, ExecutionStep, Frame, ChildFrame,
       child, outside, history, Submitted
  <2>2. CASE ~Quit
    BY <1>1, <2>2, AtType DEF Prepare, Reads, ExecutionStep, Frame, ChildFrame, child,
       outside, history, Quiet, Typed, TypeOK, WorkSteps
  <2> QED BY <1>1, <2>1, <2>2 DEF Prepare
<1>2. CASE Claim
  <2>1. CASE Quit \/ Fails(FALSE)
    BY <1>2, <2>1, EndEffect DEF Claim, EndsBefore, ExecutionStep, Frame, ChildFrame,
       child, outside, history, Submitted
  <2>2. CASE ~(Quit \/ Fails(FALSE))
    <3> DEFINE l == [lesson EXCEPT !.effect = "none"]
    <3>1. Persist("work", l) /\ At("clearing") /\ UNCHANGED reservation /\ "clearing" \in WorkSteps
      BY <1>2, <2>2 DEF Claim, WorkSteps
    <3>2. l \in Lessons /\ l.status = "preparing" /\ lesson.status = "preparing"
      BY <1>2, <2>2, <1>0, EffectEdit DEF Claim, Status, Before, InRun, Submitted,
         Statuses, Over, Absent
    <3> HIDE DEF l
    <3>3. lesson' = l /\ Pushed("work") /\ Typed
      BY <3>1, <3>2, SaveEffect DEF Absent
    <3> QED BY <1>2, <2>2, <3>1, <3>2, <3>3 DEF Claim, Saves, ExecutionStep, Frame, ChildFrame, child, outside, history
  <2> QED BY <1>2, <2>1, <2>2 DEF Claim
<1>3. CASE PrepareMaterial
  <2>1. CASE Quit
    BY <1>3, <2>1, EndEffect DEF PrepareMaterial, EndsBefore, ExecutionStep, Frame,
       ChildFrame, child, outside, history, Submitted
  <2>2. CASE ~Quit
    BY <1>3, <2>2, AtType DEF PrepareMaterial, Reads, ExecutionStep, Frame, ChildFrame,
       child, outside, history, Quiet, Typed, TypeOK, WorkSteps
  <2> QED BY <1>3, <2>1, <2>2 DEF PrepareMaterial
<1>4. CASE MaterialReady
  <2>1. CASE Quit \/ \E blocked \in BOOLEAN : Fails(blocked)
    BY <1>4, <2>1, EndEffect DEF MaterialReady, EndsBefore, ExecutionStep, Frame,
       ChildFrame, child, outside, history, Submitted
  <2>2. CASE ~(Quit \/ \E blocked \in BOOLEAN : Fails(blocked))
    <3> DEFINE l == [lesson EXCEPT !.effect = "confirmed"]
    <3>1. Persist("work", l) /\ At("prepared") /\ UNCHANGED reservation /\ "prepared" \in WorkSteps
      BY <1>4, <2>2 DEF MaterialReady, WorkSteps
    <3>2. l \in Lessons /\ l.status = "preparing" /\ lesson.status = "preparing"
      BY <1>4, <2>2, <1>0, EffectEdit DEF MaterialReady, Status, Before, InRun, Submitted,
         Statuses, Over, Absent
    <3> HIDE DEF l
    <3>3. lesson' = l /\ Pushed("work") /\ Typed
      BY <3>1, <3>2, SaveEffect DEF Absent
    <3> QED BY <1>4, <2>2, <3>1, <3>2, <3>3 DEF MaterialReady, Saves, ExecutionStep, Frame, ChildFrame, child, outside, history
  <2> QED BY <1>4, <2>1, <2>2 DEF MaterialReady
<1>5. CASE ViewStep
  <2>1. CASE ~MayMove(lesson.status, "waiting_for_student")
    BY <1>5, <2>1, EndEffect DEF ViewStep, EndsBefore, ExecutionStep, Frame, ChildFrame,
       child, outside, history, Submitted
  <2>2. CASE MayMove(lesson.status, "waiting_for_student")
    <3> DEFINE pc == IF Step(lesson) = "open" /\ Last(lesson) /\ work.route = "material_viewer"
                      THEN "finishing" ELSE "saving"
    <3> DEFINE l == [lesson EXCEPT !.status = "waiting_for_student", !.child = 0]
    <3>1. Persist("work", l) /\ At(pc) /\ UNCHANGED reservation
          /\ pc \in WorkSteps \cap {"finishing", "saving"}
      BY <1>5, <2>2 DEF ViewStep, WorkSteps, StepDone
    <3>2. l \in Lessons /\ l.status = "waiting_for_student"
      BY <1>5, <2>2, <1>0, DoneEdit, EffectEdit DEF ViewStep, Status, Before, InRun,
         Submitted, Statuses, Over, Absent
    <3> HIDE DEF l, pc
    <3>3. lesson' = l /\ Pushed("work") /\ Typed
      BY <3>1, <3>2, SaveEffect DEF Absent
    <3> QED BY <1>5, <2>2, <3>1, <3>2, <3>3 DEF ViewStep, Shows, ExecutionStep, Frame, ChildFrame, child, outside, history
  <2> QED BY <1>5, <2>1, <2>2 DEF ViewStep
<1>6. CASE ClaimChild
  <2>1. CASE Quit \/ Fails(FALSE)
    BY <1>6, <2>1, EndEffect DEF ClaimChild, EndsBefore, ExecutionStep, Frame, ChildFrame,
       child, outside, history, Submitted
  <2>2. CASE ~(Quit \/ Fails(FALSE)) /\ work.route = "shared_agent" /\ lesson.shared # 0
    <3> DEFINE l == [lesson EXCEPT !.child = lesson.shared]
    <3>1. Persist("work", l) /\ At("claimed") /\ UNCHANGED reservation /\ "claimed" \in WorkSteps
      BY <1>6, <2>2 DEF ClaimChild, WorkSteps
    <3>2. l \in Lessons /\ l.status = "preparing" /\ lesson.status = "preparing" /\ l.child = lesson.shared
      BY <1>6, <2>2, <1>0, SharedEdit DEF ClaimChild, Status, Before, InRun, Submitted,
         Statuses, Over, Absent
    <3> HIDE DEF l
    <3>3. lesson' = l /\ Pushed("work") /\ Typed
      BY <3>1, <3>2, SaveEffect DEF Absent
    <3> QED BY <1>6, <2>2, <3>1, <3>2, <3>3 DEF ClaimChild, Claims, ExecutionStep, Frame, ChildFrame, child, outside, history
  <2>3. CASE ~(Quit \/ Fails(FALSE)) /\ ~(work.route = "shared_agent" /\ lesson.shared # 0)
    <3> DEFINE l == [lesson EXCEPT !.attempts = @ + 1]
    <3>1. Persist("work", l) /\ At("claimingStep") /\ UNCHANGED reservation /\ "claimingStep" \in WorkSteps
      BY <1>6, <2>3 DEF ClaimChild, WorkSteps
    <3>2. l \in Lessons /\ l.status = "preparing" /\ lesson.status = "preparing" /\ l.attempts # 0
      BY <1>6, <2>3, <1>0, AttemptEdit DEF ClaimChild, Status, Before, InRun, Submitted,
         Statuses, Over, Absent
    <3> HIDE DEF l
    <3>3. lesson' = l /\ Pushed("work") /\ Typed
      BY <3>1, <3>2, SaveEffect DEF Absent
    <3> QED BY <1>6, <2>3, <3>1, <3>2, <3>3 DEF ClaimChild, Saves, ExecutionStep, Frame, ChildFrame, child, outside, history
  <2> QED BY <1>6, <2>1, <2>2, <2>3 DEF ClaimChild
<1>7. CASE StepClaimed
  <2>1. CASE Quit \/ Fails(FALSE)
    BY <1>7, <2>1, EndEffect DEF StepClaimed, EndsBefore, ExecutionStep, Frame,
       ChildFrame, child, outside, history, Submitted
  <2>2. CASE ~(Quit \/ Fails(FALSE))
    <3> DEFINE l == [lesson EXCEPT !.child = lesson.attempts, !.shared = IF work.route = "shared_agent" THEN lesson.attempts ELSE @]
    <3>1. Persist("work", l) /\ At("claimed") /\ UNCHANGED reservation /\ "claimed" \in WorkSteps
      BY <1>7, <2>2 DEF StepClaimed, WorkSteps
    <3>2. l \in Lessons /\ l.status = "preparing" /\ lesson.status = "preparing" /\ l.child = lesson.attempts
      BY <1>7, <2>2, <1>0, ClaimEdit DEF StepClaimed, Status, Before, InRun, Submitted,
         Statuses, Over, Absent
    <3> HIDE DEF l
    <3>3. lesson' = l /\ Pushed("work") /\ Typed
      BY <3>1, <3>2, SaveEffect DEF Absent
    <3> QED BY <1>7, <2>2, <3>1, <3>2, <3>3 DEF StepClaimed, Claims, ExecutionStep, Frame, ChildFrame, child, outside, history
  <2> QED BY <1>7, <2>1, <2>2 DEF StepClaimed
<1>8. CASE RunStep
  <2>1. CASE Quit \/ Fails(TRUE)
    BY <1>8, <2>1, EndEffect DEF RunStep, EndsBefore, ExecutionStep, Frame, ChildFrame,
       child, outside, history, Submitted
  <2>2. CASE ~(Quit \/ Fails(TRUE))
    <3> DEFINE l == [lesson EXCEPT !.status = "running", !.effect = IF work.route = "shared_agent" THEN "none" ELSE "dispatching"]
    <3>1. Persist("work", l) /\ At("running") /\ UNCHANGED reservation /\ "running" \in WorkSteps
      BY <1>8, <2>2 DEF RunStep, WorkSteps
    <3>2. l \in Lessons /\ l.status = "running" /\ l.child = lesson.child
      BY <1>8, <2>2, <1>0, RunEdit DEF RunStep, Status, Before, InRun, Submitted,
         Statuses, Over, Absent
    <3> HIDE DEF l
    <3>3. lesson' = l /\ Pushed("work") /\ Typed
      BY <3>1, <3>2, SaveEffect DEF Absent
    <3> QED BY <1>8, <2>2, <3>1, <3>2, <3>3 DEF RunStep, Runs, ExecutionStep, Frame, ChildFrame, child, outside, history
  <2> QED BY <1>8, <2>1, <2>2 DEF RunStep
<1>9. CASE StartRun
  <2>1. CASE Quit /\ UNCHANGED <<cancelling, halts, overlap>>
    BY <1>9, <2>1, EndEffect DEF StartRun, EndsBefore, ExecutionStep, Frame, ChildFrame,
       child, outside, history, Submitted
  <2>2. CASE ~(Quit /\ UNCHANGED <<cancelling, halts, overlap>>)
    BY <1>9, <2>2, AtType DEF StartRun, Forgets, ExecutionStep, Frame, ChildFrame, child,
       outside, history, Quiet, Typed, TypeOK, WorkSteps
  <2> QED BY <1>9, <2>1, <2>2 DEF StartRun
<1>10. CASE Register
  <2>1. CASE (Quit \/ \E blocked \in BOOLEAN : Fails(blocked)) /\ UNCHANGED <<waiting, round>>
    BY <1>10, <2>1, EndEffect DEF Register, EndsBefore, ExecutionStep, Frame, ChildFrame,
       child, outside, history, Submitted
  <2>2. CASE ~((Quit \/ \E blocked \in BOOLEAN : Fails(blocked)) /\ UNCHANGED <<waiting, round>>)
    BY <1>10, <2>2, AtType DEF Register, Registers, ExecutionStep, Frame, ChildFrame,
       child, outside, history, Quiet, Typed, TypeOK, WorkSteps
  <2> QED BY <1>10, <2>1, <2>2 DEF Register
<1>11. CASE Authorize
  <2>1. CASE RunFails(FALSE)
    BY <1>11, <2>1, EndEffect DEF Authorize, EndsInRun, ExecutionStep, Frame, Cleanup,
       RunFails,
      child, outside, history, Submitted
  <2>2. CASE ~RunFails(FALSE)
    BY <1>11, <2>2, AtType DEF Authorize, Reads, ExecutionStep, Frame, ChildFrame, child,
       outside, history, Quiet, Typed, TypeOK, WorkSteps, Submitted
  <2> QED BY <1>11, <2>1, <2>2 DEF Authorize
<1>12. CASE Admit
  <2>1. CASE RunFails(FALSE)
    BY <1>12, <2>1, EndEffect DEF Admit, EndsInRun, ExecutionStep, Frame, Cleanup,
       RunFails,
      child, outside, history, Submitted
  <2>2. CASE ~RunFails(FALSE)
    BY <1>12, <2>2, AtType DEF Admit, Reads, ExecutionStep, Frame, ChildFrame, child,
       outside, history, Quiet, Typed, TypeOK, WorkSteps, Submitted
  <2> QED BY <1>12, <2>1, <2>2 DEF Admit
<1>13. CASE StartChild
  <2>1. CASE RunFails(FALSE)
    BY <1>13, <2>1, EndEffect DEF StartChild, EndsInRun, ExecutionStep, Frame, Cleanup,
       RunFails,
      child, outside, history, Submitted
  <2>2. CASE ~RunFails(FALSE)
    BY <1>13, <2>2, AtType DEF StartChild, Reads, ExecutionStep, Frame, ChildFrame, child,
       outside, history, Quiet, Typed, TypeOK, WorkSteps, Submitted
  <2> QED BY <1>13, <2>1, <2>2 DEF StartChild
<1>14. CASE ChildStarted
  <2>1. CASE RunFails(FALSE)
    BY <1>14, <2>1, EndEffect DEF ChildStarted, EndsInRun, ExecutionStep, Frame, Cleanup,
       RunFails,
      child, outside, history, Submitted
  <2>2. CASE ~RunFails(FALSE)
    BY <1>14, <2>2, AtType DEF ChildStarted, Reads, ExecutionStep, Frame, ChildFrame,
       child, outside, history, Quiet, Typed, TypeOK, WorkSteps, Submitted
  <2> QED BY <1>14, <2>1, <2>2 DEF ChildStarted
<1>15. CASE RunStopped
  BY <1>15, EndEffect DEF RunStopped, EndsInRun, ExecutionStep, Frame, Cleanup, RunFails,
      child, outside, history, Submitted
<1>16. CASE StepFinished
  <2>1. CASE Quit
    BY <1>16, <2>1, EndEffect DEF StepFinished, EndsBefore, ExecutionStep, Frame,
       ChildFrame, child, outside, history, Submitted
  <2>2. CASE ~Quit
    <3> DEFINE pc == IF /\ Step([lesson EXCEPT !.effect = "confirmed"]) = "open"
                         /\ Last([lesson EXCEPT !.effect = "confirmed"])
                         /\ work.route = "material_viewer"
                      THEN "finishing" ELSE "saving"
    <3> DEFINE l == [[lesson EXCEPT !.effect = "confirmed"] EXCEPT !.status = "waiting_for_student", !.child = 0]
    <3>1. Persist("work", l) /\ At(pc) /\ UNCHANGED reservation
          /\ pc \in WorkSteps \cap {"finishing", "saving"}
      BY <1>16, <2>2 DEF StepFinished, WorkSteps, StepDone
    <3>2. l \in Lessons /\ l.status = "waiting_for_student"
      BY <1>16, <2>2, <1>0, DoneEdit, EffectEdit DEF StepFinished, Status, Before, InRun,
         Submitted, Statuses, Over, Absent
    <3> HIDE DEF l, pc
    <3>3. lesson' = l /\ Pushed("work") /\ Typed
      BY <3>1, <3>2, SaveEffect DEF Absent
    <3> QED BY <1>16, <2>2, <3>1, <3>2, <3>3 DEF StepFinished, Shows, ExecutionStep, Frame, ChildFrame, child, outside, history
  <2> QED BY <1>16, <2>1, <2>2 DEF StepFinished
<1>17. CASE FinishOpening
  <2>1. CASE ~MayMove(lesson.status, "finished")
    BY <1>17, <2>1, EndEffect DEF FinishOpening, EndsBefore, ExecutionStep, Frame,
       ChildFrame, child, outside, history, Submitted
  <2>2. CASE MayMove(lesson.status, "finished")
    <3> DEFINE l == [lesson EXCEPT !.status = "finished"]
    <3>1. Persist("work", l) /\ At("saving") /\ UNCHANGED reservation /\ "saving" \in WorkSteps
      BY <1>17, <2>2 DEF FinishOpening, WorkSteps
    <3>2. l \in Lessons /\ l.status = "finished"
      BY <1>17, <2>2, <1>0, StatusEdit DEF FinishOpening, Status, Before, InRun,
         Submitted, Statuses, Over, Absent
    <3> HIDE DEF l
    <3>3. lesson' = l /\ Pushed("work") /\ Typed
      BY <3>1, <3>2, SaveEffect DEF Absent
    <3> QED BY <1>17, <2>2, <3>1, <3>2, <3>3 DEF FinishOpening, Completes, ExecutionStep, Frame, ChildFrame, child, outside, history
  <2> QED BY <1>17, <2>1, <2>2 DEF FinishOpening
<1>18. CASE WorkSaved
  <2>1. NoWork \in [pc : WorkSteps, aborted : BOOLEAN, route : Routes]
    BY DEF NoWork, WorkSteps, Routes
  <2>2. Typed
    BY <1>18, <2>1 DEF WorkSaved, WorkEnds, store, Released, Typed, TypeOK
  <2>3. Rests
    BY <1>18 DEF WorkSaved, Rests, Frame, ChildFrame, child, outside, history, store,
       Quiet,
      WorkEnds
  <2> QED BY <2>2, <2>3 DEF ExecutionStep
<1>19. ASSUME NEW t \in Tasks, ChildEnds(t)
       PROVE  (ExecutionStep \/ Idle) /\ Typed
  <2> DEFINE waited == waiting = t /\ ~Rejected(t) /\ work.pc = "completion"
  <2>1. CASE waited /\ RunFails(round = "open")
    BY <1>19, <2>1, EndEffect DEF ChildEnds, RunFails, EndsInRun, ExecutionStep, Frame,
      Cleanup, outside, history, Submitted
  <2>2. CASE waited /\ round # "uncertain" /\ tool.pc = "idle" /\ Cleanup
             /\ At("resolved") /\ UNCHANGED <<lesson, writes, reservation>>
    BY <1>19, <2>2, AtType DEF ChildEnds, Resolves, ExecutionStep, Frame, outside,
       history,
      Quiet, Typed, TypeOK, WorkSteps
  <2>3. CASE ~waited /\ UNCHANGED <<lesson, writes, work, waiting, round, tool, reservation>>
    BY <1>19, <2>3 DEF ChildEnds, Idle, store, outside, history, Typed, TypeOK
  <2> QED BY <1>19, <2>1, <2>2, <2>3 DEF ChildEnds
<1> QED
  BY <1>1, <1>2, <1>3, <1>4, <1>5, <1>6, <1>7, <1>8, <1>9, <1>10, <1>11, <1>12, <1>13,
     <1>14,
    <1>15, <1>16, <1>17, <1>18, <1>19 DEF WorkStep

\* The steps that begin an execution (Launch, NextStep).
LEMMA StartKinds ==
  ASSUME TypeOK, Launch \/ NextStep
  PROVE  Starts /\ Typed
<1>0. lesson \in Lessons /\ reservation \in {"none", "lesson", "other"}
  BY DEF TypeOK
<1>1. \A l : Route(l) \in Routes /\ HelpRoute(l) \in Routes
  BY DEF Route, HelpRoute, Routes
<1>2. CASE Launch
  <2>1. PICK route \in {Route(lesson), HelpRoute(lesson)} : Begin(lesson, route, reservation)
    BY <1>2 DEF Launch
  <2>2. work.pc = "idle"
    BY <1>2 DEF Launch
  <2>3. Started(lesson) /\ Typed
    BY <2>1, <2>2, <1>0, <1>1, BeginEffect
  <2> QED BY <1>2, <2>3 DEF Launch, Starts, Frame, ChildFrame, child, outside, history, Absent
<1>3. CASE NextStep
  <2> DEFINE l == [lesson EXCEPT !.step = @ + 1, !.shared = 0]
  <2>1. /\ work.pc = "idle" /\ lesson.status = "waiting_for_student"
        /\ ~Leaving /\ ~Last(lesson) /\ Begin(l, Route(l), reservation)
    BY <1>3 DEF NextStep
  <2>2. lesson.step + 1 \in 1 .. Len(Plan) /\ 0 \in 0 .. MaxAttempts
    BY <2>1, <1>0, PlanAssumption, LessonBoundsAssumption DEF Last, Lessons
  <2>3. /\ l \in Lessons /\ l.status = lesson.status /\ l.child = lesson.child
        /\ l.effect = lesson.effect
    BY <2>2, <1>0 DEF Lessons
  <2> HIDE DEF l
  <2>4. Started(l) /\ Typed
    BY <2>1, <2>3, <1>0, <1>1, BeginEffect
  <2>5. lesson.status # Absent
    BY <2>1 DEF Absent
  <2> QED BY <1>3, <2>1, <2>3, <2>4, <2>5
        DEF NextStep, Starts, Frame, ChildFrame, child, outside, history
<1> QED BY <1>2, <1>3

\* What the caller of halt does when it returns (Return).
LEMMA ReturnEffect ==
  ASSUME TypeOK, NEW h \in Halts, NEW r \in {"none", "lesson", "other"}, Return(h, r)
  PROVE  Returned(h) /\ Typed /\ joined' \in BOOLEAN
<1>0. /\ lesson \in Lessons /\ writes \in Seq(Writers \X Lessons) /\ joined \in BOOLEAN
      /\ work \in [pc : WorkSteps, aborted : BOOLEAN, route : Routes]
  BY DEF TypeOK
<1>1. CASE halts[h].by = "leave"
  BY <1>0, <1>1, NoLessonType DEF Return, Returned, Typed
<1>2. CASE /\ halts[h].by # "leave" /\ halts[h].by = "question" /\ joined /\ ~Leaving
           /\ work.pc = "idle" /\ lesson.status \notin {"unknown", Absent}
  <2>1. Begin(lesson, HelpRoute(lesson), r) /\ UNCHANGED joined
    BY <1>2 DEF Return
  <2>2. HelpRoute(lesson) \in Routes
    BY DEF HelpRoute, Routes
  <2>3. Started(lesson) /\ Typed
    BY <2>1, <2>2, <1>0, <1>2, BeginEffect
  <2> QED BY <2>1, <2>3, <1>0, <1>2 DEF Returned
<1>3. CASE /\ halts[h].by # "leave"
           /\ ~(/\ halts[h].by = "question" /\ joined /\ ~Leaving /\ work.pc = "idle"
                /\ lesson.status \notin {"unknown", Absent})
  <2>1. reservation' = r /\ UNCHANGED <<lesson, writes, work, joined>>
    BY <1>3 DEF Return
  <2> QED BY <2>1, <1>0 DEF Returned, Quiet, Typed
<1> QED BY <1>1, <1>2, <1>3

\* The steps of a halt under way, and the end of a lesson (HaltStep, Finish).
LEMMA HaltKinds ==
  ASSUME TypeOK, NEW h \in Halts, HaltStep(h) \/ Finish(h)
  PROVE  /\ Moved(h) \/ GivesBack(h) \/ Closes(h) \/ Answered(h)
         /\ Typed /\ joined' \in BOOLEAN
<1>0. /\ lesson \in Lessons /\ writes \in Seq(Writers \X Lessons) /\ joined \in BOOLEAN
      /\ reservation \in {"none", "lesson", "other"} /\ h \in Writers
      /\ work \in [pc : WorkSteps, aborted : BOOLEAN, route : Routes]
      /\ Released(reservation) \in {"none", "lesson", "other"}
  BY DEF TypeOK, Writers, Released
<1>1. CASE HaltMoves(h)
  <2>0. /\ halts[h].pc = "awaiting" /\ work.pc = "idle" /\ HaltFrame
    BY <1>1 DEF HaltMoves, HaltFrame, ChildFrame, child
  <2>1. CASE ~Active
    <3>1. halts' = [halts EXCEPT ![h] = NoHalt] /\ Return(h, reservation)
      BY <1>1, <2>1 DEF HaltMoves
    <3> QED BY <2>0, <2>1, <3>1, <1>0, ReturnEffect DEF Moved
  <2>2. CASE Active /\ MayMove(lesson.status, Target(h))
    <3> DEFINE l == [lesson EXCEPT !.child = 0, !.status = Target(h)]
    <3>1. Persist(h, l) /\ halts' = [halts EXCEPT ![h].pc = "saving"]
          /\ UNCHANGED <<work, joined, reservation>>
      BY <1>1, <2>2 DEF HaltMoves
    <3>2. Target(h) \in Statuses /\ Target(h) # Absent
      BY DEF Target, TypeOK, HaltStates, Statuses, Over, Absent
    <3>3. 0 \in 0 .. MaxAttempts
      BY LessonBoundsAssumption
    <3>4. /\ l \in Lessons /\ l.status = Target(h) /\ l.child = 0
          /\ l.effect = lesson.effect
      BY <3>2, <3>3, <1>0 DEF Lessons
    <3> HIDE DEF l
    <3>5. lesson' = l /\ Pushed(h) /\ writes' \in Seq(Writers \X Lessons)
      BY <3>1, <3>2, <3>4, <1>0, PersistType, PersistPushes
    <3> QED BY <2>0, <2>2, <3>1, <3>4, <3>5, <1>0 DEF Moved, Typed
  <2>3. CASE Active /\ ~MayMove(lesson.status, Target(h))
    <3>1. /\ lesson' = [lesson EXCEPT !.child = 0]
          /\ halts' = [halts EXCEPT ![h] = NoHalt]
          /\ UNCHANGED <<writes, work, joined, reservation>>
      BY <1>1, <2>3 DEF HaltMoves
    <3>2. 0 \in 0 .. MaxAttempts
      BY LessonBoundsAssumption
    <3>3. /\ lesson' \in Lessons /\ lesson'.status = lesson.status /\ lesson'.child = 0
          /\ lesson'.effect = lesson.effect
      BY <3>1, <3>2, <1>0 DEF Lessons
    <3> QED BY <2>0, <2>3, <3>1, <3>3, <1>0 DEF Moved, Typed
  <2> QED BY <2>1, <2>2, <2>3
<1>2. CASE HaltReturns(h)
  BY <1>0, <1>2, ReturnEffect DEF HaltReturns, GivesBack, HaltFrame, ChildFrame, child
<1>3. CASE Finish(h)
  <2> DEFINE l == [lesson EXCEPT !.status = "finished"]
  <2>1. Persist(h, l) /\ UNCHANGED <<work, reservation, joined>>
    BY <1>3 DEF Finish, outside
  <2>2. l \in Lessons /\ l.status = "finished" /\ "finished" # Absent
    BY <1>0, StatusEdit DEF Statuses, Over, Absent
  <2> HIDE DEF l
  <2>3. lesson' = l /\ Pushed(h) /\ writes' \in Seq(Writers \X Lessons)
    BY <2>1, <2>2, <1>0, PersistType, PersistPushes
  <2>4. Typed
    BY <2>1, <2>2, <2>3, <1>0 DEF Typed
  <2>5. Closes(h)
    BY <1>3, <2>1, <2>2, <2>3 DEF Finish, Closes, HaltFrame, ChildFrame, child, outside
  <2> QED BY <2>1, <2>4, <2>5, <1>0
<1>4. CASE HaltCancelled(h)
  <2>1. cancelling[halts[h].task] \in {"none", "dispatching", "confirmed", "unknown"}
    BY <1>4 DEF HaltCancelled, Cancelled
  <2>2. EffectOnly /\ lesson' \in Lessons
        /\ (lesson.status = Absent \/ lesson'.effect = cancelling[halts[h].task])
    BY <1>0, <1>4, <2>1, EffectEdit DEF HaltCancelled, EffectOnly
  <2> QED BY <1>0, <1>4, <2>2 DEF HaltCancelled, Answered, Typed, store, child, outside
<1>5. CASE OvertakenDone(h)
  <2>0. PICK e \in {"confirmed", "unknown"} :
          lesson' = IF lesson.status = Absent THEN lesson ELSE [lesson EXCEPT !.effect = e]
    BY <1>5 DEF OvertakenDone
  <2>1. EffectOnly /\ lesson' \in Lessons
    <3>1. e \in {"none", "dispatching", "confirmed", "unknown"}
      BY <2>0
    <3>2. LET m == [lesson EXCEPT !.effect = e]
          IN /\ m \in Lessons /\ m.status = lesson.status /\ m.child = lesson.child
             /\ m.attempts = lesson.attempts
      BY <1>0, <3>1, EffectEdit
    <3> QED BY <1>0, <2>0, <3>2 DEF EffectOnly
  <2> QED BY <1>0, <1>5, <2>1 DEF OvertakenDone, Answered, Typed, store, outside
<1> QED BY <1>1, <1>2, <1>3, <1>4, <1>5 DEF HaltStep

\* What a call of halt does (Halt).
LEMMA HaltEffect ==
  ASSUME TypeOK, NEW h \in Halts, NEW to \in {"paused", "stopped"},
         NEW by \in {"student", "question", "leave"}, Halt(h, to, by),
         by = "leave" => ~Leaving, UNCHANGED joined
  PROVE  Halting(h) /\ Typed
<1>1. /\ work' = IF work.pc = "idle" THEN work ELSE [work EXCEPT !.aborted = TRUE]
      /\ UNCHANGED <<lesson, writes, reservation>>
  BY DEF Halt, store
<1>2. Typed
  BY <1>1 DEF Typed, TypeOK
<1>3. halts' = [halts EXCEPT ![h] =
        [pc |-> IF lesson.child = 0 THEN "awaiting" ELSE "cancelling",
         to |-> to, by |-> by, task |-> lesson.child]]
  BY DEF Halt
<1>4. halts'[h].by = by
  BY <1>3 DEF TypeOK
<1>5. Halting(h)
  BY <1>1, <1>3, <1>4 DEF Halt, Halting, Quiet, store, outside
<1> QED BY <1>2, <1>5

\* The callers of halt (HaltBegins).
LEMMA HaltBeginKinds ==
  ASSUME TypeOK, Child, NEW h \in Halts, HaltBegins(h)
  PROVE  Halting(h) /\ Typed /\ UNCHANGED <<open, restarts>>
<1>1. CASE StudentHalts(h)
  BY <1>1, HaltEffect DEF StudentHalts, Halt, outside
<1>2. CASE StudentAsks(h)
  BY <1>2, HaltEffect DEF StudentAsks, Halt, outside
<1>3. CASE FeedStops(h)
  BY <1>3, HaltEffect DEF FeedStops, Halt, outside
<1>4. CASE LeaveClass(h)
  BY <1>4, HaltEffect DEF LeaveClass, Halt, outside
<1>5. CASE ChildStopped(h)
  <2>1. work.pc # "idle"
    BY <1>5 DEF ChildStopped, Child, Submitted
  <2>2. /\ halts' = [halts EXCEPT ![h] = [pc |-> "cancelling", to |-> "stopped",
                                          by |-> "student", task |-> lesson.child]]
        /\ lesson.child # 0 /\ work' = [work EXCEPT !.aborted = TRUE]
        /\ UNCHANGED <<lesson, writes, reservation>>
    BY <1>5 DEF ChildStopped, store
  <2>3. halts'[h].by = "student"
    BY <2>2 DEF TypeOK
  <2>4. Typed
    BY <2>2 DEF Typed, TypeOK
  <2>5. Halting(h)
    BY <1>5, <2>1, <2>2, <2>3 DEF ChildStopped, Halting, Quiet, store, outside
  <2> QED BY <1>5, <2>4, <2>5 DEF ChildStopped, outside
<1> QED BY <1>1, <1>2, <1>3, <1>4, <1>5 DEF HaltBegins

\* The steps of the child's tools (ToolAsks, ToolObservesAgain, ToolStep).
LEMMA ToolKinds ==
  ASSUME TypeOK, Child, Rest, ToolAsks \/ ToolObservesAgain \/ ToolStep
  PROVE  ToolFrame /\ Typed
<1>0. /\ lesson \in Lessons /\ writes \in Seq(Writers \X Lessons)
      /\ work \in [pc : WorkSteps, aborted : BOOLEAN, route : Routes]
      /\ reservation \in {"none", "lesson", "other"} /\ "tool" \in Writers
  BY DEF TypeOK, Writers
<1>1. ASSUME NEW e \in {"none", "dispatching", "confirmed", "unknown"},
             Persist("tool", [lesson EXCEPT !.effect = e]), lesson.status # Absent
      PROVE  /\ EffectOnly /\ Pushed("tool") /\ lesson' \in Lessons
             /\ writes' \in Seq(Writers \X Lessons)
  <2> DEFINE l == [lesson EXCEPT !.effect = e]
  <2>1. /\ l \in Lessons /\ l.status = lesson.status /\ l.child = lesson.child
        /\ l.attempts = lesson.attempts
    BY <1>0, EffectEdit
  <2> HIDE DEF l
  <2>2. lesson' = l /\ Pushed("tool") /\ writes' \in Seq(Writers \X Lessons)
    BY <1>0, <1>1, <2>1, PersistType, PersistPushes DEF l
  <2> QED BY <1>1, <2>1, <2>2 DEF EffectOnly
<1>2. waiting # 0 => lesson.status # Absent
  BY DEF Child, Rest, Submitted
<1>3. CASE ToolAsks
  <2>1. lesson' = lesson /\ Pushed("tool") /\ writes' \in Seq(Writers \X Lessons)
    BY <1>0, <1>2, <1>3, PersistType, PersistPushes DEF ToolAsks
  <2> QED BY <1>0, <1>3, <2>1 DEF ToolAsks, ToolFrame, EffectOnly, Typed, child, outside, history
<1>4. CASE ToolObservesAgain
  BY <1>0, <1>1, <1>2, <1>4 DEF ToolObservesAgain, ToolFrame, Typed, child, outside
<1>5. CASE ToolMarks
  BY <1>0, <1>1, <1>5
    DEF ToolMarks, ToolFrame, EffectOnly, Typed, child, outside, history
<1>6. CASE ToolDispatches
  BY <1>0, <1>6 DEF ToolDispatches, ToolFrame, EffectOnly, Typed, outside, history, store
<1>7. CASE ToolReturns
  BY <1>0, <1>7 DEF ToolReturns, ToolFrame, EffectOnly, Typed, child, outside, history,
     store
<1>8. CASE ToolRecovers
  BY <1>0, <1>1, <1>8 DEF ToolRecovers, ToolFrame, EffectOnly, Typed, outside, history
<1>9. ASSUME NEW status \in {"confirmed", "none", "unknown"}, ToolActed(status)
      PROVE  ToolFrame /\ Typed
  BY <1>0, <1>1, <1>2, <1>9 DEF ToolActed, ToolFrame, EffectOnly, Typed, outside, Child
<1> QED BY <1>3, <1>4, <1>5, <1>6, <1>7, <1>8, <1>9 DEF ToolStep

\* What the journal gives back is a lesson (Restored).
LEMMA RestoredType ==
  ASSUME NEW l \in Lessons
  PROVE  Restored(l) \in Lessons
<1>1. \A s \in {"unknown", "paused"} : [l EXCEPT !.status = s] \in Lessons
  BY StatusEdit DEF Statuses
<1> QED BY <1>1, NoLessonType DEF Restored

\* The turn of a cancelled task.
LEMMA CancelTaskType ==
  ASSUME turn \in [Tasks -> Turns], NEW t
  PROVE  CancelTask(t) \in [Tasks -> Turns]
<1>1. {"cancelled", "strayStarting", "over"} \subseteq Turns
  BY DEF Turns
<1> QED BY <1>1 DEF CancelTask

\* No call of halt is one that is over.
LEMMA NoHaltType == NoHalt \in HaltStates
<1>1. 0 \in 0 .. MaxAttempts
  BY LessonBoundsAssumption
<1> QED BY <1>1 DEF NoHalt, HaltStates

\* What becomes of the calls of halt.
LEMMA HaltsType ==
  ASSUME halts \in [Halts -> HaltStates], NEW h \in Halts
  PROVE  /\ NoHalt \in HaltStates /\ [h2 \in Halts |-> NoHalt] \in [Halts -> HaltStates]
         /\ \A s \in HaltStates : [halts EXCEPT ![h] = s] \in [Halts -> HaltStates]
         /\ \A pc \in {"saving", "awaiting"} :
              [halts EXCEPT ![h].pc = pc] \in [Halts -> HaltStates]
         /\ [pc |-> "saving", to |-> "finished", by |-> "student", task |-> 0] \in HaltStates
<1>1. 0 \in 0 .. MaxAttempts
  BY LessonBoundsAssumption
<1>2. NoHalt \in HaltStates
  BY NoHaltType
<1>5. [pc |-> "saving", to |-> "finished", by |-> "student", task |-> 0] \in HaltStates
  BY <1>1 DEF HaltStates
<1>3. ASSUME NEW g \in Halts, NEW pc \in {"saving", "awaiting"}
      PROVE  [halts[g] EXCEPT !.pc = pc] \in HaltStates
  BY DEF HaltStates
<1> QED BY <1>2, <1>3, <1>5

\* Those whose cancellation is forgotten.
LEMMA OvertakenType ==
  ASSUME halts \in [Halts -> HaltStates], NEW t
  PROVE  Overtaken(t) \in [Halts -> HaltStates]
<1>1. ASSUME NEW g \in Halts, NEW pc \in {"unsure", "overtaken"}
      PROVE  [halts[g] EXCEPT !.pc = pc] \in HaltStates
  BY DEF HaltStates
<1> QED BY <1>1 DEF Overtaken

\* A tool call stays one when it moves or loses its round.
LEMMA ToolType ==
  ASSUME tool \in ToolStates
  PROVE  /\ NoTool \in ToolStates
         /\ [tool EXCEPT !.live = FALSE] \in ToolStates
         /\ \A pc \in {"marking", "acting", "observed"} :
              [tool EXCEPT !.pc = pc] \in ToolStates
<1>1. 0 \in 0 .. MaxAttempts
  BY LessonBoundsAssumption
<1> QED BY <1>1 DEF ToolStates, NoTool

\* What the synchronous part of a cancellation changes (BeginCancel).
LEMMA BeginCancelType ==
  ASSUME TypeOK, NEW t, BeginCancel(t)
  PROVE  cancelling' \in [Tasks -> Cancellations] /\ round' \in Rounds /\ tool' \in ToolStates
<1>1. /\ cancelling \in [Tasks -> Cancellations] /\ round \in Rounds
      /\ tool \in ToolStates
  BY DEF TypeOK
<1>2. {"confirmed", "unsure", "sure"} \subseteq Cancellations /\ "none" \in Rounds
  BY DEF Cancellations, Rounds
<1> QED BY <1>1, <1>2, ToolType DEF BeginCancel

\* What the end of run changes (Cleanup).
LEMMA CleanupType ==
  ASSUME TypeOK, Cleanup
  PROVE  waiting' \in 0 .. MaxAttempts /\ round' \in Rounds /\ tool' \in ToolStates
<1>1. tool \in ToolStates /\ 0 \in 0 .. MaxAttempts /\ "none" \in Rounds
  BY LessonBoundsAssumption DEF TypeOK, Rounds
<1> QED BY <1>1, ToolType DEF Cleanup

\* Every step keeps the types (Next).
LEMMA TypeStep ==
  ASSUME TypeOK, Rest, Status, Child, [Next]_vars
  PROVE  TypeOK'
<1>0. /\ lesson \in Lessons /\ journal \in Lessons
      /\ lesson.child \in 0 .. MaxAttempts /\ 0 \in 0 .. MaxAttempts
      /\ halts \in [Halts -> HaltStates] /\ waiting \in 0 .. MaxAttempts
      /\ cancelling \in [Tasks -> Cancellations] /\ round \in Rounds
      /\ turn \in [Tasks -> Turns] /\ tool \in ToolStates /\ open \in BOOLEAN
      /\ joined \in BOOLEAN /\ restarts \in 0 .. MaxRestarts
      /\ doubt \in BOOLEAN /\ revoked \in BOOLEAN /\ overlap \in BOOLEAN
  BY LessonBoundsAssumption DEF TypeOK, Lessons
<1>a. ASSUME Typed, UNCHANGED <<journal, halts, child, tool, outside, history>>
      PROVE  TypeOK'
  BY <1>0, <1>a DEF Typed, TypeOK, child, outside, history
<1>b. ASSUME Typed, waiting' \in 0 .. MaxAttempts, round' \in Rounds, tool' \in ToolStates,
             turn' \in [Tasks -> Turns],
             UNCHANGED <<journal, halts, cancelling, outside, history>>
      PROVE  TypeOK'
  BY <1>0, <1>b DEF Typed, TypeOK, outside, history
<1>c. ASSUME Typed, halts' \in [Halts -> HaltStates], joined' \in BOOLEAN,
             cancelling' \in [Tasks -> Cancellations], round' \in Rounds,
             tool' \in ToolStates, turn' \in [Tasks -> Turns], overlap' \in BOOLEAN,
             UNCHANGED <<journal, waiting, open, restarts, doubt, revoked>>
      PROVE  TypeOK'
  BY <1>0, <1>c DEF Typed, TypeOK
<1>d. ASSUME Typed, round' \in Rounds, tool' \in ToolStates,
             doubt' \in BOOLEAN, revoked' \in BOOLEAN,
             UNCHANGED <<journal, halts, waiting, cancelling, turn, outside, overlap>>
      PROVE  TypeOK'
  BY <1>0, <1>d DEF Typed, TypeOK, outside
<1>e. /\ "over" \in Turns /\ "created" \in Turns /\ "starting" \in Turns
      /\ "stray" \in Turns /\ "active" \in Turns /\ "none" \in Turns
      /\ "none" \in Rounds /\ "open" \in Rounds /\ "uncertain" \in Rounds
      /\ "no" \in Cancellations /\ "rejected" \in Cancellations
      /\ "confirmed" \in Cancellations /\ "unknown" \in Cancellations
  BY DEF Turns, Rounds, Cancellations
<1>1. CASE \/ Prepare \/ Claim \/ PrepareMaterial \/ MaterialReady \/ ViewStep
            \/ ClaimChild \/ StepClaimed \/ RunStep \/ StepFinished \/ FinishOpening
  BY <1>1, <1>a, WorkKinds DEF WorkStep, Prepare, Claim, PrepareMaterial, MaterialReady,
     ViewStep, ClaimChild, StepClaimed, RunStep, StepFinished, FinishOpening
<1>2. CASE WorkSaved
  BY <1>2, <1>a, WorkKinds DEF WorkStep, WorkSaved, store
<1>3. CASE Launch \/ NextStep
  BY <1>3, <1>a, StartKinds DEF Launch, NextStep
<1>4. CASE Register
  BY <1>4, <1>0, <1>b, <1>e, WorkKinds DEF WorkStep, Register
<1>5. CASE StartRun
  <2>1. halts' = halts \/ halts' = Overtaken(lesson.child)
    BY <1>5 DEF StartRun
  <2>2. halts' \in [Halts -> HaltStates]
    BY <1>0, <2>1, OvertakenType
  <2>3. cancelling' \in [Tasks -> Cancellations]
    BY <1>0, <1>e, <1>5 DEF StartRun
  <2>4. overlap' \in BOOLEAN
    BY <1>0, <1>5 DEF StartRun, AwaitsChild
  <2> QED BY <1>0, <1>5, <1>c, <2>2, <2>3, <2>4, WorkKinds DEF WorkStep, StartRun, outside
<1>6. CASE Authorize
  BY <1>6, <1>0, <1>b, <1>e, WorkKinds, CleanupType DEF WorkStep, Authorize, RunFails
<1>7. CASE Admit
  BY <1>7, <1>0, <1>b, <1>e, WorkKinds, CleanupType DEF WorkStep, Admit, RunFails
<1>8. CASE StartChild
  BY <1>8, <1>0, <1>b, <1>e, WorkKinds, CleanupType DEF WorkStep, StartChild, RunFails
<1>9. CASE ChildStarted
  BY <1>9, <1>0, <1>b, <1>e, WorkKinds, CleanupType DEF WorkStep, ChildStarted, RunFails
<1>10. CASE RunStopped
  BY <1>10, <1>0, <1>b, <1>e, WorkKinds, CleanupType DEF WorkStep, RunStopped, RunFails
<1>11. ASSUME NEW t \in Tasks, ChildEnds(t) PROVE TypeOK'
  BY <1>11, <1>0, <1>b, <1>e, WorkKinds, CleanupType DEF ChildEnds, RunFails
<1>12. CASE Write
  <2>1. Head(writes) \in Writers \X Lessons /\ Tail(writes) \in Seq(Writers \X Lessons)
    BY <1>12 DEF Write, TypeOK
  <2>2. journal' \in Lessons
    BY <1>12, <2>1 DEF Write
  <2> QED BY <1>12, <2>1, <2>2 DEF Write, TypeOK, child, outside, history
<1>13. ASSUME NEW h \in Halts, Finish(h) PROVE TypeOK'
  BY <1>13, <1>0, <1>c, HaltKinds, HaltsType DEF Finish, child, outside, history
<1>14. ASSUME NEW h \in Halts, HaltCancelled(h) PROVE TypeOK'
  BY <1>14, <1>0, <1>c, HaltKinds, HaltsType DEF HaltStep, HaltCancelled, store, child,
     outside, history
<1>15. ASSUME NEW h \in Halts, OvertakenDone(h) PROVE TypeOK'
  BY <1>15, <1>0, <1>c, <1>e, HaltKinds, HaltsType DEF HaltStep, OvertakenDone, store,
     outside, history
<1>16. ASSUME NEW h \in Halts, HaltMoves(h) PROVE TypeOK'
  <2>1. halts' \in [Halts -> HaltStates]
    BY <1>0, <1>16, HaltsType DEF HaltMoves
  <2> QED BY <1>0, <1>16, <1>c, <2>1, HaltKinds DEF HaltStep, HaltMoves, child, history
<1>17. ASSUME NEW h \in Halts, HaltReturns(h) PROVE TypeOK'
  BY <1>17, <1>0, <1>c, HaltKinds, HaltsType DEF HaltStep, HaltReturns, child, history
<1>18. ASSUME NEW h \in Halts, HaltBegins(h) PROVE TypeOK'
  <2>1. Halting(h) /\ Typed /\ UNCHANGED <<open, restarts>>
    BY <1>18, HaltBeginKinds
  <2>2. turn' = turn \/ turn' = CancelTask(lesson.child)
    BY <1>18 DEF HaltBegins, StudentHalts, StudentAsks, FeedStops, LeaveClass,
       ChildStopped, Halt
  <2>3. turn' \in [Tasks -> Turns]
    BY <1>0, <2>2, CancelTaskType
  <2>4. PICK to \in {"paused", "stopped"}, by \in {"student", "question", "leave"} :
          halts' = [halts EXCEPT ![h] =
            [pc |-> IF lesson.child = 0 THEN "awaiting" ELSE "cancelling",
             to |-> to, by |-> by, task |-> lesson.child]]
    BY <2>1 DEF Halting
  <2>5. [pc |-> IF lesson.child = 0 THEN "awaiting" ELSE "cancelling",
         to |-> to, by |-> by, task |-> lesson.child] \in HaltStates
    BY <1>0 DEF HaltStates
  <2>6. halts' \in [Halts -> HaltStates]
    BY <1>0, <2>4, <2>5, HaltsType
  <2>7. BeginCancel(lesson.child) /\ UNCHANGED <<journal, joined, waiting, history>>
    BY <2>1 DEF Halting
  <2> QED BY <1>0, <1>c, <2>1, <2>3, <2>6, <2>7, BeginCancelType DEF history
<1>19. CASE ToolAsks
  <2>1. tool' \in ToolStates
    BY <1>0, <1>19 DEF ToolAsks, ToolStates
  <2> QED BY <1>0, <1>19, <1>d, <2>1, ToolKinds DEF ToolAsks, child, history
<1>20. CASE ToolObservesAgain
  <2>1. tool' \in ToolStates
    BY <1>0, <1>20 DEF ToolObservesAgain, ToolStates
  <2> QED BY <1>0, <1>20, <1>d, <2>1, ToolKinds DEF ToolObservesAgain, child
<1>21. CASE ToolMarks
  BY <1>21, <1>0, <1>d, <1>e, ToolKinds, ToolType DEF ToolStep, ToolMarks, store, child,
     history
<1>22. CASE ToolReturns
  BY <1>22, <1>0, <1>d, <1>e, ToolKinds, ToolType DEF ToolStep, ToolReturns, store, child,
     history
<1>23. CASE ToolRecovers
  BY <1>23, <1>0, <1>d, <1>e, ToolKinds, ToolType DEF ToolStep, ToolRecovers, store,
     child, history
<1>24. CASE ToolDispatches
  <2>1. revoked' \in BOOLEAN
    BY <1>0, <1>24 DEF ToolDispatches, history, TypeOK
  <2> QED BY <1>0, <1>24, <1>d, <1>e, <2>1, ToolKinds, ToolType DEF ToolStep, ToolDispatches, store, history
<1>25. ASSUME NEW status \in {"confirmed", "none", "unknown"}, ToolActed(status)
       PROVE  TypeOK'
  BY <1>25, <1>0, <1>d, <1>e, ToolKinds, ToolType DEF ToolStep, ToolActed
<1>26. ASSUME NEW t \in Tasks, CancelDone(t) PROVE TypeOK'
  <2>1. turn' \in [Tasks -> Turns] /\ cancelling' \in [Tasks -> Cancellations]
    BY <1>0, <1>e, <1>26, CancelTaskType DEF CancelDone
  <2> QED BY <1>0, <1>26, <2>1 DEF CancelDone, TypeOK, store, outside, history
<1>27. CASE OtherTaskStarts \/ OtherTaskEnds \/ TeacherStops
  BY <1>27 DEF OtherTaskStarts, OtherTaskEnds, TeacherStops, TypeOK, store, child,
     outside, history
<1>28. CASE JoinClass
  <2>1. Restored(journal) \in Lessons /\ "activate" \in Writers
    BY <1>0, RestoredType DEF Writers
  <2>2. lesson' = Restored(journal) /\ writes' \in Seq(Writers \X Lessons)
    BY <1>28, <2>1, PersistType DEF JoinClass
  <2> QED BY <1>28, <2>1, <2>2 DEF JoinClass, TypeOK, child, outside, history
<1>29. CASE Restart
  <2>1. Restored(journal) \in Lessons /\ "activate" \in Writers
    BY <1>0, RestoredType DEF Writers
  <2>0. ASSUME NEW l \in Lessons PROVE <<<<"activate", l>>>> \in Seq(Writers \X Lessons)
    BY <2>1
  <2>2. writes' \in Seq(Writers \X Lessons) /\ lesson' \in Lessons
    <3>1. lesson' \in Lessons
      BY <1>29, <2>1 DEF Restart
    <3>2. writes' = << >> \/ writes' = <<<<"activate", lesson'>>>>
      BY <1>29 DEF Restart
    <3>3. << >> \in Seq(Writers \X Lessons) /\ <<<<"activate", lesson'>>>> \in Seq(Writers \X Lessons)
      BY <3>1, <2>1
    <3> QED BY <3>1, <3>2, <3>3
  <2>3. work' \in [pc : WorkSteps, aborted : BOOLEAN, route : Routes]
    BY <1>29 DEF Restart, NoWork, WorkSteps, Routes
  <2>4. restarts' \in 0 .. MaxRestarts
    BY <1>0, <1>29, LessonBoundsAssumption DEF Restart
  <2>5. halts' \in [Halts -> HaltStates] /\ turn' \in [Tasks -> Turns]
        /\ cancelling' \in [Tasks -> Cancellations]
    BY <1>29, <1>0, <1>e, NoHaltType DEF Restart
  <2> QED BY <1>0, <1>e, <1>29, <2>2, <2>3, <2>4, <2>5, ToolType DEF Restart, TypeOK, history
<1>30. CASE UNCHANGED vars
  BY <1>30 DEF vars, TypeOK, store, child, outside, history
<1> QED
  BY <1>1, <1>2, <1>3, <1>4, <1>5, <1>6, <1>7, <1>8, <1>9, <1>10, <1>11, <1>12, <1>13,
    <1>14, <1>15, <1>16, <1>17, <1>18, <1>19, <1>20, <1>21, <1>22, <1>23, <1>24, <1>25,
    <1>26, <1>27, <1>28, <1>29, <1>30
    DEF Next, WorkStep, HaltStep, HaltBegins, ToolStep

ToolMoves == ToolAsks \/ ToolObservesAgain \/ ToolStep

\* The kinds of steps there are (Next).
LEMMA StepKinds ==
  ASSUME TypeOK, Rest, Status, Child, [Next]_vars
  PROVE  \/ ExecutionStep
         \/ Starts
         \/ \E h \in Halts : \/ Halting(h) \/ Answered(h) \/ Moved(h)
                             \/ GivesBack(h) \/ Closes(h)
         \/ ToolFrame /\ ToolMoves
         \/ \E t \in Tasks : CancelDone(t)
         \/ Write \/ JoinClass \/ Restart \/ Idle
<1>1. CASE WorkStep \/ \E t \in Tasks : ChildEnds(t)
  BY <1>1, WorkKinds
<1>2. CASE Launch \/ NextStep
  BY <1>2, StartKinds
<1>3. ASSUME NEW h \in Halts, Finish(h) \/ HaltStep(h)
      PROVE  Answered(h) \/ Moved(h) \/ GivesBack(h) \/ Closes(h)
  BY <1>3, HaltKinds
<1>4. ASSUME NEW h \in Halts, HaltBegins(h)
      PROVE  Halting(h)
  BY <1>4, HaltBeginKinds
<1>5. CASE ToolMoves
  BY <1>5, ToolKinds DEF ToolMoves
<1>6. CASE OtherTaskStarts \/ OtherTaskEnds \/ TeacherStops
  BY <1>6 DEF OtherTaskStarts, OtherTaskEnds, TeacherStops, Idle, child, outside
<1>7. CASE UNCHANGED vars
  BY <1>7 DEF vars, Idle, child, outside
<1> QED BY <1>1, <1>2, <1>3, <1>4, <1>5, <1>6, <1>7 DEF Next, ToolMoves

\* What the journal gives back is paused or unknown, if it is there.
LEMMA RestoredFacts ==
  ASSUME NEW l \in Lessons
  PROVE  \/ Restored(l) = NoLesson /\ (IsOver(l) \/ l.status = Absent)
         \/ /\ ~IsOver(l) /\ l.status # Absent
            /\ Restored(l).status \in {"paused", "unknown"}
            /\ Restored(l).status = "unknown" <=>
                 l.status = "unknown" \/ Unsettled(l) \/ l.child # 0
            /\ Restored(l).effect = l.effect /\ Restored(l).child = l.child
BY DEF Restored, Lessons

\* A member of the queue is a writer and its lesson.
LEMMA QueueFacts ==
  ASSUME TypeOK
  PROVE  /\ Len(writes) \in Nat
         /\ \A i \in 1 .. Len(writes) : writes[i] \in Writers \X Lessons
         /\ \A w, l : LET q == Append(writes, <<w, l>>)
                      IN /\ Len(q) = Len(writes) + 1
                         /\ q[Len(q)] = <<w, l>>
                         /\ \A i \in 1 .. Len(writes) : q[i] = writes[i]
         /\ writes # << >> =>
              /\ Head(writes) = writes[1] /\ 1 \in 1 .. Len(writes)
              /\ Len(Tail(writes)) = Len(writes) - 1
              /\ \A i \in 1 .. Len(Tail(writes)) : Tail(writes)[i] = writes[i + 1]
BY DEF TypeOK

\* The parts at rest stay so (Rest).
LEMMA RestStep ==
  ASSUME TypeOK, TypeOK', Rest, Status, Halted, Child, Queued, [Next]_vars
  PROVE  Rest'
<1>0. /\ NoWork.pc = "idle" /\ NoWork.aborted = FALSE /\ NoLesson.status = Absent
      /\ NoLesson.effect = "none" /\ NoLesson.child = 0
      /\ \A pc : At(pc) => work'.pc = pc /\ work'.aborted = work.aborted
  BY DEF NoWork, NoLesson, TypeOK, At
<1>1. CASE EndsBefore
  BY <1>1, <1>0 DEF EndsBefore, Ended, Failed, Pushed, Quiet, Frame, ChildFrame, Rest,
    Submitted, Absent
<1>2. CASE EndsInRun
  BY <1>2, <1>0 DEF EndsInRun, Ended, Failed, Pushed, Quiet, Frame, Cleanup, Rest,
    Submitted, Absent
<1>3. CASE Reads
  BY <1>3, <1>0 DEF Reads, Quiet, Frame, ChildFrame, Rest, Submitted, Absent
<1>4. CASE Saves
  BY <1>4, <1>0 DEF Saves, Pushed, Frame, ChildFrame, Rest, Submitted, Absent
<1>5. CASE Claims
  BY <1>5, <1>0 DEF Claims, Pushed, Frame, ChildFrame, Rest, Submitted, Absent
<1>6. CASE Runs
  BY <1>6, <1>0 DEF Runs, Pushed, Frame, ChildFrame, Rest, Submitted, Absent
<1>7. CASE Forgets
  BY <1>7, <1>0 DEF Forgets, Quiet, Rest, Submitted, Absent
<1>8. CASE Registers
  BY <1>8, <1>0 DEF Registers, Quiet, Frame, Rest, Submitted, Absent
<1>9. CASE Resolves
  BY <1>9, <1>0 DEF Resolves, Cleanup, Quiet, Frame, Rest, Submitted, Absent
<1>10. CASE Shows
  BY <1>10, <1>0 DEF Shows, Pushed, Frame, ChildFrame, Rest, Submitted, Absent
<1>11. CASE Completes
  BY <1>11, <1>0 DEF Completes, Pushed, Frame, ChildFrame, Rest, Submitted, Absent
<1>12. CASE Rests
  BY <1>12, <1>0 DEF Rests, Quiet, Frame, ChildFrame, Rest, Submitted, Absent
<1>13. CASE Starts
  BY <1>13, <1>0 DEF Starts, Started, Failed, Pushed, Frame, ChildFrame, Rest, Submitted,
    Absent
<1>14. ASSUME NEW h \in Halts, Halting(h) PROVE Rest'
  BY <1>14, <1>0 DEF Halting, Quiet, Rest, Submitted, Absent
<1>15. ASSUME NEW h \in Halts, Answered(h) PROVE Rest'
  BY <1>15, <1>0 DEF Answered, EffectOnly, store, Rest, Submitted, Absent
<1>16. ASSUME NEW h \in Halts, Moved(h) PROVE Rest'
  BY <1>16, <1>0 DEF Moved, Active, Returned, Started, Failed, Pushed, Quiet, HaltFrame,
    ChildFrame, Rest, Submitted, Absent
<1>17. ASSUME NEW h \in Halts, GivesBack(h) PROVE Rest'
  BY <1>17, <1>0 DEF GivesBack, Returned, Started, Failed, Pushed, Quiet, HaltFrame,
    ChildFrame, Rest, Submitted, Absent, Halted
<1>18. ASSUME NEW h \in Halts, Closes(h) PROVE Rest'
  BY <1>18, <1>0 DEF Closes, Pushed, HaltFrame, ChildFrame, Rest, Submitted, Absent
<1>19. CASE ToolFrame /\ ToolMoves
  BY <1>19, <1>0 DEF ToolFrame, EffectOnly, Pushed, Rest, Submitted, Absent
<1>20. ASSUME NEW t \in Tasks, CancelDone(t) PROVE Rest'
  BY <1>20, <1>0 DEF CancelDone, store, Rest, Submitted, Absent, outside
<1>21. CASE Write
  <2>1. journal'.status # Absent
    BY <1>21, QueueFacts DEF Write, Queued
  <2> QED BY <1>21, <2>1 DEF Write, child, outside, Rest
<1>22. CASE JoinClass
  <2>1. lesson' = Restored(journal) /\ work'.pc = "idle" /\ work' = NoWork /\ UNCHANGED journal /\ joined'
    BY <1>22, <1>0 DEF JoinClass, Persist, Rest
  <2>2. lesson'.status = Absent => lesson' = NoLesson
    BY <2>1, RestoredFacts DEF TypeOK, Absent
  <2> QED BY <2>1, <2>2 DEF Rest
<1>23. CASE Restart
  <2>1. lesson' = Restored(journal) /\ work'.pc = "idle" /\ work' = NoWork /\ UNCHANGED journal /\ joined'
    BY <1>23, <1>0 DEF Restart, Persist, Rest
  <2>2. lesson'.status = Absent => lesson' = NoLesson
    BY <2>1, RestoredFacts DEF TypeOK, Absent
  <2> QED BY <2>1, <2>2 DEF Rest
<1>24. CASE Idle
  BY <1>24, <1>0 DEF Idle, store, Rest, Submitted, Absent
<1> QED
  BY StepKinds, <1>1, <1>2, <1>3, <1>4, <1>5, <1>6, <1>7, <1>8, <1>9, <1>10, <1>11, <1>12,
    <1>13, <1>14, <1>15, <1>16, <1>17, <1>18, <1>19, <1>20, <1>21, <1>22, <1>23, <1>24 DEF
    ExecutionStep

\* The status keeps saying where execute is (Status).
LEMMA StatusStep ==
  ASSUME TypeOK, TypeOK', Rest, Status, Halted, Child, [Next]_vars
  PROVE  Status'
<1>0. /\ NoWork.pc = "idle" /\ NoWork.aborted = FALSE /\ NoLesson.status = Absent
      /\ NoLesson.effect = "none" /\ NoLesson.child = 0
      /\ \A pc : At(pc) => work'.pc = pc /\ work'.aborted = work.aborted
  BY DEF NoWork, NoLesson, TypeOK, At
<1>1. CASE EndsBefore
  BY <1>1, <1>0 DEF EndsBefore, Ended, Failed, Pushed, Quiet, Frame, ChildFrame, Status,
    Before, InRun, Submitted, Over, Absent
<1>2. CASE EndsInRun
  BY <1>2, <1>0 DEF EndsInRun, Ended, Failed, Pushed, Quiet, Frame, Cleanup, Status,
    Before, InRun, Submitted, Over, Absent
<1>3. CASE Reads
  BY <1>3, <1>0 DEF Reads, Quiet, Frame, ChildFrame, Status, Before, InRun, Submitted,
    Over, Absent
<1>4. CASE Saves
  BY <1>4, <1>0 DEF Saves, Pushed, Frame, ChildFrame, Status, Before, InRun, Submitted,
    Over, Absent
<1>5. CASE Claims
  BY <1>5, <1>0 DEF Claims, Pushed, Frame, ChildFrame, Status, Before, InRun, Submitted,
    Over, Absent
<1>6. CASE Runs
  BY <1>6, <1>0 DEF Runs, Pushed, Frame, ChildFrame, Status, Before, InRun, Submitted,
    Over, Absent
<1>7. CASE Forgets
  BY <1>7, <1>0 DEF Forgets, Quiet, Status, Before, InRun, Submitted, Over, Absent
<1>8. CASE Registers
  BY <1>8, <1>0 DEF Registers, Quiet, Frame, Status, Before, InRun, Submitted, Over,
    Absent
<1>9. CASE Resolves
  BY <1>9, <1>0 DEF Resolves, Cleanup, Quiet, Frame, Status, Before, InRun, Submitted,
    Over, Absent
<1>10. CASE Shows
  BY <1>10, <1>0 DEF Shows, Pushed, Frame, ChildFrame, Status, Before, InRun, Submitted,
    Over, Absent
<1>11. CASE Completes
  BY <1>11, <1>0 DEF Completes, Pushed, Frame, ChildFrame, Status, Before, InRun,
    Submitted, Over, Absent
<1>12. CASE Rests
  BY <1>12, <1>0 DEF Rests, Quiet, Frame, ChildFrame, Status, Before, InRun, Submitted,
    Over, Absent
<1>13. CASE Starts
  BY <1>13, <1>0 DEF Starts, Started, Failed, Pushed, Frame, ChildFrame, Status, Before,
    InRun, Submitted, Over, Absent, Rest
<1>14. ASSUME NEW h \in Halts, Halting(h) PROVE Status'
  BY <1>14, <1>0 DEF Halting, Quiet, Status, Before, InRun, Submitted, Over, Absent
<1>15. ASSUME NEW h \in Halts, Answered(h) PROVE Status'
  BY <1>15, <1>0 DEF Answered, EffectOnly, store, Status, Before, InRun, Submitted, Over,
    Absent
<1>16. ASSUME NEW h \in Halts, Moved(h) PROVE Status'
  BY <1>16, <1>0 DEF Moved, Active, Returned, Started, Failed, Pushed, Quiet, HaltFrame,
    ChildFrame, Status, Before, InRun, Submitted, Over, Absent, Rest
<1>17. ASSUME NEW h \in Halts, GivesBack(h) PROVE Status'
  BY <1>17, <1>0 DEF GivesBack, Returned, Started, Failed, Pushed, Quiet, HaltFrame,
    ChildFrame, Status, Before, InRun, Submitted, Over, Absent, Halted, Rest
<1>18. ASSUME NEW h \in Halts, Closes(h) PROVE Status'
  BY <1>18, <1>0 DEF Closes, Pushed, HaltFrame, ChildFrame, Status, Before, InRun,
    Submitted, Over, Absent, Rest
<1>19. CASE ToolFrame /\ ToolMoves
  BY <1>19, <1>0 DEF ToolFrame, EffectOnly, Pushed, Status, Before, InRun, Submitted,
    Over, Absent
<1>20. ASSUME NEW t \in Tasks, CancelDone(t) PROVE Status'
  BY <1>20, <1>0 DEF CancelDone, store, Status, Before, InRun, Submitted, Over, Absent,
    outside
<1>21. CASE Write
  BY <1>21, <1>0 DEF Write, child, Status, Before, InRun, Submitted, Over, Absent
<1>22. CASE JoinClass
  <2>1. lesson'.status \in {"paused", "unknown", Absent} /\ work'.pc = "idle"
    BY <1>22, <1>0, RestoredFacts DEF JoinClass, Persist, Rest, TypeOK
  <2> QED BY <2>1 DEF Status, Before, InRun, Submitted, Absent
<1>23. CASE Restart
  <2>1. lesson'.status \in {"paused", "unknown", Absent} /\ work'.pc = "idle"
    BY <1>23, <1>0, RestoredFacts DEF Restart, Persist, Rest, TypeOK
  <2> QED BY <2>1 DEF Status, Before, InRun, Submitted, Absent
<1>24. CASE Idle
  BY <1>24, <1>0 DEF Idle, store, Status, Before, InRun, Submitted, Over, Absent
<1> QED
  BY StepKinds, <1>1, <1>2, <1>3, <1>4, <1>5, <1>6, <1>7, <1>8, <1>9, <1>10, <1>11, <1>12,
    <1>13, <1>14, <1>15, <1>16, <1>17, <1>18, <1>19, <1>20, <1>21, <1>22, <1>23, <1>24 DEF
    ExecutionStep

\* Aborted executions are waited for (Halted).
LEMMA HaltedStep ==
  ASSUME TypeOK, TypeOK', Rest, Status, Halted, Child, [Next]_vars
  PROVE  Halted'
<1>0. /\ NoWork.pc = "idle" /\ NoWork.aborted = FALSE /\ NoLesson.status = Absent
      /\ NoLesson.effect = "none" /\ NoLesson.child = 0
      /\ \A pc : At(pc) => work'.pc = pc /\ work'.aborted = work.aborted
      /\ halts \in [Halts -> HaltStates] /\ NoHalt.pc = "idle"
  BY DEF NoHalt, NoWork, NoLesson, TypeOK, At
<1>1. CASE EndsBefore
  BY <1>1, <1>0 DEF EndsBefore, Ended, Failed, Pushed, Quiet, Frame, ChildFrame, Halted,
    Pending, Leaving
<1>2. CASE EndsInRun
  BY <1>2, <1>0 DEF EndsInRun, Submitted, Ended, Failed, Pushed, Quiet, Frame, Cleanup,
     Halted,
    Pending, Leaving
<1>3. CASE Reads
  BY <1>3, <1>0 DEF Reads, Submitted, Quiet, Frame, ChildFrame, Halted, Pending, Leaving
<1>4. CASE Saves
  BY <1>4, <1>0 DEF Saves, Pushed, Frame, ChildFrame, Halted, Pending, Leaving
<1>5. CASE Claims
  BY <1>5, <1>0 DEF Claims, Pushed, Frame, ChildFrame, Halted, Pending, Leaving
<1>6. CASE Runs
  BY <1>6, <1>0 DEF Runs, Pushed, Frame, ChildFrame, Halted, Pending, Leaving
<1>7. CASE Forgets
  BY <1>7, <1>0 DEF Forgets, Quiet, Halted, Pending, Leaving, Overtaken, HaltStates
<1>8. CASE Registers
  BY <1>8, <1>0 DEF Registers, Quiet, Frame, Halted, Pending, Leaving
<1>9. CASE Resolves
  BY <1>9, <1>0 DEF Resolves, Cleanup, Quiet, Frame, Halted, Pending, Leaving
<1>10. CASE Shows
  BY <1>10, <1>0 DEF Shows, Pushed, Frame, ChildFrame, Halted, Pending, Leaving
<1>11. CASE Completes
  BY <1>11, <1>0 DEF Completes, Pushed, Frame, ChildFrame, Halted, Pending, Leaving
<1>12. CASE Rests
  BY <1>12, <1>0 DEF Rests, Quiet, Frame, ChildFrame, Halted, Pending, Leaving
<1>13. CASE Starts
  BY <1>13, <1>0 DEF Starts, Started, Failed, Pushed, Frame, ChildFrame, Halted, Pending,
    Leaving, Rest
<1>14. ASSUME NEW h \in Halts, Halting(h) PROVE Halted'
  BY <1>14, <1>0 DEF Halting, Quiet, Halted, Pending, Leaving, HaltStates
<1>15. ASSUME NEW h \in Halts, Answered(h) PROVE Halted'
  BY <1>15, <1>0 DEF Answered, EffectOnly, store, Halted, Pending, Leaving, HaltStates
<1>16. ASSUME NEW h \in Halts, Moved(h) PROVE Halted'
  BY <1>16, <1>0 DEF Moved, Active, Returned, Started, Failed, Pushed, Quiet, HaltFrame,
    ChildFrame, Halted, Pending, Leaving, Rest, HaltStates, Target
<1>17. ASSUME NEW h \in Halts, GivesBack(h) PROVE Halted'
  BY <1>17, <1>0 DEF GivesBack, Returned, Started, Failed, Pushed, Quiet, HaltFrame,
    ChildFrame, Halted, Pending, Leaving, Rest, HaltStates
<1>18. ASSUME NEW h \in Halts, Closes(h) PROVE Halted'
  BY <1>18, <1>0 DEF Closes, Pushed, HaltFrame, ChildFrame, Halted, Pending, Leaving,
    Rest, HaltStates
<1>19. CASE ToolFrame /\ ToolMoves
  BY <1>19, <1>0 DEF ToolFrame, EffectOnly, Pushed, Halted, Pending, Leaving
<1>20. ASSUME NEW t \in Tasks, CancelDone(t) PROVE Halted'
  BY <1>20, <1>0 DEF CancelDone, store, Halted, Pending, Leaving, outside
<1>21. CASE Write
  BY <1>21, <1>0 DEF Write, child, Halted, Pending, Leaving
<1>22. CASE JoinClass
  BY <1>22, <1>0 DEF JoinClass, child, Halted, Pending, Leaving, Persist
<1>23. CASE Restart
  BY <1>23, <1>0 DEF Restart, Halted, Pending, Leaving
<1>24. CASE Idle
  BY <1>24, <1>0 DEF Idle, store, Halted, Pending, Leaving
<1> QED
  BY StepKinds, <1>1, <1>2, <1>3, <1>4, <1>5, <1>6, <1>7, <1>8, <1>9, <1>10, <1>11, <1>12,
    <1>13, <1>14, <1>15, <1>16, <1>17, <1>18, <1>19, <1>20, <1>21, <1>22, <1>23, <1>24 DEF
    ExecutionStep

\* The child is the one that is waited for (Child).
LEMMA ChildStep ==
  ASSUME TypeOK, TypeOK', Rest, Status, Halted, Child, [Next]_vars
  PROVE  Child'
<1>t. /\ halts \in [Halts -> HaltStates] /\ cancelling \in [Tasks -> Cancellations]
      /\ tool \in ToolStates /\ work \in [pc : WorkSteps, aborted : BOOLEAN, route : Routes]
  BY DEF TypeOK
<1>c. lesson.child # 0 => lesson.child \in Tasks
  <2>1. lesson.child \in 0 .. MaxAttempts
    BY DEF TypeOK, Lessons
  <2> QED BY <2>1, LessonBoundsAssumption DEF Tasks
<1>0. /\ NoWork.pc = "idle" /\ NoWork.aborted = FALSE /\ NoLesson.status = Absent
      /\ NoLesson.effect = "none" /\ NoLesson.child = 0
      /\ \A pc : At(pc) => work'.pc = pc /\ work'.aborted = work.aborted
      /\ halts \in [Halts -> HaltStates] /\ cancelling \in [Tasks -> Cancellations]
      /\ (lesson.child # 0 => lesson.child \in Tasks) /\ tool \in ToolStates
      /\ NoTool.live = FALSE
  BY <1>t, <1>c DEF NoTool, NoWork, NoLesson, TypeOK, At
<1>1. CASE EndsBefore
  BY <1>1, <1>0 DEF EndsBefore, Ended, Failed, Pushed, Quiet, Frame, ChildFrame, Child,
    InRun, Submitted, Before
<1>2. CASE EndsInRun
  BY <1>2, <1>0 DEF EndsInRun, Submitted, Ended, Failed, Pushed, Quiet, Frame, Cleanup,
    Child, InRun, Submitted, Before
<1>3. CASE Reads
  BY <1>3, <1>0 DEF Reads, Submitted, Quiet, Frame, ChildFrame, Child, InRun, Submitted,
    Before
<1>4. CASE Saves
  BY <1>4, <1>0 DEF Saves, Pushed, Frame, ChildFrame, Child, InRun, Submitted, Before
<1>5. CASE Claims
  BY <1>5, <1>0 DEF Claims, Pushed, Frame, ChildFrame, Child, InRun, Submitted, Before
<1>6. CASE Runs
  BY <1>6, <1>0 DEF Runs, Pushed, Frame, ChildFrame, Child, InRun, Submitted, Before
<1>7. CASE Forgets
  BY <1>7, <1>0 DEF Forgets, Quiet, Child, InRun, Submitted, Before
<1>8. CASE Registers
  BY <1>8, <1>0 DEF Registers, Quiet, Frame, Child, InRun, Submitted, Before
<1>9. CASE Resolves
  BY <1>9, <1>0 DEF Resolves, Cleanup, Quiet, Frame, Child, InRun, Submitted, Before
<1>10. CASE Shows
  BY <1>10, <1>0 DEF Shows, Pushed, Frame, ChildFrame, Child, InRun, Submitted, Before
<1>11. CASE Completes
  BY <1>11, <1>0 DEF Completes, Pushed, Frame, ChildFrame, Child, InRun, Submitted, Before
<1>12. CASE Rests
  BY <1>12, <1>0 DEF Rests, Quiet, Frame, ChildFrame, Child, InRun, Submitted, Before
<1>13. CASE Starts
  BY <1>13, <1>0 DEF Starts, Started, Failed, Pushed, Frame, ChildFrame, Child, InRun,
    Submitted, Before, Rest
<1>14. ASSUME NEW h \in Halts, Halting(h) PROVE Child'
  <2>1. /\ lesson' = lesson /\ waiting' = waiting /\ work'.pc = work.pc
        /\ work.pc # "idle" => work'.aborted
    BY <1>14, <1>0, <1>t DEF Halting, Quiet
  <2>2. CASE lesson.child = 0 \/ cancelling[lesson.child] \notin {"no", "rejected"}
    <3>1. UNCHANGED <<cancelling, round, tool>>
      BY <1>14, <2>2 DEF Halting, BeginCancel
    <3>2. round = "none"
      BY <2>2 DEF Child
    <3> QED BY <2>1, <3>1, <3>2 DEF Child, InRun, Submitted
  <2>3. CASE lesson.child # 0 /\ cancelling[lesson.child] \in {"no", "rejected"}
    <3>1. waiting = lesson.child => round' = "none" /\ ~tool'.live
      BY <1>14, <2>3, <1>t DEF Halting, BeginCancel, ToolStates
    <3>2. waiting # lesson.child => UNCHANGED <<round, tool>>
      BY <1>14, <2>3 DEF Halting, BeginCancel
    <3>3. round' = "none" /\ ~tool'.live
      BY <3>1, <3>2 DEF Child
    <3> QED BY <2>1, <3>3 DEF Child, InRun, Submitted
  <2> QED BY <2>2, <2>3
<1>15. ASSUME NEW h \in Halts, Answered(h) PROVE Child'
  BY <1>15, <1>0 DEF Answered, EffectOnly, store, Child, InRun, Submitted, Before,
    HaltStates
<1>16. ASSUME NEW h \in Halts, Moved(h) PROVE Child'
  BY <1>16, <1>0 DEF Moved, Active, Returned, Started, Failed, Pushed, Quiet, HaltFrame,
    ChildFrame, Child, InRun, Submitted, Before, Rest
<1>17. ASSUME NEW h \in Halts, GivesBack(h) PROVE Child'
  BY <1>17, <1>0 DEF GivesBack, Returned, Started, Failed, Pushed, Quiet, HaltFrame,
    ChildFrame, Child, InRun, Submitted, Before, Halted, Rest
<1>18. ASSUME NEW h \in Halts, Closes(h) PROVE Child'
  BY <1>18, <1>0 DEF Closes, Pushed, HaltFrame, ChildFrame, Child, InRun, Submitted,
    Before, Rest
<1>19. CASE ToolFrame /\ ToolMoves
  <2>1. /\ UNCHANGED <<work, waiting, cancelling>>
        /\ lesson'.child = lesson.child /\ lesson'.attempts = lesson.attempts
    BY <1>19 DEF ToolFrame, EffectOnly
  <2>2. round' # "none" => round # "none"
    BY <1>19 DEF ToolMoves, ToolStep, ToolAsks, ToolObservesAgain, ToolMarks,
       ToolDispatches,
      ToolReturns, ToolRecovers, ToolActed, child, Child
  <2>3. tool'.live => round' # "none" /\ tool'.task = waiting
    <3>1. CASE ToolAsks \/ ToolObservesAgain
      BY <3>1 DEF ToolAsks, ToolObservesAgain, child
    <3>2. CASE ToolMarks \/ ToolReturns \/ ToolRecovers
      BY <3>2, <1>0, <1>t DEF ToolMarks, ToolReturns, ToolRecovers, child, Child,
         ToolStates
    <3>3. CASE ToolDispatches \/ \E s \in {"confirmed", "none", "unknown"} : ToolActed(s)
      BY <3>3, <1>0, <1>t DEF ToolDispatches, ToolActed, Child, ToolStates
    <3> QED BY <1>19, <3>1, <3>2, <3>3 DEF ToolMoves, ToolStep
  <2> QED BY <2>1, <2>2, <2>3 DEF Child, InRun, Submitted
<1>20. ASSUME NEW t \in Tasks, CancelDone(t) PROVE Child'
  BY <1>20, <1>0 DEF CancelDone, store, Child, InRun, Submitted, Before, outside
<1>21. CASE Write
  BY <1>21, <1>0 DEF Write, child, Child, InRun, Submitted, Before
<1>22. CASE JoinClass
  BY <1>22, <1>0 DEF JoinClass, child, Child, InRun, Submitted, Before, Persist
<1>23. CASE Restart
  BY <1>23, <1>0 DEF Restart, Child, InRun, Submitted, Before
<1>24. CASE Idle
  BY <1>24, <1>0 DEF Idle, store, Child, InRun, Submitted, Before
<1> QED
  BY StepKinds, <1>1, <1>2, <1>3, <1>4, <1>5, <1>6, <1>7, <1>8, <1>9, <1>10, <1>11, <1>12,
    <1>13, <1>14, <1>15, <1>16, <1>17, <1>18, <1>19, <1>20, <1>21, <1>22, <1>23, <1>24 DEF
    ExecutionStep

(***************************************************************************)
(* The journal and its queue.                                              *)
(***************************************************************************)
\* A copy of the lesson is queued, or none.
QueueKept ==
  UNCHANGED journal /\ (UNCHANGED writes \/ \E w \in Writers : Pushed(w))

\* The lesson stays over, or a new one comes.
OverKept ==
  \/ lesson'.status \in Over \cup {Absent}
  \/ journal.status = Absent /\ writes = << >>
  \/ JoinClass \/ Restart

\* Every step queues a copy of the lesson at most, but for the disk and a restart.
LEMMA QueueMoves ==
  ASSUME TypeOK, Rest, Status, Child, [Next]_vars
  PROVE  QueueKept \/ Write \/ Restart
<1>0. "work" \in Writers /\ "tool" \in Writers /\ "activate" \in Writers /\ Halts \subseteq Writers
  BY DEF Writers
<1>1. CASE EndsBefore
  BY <1>1, <1>0 DEF EndsBefore, Ended, Failed, Quiet, Frame, ChildFrame, QueueKept
<1>2. CASE EndsInRun
  BY <1>2, <1>0 DEF EndsInRun, Submitted, Ended, Failed, Quiet, Frame, Cleanup,
    QueueKept
<1>3. CASE Reads
  BY <1>3, <1>0 DEF Reads, Submitted, Quiet, Frame, ChildFrame, QueueKept
<1>4. CASE Saves
  BY <1>4, <1>0 DEF Saves, Frame, ChildFrame, QueueKept
<1>5. CASE Claims
  BY <1>5, <1>0 DEF Claims, Frame, ChildFrame, QueueKept
<1>6. CASE Runs
  BY <1>6, <1>0 DEF Runs, Frame, ChildFrame, QueueKept
<1>7. CASE Forgets
  BY <1>7, <1>0 DEF Forgets, Quiet, QueueKept
<1>8. CASE Registers
  BY <1>8, <1>0 DEF Registers, Quiet, Frame, QueueKept
<1>9. CASE Resolves
  BY <1>9, <1>0 DEF Resolves, Cleanup, Quiet, Frame, QueueKept
<1>10. CASE Shows
  BY <1>10, <1>0 DEF Shows, Frame, ChildFrame, QueueKept
<1>11. CASE Completes
  BY <1>11, <1>0 DEF Completes, Frame, ChildFrame, QueueKept
<1>12. CASE Rests
  BY <1>12, <1>0 DEF Rests, Quiet, Frame, ChildFrame, QueueKept
<1>13. CASE Starts
  BY <1>13, <1>0 DEF Starts, Started, Failed, Frame, ChildFrame, QueueKept
<1>14. ASSUME NEW h \in Halts, Halting(h) PROVE QueueKept \/ Write \/ Restart
  BY <1>14, <1>0 DEF Halting, Quiet, QueueKept, store
<1>15. ASSUME NEW h \in Halts, Answered(h) PROVE QueueKept \/ Write \/ Restart
  BY <1>15, <1>0 DEF Answered, EffectOnly, store, QueueKept, store
<1>16. ASSUME NEW h \in Halts, Moved(h) PROVE QueueKept \/ Write \/ Restart
  BY <1>16, <1>0 DEF Moved, Active, Returned, Started, Failed, Quiet, HaltFrame,
    ChildFrame, QueueKept
<1>17. ASSUME NEW h \in Halts, GivesBack(h) PROVE QueueKept \/ Write \/ Restart
  BY <1>17, <1>0 DEF GivesBack, Returned, Started, Failed, Quiet, HaltFrame,
    ChildFrame, QueueKept
<1>18. ASSUME NEW h \in Halts, Closes(h) PROVE QueueKept \/ Write \/ Restart
  BY <1>18, <1>0 DEF Closes, HaltFrame, ChildFrame, QueueKept
<1>19. CASE ToolFrame /\ ToolMoves
  BY <1>19, <1>0 DEF ToolFrame, EffectOnly, QueueKept
<1>20. ASSUME NEW t \in Tasks, CancelDone(t) PROVE QueueKept \/ Write \/ Restart
  BY <1>20, <1>0 DEF CancelDone, store, QueueKept, outside
<1>21. CASE Write
  BY <1>21
<1>22. CASE JoinClass
  BY <1>22, <1>0 DEF JoinClass, Persist, Pushed, QueueKept
<1>23. CASE Restart
  BY <1>23
<1>24. CASE Idle
  BY <1>24, <1>0 DEF Idle, store, QueueKept
<1> QED
  BY StepKinds, <1>1, <1>2, <1>3, <1>4, <1>5, <1>6, <1>7, <1>8, <1>9, <1>10, <1>11, <1>12,
    <1>13, <1>14, <1>15, <1>16, <1>17, <1>18, <1>19, <1>20, <1>21, <1>22, <1>23, <1>24 DEF
    ExecutionStep

\* A lesson that is over is not revived, and a new one needs an empty journal.
LEMMA OverMoves ==
  ASSUME TypeOK, TypeOK', Rest, Status, Child, lesson.status \in Over \cup {Absent}, [Next]_vars
  PROVE  OverKept
<1>0. NoLesson.status = Absent
  BY DEF NoLesson
<1>1. CASE EndsBefore
  BY <1>1, <1>0 DEF EndsBefore, Ended, Failed, Pushed, Quiet, Frame, ChildFrame, OverKept,
    Rest, Status, Before, InRun, Submitted, Over, Absent
<1>2. CASE EndsInRun
  BY <1>2, <1>0 DEF EndsInRun, Submitted, Ended, Failed, Pushed, Quiet, Frame, Cleanup,
    OverKept, Rest, Status, Before, InRun, Submitted, Over, Absent
<1>3. CASE Reads
  BY <1>3, <1>0 DEF Reads, Submitted, Quiet, Frame, ChildFrame, OverKept, Rest, Status,
    Before, InRun, Submitted, Over, Absent
<1>4. CASE Saves
  BY <1>4, <1>0 DEF Saves, Pushed, Frame, ChildFrame, OverKept, Rest, Status, Before,
    InRun, Submitted, Over, Absent
<1>5. CASE Claims
  BY <1>5, <1>0 DEF Claims, Pushed, Frame, ChildFrame, OverKept, Rest, Status, Before,
    InRun, Submitted, Over, Absent
<1>6. CASE Runs
  BY <1>6, <1>0 DEF Runs, Pushed, Frame, ChildFrame, OverKept, Rest, Status, Before,
    InRun, Submitted, Over, Absent
<1>7. CASE Forgets
  BY <1>7, <1>0 DEF Forgets, Quiet, OverKept, Rest, Status, Before, InRun, Submitted,
    Over, Absent
<1>8. CASE Registers
  BY <1>8, <1>0 DEF Registers, Quiet, Frame, OverKept, Rest, Status, Before, InRun,
    Submitted, Over, Absent
<1>9. CASE Resolves
  BY <1>9, <1>0 DEF Resolves, Cleanup, Quiet, Frame, OverKept, Rest, Status, Before,
    InRun, Submitted, Over, Absent
<1>10. CASE Shows
  BY <1>10, <1>0 DEF Shows, Pushed, Frame, ChildFrame, OverKept, Rest, Status, Before,
    InRun, Submitted, Over, Absent
<1>11. CASE Completes
  BY <1>11, <1>0 DEF Completes, Pushed, Frame, ChildFrame, OverKept, Rest, Status, Before,
    InRun, Submitted, Over, Absent
<1>12. CASE Rests
  BY <1>12, <1>0 DEF Rests, Quiet, Frame, ChildFrame, OverKept, Rest, Status, Before,
    InRun, Submitted, Over, Absent
<1>13. CASE Starts
  BY <1>13, <1>0 DEF Starts, Started, Failed, Pushed, Frame, ChildFrame, OverKept, Rest,
    Status, Before, InRun, Submitted, Over, Absent
<1>14. ASSUME NEW h \in Halts, Halting(h) PROVE OverKept
  BY <1>14, <1>0 DEF Halting, Quiet, OverKept, Rest, Status, Before, InRun, Submitted,
    Over, Absent
<1>15. ASSUME NEW h \in Halts, Answered(h) PROVE OverKept
  BY <1>15, <1>0 DEF Answered, EffectOnly, store, OverKept, Rest, Status, Before, InRun,
    Submitted, Over, Absent
<1>16. ASSUME NEW h \in Halts, Moved(h) PROVE OverKept
  BY <1>16, <1>0 DEF Moved, Active, Returned, Started, Failed, Pushed, Quiet, HaltFrame,
    ChildFrame, OverKept, Rest, Status, Before, InRun, Submitted, Over, Absent, Active
<1>17. ASSUME NEW h \in Halts, GivesBack(h) PROVE OverKept
  BY <1>17, <1>0 DEF GivesBack, Returned, Started, Failed, Pushed, Quiet, HaltFrame,
    ChildFrame, OverKept, Rest, Status, Before, InRun, Submitted, Over, Absent
<1>18. ASSUME NEW h \in Halts, Closes(h) PROVE OverKept
  BY <1>18, <1>0 DEF Closes, Pushed, HaltFrame, ChildFrame, OverKept, Rest, Status,
    Before, InRun, Submitted, Over, Absent
<1>19. CASE ToolFrame /\ ToolMoves
  BY <1>19, <1>0 DEF ToolFrame, EffectOnly, Pushed, OverKept, Rest, Status, Before, InRun,
    Submitted, Over, Absent
<1>20. ASSUME NEW t \in Tasks, CancelDone(t) PROVE OverKept
  BY <1>20, <1>0 DEF CancelDone, store, OverKept, Rest, Status, Before, InRun, Submitted,
    Over, Absent, outside
<1>21. CASE Write
  BY <1>21, <1>0 DEF Write, child, OverKept, Rest, Status, Before, InRun, Submitted, Over,
    Absent
<1>22. CASE JoinClass
  BY <1>22 DEF OverKept
<1>23. CASE Restart
  BY <1>23 DEF OverKept
<1>24. CASE Idle
  BY <1>24, <1>0 DEF Idle, store, OverKept, Rest, Status, Before, InRun, Submitted, Over,
    Absent
<1> QED
  BY StepKinds, <1>1, <1>2, <1>3, <1>4, <1>5, <1>6, <1>7, <1>8, <1>9, <1>10, <1>11, <1>12,
    <1>13, <1>14, <1>15, <1>16, <1>17, <1>18, <1>19, <1>20, <1>21, <1>22, <1>23, <1>24 DEF
    ExecutionStep

\* A copy that is queued is the last of the queue, and the lesson as it is now.
LEMMA PushFacts ==
  ASSUME TypeOK, NEW w, Pushed(w)
  PROVE  /\ Len(writes) \in Nat /\ Len(writes') = Len(writes) + 1
         /\ writes'[Len(writes')] = <<w, lesson'>> /\ writes'[Len(writes')][2] = lesson'
         /\ \A i \in 1 .. Len(writes) : writes'[i] = writes[i]
         /\ \A i \in 1 .. Len(writes') : i \in 1 .. Len(writes) \/ i = Len(writes')
<1>1. writes' = Append(writes, <<w, lesson'>>) /\ Len(writes) \in Nat
  BY DEF Pushed, TypeOK
<1>2. Len(writes') = Len(writes) + 1 /\ writes'[Len(writes')] = <<w, lesson'>>
      /\ \A i \in 1 .. Len(writes) : writes'[i] = writes[i]
  BY <1>1, QueueFacts
<1> QED BY <1>1, <1>2

\* What the disk takes is the first of the queue, and the rest moves up.
LEMMA WriteFacts ==
  ASSUME TypeOK, Write
  PROVE  /\ journal' = writes[1][2] /\ 1 \in 1 .. Len(writes)
         /\ Len(writes) \in Nat /\ Len(writes') = Len(writes) - 1 /\ UNCHANGED lesson
         /\ \A i \in 1 .. Len(writes') :
              i + 1 \in 1 .. Len(writes) /\ writes'[i] = writes[i + 1]
<1>1. writes # << >> /\ journal' = Head(writes)[2] /\ writes' = Tail(writes) /\ UNCHANGED lesson
  BY DEF Write
<1>2. Len(writes) \in Nat
  BY DEF TypeOK
<1> QED BY <1>1, <1>2, QueueFacts

\* After a restart only what was restored is queued.
LEMMA RestartFacts ==
  ASSUME TypeOK, Restart
  PROVE  /\ UNCHANGED journal /\ lesson' = Restored(journal)
         /\ \/ writes' = << >> /\ Len(writes') = 0
            \/ /\ Len(writes') = 1 /\ writes'[1] = <<"activate", lesson'>>
               /\ writes'[1][2] = lesson' /\ lesson'.status # Absent
BY DEF Restart

\* Nothing is queued of no lesson (Persist).
LEMMA QueuedStep ==
  ASSUME TypeOK, Rest, Status, Child, Queued, [Next]_vars
  PROVE  Queued'
<1>1. CASE UNCHANGED writes
  BY <1>1 DEF Queued
<1>2. ASSUME NEW w \in Writers, Pushed(w) PROVE Queued'
  BY <1>2, PushFacts DEF Queued, Pushed
<1>3. CASE Write
  BY <1>3, WriteFacts DEF Queued
<1>4. CASE Restart
  BY <1>4, RestartFacts DEF Queued
<1> QED BY <1>1, <1>2, <1>3, <1>4, QueueMoves DEF QueueKept

\* What is over stays over (Persist, Write, Restored).
LEMMA OverStep ==
  ASSUME TypeOK, TypeOK', Rest, Status, Child, Queued, OverInOrder, [Next]_vars
  PROVE  OverInOrder'
<1>1. CASE QueueKept /\ ~JoinClass /\ ~Restart
  <2>1. IsOver(journal) \/ (\E i \in 1 .. Len(writes) : IsOver(writes[i][2])) =>
          lesson'.status \in Over \cup {Absent}
    <3>1. IsOver(journal) => journal.status # Absent
      BY DEF IsOver, Over, Absent
    <3>2. writes = << >> => ~\E i \in 1 .. Len(writes) : IsOver(writes[i][2])
      OBVIOUS
    <3> QED BY <1>1, <3>1, <3>2, OverMoves DEF OverInOrder, OverKept
  <2>2. CASE UNCHANGED writes
    BY <1>1, <2>1, <2>2 DEF QueueKept, OverInOrder, IsOver
  <2>3. ASSUME NEW w \in Writers, Pushed(w) PROVE OverInOrder'
    <3>1. lesson'.status \in Over \cup {Absent} => IsOver(lesson')
      BY <2>3 DEF Pushed, IsOver
    <3> QED BY <1>1, <2>1, <2>3, <3>1, PushFacts DEF QueueKept, OverInOrder, IsOver
  <2> QED BY <1>1, <2>2, <2>3 DEF QueueKept
<1>2. CASE Write
  BY <1>2, WriteFacts DEF OverInOrder, IsOver
<1>3. CASE JoinClass
  <2>1. /\ writes = << >> /\ lesson' = Restored(journal) /\ UNCHANGED journal
        /\ writes' = << >> \/ Pushed("activate")
    BY <1>3 DEF JoinClass, Persist, Pushed
  <2>2. IsOver(journal) => lesson'.status = Absent
    BY <2>1 DEF Restored, NoLesson
  <2>3. lesson'.status \notin Over
    BY <2>1, RestoredFacts DEF TypeOK, Over, Absent, NoLesson
  <2> QED BY <2>1, <2>2, <2>3, PushFacts DEF OverInOrder, IsOver, Pushed
<1>4. CASE Restart
  <2>1. IsOver(journal) => lesson'.status = Absent
    BY <1>4, RestartFacts DEF Restored, NoLesson
  <2> QED BY <1>4, <2>1, RestartFacts DEF OverInOrder, IsOver
<1> QED BY <1>1, <1>2, <1>3, <1>4, QueueMoves


\* Where a run comes from.
RunMoves ==
  /\ work'.pc = "running" => work.pc = "running" \/ Pushed("work")
  /\ work'.pc \in InRun \ {"running"} =>
       \/ work.pc \in InRun \ {"running"}
       \/ work.pc = "running" /\ Written("work") /\ UNCHANGED <<journal, writes>>

\* A run begins when its lesson is queued, and goes on when that is on the disk.
LEMMA RunPlaces ==
  ASSUME TypeOK, TypeOK', Rest, Status, Child, [Next]_vars
  PROVE  RunMoves
<1>0. /\ NoWork.pc = "idle" /\ NoWork.aborted = FALSE /\ NoLesson.status = Absent
      /\ NoLesson.effect = "none" /\ NoLesson.child = 0
      /\ \A pc : At(pc) => work'.pc = pc /\ work'.aborted = work.aborted
  BY DEF NoWork, NoLesson, TypeOK, At
<1>1. CASE EndsBefore
  BY <1>1, <1>0 DEF EndsBefore, Ended, Failed, Pushed, Quiet, Frame, ChildFrame, RunMoves,
    InRun, Submitted
<1>2. CASE EndsInRun
  BY <1>2, <1>0 DEF EndsInRun, Submitted, Ended, Failed, Pushed, Quiet, Frame, Cleanup,
    RunMoves, InRun, Submitted
<1>3. CASE Reads
  BY <1>3, <1>0 DEF Reads, Submitted, Quiet, Frame, ChildFrame, RunMoves, InRun, Submitted
<1>4. CASE Saves
  BY <1>4, <1>0 DEF Saves, Pushed, Frame, ChildFrame, RunMoves, InRun, Submitted
<1>5. CASE Claims
  BY <1>5, <1>0 DEF Claims, Pushed, Frame, ChildFrame, RunMoves, InRun, Submitted
<1>6. CASE Runs
  BY <1>6, <1>0 DEF Runs, Pushed, Frame, ChildFrame, RunMoves, InRun, Submitted
<1>7. CASE Forgets
  BY <1>7, <1>0 DEF Forgets, Quiet, RunMoves, InRun, Submitted
<1>8. CASE Registers
  BY <1>8, <1>0 DEF Registers, Quiet, Frame, RunMoves, InRun, Submitted
<1>9. CASE Resolves
  BY <1>9, <1>0 DEF Resolves, Cleanup, Quiet, Frame, RunMoves, InRun, Submitted
<1>10. CASE Shows
  BY <1>10, <1>0 DEF Shows, Pushed, Frame, ChildFrame, RunMoves, InRun, Submitted
<1>11. CASE Completes
  BY <1>11, <1>0 DEF Completes, Pushed, Frame, ChildFrame, RunMoves, InRun, Submitted
<1>12. CASE Rests
  BY <1>12, <1>0 DEF Rests, Quiet, Frame, ChildFrame, RunMoves, InRun, Submitted
<1>13. CASE Starts
  BY <1>13, <1>0 DEF Starts, Started, Failed, Pushed, Frame, ChildFrame, RunMoves, InRun,
    Submitted
<1>14. ASSUME NEW h \in Halts, Halting(h) PROVE RunMoves
  BY <1>14, <1>0 DEF Halting, Quiet, RunMoves, InRun, Submitted, store
<1>15. ASSUME NEW h \in Halts, Answered(h) PROVE RunMoves
  BY <1>15, <1>0 DEF Answered, EffectOnly, store, RunMoves, InRun, Submitted
<1>16. ASSUME NEW h \in Halts, Moved(h) PROVE RunMoves
  BY <1>16, <1>0 DEF Moved, Active, Returned, Started, Failed, Pushed, Quiet, HaltFrame,
    ChildFrame, RunMoves, InRun, Submitted
<1>17. ASSUME NEW h \in Halts, GivesBack(h) PROVE RunMoves
  BY <1>17, <1>0 DEF GivesBack, Returned, Started, Failed, Pushed, Quiet, HaltFrame,
    ChildFrame, RunMoves, InRun, Submitted
<1>18. ASSUME NEW h \in Halts, Closes(h) PROVE RunMoves
  BY <1>18, <1>0 DEF Closes, Pushed, HaltFrame, ChildFrame, RunMoves, InRun, Submitted
<1>19. CASE ToolFrame /\ ToolMoves
  BY <1>19, <1>0 DEF ToolFrame, EffectOnly, Pushed, RunMoves, InRun, Submitted
<1>20. ASSUME NEW t \in Tasks, CancelDone(t) PROVE RunMoves
  BY <1>20, <1>0 DEF CancelDone, store, RunMoves, InRun, Submitted, outside
<1>21. CASE Write
  BY <1>21, <1>0 DEF Write, child, RunMoves, InRun, Submitted
<1>22. CASE JoinClass
  BY <1>22, <1>0 DEF JoinClass, child, RunMoves, InRun, Submitted, Persist
<1>23. CASE Restart
  BY <1>23, <1>0 DEF Restart, RunMoves, InRun, Submitted
<1>24. CASE Idle
  BY <1>24, <1>0 DEF Idle, store, RunMoves, InRun, Submitted, store
<1> QED
  BY StepKinds, <1>1, <1>2, <1>3, <1>4, <1>5, <1>6, <1>7, <1>8, <1>9, <1>10, <1>11, <1>12,
    <1>13, <1>14, <1>15, <1>16, <1>17, <1>18, <1>19, <1>20, <1>21, <1>22, <1>23, <1>24 DEF
    ExecutionStep


\* A child that the disk and the queue name is not lost from them.
LEMMA NamesStay ==
  ASSUME TypeOK, QueueKept \/ Write, lesson'.child # 0
  PROVE  /\ NamesChild => NamesChild'
         /\ WillNameChild => WillNameChild'
<1>1. CASE UNCHANGED <<journal, writes>>
  BY <1>1 DEF NamesChild, WillNameChild
<1>2. ASSUME UNCHANGED journal, NEW w \in Writers, Pushed(w)
      PROVE  /\ NamesChild => NamesChild'
             /\ WillNameChild => WillNameChild'
  <2>1. NamesChild => NamesChild'
    BY <1>2, PushFacts DEF NamesChild
  <2>2. ASSUME NEW i \in 1 .. Len(writes), writes[i][1] = "work",
               \A j \in i .. Len(writes) : writes[j][2].child # 0
        PROVE  WillNameChild'
    <3>1. i \in 1 .. Len(writes') /\ writes'[i][1] = "work"
      BY <1>2, <2>2, PushFacts
    <3>2. \A j \in i .. Len(writes') : writes'[j][2].child # 0
      BY <1>2, <2>2, PushFacts
    <3> QED BY <3>1, <3>2 DEF WillNameChild
  <2> QED BY <2>1, <2>2 DEF WillNameChild
<1>3. CASE Write
  <2>1. NamesChild => NamesChild'
    BY <1>3, WriteFacts DEF NamesChild
  <2>2. ASSUME NEW i \in 1 .. Len(writes), writes[i][1] = "work",
               \A j \in i .. Len(writes) : writes[j][2].child # 0
        PROVE  WillNameChild'
    <3>1. CASE i = 1
      BY <1>3, <2>2, <3>1, WriteFacts DEF WillNameChild, NamesChild
    <3>2. CASE i # 1
      <4>1. i - 1 \in 1 .. Len(writes') /\ writes'[i - 1][1] = "work"
        BY <1>3, <2>2, <3>2, WriteFacts
      <4>2. \A j \in i - 1 .. Len(writes') : writes'[j][2].child # 0
        BY <1>3, <2>2, <3>2, WriteFacts
      <4> QED BY <4>1, <4>2 DEF WillNameChild
    <3> QED BY <3>1, <3>2
  <2> QED BY <2>1, <2>2 DEF WillNameChild
<1> QED BY <1>1, <1>2, <1>3 DEF QueueKept

\* The disk and the queue name the child of a run (Persist, Written).
LEMMA ChildSavedStep ==
  ASSUME TypeOK, TypeOK', Rest, Status, Child, Child', ChildSaved, [Next]_vars
  PROVE  ChildSaved'
<1>1. SUFFICES ASSUME work'.pc \in InRun PROVE ChildSaved'
  BY DEF ChildSaved, InRun
<1>2. RunMoves
  BY RunPlaces
<1>3. lesson'.child # 0
  BY <1>1 DEF Child
<1>4. QueueKept \/ Write
  <2>1. ~Restart
    BY <1>1 DEF Restart, NoWork, InRun, Submitted
  <2> QED BY <2>1, QueueMoves
<1>5. CASE work'.pc = "running"
  <2>1. CASE work.pc = "running"
    BY <1>3, <1>4, <1>5, <2>1, NamesStay DEF ChildSaved, InRun
  <2>2. CASE Pushed("work")
    BY <1>3, <1>5, <2>2, PushFacts DEF ChildSaved, WillNameChild
  <2> QED BY <1>2, <1>5, <2>1, <2>2 DEF RunMoves
<1>6. CASE work'.pc # "running"
  <2>1. CASE work.pc \in InRun \ {"running"}
    BY <1>3, <1>4, <1>6, <2>1, NamesStay DEF ChildSaved
  <2>2. CASE work.pc = "running" /\ Written("work") /\ UNCHANGED <<journal, writes>>
    BY <1>6, <2>2 DEF ChildSaved, WillNameChild, Written, NamesChild
  <2> QED BY <1>1, <1>2, <1>6, <2>1, <2>2 DEF RunMoves
<1> QED BY <1>5, <1>6

\* No run begins beside a halt that awaits a child, until one does (StartRun).
LEMMA AloneStep ==
  ASSUME TypeOK, TypeOK', Rest, Status, Halted, Child, Child', Alone, [Next]_vars
  PROVE  Alone'
<1>t. /\ halts \in [Halts -> HaltStates] /\ cancelling \in [Tasks -> Cancellations]
      /\ tool \in ToolStates /\ work \in [pc : WorkSteps, aborted : BOOLEAN, route : Routes]
  BY DEF TypeOK
<1>0. /\ NoWork.pc = "idle" /\ NoWork.aborted = FALSE /\ NoLesson.status = Absent
      /\ NoLesson.effect = "none" /\ NoLesson.child = 0
      /\ \A pc : At(pc) => work'.pc = pc /\ work'.aborted = work.aborted
      /\ halts \in [Halts -> HaltStates] /\ tool \in ToolStates
      /\ NoTool.live = FALSE /\ NoHalt.pc = "idle"
  BY <1>t DEF NoTool, NoHalt, NoWork, NoLesson, TypeOK, At
<1>1. CASE EndsBefore
  BY <1>1, <1>0 DEF EndsBefore, Ended, Failed, Pushed, Quiet, Frame, ChildFrame, Alone,
    AwaitsChild, InRun, Submitted, Child, history
<1>2. CASE EndsInRun
  BY <1>2, <1>0 DEF EndsInRun, Submitted, Ended, Failed, Pushed, Quiet, Frame, Cleanup,
    Alone, AwaitsChild, InRun, Submitted, Child, history
<1>3. CASE Reads
  BY <1>3, <1>0 DEF Reads, Submitted, Quiet, Frame, ChildFrame, Alone, AwaitsChild, InRun,
    Submitted, Child, history
<1>4. CASE Saves
  BY <1>4, <1>0 DEF Saves, Pushed, Frame, ChildFrame, Alone, AwaitsChild, InRun,
    Submitted, Child, history
<1>5. CASE Claims
  BY <1>5, <1>0 DEF Claims, Pushed, Frame, ChildFrame, Alone, AwaitsChild, InRun,
    Submitted, Child, history
<1>6. CASE Runs
  BY <1>6, <1>0 DEF Runs, Pushed, Frame, ChildFrame, Alone, AwaitsChild, InRun, Submitted,
    Child, history
<1>7. CASE Forgets
  <2>1. CASE AwaitsChild
    BY <1>7, <2>1 DEF Forgets, Alone
  <2>2. CASE ~AwaitsChild
    <3>1. Overtaken(lesson.child) = halts
      BY <2>2, <1>0 DEF Overtaken, AwaitsChild
    <3> QED BY <1>7, <2>2, <3>1, <1>0 DEF Forgets, Quiet, Alone, AwaitsChild, Child, Submitted
  <2> QED BY <2>1, <2>2
<1>8. CASE Registers
  BY <1>8, <1>0 DEF Registers, Quiet, Frame, Alone, AwaitsChild, InRun, Submitted, Child,
    history
<1>9. CASE Resolves
  BY <1>9, <1>0 DEF Resolves, Cleanup, Quiet, Frame, Alone, AwaitsChild, InRun, Submitted,
    Child, history
<1>10. CASE Shows
  BY <1>10, <1>0 DEF Shows, Pushed, Frame, ChildFrame, Alone, AwaitsChild, InRun,
    Submitted, Child, history
<1>11. CASE Completes
  BY <1>11, <1>0 DEF Completes, Pushed, Frame, ChildFrame, Alone, AwaitsChild, InRun,
    Submitted, Child, history
<1>12. CASE Rests
  BY <1>12, <1>0 DEF Rests, Quiet, Frame, ChildFrame, Alone, AwaitsChild, InRun,
    Submitted, Child, history
<1>13. CASE Starts
  BY <1>13, <1>0 DEF Starts, Started, Failed, Pushed, Frame, ChildFrame, Alone,
    AwaitsChild, InRun, Submitted, Child, history
<1>14. ASSUME NEW h \in Halts, Halting(h) PROVE Alone'
  <2>1. /\ UNCHANGED <<lesson, overlap>> /\ work'.pc = work.pc
        /\ work.pc # "idle" => work'.aborted
    BY <1>14, <1>t DEF Halting, Quiet, history
  <2>2. \A g \in Halts : halts'[g].pc \in {"overtaken", "unsure"} =>
                           halts[g].pc \in {"overtaken", "unsure"}
    BY <1>14, <1>0 DEF Halting
  <2>3. tool'.live => ~work'.aborted
    BY DEF Child
  <2>4. tool'.pc = "marking" /\ tool'.live => work'.pc # "idle"
    BY DEF Child, Submitted
  <2> QED BY <2>1, <2>2, <2>3, <2>4 DEF Alone, AwaitsChild, InRun, Submitted
<1>15. ASSUME NEW h \in Halts, Answered(h) PROVE Alone'
  BY <1>15, <1>0 DEF Answered, EffectOnly, store, Alone, AwaitsChild, InRun, Submitted,
    Child, history, HaltStates
<1>16. ASSUME NEW h \in Halts, Moved(h) PROVE Alone'
  <2>1. work.pc = "idle" /\ UNCHANGED <<tool, round, waiting, overlap>> /\ ~tool.live
    BY <1>16 DEF Moved, HaltFrame, ChildFrame, history, Child, Submitted
  <2>2. \/ halts' = [halts EXCEPT ![h] = NoHalt]
        \/ halts' = [halts EXCEPT ![h].pc = "saving"]
    BY <1>16 DEF Moved
  <2>3. work'.pc \in {"idle", "preparing", "saving"}
    BY <1>0, <1>16, <2>1 DEF Moved, Returned, Started, Failed, Quiet
  <2>4. \A g \in Halts : halts'[g].pc \in {"overtaken", "unsure"} =>
                           halts[g].pc \in {"overtaken", "unsure"}
    BY <1>0, <2>2 DEF HaltStates
  <2> QED BY <2>1, <2>3, <2>4 DEF Alone, InRun, Submitted
<1>17. ASSUME NEW h \in Halts, GivesBack(h) PROVE Alone'
  BY <1>17, <1>0 DEF GivesBack, Returned, Started, Failed, Pushed, Quiet, HaltFrame,
    ChildFrame, Alone, AwaitsChild, InRun, Submitted, Child, history
<1>18. ASSUME NEW h \in Halts, Closes(h) PROVE Alone'
  BY <1>18, <1>0 DEF Closes, Pushed, HaltFrame, ChildFrame, Alone, AwaitsChild, InRun,
    Submitted, Child, history
<1>19. CASE ToolFrame /\ ToolMoves
  <2>1. UNCHANGED <<work, halts, overlap>>
    BY <1>19 DEF ToolFrame
  <2>2. CASE ToolMarks
    <3>1. \A e \in {"dispatching"} : [lesson EXCEPT !.effect = e].effect = e
      BY DEF TypeOK, Lessons
    <3> QED BY <1>0, <2>1, <2>2, <3>1 DEF ToolMarks, Alone, AwaitsChild, Persist
  <2>3. CASE ToolAsks \/ ToolObservesAgain
    BY <2>1, <2>3 DEF ToolAsks, ToolObservesAgain, Alone, AwaitsChild
  <2>4. CASE ToolReturns \/ ToolRecovers \/ ToolDispatches
    BY <1>0, <2>1, <2>4
      DEF ToolReturns, ToolRecovers, ToolDispatches, ToolStates, Alone, AwaitsChild
  <2>5. ASSUME NEW s \in {"confirmed", "none", "unknown"}, ToolActed(s) PROVE Alone'
    BY <1>0, <2>1, <2>5 DEF ToolActed, ToolStates, Alone, AwaitsChild
  <2> QED BY <1>19, <2>2, <2>3, <2>4, <2>5 DEF ToolMoves, ToolStep
<1>20. ASSUME NEW t \in Tasks, CancelDone(t) PROVE Alone'
  BY <1>20, <1>0 DEF CancelDone, store, Alone, AwaitsChild, InRun, Submitted, Child,
    history, outside
<1>21. CASE Write
  BY <1>21, <1>0 DEF Write, child, Alone, AwaitsChild, InRun, Submitted, Child, history
<1>22. CASE JoinClass
  BY <1>22, <1>0 DEF JoinClass, child, Alone, AwaitsChild, InRun, Submitted, Child,
    history, Persist
<1>23. CASE Restart
  BY <1>23, <1>0 DEF Restart, Alone, AwaitsChild, InRun, Submitted, Child, history
<1>24. CASE Idle
  BY <1>24, <1>0 DEF Idle, store, Alone, AwaitsChild, InRun, Submitted, Child, history
<1> QED
  BY StepKinds, <1>1, <1>2, <1>3, <1>4, <1>5, <1>6, <1>7, <1>8, <1>9, <1>10, <1>11, <1>12,
    <1>13, <1>14, <1>15, <1>16, <1>17, <1>18, <1>19, <1>20, <1>21, <1>22, <1>23, <1>24 DEF
    ExecutionStep

(***************************************************************************)
(* A lesson that is shown as running, and the tools' authority.            *)
(***************************************************************************)
\* A lesson that is shown as running has an execution, or a halt (RunningHasWork).
LEMMA WorkStaysStep ==
  ASSUME TypeOK, TypeOK', Rest, Status, Halted, Child, RunningHasWork, [Next]_vars
  PROVE  RunningHasWork'
<1>0. /\ NoWork.pc = "idle" /\ NoWork.aborted = FALSE /\ NoLesson.status = Absent
      /\ NoLesson.effect = "none" /\ NoLesson.child = 0
      /\ \A pc : At(pc) => work'.pc = pc /\ work'.aborted = work.aborted
      /\ halts \in [Halts -> HaltStates] /\ tool \in ToolStates
      /\ NoHalt.pc = "idle"
  BY DEF NoHalt, NoWork, NoLesson, TypeOK, At
<1>1. CASE EndsBefore
  <2>1. UNCHANGED halts /\ (work.aborted \/ lesson'.status \notin {"preparing", "running"})
    BY <1>1 DEF EndsBefore, Ended, Failed, Frame, Pushed
  <2> QED BY <2>1 DEF RunningHasWork, Halted, Pending
<1>2. CASE EndsInRun
  <2>1. UNCHANGED halts /\ (work.aborted \/ lesson'.status \notin {"preparing", "running"})
    BY <1>2 DEF EndsInRun, Ended, Failed, Frame, Pushed
  <2> QED BY <2>1 DEF RunningHasWork, Halted, Pending
<1>3. CASE Reads
  BY <1>3, <1>0 DEF Reads, Submitted, Quiet, Frame, ChildFrame, RunningHasWork, Pending
<1>4. CASE Saves
  BY <1>4, <1>0 DEF Saves, Pushed, Frame, ChildFrame, RunningHasWork, Pending
<1>5. CASE Claims
  BY <1>5, <1>0 DEF Claims, Pushed, Frame, ChildFrame, RunningHasWork, Pending
<1>6. CASE Runs
  BY <1>6, <1>0 DEF Runs, Pushed, Frame, ChildFrame, RunningHasWork, Pending
<1>7. CASE Forgets
  BY <1>7, <1>0 DEF Forgets, RunningHasWork
<1>8. CASE Registers
  BY <1>8, <1>0 DEF Registers, Quiet, Frame, RunningHasWork, Pending
<1>9. CASE Resolves
  BY <1>9, <1>0 DEF Resolves, Cleanup, Quiet, Frame, RunningHasWork, Pending
<1>10. CASE Shows
  BY <1>10, <1>0 DEF Shows, Pushed, Frame, ChildFrame, RunningHasWork, Pending
<1>11. CASE Completes
  BY <1>11, <1>0 DEF Completes, Pushed, Frame, ChildFrame, RunningHasWork, Pending
<1>12. CASE Rests
  <2>1. lesson'.status \notin {"preparing", "running"}
    BY <1>12 DEF Rests, Quiet, Status
  <2> QED BY <2>1 DEF RunningHasWork
<1>13. CASE Starts
  BY <1>13, <1>0 DEF Starts, Started, Failed, Pushed, Frame, ChildFrame, RunningHasWork,
    Pending
<1>14. ASSUME NEW h \in Halts, Halting(h) PROVE RunningHasWork'
  BY <1>14, <1>0 DEF Halting, Quiet, RunningHasWork, Pending, HaltStates
<1>15. ASSUME NEW h \in Halts, Answered(h) PROVE RunningHasWork'
  BY <1>15, <1>0 DEF Answered, EffectOnly, store, RunningHasWork, Pending, HaltStates
<1>16. ASSUME NEW h \in Halts, Moved(h) PROVE RunningHasWork'
  <2>1. CASE ~Active
    <3>1. lesson.status \in Over \cup {Absent} /\ work.pc = "idle"
      BY <2>1, <1>16 DEF Active, Moved
    <3>2. Returned(h)
      BY <2>1, <1>16 DEF Moved
    <3>3. lesson'.status \notin {"preparing", "running"}
      BY <1>0, <3>1, <3>2 DEF Returned, Started, Failed, Quiet, Over, Absent
    <3> QED BY <3>3 DEF RunningHasWork
  <2>2. CASE Active
    <3>1. Target(h) \in {"stopped", "unknown", "paused"}
      BY <1>16 DEF Moved, Target, Halted, Pending
    <3>2. lesson.status \in {"preparing", "running"} => MayMove(lesson.status, Target(h))
      <4>1. \A s \in {"preparing", "running"}, d \in {"stopped", "unknown", "paused"} :
              MayMove(s, d)
        BY DEF MayMove, Successors, Statuses, Over
      <4> QED BY <3>1, <4>1
    <3>3. lesson'.status \notin {"preparing", "running"}
      BY <2>2, <3>1, <3>2, <1>16 DEF Moved
    <3> QED BY <3>3 DEF RunningHasWork
  <2> QED BY <2>1, <2>2
<1>17. ASSUME NEW h \in Halts, GivesBack(h) PROVE RunningHasWork'
  <2>1. halts[h].pc = "saving" /\ halts' = [halts EXCEPT ![h] = NoHalt] /\ Returned(h)
    BY <1>17 DEF GivesBack
  <2>2. \A g \in Halts : Pending(g) => Pending(g)'
    BY <1>0, <2>1 DEF Pending
  <2>3. CASE Quiet /\ UNCHANGED work
    BY <2>2, <2>3 DEF Quiet, RunningHasWork, Pending
  <2>4. CASE lesson'.status \notin {"preparing", "running"} \/ work'.pc # "idle"
    BY <2>4 DEF RunningHasWork
  <2> QED BY <1>0, <2>1, <2>3, <2>4 DEF Returned, Started, Failed, Pushed, Absent
<1>18. ASSUME NEW h \in Halts, Closes(h) PROVE RunningHasWork'
  BY <1>18, <1>0 DEF Closes, Pushed, HaltFrame, ChildFrame, RunningHasWork, Pending
<1>19. CASE ToolFrame /\ ToolMoves
  BY <1>19, <1>0 DEF ToolFrame, EffectOnly, Pushed, RunningHasWork, Pending
<1>20. ASSUME NEW t \in Tasks, CancelDone(t) PROVE RunningHasWork'
  BY <1>20, <1>0 DEF CancelDone, store, RunningHasWork, Pending, outside
<1>21. CASE Write
  BY <1>21, <1>0 DEF Write, child, RunningHasWork, Pending
<1>22. CASE JoinClass
  <2>1. lesson'.status \in {"paused", "unknown", Absent}
    BY <1>22, <1>0, RestoredFacts DEF JoinClass, Persist, TypeOK
  <2> QED BY <2>1 DEF RunningHasWork, Absent
<1>23. CASE Restart
  <2>1. lesson'.status \in {"paused", "unknown", Absent}
    BY <1>23, <1>0, RestoredFacts DEF Restart, TypeOK
  <2> QED BY <2>1 DEF RunningHasWork, Absent
<1>24. CASE Idle
  BY <1>24, <1>0 DEF Idle, store, RunningHasWork, Pending
<1> QED
  BY StepKinds, <1>1, <1>2, <1>3, <1>4, <1>5, <1>6, <1>7, <1>8, <1>9, <1>10, <1>11, <1>12,
    <1>13, <1>14, <1>15, <1>16, <1>17, <1>18, <1>19, <1>20, <1>21, <1>22, <1>23, <1>24 DEF
    ExecutionStep


\* No action is dispatched, and none is learned about.
DoubtKept == /\ UNCHANGED <<doubt, revoked>>
             /\ tool'.pc = "recovering" => tool.pc = "recovering"
OnlyTools == DoubtKept \/ ToolMoves

\* Only the tools dispatch actions and learn what became of them.
LEMMA DoubtMoves ==
  ASSUME TypeOK, Rest, Status, Child, [Next]_vars
  PROVE  OnlyTools
<1>0. NoTool.pc = "idle" /\ [tool EXCEPT !.live = FALSE].pc = tool.pc
  BY DEF NoTool, TypeOK, ToolStates
<1>1. CASE EndsBefore
  BY <1>1, <1>0 DEF EndsBefore, Ended, Failed, Pushed, Quiet, Frame, ChildFrame,
    OnlyTools, DoubtKept, history
<1>2. CASE EndsInRun
  BY <1>2, <1>0 DEF EndsInRun, Submitted, Ended, Failed, Pushed, Quiet, Frame, Cleanup,
    OnlyTools, DoubtKept, history
<1>3. CASE Reads
  BY <1>3, <1>0 DEF Reads, Submitted, Quiet, Frame, ChildFrame, OnlyTools, DoubtKept,
    history
<1>4. CASE Saves
  BY <1>4, <1>0 DEF Saves, Pushed, Frame, ChildFrame, OnlyTools, DoubtKept, history
<1>5. CASE Claims
  BY <1>5, <1>0 DEF Claims, Pushed, Frame, ChildFrame, OnlyTools, DoubtKept, history
<1>6. CASE Runs
  BY <1>6, <1>0 DEF Runs, Pushed, Frame, ChildFrame, OnlyTools, DoubtKept, history
<1>7. CASE Forgets
  BY <1>7, <1>0 DEF Forgets, Quiet, OnlyTools, DoubtKept, history
<1>8. CASE Registers
  BY <1>8, <1>0 DEF Registers, Quiet, Frame, OnlyTools, DoubtKept, history
<1>9. CASE Resolves
  BY <1>9, <1>0 DEF Resolves, Cleanup, Quiet, Frame, OnlyTools, DoubtKept, history
<1>10. CASE Shows
  BY <1>10, <1>0 DEF Shows, Pushed, Frame, ChildFrame, OnlyTools, DoubtKept, history
<1>11. CASE Completes
  BY <1>11, <1>0 DEF Completes, Pushed, Frame, ChildFrame, OnlyTools, DoubtKept, history
<1>12. CASE Rests
  BY <1>12, <1>0 DEF Rests, Quiet, Frame, ChildFrame, OnlyTools, DoubtKept, history
<1>13. CASE Starts
  BY <1>13, <1>0 DEF Starts, Started, Failed, Pushed, Frame, ChildFrame, OnlyTools,
    DoubtKept, history
<1>14. ASSUME NEW h \in Halts, Halting(h) PROVE OnlyTools
  BY <1>14, <1>0 DEF Halting, BeginCancel, OnlyTools, DoubtKept, history
<1>15. ASSUME NEW h \in Halts, Answered(h) PROVE OnlyTools
  BY <1>15, <1>0 DEF Answered, EffectOnly, store, OnlyTools, DoubtKept, history
<1>16. ASSUME NEW h \in Halts, Moved(h) PROVE OnlyTools
  BY <1>16, <1>0 DEF Moved, Active, Returned, Started, Failed, Pushed, Quiet, HaltFrame,
    ChildFrame, OnlyTools, DoubtKept, history
<1>17. ASSUME NEW h \in Halts, GivesBack(h) PROVE OnlyTools
  BY <1>17, <1>0 DEF GivesBack, Returned, Started, Failed, Pushed, Quiet, HaltFrame,
    ChildFrame, OnlyTools, DoubtKept, history
<1>18. ASSUME NEW h \in Halts, Closes(h) PROVE OnlyTools
  BY <1>18, <1>0 DEF Closes, Pushed, HaltFrame, ChildFrame, OnlyTools, DoubtKept, history
<1>19. CASE ToolFrame /\ ToolMoves
  BY <1>19 DEF OnlyTools
<1>20. ASSUME NEW t \in Tasks, CancelDone(t) PROVE OnlyTools
  BY <1>20, <1>0 DEF CancelDone, store, OnlyTools, DoubtKept, history, outside
<1>21. CASE Write
  BY <1>21, <1>0 DEF Write, child, OnlyTools, DoubtKept, history
<1>22. CASE JoinClass
  BY <1>22, <1>0 DEF JoinClass, child, OnlyTools, DoubtKept, history
<1>23. CASE Restart
  BY <1>23, <1>0 DEF Restart, OnlyTools, DoubtKept, history
<1>24. CASE Idle
  BY <1>24, <1>0 DEF Idle, store, OnlyTools, DoubtKept, history
<1> QED
  BY StepKinds, <1>1, <1>2, <1>3, <1>4, <1>5, <1>6, <1>7, <1>8, <1>9, <1>10, <1>11, <1>12,
    <1>13, <1>14, <1>15, <1>16, <1>17, <1>18, <1>19, <1>20, <1>21, <1>22, <1>23, <1>24 DEF
    ExecutionStep


\* No action is dispatched for a child whose run was aborted (ToolDispatches).
LEMMA RevokedStep ==
  ASSUME TypeOK, Rest, Status, Child, NoActionAfterHalt, [Next]_vars
  PROVE  NoActionAfterHalt'
<1>1. CASE DoubtKept
  BY <1>1 DEF DoubtKept, NoActionAfterHalt
<1>2. CASE ToolDispatches
  BY <1>2 DEF ToolDispatches, MayDispatch, Child, NoActionAfterHalt, history
<1>3. CASE ToolMoves /\ ~ToolDispatches
  BY <1>3 DEF ToolMoves, ToolStep, ToolAsks, ToolObservesAgain, ToolMarks, ToolReturns,
    ToolRecovers, ToolActed, NoActionAfterHalt, history
<1> QED BY <1>1, <1>2, <1>3, DoubtMoves DEF OnlyTools

(***************************************************************************)
(* Actions of unknown outcome.                                             *)
(***************************************************************************)
\* An action of unknown outcome stays known, whatever others do.
LEMMA DoubtStays ==
  ASSUME TypeOK, TypeOK', Rest, Status, Halted, Child, Alone, ~overlap, InDoubt,
         journal.status # Absent, Hard(journal), [Next]_vars, ~ToolMoves
  PROVE  InDoubt'
<1>t. /\ halts \in [Halts -> HaltStates] /\ cancelling \in [Tasks -> Cancellations]
      /\ tool \in ToolStates /\ work \in [pc : WorkSteps, aborted : BOOLEAN, route : Routes]
  BY DEF TypeOK
<1>c. lesson.child # 0 => lesson.child \in Tasks
  <2>1. lesson.child \in 0 .. MaxAttempts
    BY DEF TypeOK, Lessons
  <2> QED BY <2>1, LessonBoundsAssumption DEF Tasks
<1>0. /\ NoWork.pc = "idle" /\ NoWork.aborted = FALSE /\ NoLesson.status = Absent
      /\ \A pc : At(pc) => work'.pc = pc /\ work'.aborted = work.aborted
      /\ halts \in [Halts -> HaltStates] /\ NoHalt.pc = "idle"
  BY <1>t DEF NoHalt, NoWork, NoLesson, TypeOK, At
<1>r. lesson.status = "running" /\ round = "none" =>
        /\ lesson.child # 0 /\ (work.pc # "idle" => work.aborted)
        /\ cancelling[lesson.child] \in {"unsure", "unknown"}
        /\ \A h \in Halts : halts[h].pc = "cancelling" => halts[h].task = lesson.child
  BY DEF InDoubt
<1>1. CASE EndsBefore
  <2>1. work.pc \in {"preparing", "claiming", "clearing", "material", "prepared",
           "claimingStep", "claimed", "running", "attempt", "resolved", "finishing"}
    BY <1>1, <1>t DEF EndsBefore, WorkSteps, Submitted
  <2>2. work.pc = "resolved" /\ lesson.status = "running"
    BY <2>1 DEF Status, Before, InRun, InDoubt, Submitted, Absent
  <2>3. waiting = 0
    BY <2>2 DEF Child, Submitted
  <2>4. round = "none" /\ work.aborted
    BY <1>r, <2>2, <2>3 DEF Child, InDoubt
  <2>5. work' = NoWork /\ UNCHANGED <<lesson, cancelling, halts, round>>
    BY <1>1, <2>4 DEF EndsBefore, Ended, Quiet, Frame, ChildFrame
  <2> QED BY <1>0, <1>r, <2>2, <2>4, <2>5 DEF InDoubt, Unsettled
<1>2. CASE EndsInRun
  <2>0. /\ work.pc \in Submitted /\ lesson.status = "running" /\ Unsettled(lesson)
        /\ UNCHANGED <<cancelling, halts>> /\ round' = "none"
    BY <1>2 DEF EndsInRun, Cleanup, Frame, Status, InRun, InDoubt
  <2>1. CASE work.aborted
    <3>1. round = "none"
      BY <2>1 DEF Child
    <3>1a. lesson.child # 0 /\ cancelling[lesson.child] \in {"unsure", "unknown"}
           /\ \A h \in Halts : halts[h].pc = "cancelling" => halts[h].task = lesson.child
      BY <2>0, <3>1, <1>r
    <3>2. work' = NoWork /\ UNCHANGED lesson
      BY <1>2, <2>1 DEF EndsInRun, Ended, Quiet
    <3> QED BY <1>0, <2>0, <3>1a, <3>2 DEF InDoubt, Unsettled
  <2>2. CASE ~work.aborted
    <3>1. Failed(lesson)
      BY <1>2, <2>2 DEF EndsInRun, Ended
    <3>2. lesson'.status = "unknown"
      BY <2>0, <3>1 DEF Failed
    <3> QED BY <3>2 DEF InDoubt
  <2> QED BY <2>1, <2>2
<1>3. CASE Reads
  BY <1>3, <1>0 DEF Reads, Submitted, Quiet, Frame, ChildFrame, InDoubt, Unsettled,
    Status, Before, InRun, Submitted, Over, Absent
<1>4. CASE Saves
  BY <1>4, <1>0 DEF Saves, Pushed, Frame, ChildFrame, InDoubt, Unsettled, Status, Before,
    InRun, Submitted, Over, Absent
<1>5. CASE Claims
  BY <1>5, <1>0 DEF Claims, Pushed, Frame, ChildFrame, InDoubt, Unsettled, Status, Before,
    InRun, Submitted, Over, Absent
<1>6. CASE Runs
  BY <1>6, <1>0 DEF Runs, Pushed, Frame, ChildFrame, InDoubt, Unsettled, Status, Before,
    InRun, Submitted, Over, Absent
<1>7. CASE Forgets
  BY <1>7, <1>0 DEF Forgets, Quiet, InDoubt, Unsettled, Status, Before, InRun, Submitted,
    Over, Absent
<1>8. CASE Registers
  BY <1>8, <1>0 DEF Registers, Quiet, Frame, InDoubt, Unsettled, Status, Before, InRun,
    Submitted, Over, Absent
<1>9. CASE Resolves
  <2>1. /\ work.pc = "completion" /\ lesson.status = "running" /\ waiting = lesson.child
        /\ waiting # 0 /\ round # "uncertain" /\ ~Rejected(waiting)
    BY <1>9 DEF Resolves, Status, Child, InRun, Submitted
  <2>2. round = "none" /\ Unsettled(lesson)
    BY <2>1 DEF InDoubt
  <2>3. /\ UNCHANGED <<lesson, cancelling, halts>> /\ work'.pc = "resolved"
        /\ work'.aborted = work.aborted /\ round' = "none"
    BY <1>9, <1>0 DEF Resolves, Cleanup, Frame, Quiet
  <2> QED BY <1>r, <2>1, <2>2, <2>3 DEF InDoubt, Unsettled
<1>10. CASE Shows
  <2>1. work.pc = "resolved" /\ ~work.aborted /\ lesson.status = "running"
    BY <1>10 DEF Shows, InDoubt, Status, Before, InRun, Absent
  <2>2. waiting = 0
    BY <2>1 DEF Child, Submitted
  <2> QED BY <1>r, <2>1, <2>2 DEF Child, InDoubt
<1>11. CASE Completes
  BY <1>11, <1>0 DEF Completes, Pushed, Frame, ChildFrame, InDoubt, Unsettled, Status,
    Before, InRun, Submitted, Over, Absent
<1>12. CASE Rests
  BY <1>12, <1>0 DEF Rests, Quiet, Frame, ChildFrame, InDoubt, Unsettled, Status, Before,
    InRun, Submitted, Over, Absent
<1>13. CASE Starts
  <2>1. Started(lesson) /\ lesson.status # Absent
    BY <1>13 DEF Starts, InDoubt, Absent
  <2>2. lesson.status = "running" => Unsettled(lesson)
    BY DEF InDoubt
  <2>3. lesson'.status \in {"unknown", "stopped"}
    BY <2>1, <2>2 DEF Started, Failed, Over, InDoubt
  <2> QED BY <2>3 DEF InDoubt
<1>14. ASSUME NEW h \in Halts, Halting(h) PROVE InDoubt'
  <2>1. /\ UNCHANGED lesson /\ work'.pc = work.pc
        /\ work.pc # "idle" => work'.aborted
    BY <1>14, <1>t DEF Halting, Quiet
  <2>2. SUFFICES ASSUME lesson.status = "running" PROVE InDoubt'
    BY <2>1 DEF InDoubt
  <2>3. BeginCancel(lesson.child)
    BY <1>14 DEF Halting
  <2>4. \A g \in Halts : \/ halts'[g] = halts[g]
                         \/ halts'[g].pc = "cancelling" => halts'[g].task = lesson.child
    BY <1>14, <1>0 DEF Halting
  <2>5. CASE round = "uncertain"
    <3>1. /\ waiting = lesson.child /\ waiting # 0 /\ ~work.aborted
          /\ cancelling[lesson.child] \in {"no", "rejected"} /\ work.pc \in Submitted
      BY <2>5 DEF Child
    <3>2. ~AwaitsChild
      BY <3>1 DEF Alone, InRun, Submitted
    <3>3. round' = "none" /\ cancelling'[lesson.child] = "unsure"
      BY <1>t, <1>c, <2>3, <2>5, <3>1 DEF BeginCancel
    <3>4. \A g \in Halts : halts'[g].pc = "cancelling" => halts'[g].task = lesson.child
      BY <2>4, <3>2 DEF AwaitsChild
    <3> QED BY <2>1, <2>2, <3>1, <3>3, <3>4 DEF InDoubt, Unsettled
  <2>6. CASE round = "none"
    <3>1. UNCHANGED <<cancelling, round>>
      BY <1>r, <2>2, <2>3, <2>6 DEF BeginCancel
    <3>2. \A g \in Halts : halts'[g].pc = "cancelling" => halts'[g].task = lesson.child
      BY <1>r, <2>2, <2>4, <2>6
    <3> QED BY <1>r, <2>1, <2>2, <2>6, <3>1, <3>2 DEF InDoubt, Unsettled
  <2> QED BY <2>2, <2>5, <2>6 DEF InDoubt
<1>15. ASSUME NEW h \in Halts, Answered(h) PROVE InDoubt'
  <2>1. /\ UNCHANGED <<work, round>> /\ halts[h].pc = "cancelling" /\ EffectOnly
        /\ UNCHANGED cancelling
        /\ lesson.status = Absent \/ lesson'.effect = cancelling[halts[h].task]
    BY <1>15 DEF Answered, Alone
  <2>2. lesson'.status = lesson.status /\ lesson'.child = lesson.child
    BY <2>1 DEF EffectOnly
  <2>3. SUFFICES ASSUME lesson.status = "running" PROVE InDoubt'
    BY <2>2 DEF InDoubt
  <2>4. CASE round = "uncertain"
    BY <2>1, <2>4 DEF Child, Alone, AwaitsChild, InRun, Submitted
  <2>5. CASE round = "none"
    <3>1. lesson'.effect \in {"unsure", "unknown"}
      BY <1>r, <2>1, <2>3, <2>5 DEF Absent
    <3>2. lesson'.effect = "unknown"
      BY <3>1 DEF TypeOK, Lessons
    <3>3. \A g \in Halts : halts'[g].pc = "cancelling" => halts'[g] = halts[g]
      BY <1>15, <1>0 DEF Answered, HaltStates
    <3>4. \A g \in Halts : halts'[g].pc = "cancelling" => halts'[g].task = lesson.child
      BY <1>r, <2>3, <2>5, <3>3
    <3> QED BY <1>r, <2>1, <2>2, <2>3, <2>5, <3>2, <3>4 DEF InDoubt, Unsettled
  <2> QED BY <2>3, <2>4, <2>5 DEF InDoubt
<1>16. ASSUME NEW h \in Halts, Moved(h) PROVE InDoubt'
  <2>1. CASE ~Active
    <3>1. lesson.status \in {"stopped", Absent} /\ Returned(h)
      BY <1>16, <2>1 DEF Moved, Active, InDoubt, Over
    <3>2. lesson'.status \in {"stopped", Absent}
      BY <1>0, <3>1 DEF Returned, Started, Failed, Quiet, Over
    <3> QED BY <3>2 DEF InDoubt, Absent
  <2>2. CASE Active
    <3>1. lesson.status \in {"running", "unknown"}
      BY <2>2 DEF Active, InDoubt, Over
    <3>2. Target(h) = "stopped" \/ (lesson.status = "running" => Target(h) = "unknown")
      BY DEF Target, InDoubt
    <3>3. \A d : MayMove("unknown", d) => d \in {"unknown", "stopped"}
      BY DEF MayMove, Successors, Statuses, Over
    <3>4. MayMove("running", "stopped") /\ MayMove("running", "unknown")
      BY DEF MayMove, Successors, Statuses, Over
    <3>5. lesson'.status \in {"unknown", "stopped"}
      BY <1>16, <2>2, <3>1, <3>2, <3>3, <3>4 DEF Moved
    <3> QED BY <3>5 DEF InDoubt
  <2> QED BY <2>1, <2>2
<1>17. ASSUME NEW h \in Halts, GivesBack(h) PROVE InDoubt'
  <2>1. Returned(h) /\ halts' = [halts EXCEPT ![h] = NoHalt]
        /\ UNCHANGED <<round, cancelling>>
    BY <1>17 DEF GivesBack, HaltFrame, ChildFrame
  <2>2. CASE lesson' = NoLesson
    BY <1>0, <2>2 DEF InDoubt, Absent
  <2>3. CASE Quiet /\ UNCHANGED work
    <3>1. \A g \in Halts : halts'[g].pc = "cancelling" => halts'[g] = halts[g]
      BY <1>0, <2>1
    <3> QED BY <2>1, <2>3, <3>1 DEF Quiet, InDoubt, Unsettled
  <2>4. CASE Started(lesson) /\ lesson.status \notin {"unknown", Absent}
    <3>1. lesson.status \in {"running", "stopped"}
      BY <2>4 DEF InDoubt
    <3>2. lesson.status = "running" => Unsettled(lesson)
      BY DEF InDoubt
    <3>3. lesson'.status \in {"unknown", "stopped"}
      BY <2>4, <3>1, <3>2 DEF Started, Failed, Over
    <3> QED BY <3>3 DEF InDoubt
  <2> QED BY <2>1, <2>2, <2>3, <2>4 DEF Returned
<1>18. ASSUME NEW h \in Halts, Closes(h) PROVE InDoubt'
  BY <1>18, <1>0 DEF Closes, Pushed, HaltFrame, ChildFrame, InDoubt, Unsettled, Status,
    Before, InRun, Submitted, Over, Absent
<1>19. CASE ToolFrame /\ ToolMoves
  BY <1>19
<1>20. ASSUME NEW t \in Tasks, CancelDone(t) PROVE InDoubt'
  <2>1. UNCHANGED <<lesson, work, halts, round>>
    BY <1>20 DEF CancelDone
  <2>2. lesson.child \in Tasks /\ cancelling[lesson.child] \in {"unsure", "unknown"} =>
          cancelling'[lesson.child] \in {"unsure", "unknown"}
    BY <1>20, <1>t DEF CancelDone
  <2>3. CASE lesson.status = "running" /\ round = "none"
    BY <1>c, <1>r, <2>1, <2>2, <2>3 DEF InDoubt, Unsettled
  <2>4. CASE lesson.status # "running" \/ round = "uncertain"
    BY <2>1, <2>4 DEF InDoubt, Unsettled
  <2> QED BY <2>3, <2>4 DEF InDoubt
<1>21. CASE Write
  BY <1>21, <1>0 DEF Write, child, InDoubt, Unsettled, Status, Before, InRun, Submitted,
    Over, Absent
<1>22. CASE JoinClass
  <2>1. lesson' = Restored(journal)
    BY <1>22 DEF JoinClass, Persist
  <2>2. Restored(journal).status \in {"unknown", Absent}
    BY <1>0, RestoredFacts DEF TypeOK, Hard, IsOver
  <2> QED BY <2>1, <2>2 DEF InDoubt, Absent
<1>23. CASE Restart
  <2>1. lesson' = Restored(journal)
    BY <1>23 DEF Restart
  <2>2. Restored(journal).status \in {"unknown", Absent}
    BY <1>0, RestoredFacts DEF TypeOK, Hard, IsOver
  <2> QED BY <2>1, <2>2 DEF InDoubt, Absent
<1>24. CASE Idle
  BY <1>24, <1>0 DEF Idle, store, InDoubt, Unsettled, Status, Before, InRun, Submitted,
    Over, Absent
<1> QED
  BY StepKinds, <1>1, <1>2, <1>3, <1>4, <1>5, <1>6, <1>7, <1>8, <1>9, <1>10, <1>11, <1>12,
    <1>13, <1>14, <1>15, <1>16, <1>17, <1>18, <1>19, <1>20, <1>21, <1>22, <1>23, <1>24 DEF
    ExecutionStep

\* What the disk and the queue name a child of is not resumed.
LEMMA NamedHard ==
  ASSUME Rest, NamesChild
  PROVE  journal.status # Absent /\ AllHard
<1>1. NoLesson.child = 0
  BY DEF NoLesson
<1> QED BY <1>1 DEF Rest, NamesChild, AllHard, Hard

\* The disk and the queue stay so, if what is queued is not resumed either.
LEMMA HardStays ==
  ASSUME TypeOK, Queued, journal.status # Absent, AllHard,
         QueueKept \/ Write \/ Restart, lesson'.status # Absent => Hard(lesson')
  PROVE  journal'.status # Absent /\ AllHard'
<1>1. CASE QueueKept
  <2>1. CASE UNCHANGED <<journal, writes>>
    BY <2>1 DEF AllHard, Hard, Unsettled
  <2>2. ASSUME UNCHANGED journal, NEW w \in Writers, Pushed(w)
        PROVE  journal'.status # Absent /\ AllHard'
    <3>1. Hard(lesson')
      BY <2>2 DEF Pushed
    <3> QED BY <2>2, <3>1, PushFacts DEF AllHard, Hard, Unsettled
  <2> QED BY <1>1, <2>1, <2>2 DEF QueueKept
<1>2. CASE Write
  BY <1>2, WriteFacts DEF AllHard, Hard, Unsettled, Queued
<1>3. CASE Restart
  BY <1>3, RestartFacts DEF AllHard, Hard, Unsettled
<1> QED BY <1>1, <1>2, <1>3

\* The tools: a dispatch is known to the run, and so is what became of it
\* (ToolDispatches, ToolActed, ToolRecovers).
LEMMA ToolDoubt ==
  ASSUME TypeOK, TypeOK', Rest, Status, Halted, Child, ChildSaved, Alone, Doubtful, ToolMoves,
         doubt', ~overlap'
  PROVE  /\ ~overlap /\ InDoubt'
         /\ NamesChild \/ (journal.status # Absent /\ AllHard)
<1>0. /\ tool \in ToolStates /\ NoTool.live = FALSE /\ UNCHANGED <<work, halts, waiting, cancelling>>
  BY DEF NoTool, TypeOK, ToolMoves, ToolStep, ToolAsks, ToolObservesAgain, ToolMarks,
    ToolDispatches, ToolActed, ToolReturns, ToolRecovers, child
<1>e. \A e \in {"none", "dispatching", "confirmed", "unknown"} :
        LET m == [lesson EXCEPT !.effect = e]
        IN m.effect = e /\ m.status = lesson.status /\ m.child = lesson.child
  BY DEF TypeOK, Lessons
<1>l. tool.live => /\ work.pc \in Submitted /\ ~work.aborted /\ lesson.status = "running"
                   /\ waiting # 0 /\ waiting = lesson.child /\ NamesChild
  BY DEF Child, Status, InRun, ChildSaved, Submitted
<1>d. doubt /\ ~overlap => /\ InDoubt /\ journal.status # Absent /\ AllHard
                           /\ tool.pc # "recovering"
  BY DEF Doubtful
<1>1. CASE ToolAsks
  <2>1. doubt /\ ~overlap /\ round = "open" /\ waiting # 0
    BY <1>1 DEF ToolAsks, history
  <2> QED BY <1>d, <2>1 DEF InDoubt, Child, Status, InRun
<1>2. CASE ToolObservesAgain
  BY <1>2 DEF ToolObservesAgain
<1>3. CASE ToolMarks
  <2>1. doubt /\ ~overlap /\ UNCHANGED round
    BY <1>3 DEF ToolMarks, history, child
  <2>2. UNCHANGED lesson \/ /\ lesson'.status = lesson.status /\ lesson'.child = lesson.child
                            /\ lesson'.effect = "dispatching"
    BY <1>3, <1>e DEF ToolMarks, Persist
  <2> QED BY <1>0, <1>d, <2>1, <2>2 DEF InDoubt, Unsettled
<1>4. CASE ToolDispatches
  <2>1. ~overlap /\ UNCHANGED lesson
    BY <1>4 DEF ToolDispatches, history
  <2>2. CASE tool.live
    <3>1. lesson.effect = "dispatching" /\ round' = "uncertain"
      BY <1>4, <2>1, <2>2 DEF ToolDispatches, MayDispatch, Alone
    <3>2. lesson'.status = "running" /\ lesson'.effect = "dispatching" /\ work'.pc \in Submitted
      BY <1>0, <1>l, <2>1, <2>2, <3>1
    <3>3. InDoubt'
      BY <3>1, <3>2 DEF InDoubt, Unsettled
    <3> QED BY <1>l, <2>1, <2>2, <3>3
  <2>3. CASE ~tool.live
    <3>1. doubt /\ UNCHANGED round
      BY <1>4, <2>3 DEF ToolDispatches, MayDispatch, history
    <3> QED BY <1>0, <1>d, <2>1, <3>1 DEF InDoubt, Unsettled
  <2> QED BY <2>2, <2>3
<1>5. CASE ToolReturns
  BY <1>0, <1>5, <1>d DEF ToolReturns, history, child, InDoubt, Unsettled
<1>6. CASE ToolRecovers
  BY <1>6, <1>d DEF ToolRecovers, history
<1>7. ASSUME NEW status \in {"confirmed", "none", "unknown"}, ToolActed(status)
      PROVE  /\ ~overlap /\ InDoubt'
             /\ NamesChild \/ (journal.status # Absent /\ AllHard)
  <2>1. ~overlap
    BY <1>7 DEF ToolActed
  <2>2. CASE tool.live
    <3>1. status = "unknown" /\ round' = "uncertain"
          /\ lesson' = [lesson EXCEPT !.effect = status]
      BY <1>7, <2>2 DEF ToolActed, Persist
    <3>2. lesson'.effect = "unknown" /\ lesson'.status = lesson.status
      BY <1>e, <3>1
    <3>3. lesson'.status = "running" /\ work'.pc \in Submitted
      BY <1>0, <1>l, <2>2, <3>2
    <3>4. InDoubt'
      BY <3>1, <3>2, <3>3 DEF InDoubt, Unsettled
    <3> QED BY <1>l, <2>1, <2>2, <3>4
  <2>3. CASE ~tool.live
    <3>1. doubt /\ UNCHANGED <<lesson, round>>
      BY <1>7, <2>3 DEF ToolActed
    <3> QED BY <1>0, <1>d, <2>1, <3>1 DEF InDoubt, Unsettled
  <2> QED BY <2>2, <2>3
<1> QED BY <1>1, <1>2, <1>3, <1>4, <1>5, <1>6, <1>7 DEF ToolMoves, ToolStep

\* A run that began beside a halt is not forgotten (StartRun).
LEMMA OverlapStays ==
  ASSUME TypeOK, Rest, Status, Child, [Next]_vars, ~ToolMoves, ~overlap'
  PROVE  ~overlap /\ doubt' = doubt
<1>1. doubt' = doubt
  BY DoubtMoves DEF OnlyTools, DoubtKept
<1>2. overlap' = overlap \/ overlap' = (overlap \/ AwaitsChild)
  BY StepKinds DEF ExecutionStep, EndsBefore, EndsInRun, Reads, Saves, Claims, Runs,
     Forgets,
    Registers, Resolves, Shows, Completes, Rests, Starts, Halting, Answered, Moved, GivesBack,
    Closes, HaltFrame, Frame, CancelDone, Write, JoinClass, Restart, Idle, history
<1>3. overlap \in BOOLEAN
  BY DEF TypeOK
<1> QED BY <1>1, <1>2, <1>3

\* An action of unknown outcome is known to the run, to the halt, to the disk and
\* to the queue (Doubtful).
LEMMA DoubtStep ==
  ASSUME TypeOK, TypeOK', Rest, Status, Halted, Child, Queued, ChildSaved, Alone, Doubtful,
         [Next]_vars
  PROVE  Doubtful'
<1>1. tool'.pc = "recovering" => ~doubt'
  <2>1. CASE DoubtKept
    BY <2>1 DEF DoubtKept, Doubtful
  <2>2. CASE ToolMoves
    BY <2>2 DEF ToolMoves, ToolStep, ToolAsks, ToolObservesAgain, ToolMarks,
       ToolDispatches,
      ToolActed, ToolReturns, ToolRecovers, NoTool, ToolStates, TypeOK, Doubtful
  <2> QED BY <2>1, <2>2, DoubtMoves DEF OnlyTools
<1>2. ASSUME doubt', ~overlap'
      PROVE  InDoubt' /\ journal'.status # Absent /\ AllHard'
  <2>1. /\ InDoubt'
        /\ NamesChild \/ (journal.status # Absent /\ AllHard)
    <3>1. CASE ToolMoves
      BY <1>2, <3>1, ToolDoubt
    <3>2. CASE ~ToolMoves
      <4>1. ~overlap /\ doubt
        BY <1>2, <3>2, OverlapStays
      <4>2. InDoubt /\ journal.status # Absent /\ AllHard /\ Hard(journal)
        BY <4>1 DEF Doubtful, AllHard
      <4> QED BY <3>2, <4>1, <4>2, DoubtStays
    <3> QED BY <3>1, <3>2
  <2>2. journal.status # Absent /\ AllHard
    BY <2>1, NamedHard
  <2>3. lesson'.status # Absent => Hard(lesson')
    BY <2>1 DEF InDoubt, Hard, Over, Unsettled
  <2> QED BY <2>1, <2>2, <2>3, QueueMoves, HardStays
<1> QED BY <1>1, <1>2 DEF Doubtful

(***************************************************************************)
(* The invariant and what follows from it.                                 *)
(***************************************************************************)
\* At the start nothing has happened.
LEMMA InitInv ==
  ASSUME Init
  PROVE  LessonInv
<1>1. TypeOK
  <2>1. 0 \in 0 .. MaxAttempts /\ 0 \in 0 .. MaxRestarts
    BY LessonBoundsAssumption
  <2>2. NoWork \in [pc : WorkSteps, aborted : BOOLEAN, route : Routes] /\ NoTool \in ToolStates
    BY <2>1 DEF NoWork, WorkSteps, Routes, NoTool, ToolStates
  <2>3. "no" \in Cancellations /\ "none" \in Rounds /\ "none" \in Turns
    BY DEF Cancellations, Rounds, Turns
  <2>4. lesson \in Lessons /\ journal \in Lessons /\ writes \in Seq(Writers \X Lessons)
    BY NoLessonType DEF Init
  <2>5. /\ halts \in [Halts -> HaltStates] /\ cancelling \in [Tasks -> Cancellations]
        /\ turn \in [Tasks -> Turns]
    BY <2>3, NoHaltType DEF Init
  <2>6. /\ work \in [pc : WorkSteps, aborted : BOOLEAN, route : Routes] /\ tool \in ToolStates
        /\ waiting \in 0 .. MaxAttempts /\ restarts \in 0 .. MaxRestarts /\ round \in Rounds
        /\ reservation \in {"none", "lesson", "other"}
    BY <2>1, <2>2, <2>3 DEF Init
  <2>7. /\ open \in BOOLEAN /\ joined \in BOOLEAN /\ doubt \in BOOLEAN /\ revoked \in BOOLEAN
        /\ overlap \in BOOLEAN
    BY DEF Init
  <2> QED BY <2>4, <2>5, <2>6, <2>7 DEF TypeOK
<1>2. /\ NoWork.pc = "idle" /\ NoWork.aborted = FALSE /\ NoLesson.status = Absent
      /\ NoTool.live = FALSE /\ NoTool.pc = "idle" /\ NoHalt.pc = "idle" /\ Len(<< >>) = 0
  BY DEF NoWork, NoLesson, NoTool, NoHalt
<1>3. Rest /\ Status /\ Child
  BY <1>2 DEF Init, Rest, Status, Child, Before, InRun, Submitted, Absent
<1>4. Halted /\ OverInOrder /\ Queued /\ ChildSaved
  BY <1>2 DEF Init, Halted, Pending, OverInOrder, IsOver, Over, Absent, Queued,
     ChildSaved, InRun,
    Submitted
<1>5. Alone /\ Doubtful /\ RunningHasWork /\ NoActionAfterHalt
  BY <1>2 DEF Init, Alone, AwaitsChild, InRun, Submitted, Doubtful, RunningHasWork,
    NoActionAfterHalt, Absent
<1> QED BY <1>1, <1>3, <1>4, <1>5 DEF LessonInv

\* Every step keeps the invariant.
LEMMA InvStep ==
  ASSUME LessonInv, [Next]_vars
  PROVE  LessonInv'
<1>1. TypeOK'
  BY TypeStep DEF LessonInv
<1>2. Rest' /\ Status' /\ Halted' /\ Child' /\ Queued' /\ OverInOrder'
  BY <1>1, RestStep, StatusStep, HaltedStep, ChildStep, QueuedStep, OverStep DEF LessonInv
<1>3. ChildSaved' /\ Alone' /\ Doubtful'
  BY <1>1, <1>2, ChildSavedStep, AloneStep, DoubtStep DEF LessonInv
<1>4. RunningHasWork' /\ NoActionAfterHalt'
  BY <1>1, WorkStaysStep, RevokedStep DEF LessonInv
<1> QED BY <1>1, <1>2, <1>3, <1>4 DEF LessonInv

\* The lesson's status, journal, halts, child and tools agree with each other in
\* every reachable state, for any plan, any halts and any number of attempts
\* (ClassroomLessonController, ClassroomLessonStepRunner, ClassroomLessonToolPolicy).
THEOREM LessonInvariant == Spec => []LessonInv
<1>1. Init => LessonInv
  BY InitInv
<1>2. LessonInv /\ [Next]_vars => LessonInv'
  BY InvStep
<1> QED BY <1>1, <1>2, PTL DEF Spec

\* Every variable keeps its type.
THEOREM TypeCorrect == Spec => []TypeOK
<1>1. LessonInv => TypeOK
  BY DEF LessonInv
<1> QED BY <1>1, LessonInvariant, PTL

\* No native action is dispatched for a child whose execution was aborted or replaced
\* (the round's guard in ClassroomLessonToolPolicy).
THEOREM NoActionAfterHaltHolds == Spec => []NoActionAfterHalt
<1>1. LessonInv => NoActionAfterHalt
  BY DEF LessonInv
<1> QED BY <1>1, LessonInvariant, PTL

\* A lesson shown as preparing or running has an execution or a halt that will move it
\* (launch, halt).
THEOREM RunningHasWorkHolds == Spec => []RunningHasWork
<1>1. LessonInv => RunningHasWork
  BY DEF LessonInv
<1> QED BY <1>1, LessonInvariant, PTL

\* As long as no run began beside a halt, what the journal would give back after a crash
\* never resumes over an action of unknown outcome (persist, activate).
THEOREM UncertaintySurvivesHolds == Spec => []UncertaintySurvives
<1>1. LessonInv => UncertaintySurvives
  <2>1. SUFFICES ASSUME LessonInv, doubt, ~overlap
                 PROVE  Restored(journal).status \in {"unknown", Absent}
    BY DEF UncertaintySurvives
  <2>2. Hard(journal) /\ journal \in Lessons
    BY <2>1 DEF LessonInv, Doubtful, AllHard, TypeOK
  <2>3. NoLesson.status = Absent
    BY DEF NoLesson
  <2> QED BY <2>2, <2>3, RestoredFacts DEF Hard, IsOver
<1> QED BY <1>1, LessonInvariant, PTL

\* A step that begins an execution begins it from a lesson that may be resumed.
LEMMA NotBegunInDoubt ==
  ASSUME TypeOK, Rest, Status, Child, InDoubt, journal.status # Absent, [Next]_vars,
         work.pc # "preparing"
  PROVE  work'.pc # "preparing"
<1>0. /\ NoWork.pc = "idle" /\ \A pc : At(pc) => work'.pc = pc
  BY DEF NoWork, TypeOK, At
<1>1. ASSUME NEW l \in Lessons, l.status \in {"running", "unknown", "stopped", Absent},
             l.status # Absent, Started(l)
      PROVE  work'.pc # "preparing"
  BY <1>0, <1>1 DEF Started, Failed, Over
<1>2. CASE Starts
  BY <1>1, <1>2 DEF Starts, InDoubt, TypeOK, Absent
<1>3. ASSUME NEW h \in Halts, Returned(h)
      PROVE  work'.pc # "preparing"
  BY <1>1, <1>3 DEF Returned, InDoubt, TypeOK, Quiet
<1>4. ASSUME NEW h \in Halts, Moved(h) \/ GivesBack(h) \/ Closes(h)
      PROVE  work'.pc # "preparing"
  BY <1>3, <1>4 DEF Moved, GivesBack, Closes
<1>5. ASSUME NEW h \in Halts, Halting(h) \/ Answered(h)
      PROVE  work'.pc # "preparing"
  BY <1>5 DEF Halting, Answered, TypeOK
<1>6. CASE ExecutionStep
  BY <1>0, <1>6 DEF ExecutionStep, EndsBefore, EndsInRun, Ended, Failed, Reads, Submitted,
     Saves,
    Claims, Runs, Forgets, Registers, Resolves, Shows, Completes, Rests
<1>7. CASE Write \/ JoinClass \/ Restart \/ Idle \/ ToolFrame
            \/ \E t \in Tasks : CancelDone(t)
  BY <1>0, <1>7 DEF Write, JoinClass, Restart, Idle, ToolFrame, CancelDone
<1> QED BY StepKinds, <1>2, <1>4, <1>5, <1>6, <1>7

\* As long as no run began beside a halt, an action of unknown outcome is never followed
\* by another attempt, and its step does not count as done (launch, halt, continue).
THEOREM NeverReplayedHolds == Spec => NeverReplayed
<1>1. LessonInv /\ [Next]_vars =>
        [doubt /\ ~overlap =>
           /\ work.pc # "preparing" => work'.pc # "preparing"
           /\ lesson'.status \notin {"waiting_for_student", "finished"}]_vars
  <2>1. SUFFICES ASSUME LessonInv, [Next]_vars, doubt, ~overlap
                 PROVE  /\ work.pc # "preparing" => work'.pc # "preparing"
                        /\ lesson'.status \notin {"waiting_for_student", "finished"}
    OBVIOUS
  <2>2. InDoubt /\ journal.status # Absent /\ Hard(journal)
    BY <2>1 DEF LessonInv, Doubtful, AllHard
  <2>3. work.pc # "preparing" => work'.pc # "preparing"
    BY <2>1, <2>2, NotBegunInDoubt DEF LessonInv
  <2>4. lesson'.status \in {"running", "unknown", "stopped", Absent}
    <3>1. CASE ToolMoves
      <4>1. ToolFrame
        BY <2>1, <3>1, ToolKinds DEF LessonInv, ToolMoves
      <4> QED BY <2>2, <4>1 DEF ToolFrame, EffectOnly, InDoubt
    <3>2. CASE ~ToolMoves
      <4>1. TypeOK'
        BY <2>1, TypeStep DEF LessonInv
      <4>2. InDoubt'
        BY <2>1, <2>2, <3>2, <4>1, DoubtStays DEF LessonInv
      <4> QED BY <4>2 DEF InDoubt
    <3> QED BY <3>1, <3>2
  <2> QED BY <2>3, <2>4 DEF Absent
<1> QED BY <1>1, LessonInvariant, PTL DEF Spec, NeverReplayed

\* A lesson that was saved as over stays over: late writes, halts and restarts do not
\* revive it (ClassroomLessonStateStore, halt, activate).
THEOREM OverIsFinalHolds == Spec => OverIsFinal
<1>1. LessonInv /\ LessonInv' /\ [Next]_vars =>
        [IsOver(journal) =>
           IsOver(journal') /\ lesson'.status \in Over \cup {Absent}]_vars
  <2>1. SUFFICES ASSUME LessonInv, LessonInv', [Next]_vars, IsOver(journal)
                 PROVE  IsOver(journal') /\ lesson'.status \in Over \cup {Absent}
    OBVIOUS
  <2>2. UNCHANGED journal => IsOver(journal')
    BY <2>1 DEF IsOver
  <2>3. Write => IsOver(journal')
    BY <2>1, WriteFacts DEF LessonInv, OverInOrder, IsOver
  <2>4. IsOver(journal')
    BY <2>1, <2>2, <2>3, QueueMoves DEF LessonInv, QueueKept, Restart
  <2> QED BY <2>1, <2>4 DEF LessonInv, OverInOrder, IsOver
<1> QED BY <1>1, LessonInvariant, PTL DEF Spec, OverIsFinal
=============================================================================
