------------------------------ MODULE LessonRun ------------------------------
(***************************************************************************)
(* A class lesson on the student's desktop: ClassroomLessonController      *)
(* (launch, execute, halt, activate, continue, invalidate), the step       *)
(* runner that starts a child task for a step and cancels it, the lesson's *)
(* tool policy, and the journal of ClassroomLessonStateStore.              *)
(*                                                                         *)
(* One execution (work) runs at a time.  Pause, Stop, a question, opting   *)
(* out, leaving the class, the teacher's stop and the Stop of the child    *)
(* task all call halt, and nothing serialises these calls: each aborts the *)
(* work, awaits the child's cancellation and the work, then moves the      *)
(* status, saves, reports, and gives the device back.  Every await is a    *)
(* step of its own here.                                                   *)
(*                                                                         *)
(* Simplifications:                                                        *)
(*  - One lesson.  A step is its kind; materials, texts and budgets are    *)
(*    left out, and a request to the server may fail at any time.          *)
(*  - The start and step claims and the reports are those of               *)
(*    LessonDelivery; here they are part of a request's wait.              *)
(*  - Writes of the journal do not fail.                                   *)
(*  - A child has at most one tool call in flight.                         *)
(***************************************************************************)
EXTENDS Naturals, Sequences

CONSTANTS
  Plan,         \* the steps of the lesson, a sequence of kinds
  MaxAttempts,  \* bound: child tasks of the lesson (20 a step in the code)
  Halts,        \* bound: halts that may be under way at once
  MaxRestarts   \* bound: restarts of the application

Kinds == {"open", "practice", "explain", "teach"}
ASSUME PlanAssumption == Plan \in Seq(Kinds) /\ Len(Plan) > 0
ASSUME LessonBoundsAssumption == MaxAttempts \in Nat /\ MaxRestarts \in Nat

Tasks == 1 .. MaxAttempts
Over == {"finished", "stopped", "expired"}
Statuses == Over \cup {"received", "preparing", "running", "waiting_for_student",
                       "paused", "blocked", "failed", "unknown"}
Routes == {"material_viewer", "coach", "shared_agent"}

\* No lesson is active.
Absent == "absent"

VARIABLES
  lesson,       \* controller.active: status, effect, child (0: null), step, the
                \* child of the current step if it is shared, and attempts
  journal,      \* ClassroomLessonStateStore: the lesson as the disk holds it
  writes,       \* its queue: <<writer, lesson>>, oldest first
  work,         \* controller.work: where execute is, its abort signal and route
  halts,        \* calls of halt: where each is, its target, its caller, its child
  waiting,      \* step runner: the child that run waits for, 0 if none
  cancelling,   \* step runner: cancellations of each child
  round,        \* tool policy: the child's round, "none" when it is revoked
  turn,         \* the child tasks' turns
  tool,         \* the tool call in flight
  reservation,  \* TaskApplicationService: who holds the device
  open,         \* server: the lesson is active
  joined,       \* the student is in the class
  restarts,     \* restarts so far
  doubt,        \* history: an action was dispatched and nobody learned its outcome
  revoked,      \* history: dispatched although the execution had been aborted
  overlap       \* history: a run began while a halt awaited the end of an earlier child

store == <<journal, writes>>
child == <<waiting, cancelling, round, turn>>
outside == <<open, joined, restarts>>
history == <<doubt, revoked, overlap>>
vars == <<lesson, store, work, halts, child, tool, reservation, outside, history>>

NoLesson == [status |-> Absent, effect |-> "none", child |-> 0, step |-> 1,
             shared |-> 0, attempts |-> 0]
NoWork == [pc |-> "idle", aborted |-> FALSE, route |-> "coach"]
NoHalt == [pc |-> "idle", to |-> "paused", by |-> "student", task |-> 0]
NoTool == [pc |-> "idle", task |-> 0, live |-> FALSE]

Lessons == [status : Statuses \cup {Absent},
            effect : {"none", "dispatching", "confirmed", "unknown"},
            child : 0 .. MaxAttempts, step : 1 .. Len(Plan),
            shared : 0 .. MaxAttempts, attempts : 0 .. MaxAttempts]
Writers == {"work", "tool", "activate"} \cup Halts
WorkSteps == {"idle", "preparing", "claiming", "clearing", "material", "prepared",
              "claimingStep", "claimed", "running", "attempt", "authorizing",
              "admitting", "creating", "starting", "completion", "resolved",
              "saving", "finishing"}

HaltStates == [pc : {"idle", "cancelling", "overtaken", "unsure", "awaiting", "saving"},
               to : {"paused", "stopped", "finished"},
               by : {"student", "question", "leave"}, task : 0 .. MaxAttempts]
Cancellations == {"no", "sure", "unsure", "confirmed", "unknown", "rejected"}
Rounds == {"none", "open", "uncertain"}
Turns == {"none", "created", "cancelled", "starting", "active", "strayStarting", "stray",
          "over"}
ToolStates == [pc : {"idle", "consuming", "marking", "acting", "observed", "recovering"},
               task : 0 .. MaxAttempts, live : BOOLEAN]

TypeOK ==
  /\ lesson \in Lessons /\ journal \in Lessons
  /\ writes \in Seq(Writers \X Lessons)
  /\ work \in [pc : WorkSteps, aborted : BOOLEAN, route : Routes]
  /\ halts \in [Halts -> HaltStates]
  /\ waiting \in 0 .. MaxAttempts /\ cancelling \in [Tasks -> Cancellations]
  /\ round \in Rounds /\ turn \in [Tasks -> Turns] /\ tool \in ToolStates
  /\ reservation \in {"none", "lesson", "other"}
  /\ open \in BOOLEAN /\ joined \in BOOLEAN /\ restarts \in 0 .. MaxRestarts
  /\ doubt \in BOOLEAN /\ revoked \in BOOLEAN /\ overlap \in BOOLEAN

Init ==
  /\ lesson = NoLesson /\ journal = NoLesson /\ writes = << >>
  /\ work = NoWork /\ halts = [h \in Halts |-> NoHalt]
  /\ waiting = 0 /\ cancelling = [t \in Tasks |-> "no"] /\ round = "none"
  /\ turn = [t \in Tasks |-> "none"] /\ tool = NoTool
  /\ reservation = "none" /\ open = TRUE /\ joined = TRUE /\ restarts = 0
  /\ doubt = FALSE /\ revoked = FALSE /\ overlap = FALSE

(***************************************************************************)
(* The lesson's status and its journal.                                    *)
(***************************************************************************)
\* The table of classroom-lesson-policy.ts.
Successors ==
  [s \in Statuses |->
    CASE s = "received" -> {"preparing", "blocked", "paused", "stopped", "expired"}
      [] s = "preparing" -> {"running", "waiting_for_student", "blocked", "paused",
                             "failed", "unknown", "stopped", "expired"}
      [] s = "running" -> {"waiting_for_student", "paused", "blocked", "failed",
                           "unknown", "stopped", "expired"}
      [] s = "waiting_for_student" -> {"preparing", "paused", "stopped", "expired",
                                       "finished", "blocked"}
      [] s = "paused" -> {"preparing", "stopped", "expired", "unknown", "blocked"}
      [] s = "blocked" -> {"preparing", "stopped", "expired", "paused", "unknown"}
      [] s \in {"failed", "unknown"} -> {"stopped"}
      [] OTHER -> {}]

\* assertLessonTransition.
MayMove(from, to) == from = to \/ to \in Successors[from]

\* Mutant of Persist: writes overtake each other.
PersistUnordered(w, l) ==
  /\ lesson' = l
  /\ writes' = IF l.status = Absent THEN writes ELSE <<<<w, l>>>> \o writes

\* persist: the memory has changed, a copy waits in the store's queue.
Persist(w, l) ==
  /\ lesson' = l
  /\ writes' = IF l.status = Absent THEN writes ELSE Append(writes, <<w, l>>)

\* The writer's copy is on the disk.
Written(w) == \A i \in 1 .. Len(writes) : writes[i][1] # w

Unsettled(l) == l.effect \in {"dispatching", "unknown"}
IsOver(l) == l.status \in Over

\* ClassroomLessonStateStore.save reaches the disk.
Write ==
  /\ writes # << >>
  /\ journal' = Head(writes)[2]
  /\ writes' = Tail(writes)
  /\ UNCHANGED <<lesson, work, halts, child, tool, reservation, outside, history>>

(***************************************************************************)
(* The device.                                                             *)
(***************************************************************************)
\* isTaskDeviceBusy; a task whose phase is over does not count.
DeviceBusy == reservation # "none" \/ \E t \in Tasks : turn[t] \in {"starting", "active"}

\* reserveLesson, when the device is held by r.
MayReserve(r) == \/ r = "lesson"
                 \/ r = "none" /\ \A t \in Tasks : turn[t] \notin {"starting", "active"}

\* releaseReservation, when the device is held by r.
Released(r) == IF r = "lesson" THEN "none" ELSE r

OtherTaskStarts ==
  /\ ~DeviceBusy
  /\ reservation' = "other"
  /\ UNCHANGED <<lesson, store, work, halts, child, tool, outside, history>>

OtherTaskEnds ==
  /\ reservation = "other"
  /\ reservation' = "none"
  /\ UNCHANGED <<lesson, store, work, halts, child, tool, outside, history>>

(***************************************************************************)
(* launch and execute.                                                     *)
(***************************************************************************)
Step(l) == Plan[l.step]
Last(l) == l.step = Len(Plan)

\* lessonExecutionRoute of a step's own mode; a question to a step that has
\* its own application stays with the shared agent.
Route(l) ==
  CASE Step(l) = "teach" -> "shared_agent"
    [] Step(l) = "explain" -> "coach"
    [] OTHER -> "material_viewer"
HelpRoute(l) == IF Step(l) = "teach" THEN "shared_agent" ELSE "coach"

\* finally of launch.
WorkEnds == work' = NoWork
At(pc) == work' = [work EXCEPT !.pc = pc]

\* Mutant of FailWith: the error is noted, and the status is left as it was.
FailWithNote(l, blocked, r) == lesson' = l /\ reservation' = r /\ WorkEnds /\ UNCHANGED writes

\* The catch of launch, for an error of an execution that was not aborted.
\* blocked: a typed refusal, which says that this failure had no effect.
FailWith(l, blocked, r) ==
  LET settled == IF blocked /\ ~Unsettled(l)
                 THEN [l EXCEPT !.effect = "none", !.child = 0] ELSE l
      to == IF Unsettled(l) THEN "unknown" ELSE "blocked"
  IN IF l.status = Absent \/ IsOver(l)
       THEN /\ lesson' = settled /\ reservation' = Released(r) /\ WorkEnds /\ UNCHANGED writes
     ELSE IF MayMove(l.status, to)
       THEN /\ Persist("work", [settled EXCEPT !.status = to])
            /\ At("saving") /\ reservation' = r
     ELSE /\ lesson' = settled /\ WorkEnds /\ reservation' = r /\ UNCHANGED writes

\* An await that an abort turned into an error, which catch ignores.
Quit == work.aborted /\ WorkEnds /\ UNCHANGED <<lesson, writes, reservation>>

Fails(blocked) == ~work.aborted /\ FailWith(lesson, blocked, reservation)

\* launch and the first synchronous part of execute: reserve, a new state if
\* the lesson is new, transition to preparing.
Begin(l, route, r) ==
  LET started == IF l.status = Absent THEN [l EXCEPT !.status = "received"] ELSE l
  IN IF MayReserve(r) /\ MayMove(started.status, "preparing")
       THEN /\ work' = [pc |-> "preparing", aborted |-> FALSE, route |-> route]
            /\ reservation' = "lesson"
            /\ Persist("work", [started EXCEPT !.status = "preparing"])
       ELSE /\ work.pc = "idle"
            /\ FailWith(l, FALSE, r)

\* Mutant of Cancelled: only a confirmed cancellation ends the child's run.
CancelledIfSure(t) == cancelling[t] = "confirmed"

\* The cancellation of the child has answered, and with it its run is rejected; or
\* an earlier one has rejected the run, that the run had forgotten.
Cancelled(t) == cancelling[t] \in {"confirmed", "unknown"}
Rejected(t) == Cancelled(t) \/ cancelling[t] = "rejected"

\* A halt that awaited the work goes on before anybody else is served.
HaltIsDue ==
  work.pc = "idle" /\ \E h \in Halts : \/ halts[h].pc = "awaiting"
                                       \/ halts[h].pc = "cancelling" /\ Cancelled(halts[h].task)

\* The student is about to leave; nobody resumes a lesson in that moment.
Leaving == \E h \in Halts : halts[h].pc # "idle" /\ halts[h].by = "leave"

\* continue_ and receive: the student starts, resumes or asks, or a live
\* delivery starts by itself; a lesson in the journal is not received again.
Launch ==
  /\ joined /\ ~Leaving /\ work.pc = "idle" /\ ~HaltIsDue
  /\ \/ lesson.status = Absent /\ journal.status = Absent /\ writes = << >>
     \/ lesson.status \in {"received", "preparing", "running", "waiting_for_student",
                           "paused", "blocked"}
  /\ \E route \in {Route(lesson), HelpRoute(lesson)} : Begin(lesson, route, reservation)
  /\ UNCHANGED <<journal, halts, child, tool, outside, history>>

\* continue_('next') before the last step.
NextStep ==
  /\ work.pc = "idle" /\ ~HaltIsDue /\ ~Leaving
  /\ lesson.status = "waiting_for_student" /\ ~Last(lesson)
  /\ LET l == [lesson EXCEPT !.step = @ + 1, !.shared = 0] IN Begin(l, Route(l), reservation)
  /\ UNCHANGED <<journal, halts, child, tool, outside, history>>

\* continue_('next') after the last step; the caller waits for the journal
\* and then gives the device back.
Finish(h) ==
  /\ work.pc = "idle" /\ ~HaltIsDue /\ ~Leaving /\ halts[h].pc = "idle"
  /\ lesson.status = "waiting_for_student" /\ Last(lesson)
  /\ Persist(h, [lesson EXCEPT !.status = "finished"])
  /\ halts' = [halts EXCEPT ![h] = [pc |-> "saving", to |-> "finished",
                                    by |-> "student", task |-> 0]]
  /\ UNCHANGED <<journal, work, child, tool, reservation, outside, history>>

Prepare ==
  /\ work.pc = "preparing" /\ Written("work")
  /\ \/ Quit
     \/ ~work.aborted /\ At("claiming") /\ UNCHANGED <<lesson, writes, reservation>>
  /\ UNCHANGED <<journal, halts, child, tool, outside, history>>

\* receipt, start, authorize and material; the last two need an active lesson.
Claim ==
  /\ work.pc = "claiming"
  /\ \/ Quit
     \/ Fails(FALSE)
     \/ /\ ~work.aborted /\ open
        /\ Persist("work", [lesson EXCEPT !.effect = "none"])
        /\ At("clearing") /\ UNCHANGED reservation
  /\ UNCHANGED <<journal, halts, child, tool, outside, history>>

PrepareMaterial ==
  /\ work.pc = "clearing" /\ Written("work")
  /\ \/ Quit
     \/ ~work.aborted /\ At("material") /\ UNCHANGED <<lesson, writes, reservation>>
  /\ UNCHANGED <<journal, halts, child, tool, outside, history>>

\* runner.prepare is over.
MaterialReady ==
  /\ work.pc = "material"
  /\ \/ Quit
     \/ \E blocked \in BOOLEAN : Fails(blocked)
     \/ /\ ~work.aborted
        /\ Persist("work", [lesson EXCEPT !.effect = "confirmed"])
        /\ At("prepared") /\ UNCHANGED reservation
  /\ UNCHANGED <<journal, halts, child, tool, outside, history>>

\* The end of a step: it waits for the student, or an opening that was the
\* last step finishes the lesson.
StepDone(l) ==
  /\ Persist("work", [l EXCEPT !.status = "waiting_for_student", !.child = 0])
  /\ At(IF Step(l) = "open" /\ Last(l) /\ work.route = "material_viewer"
        THEN "finishing" ELSE "saving")

ViewStep ==
  /\ work.pc = "prepared" /\ Written("work")
  /\ work.route = "material_viewer"
  /\ IF MayMove(lesson.status, "waiting_for_student")
       THEN StepDone(lesson) /\ UNCHANGED reservation
       ELSE Quit \/ Fails(FALSE)
  /\ UNCHANGED <<journal, halts, child, tool, outside, history>>

\* Mutant of MayAttempt: the limit is off by one.
MayAttemptOnceMore(l) == l.attempts <= MaxAttempts

\* The attempts of a step are limited.
MayAttempt(l) == l.attempts < MaxAttempts

\* claimLessonChild: a shared step keeps its task, another attempt is a new one.
ClaimChild ==
  /\ work.pc = "prepared" /\ Written("work")
  /\ work.route # "material_viewer"
  /\ \/ /\ work.route = "shared_agent" /\ lesson.shared # 0
        /\ Persist("work", [lesson EXCEPT !.child = lesson.shared])
        /\ At("claimed") /\ UNCHANGED reservation
     \/ /\ work.route = "shared_agent" => lesson.shared = 0
        /\ MayAttempt(lesson)
        /\ Persist("work", [lesson EXCEPT !.attempts = @ + 1])
        /\ At("claimingStep") /\ UNCHANGED reservation
     \/ /\ work.route = "shared_agent" => lesson.shared = 0
        /\ ~MayAttempt(lesson)
        /\ Quit \/ Fails(FALSE)
  /\ UNCHANGED <<journal, halts, child, tool, outside, history>>

\* startStep, or lookupStep after a lost answer.
StepClaimed ==
  /\ work.pc = "claimingStep" /\ Written("work")
  /\ \/ Quit
     \/ Fails(FALSE)
     \/ /\ open
        /\ Persist("work", [lesson EXCEPT !.child = lesson.attempts,
             !.shared = IF work.route = "shared_agent" THEN lesson.attempts ELSE @])
        /\ At("claimed") /\ UNCHANGED reservation
  /\ UNCHANGED <<journal, halts, child, tool, outside, history>>

\* The budget allows the step: transition to running.
RunStep ==
  /\ work.pc = "claimed" /\ Written("work")
  /\ \/ Quit
     \/ Fails(TRUE)
     \/ /\ Persist("work", [lesson EXCEPT !.status = "running",
             !.effect = IF work.route = "shared_agent" THEN "none" ELSE "dispatching"])
        /\ At("running") /\ UNCHANGED reservation
  /\ UNCHANGED <<journal, halts, child, tool, outside, history>>

(***************************************************************************)
(* ClassroomLessonStepRunner.run, and the admission of the child.          *)
(***************************************************************************)
\* finally of run: nobody waits, and the child's tools are revoked.
Cleanup ==
  /\ waiting' = 0 /\ round' = "none"
  /\ tool' = [tool EXCEPT !.live = FALSE]

\* A halt waits for a cancellation.
AwaitsChild == \E h \in Halts : halts[h].pc \in {"cancelling", "overtaken", "unsure"}

\* Whoever waits for the cancellation of child t still does when it is forgotten.
Overtaken(t) ==
  [h \in Halts |->
    IF halts[h].pc = "cancelling" /\ halts[h].task = t
    THEN [halts[h] EXCEPT !.pc = IF cancelling[t] = "unsure" THEN "unsure" ELSE "overtaken"]
    ELSE halts[h]]

\* run begins; an earlier cancellation of the same child is forgotten.  A halt whose
\* cancellation has answered goes on before.
StartRun ==
  /\ work.pc = "running" /\ Written("work")
  /\ \/ Quit /\ UNCHANGED <<cancelling, halts, overlap>>
     \/ /\ ~work.aborted
        /\ \A h \in Halts : halts[h].pc = "cancelling" => ~Cancelled(halts[h].task)
        /\ cancelling' = [cancelling EXCEPT ![lesson.child] = "no"]
        /\ halts' = Overtaken(lesson.child) /\ overlap' = (overlap \/ AwaitsChild)
        /\ At("attempt") /\ UNCHANGED <<lesson, writes, reservation>>
  /\ UNCHANGED <<journal, waiting, round, turn, tool, outside, doubt, revoked>>

\* The attempt is read and the native session is there: register the round,
\* wait for the child and listen to the abort signal.
Register ==
  /\ work.pc = "attempt"
  /\ \/ Quit /\ UNCHANGED <<waiting, round>>
     \/ \E blocked \in BOOLEAN : Fails(blocked) /\ UNCHANGED <<waiting, round>>
     \/ /\ ~work.aborted
        /\ waiting' = lesson.child
        /\ round' = IF work.route = "shared_agent" THEN "open" ELSE "none"
        /\ At("authorizing") /\ UNCHANGED <<lesson, writes, reservation>>
  /\ UNCHANGED <<journal, halts, cancelling, turn, tool, outside, history>>

\* Any error of run: its finally, then the catch of launch.
RunFails(blocked) == Cleanup /\ (Quit \/ Fails(blocked))

\* authorize answers, and submitLesson looks at the reservation.
Authorize ==
  /\ work.pc = "authorizing"
  /\ \/ RunFails(FALSE)
     \/ /\ open /\ reservation = "lesson"
        /\ At("admitting")
        /\ UNCHANGED <<lesson, writes, reservation, waiting, round, tool>>
  /\ UNCHANGED <<journal, halts, cancelling, turn, outside, history>>

\* Owner, history and journal are in order: runtime.submit or continueTask.
Admit ==
  /\ work.pc = "admitting"
  /\ LET t == lesson.child
     IN \/ RunFails(FALSE) /\ UNCHANGED turn
        \/ /\ turn[t] \in {"none", "over", "cancelled"}
           /\ turn' = [turn EXCEPT ![t] = "created"]
           /\ At("creating")
           /\ UNCHANGED <<lesson, writes, reservation, waiting, round, tool>>
  /\ UNCHANGED <<journal, halts, cancelling, outside, history>>

\* state.create is done: the task gets its route and starts, unless it was
\* cancelled meanwhile.
StartChild ==
  /\ work.pc = "creating"
  /\ LET t == lesson.child
     IN \/ RunFails(FALSE) /\ turn' = [turn EXCEPT ![t] = "over"]
        \/ /\ turn[t] = "created"
           /\ turn' = [turn EXCEPT ![t] = "starting"]
           /\ At("starting")
           /\ UNCHANGED <<lesson, writes, reservation, waiting, round, tool>>
  /\ UNCHANGED <<journal, halts, cancelling, outside, history>>

\* The runtime has admitted the turn, or refuses it.
ChildStarted ==
  /\ work.pc = "starting"
  /\ LET t == lesson.child
     IN \/ RunFails(FALSE) /\ turn' = [turn EXCEPT ![t] = "over"]
        \/ /\ turn' = [turn EXCEPT ![t] = IF @ = "strayStarting" THEN "stray" ELSE "active"]
           /\ At("completion")
           /\ UNCHANGED <<lesson, writes, reservation, waiting, round, tool>>
  /\ UNCHANGED <<journal, halts, cancelling, outside, history>>

\* terminal: the child's turn is over.  A child that nobody waits for is not
\* reported to the lesson.
ChildEnds(t) ==
  /\ turn[t] \in {"active", "stray"}
  /\ turn' = [turn EXCEPT ![t] = "over"]
  /\ LET waited == waiting = t /\ ~Rejected(t) /\ work.pc = "completion"
     IN \/ /\ waited /\ round # "uncertain" /\ tool.pc = "idle"
           /\ Cleanup
           /\ At("resolved") /\ UNCHANGED <<lesson, writes, reservation>>
        \/ /\ waited
           /\ RunFails(round = "open")
        \/ /\ ~waited
           /\ UNCHANGED <<lesson, writes, work, waiting, round, tool, reservation>>
  /\ UNCHANGED <<journal, halts, cancelling, outside, history>>

\* The completion was rejected by a cancellation.
RunStopped ==
  /\ work.pc = "completion" /\ Rejected(lesson.child)
  /\ RunFails(FALSE)
  /\ UNCHANGED <<journal, halts, cancelling, turn, outside, history>>

\* The result is kept, and the step waits for the student.
StepFinished ==
  /\ work.pc = "resolved"
  /\ \/ Quit
     \/ /\ ~work.aborted
        /\ StepDone([lesson EXCEPT !.effect = "confirmed"])
        /\ UNCHANGED reservation
  /\ UNCHANGED <<journal, halts, child, tool, outside, history>>

\* The opening that was the last step is saved: transition to finished.
FinishOpening ==
  /\ work.pc = "finishing" /\ Written("work")
  /\ \/ /\ MayMove(lesson.status, "finished")
        /\ Persist("work", [lesson EXCEPT !.status = "finished"])
        /\ At("saving") /\ UNCHANGED reservation
     \/ ~MayMove(lesson.status, "finished") /\ (Quit \/ Fails(FALSE))
  /\ UNCHANGED <<journal, halts, child, tool, outside, history>>

\* The last write and its report are done; a finished lesson gives the device back.
WorkSaved ==
  /\ work.pc = "saving" /\ Written("work")
  /\ WorkEnds
  /\ reservation' = IF lesson.status = "finished" THEN Released(reservation) ELSE reservation
  /\ UNCHANGED <<lesson, store, halts, child, tool, outside, history>>

(***************************************************************************)
(* The child's tools (shared agent only): policy.dispatch and the round's  *)
(* guard.  tool.live: the round it was asked in is still registered.       *)
(***************************************************************************)
\* before: the round allows the call; consume is saved and reported.
ToolAsks ==
  /\ tool.pc = "idle" /\ round = "open" /\ waiting # 0
  /\ turn[waiting] \in {"active", "stray"}
  /\ open
  /\ tool' = [pc |-> "consuming", task |-> waiting, live |-> TRUE]
  /\ Persist("tool", lesson)
  /\ UNCHANGED <<journal, work, halts, child, reservation, outside, history>>

\* markEffect('dispatching') of whatever lesson is active.
ToolMarks ==
  /\ tool.pc = "consuming" /\ Written("tool")
  /\ IF lesson.status = Absent
       THEN tool' = NoTool /\ UNCHANGED <<lesson, writes>>
       ELSE /\ tool' = [tool EXCEPT !.pc = "marking"]
            /\ Persist("tool", [lesson EXCEPT !.effect = "dispatching"])
  /\ UNCHANGED <<journal, work, halts, child, reservation, outside, history>>

\* Mutant of MayDispatch: the guard's answer is not checked again.
MayDispatchAnyway == TRUE

\* ClassroomLessonToolPolicy.before: the same round is still registered.
MayDispatch == tool.live

ToolDispatches ==
  /\ tool.pc = "marking" /\ Written("tool")
  /\ IF MayDispatch
       THEN /\ tool' = [tool EXCEPT !.pc = "acting"]
            /\ round' = IF tool.live THEN "uncertain" ELSE round
            /\ doubt' = TRUE /\ revoked' = (revoked \/ work.aborted \/ waiting # tool.task)
            /\ UNCHANGED overlap
       ELSE tool' = NoTool /\ UNCHANGED <<round, history>>
  /\ UNCHANGED <<lesson, store, work, halts, waiting, cancelling, turn, reservation, outside>>

\* The adapter answers.  observeResult records it, if the round is still there.
ToolActed(status) ==
  /\ tool.pc = "acting"
  /\ IF tool.live
       THEN /\ Persist("tool", [lesson EXCEPT !.effect = status])
            /\ round' = IF status = "unknown" THEN "uncertain" ELSE "open"
            /\ doubt' = (status = "unknown")
            /\ tool' = [tool EXCEPT !.pc = "observed"]
       ELSE tool' = NoTool /\ UNCHANGED <<lesson, writes, round, doubt>>
  /\ UNCHANGED <<journal, work, halts, waiting, cancelling, turn, reservation, outside,
                 revoked, overlap>>

ToolReturns ==
  /\ tool.pc = "observed" /\ Written("tool")
  /\ tool' = NoTool
  /\ UNCHANGED <<lesson, store, work, halts, child, reservation, outside, history>>

\* A fresh observation after an input of unknown outcome permits a new decision.
ToolObservesAgain ==
  /\ tool.pc = "idle" /\ round = "uncertain" /\ waiting # 0
  /\ turn[waiting] \in {"active", "stray"} /\ open
  /\ tool' = [pc |-> "recovering", task |-> waiting, live |-> TRUE]
  /\ Persist("tool", [lesson EXCEPT !.effect = "none"])
  /\ doubt' = FALSE
  /\ UNCHANGED <<journal, work, halts, child, reservation, outside, revoked, overlap>>

\* Authority is checked again; if it has changed the effect is unknown as before.
ToolRecovers ==
  /\ tool.pc = "recovering" /\ Written("tool")
  /\ \/ /\ tool.live /\ ~work.aborted /\ open
        /\ round' = "open" /\ tool' = NoTool
        /\ UNCHANGED <<lesson, writes>>
     \/ /\ IF lesson.status = Absent
             THEN tool' = NoTool /\ UNCHANGED <<lesson, writes>>
             ELSE /\ tool' = [tool EXCEPT !.pc = "observed"]
                  /\ Persist("tool", [lesson EXCEPT !.effect = "unknown"])
        /\ UNCHANGED round
  /\ UNCHANGED <<journal, work, halts, waiting, cancelling, turn, reservation, outside, history>>

(***************************************************************************)
(* halt, and who calls it.                                                 *)
(***************************************************************************)
\* Mutant of BeginCancel: an action under way does not matter.
BeginCancelSurely(t) ==
  IF t = 0 \/ cancelling[t] \notin {"no", "rejected"} THEN UNCHANGED <<cancelling, round, tool>>
  ELSE /\ cancelling' = [cancelling EXCEPT ![t] = IF waiting # t THEN "confirmed" ELSE "sure"]
       /\ round' = IF waiting = t THEN "none" ELSE round
       /\ tool' = IF waiting = t THEN [tool EXCEPT !.live = FALSE] ELSE tool

\* The synchronous part of cancel: a child that nobody waits for has no
\* outcome; otherwise the outcome is unsure if an action is under way, and
\* the child's tools are revoked.
BeginCancel(t) ==
  IF t = 0 \/ cancelling[t] \notin {"no", "rejected"} THEN UNCHANGED <<cancelling, round, tool>>
  ELSE /\ cancelling' = [cancelling EXCEPT ![t] =
             IF waiting # t THEN "confirmed"
             ELSE IF round = "uncertain" THEN "unsure" ELSE "sure"]
       /\ round' = IF waiting = t THEN "none" ELSE round
       /\ tool' = IF waiting = t THEN [tool EXCEPT !.live = FALSE] ELSE tool

CancelTask(t) ==
  [turn EXCEPT ![t] = CASE @ = "created" -> "cancelled"
                        [] @ = "starting" -> "strayStarting"
                        [] @ = "active" -> "over"
                        [] OTHER -> @]

\* The rest of cancel: tasks.cancel, which fails for a task that was never
\* submitted, the end of the native session, and the rejection of run.
CancelDone(t) ==
  /\ cancelling[t] \in {"sure", "unsure"}
  /\ turn' = CancelTask(t)
  /\ \E outcome \in {"confirmed", "unknown"} :
       /\ outcome = "confirmed" => cancelling[t] = "sure" /\ turn[t] # "none"
       /\ cancelling' = [cancelling EXCEPT ![t] = outcome]
  /\ UNCHANGED <<lesson, store, work, halts, waiting, round, tool, reservation, outside, history>>

Halt(h, to, by) ==
  /\ halts[h].pc = "idle"
  /\ work' = IF work.pc = "idle" THEN work ELSE [work EXCEPT !.aborted = TRUE]
  /\ BeginCancel(lesson.child)
  /\ halts' = [halts EXCEPT ![h] =
       [pc |-> IF lesson.child = 0 THEN "awaiting" ELSE "cancelling",
        to |-> to, by |-> by, task |-> lesson.child]]
  /\ UNCHANGED <<lesson, store, waiting, turn, reservation, outside, history>>

Active == lesson.status \notin Over \cup {Absent}

\* continue_ with stop or pause, also from an older revision of the lesson.
StudentHalts(h) == Active /\ \E to \in {"paused", "stopped"} : Halt(h, to, "student")

\* setConsent(false) pauses an execution, like the student's own Pause.
\* continue_ with a question while an execution is under way.
StudentAsks(h) ==
  /\ Active /\ lesson.status # "unknown" /\ work.pc # "idle"
  /\ Halt(h, "paused", "question")

\* The teacher has stopped the lesson, or it has expired: invalidate.
FeedStops(h) ==
  /\ ~open /\ Active
  /\ Halt(h, "stopped", "student")

\* The student leaves the class, or is signed out: activate(null).
LeaveClass(h) == joined /\ ~Leaving /\ Halt(h, "paused", "leave")

\* The student stops the child in the task window: tasks.cancel,
\* onTaskCancelled and onChildCancelled.
ChildStopped(h) ==
  /\ lesson.child # 0 /\ turn[lesson.child] \in {"starting", "active"}
  /\ ~work.aborted /\ waiting = lesson.child
  /\ halts[h].pc = "idle"
  /\ turn' = CancelTask(lesson.child)
  /\ work' = [work EXCEPT !.aborted = TRUE]
  /\ BeginCancel(lesson.child)
  /\ halts' = [halts EXCEPT ![h] = [pc |-> "cancelling", to |-> "stopped",
                                    by |-> "student", task |-> lesson.child]]
  /\ UNCHANGED <<lesson, store, waiting, reservation, outside, history>>

\* The child's cancellation has answered.
HaltCancelled(h) ==
  /\ halts[h].pc = "cancelling"
  /\ Cancelled(halts[h].task)
  /\ lesson' = IF lesson.status = Absent THEN lesson
               ELSE [lesson EXCEPT !.effect = cancelling[halts[h].task]]
  /\ halts' = [halts EXCEPT ![h].pc = "awaiting"]
  /\ UNCHANGED <<store, work, child, tool, reservation, outside, history>>

\* An earlier cancellation of the child answers, and rejects the run that there is now.
OvertakenDone(h) ==
  /\ halts[h].pc \in {"overtaken", "unsure"}
  /\ \E outcome \in {"confirmed", "unknown"} :
       /\ outcome = "confirmed" => halts[h].pc = "overtaken"
       /\ lesson' = IF lesson.status = Absent THEN lesson ELSE [lesson EXCEPT !.effect = outcome]
  /\ halts' = [halts EXCEPT ![h].pc = "awaiting"]
  /\ cancelling' = [cancelling EXCEPT ![halts[h].task] =
       IF waiting = halts[h].task /\ @ = "no" THEN "rejected" ELSE @]
  /\ UNCHANGED <<store, work, waiting, round, turn, tool, reservation, outside, history>>

\* What the caller does when halt returns and the device is held by r.
Return(h, r) ==
  CASE halts[h].by = "leave" ->
         /\ lesson' = NoLesson /\ joined' = FALSE /\ reservation' = r
         /\ UNCHANGED <<writes, work>>
    [] halts[h].by = "question" /\ joined /\ ~Leaving /\ work.pc = "idle"
         /\ lesson.status \notin {"unknown", Absent} ->
         Begin(lesson, HelpRoute(lesson), r) /\ UNCHANGED joined
    [] OTHER -> reservation' = r /\ UNCHANGED <<lesson, writes, work, joined>>

\* An unsettled action makes a paused lesson unknown.
Target(h) ==
  IF halts[h].to = "stopped" THEN "stopped"
  ELSE IF Unsettled(lesson) THEN "unknown" ELSE halts[h].to

\* The work is over: the status moves, unless the lesson is over already.
HaltMoves(h) ==
  /\ halts[h].pc = "awaiting" /\ work.pc = "idle"
  /\ IF ~Active
       THEN /\ halts' = [halts EXCEPT ![h] = NoHalt]
            /\ Return(h, reservation)
     ELSE IF MayMove(lesson.status, Target(h))
       THEN /\ Persist(h, [lesson EXCEPT !.child = 0, !.status = Target(h)])
            /\ halts' = [halts EXCEPT ![h].pc = "saving"]
            /\ UNCHANGED <<work, joined, reservation>>
     ELSE \* assertLessonTransition throws, and the caller gives up
          /\ lesson' = [lesson EXCEPT !.child = 0]
          /\ halts' = [halts EXCEPT ![h] = NoHalt]
          /\ UNCHANGED <<writes, work, joined, reservation>>
  /\ UNCHANGED <<journal, child, tool, open, restarts, history>>

\* The status is saved and reported: the device is given back.
HaltReturns(h) ==
  /\ halts[h].pc = "saving" /\ Written(h)
  /\ halts[h].by = "question" => ~HaltIsDue
  /\ halts' = [halts EXCEPT ![h] = NoHalt]
  /\ Return(h, Released(reservation))
  /\ UNCHANGED <<journal, child, tool, open, restarts, history>>

(***************************************************************************)
(* Outside: the teacher, the session and the process.                      *)
(***************************************************************************)
TeacherStops ==
  /\ open /\ open' = FALSE
  /\ UNCHANGED <<lesson, store, work, halts, child, tool, reservation, joined, restarts, history>>

\* Mutant of Restored: only the saved status counts.
RestoredByStatus(l) ==
  IF IsOver(l) \/ l.status = Absent THEN NoLesson
  ELSE [l EXCEPT !.status = IF @ = "unknown" THEN "unknown" ELSE "paused"]

\* latest, and the status activate gives to what it finds.
Restored(l) ==
  IF IsOver(l) \/ l.status = Absent THEN NoLesson
  ELSE [l EXCEPT !.status =
         IF @ = "unknown" \/ Unsettled(l) \/ l.child # 0 THEN "unknown" ELSE "paused"]

\* activate: the session is there again and the journal is read.
JoinClass ==
  /\ ~joined /\ joined' = TRUE
  /\ work.pc = "idle" /\ writes = << >>
  /\ Persist("activate", Restored(journal))
  /\ UNCHANGED <<journal, work, halts, child, tool, reservation, open, restarts, history>>

\* The application dies and starts again; the student is still in the class.
Restart ==
  /\ restarts < MaxRestarts /\ restarts' = restarts + 1
  /\ joined' = TRUE
  /\ lesson' = Restored(journal)
  /\ writes' = IF lesson'.status = Absent THEN << >> ELSE <<<<"activate", lesson'>>>>
  /\ work' = NoWork /\ halts' = [h \in Halts |-> NoHalt]
  /\ waiting' = 0 /\ cancelling' = [t \in Tasks |-> "no"] /\ round' = "none"
  /\ turn' = [t \in Tasks |-> IF turn[t] = "none" THEN "none" ELSE "over"]
  /\ tool' = NoTool /\ reservation' = "none"
  /\ UNCHANGED <<journal, open, history>>

WorkStep ==
  \/ Prepare \/ Claim \/ PrepareMaterial \/ MaterialReady \/ ViewStep
  \/ ClaimChild \/ StepClaimed \/ RunStep \/ StartRun \/ Register \/ Authorize
  \/ Admit \/ StartChild \/ ChildStarted \/ RunStopped \/ StepFinished
  \/ FinishOpening \/ WorkSaved
HaltStep(h) == HaltCancelled(h) \/ OvertakenDone(h) \/ HaltMoves(h) \/ HaltReturns(h)
HaltBegins(h) ==
  StudentHalts(h) \/ StudentAsks(h) \/ FeedStops(h) \/ LeaveClass(h) \/ ChildStopped(h)
ToolStep ==
  \/ ToolMarks \/ ToolDispatches \/ ToolReturns \/ ToolRecovers
  \/ \E status \in {"confirmed", "none", "unknown"} : ToolActed(status)

Next ==
  \/ Write \/ Launch \/ NextStep \/ WorkStep
  \/ \E h \in Halts : Finish(h) \/ HaltBegins(h) \/ HaltStep(h)
  \/ ToolAsks \/ ToolObservesAgain \/ ToolStep
  \/ \E t \in Tasks : CancelDone(t) \/ ChildEnds(t)
  \/ OtherTaskStarts \/ OtherTaskEnds \/ TeacherStops \/ JoinClass \/ Restart

Spec == Init /\ [][Next]_vars

\* Promises settle: the disk, the server (an answer or a failure), the native
\* session.  Nothing is asked of the student, the teacher, the model or crashes.
FairSpec ==
  /\ Spec
  /\ WF_vars(Write) /\ WF_vars(WorkStep)
  /\ \A h \in Halts : SF_vars(HaltStep(h))
  /\ \A t \in Tasks : WF_vars(CancelDone(t))

(***************************************************************************)
(* Properties.                                                             *)
(***************************************************************************)
\* An action that was dispatched and whose outcome is not known is never
\* followed by another attempt: no execution begins, and the step that asked
\* for it does not count as done - unless a run began while a halt awaited the end
\* of an earlier child: its late answer may vouch for the new run's action.
NeverReplayed ==
  [][doubt /\ ~overlap =>
       /\ work.pc # "preparing" => work'.pc # "preparing"
       /\ lesson'.status \notin {"waiting_for_student", "finished"}]_vars

\* What the journal would give back after a crash never resumes over such an action.
UncertaintySurvives ==
  doubt /\ ~overlap => Restored(journal).status \in {"unknown", Absent}

\* No native action is dispatched for a child whose execution was aborted or replaced.
NoActionAfterHalt == ~revoked

\* A lesson shown as preparing or running has an execution, or a halt that will move it.
RunningHasWork ==
  lesson.status \in {"preparing", "running"} =>
    work.pc # "idle" \/ \E h \in Halts : halts[h].pc \notin {"idle", "saving"}

\* A lesson that was saved as over stays over: late writes, halts and restarts
\* do not revive it.
OverIsFinal ==
  [][IsOver(journal) => IsOver(journal') /\ lesson'.status \in Over \cup {Absent}]_vars

\* Pause, Stop and leaving the class come to an end.
HaltsEnd == \A h \in Halts : (halts[h].pc # "idle") ~> (halts[h].pc = "idle")

\* docs/classroom-lesson-execution.md:53-54: a working execution holds the device,
\* and no other task has it.
DeviceIsHeld ==
  work.pc \notin {"idle", "saving"} /\ ~work.aborted => reservation = "lesson"
=============================================================================
