---------------------------- MODULE LessonDelivery ----------------------------
(***************************************************************************)
(* One class lesson between a student's computer and the server: the       *)
(* receipt, the start claim, the step claims and the reports as served by  *)
(* lesson_delivery.rs, and the identities, the journal and the reports of  *)
(* ClassroomLessonController and classroom-lesson-child.ts.                *)
(*                                                                         *)
(* A request may be served and its answer lost, or be served after its     *)
(* sender has given up; the computer may crash between any two steps, and  *)
(* the student may be signed in on another one as well.                    *)
(*                                                                         *)
(* Simplifications:                                                        *)
(*  - received, preparing and running are "working"; waiting_for_student,  *)
(*    paused and blocked are "resting".  No code sets failed or expired on *)
(*    a computer.                                                          *)
(*  - The writes of a step that differ only in its material are left out.  *)
(*  - The write that only shortens the list of reports is left out: a      *)
(*    crash before it sends them again, and one after it does not.         *)
(*  - flushReports goes by the list as it is after each answer.            *)
(*  - The reports to be sent are a set: two of one revision go in either   *)
(*    order.                                                               *)
(*  - One halt at a time, and nobody resumes before its report is done:    *)
(*    LessonRun has the other orders.                                      *)
(*  - A shared step's task is claimed once; its continuation claims        *)
(*    nothing and is left out.                                             *)
(***************************************************************************)
EXTENDS Naturals, Sequences, FiniteSets

CONSTANTS
  MaxRevision,     \* bound: revisions of the lesson on this computer
  MaxAttempts,     \* bound: child tasks of the lesson (20 a step in the code)
  MaxRestarts,     \* bound: restarts of this computer
  MaxLate,         \* bound: requests under way whose sender has given up
  OtherRevisions   \* bound: revisions that another computer reports

ASSUME DeliveryBoundsAssumption ==
  /\ MaxRevision \in Nat \ 0 .. 2 /\ OtherRevisions \subseteq 1 .. MaxRevision
  /\ MaxAttempts \in Nat \ {0} /\ MaxRestarts \in Nat /\ MaxLate \in Nat

Absent == "absent"
Over == {"stopped", "finished"}
Final == Over \cup {"unknown"}
Statuses == Final \cup {"working", "resting", Absent}

\* Who persists: the execution or a halt, a tool call beside it, the feed's flush.
Writers == {"work", "tool", "flush"}
Epochs == 0 .. MaxRestarts

\* An identity chosen on this computer, told apart by the run that chose it.
Mine == [by : {"me"}, id : Epochs]
Nobody == [by |-> "nobody", id |-> 0]
Other == [by |-> "other", id |-> 0]

VARIABLES
  server,    \* knowledge_classroom_lessons, _deliveries, _lesson_steps
  wire,      \* requests that the server has not served
  app,       \* controller.active of this computer
  journal,   \* its copy on the disk
  writes,    \* the store's queue: <<writer, lesson>>
  work,      \* launch: where execute is, and the halt that waits for it
  saver,     \* where each call of persist is
  ask,       \* the answer each writer waits for; "no": refused, or lost
  flush,     \* the report that flushReports is sending
  restarts   \* restarts so far

device == <<app, journal, writes, work, saver, ask, flush, restarts>>
vars == <<server, wire, device>>

NoLesson == [status |-> Absent, rev |-> 0, claim |-> "none", id |-> 0, attempts |-> 0,
             child |-> 0, task |-> [n \in 1 .. MaxAttempts |-> 0], reports |-> {}]
Started == [NoLesson EXCEPT !.status = "working", !.rev = 3, !.claim = "mine",
                            !.attempts = 1, !.child = 1]
Rested == [Started EXCEPT !.status = "resting", !.child = 0]

Identity(l) == [by |-> "me", id |-> l.id]
TaskOf(l, n) == [by |-> "me", id |-> l.task[n]]

\* lessonReportSnapshot: of the lesson as it is now.
Snapshot(w) == [rev |-> app.rev, status |-> app.status, by |-> w]

Idle == [pc |-> "idle", halt |-> "no"]

\* A report, and which call of persist has made it.
Reports == [rev : 1 .. MaxRevision, status : Statuses \ {Absent}, by : {"work", "tool", "other"}]
NoReport == [rev |-> 0, status |-> Absent, by |-> "work"]
NotSaving == [pc |-> "idle", report |-> NoReport]
Lessons == [status : Statuses, rev : 0 .. MaxRevision, claim : {"none", "mine", "theirs"},
            id : Epochs, attempts : 0 .. MaxAttempts, child : 0 .. MaxAttempts,
            task : [1 .. MaxAttempts -> Epochs], reports : SUBSET Reports]

TypeOK ==
  /\ server \in [active : BOOLEAN, status : Statuses \cup {"received"},
                 owner : {Nobody, Other} \cup Mine, report : {NoReport} \cup Reports,
                 steps : [1 .. MaxAttempts -> {Nobody} \cup Mine]]
  /\ \A m \in wire : m.by \in Writers /\ m.late \in BOOLEAN
  /\ app \in Lessons /\ journal \in Lessons /\ writes \in Seq(Writers \X Lessons)
  /\ work \in [pc : {"idle", "preparing", "identity", "starting", "looking", "authorizing",
                     "material", "attempt", "claiming", "lookingStep", "running", "saving"},
               halt : {"no", "resting", "stopped"}]
  /\ saver \in [Writers -> [pc : {"idle", "saving", "storing", "sending"},
                            report : {NoReport} \cup Reports]]
  /\ ask \in [Writers -> {"none", "waiting", "ok", "mine", "theirs", "no"}]
  /\ flush \in {NoReport} \cup Reports /\ restarts \in Epochs

\* A lesson that nobody has, one whose child is at work on this computer, or one whose
\* child has ended; of its revisions so far only the last is counted.
Init ==
  /\ app \in {NoLesson, Started, Rested}
  /\ server = [active |-> TRUE, status |-> app.status,
               owner |-> IF app = NoLesson THEN Nobody ELSE Identity(app),
               report |-> IF app = NoLesson THEN NoReport ELSE Snapshot("work"),
               steps |-> [n \in 1 .. MaxAttempts |->
                            IF n <= app.attempts THEN TaskOf(app, n) ELSE Nobody]]
  /\ work = [Idle EXCEPT !.pc = IF app = Started THEN "running" ELSE "idle"]
  /\ wire = {} /\ journal = app /\ writes = << >>
  /\ saver = [w \in Writers |-> NotSaving]
  /\ ask = [w \in Writers |-> "none"] /\ flush = NoReport /\ restarts = 0

(***************************************************************************)
(* The server.  Each request is served in one transaction, under the lock  *)
(* of the delivery's row.  An answer is paired with the new rows.          *)
(***************************************************************************)
\* Mutant of ServeStart: the claim is not compared with the request.
ServeStartToAnyone(m) ==
  IF ~server.active THEN [rows |-> server, answer |-> "no"]
  ELSE [rows |-> IF server.owner = Nobody
                 THEN [server EXCEPT !.owner = m.who, !.status = "working"] ELSE server,
        answer |-> "mine"]

\* start_lesson: the first start wins; a repeated one with the same identity owns it.
ServeStart(m) ==
  IF ~server.active THEN [rows |-> server, answer |-> "no"]
  ELSE IF server.owner = Nobody
    THEN [rows |-> [server EXCEPT !.owner = m.who, !.status = "working"], answer |-> "mine"]
  ELSE [rows |-> server, answer |-> IF server.owner = m.who THEN "mine" ELSE "theirs"]

\* start_lesson_step: only the owner's computer, and an attempt has one task.
ServeStep(m) ==
  IF ~server.active \/ server.owner # m.who \/ server.status \in Final
    THEN [rows |-> server, answer |-> "no"]
  ELSE IF server.steps[m.n] = Nobody
    THEN [rows |-> [server EXCEPT !.steps[m.n] = m.task], answer |-> "ok"]
  ELSE [rows |-> server, answer |-> IF server.steps[m.n] = m.task THEN "ok" ELSE "no"]

\* Mutant of ServeReport: the last report that arrives counts.
ServeReportInOrderOfArrival(m) ==
  [rows |-> [server EXCEPT !.report = m.report, !.status = m.report.status], answer |-> "ok"]

\* report_lesson: an older report changes nothing, another one of the same
\* revision is refused, a final status is replaced only by the student's Stop.
ServeReport(m) ==
  LET r == m.report
      old == server.status
      refused == \/ r.rev = server.report.rev /\ r # server.report
                 \/ /\ r.rev > server.report.rev /\ old \in Final /\ old # r.status
                    /\ ~(old = "unknown" /\ r.status = "stopped")
  IN IF refused THEN [rows |-> server, answer |-> "no"]
     ELSE [rows |-> IF r.rev > server.report.rev
                    THEN [server EXCEPT !.report = r, !.status = r.status] ELSE server,
           answer |-> "ok"]

Served(m) ==
  CASE m.kind = "start" -> ServeStart(m)
    [] m.kind = "step" -> ServeStep(m)
    [] OTHER -> ServeReport(m)

\* The answer reaches the sender, or is lost; a sender that gave up hears nothing.
Serve(m) ==
  /\ m \in wire /\ wire' = wire \ {m}
  /\ server' = Served(m).rows
  /\ IF m.late THEN UNCHANGED ask
     ELSE \E a \in {Served(m).answer, "no"} : ask' = [ask EXCEPT ![m.by] = a]
  /\ UNCHANGED <<app, journal, writes, work, saver, flush, restarts>>

\* The request never arrives, or its sender does not wait for it any longer.
GivesUp(m) ==
  /\ m \in wire /\ ~m.late
  /\ ask' = [ask EXCEPT ![m.by] = "no"]
  /\ \/ wire' = wire \ {m}
     \/ /\ Cardinality({x \in wire : x.late}) < MaxLate
        /\ wire' = (wire \ {m}) \cup {[m EXCEPT !.late = TRUE]}
  /\ UNCHANGED <<server, app, journal, writes, work, saver, flush, restarts>>

\* stop_lesson, or the lesson expires.
TeacherStops ==
  /\ server.active /\ server' = [server EXCEPT !.active = FALSE]
  /\ UNCHANGED <<wire, device>>

\* Another computer of the student starts the lesson first.
OtherStarts ==
  /\ server.active /\ server.owner = Nobody
  /\ server' = [server EXCEPT !.owner = Other, !.status = "working"]
  /\ UNCHANGED <<wire, device>>

\* It reports its end; a computer that was refused the lesson has the execution's id too.
OtherReports ==
  /\ server.owner # Nobody
  /\ \E rev \in OtherRevisions :
       server' = ServeReport([report |-> [rev |-> rev, status |-> "finished",
                                          by |-> "other"]]).rows
  /\ UNCHANGED <<wire, device>>

(***************************************************************************)
(* persist.                                                                *)
(***************************************************************************)
\* The request of a writer goes out.
Sends(w, m) ==
  /\ wire' = wire \cup {m}
  /\ ask' = [ask EXCEPT ![w] = "waiting"]
Answered(w) == ask[w] \notin {"none", "waiting"}
Heard(w) == ask' = [ask EXCEPT ![w] = "none"]

\* A copy waits in the store's queue.
Queued(w, l) == writes' = Append(writes, <<w, l>>)
OnDisk(w) == \A i \in 1 .. Len(writes) : writes[i][1] # w

\* persist begins: the next revision.
Persist(w, l) ==
  LET next == [l EXCEPT !.rev = @ + 1]
  IN /\ l.rev < MaxRevision
     /\ app' = next
     /\ Queued(w, next)
     /\ saver' = [saver EXCEPT ![w].pc = "saving"]

Write ==
  /\ writes # << >>
  /\ journal' = Head(writes)[2]
  /\ writes' = Tail(writes)
  /\ UNCHANGED <<server, wire, app, work, saver, ask, flush, restarts>>

ReportRequest(w, r) == [kind |-> "report", by |-> w, report |-> r, late |-> FALSE]

\* The revision is on the disk.  Without a claim there is nobody to report to.
Saved(w) ==
  /\ saver[w].pc = "saving" /\ OnDisk(w)
  /\ IF app.claim = "none"
       THEN /\ saver' = [saver EXCEPT ![w] = NotSaving]
            /\ UNCHANGED <<app, writes>>
       ELSE LET r == Snapshot(w)
            IN /\ app' = [app EXCEPT !.reports = @ \cup {r}]
               /\ Queued(w, app')
               /\ saver' = [saver EXCEPT ![w] = [pc |-> "storing", report |-> r]]
  /\ UNCHANGED <<server, wire, journal, work, ask, flush, restarts>>

\* Mutant of MaySend: the report goes out before it is saved.
MaySendEarly(w) == TRUE

\* The report is on the disk.
MaySend(w) == OnDisk(w)

SendReport(w) ==
  /\ saver[w].pc = "storing" /\ MaySend(w)
  /\ Sends(w, ReportRequest(w, saver[w].report))
  /\ saver' = [saver EXCEPT ![w].pc = "sending"]
  /\ UNCHANGED <<server, app, journal, writes, work, flush, restarts>>

\* An accepted report and all before it are forgotten; otherwise it is kept.
Reported(w) ==
  /\ saver[w].pc = "sending" /\ Answered(w) /\ Heard(w)
  /\ saver' = [saver EXCEPT ![w] = NotSaving]
  /\ IF ask[w] = "ok"
       THEN app' = [app EXCEPT !.reports = {r \in @ : r.rev > saver[w].report.rev}]
       ELSE UNCHANGED app
  /\ UNCHANGED <<server, wire, journal, writes, work, flush, restarts>>

\* flushReports of the next poll: the oldest report, again until it is accepted.
FlushSends ==
  /\ app.claim # "none" /\ flush = NoReport
  /\ \E r \in app.reports :
       flush' = r /\ \A q \in app.reports : r.rev <= q.rev
  /\ Sends("flush", ReportRequest("flush", flush'))
  /\ UNCHANGED <<server, app, journal, writes, work, saver, restarts>>

FlushAnswered ==
  /\ Answered("flush") /\ Heard("flush")
  /\ flush' = NoReport
  /\ app' = IF ask["flush"] = "ok"
            THEN [app EXCEPT !.reports = @ \ {flush}] ELSE app
  /\ UNCHANGED <<server, wire, journal, writes, work, saver, restarts>>

(***************************************************************************)
(* execute.                                                                *)
(***************************************************************************)
At(pc) == work' = [work EXCEPT !.pc = pc]
Settled == saver["work"].pc = "idle"

\* A halt aborts the execution, which looks at the signal after every await.
Aborted == work.halt # "no"

Quits ==
  /\ Aborted /\ At("idle")
  /\ UNCHANGED <<app, writes, saver>>

\* The catch of launch: blocked, or unknown if a child may have acted.
Fails(l) ==
  IF Aborted
    THEN At("idle") /\ app' = l /\ UNCHANGED <<writes, saver>>
    ELSE /\ \/ \E child \in {0, l.child} :
                 Persist("work", [l EXCEPT !.status = "resting", !.child = child])
            \/ l.child # 0 /\ Persist("work", [l EXCEPT !.status = "unknown"])
         /\ At("saving")

\* receive or continue_, and the synchronous part of execute.  A lesson that
\* the journal knows is not received again.
Launch ==
  /\ work = Idle /\ Settled
  /\ \/ /\ app.status = Absent /\ journal.status = Absent /\ writes = << >>
        /\ server.active
        /\ Persist("work", [NoLesson EXCEPT !.status = "working", !.id = restarts])
     \/ /\ app.status = "resting"
        /\ Persist("work", [app EXCEPT !.status = "working"])
  /\ At("preparing")
  /\ UNCHANGED <<server, wire, journal, ask, flush, restarts>>

\* Any claim will do.
NeedsClaim(l) == l.claim = "none"

\* lesson_receipt: the first receipt counts; then the identity of the start is saved.
Prepared ==
  /\ work.pc = "preparing" /\ Settled
  /\ \/ Quits /\ UNCHANGED server
     \/ NeedsClaim(app) /\ Fails(app) /\ UNCHANGED server
     \/ /\ ~Aborted /\ NeedsClaim(app)
        /\ server' = [server EXCEPT !.status = IF @ = Absent THEN "received" ELSE @]
        /\ Persist("work", app) /\ At("identity")
     \/ /\ ~Aborted /\ ~NeedsClaim(app) /\ At("authorizing")
        /\ UNCHANGED <<server, app, writes, saver>>
  /\ UNCHANGED <<wire, journal, ask, flush, restarts>>

Starts ==
  /\ work.pc = "identity" /\ Settled
  /\ Sends("work", [kind |-> "start", by |-> "work",
                       who |-> Identity(app), late |-> FALSE])
  /\ At("starting")
  /\ UNCHANGED <<server, app, journal, writes, saver, flush, restarts>>

\* A claim that belongs to another computer is kept all the same.
StartAnswered ==
  /\ work.pc = "starting" /\ Answered("work") /\ Heard("work")
  /\ CASE ask["work"] = "mine" ->
            /\ Persist("work", [app EXCEPT !.claim = "mine"])
            /\ At("authorizing")
       [] ask["work"] = "theirs" -> Fails([app EXCEPT !.claim = "theirs"])
       [] OTHER -> At("looking") /\ UNCHANGED <<app, writes, saver>>
  /\ UNCHANGED <<server, wire, journal, flush, restarts>>

\* lookupStart after a lost answer.
LooksUpStart ==
  /\ work.pc = "looking"
  /\ \/ Fails(app)
     \/ /\ server.owner = Identity(app)
        /\ Persist("work", [app EXCEPT !.claim = "mine"])
        /\ At("authorizing")
  /\ UNCHANGED <<server, wire, journal, ask, flush, restarts>>

\* authorize: the execution has begun.
Authorizes ==
  /\ work.pc = "authorizing" /\ Settled
  /\ \/ Quits
     \/ Fails(app)
     \/ /\ server.active /\ server.status \notin Final /\ ~Aborted
        /\ At("material") /\ UNCHANGED <<app, writes, saver>>
  /\ UNCHANGED <<server, wire, journal, ask, flush, restarts>>

\* An opening or practice is over with its material.
ShowsMaterial ==
  /\ work.pc = "material" /\ Settled
  /\ \/ Quits
     \/ Fails(app)
     \/ ~Aborted /\ Persist("work", [app EXCEPT !.status = "resting"])
        /\ At("saving")
  /\ UNCHANGED <<server, wire, journal, ask, flush, restarts>>

\* Mutant of MayAttempt: the limit is off by one.
MayAttemptOnceMore(n) == n <= MaxAttempts + 1

\* The attempts of a step are limited.
MayAttempt(n) == n <= MaxAttempts

\* claimLessonChild: a new attempt and its task are saved before the request.
Attempts ==
  /\ work.pc = "material" /\ Settled /\ ~Aborted
  /\ LET n == app.attempts + 1
     IN /\ MayAttempt(n)
        /\ Persist("work", [app EXCEPT !.attempts = n, !.task[n] = restarts])
  /\ At("attempt")
  /\ UNCHANGED <<server, wire, journal, ask, flush, restarts>>

\* Mutant of MayClaim: the request does not wait for the journal.
MayClaimEarly == TRUE

\* persist has returned.
MayClaim == Settled

ClaimsStep ==
  /\ work.pc = "attempt" /\ MayClaim
  /\ Sends("work", [kind |-> "step", by |-> "work", n |-> app.attempts,
        who |-> Identity(app), task |-> TaskOf(app, app.attempts), late |-> FALSE])
  /\ At("claiming")
  /\ UNCHANGED <<server, app, journal, writes, saver, flush, restarts>>

StepAnswered ==
  /\ work.pc = "claiming" /\ Answered("work") /\ Heard("work")
  /\ IF ask["work"] = "ok"
       THEN /\ Persist("work", [app EXCEPT !.child = app.attempts])
            /\ At("running")
       ELSE At("lookingStep") /\ UNCHANGED <<app, writes, saver>>
  /\ UNCHANGED <<server, wire, journal, flush, restarts>>

\* lookupStep after a lost or refused claim.
LooksUpStep ==
  /\ work.pc = "lookingStep"
  /\ \/ Fails(app)
     \/ /\ server.steps[app.attempts] = TaskOf(app, app.attempts)
        /\ Persist("work", [app EXCEPT !.child = app.attempts])
        /\ At("running")
  /\ UNCHANGED <<server, wire, journal, ask, flush, restarts>>

\* The child runs; its tools are counted and marked beside the execution.
ToolSaves ==
  /\ work.pc = "running" /\ Settled /\ saver["tool"].pc = "idle"
  /\ Persist("tool", app)
  /\ UNCHANGED <<server, wire, journal, work, ask, flush, restarts>>

ChildEnds ==
  /\ work.pc = "running" /\ Settled
  /\ \/ Quits
     \/ Fails(app)
     \/ /\ ~Aborted
        /\ Persist("work", [app EXCEPT !.status = "resting", !.child = 0])
        /\ At("saving")
  /\ UNCHANGED <<server, wire, journal, ask, flush, restarts>>

WorkEnds ==
  /\ work.pc = "saving" /\ Settled
  /\ At("idle")
  /\ UNCHANGED <<server, wire, app, journal, writes, saver, ask, flush, restarts>>

\* continue_('next') after the last step, or the end of a last opening.
Finishes ==
  /\ work = Idle /\ Settled /\ app.status = "resting"
  /\ Persist("work", [app EXCEPT !.status = "finished"])
  /\ At("saving")
  /\ UNCHANGED <<server, wire, journal, ask, flush, restarts>>

(***************************************************************************)
(* halt, and crashes.                                                      *)
(***************************************************************************)
\* Pause or Stop of the student; invalidate when the teacher's stop arrives.
Halts ==
  /\ app.status \notin Over \cup {Absent} /\ work.halt = "no"
  /\ \E to \in {"resting", "stopped"} :
       work' = [work EXCEPT !.halt = to]
  /\ UNCHANGED <<server, wire, app, journal, writes, saver, ask, flush, restarts>>

\* The work has ended: the status moves, to unknown if an action is unsettled.
HaltMoves ==
  /\ work.halt # "no" /\ work.pc = "idle" /\ Settled
  /\ IF app.status \in Over \/ (app.status = "unknown" /\ work.halt = "resting")
       THEN \* nothing to do, or the transition throws
            work' = Idle /\ UNCHANGED <<app, writes, saver>>
       ELSE /\ \/ Persist("work", [app EXCEPT !.status = work.halt, !.child = 0])
               \/ /\ work.halt = "resting" /\ app.child # 0
                  /\ Persist("work", [app EXCEPT !.status = "unknown", !.child = 0])
            /\ work' = [Idle EXCEPT !.pc = "saving"]
  /\ UNCHANGED <<server, wire, journal, ask, flush, restarts>>

\* latest and activate: a lesson that is over is not read again.
Restored(l) ==
  IF l.status \in Over \cup {Absent} THEN NoLesson
  ELSE [l EXCEPT !.status = IF @ = "unknown" \/ l.child # 0 THEN "unknown" ELSE "resting",
                 !.rev = @ + 1]

\* The application dies at any moment; what it had sent may still arrive.
Restart ==
  /\ restarts < MaxRestarts /\ restarts' = restarts + 1
  /\ journal.rev < MaxRevision
  /\ app' = Restored(journal)
  /\ writes' = IF app'.status = Absent THEN << >> ELSE <<<<"flush", app'>>>>
  /\ work' = Idle /\ saver' = [w \in Writers |-> NotSaving]
  /\ ask' = [w \in Writers |-> "none"] /\ flush' = NoReport
  /\ wire' = {[m EXCEPT !.late = TRUE] : m \in wire}
  /\ Cardinality(wire') <= MaxLate
  /\ UNCHANGED <<server, journal>>

Execute ==
  \/ Launch \/ Prepared \/ Starts \/ StartAnswered
  \/ LooksUpStart \/ Authorizes \/ ShowsMaterial \/ Attempts
  \/ ClaimsStep \/ StepAnswered \/ LooksUpStep \/ ToolSaves
  \/ ChildEnds \/ WorkEnds \/ Finishes

Device ==
  \/ Execute \/ Write \/ Halts \/ HaltMoves \/ Restart
  \/ \E w \in {"work", "tool"} : Saved(w) \/ SendReport(w) \/ Reported(w)
  \/ FlushSends \/ FlushAnswered

Next ==
  \/ Device
  \/ \E m \in wire : Serve(m) \/ GivesUp(m)
  \/ TeacherStops \/ OtherStarts \/ OtherReports

Spec == Init /\ [][Next]_vars

(***************************************************************************)
(* Properties.                                                             *)
(***************************************************************************)
\* The answers this computer has been given about the start are true, through
\* lost answers, late requests and restarts: the lesson it takes for its own is
\* its own, and it is never told that its own lesson is another computer's.
ClaimIsRight ==
  /\ app.claim = "mine" => server.owner = Identity(app)
  /\ app.claim = "theirs" => server.owner.by # "me"

\* The task that runs for an attempt is the one the server has, and every task
\* the server has is in the journal: no attempt is ever claimed with two tasks.
StepsAgree ==
  /\ app.child # 0 => server.steps[app.child] = TaskOf(app, app.child)
  /\ \A n \in 1 .. MaxAttempts : server.steps[n] # Nobody =>
       journal.attempts >= n /\ server.steps[n] = TaskOf(journal, n)

\* A report that persist has sent is in the journal until the server has it or a
\* later one, so that neither a lost answer nor a crash costs it.
ReportedIsDurable ==
  \A m \in wire : m.kind = "report" /\ m.by # "flush" =>
    m.report \in journal.reports \/ m.report.rev <= server.report.rev

\* Nothing is being saved or waits to be reported.  (The write of activate after a
\* restart reports nothing.)
Quiet ==
  /\ restarts = 0 /\ app.reports = {} /\ flush = NoReport
  /\ \A w \in Writers : saver[w].pc = "idle"

\* Once all is quiet the teacher sees the lesson as it is on its owner's computer,
\* in whatever order its reports have arrived.
SeenIsTrue ==
  Quiet /\ app.claim = "mine" /\ server.report.by # "other" =>
    server.report.rev = app.rev /\ server.status = app.status

\* docs/lesson-agent-architecture-spec.md:507: a computer that was refused the
\* lesson does not execute it.
OneExecution ==
  work.pc \in {"material", "attempt", "running"} => app.claim = "mine"
=============================================================================
