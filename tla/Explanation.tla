------------------------------ MODULE Explanation ------------------------------
(***************************************************************************)
(* The explanation of one class broadcast on a student's computer:         *)
(* ClassroomGuidanceCoordinator, CoachRuntime.runExplanation, the device   *)
(* of TaskApplicationService and the claim and reports of guidance.rs.     *)
(*                                                                         *)
(* A start claims the broadcast on the server, persists each phase before  *)
(* it acts on it, and dispatches a coach task.  Between any two of its     *)
(* steps the student may stop, start again, leave the class or sign out,   *)
(* the computer may crash, and a request may lose its answer.              *)
(*                                                                         *)
(* Simplifications:                                                        *)
(*  - The journal is read and the device reserved in one step.             *)
(*  - A journal names one task, so its starts share that task.             *)
(*  - Observations, the mode and the texts are left out: an observation is *)
(*    paid for as a model request is.                                      *)
(*  - One stop and one leave of the coordinator are under way at a time.   *)
(*  - Other work on this computer is left out: TaskDesk has it.            *)
(*  - The other computer of the student only claims.                       *)
(***************************************************************************)
EXTENDS Naturals, Sequences, FiniteSets

CONSTANTS
  MaxStarts,    \* bound: starts that get the device
  MaxRequests,  \* model requests of one explanation (8 in the code)
  MaxBreaks,    \* bound: restarts of this computer, and times the student signs out
  MaxLate       \* bound: requests under way whose sender has given up

ASSUME ExplanationBoundsAssumption ==
  /\ MaxStarts \in Nat \ {0} /\ MaxRequests \in Nat \ {0}
  /\ MaxBreaks \in Nat /\ MaxLate \in Nat

Starts == 1 .. MaxStarts
Ended == {"finished", "cancelled", "failed", "unknown"}     \* of state.active
Final == Ended \cup {"interrupted"}                         \* of the server's row
Statuses == Final \cup {"accepted", "active", "absent"}
Cancels == {"stop", "leave", "task", "undo"}                \* who calls tasks.cancel

VARIABLES
  server,   \* knowledge_classroom_guidance_starts; is the class session open
  wire,     \* requests that the server has not served
  dev,      \* this computer: the fields of Device
  here,     \* "in" the class, has "left" it, or is signed "out"
  seen      \* history: dispatches, restarts and sign-outs, an early stop, a task that nobody
            \* finishes, a leave to ask the model

vars == <<server, wire, dev, here, seen>>

NoReport == [status |-> "absent", rev |-> 0]
NoJournal == [phase |-> "none", status |-> "absent", rev |-> 0, report |-> NoReport,
              asked |-> 0, text |-> FALSE]
Journals ==
  [phase : {"none", "claiming", "claimed", "dispatching", "running", "unknown", "terminal"},
   status : Statuses, rev : Nat, report : [status : Statuses, rev : Nat],
   asked : 0 .. MaxRequests, text : BOOLEAN]

HasClaim(j) == j.status # "absent"
HasReport(j) == j.report # NoReport
NextRev(j) == (IF j.rev > j.report.rev THEN j.rev ELSE j.report.rev) + 1

\* A call that waits in the store's queue, and the journal that it writes.
Calls == [by : Cancels \cup {"start", "coach", "terminal", "report", "restore"},
          n : 0 .. MaxStarts, j : Journals, status : Ended \cup {"none"}]

Device ==
  [disk : Journals,                   \* the journal's file
   writes : Seq(Calls),               \* the store's queue
   obj : [Starts -> Journals],        \* the journal object of each start
   cur : 0 .. MaxStarts,              \* this.journal: the start whose object it is
   start : [Starts -> [pc : {"unused", "preparing", "writing", "claiming", "claimed", "lost",
                             "round", "dispatching", "submitting", "creating", "undoing", "running",
                             "failing", "done"},
                       stale : BOOLEAN]],   \* the generation has changed
   coach : {"off", "round", "consuming", "asking", "texting", "waiting"},
   active : Ended \cup {"none", "starting", "working", "waiting"},  \* state.active.phase
   busy : [reserved : BOOLEAN, route : BOOLEAN],
   task : {"none", "ready", "going", "over"},                        \* TaskRuntime's phase
   cancels : [Cancels -> [on : BOOLEAN, n : 0 .. MaxStarts, attached : BOOLEAN]],
   reports : [queue : Seq([status : Statuses, n : Starts]),        \* reportQueue
              pc : {"idle", "storing", "sending", "clearing"},
              queued : Statuses \cup {"none"}],                    \* queuedStatuses
   restore : [pc : {"idle", "storing", "sending", "clearing"}, j : Journals]]

Free == [reserved |-> FALSE, route |-> FALSE]
NoCancel == [on |-> FALSE, n |-> 0, attached |-> FALSE]

\* A process that has just begun, and the file that it finds.
Fresh(disk) ==
  [disk |-> disk, writes |-> << >>, obj |-> [n \in Starts |-> NoJournal], cur |-> 0,
   start |-> [n \in Starts |-> [pc |-> "unused", stale |-> FALSE]], coach |-> "off",
   active |-> "none", busy |-> Free, task |-> "none", cancels |-> [c \in Cancels |-> NoCancel],
   reports |-> [queue |-> << >>, pc |-> "idle", queued |-> "none"],
   restore |-> [pc |-> "idle", j |-> NoJournal]]

Rows == [owner : {"none", "me", "other"}, status : Statuses, rev : Nat, open : BOOLEAN]
Requests == [kind : {"claim", "report", "restore"}, n : 0 .. MaxStarts,
             report : [status : Statuses, rev : Nat], late : BOOLEAN]

TypeOK ==
  /\ server \in Rows /\ dev \in Device /\ here \in {"in", "left", "out"}
  /\ \A m \in wire : m \in Requests
  /\ seen \in [dispatches : Nat, breaks : 0 .. MaxBreaks, early : BOOLEAN, lost : BOOLEAN,
              may : BOOLEAN]

Init ==
  /\ server = [owner |-> "none", status |-> "absent", rev |-> 0, open |-> TRUE]
  /\ wire = {} /\ dev = Fresh(NoJournal) /\ here = "in"
  /\ seen = [dispatches |-> 0, breaks |-> 0, early |-> FALSE,
             lost |-> FALSE, may |-> FALSE]

(***************************************************************************)
(* What a step does to this computer: functions from one state of it to    *)
(* another, so that a handler is the composition of the calls it makes.    *)
(***************************************************************************)
\* A write of the journal object of start n, or a cancel's, joins the queue.
Queue(d, by, n, status) ==
  [d EXCEPT !.writes = Append(@, [by |-> by, n |-> n, status |-> status,
                                  j |-> IF n = 0 THEN NoJournal ELSE d.obj[n]])]
Write(d, by, n) == Queue(d, by, n, "none")

\* The first call of the queue is done; only a cancel's is about another file.
Landed(d) ==
  [d EXCEPT !.disk = IF Head(d.writes).by \in Cancels THEN @ ELSE Head(d.writes).j,
            !.writes = Tail(@)]
Lands(by) == dev.writes # << >> /\ Head(dev.writes).by = by

At(d, n, pc) == [d EXCEPT !.start[n] = [pc |-> pc, stale |-> pc # "done" /\ @.stale]]
Phase(d, n, phase) == [d EXCEPT !.obj[n].phase = phase]

\* state.active becomes another object.
Card(d, phase) ==
  [d EXCEPT !.active = phase, !.cancels = [c \in Cancels |-> [d.cancels[c] EXCEPT !.attached = FALSE]]]

\* The first report of the queue gets a revision and is saved.
ReportBegins(d) ==
  IF d.reports.pc # "idle" \/ d.reports.queue = << >> THEN d
  ELSE LET r == Head(d.reports.queue)
           report == [status |-> r.status, rev |-> NextRev(d.obj[r.n])]
       IN Write([d EXCEPT !.obj[r.n].report = report, !.reports.pc = "storing"], "report", r.n)

\* report: one report of a status, and none after a final one.
Told(d, status, n) ==
  IF ~HasClaim(d.obj[n]) \/ d.reports.queued \in Final \cup {status} THEN d
  ELSE ReportBegins([d EXCEPT !.reports.queue = Append(@, [status |-> status, n |-> n]),
                              !.reports.queued = status])

\* onTerminal of the coordinator: the card, the journal, and later the report.
Terminal(d, status) ==
  IF d.active = "none" THEN d
  ELSE LET e == Phase([d EXCEPT !.active = status], d.cur,
                      IF status = "unknown" THEN "unknown" ELSE "terminal")
       IN Queue(e, "terminal", d.cur, status)

\* The coach ends by itself: onTerminal, and finish of the task.
Ends(d, status) ==
  Terminal([d EXCEPT !.coach = "off", !.busy = Free, !.task = "over"], status)

\* Mutant of Aborted: the coach is not told.
AbortedLater(d) == d

\* coachRuntime.cancel, for a task that is routed to it.
Aborted(d) == [d EXCEPT !.coach = IF d.busy.route THEN "off" ELSE @]

\* tasks.cancel, once its write is done, and onTaskCancelled.
TaskCancelled(d) ==
  LET e == [Aborted(d) EXCEPT !.busy.route = FALSE, !.task = "over"]
  IN IF d.active \in Ended \cup {"none"} THEN e ELSE Terminal(e, "cancelled")

\* Mutant of Caught: the device stays reserved.
CaughtHolding(d, n) ==
  LET j == d.obj[n]
      shown == IF d.start[n].stale \/ d.active = "none" THEN d.active ELSE "failed"
  IN IF j.phase \in {"claiming", "dispatching"}
     THEN Write(At(Phase(d, n, "unknown"), n, "failing"), "start", n)
     ELSE At([d EXCEPT !.active = IF HasClaim(j) THEN shown ELSE @], n, "done")

\* The catch of startExplanation: what may have happened is unknown.
Caught(d, n) ==
  LET j == d.obj[n]
      e == [d EXCEPT !.busy.reserved = FALSE]
      shown == IF d.start[n].stale \/ d.active = "none" THEN d.active ELSE "failed"
  IN IF j.phase \in {"claiming", "dispatching"}
     THEN Write(At(Phase(e, n, "unknown"), n, "failing"), "start", n)
     ELSE At([e EXCEPT !.active = IF HasClaim(j) THEN shown ELSE @], n, "done")

\* The generation changes: every start under way will see it.
Staled(d) ==
  [d EXCEPT !.start = [n \in Starts |->
     [d.start[n] EXCEPT !.stale = d.start[n].pc \notin {"unused", "done"}]]]

Request(kind, n, report) == [kind |-> kind, n |-> n, report |-> report, late |-> FALSE]

(***************************************************************************)
(* The server: guidance.rs, under the lock of the class session.           *)
(***************************************************************************)
\* Mutant of OwnedBy: any request of this student is its owner.
OwnedByStudent(who) == who \in {"me", "other"}

\* ownedByThisRequest: the identity of the start is compared with the request.
OwnedBy(who) == who = "me"

\* claim_guidance: an older claim is returned, even of a session that is closed.
ClaimRows ==
  IF server.owner = "none" /\ server.open
  THEN [server EXCEPT !.owner = "me", !.status = "accepted"] ELSE server

\* report_guidance: an older revision changes nothing, the end is final.
Refused(r) ==
  \/ r.rev = server.rev /\ r.status # server.status
  \/ /\ r.rev > server.rev
     /\ \/ server.status \notin {"accepted", "active"}
        \/ r.status = "active" /\ ~server.open
ReportRows(r) ==
  IF ~Refused(r) /\ r.rev > server.rev
  THEN [server EXCEPT !.status = r.status, !.rev = r.rev] ELSE server

\* The class session ends; it matters to a claim and to the report of a start.
SessionCloses ==
  /\ server.open /\ server.status \in {"absent", "accepted"}
  /\ server' = [server EXCEPT !.open = FALSE]
  /\ UNCHANGED <<wire, dev, here, seen>>

\* The student's other computer has the broadcast too.
OtherClaims ==
  /\ server.owner = "none" /\ server.open
  /\ server' = [server EXCEPT !.owner = "other", !.status = "accepted"]
  /\ UNCHANGED <<wire, dev, here, seen>>

\* A request whose sender does not wait for it any longer.
ServeLate(m) ==
  /\ m \in wire /\ m.late /\ wire' = wire \ {m}
  /\ server' = IF m.kind = "claim" THEN ClaimRows ELSE ReportRows(m.report)
  /\ UNCHANGED <<dev, here, seen>>

\* The request is lost, or it arrives later.
GivesUp(m) ==
  \/ wire' = wire \ {m}
  \/ /\ Cardinality({x \in wire : x.late}) < MaxLate
     /\ wire' = (wire \ {m}) \cup {[m EXCEPT !.late = TRUE]}

(***************************************************************************)
(* startExplanation.                                                       *)
(***************************************************************************)
\* isTaskDeviceBusy.
Busy == dev.busy.reserved \/ (dev.busy.route /\ dev.task \in {"ready", "going"})

\* Only an explanation that nobody has claimed, or whose claim was not used.
MayStart(j) == j.phase \in {"none", "claimed"} /\ j.asked = 0

\* The journal is read and the device reserved.
Begin(n) ==
  /\ here = "in" /\ dev.writes = << >> /\ MayStart(dev.disk) /\ ~Busy
  /\ dev.start[n].pc = "unused" /\ \A m \in 1 .. n - 1 : dev.start[m].pc # "unused"
  /\ dev' = At([dev EXCEPT !.obj[n] = dev.disk, !.busy.reserved = TRUE], n, "preparing")
  /\ UNCHANGED <<server, wire, here, seen>>

\* The device is busy: the catch marks the card of the same task as failed.
BeginRefused ==
  /\ here = "in" /\ dev.writes = << >> /\ dev.disk.phase = "claimed" /\ Busy
  /\ dev.active # "none"
  /\ dev' = [dev EXCEPT !.active = "failed"]
  /\ UNCHANGED <<server, wire, here, seen>>

\* It has started before: its last text is shown again.
ShowAgain ==
  /\ here = "in" /\ dev.writes = << >> /\ ~MayStart(dev.disk)
  /\ HasClaim(dev.disk) /\ dev.disk.text /\ dev.active \in Ended \cup {"none"}
  /\ dev' = Card(dev, "unknown")
  /\ UNCHANGED <<server, wire, here, seen>>

\* The claim is ours: the card is shown and the assignment is read again.
Opened(d, n) == At(Card([d EXCEPT !.cur = n], "starting"), n, "round")

\* The server's capabilities, the assignment and the attempt; then a new journal
\* is saved before the claim.
Prepared(n) ==
  /\ dev.start[n].pc = "preparing"
  /\ \/ dev' = Caught(dev, n)
     \/ /\ ~dev.start[n].stale /\ dev.obj[n].phase = "none"
        /\ dev' = Write(At(Phase(dev, n, "claiming"), n, "writing"), "start", n)
     \/ /\ ~dev.start[n].stale /\ dev.obj[n].phase # "none"
        /\ dev' = Opened(dev, n)
  /\ UNCHANGED <<server, wire, here, seen>>

\* claimClassroomGuidance is answered, and what it said is saved.
Claims(m) ==
  /\ m \in wire /\ m.kind = "claim" /\ ~m.late
  /\ LET rows == ClaimRows
         d == [dev EXCEPT !.obj[m.n].status = rows.status, !.obj[m.n].rev = rows.rev]
     IN \/ /\ rows.owner # "none"
           /\ server' = rows /\ wire' = wire \ {m}
           /\ dev' = IF OwnedBy(rows.owner)
                THEN Write(At(Phase(d, m.n, "claimed"), m.n, "claimed"), "start", m.n)
                ELSE Write(At(Phase(d, m.n, "terminal"), m.n, "lost"), "start", m.n)
        \/ /\ rows.owner = "none" /\ wire' = wire \ {m}
           /\ dev' = Caught(dev, m.n) /\ UNCHANGED server
        \/ GivesUp(m) /\ dev' = Caught(dev, m.n) /\ UNCHANGED server
  /\ UNCHANGED <<here, seen>>

\* beforeRound of the start; then the dispatch is saved before it is made.
Rounded(n) ==
  /\ dev.start[n].pc = "round"
  /\ \/ dev' = Caught(dev, n)
     \/ /\ ~dev.start[n].stale
        /\ dev' = Write(At(Phase(dev, n, "dispatching"), n, "dispatching"), "start", n)
  /\ UNCHANGED <<server, wire, here, seen>>

\* submitClassroomExplanation: the account is looked at, and the task made.
Admitted(n) ==
  /\ dev.start[n].pc = "submitting"
  /\ \/ here = "out" /\ dev' = Caught(dev, n)
     \/ dev' = At([dev EXCEPT !.task = "ready"], n, "creating")
  /\ UNCHANGED <<server, wire, here, seen>>

\* Its thread is on the disk and its route is set.  Only a task that is ready starts, and
\* only one coach; a start that was stopped meanwhile takes it back.  Nobody takes back
\* the route of a task that goes on without a coach.
Submitted(n) ==
  /\ dev.start[n].pc = "creating"
  /\ LET d == [dev EXCEPT !.busy.route = TRUE]
         e == [d EXCEPT !.coach = "round", !.task = "going", !.busy.reserved = FALSE]
     IN IF d.task # "ready"
        THEN /\ dev' = Caught(d, n)
             /\ seen' = [seen EXCEPT !.lost = @ \/ (d.task = "going" /\ d.coach = "off")]
        ELSE IF d.coach # "off"
        THEN dev' = Caught([d EXCEPT !.busy = Free, !.task = "over"], n) /\ UNCHANGED seen
        ELSE /\ dev' = IF d.start[n].stale
                THEN Write(At([e EXCEPT !.cancels["undo"].on = TRUE], n, "undoing"), "undo", 0)
                ELSE Write(At(Phase(e, n, "running"), n, "running"), "start", n)
             /\ seen' = [seen EXCEPT !.dispatches = @ + 1, !.may = TRUE]
  /\ UNCHANGED <<server, wire, here>>

\* A write of the start is done.
StartLands ==
  /\ Lands("start")
  /\ LET n == Head(dev.writes).n
         d == Landed(dev)
         j == d.obj[n]
         pc == d.start[n].pc
     IN /\ dev' =
             CASE pc = "writing" -> At([d EXCEPT !.cur = n], n, "claiming")
               [] pc = "claimed" -> IF d.start[n].stale THEN Caught(d, n) ELSE Opened(d, n)
               [] pc = "lost" -> Caught(d, n)
               [] pc = "dispatching" ->
                    IF d.busy.reserved THEN At(d, n, "submitting") ELSE Caught(d, n)
               [] pc = "running" ->
                    IF j.phase # "running" \/ d.start[n].stale \/ d.active = "none"
                    THEN At(d, n, "done") ELSE Told(At(d, n, "done"), "active", n)
               [] OTHER ->
                    At([d EXCEPT !.active = IF d.start[n].stale \/ @ = "none" THEN @
                                            ELSE IF j.phase = "unknown" THEN "unknown"
                                            ELSE "failed"], n, "done")
        /\ wire' = IF pc = "writing" THEN wire \cup {Request("claim", n, NoReport)} ELSE wire
  /\ UNCHANGED <<server, here, seen>>

\* The student has left while the task was submitted: it is cancelled.  Without an account
\* that is refused, and a coach goes on that nobody stops.
UndoLands ==
  /\ Lands("undo")
  /\ \E n \in Starts :
       /\ dev.start[n].pc = "undoing"
       /\ LET d == [Landed(dev) EXCEPT !.cancels["undo"] = NoCancel]
          IN \/ dev' = Caught(TaskCancelled(d), n) /\ UNCHANGED seen
             \/ /\ here = "out" /\ dev' = Caught(d, n)
                /\ seen' = [seen EXCEPT !.lost = @ \/ d.coach # "off"]
  /\ UNCHANGED <<server, wire, here>>

(***************************************************************************)
(* runExplanation.                                                         *)
(***************************************************************************)
\* onStatus, when there is a card.
Status(d, phase) == [d EXCEPT !.active = IF @ = "none" THEN @ ELSE phase]

\* awaitContinuation: the text is saved first.
Texts(d) ==
  Write([Status(d, "waiting") EXCEPT !.coach = "texting", !.obj[d.cur].text = TRUE], "coach", d.cur)

\* Mutant of MayAsk: the limit is looked at too late.
MayAskOnceMore(j) == j.asked <= MaxRequests

\* The explanation has model requests left.
MayAsk(j) == j.asked < MaxRequests

\* A round: access is checked, and the request is paid for before it is made.
CoachRound ==
  /\ dev.coach = "round"
  /\ \/ ~MayAsk(dev.obj[dev.cur]) /\ dev' = Ends(dev, "finished")
     \/ MayAsk(dev.obj[dev.cur]) /\ dev' = Texts(dev)
     \/ /\ MayAsk(dev.obj[dev.cur]) /\ here = "in"
        /\ dev' = Write([Status(dev, "working") EXCEPT !.coach = "consuming",
                                                      !.obj[dev.cur].asked = @ + 1],
                        "coach", dev.cur)
  /\ UNCHANGED <<server, wire, here, seen>>

\* Mutant of Limited: a request refused by the rate limiter is made again.
LimitedRetries(d) == [d EXCEPT !.coach = "round"]

\* The rate limiter refuses: only the student may ask again.
Limited(d) == IF MayAsk(d.obj[d.cur]) THEN Texts(d) ELSE Ends(d, "failed")

\* decide: the end, a step to show, a refusal, an error, or nobody knows.
ModelAnswers ==
  /\ dev.coach = "asking"
  /\ \/ dev' = Texts(dev)
     \/ dev' = Limited(dev)
     \/ \E status \in {"finished", "failed", "unknown"} : dev' = Ends(dev, status)
  /\ UNCHANGED <<server, wire, here, seen>>

\* A write of the coach is done; an aborted coach does not go on.  Without a card
\* there is nothing to wait for.
CoachLands ==
  /\ Lands("coach")
  /\ LET d == Landed(dev)
     IN /\ dev' = CASE d.coach = "consuming" -> [d EXCEPT !.coach = "asking"]
                    [] d.coach = "texting" ->
                         IF d.active = "none" THEN Ends(d, "failed")
                         ELSE [d EXCEPT !.coach = "waiting", !.active = "waiting"]
                    [] OTHER -> d
        /\ seen' = IF d.coach = "consuming" THEN [seen EXCEPT !.may = FALSE] ELSE seen
  /\ UNCHANGED <<server, wire, here>>

\* continue: the student finishes, or goes on.
Continue ==
  /\ dev.coach = "waiting" /\ dev.active = "waiting"
  /\ \/ dev' = Ends([dev EXCEPT !.active = "working"], "finished") /\ UNCHANGED seen
     \/ /\ dev' = [dev EXCEPT !.active = "working", !.coach = "round"]
        /\ seen' = [seen EXCEPT !.may = TRUE]
  /\ UNCHANGED <<server, wire, here>>

\* The end is saved, then told.
TerminalLands ==
  /\ Lands("terminal")
  /\ LET w == Head(dev.writes) IN dev' = Told(Landed(dev), w.status, w.n)
  /\ UNCHANGED <<server, wire, here, seen>>

(***************************************************************************)
(* stop, invalidate and the task's own Stop.                               *)
(***************************************************************************)
Calling(d, c) ==
  Write([d EXCEPT !.cancels[c] = [on |-> TRUE, n |-> d.cur, attached |-> c = "stop"]], c, 0)

\* A coach that waits fails first; either write may be the first.
Rejected(d, c) ==
  IF d.coach = "waiting" THEN {Ends(Calling(d, c), "failed"), Calling(Ends(d, "failed"), c)}
  ELSE {Calling(d, c)}

\* stop: by the student, or when ten minutes are over.  Any card can be stopped, also
\* one that has failed.
Stop ==
  /\ dev.active # "none" /\ ~dev.cancels["stop"].on
  /\ dev' \in Rejected(Staled(dev), "stop")
  /\ seen' = [seen EXCEPT
       !.early = @ \/ (dev.active \in Ended \cup {"starting"} /\ seen.dispatches = 0)]
  /\ UNCHANGED <<server, wire, here>>

\* invalidate: the card of this session goes, and its task is stopped.
Invalidated(d) ==
  IF d.active \in Ended \cup {"none"} THEN {Card(Staled(d), "none")}
  ELSE Rejected(Card(Staled(d), "none"), "leave")

\* The student leaves the class, or joins another one.
Leave ==
  /\ here = "in" /\ here' = "left" /\ ~dev.cancels["leave"].on
  /\ dev' \in Invalidated(dev)
  /\ seen' = [seen EXCEPT !.early = @ \/ (dev.active = "starting" /\ seen.dispatches = 0)]
  /\ UNCHANGED <<server, wire>>

\* Signing out aborts the coach before the coordinator hears of it.
SignOut ==
  /\ here # "out" /\ here' = "out" /\ seen.breaks < MaxBreaks /\ ~dev.cancels["leave"].on
  /\ dev' \in Invalidated(Aborted(dev))
  /\ seen' = [seen EXCEPT
       !.breaks = @ + 1,
       !.early = @ \/ (dev.active = "starting" /\ seen.dispatches = 0),
       !.lost = @ \/ (dev.active \in Ended \cup {"none"} /\ Aborted(dev).coach # dev.coach)]
  /\ UNCHANGED <<server, wire>>

\* The ordinary Stop of the task, by the companion.
StopTask ==
  /\ here # "out" /\ dev.coach # "off" /\ ~dev.cancels["task"].on
  /\ dev' = Calling(dev, "task")
  /\ UNCHANGED <<server, wire, here, seen>>

\* Its thread is on the disk, and this process has the task.
MayHaveTask == dev.task # "none"
                 /\ (seen.dispatches > 0 \/ \E n \in Starts : dev.start[n].pc = "creating")
HasTask == dev.task # "none" /\ seen.dispatches > 0

\* tasks.cancel has written; it rejects without a task or an account, and then
\* stop finishes the task without aborting the coach.
CancelLands(c) ==
  /\ Lands(c)
  /\ LET call == dev.cancels[c]
         d == [Landed(dev) EXCEPT !.cancels[c] = NoCancel]
         Reported(e) ==
           LET f == [e EXCEPT !.active = IF call.attached THEN "cancelled" ELSE @]
           IN IF call.n = 0 \/ f.obj[call.n].status = "cancelled" THEN f
              ELSE Told(f, "cancelled", call.n)
     IN \/ /\ MayHaveTask
           /\ dev' = IF c = "task" THEN TaskCancelled(d) ELSE Reported(TaskCancelled(d))
        \/ /\ ~HasTask \/ here = "out"
           /\ dev' = IF c = "task" THEN d ELSE Reported([d EXCEPT !.busy = Free])
  /\ UNCHANGED <<server, wire, here, seen>>

(***************************************************************************)
(* The reports, and restore.                                               *)
(***************************************************************************)
ReportDone(d) == ReportBegins([d EXCEPT !.reports.pc = "idle", !.reports.queue = Tail(@)])

ReportLands ==
  /\ Lands("report")
  /\ LET n == Head(dev.writes).n
         d == Landed(dev)
     IN IF d.reports.pc = "storing"
        THEN /\ dev' = [d EXCEPT !.reports.pc = "sending"]
             /\ wire' = wire \cup {Request("report", n, d.obj[n].report)}
        ELSE dev' = ReportDone(d) /\ UNCHANGED wire
  /\ UNCHANGED <<server, here, seen>>

\* The journal after the server has accepted its report.
Accepted(j, rows) == [j EXCEPT !.status = rows.status, !.rev = rows.rev, !.report = NoReport]

\* An accepted report is forgotten; another one is kept for the next restore.
Reports(m) ==
  /\ m \in wire /\ m.kind = "report" /\ ~m.late
  /\ LET rows == ReportRows(m.report)
     IN \/ /\ ~Refused(m.report) /\ server' = rows /\ wire' = wire \ {m}
           /\ dev' = Write([dev EXCEPT !.obj[m.n] = Accepted(@, rows), !.reports.pc = "clearing"],
                           "report", m.n)
        \/ Refused(m.report) /\ wire' = wire \ {m} /\ dev' = ReportDone(dev) /\ UNCHANGED server
        \/ GivesUp(m) /\ dev' = ReportDone(dev) /\ UNCHANGED server
  /\ UNCHANGED <<here, seen>>

\* Mutant of Reconciled: a dispatch that may not have happened is taken back.
ReconciledAsClaimed(j) ==
  IF j.phase = "dispatching" THEN [j EXCEPT !.phase = "claimed"] ELSE j

\* restore: a running explanation is not known to run, and is told as interrupted.
Reconciled(j) ==
  IF j.phase \in {"running", "dispatching"}
  THEN [j EXCEPT !.phase = "unknown",
                 !.report = IF HasClaim(j) THEN [status |-> "interrupted", rev |-> NextRev(j)] ELSE @]
  ELSE j

RestoreWrites(d, pc) ==
  [d EXCEPT !.restore.pc = pc,
            !.writes = Append(@, [by |-> "restore", n |-> 0, j |-> d.restore.j, status |-> "none"])]

\* The file has been read, into an object of its own.
Restored(d) ==
  LET j == Reconciled(d.disk)
      e == [d EXCEPT !.restore = [pc |-> "sending", j |-> j]]
  IN IF j # d.disk THEN RestoreWrites(e, "storing")
     ELSE IF HasClaim(j) /\ HasReport(j) THEN e ELSE d
RestoreWire(d) ==
  IF d.restore.pc = "sending" THEN {Request("restore", 0, d.restore.j.report)} ELSE {}

RestoreLands ==
  /\ Lands("restore")
  /\ LET d == Landed(dev)
     IN IF d.restore.pc = "storing" /\ HasClaim(d.restore.j) /\ HasReport(d.restore.j)
        THEN LET e == [d EXCEPT !.restore.pc = "sending"]
             IN dev' = e /\ wire' = wire \cup RestoreWire(e)
        ELSE dev' = [d EXCEPT !.restore = [pc |-> "idle", j |-> NoJournal]] /\ UNCHANGED wire
  /\ UNCHANGED <<server, here, seen>>

RestoreReports(m) ==
  /\ m \in wire /\ m.kind = "restore" /\ ~m.late
  /\ LET rows == ReportRows(m.report)
         idle == [dev EXCEPT !.restore = [pc |-> "idle", j |-> NoJournal]]
     IN \/ /\ ~Refused(m.report) /\ server' = rows /\ wire' = wire \ {m}
           /\ dev' = RestoreWrites([dev EXCEPT !.restore.j = Accepted(@, rows)], "clearing")
        \/ Refused(m.report) /\ wire' = wire \ {m} /\ dev' = idle /\ UNCHANGED server
        \/ GivesUp(m) /\ dev' = idle /\ UNCHANGED server
  /\ UNCHANGED <<here, seen>>

\* The student joins the class again.
Return ==
  /\ here = "left" /\ here' = "in"
  /\ UNCHANGED <<server, wire, dev, seen>>

\* Signing in restores.
SignIn ==
  /\ here = "out" /\ here' = "left"
  /\ dev.restore.pc = "idle" /\ dev.writes = << >>
  /\ dev' = Restored(dev) /\ wire' = wire \cup RestoreWire(dev')
  /\ UNCHANGED <<server, seen>>

\* A crash: the file is left, and requests under way; then restore.
Restart ==
  /\ seen.breaks < MaxBreaks
  /\ seen' = [seen EXCEPT !.breaks = @ + 1]
  /\ LET used == [n \in Starts |-> [pc |-> IF dev.start[n].pc = "unused" THEN "unused" ELSE "done",
                                    stale |-> FALSE]]
     IN dev' = Restored([Fresh(dev.disk) EXCEPT !.start = used])
  /\ \E late \in SUBSET {[m EXCEPT !.late = TRUE] : m \in wire} :
       Cardinality(late) <= MaxLate /\ wire' = late \cup RestoreWire(dev')
  /\ here' = "left"
  /\ UNCHANGED server

Store == StartLands \/ UndoLands \/ CoachLands \/ TerminalLands \/ ReportLands \/ RestoreLands
           \/ \E c \in Cancels \ {"undo"} : CancelLands(c)

Coach == CoachRound \/ ModelAnswers

Next ==
  \/ Store \/ Coach
  \/ \E n \in Starts : Begin(n) \/ Prepared(n) \/ Rounded(n) \/ Admitted(n) \/ Submitted(n)
  \/ BeginRefused \/ ShowAgain \/ Continue \/ Stop \/ StopTask
  \/ Leave \/ SignOut \/ Return \/ SignIn \/ Restart
  \/ SessionCloses \/ OtherClaims
  \/ \E m \in wire : Claims(m) \/ Reports(m) \/ RestoreReports(m) \/ ServeLate(m)

Spec == Init /\ [][Next]_vars

\* The store's queue is worked off, and the model answers or its request times out.
FairSpec == Spec /\ WF_vars(Store) /\ WF_vars(Coach)

(***************************************************************************)
(* Properties.                                                             *)
(***************************************************************************)
\* An explanation is dispatched once; only a student who stopped it before it was
\* dispatched, while it started or after its start had failed, may start it again.
NeverReplayed == seen.dispatches <= 1 \/ seen.early

\* Every model request has a dispatch or a Next of its own.
AskedForOnce ==
  [][dev.coach = "consuming" /\ dev'.coach = "asking" => seen.may]_vars

\* The coach asks the model only under a claim of this computer, and not after the
\* teacher was told that the explanation is over, unless the student stopped it before
\* it was dispatched (while it started, or a start that had failed) or nobody could.
AsksUnderClaim ==
  dev.coach = "asking" =>
    server.owner = "me" /\ (server.status \notin Final \/ seen.early \/ seen.lost)

\* The device is busy only while something is under way that will free it.  Nobody
\* finishes the task of a coach that signing out aborts after its card has ended, nor
\* one that is routed again after its coach has gone.
DeviceIsFreed ==
  Busy => \/ dev.coach # "off" \/ seen.lost
          \/ \E n \in Starts : dev.start[n].pc \notin {"unused", "done"}
          \/ \E c \in Cancels : dev.cancels[c].on

\* A stop ends the coach, whether or not the server can be reached.
StopEnds == (\E c \in {"stop", "leave"} : dev.cancels[c].on) ~> dev.coach = "off"
================================================================================
