------------------------- MODULE LessonDeliveryProofs -------------------------
(***************************************************************************)
(* Theorems about LessonDelivery, for any bounds: whatever is lost, late or *)
(* repeated, and wherever the computer dies.                                *)
(*                                                                         *)
(* The copies of the lesson are the journal, those that wait in the store's *)
(* queue and the one in memory; each follows those before it.  What the     *)
(* server is asked is in the journal first, so that what it has of this     *)
(* computer is in the journal too, and stays there.                         *)
(***************************************************************************)
EXTENDS LessonDelivery, TLAPS

Works == {"work", "tool"}
Saves == [pc : {"idle", "saving", "storing", "sending"}, report : {NoReport} \cup Reports]
Waiting == Seq(Writers \X Lessons)

\* What this computer sends.
StartRequests == [kind : {"start"}, by : {"work"}, who : Mine, late : BOOLEAN]
StepRequests ==
  [kind : {"step"}, by : {"work"}, n : 1 .. MaxAttempts, who : Mine, task : Mine,
   late : BOOLEAN]
ReportRequests == [kind : {"report"}, by : Writers, report : Reports, late : BOOLEAN]
Requests == StartRequests \cup StepRequests \cup ReportRequests

\* A lesson has a revision, and runs no child of an attempt to come.
Sound(l) ==
  /\ l.status # Absent => l.rev >= 1
  /\ l.status = Absent => l = NoLesson
  /\ l.child <= l.attempts

Wellformed ==
  /\ wire \subseteq Requests
  /\ Sound(app) /\ Sound(journal)
  /\ \A i \in 1 .. Len(writes) : Sound(writes[i][2]) /\ writes[i][2].status # Absent

\* Who waits, and who is at work.
Asking(w) == ask[w] # "none"

Asks ==
  /\ \A m \in wire : ~m.late => ask[m.by] = "waiting"
  /\ \A m, x \in wire : ~m.late /\ ~x.late /\ m.by = x.by => m = x
  /\ Asking("work") <=> work.pc \in {"starting", "claiming"} \/ saver["work"].pc = "sending"
  /\ Asking("tool") <=> saver["tool"].pc = "sending"
  /\ Asking("flush") <=> flush # NoReport
  /\ work.pc \in {"starting", "claiming", "looking", "lookingStep"} =>
       saver["work"].pc = "idle"
  /\ saver["flush"] = NotSaving
  /\ \A w \in Works :
       saver[w].pc \in {"idle", "saving"} <=> saver[w].report = NoReport

\* Without a lesson nobody is at work.
Blank ==
  app.status = Absent =>
    /\ work = Idle /\ writes = << >> /\ app.reports = {} /\ flush = NoReport
    /\ \A w \in Writers : saver[w] = NotSaving

Waits == Asks /\ Blank

\* What a request that somebody waits for says.
Expected(m) ==
  /\ m.kind = "start" => work.pc = "starting" /\ m.who = Identity(app)
  /\ m.kind = "step" =>
       /\ work.pc = "claiming"
       /\ m.n = app.attempts /\ m.task = TaskOf(app, m.n)
  /\ m.kind = "report" =>
       IF m.by = "flush" THEN m.report = flush
       ELSE saver[m.by].pc = "sending" /\ m.report = saver[m.by].report

\* The answers that are there are true.
AnswersAreTrue ==
  /\ \A m \in wire : ~m.late => Expected(m)
  /\ work.pc = "starting" =>
       /\ ask["work"] = "mine" => server.owner = Identity(app)
       /\ ask["work"] = "theirs" => server.owner # Nobody /\ server.owner # Identity(app)
  /\ work.pc = "claiming" /\ ask["work"] = "ok" =>
       server.steps[app.attempts] = TaskOf(app, app.attempts)
  /\ \A w \in Works :
       saver[w].pc = "sending" /\ ask[w] = "ok" => saver[w].report.rev <= server.report.rev
  /\ ask["flush"] = "ok" => flush.rev <= server.report.rev

\* A report is still in a copy, or the server, at revision v, is past it.
Kept(r, l, v) == r \in l.reports \/ r.rev <= v

\* k is the same lesson as l, later: with the same attempts, or more.
Follows(l, k, v) ==
  l.status # Absent =>
    /\ k.status # Absent /\ k.id = l.id
    /\ l.attempts <= k.attempts
    /\ \A n \in 1 .. l.attempts : k.task[n] = l.task[n]
    /\ \A r \in l.reports : Kept(r, k, v)

seen == server.report.rev

\* The copies follow one another.
InOrder ==
  /\ app.status # Absent => Follows(journal, app, seen)
  /\ \A i \in 1 .. Len(writes) :
       /\ Follows(journal, writes[i][2], seen) /\ Follows(writes[i][2], app, seen)
       /\ \A j \in i .. Len(writes) : Follows(writes[i][2], writes[j][2], seen)

\* What is about to be asked is in the journal, or on its way there.
Durable ==
  /\ work.pc = "identity" =>
       \/ journal.status # Absent
       \/ saver["work"].pc = "saving" /\ ~OnDisk("work")
  /\ work.pc \in {"attempt", "claiming", "lookingStep"} => app.attempts >= 1
  /\ work.pc = "attempt" =>
       \/ journal.attempts = app.attempts
       \/ /\ saver["work"].pc = "saving"
          /\ \E i \in 1 .. Len(writes) :
               writes[i][1] = "work" /\ writes[i][2].attempts = app.attempts
  /\ \A w \in Works : saver[w].pc = "storing" =>
       \/ Kept(saver[w].report, journal, seen)
       \/ \E i \in 1 .. Len(writes) :
            writes[i][1] = w /\ Kept(saver[w].report, writes[i][2], seen)

\* What the server was asked, or has, is in the journal.
Holds(l, n, task) == n <= l.attempts /\ task = TaskOf(l, n)

Recorded(m) ==
  /\ m.kind = "start" => journal.status # Absent /\ m.who = Identity(journal)
  /\ m.kind = "step" => Holds(journal, m.n, m.task)
  /\ m.kind = "report" /\ m.by # "flush" => Kept(m.report, journal, seen)

Claimed ==
  /\ \A m \in wire : Recorded(m)
  /\ server.owner.by = "me" => journal.status # Absent /\ server.owner = Identity(journal)
  /\ \A n \in 1 .. MaxAttempts :
       server.steps[n] # Nobody => Holds(journal, n, server.steps[n])

\* Every copy knows who owns the lesson, and that the server has its child.
Knows(l, s) ==
  /\ l.claim = "mine" => s.owner = Identity(l)
  /\ l.claim = "theirs" => s.owner # Nobody /\ s.owner # Identity(l)
  /\ l.child # 0 => s.steps[l.child] = TaskOf(l, l.child)

AllKnow ==
  /\ Knows(app, server) /\ Knows(journal, server)
  /\ \A i \in 1 .. Len(writes) : Knows(writes[i][2], server)

\* Reports are of revisions the lesson has had, and the last one the server took
\* from here says what the lesson was then.
OfRevision(r, l) == r.rev <= l.rev /\ (r.rev = l.rev => r.status = l.status)

Seen ==
  /\ \/ server.report # NoReport
     \/ \E m \in wire : m.kind = "report"
     \/ \E w \in Works : saver[w].report # NoReport
     => server.owner # Nobody
  /\ server.report # NoReport => server.status = server.report.status
  /\ restarts = 0 =>
       /\ \A m \in wire : m.kind = "report" => OfRevision(m.report, app)
       /\ \A w \in Works : saver[w].report # NoReport => OfRevision(saver[w].report, app)
       /\ \A r \in app.reports : OfRevision(r, app)
       /\ flush # NoReport => OfRevision(flush, app)
       /\ server.report.by # "other" /\ server.report # NoReport =>
            OfRevision(server.report, app)
       /\ app.claim = "mine" =>
            \/ \E w \in Works : saver[w].pc = "saving"
            \/ \E r \in app.reports : r.rev = app.rev
            \/ app.rev <= seen

\* What holds in every state.
DeliveryInv ==
  TypeOK /\ Wellformed /\ Waits /\ AnswersAreTrue /\ InOrder /\ Durable /\ Claimed /\ AllKnow
         /\ Seen

(***************************************************************************)
(* Lemmas about the operators of the model.                                *)
(***************************************************************************)
LEMMA LessonTypes ==
  /\ NoLesson \in Lessons /\ Started \in Lessons /\ Rested \in Lessons
  /\ NoReport \notin Reports
<1>1. 0 \in Epochs /\ 0 \in 0 .. MaxAttempts /\ 1 \in 0 .. MaxAttempts
      /\ 0 \in 0 .. MaxRevision /\ 3 \in 0 .. MaxRevision
  BY DeliveryBoundsAssumption DEF Epochs
<1>2. NoLesson \in Lessons
  BY <1>1 DEF NoLesson, Lessons, Statuses, Absent
<1>3. Started \in Lessons
  BY <1>1, <1>2 DEF Started, Lessons, Statuses
<1>4. Rested \in Lessons
  BY <1>1, <1>3 DEF Rested, Lessons, Statuses
<1>5. NoReport \notin Reports
  BY DEF NoReport, Reports
<1> QED
  BY <1>2, <1>3, <1>4, <1>5

\* A revision of the lesson that is to be saved keeps to the types.
LEMMA PersistType ==
  ASSUME TypeOK, NEW w \in Writers, NEW l \in Lessons, Persist(w, l)
  PROVE  /\ app' = [l EXCEPT !.rev = @ + 1] /\ app' \in Lessons
         /\ writes' = Append(writes, <<w, app'>>) /\ writes' \in Waiting
         /\ saver' = [saver EXCEPT ![w].pc = "saving"]
         /\ saver' \in [Writers -> Saves]
<1>1. l.rev + 1 \in 0 .. MaxRevision
  BY DeliveryBoundsAssumption DEF Persist, Lessons
<1>2. app' = [l EXCEPT !.rev = @ + 1] /\ app' \in Lessons
  BY <1>1 DEF Persist, Lessons
<1>3. writes' = Append(writes, <<w, app'>>) /\ writes' \in Waiting
  <2>1. writes' = Append(writes, <<w, app'>>)
    BY DEF Persist, Queued
  <2>2. <<w, app'>> \in Writers \X Lessons /\ writes \in Seq(Writers \X Lessons)
    BY <1>2 DEF TypeOK
  <2> QED
    BY <2>1, <2>2 DEF Waiting
<1>4. saver' = [saver EXCEPT ![w].pc = "saving"] /\ saver' \in [Writers -> Saves]
  BY DEF Persist, TypeOK, Saves
<1> QED
  BY <1>2, <1>3, <1>4

\* A lesson follows itself, its predecessors' predecessors, and what the server
\* has seen since takes nothing away.
LEMMA FollowsItself ==
  ASSUME NEW l \in Lessons, NEW v
  PROVE  Follows(l, l, v)
BY DEF Follows, Kept, Lessons

\* A lesson follows those that the one it follows follows.
LEMMA FollowsOn ==
  ASSUME NEW l \in Lessons, NEW k \in Lessons, NEW j \in Lessons, NEW v \in Nat,
         Follows(l, k, v), Follows(k, j, v)
  PROVE  Follows(l, j, v)
BY DEF Follows, Kept, Lessons, Reports

\* A server that is further takes nothing from what follows.
LEMMA FollowsLater ==
  ASSUME NEW l \in Lessons, NEW k \in Lessons, NEW u \in Nat, NEW v \in Nat, u <= v,
         Follows(l, k, u)
  PROVE  Follows(l, k, v)
BY DEF Follows, Kept, Lessons, Reports

\* A report of a lesson is kept by what follows it.
LEMMA KeptOn ==
  ASSUME NEW l \in Lessons, NEW k \in Lessons, NEW u \in Nat, NEW v \in Nat, u <= v,
         NEW r \in Reports, Kept(r, l, u), Follows(l, k, v), l.status # Absent \/ l = NoLesson
  PROVE  Kept(r, k, v)
BY DEF Follows, Kept, Lessons, Reports, NoLesson, Absent

\* The revision the server has is a number.
LEMMA SeenType ==
  ASSUME TypeOK
  PROVE  seen \in Nat
BY DEF TypeOK, seen, NoReport, Reports

(***************************************************************************)
(* The server only goes on.                                                *)
(***************************************************************************)
ServerLater ==
  /\ server.owner # Nobody => server'.owner = server.owner
  /\ \A n \in 1 .. MaxAttempts :
       server.steps[n] # Nobody => server'.steps[n] = server.steps[n]
  /\ seen <= server'.report.rev

\* What a report may do to the rows.
LEMMA ReportServed ==
  ASSUME TypeOK, NEW m, m.report \in Reports, NEW rows, rows = ServeReport(m).rows
  PROVE  \/ rows = server
         \/ /\ m.report.rev > seen
            /\ rows = [server EXCEPT !.report = m.report, !.status = m.report.status]
BY DEF ServeReport, seen

\* A report that is served leaves the server where it was, or takes it on.
LEMMA ReportLater ==
  ASSUME TypeOK, NEW m, m.report \in Reports, server' = ServeReport(m).rows
  PROVE  ServerLater
<1>1. PICK rows : rows = ServeReport(m).rows
  OBVIOUS
<1>2. \/ rows = server
      \/ /\ m.report.rev > seen
         /\ rows = [server EXCEPT !.report = m.report, !.status = m.report.status]
  BY <1>1, ReportServed
<1>3. CASE server' = server
  BY <1>3, SeenType DEF ServerLater, seen
<1>4. CASE /\ m.report.rev > seen
           /\ server' = [server EXCEPT !.report = m.report, !.status = m.report.status]
  <2>1. server'.report = m.report /\ server'.owner = server.owner /\ server'.steps = server.steps
    BY <1>4 DEF TypeOK
  <2>2. m.report.rev \in Nat
    BY DEF Reports
  <2> QED
    BY <1>4, <2>1, <2>2, SeenType DEF ServerLater
<1> QED
  BY <1>1, <1>2, <1>3, <1>4

\* An owner and a task are never replaced, an older report never counts.
LEMMA ServerStep == DeliveryInv /\ [Next]_vars => ServerLater
<1> SUFFICES ASSUME DeliveryInv, [Next]_vars PROVE ServerLater
  OBVIOUS
<1>t. TypeOK /\ Wellformed /\ seen \in Nat
  BY SeenType DEF DeliveryInv
<1>0. CASE server' = server
  BY <1>t, <1>0 DEF ServerLater, seen
<1>1. ASSUME NEW m \in wire, Serve(m) PROVE ServerLater
  <2>1. CASE m.kind = "start"
    BY <1>t, <1>1, <2>1 DEF Serve, Served, ServeStart, ServerLater, seen, TypeOK
  <2>2. CASE m.kind = "step"
    BY <1>t, <1>1, <2>2 DEF Serve, Served, ServeStep, ServerLater, seen, TypeOK,
       Wellformed,
       Requests, StepRequests, StartRequests, ReportRequests, Mine, Nobody
  <2>3. CASE m.kind = "report"
    <3>1. m.report \in Reports /\ server' = ServeReport(m).rows
      BY <1>t, <1>1, <2>3 DEF Serve, Served, Wellformed, Requests, StepRequests,
         StartRequests,
         ReportRequests
    <3> QED
      BY <1>t, <3>1, ReportLater
  <2> QED
    BY <1>t, <2>1, <2>2, <2>3 DEF Wellformed, Requests, StepRequests, StartRequests,
       ReportRequests
<1>2. ASSUME NEW m \in wire, GivesUp(m) PROVE ServerLater
  BY <1>2, <1>0 DEF GivesUp
<1>3. CASE TeacherStops
  BY <1>t, <1>3 DEF TeacherStops, ServerLater, seen, TypeOK
<1>4. CASE OtherStarts
  BY <1>t, <1>4 DEF OtherStarts, ServerLater, seen, TypeOK
<1>5. CASE OtherReports
  <2>1. PICK rev \in OtherRevisions :
          server' = ServeReport([report |-> [rev |-> rev, status |-> "finished",
                                             by |-> "other"]]).rows
    BY <1>5 DEF OtherReports
  <2> DEFINE m == [report |-> [rev |-> rev, status |-> "finished", by |-> "other"]]
  <2>2. m.report \in Reports
    BY DeliveryBoundsAssumption DEF Reports, Statuses, Final, Over, Absent
  <2> QED
    BY <1>t, <2>1, <2>2, ReportLater
<1>6. CASE Launch
  BY <1>6, <1>0 DEF Launch
<1>7. CASE Prepared
  <2>1. \E x \in {"received", server.status} :
          server' = server \/ server' = [server EXCEPT !.status = x]
    BY <1>7 DEF Prepared
  <2> QED
    BY <1>t, <2>1 DEF ServerLater, seen, TypeOK
<1>8. CASE Starts
  BY <1>8, <1>0 DEF Starts
<1>9. CASE StartAnswered
  BY <1>9, <1>0 DEF StartAnswered
<1>10. CASE LooksUpStart
  BY <1>10, <1>0 DEF LooksUpStart
<1>11. CASE Authorizes
  BY <1>11, <1>0 DEF Authorizes
<1>12. CASE ShowsMaterial
  BY <1>12, <1>0 DEF ShowsMaterial
<1>13. CASE Attempts
  BY <1>13, <1>0 DEF Attempts
<1>14. CASE ClaimsStep
  BY <1>14, <1>0 DEF ClaimsStep
<1>15. CASE StepAnswered
  BY <1>15, <1>0 DEF StepAnswered
<1>16. CASE LooksUpStep
  BY <1>16, <1>0 DEF LooksUpStep
<1>17. CASE ToolSaves
  BY <1>17, <1>0 DEF ToolSaves
<1>18. CASE ChildEnds
  BY <1>18, <1>0 DEF ChildEnds
<1>19. CASE WorkEnds
  BY <1>19, <1>0 DEF WorkEnds
<1>20. CASE Finishes
  BY <1>20, <1>0 DEF Finishes
<1>21. CASE Write
  BY <1>21, <1>0 DEF Write
<1>22. CASE Halts
  BY <1>22, <1>0 DEF Halts
<1>23. CASE HaltMoves
  BY <1>23, <1>0 DEF HaltMoves
<1>24. CASE Restart
  BY <1>24, <1>0 DEF Restart
<1>25. ASSUME NEW w \in Works, Saved(w) PROVE ServerLater
  BY <1>25, <1>0 DEF Saved
<1>26. ASSUME NEW w \in Works, SendReport(w) PROVE ServerLater
  BY <1>26, <1>0 DEF SendReport
<1>27. ASSUME NEW w \in Works, Reported(w) PROVE ServerLater
  BY <1>27, <1>0 DEF Reported
<1>28. CASE FlushSends
  BY <1>28, <1>0 DEF FlushSends, Sends, Heard
<1>29. CASE FlushAnswered
  BY <1>29, <1>0 DEF FlushAnswered, Sends, Heard
<1>30. CASE UNCHANGED vars
  BY <1>30, <1>0 DEF vars
<1> QED
  BY <1>1, <1>2, <1>3, <1>4, <1>5, <1>6, <1>7, <1>8, <1>9, <1>10, <1>11, <1>12, <1>13,
     <1>14, <1>15, <1>16, <1>17, <1>18, <1>19, <1>20, <1>21, <1>22, <1>23, <1>24, <1>25,
     <1>26, <1>27, <1>28, <1>29, <1>30
     DEF Next, Device, Execute, Works

(***************************************************************************)
(* Types, and who waits for what.                                          *)
(***************************************************************************)
Places == {"idle", "preparing", "identity", "starting", "looking", "authorizing", "material",
           "attempt", "claiming", "lookingStep", "running", "saving"}
Runs == [pc : Places, halt : {"no", "resting", "stopped"}]
Rows == [active : BOOLEAN, status : Statuses \cup {"received"},
         owner : {Nobody, Other} \cup Mine, report : {NoReport} \cup Reports,
         steps : [1 .. MaxAttempts -> {Nobody} \cup Mine]]
Answers == {"none", "waiting", "ok", "mine", "theirs", "no"}

\* The types of what persist and its callers change.
SavedTypes ==
  app \in Lessons /\ writes \in Waiting /\ saver \in [Writers -> Saves] /\ work \in Runs

\* The types, one by one, of well-formed requests.
Typed ==
  /\ server \in Rows /\ wire \subseteq Requests /\ journal \in Lessons
  /\ SavedTypes
  /\ ask \in [Writers -> Answers]
  /\ flush \in {NoReport} \cup Reports /\ restarts \in Epochs

\* The type invariant, by its parts.
LEMMA TypedIsTypeOK ==
  /\ Typed => TypeOK
  /\ TypeOK /\ Wellformed => Typed
<1>1. ASSUME NEW m \in Requests PROVE m.by \in Writers /\ m.late \in BOOLEAN
  BY DEF Requests, StartRequests, StepRequests, ReportRequests, Writers
<1>2. Typed => TypeOK
  BY <1>1 DEF Typed, TypeOK, SavedTypes, Rows, Runs, Places, Waiting, Saves, Answers
<1>3. TypeOK /\ Wellformed => Typed
  BY DEF Typed, TypeOK, Wellformed, SavedTypes, Rows, Runs, Places, Waiting, Saves,
     Answers
<1> QED
  BY <1>2, <1>3

\* The same of the next state.
LEMMA TypedLater ==
  /\ Typed' => TypeOK'
  /\ TypeOK' /\ Wellformed' => Typed'
<1>1. ASSUME NEW m \in Requests PROVE m.by \in Writers /\ m.late \in BOOLEAN
  BY DEF Requests, StartRequests, StepRequests, ReportRequests, Writers
<1>2. Typed' => TypeOK'
  BY <1>1 DEF Typed, TypeOK, SavedTypes, Rows, Runs, Places, Waiting, Saves, Answers
<1>3. TypeOK' /\ Wellformed' => Typed'
  BY DEF Typed, TypeOK, Wellformed, SavedTypes, Rows, Runs, Places, Waiting, Saves,
     Answers
<1> QED
  BY <1>2, <1>3

\* What the steps make of a lesson is one.
LEMMA LessonUpdates ==
  ASSUME NEW l \in Lessons
  PROVE  /\ \A s \in Statuses : [l EXCEPT !.status = s] \in Lessons
         /\ \A s \in Statuses, c \in 0 .. MaxAttempts :
              [l EXCEPT !.status = s, !.child = c] \in Lessons
         /\ \A c \in {"mine", "theirs"} : [l EXCEPT !.claim = c] \in Lessons
         /\ \A c \in 0 .. MaxAttempts : [l EXCEPT !.child = c] \in Lessons
         /\ \A n \in 1 .. MaxAttempts, e \in Epochs :
              [l EXCEPT !.attempts = n, !.task[n] = e] \in Lessons
         /\ \A rs \in SUBSET Reports : [l EXCEPT !.reports = rs] \in Lessons
         /\ l.attempts \in 0 .. MaxAttempts /\ l.child \in 0 .. MaxAttempts
         /\ l.status \in Statuses /\ l.reports \subseteq Reports /\ l.rev \in 0 .. MaxRevision
         /\ l.id \in Epochs /\ l.task \in [1 .. MaxAttempts -> Epochs]
<1>1. /\ \A s \in Statuses : [l EXCEPT !.status = s] \in Lessons
      /\ \A s \in Statuses, c \in 0 .. MaxAttempts :
           [l EXCEPT !.status = s, !.child = c] \in Lessons
  BY DEF Lessons
<1>2. /\ \A c \in {"mine", "theirs"} : [l EXCEPT !.claim = c] \in Lessons
      /\ \A c \in 0 .. MaxAttempts : [l EXCEPT !.child = c] \in Lessons
      /\ \A rs \in SUBSET Reports : [l EXCEPT !.reports = rs] \in Lessons
  BY DEF Lessons
<1>3. \A n \in 1 .. MaxAttempts, e \in Epochs :
        [l EXCEPT !.attempts = n, !.task[n] = e] \in Lessons
  <2> SUFFICES ASSUME NEW n \in 1 .. MaxAttempts, NEW e \in Epochs
               PROVE  [l EXCEPT !.attempts = n, !.task[n] = e] \in Lessons
    OBVIOUS
  <2>1. n \in 0 .. MaxAttempts /\ l.task \in [1 .. MaxAttempts -> Epochs]
    BY DeliveryBoundsAssumption DEF Lessons
  <2>2. [l.task EXCEPT ![n] = e] \in [1 .. MaxAttempts -> Epochs]
    BY <2>1
  <2> QED
    BY <2>1, <2>2 DEF Lessons
<1>4. /\ l.attempts \in 0 .. MaxAttempts /\ l.child \in 0 .. MaxAttempts
      /\ l.status \in Statuses /\ l.reports \subseteq Reports /\ l.rev \in 0 .. MaxRevision
      /\ l.id \in Epochs /\ l.task \in [1 .. MaxAttempts -> Epochs]
  BY DEF Lessons
<1> QED
  BY <1>1, <1>2, <1>3, <1>4

\* A lesson that is received is one.
LEMMA NewLesson ==
  ASSUME TypeOK
  PROVE  [NoLesson EXCEPT !.status = "working", !.id = restarts] \in Lessons
BY LessonTypes DEF Lessons, Statuses, TypeOK

\* The names of the statuses.
LEMMA StatusNames ==
  {"working", "resting", "stopped", "finished", "unknown", Absent} \subseteq Statuses
BY DEF Statuses, Final, Over

\* What the steps of an execution change of it.
LEMMA RunUpdates ==
  /\ Idle \in Runs
  /\ \A x \in Runs, pc \in Places : [x EXCEPT !.pc = pc] \in Runs
  /\ \A x \in Runs, h \in {"resting", "stopped"} : [x EXCEPT !.halt = h] \in Runs
BY DEF Idle, Runs, Places

\* What the catch of launch does.
LEMMA FailsType ==
  ASSUME TypeOK, NEW l \in Lessons, Fails(l)
  PROVE  SavedTypes'
<1>1. ASSUME NEW k \in Lessons, Persist("work", k)
      PROVE  app' \in Lessons /\ writes' \in Waiting /\ saver' \in [Writers -> Saves]
  BY <1>1, PersistType DEF Writers
<1>2. /\ \A child \in {0, l.child} :
           [l EXCEPT !.status = "resting", !.child = child] \in Lessons
      /\ [l EXCEPT !.status = "unknown"] \in Lessons
  <2>1. 0 \in 0 .. MaxAttempts
    BY DeliveryBoundsAssumption
  <2> QED
    BY <2>1, LessonUpdates, StatusNames
<1>4. work' \in Runs
  <2>1. work \in Runs /\ {"idle", "saving"} \subseteq Places
    BY DEF TypeOK, Runs, Places
  <2> QED
    BY <2>1, RunUpdates DEF Fails, At
<1>5. CASE Aborted
  BY <1>4, <1>5 DEF Fails, TypeOK, SavedTypes, Waiting, Saves
<1>6. CASE ~Aborted
  BY <1>1, <1>2, <1>4, <1>6 DEF Fails, SavedTypes
<1> QED
  BY <1>5, <1>6

\* A request whose sender has given up is a request.
LEMMA LateRequest == \A m \in Requests : [m EXCEPT !.late = TRUE] \in Requests
BY DEF Requests, StartRequests, StepRequests, ReportRequests

\* The identities of a lesson were chosen on this computer.
LEMMA Identities ==
  ASSUME NEW l \in Lessons
  PROVE  Identity(l) \in Mine /\ \A n \in 1 .. MaxAttempts : TaskOf(l, n) \in Mine
BY DEF Lessons, Identity, TaskOf, Mine

\* A request that this computer sends is one.
LEMMA NewRequests ==
  /\ \A i \in Mine : [kind |-> "start", by |-> "work", who |-> i, late |-> FALSE] \in Requests
  /\ \A i, k \in Mine, n \in 1 .. MaxAttempts :
       [kind |-> "step", by |-> "work", n |-> n, who |-> i, task |-> k, late |-> FALSE]
         \in Requests
  /\ \A w \in Writers, r \in Reports : ReportRequest(w, r) \in Requests
BY DEF Requests, StartRequests, StepRequests, ReportRequests, ReportRequest

\* The rows stay rows, whatever is served.
LEMMA ServedType ==
  ASSUME server \in Rows, NEW m \in Requests
  PROVE  Served(m).rows \in Rows /\ Served(m).answer \in Answers
<1>1. CASE m.kind = "start"
  <2>1. m.who \in Mine
    BY <1>1 DEF Requests, StartRequests, StepRequests, ReportRequests
  <2> QED
    BY <1>1, <2>1, StatusNames DEF Served, ServeStart, Rows, Answers
<1>2. CASE m.kind = "step"
  <2>1. m.n \in 1 .. MaxAttempts /\ m.task \in Mine
    BY <1>2 DEF Requests, StartRequests, StepRequests, ReportRequests
  <2> QED
    BY <1>2, <2>1 DEF Served, ServeStep, Rows, Answers
<1>3. CASE m.kind = "report"
  <2>1. m.report \in Reports /\ m.report.status \in Statuses
    BY <1>3 DEF Requests, StartRequests, StepRequests, ReportRequests, Reports
  <2> QED
    BY <1>3, <2>1 DEF Served, ServeReport, Rows, Answers
<1> QED
  BY <1>1, <1>2, <1>3 DEF Requests, StartRequests, StepRequests, ReportRequests

\* Every step keeps to the types.
LEMMA TypeStep == DeliveryInv /\ [Next]_vars => Typed'
<1> SUFFICES ASSUME DeliveryInv, [Next]_vars PROVE Typed'
  OBVIOUS
<1>t. Typed /\ TypeOK
  BY TypedIsTypeOK DEF DeliveryInv
<1>p. ASSUME NEW w \in Writers, NEW l \in Lessons, Persist(w, l)
      PROVE  app' \in Lessons /\ writes' \in Waiting /\ saver' \in [Writers -> Saves]
  BY <1>p, <1>t, PersistType
<1>f. ASSUME NEW l \in Lessons, Fails(l) PROVE SavedTypes'
  BY <1>f, <1>t, FailsType
<1>u. \A l \in Lessons :
         /\ \A s \in Statuses : [l EXCEPT !.status = s] \in Lessons
         /\ \A s \in Statuses, c \in 0 .. MaxAttempts :
              [l EXCEPT !.status = s, !.child = c] \in Lessons
         /\ \A c \in {"mine", "theirs"} : [l EXCEPT !.claim = c] \in Lessons
         /\ \A c \in 0 .. MaxAttempts : [l EXCEPT !.child = c] \in Lessons
         /\ \A n \in 1 .. MaxAttempts, e \in Epochs :
              [l EXCEPT !.attempts = n, !.task[n] = e] \in Lessons
         /\ \A rs \in SUBSET Reports : [l EXCEPT !.reports = rs] \in Lessons
         /\ l.attempts \in 0 .. MaxAttempts /\ l.child \in 0 .. MaxAttempts
         /\ l.status \in Statuses /\ l.reports \subseteq Reports /\ l.rev \in 0 .. MaxRevision
  BY LessonUpdates
<1>n. /\ [NoLesson EXCEPT !.status = "working", !.id = restarts] \in Lessons
      /\ 0 \in 0 .. MaxAttempts /\ \A n \in 0 .. MaxAttempts : n + 1 <= MaxAttempts => n + 1 \in 1 .. MaxAttempts
  BY <1>t, NewLesson, DeliveryBoundsAssumption
<1> USE DEF device
<1>1. ASSUME NEW m \in wire, Serve(m) PROVE Typed'
  <2>1. m \in Requests
    BY <1>t DEF Typed
  <2>2. server' \in Rows /\ Served(m).answer \in Answers /\ "no" \in Answers
    BY <1>1, <1>t, <2>1, ServedType DEF Serve, Typed, Answers
  <2>3. ask' \in [Writers -> Answers]
    BY <1>1, <1>t, <2>2 DEF Serve, Typed
  <2> QED
    BY <1>1, <1>t, <2>2, <2>3 DEF Serve, Typed, SavedTypes
<1>2. ASSUME NEW m \in wire, GivesUp(m) PROVE Typed'
  BY <1>2, <1>t, LateRequest DEF GivesUp, Typed, SavedTypes, Answers
<1>3. CASE TeacherStops
  BY <1>3, <1>t DEF TeacherStops, Typed, SavedTypes, Rows
<1>4. CASE OtherStarts
  BY <1>4, <1>t, StatusNames DEF OtherStarts, Typed, SavedTypes, Rows
<1>5. CASE OtherReports
  <2>1. PICK rev \in OtherRevisions :
          server' = ServeReport([report |-> [rev |-> rev, status |-> "finished",
                                             by |-> "other"]]).rows
    BY <1>5 DEF OtherReports
  <2> DEFINE m == [report |-> [rev |-> rev, status |-> "finished", by |-> "other"]]
  <2>2. m.report \in Reports
    BY DeliveryBoundsAssumption DEF Reports, Statuses, Final, Over, Absent
  <2>3. \/ server' = server
        \/ server' = [server EXCEPT !.report = m.report, !.status = m.report.status]
    BY <1>t, <2>1, <2>2, ReportServed
  <2>4. m.report.status \in Statuses
    BY StatusNames
  <2>5. server' \in Rows
    BY <1>t, <2>2, <2>3, <2>4 DEF Typed, Rows
  <2> QED
    BY <1>5, <1>t, <2>5 DEF OtherReports, Typed, SavedTypes
<1>6. CASE Launch
  <2>1. SavedTypes'
    BY <1>6, <1>t, <1>p, <1>f, <1>u, <1>n, RunUpdates, StatusNames
       DEF Launch, At, Typed, SavedTypes, Places, Writers
  <2> QED
    BY <1>6, <1>t, <2>1 DEF Launch, Typed
<1>7. CASE Prepared
  <2>1. server' \in Rows
    BY <1>7, <1>t DEF Prepared, Typed, Rows
  <2>2. SavedTypes'
    BY <1>7, <1>t, <1>p, <1>f, RunUpdates DEF Prepared, Quits, At, Typed, SavedTypes,
       Places, Writers
  <2> QED
    BY <1>7, <1>t, <2>1, <2>2 DEF Prepared, Typed
<1>8. CASE Starts
  <2>1. wire' \subseteq Requests /\ ask' \in [Writers -> Answers]
    BY <1>8, <1>t, NewRequests, Identities DEF Starts, Sends, Typed, SavedTypes, Answers
  <2>2. SavedTypes'
    BY <1>8, <1>t, RunUpdates DEF Starts, At, Typed, SavedTypes, Places, Saves
  <2> QED
    BY <1>8, <1>t, <2>1, <2>2 DEF Starts, Typed
<1>9. CASE StartAnswered
  <2>1. SavedTypes'
    BY <1>9, <1>t, <1>p, <1>f, <1>u, <1>n, RunUpdates, StatusNames
       DEF StartAnswered, At, Typed, SavedTypes, Places, Writers
  <2>2. ask' \in [Writers -> Answers]
    BY <1>9, <1>t DEF StartAnswered, Heard, Typed, Answers
  <2> QED
    BY <1>9, <1>t, <2>1, <2>2 DEF StartAnswered, Typed
<1>10. CASE LooksUpStart
  <2>1. SavedTypes'
    BY <1>10, <1>t, <1>p, <1>f, <1>u, <1>n, RunUpdates, StatusNames
       DEF LooksUpStart, At, Typed, SavedTypes, Places, Writers
  <2> QED
    BY <1>10, <1>t, <2>1 DEF LooksUpStart, Typed
<1>11. CASE Authorizes
  <2>1. SavedTypes'
    BY <1>11, <1>t, <1>p, <1>f, <1>u, <1>n, RunUpdates, StatusNames
       DEF Authorizes, Quits, At, Typed, SavedTypes, Places, Writers
  <2> QED
    BY <1>11, <1>t, <2>1 DEF Authorizes, Typed
<1>12. CASE ShowsMaterial
  <2>1. SavedTypes'
    BY <1>12, <1>t, <1>p, <1>f, <1>u, <1>n, RunUpdates, StatusNames
       DEF ShowsMaterial, Quits, At, Typed, SavedTypes, Places, Writers
  <2> QED
    BY <1>12, <1>t, <2>1 DEF ShowsMaterial, Typed
<1>13. CASE Attempts
  <2>1. SavedTypes'
    BY <1>13, <1>t, <1>p, <1>f, <1>u, <1>n, RunUpdates, StatusNames
       DEF Attempts, MayAttempt, At, Typed, SavedTypes, Places, Writers
  <2> QED
    BY <1>13, <1>t, <2>1 DEF Attempts, Typed
<1>14. CASE ClaimsStep
  <2>n. app.attempts \in 1 .. MaxAttempts
    <3>1. app.attempts \in 0 .. MaxAttempts
      BY <1>t, LessonUpdates DEF Typed, SavedTypes
    <3>2. app.attempts >= 1
      BY <1>14 DEF ClaimsStep, DeliveryInv, Durable
    <3> QED
      BY <3>1, <3>2
  <2>1. wire' \subseteq Requests /\ ask' \in [Writers -> Answers]
    BY <1>14, <1>t, NewRequests, Identities, <2>n DEF ClaimsStep, Sends, Typed,
       SavedTypes, Answers
  <2>2. SavedTypes'
    BY <1>14, <1>t, RunUpdates DEF ClaimsStep, At, Typed, SavedTypes, Places, Saves
  <2> QED
    BY <1>14, <1>t, <2>1, <2>2 DEF ClaimsStep, Typed
<1>15. CASE StepAnswered
  <2>1. SavedTypes'
    BY <1>15, <1>t, <1>p, <1>f, <1>u, <1>n, RunUpdates, StatusNames
       DEF StepAnswered, At, Typed, SavedTypes, Places, Writers
  <2>2. ask' \in [Writers -> Answers]
    BY <1>15, <1>t DEF StepAnswered, Heard, Typed, Answers
  <2> QED
    BY <1>15, <1>t, <2>1, <2>2 DEF StepAnswered, Typed
<1>16. CASE LooksUpStep
  <2>1. SavedTypes'
    BY <1>16, <1>t, <1>p, <1>f, <1>u, <1>n, RunUpdates, StatusNames
       DEF LooksUpStep, At, Typed, SavedTypes, Places, Writers
  <2> QED
    BY <1>16, <1>t, <2>1 DEF LooksUpStep, Typed
<1>17. CASE ToolSaves
  <2>1. SavedTypes'
    BY <1>17, <1>t, <1>p, <1>f, <1>u, <1>n, RunUpdates, StatusNames
       DEF ToolSaves, At, Typed, SavedTypes, Places, Writers
  <2> QED
    BY <1>17, <1>t, <2>1 DEF ToolSaves, Typed
<1>18. CASE ChildEnds
  <2>1. SavedTypes'
    BY <1>18, <1>t, <1>p, <1>f, <1>u, <1>n, RunUpdates, StatusNames
       DEF ChildEnds, Quits, At, Typed, SavedTypes, Places, Writers
  <2> QED
    BY <1>18, <1>t, <2>1 DEF ChildEnds, Typed
<1>19. CASE WorkEnds
  <2>1. SavedTypes'
    BY <1>19, <1>t, <1>p, <1>f, <1>u, <1>n, RunUpdates, StatusNames
       DEF WorkEnds, At, Typed, SavedTypes, Places, Writers
  <2> QED
    BY <1>19, <1>t, <2>1 DEF WorkEnds, Typed
<1>20. CASE Finishes
  <2>1. SavedTypes'
    BY <1>20, <1>t, <1>p, <1>f, <1>u, <1>n, RunUpdates, StatusNames
       DEF Finishes, At, Typed, SavedTypes, Places, Writers
  <2> QED
    BY <1>20, <1>t, <2>1 DEF Finishes, Typed
<1>21. CASE Write
  <2>1. writes # << >> /\ writes \in Seq(Writers \X Lessons)
    BY <1>21, <1>t DEF Write, Typed, SavedTypes, Waiting
  <2>2. Tail(writes) \in Seq(Writers \X Lessons) /\ Head(writes) \in Writers \X Lessons
    BY <2>1
  <2>3. writes' \in Waiting /\ journal' \in Lessons
    BY <1>21, <2>2 DEF Write, Waiting
  <2> QED
    BY <1>21, <1>t, <2>3 DEF Write, Typed, SavedTypes
<1>22. CASE Halts
  <2>1. SavedTypes'
    BY <1>22, <1>t, <1>p, <1>f, <1>u, <1>n, RunUpdates, StatusNames
       DEF Halts, At, Typed, SavedTypes, Places, Writers
  <2> QED
    BY <1>22, <1>t, <2>1 DEF Halts, Typed
<1>23. CASE HaltMoves
  <2>1. CASE app' = app /\ writes' = writes /\ saver' = saver /\ work' = Idle
    BY <1>23, <1>t, <2>1, RunUpdates DEF HaltMoves, Typed, SavedTypes
  <2>2. CASE \E s \in {"resting", "stopped", "unknown"} :
               Persist("work", [app EXCEPT !.status = s, !.child = 0])
    <3>1. SavedTypes'
      <4>1. app' \in Lessons /\ writes' \in Waiting /\ saver' \in [Writers -> Saves]
        BY <1>t, <1>p, <1>u, <1>n, <2>2, StatusNames DEF Typed, SavedTypes, Writers
      <4>2. work' \in Runs
        BY <1>23, RunUpdates DEF HaltMoves, Places
      <4> QED
        BY <4>1, <4>2 DEF SavedTypes
    <3> QED
      BY <1>23, <1>t, <3>1 DEF HaltMoves, Typed
  <2>3. work.halt \in {"no", "resting", "stopped"}
    BY <1>t DEF Typed, SavedTypes, Runs
  <2> QED
    BY <1>23, <2>1, <2>2, <2>3 DEF HaltMoves
<1>24. CASE Restart
  <2>1. app' \in Lessons
    <3>1. journal.rev + 1 \in 0 .. MaxRevision
      <4>1. journal.rev \in 0 .. MaxRevision
        BY <1>t, LessonUpdates DEF Typed
      <4> QED
        BY <1>24, <4>1, DeliveryBoundsAssumption DEF Restart
    <3>2. \A s \in Statuses : [journal EXCEPT !.status = s, !.rev = journal.rev + 1] \in Lessons
      BY <1>t, <3>1 DEF Typed, Lessons
    <3>3. CASE journal.status \in Over \cup {Absent}
      BY <1>24, <3>3, LessonTypes DEF Restart, Restored
    <3>4. CASE journal.status \notin Over \cup {Absent}
      <4>1. PICK s \in {"unknown", "resting"} :
              app' = [journal EXCEPT !.status = s, !.rev = journal.rev + 1]
        BY <1>24, <3>4 DEF Restart, Restored
      <4> QED
        BY <3>2, <4>1, StatusNames
    <3> QED
      BY <3>3, <3>4
  <2>2. writes' \in Waiting
    <3>1. << >> \in Waiting /\ <<<<"flush", app'>>>> \in Waiting
      BY <2>1 DEF Waiting, Writers
    <3> QED
      BY <1>24, <3>1 DEF Restart
  <2>3. wire' \subseteq Requests
    BY <1>24, <1>t, LateRequest DEF Restart, Typed
  <2>4. work' \in Runs /\ saver' \in [Writers -> Saves] /\ ask' \in [Writers -> Answers]
    BY <1>24, RunUpdates DEF Restart, Saves, NotSaving, Answers
  <2>5. restarts' \in Epochs
    BY <1>24, <1>t, DeliveryBoundsAssumption DEF Restart, Typed, Epochs
  <2> QED
    BY <1>24, <1>t, <2>1, <2>2, <2>3, <2>4, <2>5 DEF Restart, Typed, SavedTypes
<1>25. ASSUME NEW w \in Works, Saved(w) PROVE Typed'
  <2>w. w \in Writers /\ app \in Lessons /\ writes \in Waiting /\ saver \in [Writers -> Saves]
    BY <1>t DEF Typed, SavedTypes, Works, Writers
  <2>1. CASE app.claim = "none"
    <3>1. saver' \in [Writers -> Saves]
      BY <1>25, <2>w, <2>1 DEF Saved, Saves, NotSaving
    <3> QED
      BY <1>25, <1>t, <2>1, <3>1 DEF Saved, Typed, SavedTypes
  <2>2. CASE app.claim # "none"
    <3>1. Snapshot(w) \in Reports
      <4>0. app.status # Absent
        BY <1>25, <2>w DEF Saved, DeliveryInv, Waits, Blank, NotSaving
      <4>1. app.rev \in 1 .. MaxRevision
        <5>1. app.rev \in 0 .. MaxRevision
          BY <2>w, LessonUpdates
        <5>2. app.rev >= 1
          BY <4>0 DEF DeliveryInv, Wellformed, Sound
        <5> QED
          BY <5>1, <5>2
      <4> QED
        <5>1. app.status \in Statuses \ {Absent}
          BY <1>u, <2>w, <4>0
        <5> QED
          BY <2>w, <4>1, <5>1 DEF Snapshot, Reports, Works
    <3>2. app' = [app EXCEPT !.reports = app.reports \cup {Snapshot(w)}]
          /\ writes' = Append(writes, <<w, app'>>)
          /\ saver' = [saver EXCEPT ![w] = [pc |-> "storing", report |-> Snapshot(w)]]
      BY <1>25, <2>2 DEF Saved, Queued
    <3>3. app' \in Lessons
      BY <2>w, <1>u, <3>1, <3>2
    <3>4. writes' \in Waiting
      <4>1. <<w, app'>> \in Writers \X Lessons /\ writes \in Seq(Writers \X Lessons)
        BY <2>w, <3>3 DEF Waiting
      <4> QED
        BY <3>2, <4>1 DEF Waiting
    <3>5. saver' \in [Writers -> Saves]
      BY <2>w, <3>1, <3>2 DEF Saves
    <3> QED
      BY <1>25, <1>t, <3>3, <3>4, <3>5 DEF Saved, Typed, SavedTypes
  <2> QED
    BY <2>1, <2>2
<1>26. ASSUME NEW w \in Works, SendReport(w) PROVE Typed'
  <2>r. saver[w].report \in Reports /\ w \in Writers
    BY <1>26, <1>t, LessonTypes DEF SendReport, DeliveryInv, Waits, Asks, Blank, Typed,
       SavedTypes, Saves, Works, Writers
  <2>1. wire' \subseteq Requests /\ ask' \in [Writers -> Answers]
    BY <1>26, <1>t, NewRequests, Identities, <2>r DEF SendReport, Sends, Typed,
       SavedTypes, Answers
  <2>2. SavedTypes'
    BY <1>26, <1>t, RunUpdates DEF SendReport, At, Typed, SavedTypes, Places, Saves
  <2> QED
    BY <1>26, <1>t, <2>1, <2>2 DEF SendReport, Typed
<1>27. ASSUME NEW w \in Works, Reported(w) PROVE Typed'
  <2>1. app' \in Lessons
    <3>1. {r \in app.reports : r.rev > saver[w].report.rev} \in SUBSET Reports
      BY <1>t, LessonUpdates DEF Typed, SavedTypes
    <3>2. \/ app' = app
          \/ app' = [app EXCEPT !.reports = {r \in app.reports : r.rev > saver[w].report.rev}]
      BY <1>27 DEF Reported
    <3> QED
      BY <1>t, <1>u, <3>1, <3>2 DEF Typed, SavedTypes
  <2>2. ask' \in [Writers -> Answers]
    BY <1>27, <1>t DEF Reported, Heard, Typed, Answers
  <2>3. saver' \in [Writers -> Saves]
    BY <1>27, <1>t DEF Reported, Typed, SavedTypes, Saves, NotSaving
  <2> QED
    BY <1>27, <1>t, <2>1, <2>2, <2>3 DEF Reported, Typed, SavedTypes
<1>28. CASE FlushSends
  <2>1. flush' \in Reports /\ "flush" \in Writers
    BY <1>28, <1>t, <1>u DEF FlushSends, Typed, SavedTypes, Writers
  <2>2. wire' \subseteq Requests /\ ask' \in [Writers -> Answers]
    BY <1>28, <1>t, <2>1, NewRequests DEF FlushSends, Sends, Typed, Answers
  <2> QED
    BY <1>28, <1>t, <2>1, <2>2 DEF FlushSends, Typed, SavedTypes
<1>29. CASE FlushAnswered
  <2>1. app' \in Lessons
    BY <1>29, <1>t, <1>u DEF FlushAnswered, Typed, SavedTypes
  <2>2. ask' \in [Writers -> Answers]
    BY <1>29, <1>t DEF FlushAnswered, Heard, Typed, Answers
  <2> QED
    BY <1>29, <1>t, <2>1, <2>2 DEF FlushAnswered, Typed, SavedTypes
<1>30. CASE UNCHANGED vars
  BY <1>30, <1>t DEF vars, Typed, SavedTypes
<1> QED
  BY <1>1, <1>2, <1>3, <1>4, <1>5, <1>6, <1>7, <1>8, <1>9, <1>10, <1>11, <1>12, <1>13,
     <1>14, <1>15, <1>16, <1>17, <1>18, <1>19, <1>20, <1>21, <1>22, <1>23, <1>24, <1>25,
     <1>26, <1>27, <1>28, <1>29, <1>30
     DEF Next, Device, Execute, Works

(***************************************************************************)
(* The copies of the lesson.                                               *)
(***************************************************************************)
\* The lesson in memory stays, or becomes a later one, which joins the queue or
\* is not saved yet.
AppStep ==
  /\ journal' = journal
  /\ \/ app' = app /\ writes' = writes
     \/ /\ app'.status # Absent /\ Sound(app')
        /\ Follows(app, app', server'.report.rev) /\ Knows(app', server')
        /\ app.status = Absent => journal.status = Absent
        /\ \/ writes' = writes
           \/ \E w \in Writers : writes' = Append(writes, <<w, app'>>)

\* l is what a step is about to make of the lesson in memory.
Onward(l) ==
  /\ l \in Lessons /\ l.status # Absent /\ l.child <= l.attempts
  /\ Follows(app, l, server'.report.rev) /\ Knows(l, server')
  /\ app.status = Absent => journal.status = Absent

\* A step that persists moves the lesson on.
LEMMA PersistMoves ==
  ASSUME TypeOK, NEW w \in Writers, NEW l, Onward(l), Persist(w, l), journal' = journal
  PROVE  AppStep
<1>1. /\ app' = [l EXCEPT !.rev = @ + 1] /\ app' \in Lessons
      /\ writes' = Append(writes, <<w, app'>>)
  BY PersistType DEF Onward
<1>2. /\ app'.status = l.status /\ app'.child = l.child /\ app'.attempts = l.attempts
      /\ app'.rev = l.rev + 1 /\ app'.id = l.id /\ app'.task = l.task
      /\ app'.reports = l.reports /\ app'.claim = l.claim
  BY <1>1 DEF Onward, Lessons
<1>3. l.rev \in Nat
  BY DEF Onward, Lessons
<1>4. Sound(app')
  BY <1>2, <1>3 DEF Onward, Sound
<1>5. Follows(app, app', server'.report.rev)
  BY <1>2 DEF Onward, Follows, Kept
<1>6. Knows(app', server')
  BY <1>2 DEF Onward, Knows, Identity, TaskOf
<1> QED
  BY <1>1, <1>2, <1>4, <1>5, <1>6 DEF AppStep, Onward

\* A later status, and at most the child it had, is a later lesson.
LEMMA NextStatus ==
  ASSUME NEW l, Onward(l), NEW s \in Statuses \ {Absent}
  PROVE  /\ Onward([l EXCEPT !.status = s])
         /\ \A c \in {0, l.child} : Onward([l EXCEPT !.status = s, !.child = c])
<1>1. ASSUME NEW c \in {0, l.child}
      PROVE  Onward([l EXCEPT !.status = s, !.child = c])
  <2> DEFINE k == [l EXCEPT !.status = s, !.child = c]
  <2>1. c \in 0 .. MaxAttempts /\ l.attempts \in 0 .. MaxAttempts /\ k \in Lessons
    <3>1. l \in Lessons
      BY DEF Onward
    <3>2. l.child \in 0 .. MaxAttempts /\ l.attempts \in 0 .. MaxAttempts
      BY <3>1, LessonUpdates
    <3>3. c \in 0 .. MaxAttempts
      BY <3>2, DeliveryBoundsAssumption
    <3> QED
      BY <3>1, <3>2, <3>3, LessonUpdates
  <2>2. /\ k.status = s /\ k.child = c /\ k.attempts = l.attempts /\ k.id = l.id
        /\ k.task = l.task /\ k.reports = l.reports /\ k.claim = l.claim
    BY DEF Onward, Lessons
  <2>3. c <= l.attempts
    BY <2>1 DEF Onward
  <2>4. Follows(app, k, server'.report.rev)
    BY <2>2 DEF Onward, Follows, Kept
  <2>5. Knows(k, server')
    BY <2>2 DEF Onward, Knows, Identity, TaskOf
  <2> QED
    BY <2>1, <2>2, <2>3, <2>4, <2>5 DEF Onward
<1>2. [l EXCEPT !.status = s] = [l EXCEPT !.status = s, !.child = l.child]
  BY DEF Onward, Lessons
<1> QED
  BY <1>1, <1>2

\* So does the catch of launch.
LEMMA FailsMoves ==
  ASSUME TypeOK, NEW l, Onward(l), Sound(l), Fails(l), journal' = journal
  PROVE  AppStep
<1>1. CASE Aborted
  BY <1>1 DEF Fails, AppStep, Onward
<1>2. CASE ~Aborted
  <2>1. PICK k : Onward(k) /\ Persist("work", k)
    BY <1>2, NextStatus, StatusNames DEF Fails, Absent
  <2> QED
    BY <2>1, PersistMoves DEF Writers
<1> QED
  BY <1>1, <1>2

\* What a copy knows of the server stays true.
LEMMA KnowsLater ==
  ASSUME NEW l \in Lessons, Knows(l, server), ServerLater
  PROVE  Knows(l, server')
<1>1. Identity(l) # Nobody /\ \A n : TaskOf(l, n) # Nobody
  BY DEF Identity, TaskOf, Nobody
<1>2. l.child # 0 => l.child \in 1 .. MaxAttempts
  BY DeliveryBoundsAssumption DEF Lessons
<1> QED
  BY <1>1, <1>2 DEF Knows, ServerLater

\* Every step but a write and a restart.
LEMMA AppMoves == DeliveryInv /\ [Next]_vars => AppStep \/ Write \/ Restart
<1> SUFFICES ASSUME DeliveryInv, [Next]_vars, ~Write, ~Restart PROVE AppStep
  OBVIOUS
<1>t. Typed /\ TypeOK /\ Sound(app) /\ seen \in Nat /\ app \in Lessons /\ Waits
  BY TypedIsTypeOK, SeenType DEF DeliveryInv, Wellformed, Typed, SavedTypes
<1>v. Typed' /\ ServerLater
  BY TypeStep, ServerStep
<1>s. seen <= server'.report.rev /\ server'.report.rev \in Nat
  BY <1>v DEF ServerLater, Typed, Rows, Reports, NoReport
<1>i. work.pc # "idle" \/ work.halt # "no" => app.status # Absent
  BY <1>t DEF Waits, Asks, Blank, Idle
<1>a. ASSUME app.status # Absent PROVE Onward(app)
  <2>1. Knows(app, server')
    BY <1>t, <1>v, KnowsLater DEF DeliveryInv, AllKnow
  <2>2. Follows(app, app, server'.report.rev)
    BY <1>t, FollowsItself
  <2> QED
    BY <1>a, <1>t, <2>1, <2>2 DEF Onward, Sound
<1>p. ASSUME NEW w \in Writers, NEW l, Onward(l), Persist(w, l), journal' = journal
      PROVE  AppStep
  BY <1>t, <1>p, PersistMoves
<1>f. ASSUME app.status # Absent, Fails(app), journal' = journal PROVE AppStep
  BY <1>a, <1>t, <1>f, FailsMoves
<1>n. ASSUME app.status # Absent, NEW s \in Statuses \ {Absent}
      PROVE  /\ Onward([app EXCEPT !.status = s])
             /\ \A c \in {0, app.child} : Onward([app EXCEPT !.status = s, !.child = c])
  BY <1>a, <1>n, NextStatus
<1>m. {"working", "resting", "stopped", "finished", "unknown"} \subseteq Statuses \ {Absent}
      /\ {"work", "tool", "flush"} = Writers
  BY StatusNames DEF Absent, Writers
<1>0. CASE app' = app /\ writes' = writes /\ journal' = journal
  BY <1>0 DEF AppStep
<1> USE DEF device
<1>c. ASSUME app.status # Absent, NEW c \in {"mine", "theirs"},
             c = "mine" => server.owner = Identity(app),
             c = "theirs" => server.owner # Nobody /\ server.owner # Identity(app)
      PROVE  Onward([app EXCEPT !.claim = c]) /\ Sound([app EXCEPT !.claim = c])
  <2> DEFINE l == [app EXCEPT !.claim = c]
  <2>1. l \in Lessons
    BY <1>t, LessonUpdates
  <2>2. /\ l.status = app.status /\ l.child = app.child /\ l.attempts = app.attempts
        /\ l.id = app.id /\ l.task = app.task /\ l.claim = c /\ l.reports = app.reports
        /\ l.rev = app.rev
    BY <1>t DEF Lessons
  <2>3. Onward(app)
    BY <1>a, <1>c
  <2>4. Identity(app) # Nobody /\ (server.owner # Nobody => server'.owner = server.owner)
    BY <1>v DEF Identity, Nobody, ServerLater
  <2>5. Knows(l, server')
    BY <1>c, <2>2, <2>3, <2>4 DEF Onward, Knows, Identity, TaskOf
  <2>6. Follows(app, l, server'.report.rev)
    BY <2>2, <2>3 DEF Onward, Follows, Kept
  <2> QED
    BY <1>c, <1>t, <2>1, <2>2, <2>3, <2>5, <2>6 DEF Onward, Sound
<1>h. ASSUME app.status # Absent, work.pc \in {"claiming", "lookingStep"},
             server.steps[app.attempts] = TaskOf(app, app.attempts)
      PROVE  Onward([app EXCEPT !.child = app.attempts])
  <2> DEFINE l == [app EXCEPT !.child = app.attempts]
  <2>0. app.attempts \in 1 .. MaxAttempts
    <3>1. app.attempts \in 0 .. MaxAttempts
      BY <1>t, LessonUpdates
    <3>2. app.attempts >= 1
      BY <1>h DEF DeliveryInv, Durable
    <3> QED
      BY <3>1, <3>2
  <2>1. l \in Lessons
    BY <1>t, LessonUpdates
  <2>2. /\ l.status = app.status /\ l.child = app.attempts /\ l.attempts = app.attempts
        /\ l.id = app.id /\ l.task = app.task /\ l.claim = app.claim
        /\ l.reports = app.reports
    BY <1>t DEF Lessons
  <2>3. Onward(app)
    BY <1>a, <1>h
  <2>4. server'.steps[app.attempts] = server.steps[app.attempts]
    BY <1>v, <1>h, <2>0 DEF TaskOf, Nobody, ServerLater
  <2>5. Knows(l, server')
    BY <1>h, <2>2, <2>3, <2>4 DEF Onward, Knows, Identity, TaskOf
  <2>6. Follows(app, l, server'.report.rev)
    BY <2>2, <2>3 DEF Onward, Follows, Kept
  <2> QED
    BY <2>0, <2>1, <2>2, <2>3, <2>5, <2>6 DEF Onward
<1>1. ASSUME NEW m \in wire, Serve(m) PROVE AppStep
  BY <1>1, <1>0 DEF Serve
<1>2. ASSUME NEW m \in wire, GivesUp(m) PROVE AppStep
  BY <1>2, <1>0 DEF GivesUp
<1>3. CASE TeacherStops
  BY <1>3, <1>0 DEF TeacherStops
<1>4. CASE OtherStarts
  BY <1>4, <1>0 DEF OtherStarts
<1>5. CASE OtherReports
  BY <1>5, <1>0 DEF OtherReports
<1>6. CASE Launch
  <2>1. CASE app.status = "resting" /\ Persist("work", [app EXCEPT !.status = "working"])
    BY <1>6, <2>1, <1>n, <1>p, <1>m DEF Launch, Absent
  <2> DEFINE l == [NoLesson EXCEPT !.status = "working", !.id = restarts]
  <2>2. CASE /\ app.status = Absent /\ journal.status = Absent
             /\ Persist("work", l)
    <3>1. l \in Lessons
      BY <1>t, NewLesson
    <3>2. l.status = "working" /\ l.child = 0 /\ l.attempts = 0 /\ l.claim = "none"
      BY DEF NoLesson
    <3>3. Onward(l)
      BY <2>2, <3>1, <3>2 DEF Onward, Follows, Knows, Absent
    <3> QED
      BY <1>6, <2>2, <3>3, <1>p, <1>m DEF Launch
  <2> QED
    BY <1>6, <2>1, <2>2 DEF Launch
<1>7. CASE Prepared
  BY <1>7, <1>0, <1>a, <1>i, <1>p, <1>f, <1>n, <1>m DEF Prepared, Quits
<1>8. CASE Starts
  BY <1>8, <1>0 DEF Starts
<1>9. CASE StartAnswered
  <2>1. CASE ask["work"] = "mine"
    <3>1. Onward([app EXCEPT !.claim = "mine"])
      BY <1>9, <2>1, <1>c, <1>i DEF StartAnswered, DeliveryInv, AnswersAreTrue
    <3> QED
      BY <1>9, <2>1, <3>1, <1>p, <1>m DEF StartAnswered
  <2>2. CASE ask["work"] = "theirs"
    <3>1. Onward([app EXCEPT !.claim = "theirs"]) /\ Sound([app EXCEPT !.claim = "theirs"])
      BY <1>9, <2>2, <1>c, <1>i DEF StartAnswered, DeliveryInv, AnswersAreTrue
    <3>2. Fails([app EXCEPT !.claim = "theirs"])
      BY <1>9, <2>2 DEF StartAnswered
    <3> QED
      BY <1>9, <3>1, <3>2, <1>t, FailsMoves DEF StartAnswered
  <2>3. CASE ask["work"] \notin {"mine", "theirs"}
    BY <1>9, <2>3, <1>0 DEF StartAnswered
  <2> QED
    BY <2>1, <2>2, <2>3
<1>10. CASE LooksUpStart
  <2>1. CASE Fails(app)
    BY <1>10, <2>1, <1>i, <1>f DEF LooksUpStart
  <2>2. CASE server.owner = Identity(app) /\ Persist("work", [app EXCEPT !.claim = "mine"])
    <3>1. Onward([app EXCEPT !.claim = "mine"])
      BY <1>10, <2>2, <1>c, <1>i, <1>t DEF LooksUpStart
    <3> QED
      BY <1>10, <2>2, <3>1, <1>p, <1>m DEF LooksUpStart
  <2> QED
    BY <1>10, <2>1, <2>2 DEF LooksUpStart
<1>11. CASE Authorizes
  BY <1>11, <1>0, <1>a, <1>i, <1>p, <1>f, <1>n, <1>m DEF Authorizes, Quits
<1>12. CASE ShowsMaterial
  BY <1>12, <1>0, <1>a, <1>i, <1>p, <1>f, <1>n, <1>m DEF ShowsMaterial, Quits
<1>13. CASE Attempts
  <2>1. PICK n : n = app.attempts + 1 /\ n <= MaxAttempts
    BY <1>13 DEF Attempts, MayAttempt
  <2> DEFINE l == [app EXCEPT !.attempts = n, !.task[n] = restarts]
  <2>2. /\ app.attempts \in Nat /\ n \in 1 .. MaxAttempts /\ app.child \in Nat
        /\ restarts \in Epochs
    <3>1. app.attempts \in 0 .. MaxAttempts /\ app.child \in 0 .. MaxAttempts
      BY <1>t, LessonUpdates
    <3>2. restarts \in Epochs
      BY <1>t DEF Typed
    <3> QED
      BY <2>1, <3>1, <3>2, DeliveryBoundsAssumption
  <2>3. l \in Lessons
    BY <1>t, <2>2, LessonUpdates
  <2>4. /\ l.status = app.status /\ l.child = app.child /\ l.attempts = n /\ l.id = app.id
        /\ l.reports = app.reports /\ l.claim = app.claim
        /\ \A i \in 1 .. app.attempts : l.task[i] = app.task[i]
    BY <1>t, <2>1, <2>2 DEF Lessons
  <2>5. app.status # Absent /\ Onward(app)
    BY <1>13, <1>i, <1>a DEF Attempts
  <2>6. Follows(app, l, server'.report.rev)
    BY <2>1, <2>2, <2>4, <2>5 DEF Follows, Kept
  <2>7. Knows(l, server')
    <3>1. l.child # 0 => l.child \in 1 .. app.attempts
      BY <2>2, <2>4, <2>5 DEF Onward
    <3> QED
      BY <2>4, <2>5, <3>1 DEF Onward, Knows, Identity, TaskOf
  <2>8. Onward(l)
    BY <2>1, <2>2, <2>3, <2>4, <2>5, <2>6, <2>7 DEF Onward
  <2> QED
    BY <1>13, <2>1, <2>8, <1>p, <1>m DEF Attempts, At
<1>14. CASE ClaimsStep
  BY <1>14, <1>0 DEF ClaimsStep
<1>15. CASE StepAnswered
  <2>1. CASE ask["work"] = "ok"
    <3>1. Onward([app EXCEPT !.child = app.attempts])
      BY <1>15, <2>1, <1>h, <1>i DEF StepAnswered, DeliveryInv, AnswersAreTrue
    <3> QED
      BY <1>15, <2>1, <3>1, <1>p, <1>m DEF StepAnswered
  <2>2. CASE ask["work"] # "ok"
    BY <1>15, <2>2, <1>0 DEF StepAnswered
  <2> QED
    BY <2>1, <2>2
<1>16. CASE LooksUpStep
  <2>1. CASE Fails(app)
    BY <1>16, <2>1, <1>i, <1>f DEF LooksUpStep
  <2>2. CASE /\ server.steps[app.attempts] = TaskOf(app, app.attempts)
             /\ Persist("work", [app EXCEPT !.child = app.attempts])
    <3>1. Onward([app EXCEPT !.child = app.attempts])
      BY <1>16, <2>2, <1>h, <1>i DEF LooksUpStep
    <3> QED
      BY <1>16, <2>2, <3>1, <1>p, <1>m DEF LooksUpStep
  <2> QED
    BY <1>16, <2>1, <2>2 DEF LooksUpStep
<1>17. CASE ToolSaves
  BY <1>17, <1>0, <1>a, <1>i, <1>p, <1>f, <1>n, <1>m DEF ToolSaves
<1>18. CASE ChildEnds
  BY <1>18, <1>0, <1>a, <1>i, <1>p, <1>f, <1>n, <1>m DEF ChildEnds, Quits
<1>19. CASE WorkEnds
  BY <1>19, <1>0 DEF WorkEnds
<1>20. CASE Finishes
  BY <1>20, <1>n, <1>p, <1>m DEF Finishes, Absent
<1>21. CASE Write
  BY <1>21
<1>22. CASE Halts
  BY <1>22, <1>0 DEF Halts
<1>23. CASE HaltMoves
  <2>1. work.halt \in {"resting", "stopped"}
    BY <1>23, <1>t DEF HaltMoves, Typed, SavedTypes, Runs
  <2> QED
    BY <1>23, <2>1, <1>0, <1>i, <1>n, <1>p, <1>m DEF HaltMoves
<1>24. CASE Restart
  BY <1>24
<1>25. ASSUME NEW w \in Works, Saved(w) PROVE AppStep
  <2>1. CASE app.claim = "none"
    BY <1>25, <2>1, <1>0 DEF Saved
  <2>2. CASE app.claim # "none"
    <3>1. app' = [app EXCEPT !.reports = app.reports \cup {Snapshot(w)}]
          /\ writes' = Append(writes, <<w, app'>>)
      BY <1>25, <2>2 DEF Saved, Queued
    <3>2. app.status # Absent
      BY <1>25, <1>t DEF Saved, Waits, Asks, Blank, NotSaving, Works, Writers
    <3>3. /\ app'.status = app.status /\ app'.child = app.child /\ app'.attempts = app.attempts
          /\ app'.id = app.id /\ app'.task = app.task /\ app'.claim = app.claim
          /\ app'.rev = app.rev /\ app.reports \subseteq app'.reports
      BY <1>t, <3>1 DEF Lessons
    <3>4. Onward(app)
      BY <3>2, <1>a
    <3>5. Follows(app, app', server'.report.rev) /\ Knows(app', server') /\ Sound(app')
      BY <1>t, <3>2, <3>3, <3>4 DEF Onward, Follows, Kept, Knows, Identity, TaskOf, Sound
    <3> QED
      BY <1>25, <3>1, <3>2, <3>3, <3>5 DEF Saved, AppStep, Works, Writers
  <2> QED
    BY <2>1, <2>2
<1>26. ASSUME NEW w \in Works, SendReport(w) PROVE AppStep
  BY <1>26, <1>0 DEF SendReport
<1>27. ASSUME NEW w \in Works, Reported(w) PROVE AppStep
  <2>1. CASE ask[w] # "ok"
    BY <1>27, <2>1, <1>0 DEF Reported
  <2>2. CASE ask[w] = "ok"
    <3>1. app' = [app EXCEPT !.reports = {r \in app.reports : r.rev > saver[w].report.rev}]
      BY <1>27, <2>2 DEF Reported
    <3>2. app.status # Absent
      BY <1>27, <1>t DEF Reported, Waits, Asks, Blank, NotSaving, Works, Writers
    <3>5. \A r \in app.reports : Kept(r, app', server'.report.rev)
      <4>1. saver[w].report.rev <= seen
        BY <1>27, <2>2 DEF Reported, DeliveryInv, AnswersAreTrue, seen
      <4>2. \A r \in app.reports : r \in Reports /\ r.rev \in Nat
        <5>1. app.reports \subseteq Reports
          BY <1>t, LessonUpdates
        <5> QED
          BY <5>1 DEF Reports
      <4>3. saver[w].report.rev \in Nat
        BY <1>t DEF Typed, SavedTypes, Saves, Reports, NoReport, Works, Writers
      <4>4. app'.reports = {r \in app.reports : r.rev > saver[w].report.rev}
        BY <1>t, <3>1 DEF Lessons
      <4> QED
        BY <4>1, <4>2, <4>3, <4>4, <1>t, <1>s DEF Kept
    <3>3. /\ app'.status = app.status /\ app'.child = app.child /\ app'.attempts = app.attempts
          /\ app'.id = app.id /\ app'.task = app.task /\ app'.claim = app.claim
          /\ app'.rev = app.rev
      BY <1>t, <3>1 DEF Lessons
    <3>4. Onward(app)
      BY <3>2, <1>a
    <3>6. Follows(app, app', server'.report.rev)
      BY <3>3, <3>4, <3>5 DEF Onward, Follows
    <3>7. Knows(app', server') /\ Sound(app')
      BY <1>t, <3>2, <3>3, <3>4 DEF Onward, Knows, Identity, TaskOf, Sound
    <3> QED
      BY <1>27, <3>2, <3>3, <3>6, <3>7 DEF Reported, AppStep
  <2> QED
    BY <2>1, <2>2
<1>28. CASE FlushSends
  BY <1>28, <1>0 DEF FlushSends
<1>29. CASE FlushAnswered
  <2>1. CASE ask["flush"] # "ok"
    BY <1>29, <2>1, <1>0 DEF FlushAnswered
  <2>2. CASE ask["flush"] = "ok"
    <3>1. app' = [app EXCEPT !.reports = app.reports \ {flush}]
      BY <1>29, <2>2 DEF FlushAnswered
    <3>2. app.status # Absent
      BY <1>29, <2>2, <1>t DEF FlushAnswered, Waits, Asks, Blank, Asking
    <3>5. \A r \in app.reports : Kept(r, app', server'.report.rev)
      <4>1. flush.rev <= seen
        BY <2>2 DEF DeliveryInv, AnswersAreTrue, seen
      <4>3. flush.rev \in Nat
        BY <1>t DEF Typed, Reports, NoReport
      <4>4. app'.reports = app.reports \ {flush}
        BY <1>t, <3>1 DEF Lessons
      <4> QED
        BY <4>1, <4>3, <4>4, <1>t, <1>s DEF Kept
    <3>3. /\ app'.status = app.status /\ app'.child = app.child /\ app'.attempts = app.attempts
          /\ app'.id = app.id /\ app'.task = app.task /\ app'.claim = app.claim
          /\ app'.rev = app.rev
      BY <1>t, <3>1 DEF Lessons
    <3>4. Onward(app)
      BY <3>2, <1>a
    <3>6. Follows(app, app', server'.report.rev)
      BY <3>3, <3>4, <3>5 DEF Onward, Follows
    <3>7. Knows(app', server') /\ Sound(app')
      BY <1>t, <3>2, <3>3, <3>4 DEF Onward, Knows, Identity, TaskOf, Sound
    <3> QED
      BY <1>29, <3>2, <3>3, <3>6, <3>7 DEF FlushAnswered, AppStep
  <2> QED
    BY <2>1, <2>2
<1>30. CASE UNCHANGED vars
  BY <1>30, <1>0 DEF vars
<1> QED
  BY <1>1, <1>2, <1>3, <1>4, <1>5, <1>6, <1>7, <1>8, <1>9, <1>10, <1>11, <1>12, <1>13,
     <1>14, <1>15, <1>16, <1>17, <1>18, <1>19, <1>20, <1>21, <1>22, <1>23, <1>24, <1>25,
     <1>26, <1>27, <1>28, <1>29, <1>30
     DEF Next, Device, Execute, Works

\* A copy that joins the store's queue is its last; the one that is written was its
\* first.
LEMMA QueueSteps ==
  ASSUME NEW q \in Waiting
  PROVE  /\ Len(q) \in Nat
         /\ \A i \in 1 .. Len(q) : q[i][1] \in Writers /\ q[i][2] \in Lessons
         /\ \A w \in Writers, l \in Lessons :
              /\ Len(Append(q, <<w, l>>)) = Len(q) + 1
              /\ \A i \in 1 .. Len(q) : Append(q, <<w, l>>)[i] = q[i]
              /\ Append(q, <<w, l>>)[Len(q) + 1] = <<w, l>>
         /\ q # << >> =>
              /\ Len(q) >= 1 /\ Head(q) = q[1] /\ Len(Tail(q)) = Len(q) - 1
              /\ \A i \in 1 .. Len(q) - 1 : Tail(q)[i] = q[i + 1]
<1>1. q \in Seq(Writers \X Lessons) /\ Len(q) \in Nat
  BY DEF Waiting
<1>2. \A i \in 1 .. Len(q) : q[i] \in Writers \X Lessons
  BY <1>1
<1>3. ASSUME NEW w \in Writers, NEW l \in Lessons
      PROVE  /\ Len(Append(q, <<w, l>>)) = Len(q) + 1
             /\ \A i \in 1 .. Len(q) : Append(q, <<w, l>>)[i] = q[i]
             /\ Append(q, <<w, l>>)[Len(q) + 1] = <<w, l>>
  <2>1. <<w, l>> \in Writers \X Lessons
    OBVIOUS
  <2> QED
    BY <1>1, <2>1
<1>4. q # << >> =>
        /\ Len(q) >= 1 /\ Head(q) = q[1] /\ Len(Tail(q)) = Len(q) - 1
        /\ \A i \in 1 .. Len(q) - 1 : Tail(q)[i] = q[i + 1]
  BY <1>1
<1> QED
  BY <1>1, <1>2, <1>3, <1>4

\* The three ways in which the copies move, with their types.
LEMMA CopyMoves ==
  ASSUME DeliveryInv, [Next]_vars
  PROVE  /\ app \in Lessons /\ journal \in Lessons /\ writes \in Waiting /\ seen \in Nat
         /\ app' \in Lessons /\ journal' \in Lessons /\ writes' \in Waiting
         /\ server'.report.rev \in Nat /\ seen <= server'.report.rev
         /\ AppStep \/ Write \/ Restart
<1>1. Typed /\ Typed' /\ TypeOK
  BY TypeStep, TypedIsTypeOK DEF DeliveryInv
<1>2. ServerLater /\ (AppStep \/ Write \/ Restart) /\ seen \in Nat
  BY <1>1, ServerStep, AppMoves, SeenType
<1> QED
  BY <1>1, <1>2 DEF Typed, SavedTypes, ServerLater, Rows, Reports, NoReport

\* What a restart reads again is the journal's lesson, one revision later.
LEMMA RestoredLesson ==
  ASSUME journal \in Lessons, Sound(journal), Restart
  PROVE  \/ app' = NoLesson /\ writes' = << >>
         \/ /\ app' = [journal EXCEPT !.status = app'.status, !.rev = @ + 1]
            /\ app'.status \in {"unknown", "resting"}
            /\ journal.status # Absent /\ writes' = <<<<"flush", app'>>>>
            /\ app'.rev = journal.rev + 1 /\ app'.child = journal.child
            /\ app'.attempts = journal.attempts /\ app'.id = journal.id
            /\ app'.task = journal.task /\ app'.claim = journal.claim
            /\ app'.reports = journal.reports
<1>1. CASE journal.status \in Over \cup {Absent}
  BY <1>1 DEF Restart, Restored, NoLesson
<1>2. CASE journal.status \notin Over \cup {Absent}
  <2>1. PICK s \in {"unknown", "resting"} :
          app' = [journal EXCEPT !.status = s, !.rev = @ + 1]
    BY <1>2 DEF Restart, Restored
  <2>2. app'.status = s /\ app'.rev = journal.rev + 1 /\ app'.child = journal.child
        /\ app'.attempts = journal.attempts /\ app'.id = journal.id
        /\ app'.task = journal.task /\ app'.claim = journal.claim
        /\ app'.reports = journal.reports
    BY <2>1 DEF Lessons
  <2> QED
    BY <1>2, <2>1, <2>2 DEF Restart, Absent
<1> QED
  BY <1>1, <1>2

\* FollowsItself, FollowsOn and FollowsLater, at what the server has seen by now.
LEMMA FollowsNow ==
  ASSUME seen \in Nat, server'.report.rev \in Nat, seen <= server'.report.rev
  PROVE  /\ \A l \in Lessons : Follows(l, l, server'.report.rev)
         /\ \A l, k, j \in Lessons :
              Follows(l, k, server'.report.rev) /\ Follows(k, j, server'.report.rev) =>
                Follows(l, j, server'.report.rev)
         /\ \A l, k \in Lessons :
              Follows(l, k, seen) => Follows(l, k, server'.report.rev)
<1> DEFINE v == server'.report.rev
           u == seen
<1>1. v \in Nat /\ u \in Nat /\ u <= v
  OBVIOUS
<1> HIDE DEF v, u
<1>2. \A l \in Lessons : Follows(l, l, v)
  BY DEF Follows, Kept, Lessons
<1>3. \A l, k, j \in Lessons : Follows(l, k, v) /\ Follows(k, j, v) => Follows(l, j, v)
  BY <1>1 DEF Follows, Kept, Lessons, Reports
<1>4. \A l, k \in Lessons : Follows(l, k, u) => Follows(l, k, v)
  BY <1>1 DEF Follows, Kept, Lessons, Reports
<1> QED
  BY <1>2, <1>3, <1>4 DEF v, u

\* Every step keeps requests and lessons well-formed.
LEMMA WellformedStep == DeliveryInv /\ [Next]_vars => Wellformed'
<1> SUFFICES ASSUME DeliveryInv, [Next]_vars PROVE Wellformed'
  OBVIOUS
<1>1. /\ app \in Lessons /\ journal \in Lessons /\ writes \in Waiting
      /\ app' \in Lessons /\ (AppStep \/ Write \/ Restart)
  BY CopyMoves
<1>2. /\ Sound(app) /\ Sound(journal)
      /\ \A i \in 1 .. Len(writes) : Sound(writes[i][2]) /\ writes[i][2].status # Absent
  BY DEF DeliveryInv, Wellformed
<1>3. wire' \subseteq Requests
  BY TypeStep DEF Typed
<1>4. CASE AppStep
  <2>1. Sound(app') /\ Sound(journal')
    BY <1>2, <1>4 DEF AppStep, Sound
  <2>2. CASE writes' = writes
    BY <1>2, <1>3, <2>1, <2>2 DEF Wellformed, Sound
  <2>3. ASSUME NEW w \in Writers, writes' = Append(writes, <<w, app'>>), app'.status # Absent
        PROVE  Wellformed'
    <3>1. ASSUME NEW i \in 1 .. Len(writes')
          PROVE  Sound(writes'[i][2]) /\ writes'[i][2].status # Absent
      <4>1. i \in 1 .. Len(writes) \/ i = Len(writes) + 1
        BY <1>1, <2>3, QueueSteps
      <4>2. CASE i \in 1 .. Len(writes)
        BY <1>1, <1>2, <2>3, <4>2, QueueSteps
      <4>3. CASE i = Len(writes) + 1
        BY <1>1, <2>1, <2>3, <4>3, QueueSteps
      <4> QED
        BY <4>1, <4>2, <4>3
    <3> QED
      BY <1>3, <2>1, <3>1 DEF Wellformed, Sound
  <2> QED
    BY <1>4, <2>2, <2>3 DEF AppStep
<1>5. CASE Write
  <2>1. /\ journal' = writes[1][2] /\ Len(writes) >= 1 /\ Len(writes') = Len(writes) - 1
        /\ \A i \in 1 .. Len(writes) - 1 : writes'[i] = writes[i + 1]
        /\ app' = app /\ Len(writes) \in Nat
    BY <1>1, <1>5, QueueSteps DEF Write
  <2>2. Sound(journal') /\ Sound(app')
    BY <1>2, <2>1
  <2>3. ASSUME NEW i \in 1 .. Len(writes')
        PROVE  Sound(writes'[i][2]) /\ writes'[i][2].status # Absent
    <3>1. i + 1 \in 1 .. Len(writes) /\ writes'[i] = writes[i + 1]
      BY <2>1
    <3> QED
      BY <1>2, <3>1
  <2> QED
    BY <1>3, <2>2, <2>3 DEF Wellformed, Sound
<1>6. CASE Restart
  <2>1. Sound(app') /\ Sound(journal')
    <3>1. Sound(NoLesson)
      BY DEF Sound, NoLesson
    <3>2. journal' = journal /\ journal.rev \in Nat
      BY <1>1, <1>6 DEF Restart, Lessons
    <3> QED
      BY <1>1, <1>2, <1>6, <3>1, <3>2, RestoredLesson DEF Sound, Absent
  <2>2. \A i \in 1 .. Len(writes') : Sound(writes'[i][2]) /\ writes'[i][2].status # Absent
    BY <1>1, <1>2, <1>6, <2>1, RestoredLesson DEF Absent
  <2> QED
    BY <1>3, <2>1, <2>2 DEF Wellformed, Sound
<1> QED
  BY <1>1, <1>4, <1>5, <1>6

\* Every step keeps the copies in their order.
LEMMA InOrderStep == DeliveryInv /\ [Next]_vars => InOrder'
<1> SUFFICES ASSUME DeliveryInv, [Next]_vars PROVE InOrder'
  OBVIOUS
<1> DEFINE v == server'.report.rev
<1>1. /\ app \in Lessons /\ journal \in Lessons /\ writes \in Waiting
      /\ app' \in Lessons /\ (AppStep \/ Write \/ Restart)
      /\ Len(writes) \in Nat /\ \A i \in 1 .. Len(writes) : writes[i][2] \in Lessons
  BY CopyMoves, QueueSteps
<1>2. /\ app.status # Absent => Follows(journal, app, v)
      /\ \A i \in 1 .. Len(writes) :
           /\ Follows(journal, writes[i][2], v) /\ Follows(writes[i][2], app, v)
           /\ \A j \in i .. Len(writes) : Follows(writes[i][2], writes[j][2], v)
  <2>1. /\ app.status # Absent => Follows(journal, app, seen)
        /\ \A i \in 1 .. Len(writes) :
             /\ Follows(journal, writes[i][2], seen) /\ Follows(writes[i][2], app, seen)
             /\ \A j \in i .. Len(writes) : Follows(writes[i][2], writes[j][2], seen)
    BY DEF DeliveryInv, InOrder
  <2>2. \A l, k \in Lessons : Follows(l, k, seen) => Follows(l, k, v)
    BY CopyMoves, FollowsNow
  <2>3. \A i \in 1 .. Len(writes) : \A j \in i .. Len(writes) : j \in 1 .. Len(writes)
    BY <1>1
  <2> QED
    BY <1>1, <2>1, <2>2, <2>3
<1>g. ASSUME /\ app'.status # Absent => Follows(journal', app', v)
             /\ \A i \in 1 .. Len(writes') :
                  /\ Follows(journal', writes'[i][2], v) /\ Follows(writes'[i][2], app', v)
                  /\ \A j \in i .. Len(writes') : Follows(writes'[i][2], writes'[j][2], v)
      PROVE  InOrder'
  BY <1>g DEF InOrder, seen
<1>3. \A l, k, j \in Lessons : Follows(l, k, v) /\ Follows(k, j, v) => Follows(l, j, v)
  BY CopyMoves, FollowsNow
<1>s. Follows(app', app', v)
  BY <1>1, CopyMoves, FollowsNow
<1> HIDE DEF v
<1>4. CASE AppStep
  <2>1. CASE app' = app /\ writes' = writes
    BY <1>2, <1>4, <1>g, <2>1 DEF AppStep
  <2>2. CASE app'.status # Absent /\ Follows(app, app', v) /\ app.status = Absent
    <3>1. journal.status = Absent /\ journal' = journal /\ writes = << >>
      BY <1>4, <2>2 DEF AppStep, DeliveryInv, Waits, Asks, Blank
    <3>2. \A l : Follows(journal', l, v)
      BY <3>1 DEF Follows
    <3>3. Follows(app', app', v)
      BY <1>s
    <3>4. \A i \in 1 .. Len(writes') : writes'[i][2] = app'
      BY <1>4, <2>2, <3>1 DEF AppStep
    <3>5. \A i \in 1 .. Len(writes') : \A j \in i .. Len(writes') : writes'[j][2] = app'
      <4>1. writes' \in Waiting
        BY CopyMoves
      <4>2. Len(writes') \in Nat
        BY <4>1 DEF Waiting
      <4> QED
        BY <3>4, <4>2
    <3> QED
      BY <1>g, <3>2, <3>3, <3>4, <3>5
  <2>3. CASE app'.status # Absent /\ Follows(app, app', v) /\ app.status # Absent
    <3>1. journal' = journal /\ Follows(journal, app', v)
      <4>1. journal' = journal /\ Follows(journal, app, v) /\ Follows(app, app', v)
        BY <1>2, <1>4, <2>3 DEF AppStep
      <4>2. journal \in Lessons /\ app \in Lessons /\ app' \in Lessons
        BY <1>1
      <4>3. Follows(journal, app', v)
        BY <1>3, <4>1, <4>2
      <4> QED
        BY <4>1, <4>3
    <3>2. \A i \in 1 .. Len(writes) : Follows(writes[i][2], app', v)
      <4> SUFFICES ASSUME NEW i \in 1 .. Len(writes) PROVE Follows(writes[i][2], app', v)
        OBVIOUS
      <4>1. Follows(writes[i][2], app, v) /\ writes[i][2] \in Lessons
        BY <1>1, <1>2
      <4>2. app \in Lessons /\ app' \in Lessons /\ Follows(app, app', v)
        BY <1>1, <2>3
      <4> QED
        BY <1>3, <4>1, <4>2
    <3>3. CASE writes' = writes
      BY <1>2, <1>g, <3>1, <3>2, <3>3
    <3>4. ASSUME NEW w \in Writers, writes' = Append(writes, <<w, app'>>) PROVE InOrder'
      <4>1. /\ Len(writes') = Len(writes) + 1
            /\ \A i \in 1 .. Len(writes) : writes'[i] = writes[i]
            /\ writes'[Len(writes) + 1] = <<w, app'>>
        BY <1>1, <3>4, QueueSteps
      <4>2. Follows(app', app', v)
        BY <1>s
      <4>3. ASSUME NEW i \in 1 .. Len(writes')
            PROVE  /\ Follows(journal', writes'[i][2], v) /\ Follows(writes'[i][2], app', v)
                   /\ \A j \in i .. Len(writes') : Follows(writes'[i][2], writes'[j][2], v)
        <5>1. CASE i = Len(writes) + 1
          <6>1. \A j \in i .. Len(writes') : j = i
            BY <1>1, <4>1, <5>1
          <6> QED
            BY <3>1, <4>1, <4>2, <5>1, <6>1
        <5>2. CASE i \in 1 .. Len(writes)
          <6>1. ASSUME NEW j \in i .. Len(writes')
                PROVE  Follows(writes'[i][2], writes'[j][2], v)
            <7>1. CASE j = Len(writes) + 1
              BY <3>2, <4>1, <5>2, <7>1
            <7>2. CASE j \in i .. Len(writes)
              <8>1. j \in 1 .. Len(writes)
                BY <1>1, <5>2, <7>2
              <8> QED
                BY <1>2, <4>1, <5>2, <7>2, <8>1
            <7> QED
              BY <1>1, <4>1, <5>2, <7>1, <7>2
          <6> QED
            BY <1>2, <3>1, <3>2, <4>1, <5>2, <6>1
        <5> QED
          BY <1>1, <4>1, <5>1, <5>2
      <4> QED
        BY <1>g, <3>1, <4>3
    <3> QED
      BY <1>4, <2>3, <3>3, <3>4 DEF AppStep
  <2> QED
    BY <1>4, <2>1, <2>2, <2>3 DEF AppStep, v
<1>5. CASE Write
  <2>1. /\ journal' = writes[1][2] /\ Len(writes) >= 1 /\ Len(writes') = Len(writes) - 1
        /\ \A i \in 1 .. Len(writes) - 1 : writes'[i] = writes[i + 1]
        /\ app' = app
    BY <1>1, <1>5, QueueSteps DEF Write
  <2>2. Follows(journal', app', v)
    BY <1>1, <1>2, <2>1
  <2>3. ASSUME NEW i \in 1 .. Len(writes')
        PROVE  /\ Follows(journal', writes'[i][2], v) /\ Follows(writes'[i][2], app', v)
               /\ \A j \in i .. Len(writes') : Follows(writes'[i][2], writes'[j][2], v)
    <3>1. i + 1 \in 1 .. Len(writes) /\ writes'[i] = writes[i + 1] /\ 1 \in 1 .. Len(writes)
          /\ i + 1 \in 1 .. Len(writes)
      BY <1>1, <2>1
    <3>2. ASSUME NEW j \in i .. Len(writes')
          PROVE  Follows(writes'[i][2], writes'[j][2], v)
      <4>1. j + 1 \in i + 1 .. Len(writes) /\ writes'[j] = writes[j + 1]
        BY <1>1, <2>1
      <4> QED
        BY <1>2, <3>1, <4>1
    <3>3. Follows(writes[1][2], writes[i + 1][2], v)
      BY <1>2, <3>1
    <3> QED
      BY <1>2, <2>1, <3>1, <3>2, <3>3
  <2> QED
    BY <1>g, <2>2, <2>3
<1>6. CASE Restart
  <2>0. journal' = journal /\ Sound(journal)
    BY <1>6 DEF Restart, DeliveryInv, Wellformed
  <2>1. CASE app' = NoLesson /\ writes' = << >>
    BY <1>g, <2>1 DEF NoLesson
  <2>2. CASE app' # NoLesson
    <3>1. Follows(journal, app', v) /\ Follows(app', app', v)
      BY <1>1, <1>s, <1>6, <2>0, <2>2, RestoredLesson DEF Follows, Kept, Absent
    <3>2. writes' = <<<<"flush", app'>>>>
      BY <1>1, <1>6, <2>0, <2>2, RestoredLesson
    <3>3. \A i \in 1 .. Len(writes') :
            /\ writes'[i][2] = app' /\ \A j \in i .. Len(writes') : writes'[j][2] = app'
      BY <3>2
    <3> QED
      BY <1>g, <2>0, <3>1, <3>3
  <2> QED
    BY <1>1, <1>6, <2>0, <2>1, <2>2, RestoredLesson DEF NoLesson, Absent
<1> QED
  BY <1>1, <1>4, <1>5, <1>6

\* No step makes what a copy knows untrue.
LEMMA AllKnowStep == DeliveryInv /\ [Next]_vars => AllKnow'
<1> SUFFICES ASSUME DeliveryInv, [Next]_vars PROVE AllKnow'
  OBVIOUS
<1>1. /\ app \in Lessons /\ journal \in Lessons /\ writes \in Waiting
      /\ app' \in Lessons /\ (AppStep \/ Write \/ Restart)
      /\ Len(writes) \in Nat /\ \A i \in 1 .. Len(writes) : writes[i][2] \in Lessons
  BY CopyMoves, QueueSteps
<1>2. /\ Knows(app, server') /\ Knows(journal, server')
      /\ \A i \in 1 .. Len(writes) : Knows(writes[i][2], server')
  BY <1>1, ServerStep, KnowsLater DEF DeliveryInv, AllKnow
<1>g. ASSUME /\ Knows(app', server') /\ Knows(journal', server')
             /\ \A i \in 1 .. Len(writes') : Knows(writes'[i][2], server')
      PROVE  AllKnow'
  BY <1>g DEF AllKnow
<1>4. CASE AppStep
  <2>1. Knows(app', server') /\ journal' = journal
    BY <1>2, <1>4 DEF AppStep
  <2>2. CASE writes' = writes
    BY <1>2, <1>g, <2>1, <2>2
  <2>3. ASSUME NEW w \in Writers, writes' = Append(writes, <<w, app'>>)
        PROVE  AllKnow'
    <3>1. /\ Len(writes') = Len(writes) + 1
          /\ \A i \in 1 .. Len(writes) : writes'[i] = writes[i]
          /\ writes'[Len(writes) + 1] = <<w, app'>>
      BY <1>1, <2>3, QueueSteps
    <3>2. \A i \in 1 .. Len(writes') : i \in 1 .. Len(writes) \/ i = Len(writes) + 1
      BY <1>1, <3>1
    <3> QED
      BY <1>2, <1>g, <2>1, <3>1, <3>2
  <2> QED
    BY <1>4, <2>2, <2>3 DEF AppStep
<1>5. CASE Write
  <2>1. /\ journal' = writes[1][2] /\ Len(writes) >= 1 /\ Len(writes') = Len(writes) - 1
        /\ \A i \in 1 .. Len(writes) - 1 : writes'[i] = writes[i + 1]
        /\ app' = app
    BY <1>1, <1>5, QueueSteps DEF Write
  <2>2. \A i \in 1 .. Len(writes') :
          i + 1 \in 1 .. Len(writes) /\ writes'[i] = writes[i + 1]
    BY <1>1, <2>1
  <2> QED
    BY <1>1, <1>2, <1>g, <2>1, <2>2
<1>6. CASE Restart
  <2>0. journal' = journal /\ Sound(journal)
    BY <1>6 DEF Restart, DeliveryInv, Wellformed
  <2>1. CASE app' = NoLesson /\ writes' = << >>
    <3>1. Knows(NoLesson, server')
      BY DEF Knows, NoLesson
    <3> QED
      BY <1>2, <1>g, <2>0, <2>1, <3>1
  <2>2. CASE app' # NoLesson
    <3>1. Knows(app', server')
      BY <1>1, <1>2, <1>6, <2>0, <2>2, RestoredLesson DEF Knows, Identity, TaskOf
    <3>2. writes' = <<<<"flush", app'>>>>
      BY <1>1, <1>6, <2>0, <2>2, RestoredLesson
    <3> QED
      BY <1>2, <1>g, <2>0, <3>1, <3>2
  <2> QED
    BY <1>1, <1>6, <2>0, <2>1, <2>2, RestoredLesson DEF NoLesson, Absent
<1> QED
  BY <1>1, <1>4, <1>5, <1>6

(***************************************************************************)
(* Who waits for what.                                                     *)
(***************************************************************************)
\* What a call does to the places of persist, of execute and of the answers.
Moved(w) ==
  /\ saver'[w] = [pc |-> "saving", report |-> saver[w].report]
  /\ \A x \in Writers \ {w} : saver'[x] = saver[x]

\* Which states of persist and of execute their operators lead to.
LEMMA Movements ==
  ASSUME Typed
  PROVE  /\ \A w \in Writers : \A l : Persist(w, l) => Moved(w)
         /\ \A pc : At(pc) => work'.pc = pc /\ work'.halt = work.halt
         /\ \A l : Fails(l) =>
              \/ saver' = saver /\ work'.pc = "idle" /\ work'.halt = work.halt
              \/ Moved("work") /\ work'.pc = "saving" /\ work'.halt = work.halt
         /\ \A w \in Writers : \A m : Sends(w, m) =>
              /\ wire' = wire \cup {m}
              /\ ask'[w] = "waiting" /\ \A x \in Writers \ {w} : ask'[x] = ask[x]
         /\ \A w \in Writers : Heard(w) =>
              ask'[w] = "none" /\ \A x \in Writers \ {w} : ask'[x] = ask[x]
<1>t. saver \in [Writers -> Saves] /\ work \in Runs /\ ask \in [Writers -> Answers]
  BY DEF Typed, SavedTypes
<1>1. ASSUME NEW w \in Writers, NEW l, Persist(w, l) PROVE Moved(w)
  BY <1>t, <1>1 DEF Persist, Moved, Saves
<1>2. ASSUME NEW pc, At(pc) PROVE work'.pc = pc /\ work'.halt = work.halt
  BY <1>t, <1>2 DEF At, Runs
<1>3. ASSUME NEW l, Fails(l)
      PROVE  \/ saver' = saver /\ work'.pc = "idle" /\ work'.halt = work.halt
             \/ Moved("work") /\ work'.pc = "saving" /\ work'.halt = work.halt
  BY <1>1, <1>2, <1>3 DEF Fails, Writers
<1>4. ASSUME NEW w \in Writers, NEW m, Sends(w, m)
      PROVE  /\ wire' = wire \cup {m}
             /\ ask'[w] = "waiting" /\ \A x \in Writers \ {w} : ask'[x] = ask[x]
  BY <1>t, <1>4 DEF Sends
<1>5. ASSUME NEW w \in Writers, Heard(w)
      PROVE  ask'[w] = "none" /\ \A x \in Writers \ {w} : ask'[x] = ask[x]
  BY <1>t, <1>5 DEF Heard
<1> QED
  BY <1>1, <1>2, <1>3, <1>4, <1>5

\* Every step keeps each writer to one request, and each answer to its request.
LEMMA AsksStep == DeliveryInv /\ [Next]_vars => Asks'
<1> SUFFICES ASSUME DeliveryInv, [Next]_vars PROVE Asks'
  OBVIOUS
<1>t. /\ Typed /\ ask \in [Writers -> Answers] /\ Asks
      /\ \A m \in wire : m.by \in Writers /\ m.late \in BOOLEAN
      /\ ask' \in [Writers -> Answers] /\ wire \subseteq Requests
  BY TypeStep, TypedIsTypeOK DEF DeliveryInv, TypeOK, Typed, Waits
<1>x. /\ Writers = {"work", "tool", "flush"} /\ Works = {"work", "tool"}
      /\ NotSaving.pc = "idle" /\ NotSaving.report = NoReport
  BY DEF Writers, Works, NotSaving
<1>m. /\ \A w \in Writers : \A l : Persist(w, l) => Moved(w)
      /\ \A pc : At(pc) => work'.pc = pc /\ work'.halt = work.halt
      /\ \A l : Fails(l) =>
           \/ saver' = saver /\ work'.pc = "idle" /\ work'.halt = work.halt
           \/ Moved("work") /\ work'.pc = "saving" /\ work'.halt = work.halt
      /\ \A w \in Writers : \A m : Sends(w, m) =>
           /\ wire' = wire \cup {m}
           /\ ask'[w] = "waiting" /\ \A x \in Writers \ {w} : ask'[x] = ask[x]
      /\ \A w \in Writers : Heard(w) =>
           ask'[w] = "none" /\ \A x \in Writers \ {w} : ask'[x] = ask[x]
  BY <1>t, Movements
<1>u. CASE wire' = wire /\ work' = work /\ saver' = saver /\ ask' = ask /\ flush' = flush
  BY <1>t, <1>u DEF Asks, Asking
<1> USE DEF device
<1>1. ASSUME NEW m \in wire, Serve(m) PROVE Asks'
  <2>1. \/ m.late /\ ask' = ask
        \/ ~m.late /\ ask[m.by] = "waiting" /\ ask'[m.by] \notin {"none", "waiting"}
             /\ \A x \in Writers \ {m.by} : ask'[x] = ask[x]
    BY <1>1, <1>t DEF Serve, Asks, Served, ServeStart, ServeStep, ServeReport
  <2> QED
    BY <1>1, <1>t, <1>x, <2>1 DEF Serve, Asks, Asking
<1>2. ASSUME NEW m \in wire, GivesUp(m) PROVE Asks'
  <2>1. ask[m.by] = "waiting" /\ ask'[m.by] = "no" /\ \A x \in Writers \ {m.by} : ask'[x] = ask[x]
    BY <1>2, <1>t DEF GivesUp, Asks
  <2>2. [m EXCEPT !.late = TRUE].late = TRUE
    BY <1>t DEF Requests, StartRequests, StepRequests, ReportRequests
  <2>3. \A x \in wire' : ~x.late => x \in wire /\ x # m
    BY <1>2, <2>2 DEF GivesUp
  <2>4. \A x \in wire' : ~x.late => x.by # m.by
    BY <1>2, <1>t, <2>3 DEF GivesUp, Asks
  <2>5. work' = work /\ saver' = saver /\ flush' = flush
    BY <1>2 DEF GivesUp
  <2> QED
    BY <1>t, <1>x, <2>1, <2>3, <2>4, <2>5 DEF Asks, Asking
<1>3. CASE TeacherStops
  BY <1>3, <1>u DEF TeacherStops
<1>4. CASE OtherStarts
  BY <1>4, <1>u DEF OtherStarts
<1>5. CASE OtherReports
  BY <1>5, <1>u DEF OtherReports
<1>6. CASE Launch
  BY <1>6, <1>t, <1>m, <1>x DEF Launch, Settled, Idle, Asks, Asking, Moved
<1>7. CASE Prepared
  BY <1>7, <1>t, <1>m, <1>x DEF Prepared, Settled, Quits, Asks, Asking, Moved
<1>8. CASE Starts
  BY <1>8, <1>t, <1>m, <1>x DEF Starts, Settled, Asks, Asking, Moved
<1>9. CASE StartAnswered
  BY <1>9, <1>t, <1>m, <1>x DEF StartAnswered, Answered, Asks, Asking, Moved
<1>10. CASE LooksUpStart
  BY <1>10, <1>t, <1>m, <1>x DEF LooksUpStart, Asks, Asking, Moved
<1>11. CASE Authorizes
  BY <1>11, <1>t, <1>m, <1>x DEF Authorizes, Settled, Quits, Asks, Asking, Moved
<1>12. CASE ShowsMaterial
  BY <1>12, <1>t, <1>m, <1>x DEF ShowsMaterial, Settled, Quits, Asks, Asking, Moved
<1>13. CASE Attempts
  BY <1>13, <1>t, <1>m, <1>x DEF Attempts, Settled, Asks, Asking, Moved
<1>14. CASE ClaimsStep
  BY <1>14, <1>t, <1>m, <1>x DEF ClaimsStep, MayClaim, Settled, Asks, Asking, Moved
<1>15. CASE StepAnswered
  BY <1>15, <1>t, <1>m, <1>x DEF StepAnswered, Answered, Asks, Asking, Moved
<1>16. CASE LooksUpStep
  BY <1>16, <1>t, <1>m, <1>x DEF LooksUpStep, Asks, Asking, Moved
<1>17. CASE ToolSaves
  BY <1>17, <1>t, <1>m, <1>x DEF ToolSaves, Asks, Asking, Moved
<1>18. CASE ChildEnds
  BY <1>18, <1>t, <1>m, <1>x DEF ChildEnds, Settled, Quits, Asks, Asking, Moved
<1>19. CASE WorkEnds
  BY <1>19, <1>t, <1>m, <1>x DEF WorkEnds, Settled, Asks, Asking, Moved
<1>20. CASE Finishes
  BY <1>20, <1>t, <1>m, <1>x DEF Finishes, Settled, Idle, Asks, Asking, Moved
<1>21. CASE Write
  BY <1>21, <1>u DEF Write
<1>22. CASE Halts
  <2>1. work'.pc = work.pc
    BY <1>22, <1>t DEF Halts, Typed, SavedTypes, Runs
  <2> QED
    BY <1>22, <1>t, <2>1 DEF Halts, Asks, Asking
<1>23. CASE HaltMoves
  BY <1>23, <1>t, <1>m, <1>x DEF HaltMoves, Settled, Idle, Asks, Asking, Moved
<1>24. CASE Restart
  <2>1. \A m \in wire : [m EXCEPT !.late = TRUE].late = TRUE
    BY <1>t DEF Requests, StartRequests, StepRequests, ReportRequests
  <2>2. \A m \in wire' : m.late = TRUE
    BY <1>24, <2>1 DEF Restart
  <2>3. /\ work'.pc = "idle" /\ \A w \in Writers : saver'[w] = NotSaving /\ ask'[w] = "none"
        /\ flush' = NoReport
    BY <1>24 DEF Restart, Idle
  <2> QED
    BY <1>x, <2>2, <2>3 DEF Asks, Asking
<1>25. ASSUME NEW w \in Works, Saved(w) PROVE Asks'
  <2>1. Snapshot(w) # NoReport
    <3>1. app.status # Absent
      BY <1>25, <1>x DEF Saved, DeliveryInv, Waits, Blank
    <3> QED
      BY <3>1 DEF Snapshot, NoReport
  <2> QED
    BY <1>25, <1>t, <1>x, <2>1 DEF Saved, Asks, Asking, Typed, SavedTypes
<1>26. ASSUME NEW w \in Works, SendReport(w) PROVE Asks'
  BY <1>26, <1>t, <1>m, <1>x DEF SendReport, ReportRequest, Asks, Asking, Moved, Saves,
     Typed, SavedTypes
<1>27. ASSUME NEW w \in Works, Reported(w) PROVE Asks'
  BY <1>27, <1>t, <1>m, <1>x DEF Reported, Answered, Asks, Asking, Moved, Saves, Typed,
     SavedTypes
<1>28. CASE FlushSends
  <2>1. app.reports \subseteq Reports
    BY <1>t, LessonUpdates DEF Typed, SavedTypes
  <2>2. flush' # NoReport /\ Sends("flush", ReportRequest("flush", flush'))
    BY <1>28, <2>1, LessonTypes DEF FlushSends
  <2> QED
    BY <1>28, <1>t, <1>m, <1>x, <2>2 DEF FlushSends, ReportRequest, Asks, Asking
<1>29. CASE FlushAnswered
  BY <1>29, <1>t, <1>m, <1>x DEF FlushAnswered, Answered, Asks, Asking, Moved
<1>30. CASE UNCHANGED vars
  BY <1>30, <1>u DEF vars
<1> QED
  BY <1>1, <1>2, <1>3, <1>4, <1>5, <1>6, <1>7, <1>8, <1>9, <1>10, <1>11, <1>12, <1>13,
     <1>14, <1>15, <1>16, <1>17, <1>18, <1>19, <1>20, <1>21, <1>22, <1>23, <1>24, <1>25,
     <1>26, <1>27, <1>28, <1>29, <1>30
     DEF Next, Device, Execute, Works

\* Without a lesson nobody begins, and a new lesson is no longer nothing.
LEMMA BlankStep == DeliveryInv /\ [Next]_vars => Blank'
<1> SUFFICES ASSUME DeliveryInv, [Next]_vars, app'.status = Absent
             PROVE  Blank'
  BY DEF Blank
<1>1. CASE Restart
  <2>1. journal \in Lessons /\ Sound(journal)
    BY CopyMoves DEF DeliveryInv, Wellformed
  <2>2. app' = NoLesson /\ writes' = << >>
    BY <1>1, <2>1, RestoredLesson DEF Absent
  <2> QED
    BY <1>1, <2>2 DEF Restart, Blank, NoLesson
<1>2. CASE ~Restart
  <2>a. AppStep \/ Write
    BY <1>2, CopyMoves
  <2>b. app.status = Absent
    BY <2>a DEF AppStep, Write
  <2>c. /\ work = Idle /\ writes = << >> /\ app.reports = {} /\ flush = NoReport
        /\ \A w \in Writers : saver[w] = NotSaving
    BY <2>b DEF DeliveryInv, Waits, Blank
  <2>d. app' = app /\ writes' = writes
    BY <2>a, <2>c DEF AppStep, Write
  <2>g. ASSUME work' = work /\ saver' = saver /\ flush' = flush PROVE Blank'
    BY <2>b, <2>c, <2>d, <2>g DEF Blank
  <2>x. Works \subseteq Writers /\ "work" \in Writers /\ "tool" \in Writers
        /\ NotSaving.pc = "idle" /\ Idle.pc = "idle" /\ Idle.halt = "no"
        /\ ask["work"] = "none" /\ ask["flush"] = "none"
    BY <2>c DEF Works, Writers, NotSaving, Idle, DeliveryInv, Waits, Asks, Asking
  <2> USE DEF device
  <2>1. ASSUME NEW m \in wire, Serve(m) PROVE Blank'
    BY <2>1, <2>g DEF Serve
  <2>2. ASSUME NEW m \in wire, GivesUp(m) PROVE Blank'
    BY <2>2, <2>g DEF GivesUp
  <2>3. CASE TeacherStops
    BY <2>3, <2>g DEF TeacherStops
  <2>4. CASE OtherStarts
    BY <2>4, <2>g DEF OtherStarts
  <2>5. CASE OtherReports
    BY <2>5, <2>g DEF OtherReports
  <2>6. CASE Launch
    <3>1. Persist("work", [NoLesson EXCEPT !.status = "working", !.id = restarts])
      BY <2>6, <2>b DEF Launch, Absent
    <3>2. app'.status = "working"
      BY <3>1 DEF Persist, NoLesson
    <3> QED
      BY <3>2 DEF Absent
  <2>7. CASE Prepared
    BY <2>7, <2>b, <2>c, <2>x, <2>g DEF Prepared
  <2>8. CASE Starts
    BY <2>8, <2>b, <2>c, <2>x, <2>g DEF Starts
  <2>9. CASE StartAnswered
    BY <2>9, <2>b, <2>c, <2>x, <2>g DEF StartAnswered
  <2>10. CASE LooksUpStart
    BY <2>10, <2>b, <2>c, <2>x, <2>g DEF LooksUpStart
  <2>11. CASE Authorizes
    BY <2>11, <2>b, <2>c, <2>x, <2>g DEF Authorizes
  <2>12. CASE ShowsMaterial
    BY <2>12, <2>b, <2>c, <2>x, <2>g DEF ShowsMaterial
  <2>13. CASE Attempts
    BY <2>13, <2>b, <2>c, <2>x, <2>g DEF Attempts
  <2>14. CASE ClaimsStep
    BY <2>14, <2>b, <2>c, <2>x, <2>g DEF ClaimsStep
  <2>15. CASE StepAnswered
    BY <2>15, <2>b, <2>c, <2>x, <2>g DEF StepAnswered
  <2>16. CASE LooksUpStep
    BY <2>16, <2>b, <2>c, <2>x, <2>g DEF LooksUpStep
  <2>17. CASE ToolSaves
    BY <2>17, <2>b, <2>c, <2>x, <2>g DEF ToolSaves
  <2>18. CASE ChildEnds
    BY <2>18, <2>b, <2>c, <2>x, <2>g DEF ChildEnds
  <2>19. CASE WorkEnds
    BY <2>19, <2>b, <2>c, <2>x, <2>g DEF WorkEnds
  <2>20. CASE Finishes
    BY <2>20, <2>b, <2>c, <2>x DEF Finishes, Absent
  <2>21. CASE Write
    BY <2>21, <2>b, <2>c, <2>x, <2>g DEF Write
  <2>22. CASE Halts
    BY <2>22, <2>b DEF Halts
  <2>23. CASE HaltMoves
    BY <2>23, <2>b, <2>c, <2>x, <2>g DEF HaltMoves
  <2>24. CASE Restart
    BY <2>24, <1>2
  <2>25. ASSUME NEW w \in Works, Saved(w) PROVE Blank'
    BY <2>25, <2>b, <2>c, <2>x, <2>g DEF Saved
  <2>26. ASSUME NEW w \in Works, SendReport(w) PROVE Blank'
    BY <2>26, <2>b, <2>c, <2>x, <2>g DEF SendReport
  <2>27. ASSUME NEW w \in Works, Reported(w) PROVE Blank'
    BY <2>27, <2>b, <2>c, <2>x, <2>g DEF Reported
  <2>28. CASE FlushSends
    BY <2>28, <2>b, <2>c DEF FlushSends
  <2>29. CASE FlushAnswered
    BY <2>29, <2>x DEF FlushAnswered, Answered
  <2>30. CASE UNCHANGED vars
    BY <2>30, <2>g DEF vars
  <2> QED
    BY <2>1, <2>2, <2>3, <2>4, <2>5, <2>6, <2>7, <2>8, <2>9, <2>10, <2>11, <2>12, <2>13,
       <2>14, <2>15, <2>16, <2>17, <2>18, <2>19, <2>20, <2>21, <2>22, <2>23, <2>24, <2>25,
       <2>26, <2>27, <2>28, <2>29, <2>30
     DEF Next, Device, Execute, Works

<1> QED
  BY <1>1, <1>2

\* What does not change with a revision: which lesson it is, and its attempts.
Same == app'.id = app.id /\ app'.attempts = app.attempts /\ app'.task = app.task

\* A revision stays as it is; the next one is saved at once.
Revised ==
  \/ /\ app'.rev = app.rev /\ app'.status = app.status
     /\ app'.claim = "mine" => app.claim = "mine"
  \/ app'.rev = app.rev + 1 /\ \E w \in Works : saver'[w].pc = "saving"

Like(l) ==
  /\ l \in Lessons /\ l.rev = app.rev
  /\ l.id = app.id /\ l.attempts = app.attempts /\ l.task = app.task

\* A step but a restart keeps the revision with what it says, or saves the next one.
LEMMA Revisions ==
  DeliveryInv /\ [Next]_vars => Restart \/ ((Launch \/ Attempts \/ Same) /\ Revised)
<1> SUFFICES ASSUME DeliveryInv, [Next]_vars
             PROVE  Restart \/ ((Launch \/ Attempts \/ Same) /\ Revised)
  OBVIOUS
<1>t. Typed /\ app \in Lessons /\ Sound(app)
  BY TypedIsTypeOK DEF DeliveryInv, Typed, SavedTypes, Wellformed
<1>0. app' = app => Same /\ Revised
  BY DEF Same, Revised
<1>p. ASSUME NEW w \in Works, NEW l \in Lessons, l.rev = app.rev, Persist(w, l)
      PROVE  Revised /\ (Like(l) => Same)
  <2>1. app' = [l EXCEPT !.rev = @ + 1] /\ saver'[w].pc = "saving"
    <3>1. app' = [l EXCEPT !.rev = @ + 1]
      BY <1>p DEF Persist
    <3>2. w \in Writers
      BY DEF Works, Writers
    <3>3. Moved(w)
      BY <1>t, <1>p, <3>2, Movements
    <3> QED
      BY <3>1, <3>3 DEF Moved
  <2>2. app'.rev = l.rev + 1 /\ app'.id = l.id /\ app'.attempts = l.attempts
        /\ app'.task = l.task
    BY <2>1 DEF Lessons
  <2> QED
    BY <1>p, <2>1, <2>2 DEF Revised, Same, Like
<1>l. /\ Like(app)
      /\ \A s \in Statuses : Like([app EXCEPT !.status = s])
      /\ \A s \in Statuses, c \in 0 .. MaxAttempts : Like([app EXCEPT !.status = s, !.child = c])
      /\ \A c \in 0 .. MaxAttempts : Like([app EXCEPT !.child = c])
      /\ \A c \in {"mine", "theirs"} : Like([app EXCEPT !.claim = c])
  <2>1. \A s : [app EXCEPT !.status = s].rev = app.rev /\ [app EXCEPT !.status = s].id = app.id
               /\ [app EXCEPT !.status = s].attempts = app.attempts
               /\ [app EXCEPT !.status = s].task = app.task
    BY <1>t DEF Lessons
  <2>2. \A s, c : [app EXCEPT !.status = s, !.child = c].rev = app.rev
                  /\ [app EXCEPT !.status = s, !.child = c].id = app.id
                  /\ [app EXCEPT !.status = s, !.child = c].attempts = app.attempts
                  /\ [app EXCEPT !.status = s, !.child = c].task = app.task
    BY <1>t DEF Lessons
  <2>3. \A c : [app EXCEPT !.child = c].rev = app.rev /\ [app EXCEPT !.child = c].id = app.id
               /\ [app EXCEPT !.child = c].attempts = app.attempts
               /\ [app EXCEPT !.child = c].task = app.task
    BY <1>t DEF Lessons
  <2>4. \A c : [app EXCEPT !.claim = c].rev = app.rev /\ [app EXCEPT !.claim = c].id = app.id
               /\ [app EXCEPT !.claim = c].attempts = app.attempts
               /\ [app EXCEPT !.claim = c].task = app.task
    BY <1>t DEF Lessons
  <2> QED
    BY <1>t, <2>1, <2>2, <2>3, <2>4, LessonUpdates DEF Like
<1>q. ASSUME NEW w \in Works, NEW l, Like(l), Persist(w, l) PROVE Same /\ Revised
  BY <1>p, <1>q DEF Like
<1>f. ASSUME NEW c, app' = [app EXCEPT !.claim = c], c # "mine" PROVE Same /\ Revised
  <2>1. app'.rev = app.rev /\ app'.status = app.status /\ app'.claim = c /\ app'.id = app.id
        /\ app'.attempts = app.attempts /\ app'.task = app.task
    BY <1>f, <1>t DEF Lessons
  <2> QED
    BY <1>f, <2>1 DEF Same, Revised
<1>r. ASSUME NEW rs, app' = [app EXCEPT !.reports = rs] PROVE Same /\ Revised
  <2>1. app'.rev = app.rev /\ app'.status = app.status /\ app'.claim = app.claim
        /\ app'.id = app.id /\ app'.attempts = app.attempts /\ app'.task = app.task
    BY <1>r, <1>t DEF Lessons
  <2> QED
    BY <2>1 DEF Same, Revised
<1>x. /\ "work" \in Works /\ "tool" \in Works
      /\ {"working", "resting", "stopped", "finished", "unknown"} \subseteq Statuses
      /\ 0 \in 0 .. MaxAttempts /\ app.child \in 0 .. MaxAttempts
      /\ app.attempts \in 0 .. MaxAttempts
  <2>1. app.child \in 0 .. MaxAttempts /\ app.attempts \in 0 .. MaxAttempts
    BY <1>t, LessonUpdates
  <2>2. 0 \in 0 .. MaxAttempts
    BY DeliveryBoundsAssumption
  <2> QED
    BY <2>1, <2>2, StatusNames DEF Works
<1>h. ASSUME Fails(app) PROVE Same /\ Revised
  BY <1>h, <1>0, <1>q, <1>l, <1>x DEF Fails
<1> USE DEF device
<1>1. ASSUME NEW m \in wire, Serve(m) PROVE Restart \/ ((Launch \/ Attempts \/ Same) /\ Revised)
  BY <1>1, <1>0 DEF Serve
<1>2. ASSUME NEW m \in wire, GivesUp(m) PROVE Restart \/ ((Launch \/ Attempts \/ Same) /\ Revised)
  BY <1>2, <1>0 DEF GivesUp
<1>3. CASE TeacherStops
  BY <1>3, <1>0 DEF TeacherStops
<1>4. CASE OtherStarts
  BY <1>4, <1>0 DEF OtherStarts
<1>5. CASE OtherReports
  BY <1>5, <1>0 DEF OtherReports
<1>6. CASE Launch
  <2>1. CASE app.status = "resting"
    BY <1>6, <2>1, <1>q, <1>l, <1>x DEF Launch, Absent
  <2>2. CASE app.status = Absent
    <3> DEFINE l == [NoLesson EXCEPT !.status = "working", !.id = restarts]
    <3>1. l \in Lessons /\ l.rev = app.rev /\ Persist("work", l)
      BY <1>6, <1>t, <2>2, NewLesson, TypedIsTypeOK DEF Launch, Sound, NoLesson, Absent
    <3> QED
      BY <1>6, <3>1, <1>p, <1>x
  <2> QED
    BY <1>6, <2>1, <2>2 DEF Launch
<1>7. CASE Prepared
  BY <1>7, <1>0, <1>q, <1>l, <1>h, <1>x DEF Prepared, Quits
<1>8. CASE Starts
  BY <1>8, <1>0 DEF Starts
<1>9. CASE StartAnswered
  <2>1. CASE ask["work"] = "mine"
    BY <1>9, <2>1, <1>q, <1>l, <1>x DEF StartAnswered
  <2>2. CASE ask["work"] = "theirs"
    <3> DEFINE l == [app EXCEPT !.claim = "theirs"]
    <3>1. Fails(l) /\ Like(l)
      BY <1>9, <2>2, <1>l DEF StartAnswered
    <3>2. CASE app' = l
      BY <1>f, <3>2
    <3>3. CASE app' # l
      <4>1. /\ \A s \in Statuses : Like([l EXCEPT !.status = s])
            /\ \A s \in Statuses, c \in 0 .. MaxAttempts :
                 Like([l EXCEPT !.status = s, !.child = c])
        <5>1. \A s : [l EXCEPT !.status = s].rev = l.rev /\ [l EXCEPT !.status = s].id = l.id
                     /\ [l EXCEPT !.status = s].attempts = l.attempts
                     /\ [l EXCEPT !.status = s].task = l.task
          BY <1>t DEF Lessons
        <5>2. \A s, c : [l EXCEPT !.status = s, !.child = c].rev = l.rev
                        /\ [l EXCEPT !.status = s, !.child = c].id = l.id
                        /\ [l EXCEPT !.status = s, !.child = c].attempts = l.attempts
                        /\ [l EXCEPT !.status = s, !.child = c].task = l.task
          BY <1>t DEF Lessons
        <5>3. l \in Lessons
          BY <3>1 DEF Like
        <5> QED
          BY <3>1, <5>1, <5>2, <5>3, LessonUpdates DEF Like
      <4>2. l.child \in 0 .. MaxAttempts
        BY <3>1, LessonUpdates DEF Like
      <4> HIDE DEF l
      <4> QED
        BY <3>1, <3>3, <4>1, <4>2, <1>q, <1>x DEF Fails
    <3> QED
      BY <3>2, <3>3
  <2>3. CASE ask["work"] \notin {"mine", "theirs"}
    BY <1>9, <2>3, <1>0 DEF StartAnswered
  <2> QED
    BY <2>1, <2>2, <2>3
<1>10. CASE LooksUpStart
  BY <1>10, <1>0, <1>q, <1>l, <1>h, <1>x DEF LooksUpStart
<1>11. CASE Authorizes
  BY <1>11, <1>0, <1>q, <1>l, <1>h, <1>x DEF Authorizes, Quits
<1>12. CASE ShowsMaterial
  BY <1>12, <1>0, <1>q, <1>l, <1>h, <1>x DEF ShowsMaterial, Quits
<1>13. CASE Attempts
  <2>1. PICK n : n = app.attempts + 1 /\ n <= MaxAttempts
    BY <1>13 DEF Attempts, MayAttempt
  <2> DEFINE l == [app EXCEPT !.attempts = n, !.task[n] = restarts]
  <2>2. n \in 1 .. MaxAttempts /\ restarts \in Epochs
    BY <1>t, <1>x, <2>1, DeliveryBoundsAssumption DEF Typed
  <2>3. l \in Lessons
    BY <1>t, <2>2, LessonUpdates
  <2>4. l.rev = app.rev
    BY <1>t DEF Lessons
  <2> QED
    BY <1>13, <2>1, <2>3, <2>4, <1>p, <1>x DEF Attempts
<1>14. CASE ClaimsStep
  BY <1>14, <1>0 DEF ClaimsStep
<1>15. CASE StepAnswered
  BY <1>15, <1>0, <1>q, <1>l, <1>h, <1>x DEF StepAnswered
<1>16. CASE LooksUpStep
  BY <1>16, <1>0, <1>q, <1>l, <1>h, <1>x DEF LooksUpStep
<1>17. CASE ToolSaves
  BY <1>17, <1>0, <1>q, <1>l, <1>h, <1>x DEF ToolSaves
<1>18. CASE ChildEnds
  BY <1>18, <1>0, <1>q, <1>l, <1>h, <1>x DEF ChildEnds, Quits
<1>19. CASE WorkEnds
  BY <1>19, <1>0 DEF WorkEnds
<1>20. CASE Finishes
  BY <1>20, <1>0, <1>q, <1>l, <1>h, <1>x DEF Finishes
<1>21. CASE Write
  BY <1>21, <1>0 DEF Write
<1>22. CASE Halts
  BY <1>22, <1>0 DEF Halts
<1>23. CASE HaltMoves
  <2>1. work.halt \in Statuses
    BY <1>23, <1>t, <1>x DEF HaltMoves, Typed, SavedTypes, Runs
  <2> QED
    BY <1>23, <1>0, <1>q, <1>l, <1>x, <2>1 DEF HaltMoves
<1>24. CASE Restart
  BY <1>24
<1>25. ASSUME NEW w \in Works, Saved(w) PROVE Restart \/ ((Launch \/ Attempts \/ Same) /\ Revised)
  BY <1>25, <1>0, <1>r DEF Saved
<1>26. ASSUME NEW w \in Works, SendReport(w) PROVE Restart \/ ((Launch \/ Attempts \/ Same) /\ Revised)
  BY <1>26, <1>0 DEF SendReport
<1>27. ASSUME NEW w \in Works, Reported(w) PROVE Restart \/ ((Launch \/ Attempts \/ Same) /\ Revised)
  BY <1>27, <1>0, <1>r DEF Reported
<1>28. CASE FlushSends
  BY <1>28, <1>0 DEF FlushSends
<1>29. CASE FlushAnswered
  BY <1>29, <1>0, <1>r DEF FlushAnswered
<1>30. CASE UNCHANGED vars
  BY <1>30, <1>0 DEF vars
<1> QED
  BY <1>1, <1>2, <1>3, <1>4, <1>5, <1>6, <1>7, <1>8, <1>9, <1>10, <1>11, <1>12, <1>13,
     <1>14, <1>15, <1>16, <1>17, <1>18, <1>19, <1>20, <1>21, <1>22, <1>23, <1>24, <1>25,
     <1>26, <1>27, <1>28, <1>29, <1>30
     DEF Next, Device, Execute, Works

(***************************************************************************)
(* The answers are true.                                                   *)
(***************************************************************************)
LEMMA ServedTruly ==
  ASSUME server \in Rows, NEW m \in Requests, server' = Served(m).rows
  PROVE  /\ m.kind = "start" =>
              /\ Served(m).answer \in {"no", "mine", "theirs"}
              /\ Served(m).answer = "mine" => server'.owner = m.who
              /\ Served(m).answer = "theirs" => server'.owner # Nobody /\ server'.owner # m.who
         /\ m.kind = "step" =>
              /\ Served(m).answer \in {"no", "ok"}
              /\ Served(m).answer = "ok" => server'.steps[m.n] = m.task
         /\ m.kind = "report" =>
              /\ Served(m).answer \in {"no", "ok"}
              /\ Served(m).answer = "ok" => m.report.rev <= server'.report.rev
<1>1. CASE m.kind = "start"
  BY <1>1 DEF Served, ServeStart, Rows
<1>2. CASE m.kind = "step"
  <2>1. m.n \in 1 .. MaxAttempts
    BY <1>2 DEF Requests, StartRequests, StepRequests, ReportRequests
  <2> QED
    BY <1>2, <2>1 DEF Served, ServeStep, Rows
<1>3. CASE m.kind = "report"
  <2>1. m.report.rev \in Nat /\ server.report.rev \in Nat
    BY <1>3 DEF Requests, StartRequests, StepRequests, ReportRequests, Reports, Rows,
       NoReport
  <2> QED
    BY <1>3, <2>1 DEF Served, ServeReport, Rows
<1> QED
  BY <1>1, <1>2, <1>3

\* No step makes an answer that is there untrue.
LEMMA AnswersAreTrueStep == DeliveryInv /\ [Next]_vars => AnswersAreTrue'
<1> SUFFICES ASSUME DeliveryInv, [Next]_vars PROVE AnswersAreTrue'
  OBVIOUS
<1>t. /\ Typed /\ Asks /\ AnswersAreTrue /\ app \in Lessons
      /\ server \in Rows /\ wire \subseteq Requests
  BY TypedIsTypeOK DEF DeliveryInv, Typed, SavedTypes, Waits
<1>x. /\ Writers = {"work", "tool", "flush"} /\ Works = {"work", "tool"}
      /\ NotSaving.pc = "idle" /\ NotSaving.report = NoReport
  BY DEF Writers, Works, NotSaving
<1>m. /\ \A w \in Writers : \A l : Persist(w, l) => Moved(w)
      /\ \A pc : At(pc) => work'.pc = pc /\ work'.halt = work.halt
      /\ \A l : Fails(l) =>
           \/ saver' = saver /\ work'.pc = "idle" /\ work'.halt = work.halt
           \/ Moved("work") /\ work'.pc = "saving" /\ work'.halt = work.halt
      /\ \A w \in Writers : \A m : Sends(w, m) =>
           /\ wire' = wire \cup {m}
           /\ ask'[w] = "waiting" /\ \A x \in Writers \ {w} : ask'[x] = ask[x]
      /\ \A w \in Writers : Heard(w) =>
           ask'[w] = "none" /\ \A x \in Writers \ {w} : ask'[x] = ask[x]
  BY <1>t, Movements
<1>r. \A m \in wire : /\ m.by \in Writers /\ m.late \in BOOLEAN
                      /\ m.kind \in {"start", "step", "report"}
                      /\ m.kind # "report" => m.by = "work"
  BY <1>t DEF Requests, StartRequests, StepRequests, ReportRequests, Writers
<1>v. /\ \A l : Identity(l) # Nobody /\ \A n : TaskOf(l, n) # Nobody
      /\ server.owner # Nobody => server'.owner = server.owner
      /\ app.attempts \in 0 .. MaxAttempts
      /\ \A n \in 1 .. MaxAttempts :
           server.steps[n] # Nobody => server'.steps[n] = server.steps[n]
  BY <1>t, ServerStep, LessonUpdates DEF ServerLater, Identity, TaskOf, Nobody
<1>e. work.pc \in {"claiming", "lookingStep"} => app.attempts \in 1 .. MaxAttempts
  <2>1. work.pc \in {"claiming", "lookingStep"} => app.attempts >= 1
    BY DEF DeliveryInv, Durable
  <2> QED
    BY <1>v, <2>1
<1>l. /\ \A w \in Works : saver[w].report.rev <= seen => saver[w].report.rev <= server'.report.rev
      /\ flush.rev <= seen => flush.rev <= server'.report.rev
  <2>1. \A w \in Works : saver[w].report.rev \in Nat
    BY <1>t DEF Typed, SavedTypes, Saves, Reports, NoReport, Works, Writers
  <2>2. flush.rev \in Nat /\ seen \in Nat /\ server'.report.rev \in Nat /\ seen <= server'.report.rev
    BY <1>t, CopyMoves DEF Typed, Reports, NoReport
  <2> QED
    BY <2>1, <2>2
<1>c. CASE Restart
  <2>1. \A m \in wire : [m EXCEPT !.late = TRUE].late = TRUE
    BY <1>t DEF Requests, StartRequests, StepRequests, ReportRequests
  <2>2. \A m \in wire' : m.late = TRUE
    BY <1>c, <2>1 DEF Restart
  <2>3. /\ work'.pc = "idle" /\ \A w \in Works : saver'[w] = NotSaving
        /\ ask'["flush"] = "none"
    BY <1>c, <1>x DEF Restart, Idle
  <2> QED
    BY <1>x, <2>2, <2>3 DEF AnswersAreTrue, Expected
<1> SUFFICES ASSUME ~Restart PROVE AnswersAreTrue'
  BY <1>c
<1>s. ASSUME ~Restart, ~Launch, ~Attempts
      PROVE  /\ Identity(app') = Identity(app) /\ app'.attempts = app.attempts
             /\ \A n : TaskOf(app', n) = TaskOf(app, n)
  BY <1>s, Revisions DEF Same, Identity, TaskOf
\* Who still waits, waits for the same; who has just got an answer, got a true one.
<1>g. ASSUME /\ \A m \in wire' : ~m.late => Expected(m)'
             /\ work'.pc = "starting" =>
                  /\ ask'["work"] = "mine" => server'.owner = Identity(app')
                  /\ ask'["work"] = "theirs" =>
                       server'.owner # Nobody /\ server'.owner # Identity(app')
             /\ work'.pc = "claiming" /\ ask'["work"] = "ok" =>
                  server'.steps[app'.attempts] = TaskOf(app', app'.attempts)
             /\ \A w \in Works : saver'[w].pc = "sending" /\ ask'[w] = "ok" =>
                  saver'[w].report.rev <= server'.report.rev
             /\ ask'["flush"] = "ok" => flush'.rev <= server'.report.rev
      PROVE  AnswersAreTrue'
  BY <1>g DEF AnswersAreTrue
<1> DEFINE
      True(w) ==
        /\ w = "work" =>
             /\ work'.pc = "starting" =>
                  /\ ask'["work"] = "mine" => server'.owner = Identity(app')
                  /\ ask'["work"] = "theirs" =>
                       server'.owner # Nobody /\ server'.owner # Identity(app')
             /\ work'.pc = "claiming" /\ ask'["work"] = "ok" =>
                  server'.steps[app'.attempts] = TaskOf(app', app'.attempts)
        /\ w \in Works => (saver'[w].pc = "sending" /\ ask'[w] = "ok" =>
                             saver'[w].report.rev <= server'.report.rev)
        /\ w = "flush" => (ask'["flush"] = "ok" => flush'.rev <= server'.report.rev)
      Settles(w) ==
        \/ ask'[w] \in {"none", "waiting", "no"}
        \/ /\ ask'[w] = ask[w]
           /\ w \in Works => saver'[w] = saver[w]
           /\ w = "flush" => flush' = flush
           /\ w = "work" /\ work'.pc \in {"starting", "claiming"} =>
                ~Launch /\ ~Attempts /\ work'.pc = work.pc
        \/ True(w)
<1>h. ASSUME ~Restart, \A m \in wire' : ~m.late => Expected(m)', \A w \in Writers : Settles(w)
      PROVE  AnswersAreTrue'
  <2>1. ASSUME NEW w \in Writers, ask'[w] = ask[w], w \in Works => saver'[w] = saver[w],
               w = "flush" => flush' = flush,
               w = "work" /\ work'.pc \in {"starting", "claiming"} =>
                 ~Launch /\ ~Attempts /\ work'.pc = work.pc
        PROVE  True(w)
    <3>1. CASE w = "work"
      <4>1. work'.pc \in {"starting", "claiming"} =>
              /\ work.pc = work'.pc
              /\ Identity(app') = Identity(app) /\ app'.attempts = app.attempts
              /\ \A n : TaskOf(app', n) = TaskOf(app, n)
        BY <1>h, <2>1, <3>1, <1>s
      <4>2. work'.pc = "starting" =>
              /\ ask'["work"] = "mine" => server'.owner = Identity(app')
              /\ ask'["work"] = "theirs" =>
                   server'.owner # Nobody /\ server'.owner # Identity(app')
        BY <2>1, <3>1, <4>1, <1>t, <1>v DEF AnswersAreTrue
      <4>3. work'.pc = "claiming" /\ ask'["work"] = "ok" =>
              server'.steps[app'.attempts] = TaskOf(app', app'.attempts)
        BY <2>1, <3>1, <4>1, <1>t, <1>v, <1>e DEF AnswersAreTrue
      <4>4. saver'[w].pc = "sending" /\ ask'[w] = "ok" =>
              saver'[w].report.rev <= server'.report.rev
        BY <2>1, <3>1, <1>x, <1>t, <1>l DEF AnswersAreTrue, seen
      <4> QED
        BY <3>1, <4>2, <4>3, <4>4
    <3>2. CASE w = "tool"
      BY <2>1, <3>2, <1>x, <1>t, <1>l DEF AnswersAreTrue, seen
    <3>3. CASE w = "flush"
      BY <2>1, <3>3, <1>x, <1>t, <1>l DEF AnswersAreTrue, seen
    <3> QED
      BY <1>x, <3>1, <3>2, <3>3
  <2>2. \A w \in Writers : True(w)
    BY <1>h, <1>x, <2>1
  <2> QED
    BY <1>g, <1>h, <1>x, <2>2
<1> HIDE DEF Settles
\* Requests of a writer that does nothing.
<1>o. ASSUME NEW m \in wire, ~m.late, ~Restart,
             m.by = "work" => /\ ~Launch /\ ~Attempts /\ work'.pc = work.pc
                              /\ saver'["work"] = saver["work"],
             m.by = "tool" => saver'["tool"] = saver["tool"],
             m.by = "flush" => flush' = flush
      PROVE  Expected(m)'
  <2>1. Expected(m)
    BY <1>o, <1>t DEF AnswersAreTrue
  <2> QED
    BY <1>o, <1>r, <1>s, <2>1 DEF Expected, Writers
\* Steps of execute, of halt and of persist that send nothing.
<1>q. ASSUME ~Restart, wire' = wire, flush' = flush, NEW w \in Works,
             \A x \in Writers \ {w} : saver'[x] = saver[x] /\ ask'[x] = ask[x],
             ask[w] # "waiting" /\ ask'[w] = "none",
             w = "work" \/ (work'.pc = work.pc /\ ~Launch /\ ~Attempts)
      PROVE  AnswersAreTrue'
  <2>1. \A x \in Writers : Settles(x)
    BY <1>q, <1>x DEF Settles
  <2>2. ASSUME NEW m \in wire, ~m.late PROVE Expected(m)'
    <3>1. m.by # w /\ m.by \in Writers
      BY <1>q, <1>r, <1>t, <2>2 DEF Asks
    <3> QED
      BY <1>o, <1>q, <1>x, <2>2, <3>1
  <2> QED
    BY <1>h, <1>q, <2>1, <2>2
<1>b. work'.pc = work.pc => ~Launch /\ ~Attempts
  BY <1>m DEF Launch, Attempts, Idle
<1>n. ASSUME ~Restart, wire' = wire, work'.pc = work.pc, saver' = saver, ask' = ask,
             flush' = flush
      PROVE  AnswersAreTrue'
  <2>1. \A w \in Writers : Settles(w)
    BY <1>n, <1>b DEF Settles
  <2>2. ASSUME NEW m \in wire, ~m.late PROVE Expected(m)'
    BY <1>b, <1>n, <1>o, <2>2
  <2> QED
    BY <1>h, <1>n, <2>1, <2>2
\* A request goes out.
<1>y. ASSUME ~Restart, NEW w \in Writers, NEW m, wire' = wire \cup {m}, ask[w] = "none",
             ask'[w] = "waiting", Expected(m)',
             \A x \in Writers \ {w} : ask'[x] = ask[x] /\ saver'[x] = saver[x],
             w = "flush" \/ flush' = flush,
             w = "work" \/ (work'.pc = work.pc /\ saver'["work"] = saver["work"])
      PROVE  AnswersAreTrue'
  <2>1. \A x \in Writers : Settles(x)
    BY <1>y, <1>b, <1>x DEF Settles
  <2>2. ASSUME NEW x \in wire', ~x.late PROVE Expected(x)'
    <3>1. CASE x = m
      BY <1>y, <3>1
    <3>2. CASE x \in wire
      <4>1. x.by # w /\ x.by \in Writers
        BY <1>y, <1>r, <1>t, <2>2, <3>2 DEF Asks
      <4> QED
        BY <1>o, <1>b, <1>x, <1>y, <2>2, <3>2, <4>1
    <3> QED
      BY <1>y, <3>1, <3>2
  <2> QED
    BY <1>h, <1>y, <2>1, <2>2
<1> USE DEF device

<1>1. ASSUME NEW m \in wire, Serve(m) PROVE AnswersAreTrue'
  <2>1. /\ saver' = saver /\ flush' = flush /\ work' = work /\ app' = app
        /\ wire' = wire \ {m} /\ server' = Served(m).rows
    BY <1>1 DEF Serve
  <2>2. ASSUME NEW x \in wire', ~x.late PROVE Expected(x)'
    BY <1>b, <1>c, <1>o, <2>1, <2>2
  <2>3. CASE m.late
    <3>1. ask' = ask
      BY <1>1, <2>3 DEF Serve
    <3>2. \A x \in Writers : Settles(x)
      BY <1>b, <2>1, <3>1 DEF Settles
    <3> QED
      BY <1>c, <1>h, <2>2, <3>2
  <2>4. CASE ~m.late
    <3>1. /\ ask'[m.by] \in {Served(m).answer, "no"}
          /\ \A x \in Writers \ {m.by} : ask'[x] = ask[x]
      BY <1>1, <2>4, <1>r, <1>t DEF Serve, Typed
    <3>2. Expected(m) /\ ask[m.by] = "waiting"
      BY <2>4, <1>t DEF AnswersAreTrue, Asks
    <3>3. /\ m.kind = "start" =>
               /\ Served(m).answer \in {"no", "mine", "theirs"}
               /\ Served(m).answer = "mine" => server'.owner = m.who
               /\ Served(m).answer = "theirs" =>
                    server'.owner # Nobody /\ server'.owner # m.who
          /\ m.kind = "step" =>
               /\ Served(m).answer \in {"no", "ok"}
               /\ Served(m).answer = "ok" => server'.steps[m.n] = m.task
          /\ m.kind = "report" =>
               /\ Served(m).answer \in {"no", "ok"}
               /\ Served(m).answer = "ok" => m.report.rev <= server'.report.rev
      BY <1>t, <2>1, ServedTruly
    <3>4. True(m.by)
      BY <1>r, <1>t, <1>x, <2>1, <3>1, <3>2, <3>3 DEF Expected, Asks
    <3>5. \A x \in Writers : Settles(x)
      BY <1>b, <2>1, <3>1, <3>4 DEF Settles
    <3> QED
      BY <1>c, <1>h, <2>2, <3>5
  <2> QED
    BY <2>3, <2>4
<1>2. ASSUME NEW m \in wire, GivesUp(m) PROVE AnswersAreTrue'
  <2>1. ask'[m.by] = "no" /\ \A x \in Writers \ {m.by} : ask'[x] = ask[x]
    BY <1>2, <1>r, <1>t DEF GivesUp, Typed
  <2>2. /\ saver' = saver /\ flush' = flush /\ work' = work /\ app' = app
        /\ m.late = FALSE
    BY <1>2 DEF GivesUp
  <2>3. \A x \in Writers : Settles(x)
    BY <1>b, <2>1, <2>2 DEF Settles
  <2>4. ASSUME NEW x \in wire', ~x.late PROVE Expected(x)'
    <3>1. [m EXCEPT !.late = TRUE].late = TRUE
      BY <1>t DEF Requests, StartRequests, StepRequests, ReportRequests
    <3>2. x \in wire
      BY <1>2, <2>4, <3>1 DEF GivesUp
    <3> QED
      BY <1>b, <1>c, <1>o, <2>2, <2>4, <3>2
  <2> QED
    BY <1>c, <1>h, <2>3, <2>4
<1>3. CASE TeacherStops
  BY <1>3, <1>n, <1>c DEF TeacherStops
<1>4. CASE OtherStarts
  BY <1>4, <1>n, <1>c DEF OtherStarts
<1>5. CASE OtherReports
  BY <1>5, <1>n, <1>c DEF OtherReports
<1>6. CASE Launch
  <2>1. /\ wire' = wire /\ flush' = flush /\ ask["work"] # "waiting" /\ ask'["work"] = "none"
        /\ \A x \in Writers \ {"work"} : saver'[x] = saver[x] /\ ask'[x] = ask[x]
    BY <1>6, <1>m, <1>t, <1>x DEF Launch, Settled, Idle, Asks, Asking, Moved
  <2> QED
    BY <1>6, <2>1, <1>q, <1>c, <1>x
<1>7. CASE Prepared
  <2>1. /\ wire' = wire /\ flush' = flush /\ ask["work"] # "waiting" /\ ask'["work"] = "none"
        /\ \A x \in Writers \ {"work"} : saver'[x] = saver[x] /\ ask'[x] = ask[x]
    BY <1>7, <1>m, <1>t, <1>x DEF Prepared, Settled, Quits, Asks, Asking, Moved
  <2> QED
    BY <1>7, <2>1, <1>q, <1>c, <1>x
<1>8. CASE Starts
  <2> DEFINE m == [kind |-> "start", by |-> "work", who |-> Identity(app), late |-> FALSE]
  <2>1. /\ work'.pc = "starting" /\ wire' = wire \cup {m} /\ ask'["work"] = "waiting"
        /\ \A x \in Writers \ {"work"} : ask'[x] = ask[x]
        /\ ask["work"] = "none" /\ saver' = saver /\ flush' = flush /\ app' = app
    BY <1>8, <1>m, <1>t, <1>x DEF Starts, Settled, Asks, Asking
  <2>2. Expected(m)'
    BY <2>1 DEF Expected, Identity
  <2> QED
    BY <1>c, <1>x, <1>y, <2>1, <2>2
<1>9. CASE StartAnswered
  <2>1. /\ wire' = wire /\ flush' = flush /\ ask["work"] # "waiting" /\ ask'["work"] = "none"
        /\ \A x \in Writers \ {"work"} : saver'[x] = saver[x] /\ ask'[x] = ask[x]
    BY <1>9, <1>m, <1>t, <1>x DEF StartAnswered, Answered, Asks, Asking, Moved
  <2> QED
    BY <1>9, <2>1, <1>q, <1>c, <1>x
<1>10. CASE LooksUpStart
  <2>1. /\ wire' = wire /\ flush' = flush /\ ask["work"] # "waiting" /\ ask'["work"] = "none"
        /\ \A x \in Writers \ {"work"} : saver'[x] = saver[x] /\ ask'[x] = ask[x]
    BY <1>10, <1>m, <1>t, <1>x DEF LooksUpStart, Asks, Asking, Moved
  <2> QED
    BY <1>10, <2>1, <1>q, <1>c, <1>x
<1>11. CASE Authorizes
  <2>1. /\ wire' = wire /\ flush' = flush /\ ask["work"] # "waiting" /\ ask'["work"] = "none"
        /\ \A x \in Writers \ {"work"} : saver'[x] = saver[x] /\ ask'[x] = ask[x]
    BY <1>11, <1>m, <1>t, <1>x DEF Authorizes, Settled, Quits, Asks, Asking, Moved
  <2> QED
    BY <1>11, <2>1, <1>q, <1>c, <1>x
<1>12. CASE ShowsMaterial
  <2>1. /\ wire' = wire /\ flush' = flush /\ ask["work"] # "waiting" /\ ask'["work"] = "none"
        /\ \A x \in Writers \ {"work"} : saver'[x] = saver[x] /\ ask'[x] = ask[x]
    BY <1>12, <1>m, <1>t, <1>x DEF ShowsMaterial, Settled, Quits, Asks, Asking, Moved
  <2> QED
    BY <1>12, <2>1, <1>q, <1>c, <1>x
<1>13. CASE Attempts
  <2>1. /\ wire' = wire /\ flush' = flush /\ ask["work"] # "waiting" /\ ask'["work"] = "none"
        /\ \A x \in Writers \ {"work"} : saver'[x] = saver[x] /\ ask'[x] = ask[x]
    BY <1>13, <1>m, <1>t, <1>x DEF Attempts, Settled, Asks, Asking, Moved
  <2> QED
    BY <1>13, <2>1, <1>q, <1>c, <1>x
<1>14. CASE ClaimsStep
  <2> DEFINE m == [kind |-> "step", by |-> "work", n |-> app.attempts, who |-> Identity(app),
                   task |-> TaskOf(app, app.attempts), late |-> FALSE]
  <2>1. /\ work'.pc = "claiming" /\ wire' = wire \cup {m} /\ ask'["work"] = "waiting"
        /\ \A x \in Writers \ {"work"} : ask'[x] = ask[x]
        /\ ask["work"] = "none" /\ saver' = saver /\ flush' = flush /\ app' = app
    BY <1>14, <1>m, <1>t, <1>x DEF ClaimsStep, MayClaim, Settled, Asks, Asking
  <2>2. Expected(m)'
    BY <2>1 DEF Expected, TaskOf
  <2> QED
    BY <1>c, <1>x, <1>y, <2>1, <2>2
<1>15. CASE StepAnswered
  <2>1. /\ wire' = wire /\ flush' = flush /\ ask["work"] # "waiting" /\ ask'["work"] = "none"
        /\ \A x \in Writers \ {"work"} : saver'[x] = saver[x] /\ ask'[x] = ask[x]
    BY <1>15, <1>m, <1>t, <1>x DEF StepAnswered, Answered, Asks, Asking, Moved
  <2> QED
    BY <1>15, <2>1, <1>q, <1>c, <1>x
<1>16. CASE LooksUpStep
  <2>1. /\ wire' = wire /\ flush' = flush /\ ask["work"] # "waiting" /\ ask'["work"] = "none"
        /\ \A x \in Writers \ {"work"} : saver'[x] = saver[x] /\ ask'[x] = ask[x]
    BY <1>16, <1>m, <1>t, <1>x DEF LooksUpStep, Asks, Asking, Moved
  <2> QED
    BY <1>16, <2>1, <1>q, <1>c, <1>x
<1>17. CASE ToolSaves
  <2>1. /\ wire' = wire /\ flush' = flush /\ ask["tool"] # "waiting" /\ ask'["tool"] = "none"
        /\ \A x \in Writers \ {"tool"} : saver'[x] = saver[x] /\ ask'[x] = ask[x]
        /\ work' = work
    BY <1>17, <1>m, <1>t, <1>x DEF ToolSaves, Settled, Asks, Asking, Moved, Typed,
       SavedTypes
  <2> QED
    BY <1>17, <2>1, <1>q, <1>b, <1>c, <1>x
<1>18. CASE ChildEnds
  <2>1. /\ wire' = wire /\ flush' = flush /\ ask["work"] # "waiting" /\ ask'["work"] = "none"
        /\ \A x \in Writers \ {"work"} : saver'[x] = saver[x] /\ ask'[x] = ask[x]
    BY <1>18, <1>m, <1>t, <1>x DEF ChildEnds, Settled, Quits, Asks, Asking, Moved
  <2> QED
    BY <1>18, <2>1, <1>q, <1>c, <1>x
<1>19. CASE WorkEnds
  <2>1. /\ wire' = wire /\ flush' = flush /\ ask["work"] # "waiting" /\ ask'["work"] = "none"
        /\ \A x \in Writers \ {"work"} : saver'[x] = saver[x] /\ ask'[x] = ask[x]
    BY <1>19, <1>m, <1>t, <1>x DEF WorkEnds, Settled, Asks, Asking, Moved
  <2> QED
    BY <1>19, <2>1, <1>q, <1>c, <1>x
<1>20. CASE Finishes
  <2>1. /\ wire' = wire /\ flush' = flush /\ ask["work"] # "waiting" /\ ask'["work"] = "none"
        /\ \A x \in Writers \ {"work"} : saver'[x] = saver[x] /\ ask'[x] = ask[x]
    BY <1>20, <1>m, <1>t, <1>x DEF Finishes, Settled, Idle, Asks, Asking, Moved
  <2> QED
    BY <1>20, <2>1, <1>q, <1>c, <1>x
<1>21. CASE Write
  BY <1>21, <1>n, <1>c DEF Write
<1>22. CASE Halts
  <2>1. work'.pc = work.pc
    BY <1>22, <1>t DEF Halts, Typed, SavedTypes, Runs
  <2> QED
    BY <1>22, <2>1, <1>n, <1>c DEF Halts
<1>23. CASE HaltMoves
  <2>1. /\ wire' = wire /\ flush' = flush /\ ask["work"] # "waiting" /\ ask'["work"] = "none"
        /\ \A x \in Writers \ {"work"} : saver'[x] = saver[x] /\ ask'[x] = ask[x]
    BY <1>23, <1>m, <1>t, <1>x DEF HaltMoves, Settled, Idle, Asks, Asking, Moved
  <2> QED
    BY <1>23, <2>1, <1>q, <1>c, <1>x
<1>24. CASE Restart
  BY <1>24, <1>c
<1>25. ASSUME NEW w \in Works, Saved(w) PROVE AnswersAreTrue'
  <2>1. /\ wire' = wire /\ flush' = flush /\ ask[w] # "waiting" /\ ask'[w] = "none"
        /\ \A x \in Writers \ {w} : saver'[x] = saver[x] /\ ask'[x] = ask[x]
        /\ work' = work
    BY <1>25, <1>m, <1>t, <1>x DEF Saved, Asks, Asking, Asks, Asking, Moved, Typed,
       SavedTypes
  <2> QED
    BY <1>25, <2>1, <1>q, <1>b, <1>c, <1>x
<1>26. ASSUME NEW w \in Works, SendReport(w) PROVE AnswersAreTrue'
  <2> DEFINE m == ReportRequest(w, saver[w].report)
  <2>0. w \in Writers
    BY <1>x
  <2>1. /\ wire' = wire \cup {m} /\ ask'[w] = "waiting"
        /\ \A x \in Writers \ {w} : ask'[x] = ask[x]
        /\ flush' = flush /\ app' = app /\ work' = work
    BY <1>26, <1>m, <2>0 DEF SendReport
  <2>2. /\ saver'[w] = [pc |-> "sending", report |-> saver[w].report]
        /\ \A x \in Writers \ {w} : saver'[x] = saver[x]
    BY <1>26, <1>t, <2>0 DEF SendReport, Typed, SavedTypes, Saves
  <2>3. ask[w] = "none"
    BY <1>26, <1>t, <1>x DEF SendReport, Asks, Asking
  <2>4. Expected(m)'
    BY <2>1, <2>2, <1>x DEF Expected, ReportRequest
  <2> QED
    BY <1>c, <1>x, <1>y, <2>0, <2>1, <2>2, <2>3, <2>4
<1>27. ASSUME NEW w \in Works, Reported(w) PROVE AnswersAreTrue'
  <2>1. /\ wire' = wire /\ flush' = flush /\ ask[w] # "waiting" /\ ask'[w] = "none"
        /\ \A x \in Writers \ {w} : saver'[x] = saver[x] /\ ask'[x] = ask[x]
        /\ work' = work
    BY <1>27, <1>m, <1>t, <1>x DEF Reported, Answered, Asks, Asking, Asks, Asking, Moved,
       Typed, SavedTypes
  <2> QED
    BY <1>27, <2>1, <1>q, <1>b, <1>c, <1>x
<1>28. CASE FlushSends
  <2>0. PICK m : m = ReportRequest("flush", flush')
    OBVIOUS
  <2>1. /\ wire' = wire \cup {m} /\ ask'["flush"] = "waiting"
        /\ \A x \in Writers \ {"flush"} : ask'[x] = ask[x]
        /\ saver' = saver /\ app' = app /\ work' = work /\ ask["flush"] = "none"
    BY <1>28, <2>0, <1>m, <1>t, <1>x DEF FlushSends, Asks, Asking
  <2>2. Expected(m)'
    BY <2>0, <2>1 DEF Expected, ReportRequest
  <2> QED
    BY <1>c, <1>x, <1>y, <2>1, <2>2
<1>29. CASE FlushAnswered
  <2>1. /\ wire' = wire /\ saver' = saver /\ work' = work /\ ask'["flush"] = "none"
        /\ \A x \in Writers \ {"flush"} : ask'[x] = ask[x]
        /\ ask["flush"] # "waiting"
    BY <1>29, <1>m, <1>x DEF FlushAnswered, Answered
  <2>2. \A x \in Writers : Settles(x)
    BY <1>b, <1>x, <2>1 DEF Settles
  <2>3. ASSUME NEW x \in wire, ~x.late PROVE Expected(x)'
    BY <1>b, <1>c, <1>o, <1>t, <2>1, <2>3 DEF Asks
  <2> QED
    BY <1>c, <1>h, <2>1, <2>2, <2>3
<1>30. CASE UNCHANGED vars
  BY <1>30, <1>n, <1>c DEF vars
<1> QED
  BY <1>1, <1>2, <1>3, <1>4, <1>5, <1>6, <1>7, <1>8, <1>9, <1>10, <1>11, <1>12, <1>13,
     <1>14, <1>15, <1>16, <1>17, <1>18, <1>19, <1>20, <1>21, <1>22, <1>23, <1>24, <1>25,
     <1>26, <1>27, <1>28, <1>29, <1>30
     DEF Next, Device, Execute, Works

(***************************************************************************)
(* What is asked is in the journal.                                        *)
(***************************************************************************)
\* A write takes the first copy; but for a restart, no other leaves the queue.
LEMMA JournalMoves ==
  ASSUME DeliveryInv, [Next]_vars
  PROVE  /\ Follows(journal, journal', server'.report.rev)
         /\ \/ journal' = journal
            \/ /\ app' = app /\ journal'.status # Absent
               /\ Follows(journal', app, server'.report.rev)
         /\ ~Restart =>
              \A i \in 1 .. Len(writes) :
                \/ \E j \in 1 .. Len(writes') : writes'[j] = writes[i]
                \/ journal' = writes[i][2]
<1>1. /\ app \in Lessons /\ journal \in Lessons /\ writes \in Waiting
      /\ seen \in Nat /\ server'.report.rev \in Nat /\ seen <= server'.report.rev
      /\ (AppStep \/ Write \/ Restart)
      /\ Len(writes) \in Nat /\ \A i \in 1 .. Len(writes) : writes[i][2] \in Lessons
  BY CopyMoves, QueueSteps
<1>2. CASE AppStep \/ Restart
  <2>1. journal' = journal /\ Follows(journal, journal, server'.report.rev)
    BY <1>1, <1>2, FollowsNow DEF AppStep, Restart
  <2>2. ASSUME ~Restart, NEW i \in 1 .. Len(writes)
        PROVE  \E j \in 1 .. Len(writes') : writes'[j] = writes[i]
    <3>1. CASE writes' = writes
      BY <3>1
    <3>2. ASSUME NEW w \in Writers, writes' = Append(writes, <<w, app'>>)
          PROVE  \E j \in 1 .. Len(writes') : writes'[j] = writes[i]
      <4>1. app' \in Lessons
        BY CopyMoves
      <4>2. Len(writes') = Len(writes) + 1 /\ writes'[i] = writes[i]
        BY <1>1, <3>2, <4>1, QueueSteps
      <4>3. i \in 1 .. Len(writes')
        BY <1>1, <4>2
      <4> QED
        BY <4>2, <4>3
    <3> QED
      BY <1>2, <2>2, <3>1, <3>2 DEF AppStep
  <2> QED
    BY <2>1, <2>2
<1>3. CASE Write
  <2>1. /\ journal' = writes[1][2] /\ Len(writes) >= 1 /\ Len(writes') = Len(writes) - 1
        /\ \A i \in 1 .. Len(writes) - 1 : writes'[i] = writes[i + 1]
        /\ app' = app
    BY <1>1, <1>3, QueueSteps DEF Write
  <2>2. 1 \in 1 .. Len(writes)
    BY <1>1, <2>1
  <2>3. /\ Follows(journal, writes[1][2], seen) /\ Follows(writes[1][2], app, seen)
        /\ writes[1][2].status # Absent
    BY <2>2 DEF DeliveryInv, InOrder, Wellformed
  <2>4. /\ Follows(journal, writes[1][2], server'.report.rev)
        /\ Follows(writes[1][2], app, server'.report.rev)
    BY <1>1, <2>2, <2>3, FollowsNow
  <2>5. ASSUME NEW i \in 1 .. Len(writes), i # 1
        PROVE  \E j \in 1 .. Len(writes') : writes'[j] = writes[i]
    <3>1. i - 1 \in 1 .. Len(writes') /\ writes'[i - 1] = writes[(i - 1) + 1] /\ (i - 1) + 1 = i
      BY <1>1, <2>1, <2>5
    <3> QED
      BY <3>1
  <2> QED
    BY <2>1, <2>3, <2>4, <2>5
<1> QED
  BY <1>1, <1>2, <1>3

\* Nothing is asked that is not on the disk, or on its way there.
LEMMA DurableStep == DeliveryInv /\ [Next]_vars => Durable'
<1> SUFFICES ASSUME DeliveryInv, [Next]_vars PROVE Durable'
  OBVIOUS
<1> DEFINE v == server'.report.rev
<1>t. /\ Typed /\ Asks /\ Durable /\ app \in Lessons /\ journal \in Lessons
      /\ app' \in Lessons /\ journal' \in Lessons /\ writes \in Waiting
  BY TypedIsTypeOK, CopyMoves DEF DeliveryInv, Typed, SavedTypes, Waits
<1>x. /\ Writers = {"work", "tool", "flush"} /\ Works = {"work", "tool"}
      /\ NotSaving.pc = "idle" /\ NotSaving.report = NoReport
  BY DEF Writers, Works, NotSaving
<1>m. /\ \A w \in Writers : \A l : Persist(w, l) => Moved(w)
      /\ \A pc : At(pc) => work'.pc = pc /\ work'.halt = work.halt
      /\ \A l : Fails(l) =>
           \/ saver' = saver /\ work'.pc = "idle" /\ work'.halt = work.halt
           \/ Moved("work") /\ work'.pc = "saving" /\ work'.halt = work.halt
  BY <1>t, Movements
<1>c. CASE Restart
  <2>1. work'.pc = "idle" /\ \A w \in Works : saver'[w] = NotSaving
    BY <1>c, <1>x DEF Restart, Idle
  <2> QED
    BY <1>x, <2>1 DEF Durable
<1> SUFFICES ASSUME ~Restart PROVE Durable'
  BY <1>c
<1>j. /\ journal.status # Absent => journal'.status # Absent
      /\ \A i \in 1 .. Len(writes) :
           (\E j \in 1 .. Len(writes') : writes'[j] = writes[i]) \/ journal' = writes[i][2]
      /\ \A i \in 1 .. Len(writes) : writes[i][2].status # Absent
  BY JournalMoves DEF DeliveryInv, Wellformed
<1>w. OnDisk("work") => ~\E i \in 1 .. Len(writes) : writes[i][1] = "work"
  BY DEF OnDisk
<1>b. work'.pc = work.pc => ~Launch /\ ~Attempts
  BY <1>m DEF Launch, Attempts, Idle
\* The attempts of the journal are between those it had and those in memory.
<1>a. ASSUME journal.attempts = app.attempts, app.attempts >= 1, app'.attempts = app.attempts
      PROVE  journal'.attempts = app'.attempts
  <2>1. CASE journal' = journal
    BY <1>a, <2>1
  <2>2. CASE /\ app' = app /\ journal'.status # Absent
             /\ Follows(journal', app, server'.report.rev)
    <3>1. Follows(journal, journal', server'.report.rev)
      BY JournalMoves
    <3>2. journal.status # Absent
      BY <1>a DEF DeliveryInv, Wellformed, Sound, NoLesson
    <3>3. journal.attempts <= journal'.attempts /\ journal'.attempts <= app.attempts
      BY <2>2, <3>1, <3>2 DEF Follows
    <3>4. journal.attempts \in 0 .. MaxAttempts /\ journal'.attempts \in 0 .. MaxAttempts
          /\ app.attempts \in 0 .. MaxAttempts
      BY <1>t, LessonUpdates
    <3> QED
      BY <1>a, <3>3, <3>4
  <2> QED
    BY <2>1, <2>2, JournalMoves
\* A report stays in the journal, or on its way there, or is seen.
<1>k. ASSUME NEW w \in Works, saver[w].pc = "storing"
      PROVE  \/ Kept(saver[w].report, journal', v)
             \/ \E i \in 1 .. Len(writes') :
                  writes'[i][1] = w /\ Kept(saver[w].report, writes'[i][2], v)
  <2> DEFINE r == saver[w].report
  <2>0. r \in Reports
    BY <1>k, <1>t, <1>x, LessonTypes DEF Asks, Typed, SavedTypes, Saves
  <2>1. seen \in Nat /\ v \in Nat /\ seen <= v /\ Follows(journal, journal', v)
    BY CopyMoves, JournalMoves
  <2>2. CASE Kept(r, journal, seen)
    <3>1. journal.status # Absent \/ journal = NoLesson
      BY DEF DeliveryInv, Wellformed, Sound
    <3> HIDE DEF r, v
    <3>2. Kept(r, journal', v)
      BY <1>t, <2>0, <2>1, <2>2, <3>1 DEF Follows, Kept, Reports, NoLesson, Absent
    <3> QED
      BY <3>2 DEF r
  <2>3. CASE \E i \in 1 .. Len(writes) : writes[i][1] = w /\ Kept(r, writes[i][2], seen)
    <3>1. PICK i \in 1 .. Len(writes) : writes[i][1] = w /\ Kept(r, writes[i][2], seen)
      BY <2>3
    <3>2. r.rev \in Nat
      BY <2>0 DEF Reports
    <3>3. Kept(r, writes[i][2], v)
      BY <2>1, <3>1, <3>2 DEF Kept
    <3> QED
      BY <1>j, <3>1, <3>3
  <2> QED
    BY <1>k, <1>t, <2>2, <2>3 DEF Durable
<1> DEFINE Queues(w, r) ==
      \E i \in 1 .. Len(writes') : writes'[i][1] = w /\ Kept(r, writes'[i][2], v)
<1> DEFINE Begins ==
      /\ saver'["work"].pc = "saving"
      /\ \E i \in 1 .. Len(writes') :
           writes'[i][1] = "work" /\ writes'[i][2].attempts = app'.attempts
<1>n. ASSUME \A pc \in {"identity", "attempt"} : work'.pc = pc =>
               \/ /\ work.pc = pc /\ app'.attempts = app.attempts
                  /\ \/ saver'["work"].pc = saver["work"].pc
                     \/ saver["work"].pc # "saving" \/ OnDisk("work")
               \/ Begins /\ (pc = "attempt" => app'.attempts >= 1),
             work'.pc \in {"claiming", "lookingStep"} =>
               /\ work.pc \in {"attempt", "claiming", "lookingStep"}
               /\ app'.attempts = app.attempts,
             \A w \in Works : saver'[w].pc = "storing" =>
               saver'[w] = saver[w] \/ Queues(w, saver'[w].report)
      PROVE  Durable'
  <2>1. work'.pc = "identity" =>
          \/ journal'.status # Absent
          \/ saver'["work"].pc = "saving" /\ ~OnDisk("work")'
    <3> SUFFICES ASSUME work'.pc = "identity", journal'.status = Absent
                 PROVE  saver'["work"].pc = "saving" /\ ~OnDisk("work")'
      OBVIOUS
    <3>0. CASE Begins
      BY <3>0 DEF OnDisk
    <3> SUFFICES ASSUME ~Begins PROVE saver'["work"].pc = "saving" /\ ~OnDisk("work")'
      BY <3>0
    <3>1. journal.status = Absent /\ saver["work"].pc = "saving" /\ ~OnDisk("work")
      BY <1>j, <1>n, <1>t DEF Durable
    <3>2. PICK i \in 1 .. Len(writes) : writes[i][1] = "work"
      BY <3>1 DEF OnDisk
    <3>3. \E j \in 1 .. Len(writes') : writes'[j] = writes[i]
      BY <1>j
    <3> QED
      BY <1>n, <3>1, <3>2, <3>3 DEF OnDisk
  <2>2. work'.pc \in {"attempt", "claiming", "lookingStep"} => app'.attempts >= 1
    BY <1>n, <1>t DEF Durable
  <2>3. work'.pc = "attempt" =>
          \/ journal'.attempts = app'.attempts
          \/ /\ saver'["work"].pc = "saving"
             /\ \E i \in 1 .. Len(writes') :
                  writes'[i][1] = "work" /\ writes'[i][2].attempts = app'.attempts
    <3> SUFFICES ASSUME work'.pc = "attempt", journal'.attempts # app'.attempts, ~Begins
                 PROVE  Begins
      OBVIOUS
    <3>1. app'.attempts = app.attempts /\ app.attempts >= 1 /\ journal.attempts # app.attempts
      BY <1>a, <1>n, <1>t DEF Durable
    <3>2. PICK i \in 1 .. Len(writes) :
            writes[i][1] = "work" /\ writes[i][2].attempts = app.attempts
      BY <1>n, <1>t, <3>1 DEF Durable
    <3>3. \E j \in 1 .. Len(writes') : writes'[j] = writes[i]
      BY <1>j, <3>1, <3>2
    <3>4. saver["work"].pc = "saving"
      BY <1>n, <1>t, <3>1 DEF Durable
    <3> QED
      BY <1>n, <1>w, <3>1, <3>2, <3>3, <3>4
  <2>4. \A w \in Works : saver'[w].pc = "storing" =>
          \/ Kept(saver'[w].report, journal', v)
          \/ \E i \in 1 .. Len(writes') :
               writes'[i][1] = w /\ Kept(saver'[w].report, writes'[i][2], v)
    BY <1>k, <1>n
  <2> QED
    BY <2>1, <2>2, <2>3, <2>4 DEF Durable, seen
<1>s. ~Launch /\ ~Attempts => app'.attempts = app.attempts
  BY Revisions DEF Same
<1> USE DEF device
<1>1. ASSUME NEW m \in wire, Serve(m) PROVE Durable'
  BY <1>1, <1>n, <1>b, <1>s DEF Serve
<1>2. ASSUME NEW m \in wire, GivesUp(m) PROVE Durable'
  BY <1>2, <1>n, <1>b, <1>s DEF GivesUp
<1>3. CASE TeacherStops
  BY <1>3, <1>n, <1>b, <1>s DEF TeacherStops
<1>4. CASE OtherStarts
  BY <1>4, <1>n, <1>b, <1>s DEF OtherStarts
<1>5. CASE OtherReports
  BY <1>5, <1>n, <1>b, <1>s DEF OtherReports
<1>6. CASE Launch
  <2>1. /\ work'.pc \notin {"identity", "attempt", "claiming", "lookingStep"}
        /\ \A w \in Works : saver'[w].pc = "storing" => saver'[w] = saver[w]
    BY <1>6, <1>m, <1>t, <1>x DEF Launch, Settled, Idle, Moved
  <2> QED
    BY <2>1, <1>n
<1>7. CASE Prepared
  <2>1. ASSUME NEW w \in Works, NEW l, Persist(w, l)
        PROVE  \E i \in 1 .. Len(writes') : writes'[i][1] = w /\ writes'[i][2] = app'
    <3>1. writes' = Append(writes, <<w, app'>>) /\ w \in Writers
      BY <2>1, <1>x DEF Persist, Queued
    <3>2. Len(writes') = Len(writes) + 1 /\ writes'[Len(writes) + 1] = <<w, app'>>
          /\ Len(writes) \in Nat
      BY <1>t, <3>1, QueueSteps
    <3>3. Len(writes) + 1 \in 1 .. Len(writes')
      BY <3>2
    <3> QED
      BY <3>2, <3>3
  <2>2. \A w \in Works : saver'[w].pc = "storing" => saver'[w] = saver[w]
    BY <1>7, <1>m, <1>t, <1>x DEF Prepared, Settled, Quits, Moved
  <2>3. \/ work'.pc \notin {"identity", "attempt", "claiming", "lookingStep"}
        \/ work'.pc = "identity" /\ Persist("work", app)
    BY <1>7, <1>m DEF Prepared, Quits
  <2>4. Persist("work", app) => Begins
    BY <1>m, <1>x, <2>1 DEF Moved
  <2> HIDE DEF Begins, Queues
  <2> QED
    BY <2>2, <2>3, <2>4, <1>n
<1>8. CASE Starts
  <2>1. /\ work'.pc \notin {"identity", "attempt", "claiming", "lookingStep"}
        /\ \A w \in Works : saver'[w].pc = "storing" => saver'[w] = saver[w]
    BY <1>8, <1>m, <1>t, <1>x DEF Starts, Moved
  <2> QED
    BY <2>1, <1>n
<1>9. CASE StartAnswered
  <2>1. /\ work'.pc \notin {"identity", "attempt", "claiming", "lookingStep"}
        /\ \A w \in Works : saver'[w].pc = "storing" => saver'[w] = saver[w]
    BY <1>9, <1>m, <1>t, <1>x DEF StartAnswered, Answered, Moved
  <2> QED
    BY <2>1, <1>n
<1>10. CASE LooksUpStart
  <2>1. /\ work'.pc \notin {"identity", "attempt", "claiming", "lookingStep"}
        /\ \A w \in Works : saver'[w].pc = "storing" => saver'[w] = saver[w]
    BY <1>10, <1>m, <1>t, <1>x DEF LooksUpStart, Moved
  <2> QED
    BY <2>1, <1>n
<1>11. CASE Authorizes
  <2>1. /\ work'.pc \notin {"identity", "attempt", "claiming", "lookingStep"}
        /\ \A w \in Works : saver'[w].pc = "storing" => saver'[w] = saver[w]
    BY <1>11, <1>m, <1>t, <1>x DEF Authorizes, Settled, Quits, Moved
  <2> QED
    BY <2>1, <1>n
<1>12. CASE ShowsMaterial
  <2>1. /\ work'.pc \notin {"identity", "attempt", "claiming", "lookingStep"}
        /\ \A w \in Works : saver'[w].pc = "storing" => saver'[w] = saver[w]
    BY <1>12, <1>m, <1>t, <1>x DEF ShowsMaterial, Settled, Quits, Moved
  <2> QED
    BY <2>1, <1>n
<1>13. CASE Attempts
  <2>1. ASSUME NEW w \in Works, NEW l, Persist(w, l)
        PROVE  \E i \in 1 .. Len(writes') : writes'[i][1] = w /\ writes'[i][2] = app'
    <3>1. writes' = Append(writes, <<w, app'>>) /\ w \in Writers
      BY <2>1, <1>x DEF Persist, Queued
    <3>2. Len(writes') = Len(writes) + 1 /\ writes'[Len(writes) + 1] = <<w, app'>>
          /\ Len(writes) \in Nat
      BY <1>t, <3>1, QueueSteps
    <3>3. Len(writes) + 1 \in 1 .. Len(writes')
      BY <3>2
    <3> QED
      BY <3>2, <3>3
  <2>2. /\ work'.pc = "attempt" /\ app.attempts + 1 <= MaxAttempts
        /\ Persist("work", [app EXCEPT !.attempts = app.attempts + 1,
                                       !.task[app.attempts + 1] = restarts])
    BY <1>13, <1>m DEF Attempts, MayAttempt
  <2>3. Moved("work")
    BY <1>m, <1>x, <2>2
  <2>4. \A w \in Works : saver'[w].pc = "storing" => saver'[w] = saver[w]
    BY <1>x, <2>3 DEF Moved
  <2>5. Begins
    BY <1>x, <2>1, <2>2, <2>3 DEF Moved
  <2>6. app'.attempts = app.attempts + 1
    BY <1>t, <2>2 DEF Persist, Lessons
  <2>7. app.attempts \in 0 .. MaxAttempts
    BY <1>t, LessonUpdates
  <2>8. app'.attempts >= 1
    BY <2>6, <2>7
  <2> HIDE DEF Begins, Queues
  <2> QED
    BY <2>2, <2>4, <2>5, <2>8, <1>n
<1>14. CASE ClaimsStep
  <2>1. /\ work'.pc \notin {"identity", "attempt"}
        /\ work'.pc \in {"claiming", "lookingStep"} => work.pc \in {"attempt", "claiming"}
        /\ \A w \in Works : saver'[w].pc = "storing" => saver'[w] = saver[w]
        /\ ~Launch /\ ~Attempts
    BY <1>14, <1>m, <1>t, <1>x DEF ClaimsStep, Moved, Launch, Attempts, Idle
  <2> QED
    BY <2>1, <1>n, <1>s
<1>15. CASE StepAnswered
  <2>1. /\ work'.pc \notin {"identity", "attempt"}
        /\ work'.pc \in {"claiming", "lookingStep"} => work.pc \in {"attempt", "claiming"}
        /\ \A w \in Works : saver'[w].pc = "storing" => saver'[w] = saver[w]
        /\ ~Launch /\ ~Attempts
    BY <1>15, <1>m, <1>t, <1>x DEF StepAnswered, Answered, Moved, Launch, Attempts, Idle
  <2> QED
    BY <2>1, <1>n, <1>s
<1>16. CASE LooksUpStep
  <2>1. /\ work'.pc \notin {"identity", "attempt", "claiming", "lookingStep"}
        /\ \A w \in Works : saver'[w].pc = "storing" => saver'[w] = saver[w]
    BY <1>16, <1>m, <1>t, <1>x DEF LooksUpStep, Moved
  <2> QED
    BY <2>1, <1>n
<1>17. CASE ToolSaves
  <2>1. /\ work'.pc = work.pc /\ saver'["work"] = saver["work"]
        /\ \A w \in Works : saver'[w].pc = "storing" => saver'[w] = saver[w]
    BY <1>17, <1>m, <1>t, <1>x DEF ToolSaves, Moved
  <2> QED
    BY <2>1, <1>n, <1>b, <1>s
<1>18. CASE ChildEnds
  <2>1. /\ work'.pc \notin {"identity", "attempt", "claiming", "lookingStep"}
        /\ \A w \in Works : saver'[w].pc = "storing" => saver'[w] = saver[w]
    BY <1>18, <1>m, <1>t, <1>x DEF ChildEnds, Settled, Quits, Moved
  <2> QED
    BY <2>1, <1>n
<1>19. CASE WorkEnds
  <2>1. /\ work'.pc \notin {"identity", "attempt", "claiming", "lookingStep"}
        /\ \A w \in Works : saver'[w].pc = "storing" => saver'[w] = saver[w]
    BY <1>19, <1>m, <1>t, <1>x DEF WorkEnds, Settled, Moved
  <2> QED
    BY <2>1, <1>n
<1>20. CASE Finishes
  <2>1. /\ work'.pc \notin {"identity", "attempt", "claiming", "lookingStep"}
        /\ \A w \in Works : saver'[w].pc = "storing" => saver'[w] = saver[w]
    BY <1>20, <1>m, <1>t, <1>x DEF Finishes, Settled, Idle, Moved
  <2> QED
    BY <2>1, <1>n
<1>21. CASE Write
  BY <1>21, <1>n, <1>b, <1>s DEF Write
<1>22. CASE Halts
  <2>1. work'.pc = work.pc
    BY <1>22, <1>t DEF Halts, Typed, SavedTypes, Runs
  <2> QED
    BY <1>22, <2>1, <1>n, <1>b, <1>s DEF Halts
<1>23. CASE HaltMoves
  <2>1. /\ work'.pc \notin {"identity", "attempt", "claiming", "lookingStep"}
        /\ \A w \in Works : saver'[w].pc = "storing" => saver'[w] = saver[w]
    BY <1>23, <1>m, <1>t, <1>x DEF HaltMoves, Settled, Idle, Moved
  <2> QED
    BY <2>1, <1>n
<1>24. CASE Restart
  BY <1>24
<1>25. ASSUME NEW w \in Works, Saved(w) PROVE Durable'
  <2>1. /\ work'.pc = work.pc /\ OnDisk(w) /\ w \in Writers
        /\ \A x \in Works \ {w} : saver'[x] = saver[x]
    BY <1>25, <1>t, <1>x DEF Saved, Typed, SavedTypes
  <2>2. saver'[w].pc = "storing" => Queues(w, saver'[w].report)
    <3> SUFFICES ASSUME saver'[w].pc = "storing" PROVE Queues(w, saver'[w].report)
      OBVIOUS
    <3> DEFINE r == Snapshot(w)
    <3>1. /\ app' = [app EXCEPT !.reports = app.reports \cup {r}]
          /\ writes' = Append(writes, <<w, app'>>)
          /\ saver' = [saver EXCEPT ![w] = [pc |-> "storing", report |-> r]]
      BY <1>25, <1>t, <1>x, <2>1 DEF Saved, Queued, Typed, SavedTypes
    <3>2. saver'[w].report = r
      BY <1>t, <2>1, <3>1 DEF Typed, SavedTypes
    <3>3. r \in app'.reports
      BY <1>t, <3>1 DEF Lessons
    <3>4. Len(writes') = Len(writes) + 1 /\ writes'[Len(writes) + 1] = <<w, app'>>
          /\ Len(writes) \in Nat
      BY <1>t, <2>1, <3>1, QueueSteps
    <3>5. Len(writes) + 1 \in 1 .. Len(writes')
      BY <3>4
    <3> QED
      BY <3>2, <3>3, <3>4, <3>5 DEF Kept
  <2> HIDE DEF Begins, Queues
  <2> QED
    BY <2>1, <2>2, <1>n, <1>b, <1>s, <1>x
<1>26. ASSUME NEW w \in Works, SendReport(w) PROVE Durable'
  <2>1. /\ work'.pc = work.pc /\ (w = "work" => OnDisk("work"))
        /\ \A x \in Works \ {w} : saver'[x] = saver[x]
        /\ saver'[w].pc = "sending"
    BY <1>26, <1>t, <1>x DEF SendReport, MaySend, Typed, SavedTypes, Saves
  <2> QED
    BY <2>1, <1>n, <1>b, <1>s, <1>x
<1>27. ASSUME NEW w \in Works, Reported(w) PROVE Durable'
  <2>1. /\ work'.pc = work.pc /\ \A x \in Works \ {w} : saver'[x] = saver[x]
        /\ saver'[w].pc = "idle" /\ saver[w].pc = "sending"
    BY <1>27, <1>t, <1>x DEF Reported, Typed, SavedTypes
  <2> QED
    BY <2>1, <1>n, <1>b, <1>s, <1>x
<1>28. CASE FlushSends
  BY <1>28, <1>n, <1>b, <1>s DEF FlushSends
<1>29. CASE FlushAnswered
  BY <1>29, <1>n, <1>b, <1>s DEF FlushAnswered
<1>30. CASE UNCHANGED vars
  BY <1>30, <1>n, <1>b, <1>s DEF vars
<1> QED
  BY <1>1, <1>2, <1>3, <1>4, <1>5, <1>6, <1>7, <1>8, <1>9, <1>10, <1>11, <1>12, <1>13,
     <1>14, <1>15, <1>16, <1>17, <1>18, <1>19, <1>20, <1>21, <1>22, <1>23, <1>24, <1>25,
     <1>26, <1>27, <1>28, <1>29, <1>30
     DEF Next, Device, Execute, Works

\* The server has this computer's requests only, and what another computer did.
LEMMA ServedRows ==
  ASSUME server \in Rows, NEW m \in Requests, server' = Served(m).rows
  PROVE  /\ server'.owner = server.owner \/ (m.kind = "start" /\ server'.owner = m.who)
         /\ \/ server'.steps = server.steps
            \/ m.kind = "step" /\ server'.steps = [server.steps EXCEPT ![m.n] = m.task]
         /\ \/ server'.report = server.report /\ server'.status = server.status
            \/ /\ server'.report = server.report
               /\ m.kind = "start" /\ server.owner = Nobody
            \/ /\ m.kind = "report" /\ server'.report = m.report
               /\ server'.status = m.report.status
<1>1. CASE m.kind = "start"
  BY <1>1 DEF Served, ServeStart, Rows
<1>2. CASE m.kind = "step"
  BY <1>2 DEF Served, ServeStep, Rows
<1>3. CASE m.kind = "report"
  BY <1>3 DEF Served, ServeReport, Rows
<1> QED
  BY <1>1, <1>2, <1>3 DEF Requests, StartRequests, StepRequests, ReportRequests

\* The server takes nothing of this computer that is not in the journal.
LEMMA ClaimedStep == DeliveryInv /\ [Next]_vars => Claimed'
<1> SUFFICES ASSUME DeliveryInv, [Next]_vars PROVE Claimed'
  OBVIOUS
<1> DEFINE v == server'.report.rev
<1>t. /\ Typed /\ Asks /\ Durable /\ Claimed /\ app \in Lessons /\ journal \in Lessons
      /\ app' \in Lessons /\ journal' \in Lessons
      /\ server \in Rows /\ wire \subseteq Requests
      /\ Sound(journal)
  BY TypedIsTypeOK, CopyMoves DEF DeliveryInv, Typed, SavedTypes, Waits, Wellformed
<1>v. seen \in Nat /\ v \in Nat /\ seen <= v /\ Follows(journal, journal', v)
  BY CopyMoves, JournalMoves
<1>x. Works = {"work", "tool"}
  BY DEF Works
<1>a. journal.status # Absent =>
        journal'.status # Absent /\ Identity(journal') = Identity(journal)
  BY <1>v DEF Follows, Identity
<1>b. ASSUME NEW n \in 1 .. MaxAttempts, NEW task, Holds(journal, n, task)
      PROVE  Holds(journal', n, task)
  <2>1. journal.attempts \in 0 .. MaxAttempts /\ journal'.attempts \in 0 .. MaxAttempts
        /\ MaxAttempts \in Nat
    BY <1>t, LessonUpdates, DeliveryBoundsAssumption
  <2>2. n <= journal.attempts
    BY <1>b DEF Holds
  <2>3. journal.status # Absent
    BY <1>t, <2>1, <2>2 DEF Sound, NoLesson
  <2>4. journal.attempts <= journal'.attempts /\ journal'.task[n] = journal.task[n]
    BY <1>v, <2>1, <2>2, <2>3 DEF Follows
  <2> QED
    BY <1>b, <2>1, <2>2, <2>4 DEF Holds, TaskOf
<1>k. ASSUME NEW r \in Reports, Kept(r, journal, seen) PROVE Kept(r, journal', v)
  <2>1. journal.status # Absent \/ journal = NoLesson
    BY <1>t DEF Sound
  <2> HIDE DEF v
  <2> QED
    BY <1>t, <1>v, <1>k, <2>1 DEF Follows, Kept, Reports, NoLesson, Absent
<1>r. ASSUME NEW m \in Requests, Recorded(m) PROVE Recorded(m)'
  BY <1>r, <1>a, <1>b, <1>k
     DEF Recorded, Requests, StartRequests, StepRequests, ReportRequests, seen
<1>w. ASSUME NEW m \in wire
      PROVE  /\ m \in Requests /\ Recorded(m)'
             /\ m.kind = "start" => journal'.status # Absent /\ m.who = Identity(journal')
  BY <1>t, <1>r, <1>w DEF Claimed, Recorded
\* The rows.
<1>n. ASSUME \A m \in wire' : Recorded(m)',
             \/ server'.owner = server.owner \/ server'.owner = Other
             \/ \E m \in wire : m.kind = "start" /\ server'.owner = m.who,
             \/ server'.steps = server.steps
             \/ \E m \in wire :
                  m.kind = "step" /\ server'.steps = [server.steps EXCEPT ![m.n] = m.task]
      PROVE  Claimed'
  <2>1. server'.owner.by = "me" => journal'.status # Absent /\ server'.owner = Identity(journal')
    BY <1>a, <1>n, <1>t, <1>w DEF Claimed, Recorded, Other
  <2>2. ASSUME NEW n \in 1 .. MaxAttempts, server'.steps[n] # Nobody
        PROVE  Holds(journal', n, server'.steps[n])
    <3>1. CASE server'.steps[n] = server.steps[n]
      BY <1>b, <1>t, <2>2, <3>1 DEF Claimed
    <3>2. ASSUME NEW m \in wire, m.kind = "step", m.n = n, server'.steps[n] = m.task
          PROVE  Holds(journal', n, server'.steps[n])
      BY <1>w, <3>2 DEF Recorded
    <3> QED
      BY <1>n, <1>t, <3>1, <3>2 DEF Rows
  <2> QED
    BY <1>n, <2>1, <2>2 DEF Claimed
<1>u. ASSUME wire' \subseteq wire, server' = server PROVE Claimed'
  BY <1>n, <1>u, <1>w
<1>l. ASSUME NEW m \in wire PROVE Recorded([m EXCEPT !.late = TRUE])'
  <2>1. PICK k : k = [m EXCEPT !.late = TRUE]
    OBVIOUS
  <2>2. /\ k.kind = m.kind /\ k.by = m.by
        /\ m.kind = "start" => k.who = m.who
        /\ m.kind = "step" => k.n = m.n /\ k.task = m.task
        /\ m.kind = "report" => k.report = m.report
    BY <2>1, <1>w DEF Requests, StartRequests, StepRequests, ReportRequests
  <2> QED
    BY <1>w, <2>1, <2>2 DEF Recorded
\* A request goes out.
<1>y. ASSUME NEW m \in Requests, wire' = wire \cup {m}, server' = server, Recorded(m)
      PROVE  Claimed'
  BY <1>n, <1>r, <1>w, <1>y
<1> USE DEF device
<1>1. ASSUME NEW m \in wire, Serve(m) PROVE Claimed'
  <2>1. m \in Requests /\ wire' = wire \ {m} /\ server' = Served(m).rows
    BY <1>1, <1>t DEF Serve
  <2>2. /\ server'.owner = server.owner \/ (m.kind = "start" /\ server'.owner = m.who)
        /\ \/ server'.steps = server.steps
           \/ m.kind = "step" /\ server'.steps = [server.steps EXCEPT ![m.n] = m.task]
    BY <1>t, <2>1, ServedRows
  <2> QED
    BY <2>1, <2>2, <1>n, <1>w
<1>2. ASSUME NEW m \in wire, GivesUp(m) PROVE Claimed'
  BY <1>2, <1>n, <1>w, <1>l DEF GivesUp
<1>3. CASE TeacherStops
  <2>1. /\ wire' = wire /\ server'.steps = server.steps
        /\ server'.owner = server.owner \/ server'.owner = Other
    BY <1>3, <1>t DEF TeacherStops, Rows
  <2> QED
    BY <2>1, <1>n, <1>w
<1>4. CASE OtherStarts
  <2>1. /\ wire' = wire /\ server'.steps = server.steps
        /\ server'.owner = server.owner \/ server'.owner = Other
    BY <1>4, <1>t DEF OtherStarts, Rows
  <2> QED
    BY <2>1, <1>n, <1>w
<1>5. CASE OtherReports
  <2>1. PICK rev \in OtherRevisions :
          server' = ServeReport([report |-> [rev |-> rev, status |-> "finished",
                                             by |-> "other"]]).rows
    BY <1>5 DEF OtherReports
  <2>2. server'.steps = server.steps /\ server'.owner = server.owner
    BY <2>1, <1>t DEF ServeReport, Rows
  <2> QED
    BY <1>5, <2>2, <1>n, <1>w DEF OtherReports
<1>6. CASE Launch
  BY <1>6, <1>u DEF Launch
<1>7. CASE Prepared
  <2>1. /\ wire' = wire /\ server'.steps = server.steps
        /\ server'.owner = server.owner \/ server'.owner = Other
    BY <1>7, <1>t DEF Prepared, Rows
  <2> QED
    BY <2>1, <1>n, <1>w
<1>8. CASE Starts
  <2> DEFINE m == [kind |-> "start", by |-> "work", who |-> Identity(app), late |-> FALSE]
  <2>1. wire' = wire \cup {m} /\ server' = server /\ m \in Requests
    BY <1>8, <1>t, Identities, NewRequests DEF Starts, Sends
  <2>2. journal.status # Absent /\ app.status # Absent
    BY <1>8, <1>t DEF Starts, Settled, Durable, DeliveryInv, Waits, Blank, Idle
  <2>3. Identity(app) = Identity(journal)
    BY <2>2 DEF DeliveryInv, InOrder, Follows, Identity
  <2> QED
    BY <2>1, <2>2, <2>3, <1>y DEF Recorded
<1>9. CASE StartAnswered
  BY <1>9, <1>u DEF StartAnswered
<1>10. CASE LooksUpStart
  BY <1>10, <1>u DEF LooksUpStart
<1>11. CASE Authorizes
  BY <1>11, <1>u DEF Authorizes
<1>12. CASE ShowsMaterial
  BY <1>12, <1>u DEF ShowsMaterial
<1>13. CASE Attempts
  BY <1>13, <1>u DEF Attempts
<1>14. CASE ClaimsStep
  <2> DEFINE n == app.attempts
  <2> DEFINE m == [kind |-> "step", by |-> "work", n |-> n, who |-> Identity(app),
                   task |-> TaskOf(app, n), late |-> FALSE]
  <2>0. n \in 0 .. MaxAttempts /\ n >= 1 /\ journal.attempts = n
    BY <1>14, <1>t, LessonUpdates DEF ClaimsStep, MayClaim, Settled, Durable
  <2>1. n \in 1 .. MaxAttempts
    BY <2>0
  <2>2. wire' = wire \cup {m} /\ server' = server /\ m \in Requests
    BY <1>14, <1>t, <2>1, Identities, NewRequests DEF ClaimsStep, Sends
  <2>3. journal.status # Absent /\ app.status # Absent
    BY <1>14, <1>t, <2>0 DEF ClaimsStep, DeliveryInv, Waits, Blank, Idle, Sound, NoLesson
  <2>4. TaskOf(app, n) = TaskOf(journal, n)
    BY <2>0, <2>1, <2>3 DEF DeliveryInv, InOrder, Follows, TaskOf
  <2>5. Holds(journal, n, TaskOf(app, n))
    BY <2>0, <2>1, <2>4, DeliveryBoundsAssumption DEF Holds
  <2>6. Recorded(m)
    BY <2>5 DEF Recorded
  <2> QED
    BY <2>2, <2>6, <1>y
<1>15. CASE StepAnswered
  BY <1>15, <1>u DEF StepAnswered
<1>16. CASE LooksUpStep
  BY <1>16, <1>u DEF LooksUpStep
<1>17. CASE ToolSaves
  BY <1>17, <1>u DEF ToolSaves
<1>18. CASE ChildEnds
  BY <1>18, <1>u DEF ChildEnds
<1>19. CASE WorkEnds
  BY <1>19, <1>u DEF WorkEnds
<1>20. CASE Finishes
  BY <1>20, <1>u DEF Finishes
<1>21. CASE Write
  BY <1>21, <1>u DEF Write
<1>22. CASE Halts
  BY <1>22, <1>u DEF Halts
<1>23. CASE HaltMoves
  BY <1>23, <1>u DEF HaltMoves
<1>24. CASE Restart
  BY <1>24, <1>n, <1>w, <1>l DEF Restart
<1>25. ASSUME NEW w \in Works, Saved(w) PROVE Claimed'
  BY <1>25, <1>u DEF Saved
<1>26. ASSUME NEW w \in Works, SendReport(w) PROVE Claimed'
  <2>0. w \in Writers /\ saver[w].report \in Reports
    BY <1>26, <1>t, LessonTypes DEF SendReport, Asks, Typed, SavedTypes, Saves, Works,
       Writers
  <2> DEFINE m == ReportRequest(w, saver[w].report)
  <2>1. wire' = wire \cup {m} /\ server' = server /\ m \in Requests
    BY <1>26, <2>0, NewRequests DEF SendReport, Sends
  <2>2. Kept(saver[w].report, journal, seen)
    BY <1>26, <1>t DEF SendReport, MaySend, OnDisk, Durable
  <2> QED
    BY <2>1, <2>2, <1>y DEF Recorded, ReportRequest
<1>27. ASSUME NEW w \in Works, Reported(w) PROVE Claimed'
  BY <1>27, <1>u DEF Reported
<1>28. CASE FlushSends
  <2>0. flush' \in Reports /\ "flush" \in Writers
    BY <1>28, <1>t, LessonUpdates DEF FlushSends, Writers
  <2>1. PICK m : m = ReportRequest("flush", flush')
    OBVIOUS
  <2>2. wire' = wire \cup {m} /\ server' = server /\ m \in Requests
    BY <1>28, <2>0, <2>1, NewRequests DEF FlushSends, Sends
  <2>3. Recorded(m)
    BY <2>1 DEF Recorded, ReportRequest
  <2> QED
    BY <2>2, <2>3, <1>y
<1>29. CASE FlushAnswered
  BY <1>29, <1>u DEF FlushAnswered
<1>30. CASE UNCHANGED vars
  BY <1>30, <1>u DEF vars
<1> QED
  BY <1>1, <1>2, <1>3, <1>4, <1>5, <1>6, <1>7, <1>8, <1>9, <1>10, <1>11, <1>12, <1>13,
     <1>14, <1>15, <1>16, <1>17, <1>18, <1>19, <1>20, <1>21, <1>22, <1>23, <1>24, <1>25,
     <1>26, <1>27, <1>28, <1>29, <1>30
     DEF Next, Device, Execute, Works

(***************************************************************************)
(* What the teacher sees.                                                  *)
(***************************************************************************)
\* A report that is about to be made of the lesson in memory, or was made of it.
Fresh(r) ==
  r \in Reports /\ server.owner # Nobody /\ (restarts = 0 => OfRevision(r, app))

\* A revision of the lesson keeps its reports.
LEMMA KeptReports ==
  ASSUME app \in Lessons
  PROVE  /\ \A w, s : Persist(w, [app EXCEPT !.status = s]) => app'.reports = app.reports
         /\ \A w, s, c : Persist(w, [app EXCEPT !.status = s, !.child = c]) =>
              app'.reports = app.reports
         /\ \A w, c : Persist(w, [app EXCEPT !.claim = c]) => app'.reports = app.reports
         /\ \A w, c : Persist(w, [app EXCEPT !.child = c]) => app'.reports = app.reports
         /\ \A w, n, e : Persist(w, [app EXCEPT !.attempts = n, !.task[n] = e]) =>
              app'.reports = app.reports
         /\ \A w : Persist(w, app) => app'.reports = app.reports
         /\ Fails(app) => app'.reports = app.reports
         /\ Fails([app EXCEPT !.claim = "theirs"]) => app'.reports = app.reports
<1>1. /\ \A w, s : Persist(w, [app EXCEPT !.status = s]) => app'.reports = app.reports
      /\ \A w, s, c : Persist(w, [app EXCEPT !.status = s, !.child = c]) =>
           app'.reports = app.reports
  BY DEF Persist, Lessons
<1>2. /\ \A w, c : Persist(w, [app EXCEPT !.claim = c]) => app'.reports = app.reports
      /\ \A w, c : Persist(w, [app EXCEPT !.child = c]) => app'.reports = app.reports
      /\ \A w : Persist(w, app) => app'.reports = app.reports
  BY DEF Persist, Lessons
<1>3. \A w, n, e : Persist(w, [app EXCEPT !.attempts = n, !.task[n] = e]) =>
        app'.reports = app.reports
  BY DEF Persist, Lessons
<1>4. Fails(app) => app'.reports = app.reports
  BY <1>1 DEF Fails
<1>5. Fails([app EXCEPT !.claim = "theirs"]) => app'.reports = app.reports
  BY DEF Fails, Persist, Lessons
<1> QED
  BY <1>1, <1>2, <1>3, <1>4, <1>5

\* Every step keeps what the teacher sees, or will see, to what the lesson was.
LEMMA SeenStep == DeliveryInv /\ [Next]_vars => Seen'
<1> SUFFICES ASSUME DeliveryInv, [Next]_vars PROVE Seen'
  OBVIOUS
<1> DEFINE v == server'.report.rev
<1>t. /\ Typed /\ Asks /\ Seen /\ app \in Lessons /\ app' \in Lessons
      /\ server \in Rows /\ wire \subseteq Requests /\ server' \in Rows
      /\ app.rev \in Nat /\ app'.rev \in Nat /\ restarts \in Nat
      /\ app.reports \subseteq Reports /\ Sound(app)
  <2>1. /\ Typed /\ Asks /\ Seen /\ app \in Lessons /\ app' \in Lessons
        /\ server \in Rows /\ wire \subseteq Requests /\ server' \in Rows /\ restarts \in Epochs
        /\ Sound(app)
    BY TypedIsTypeOK, TypeStep, CopyMoves DEF DeliveryInv, Typed, SavedTypes, Waits,
       Wellformed
  <2>2. app.rev \in 0 .. MaxRevision /\ app'.rev \in 0 .. MaxRevision
        /\ app.reports \subseteq Reports
    BY <2>1, LessonUpdates
  <2> QED
    BY <2>1, <2>2, DeliveryBoundsAssumption DEF Epochs
<1>v. seen \in Nat /\ v \in Nat /\ seen <= v
      /\ (server.owner # Nobody => server'.owner = server.owner)
  BY CopyMoves, ServerStep DEF ServerLater
<1>a. AnswersAreTrue /\ Blank
  BY DEF DeliveryInv, Waits
<1>x. /\ Works = {"work", "tool"} /\ Works \subseteq Writers
      /\ NotSaving.pc = "idle" /\ NotSaving.report = NoReport
  BY DEF Works, Writers, NotSaving
<1>k. app.claim # "none" => server.owner # Nobody
  <2>1. app.claim \in {"none", "mine", "theirs"}
    BY <1>t DEF Lessons
  <2> QED
    BY <2>1 DEF DeliveryInv, AllKnow, Knows, Identity, Nobody
\* A step but a restart: what may be new.
<1> DEFINE
      Sent == \A m \in wire' : m.kind = "report" =>
                \/ \E x \in wire : x.kind = "report" /\ x.report = m.report
                \/ Fresh(m.report)
      Made == \A w \in Works : \/ saver'[w].report \in {NoReport, saver[w].report}
                               \/ Fresh(saver'[w].report)
      Listing == \A r \in app'.reports : r \in app.reports \/ Fresh(r)
      Flushing == flush' \in {NoReport, flush} \/ Fresh(flush')
      Seeing == \/ /\ server'.report = server.report
                   /\ server'.status = server.status \/ server.report = NoReport
                \/ \E m \in wire : m.kind = "report" /\ server'.report = m.report
                                   /\ server'.status = m.report.status
                \/ /\ server'.report.by = "other" /\ server.owner # Nobody
                   /\ server'.status = server'.report.status
      Telling == /\ app'.claim = "mine" => \A w \in Works : saver[w].pc = "saving" =>
                      saver'[w].pc = "saving" \/ \E r \in app'.reports : r.rev = app'.rev
                 /\ \A r \in app.reports : r \in app'.reports \/ r.rev <= seen
<1>n. ASSUME ~Restart, restarts' = restarts, Sent, Made, Listing, Flushing, Seeing, Telling
      PROVE  Seen'
  <2>m. \A m \in wire : m.kind = "report" => m.report \in Reports
    BY <1>t DEF Requests, StartRequests, StepRequests, ReportRequests
  <2>o. ASSUME NEW r \in Reports, restarts = 0, OfRevision(r, app) PROVE OfRevision(r, app')
    <3>1. r.rev \in Nat
      BY DEF Reports
    <3> QED
      BY <1>n, <1>t, <2>o, <3>1, Revisions DEF OfRevision, Revised
  <2>1. \/ server'.report # NoReport
        \/ \E m \in wire' : m.kind = "report"
        \/ \E w \in Works : saver'[w].report # NoReport
        => server'.owner # Nobody
    <3>1. server'.report # NoReport => server'.owner # Nobody
      BY <1>n, <1>t, <1>v DEF Seen
    <3>2. ASSUME NEW m \in wire', m.kind = "report" PROVE server'.owner # Nobody
      BY <1>n, <1>t, <1>v, <3>2 DEF Seen, Fresh
    <3>3. ASSUME NEW w \in Works, saver'[w].report # NoReport PROVE server'.owner # Nobody
      BY <1>n, <1>t, <1>v, <3>3 DEF Seen, Fresh
    <3> QED
      BY <3>1, <3>2, <3>3
  <2>2. server'.report # NoReport => server'.status = server'.report.status
    BY <1>n, <1>t DEF Seen
  <2>3. ASSUME restarts = 0
        PROVE  /\ \A m \in wire' : m.kind = "report" => OfRevision(m.report, app')
               /\ \A w \in Works : saver'[w].report # NoReport => OfRevision(saver'[w].report, app')
               /\ \A r \in app'.reports : OfRevision(r, app')
               /\ flush' # NoReport => OfRevision(flush', app')
               /\ server'.report.by # "other" /\ server'.report # NoReport =>
                    OfRevision(server'.report, app')
    <3>1. ASSUME NEW m \in wire', m.kind = "report" PROVE OfRevision(m.report, app')
      BY <1>n, <1>t, <2>m, <2>o, <2>3, <3>1 DEF Seen, Fresh
    <3>2. ASSUME NEW w \in Works, saver'[w].report # NoReport PROVE OfRevision(saver'[w].report, app')
      <4>1. saver[w].report \in {NoReport} \cup Reports
        BY <1>t, <1>x DEF Typed, SavedTypes, Saves
      <4> QED
        BY <1>n, <1>t, <2>o, <2>3, <3>2, <4>1 DEF Seen, Fresh
    <3>3. ASSUME NEW r \in app'.reports PROVE OfRevision(r, app')
      BY <1>n, <1>t, <2>o, <2>3, <3>3 DEF Seen, Fresh
    <3>4. flush' # NoReport => OfRevision(flush', app')
      BY <1>n, <1>t, <2>o, <2>3 DEF Seen, Fresh, Typed
    <3>5. server'.report.by # "other" /\ server'.report # NoReport =>
            OfRevision(server'.report, app')
      BY <1>n, <1>t, <2>m, <2>o, <2>3 DEF Seen, Rows
    <3> QED
      BY <3>1, <3>2, <3>3, <3>4, <3>5
  <2>4. ASSUME restarts = 0, app'.claim = "mine"
        PROVE  \/ \E w \in Works : saver'[w].pc = "saving"
               \/ \E r \in app'.reports : r.rev = app'.rev
               \/ app'.rev <= v
    <3>1. CASE \E w \in Works : saver'[w].pc = "saving"
      BY <3>1
    <3>2. CASE app'.rev = app.rev /\ app.claim = "mine"
      <4>1. \/ \E w \in Works : saver[w].pc = "saving"
            \/ \E r \in app.reports : r.rev = app.rev
            \/ app.rev <= seen
        BY <1>t, <2>4, <3>2 DEF Seen
      <4>2. CASE \E r \in app.reports : r.rev = app.rev
        <5>1. PICK r \in app.reports : r.rev = app.rev
          BY <4>2
        <5> QED
          BY <1>n, <1>t, <1>v, <3>2, <5>1
      <4>3. CASE app.rev <= seen
        BY <1>t, <1>v, <3>2, <4>3
      <4> QED
        BY <1>n, <2>4, <4>1, <4>2, <4>3
    <3> QED
      BY <1>n, <2>4, <3>1, <3>2, Revisions DEF Revised
  <2> HIDE DEF Sent, Made, Listing, Flushing, Seeing, Telling
  <2> QED
    BY <1>n, <2>1, <2>2, <2>3, <2>4 DEF Seen, seen
\* A step that only goes on to save.
<1>s. ASSUME ~Restart, restarts' = restarts, Sent, Made, Flushing, Seeing,
             app'.reports = app.reports,
             \A w \in Works : saver[w].pc = "saving" => saver'[w].pc = "saving"
      PROVE  Seen'
  BY <1>n, <1>s
<1>m. /\ \A w \in Writers : \A l : Persist(w, l) => Moved(w)
      /\ \A l : Fails(l) =>
           \/ saver' = saver /\ work'.pc = "idle" /\ work'.halt = work.halt
           \/ Moved("work") /\ work'.pc = "saving" /\ work'.halt = work.halt
  BY <1>t, Movements
<1>c. CASE Restart
  <2>1. restarts' # 0
    BY <1>c, <1>t DEF Restart
  <2>2. /\ server' = server /\ \A w \in Works : saver'[w].report = NoReport
        /\ \A m \in wire' : \E x \in wire : m.kind = x.kind
    <3>1. \A x \in wire : [x EXCEPT !.late = TRUE].kind = x.kind
      BY <1>t DEF Requests, StartRequests, StepRequests, ReportRequests
    <3> QED
      BY <1>c, <1>x, <3>1 DEF Restart
  <2> QED
    BY <1>t, <2>1, <2>2 DEF Seen
<1> SUFFICES ASSUME ~Restart PROVE Seen'
  BY <1>c
\* A step that neither sends nor makes a report.
<1>q. ASSUME restarts' = restarts, wire' \subseteq wire, flush' = flush, Seeing,
             \A w \in Works : saver'[w].report = saver[w].report,
             \A w \in Works : saver[w].pc = "saving" => saver'[w].pc = "saving",
             app'.reports = app.reports
      PROVE  Seen'
  BY <1>q, <1>s
<1>e. /\ \A w, s : Persist(w, [app EXCEPT !.status = s]) => app'.reports = app.reports
      /\ \A w, s, c : Persist(w, [app EXCEPT !.status = s, !.child = c]) =>
           app'.reports = app.reports
      /\ \A w, c : Persist(w, [app EXCEPT !.claim = c]) => app'.reports = app.reports
      /\ \A w, c : Persist(w, [app EXCEPT !.child = c]) => app'.reports = app.reports
      /\ \A w, n, e : Persist(w, [app EXCEPT !.attempts = n, !.task[n] = e]) =>
           app'.reports = app.reports
      /\ \A w : Persist(w, app) => app'.reports = app.reports
      /\ Fails(app) => app'.reports = app.reports
      /\ Fails([app EXCEPT !.claim = "theirs"]) => app'.reports = app.reports
  BY <1>t, KeptReports
<1> HIDE DEF Sent, Made, Listing, Flushing, Seeing, Telling
<1>y. server' = server => Seeing
  BY DEF Seeing
<1> USE DEF device

<1>1. ASSUME NEW m \in wire, Serve(m) PROVE Seen'
  <2>1. /\ m \in Requests /\ server' = Served(m).rows /\ wire' = wire \ {m}
        /\ restarts' = restarts /\ saver' = saver /\ flush' = flush /\ app' = app
    BY <1>1, <1>t DEF Serve
  <2>2. Seeing
    <3>1. \/ server'.report = server.report /\ server'.status = server.status
          \/ server'.report = server.report /\ m.kind = "start" /\ server.owner = Nobody
          \/ /\ m.kind = "report" /\ server'.report = m.report
             /\ server'.status = m.report.status
      BY <1>t, <2>1, ServedRows
    <3> QED
      BY <1>t, <3>1 DEF Seeing, Seen
  <2> QED
    BY <2>1, <2>2, <1>q
<1>2. ASSUME NEW m \in wire, GivesUp(m) PROVE Seen'
  <2>1. Sent
    <3>1. ASSUME NEW k \in wire', k.kind = "report"
          PROVE  \E x \in wire : x.kind = "report" /\ x.report = k.report
      <4>1. [m EXCEPT !.late = TRUE].kind = m.kind
            /\ (m.kind = "report" => [m EXCEPT !.late = TRUE].report = m.report)
        BY <1>t DEF Requests, StartRequests, StepRequests, ReportRequests
      <4> QED
        BY <1>2, <3>1, <4>1 DEF GivesUp
    <3> QED
      BY <3>1 DEF Sent
  <2> QED
    BY <1>2, <2>1, <1>s, <1>y, <1>x DEF GivesUp, Made, Flushing
<1>3. CASE TeacherStops
  <2>1. server'.report = server.report /\ server'.status = server.status
    BY <1>3, <1>t DEF TeacherStops, Rows
  <2> QED
    BY <1>3, <2>1, <1>q DEF TeacherStops, Seeing
<1>4. CASE OtherStarts
  <2>1. server'.report = server.report /\ server.report = NoReport
    BY <1>4, <1>t DEF OtherStarts, Rows, Seen
  <2> QED
    BY <1>4, <2>1, <1>q DEF OtherStarts, Seeing
<1>5. CASE OtherReports
  <2>1. PICK rev \in OtherRevisions :
          server' = ServeReport([report |-> [rev |-> rev, status |-> "finished",
                                             by |-> "other"]]).rows
    BY <1>5 DEF OtherReports
  <2>2. \/ server'.report = server.report /\ server'.status = server.status
        \/ server'.report = [rev |-> rev, status |-> "finished", by |-> "other"]
           /\ server'.status = "finished"
    BY <2>1, <1>t DEF ServeReport, Rows
  <2>3. Seeing
    BY <1>5, <2>2 DEF OtherReports, Seeing
  <2> QED
    BY <1>5, <2>3, <1>q DEF OtherReports
<1>6. CASE Launch
  <2>1. /\ \A w \in Works : saver'[w].report = saver[w].report
        /\ \A w \in Works : saver[w].pc = "saving" => saver'[w].pc = "saving"
    BY <1>6, <1>m, <1>x DEF Launch, Moved, Writers
  <2>2. app'.reports = app.reports
    <3>1. CASE app.status = "resting"
      BY <1>6, <3>1, <1>e DEF Launch, Absent
    <3>2. CASE app.status = Absent
      <4>1. Persist("work", [NoLesson EXCEPT !.status = "working", !.id = restarts])
        BY <1>6, <3>2 DEF Launch, Absent
      <4>2. app'.reports = {}
        BY <4>1 DEF Persist, NoLesson
      <4>3. app.reports = {}
        BY <3>2, <1>a DEF Blank
      <4> QED
        BY <4>2, <4>3
    <3> QED
      BY <1>6, <3>1, <3>2 DEF Launch
  <2> QED
    BY <1>6, <2>1, <2>2, <1>q, <1>y DEF Launch
<1>7. CASE Prepared
  <2>1. /\ \A w \in Works : saver'[w].report = saver[w].report
        /\ \A w \in Works : saver[w].pc = "saving" => saver'[w].pc = "saving"
    BY <1>7, <1>m, <1>x DEF Prepared, Quits, Moved, Writers
  <2>2. app'.reports = app.reports
    BY <1>7, <1>e DEF Prepared, Quits
  <2>3. Seeing
    <3>1. server.report # NoReport => server.status # Absent
      BY <1>t, LessonTypes DEF Seen, Rows, Reports
    <3>2. server'.report = server.report
      BY <1>7, <1>t DEF Prepared, Rows
    <3>3. server.status # Absent => server' = server
      BY <1>7, <1>t DEF Prepared, Rows
    <3> QED
      BY <3>1, <3>2, <3>3 DEF Seeing
  <2> QED
    BY <1>7, <2>1, <2>2, <2>3, <1>q DEF Prepared
<1>8. CASE Starts
  <2>1. Sent
    BY <1>8 DEF Starts, Sends, Sent
  <2> QED
    BY <1>8, <2>1, <1>s, <1>y DEF Starts, Made, Flushing
<1>9. CASE StartAnswered
  <2>1. /\ \A w \in Works : saver'[w].report = saver[w].report
        /\ \A w \in Works : saver[w].pc = "saving" => saver'[w].pc = "saving"
    BY <1>9, <1>m, <1>x DEF StartAnswered, Moved, Writers
  <2>2. app'.reports = app.reports
    BY <1>9, <1>e DEF StartAnswered
  <2> QED
    BY <1>9, <2>1, <2>2, <1>q, <1>y DEF StartAnswered
<1>10. CASE LooksUpStart
  <2>1. /\ \A w \in Works : saver'[w].report = saver[w].report
        /\ \A w \in Works : saver[w].pc = "saving" => saver'[w].pc = "saving"
    BY <1>10, <1>m, <1>x DEF LooksUpStart, Moved, Writers
  <2>2. app'.reports = app.reports
    BY <1>10, <1>e DEF LooksUpStart
  <2> QED
    BY <1>10, <2>1, <2>2, <1>q, <1>y DEF LooksUpStart
<1>11. CASE Authorizes
  <2>1. /\ \A w \in Works : saver'[w].report = saver[w].report
        /\ \A w \in Works : saver[w].pc = "saving" => saver'[w].pc = "saving"
    BY <1>11, <1>m, <1>x DEF Authorizes, Quits, Moved, Writers
  <2>2. app'.reports = app.reports
    BY <1>11, <1>e DEF Authorizes, Quits
  <2> QED
    BY <1>11, <2>1, <2>2, <1>q, <1>y DEF Authorizes
<1>12. CASE ShowsMaterial
  <2>1. /\ \A w \in Works : saver'[w].report = saver[w].report
        /\ \A w \in Works : saver[w].pc = "saving" => saver'[w].pc = "saving"
    BY <1>12, <1>m, <1>x DEF ShowsMaterial, Quits, Moved, Writers
  <2>2. app'.reports = app.reports
    BY <1>12, <1>e DEF ShowsMaterial, Quits
  <2> QED
    BY <1>12, <2>1, <2>2, <1>q, <1>y DEF ShowsMaterial
<1>13. CASE Attempts
  <2>1. /\ \A w \in Works : saver'[w].report = saver[w].report
        /\ \A w \in Works : saver[w].pc = "saving" => saver'[w].pc = "saving"
    BY <1>13, <1>m, <1>x DEF Attempts, Moved, Writers
  <2>2. app'.reports = app.reports
    BY <1>13, <1>e DEF Attempts
  <2> QED
    BY <1>13, <2>1, <2>2, <1>q, <1>y DEF Attempts
<1>14. CASE ClaimsStep
  <2>1. Sent
    BY <1>14 DEF ClaimsStep, Sends, Sent
  <2> QED
    BY <1>14, <2>1, <1>s, <1>y DEF ClaimsStep, Made, Flushing
<1>15. CASE StepAnswered
  <2>1. /\ \A w \in Works : saver'[w].report = saver[w].report
        /\ \A w \in Works : saver[w].pc = "saving" => saver'[w].pc = "saving"
    BY <1>15, <1>m, <1>x DEF StepAnswered, Moved, Writers
  <2>2. app'.reports = app.reports
    BY <1>15, <1>e DEF StepAnswered
  <2> QED
    BY <1>15, <2>1, <2>2, <1>q, <1>y DEF StepAnswered
<1>16. CASE LooksUpStep
  <2>1. /\ \A w \in Works : saver'[w].report = saver[w].report
        /\ \A w \in Works : saver[w].pc = "saving" => saver'[w].pc = "saving"
    BY <1>16, <1>m, <1>x DEF LooksUpStep, Moved, Writers
  <2>2. app'.reports = app.reports
    BY <1>16, <1>e DEF LooksUpStep
  <2> QED
    BY <1>16, <2>1, <2>2, <1>q, <1>y DEF LooksUpStep
<1>17. CASE ToolSaves
  <2>1. /\ \A w \in Works : saver'[w].report = saver[w].report
        /\ \A w \in Works : saver[w].pc = "saving" => saver'[w].pc = "saving"
    BY <1>17, <1>m, <1>x DEF ToolSaves, Moved, Writers
  <2>2. app'.reports = app.reports
    BY <1>17, <1>e DEF ToolSaves
  <2> QED
    BY <1>17, <2>1, <2>2, <1>q, <1>y DEF ToolSaves
<1>18. CASE ChildEnds
  <2>1. /\ \A w \in Works : saver'[w].report = saver[w].report
        /\ \A w \in Works : saver[w].pc = "saving" => saver'[w].pc = "saving"
    BY <1>18, <1>m, <1>x DEF ChildEnds, Quits, Moved, Writers
  <2>2. app'.reports = app.reports
    BY <1>18, <1>e DEF ChildEnds, Quits
  <2> QED
    BY <1>18, <2>1, <2>2, <1>q, <1>y DEF ChildEnds
<1>19. CASE WorkEnds
  BY <1>19, <1>q, <1>y DEF WorkEnds
<1>20. CASE Finishes
  <2>1. /\ \A w \in Works : saver'[w].report = saver[w].report
        /\ \A w \in Works : saver[w].pc = "saving" => saver'[w].pc = "saving"
    BY <1>20, <1>m, <1>x DEF Finishes, Moved, Writers
  <2>2. app'.reports = app.reports
    BY <1>20, <1>e DEF Finishes
  <2> QED
    BY <1>20, <2>1, <2>2, <1>q, <1>y DEF Finishes
<1>21. CASE Write
  BY <1>21, <1>q, <1>y DEF Write
<1>22. CASE Halts
  BY <1>22, <1>q, <1>y DEF Halts
<1>23. CASE HaltMoves
  <2>1. /\ \A w \in Works : saver'[w].report = saver[w].report
        /\ \A w \in Works : saver[w].pc = "saving" => saver'[w].pc = "saving"
    BY <1>23, <1>m, <1>x DEF HaltMoves, Moved, Writers
  <2>2. app'.reports = app.reports
    BY <1>23, <1>e DEF HaltMoves
  <2> QED
    BY <1>23, <2>1, <2>2, <1>q, <1>y DEF HaltMoves
<1>24. CASE Restart
  BY <1>24
<1>25. ASSUME NEW w \in Works, Saved(w) PROVE Seen'
  <2>0. w \in Writers /\ \A x \in Works \ {w} : saver'[x] = saver[x]
    BY <1>25, <1>t, <1>x DEF Saved, Typed, SavedTypes
  <2>1. CASE app.claim = "none"
    <3>1. app' = app /\ saver'[w] = NotSaving
      BY <1>25, <2>0, <2>1, <1>t DEF Saved, Typed, SavedTypes
    <3> QED
      BY <1>25, <2>0, <2>1, <3>1, <1>n, <1>x, <1>y
         DEF Saved, Sent, Made, Listing, Flushing, Telling
  <2>2. CASE app.claim # "none"
    <3>1. /\ app' = [app EXCEPT !.reports = app.reports \cup {Snapshot(w)}]
          /\ saver'[w] = [pc |-> "storing", report |-> Snapshot(w)]
      BY <1>25, <2>0, <2>2, <1>t DEF Saved, Typed, SavedTypes
    <3>2. app'.reports = app.reports \cup {Snapshot(w)} /\ app'.rev = app.rev
      BY <3>1, <1>t DEF Lessons
    <3>3. Snapshot(w) \in Reports
      <4>1. Typed'
        BY TypeStep
      <4> QED
        BY <4>1, <3>2, LessonUpdates DEF Typed, SavedTypes
    <3>4. Fresh(Snapshot(w))
      <4>1. app.rev \in Nat
        BY <1>t DEF Lessons
      <4> QED
        BY <2>2, <3>3, <4>1, <1>k DEF Fresh, OfRevision, Snapshot
    <3>5. Snapshot(w).rev = app'.rev
      BY <3>2 DEF Snapshot
    <3> QED
      BY <1>25, <2>0, <3>1, <3>2, <3>4, <3>5, <1>n, <1>x, <1>y
         DEF Saved, Sent, Made, Listing, Flushing, Telling
  <2> QED
    BY <2>1, <2>2
<1>26. ASSUME NEW w \in Works, SendReport(w) PROVE Seen'
  <2>0. w \in Writers /\ saver[w].report \in Reports /\ saver[w].report # NoReport
    BY <1>26, <1>t, <1>x, LessonTypes DEF SendReport, Asks, Typed, SavedTypes, Saves
  <2>1. /\ saver'[w] = [pc |-> "sending", report |-> saver[w].report]
        /\ \A x \in Works \ {w} : saver'[x] = saver[x]
    BY <1>26, <2>0, <1>t, <1>x DEF SendReport, Typed, SavedTypes, Saves
  <2>2. Fresh(saver[w].report)
    BY <2>0, <1>t DEF Fresh, Seen
  <2>3. Sent
    BY <1>26, <2>2 DEF SendReport, Sends, ReportRequest, Sent
  <2> QED
    BY <1>26, <2>1, <2>3, <1>s, <1>y DEF SendReport, Made, Flushing
<1>27. ASSUME NEW w \in Works, Reported(w) PROVE Seen'
  <2>0. /\ w \in Writers /\ saver'[w] = NotSaving /\ saver[w].pc = "sending"
        /\ \A x \in Works \ {w} : saver'[x] = saver[x]
    BY <1>27, <1>t, <1>x DEF Reported, Typed, SavedTypes
  <2>1. /\ app'.reports \subseteq app.reports
        /\ \A r \in app.reports : r \in app'.reports \/ r.rev <= seen
    <3>1. CASE ask[w] # "ok"
      BY <1>27, <3>1 DEF Reported
    <3>2. CASE ask[w] = "ok"
      <4>1. app'.reports = {r \in app.reports : r.rev > saver[w].report.rev}
        BY <1>27, <3>2, <1>t DEF Reported, Lessons
      <4>2. saver[w].report.rev <= seen
        BY <1>27, <2>0, <3>2, <1>a DEF AnswersAreTrue, seen
      <4>3. saver[w].report.rev \in Nat /\ \A r \in app.reports : r.rev \in Nat
        BY <1>t, <2>0 DEF Typed, SavedTypes, Saves, Reports, NoReport
      <4> QED
        BY <1>v, <4>1, <4>2, <4>3
    <3> QED
      BY <3>1, <3>2
  <2> QED
    BY <1>27, <2>0, <2>1, <1>n, <1>x, <1>y
       DEF Reported, Sent, Made, Listing, Flushing, Telling
<1>28. CASE FlushSends
  <2>1. flush' \in app.reports /\ server.owner # Nobody
    BY <1>28, <1>k DEF FlushSends
  <2>2. Fresh(flush')
    BY <2>1, <1>t DEF Fresh, Seen
  <2>3. Sent
    BY <1>28, <2>2 DEF FlushSends, Sends, ReportRequest, Sent
  <2> QED
    BY <1>28, <2>2, <2>3, <1>s, <1>y DEF FlushSends, Made, Flushing
<1>29. CASE FlushAnswered
  <2>1. /\ app'.reports \subseteq app.reports
        /\ \A r \in app.reports : r \in app'.reports \/ r.rev <= seen
    <3>1. CASE ask["flush"] # "ok"
      BY <1>29, <3>1 DEF FlushAnswered
    <3>2. CASE ask["flush"] = "ok"
      <4>1. app'.reports = app.reports \ {flush}
        BY <1>29, <3>2, <1>t DEF FlushAnswered, Lessons
      <4>2. flush.rev <= seen
        BY <3>2 DEF DeliveryInv, AnswersAreTrue, seen
      <4> QED
        BY <4>1, <4>2
    <3> QED
      BY <3>1, <3>2
  <2> QED
    BY <1>29, <2>1, <1>n, <1>x, <1>y
       DEF FlushAnswered, Sent, Made, Listing, Flushing, Telling
<1>30. CASE UNCHANGED vars
  BY <1>30, <1>q, <1>y DEF vars
<1> QED
  BY <1>1, <1>2, <1>3, <1>4, <1>5, <1>6, <1>7, <1>8, <1>9, <1>10, <1>11, <1>12, <1>13,
     <1>14, <1>15, <1>16, <1>17, <1>18, <1>19, <1>20, <1>21, <1>22, <1>23, <1>24, <1>25,
     <1>26, <1>27, <1>28, <1>29, <1>30
     DEF Next, Device, Execute, Works

(***************************************************************************)
(* The invariant.                                                          *)
(***************************************************************************)
LEMMA DeliveryInit == Init => DeliveryInv
<1> SUFFICES ASSUME Init PROVE DeliveryInv
  OBVIOUS
<1>b. /\ MaxAttempts \in Nat \ {0} /\ MaxRevision \in Nat \ 0 .. 2 /\ MaxRestarts \in Nat
      /\ 0 \in Epochs /\ 1 \in 1 .. MaxAttempts
  BY DeliveryBoundsAssumption DEF Epochs
\* The lesson, one of three.
<1>l. /\ app \in Lessons /\ app.rev \in Nat /\ app.child \in Nat /\ app.attempts \in Nat
      /\ app.id = 0 /\ app.reports = {} /\ app.task = [n \in 1 .. MaxAttempts |-> 0]
      /\ \/ app = NoLesson /\ app.status = Absent /\ app.claim = "none" /\ app.child = 0
            /\ app.attempts = 0 /\ app.rev = 0
         \/ /\ app # NoLesson /\ app.status \in {"working", "resting"} /\ app.claim = "mine"
            /\ app.child \in {0, 1} /\ app.attempts = 1 /\ app.rev = 3
      /\ (app # NoLesson) => app.status # Absent
      /\ app = Started <=> app.status = "working"
  <2>1. app \in {NoLesson, Started, Rested} /\ app \in Lessons
    BY LessonTypes DEF Init
  <2>2. CASE app = NoLesson
    BY <2>1, <2>2 DEF NoLesson, Started, Absent
  <2>3. CASE app = Started
    BY <2>1, <2>3 DEF NoLesson, Started, Absent
  <2>4. CASE app = Rested
    BY <2>1, <2>4 DEF NoLesson, Started, Rested, Absent
  <2> QED
    BY <2>1, <2>2, <2>3, <2>4
<1> DEFINE steps == [n \in 1 .. MaxAttempts |->
                       IF n <= app.attempts THEN TaskOf(app, n) ELSE Nobody]
<1>s. /\ server.active = TRUE /\ server.status = app.status /\ server.steps = steps
      /\ server.owner = IF app = NoLesson THEN Nobody ELSE Identity(app)
      /\ server.report = IF app = NoLesson THEN NoReport ELSE Snapshot("work")
      /\ server = [active |-> TRUE, status |-> server.status, owner |-> server.owner,
                   report |-> server.report, steps |-> steps]
  BY DEF Init
<1>o. /\ wire = {} /\ journal = app /\ writes = << >> /\ flush = NoReport /\ restarts = 0
      /\ work = [pc |-> IF app = Started THEN "running" ELSE "idle", halt |-> "no"]
      /\ saver = [w \in Writers |-> NotSaving] /\ ask = [w \in Writers |-> "none"]
  BY DEF Init, Idle
<1>r. /\ app # NoLesson => Snapshot("work") \in Reports /\ Snapshot("work").rev = app.rev
                           /\ Snapshot("work").status = app.status
      /\ NoReport.rev = 0 /\ NotSaving.pc = "idle" /\ NotSaving.report = NoReport
  BY <1>b, <1>l DEF Snapshot, Reports, Statuses, NoReport, NotSaving, Absent
<1>i. Identity(app) \in Mine /\ Identity(app) # Nobody /\ Nobody.by # "me"
      /\ \A n \in 1 .. MaxAttempts : TaskOf(app, n) \in Mine
  BY <1>b, <1>l DEF Identity, Mine, Nobody, TaskOf
<1> HIDE DEF steps
<1>t. TypeOK
  <2>1. server \in [active : BOOLEAN, status : Statuses \cup {"received"},
                    owner : {Nobody, Other} \cup Mine, report : {NoReport} \cup Reports,
                    steps : [1 .. MaxAttempts -> {Nobody} \cup Mine]]
    <3>1. server.status \in Statuses
      BY <1>l, <1>s DEF Lessons
    <3>2. steps \in [1 .. MaxAttempts -> {Nobody} \cup Mine]
      BY <1>i DEF steps
    <3>3. server.owner \in {Nobody, Other} \cup Mine /\ server.report \in {NoReport} \cup Reports
      BY <1>s, <1>i, <1>r
    <3> QED
      BY <1>s, <3>1, <3>2, <3>3
  <2>2. saver \in [Writers -> [pc : {"idle", "saving", "storing", "sending"},
                               report : {NoReport} \cup Reports]]
    BY <1>o DEF NotSaving
  <2>3. ask \in [Writers -> {"none", "waiting", "ok", "mine", "theirs", "no"}]
    BY <1>o
  <2>4. work \in [pc : {"idle", "preparing", "identity", "starting", "looking",
                        "authorizing", "material", "attempt", "claiming", "lookingStep",
                        "running", "saving"},
                  halt : {"no", "resting", "stopped"}]
    BY <1>o
  <2> QED
    BY <2>1, <2>2, <2>3, <2>4, <1>o, <1>b, <1>l DEF TypeOK
<1>w. Wellformed
  BY <1>o, <1>l DEF Wellformed, Sound
<1>x. Waits
  <2>1. \A w \in Writers : ask[w] = "none" /\ saver[w] = NotSaving
    BY <1>o
  <2>2. work.pc \in {"idle", "running"} /\ (app.status = Absent => work = Idle)
    BY <1>o, <1>l DEF Idle, Absent
  <2>3. Asks
    BY <2>1, <2>2, <1>o, <1>r DEF Asks, Asking, Works, Writers
  <2>4. Blank
    BY <2>1, <2>2, <1>o, <1>l DEF Blank
  <2> QED
    BY <2>3, <2>4 DEF Waits
<1>1. /\ work.pc \in {"idle", "running"} /\ ask["flush"] = "none"
      /\ \A w \in Works : saver[w] = NotSaving
  BY <1>o DEF Works, Writers
<1>2. AnswersAreTrue
  <2>1. wire = {} /\ ask["flush"] # "ok"
    BY <1>o, <1>1
  <2>2. work.pc # "starting" /\ work.pc # "claiming"
    BY <1>1
  <2>3. \A w \in Works : saver[w].pc # "sending"
    BY <1>1, <1>r
  <2> QED
    BY <2>1, <2>2, <2>3 DEF AnswersAreTrue
<1>3. InOrder
  <2>1. Follows(app, app, seen)
    BY <1>l DEF Follows, Kept
  <2> QED
    BY <2>1, <1>o DEF InOrder
<1>4. Durable
  BY <1>1, <1>r DEF Durable
<1>5. \A n \in 1 .. MaxAttempts :
        /\ n <= app.attempts => server.steps[n] = TaskOf(app, n)
        /\ ~(n <= app.attempts) => server.steps[n] = Nobody
  BY <1>s DEF steps
<1>6. Claimed
  <2>1. server.owner.by = "me" => journal.status # Absent /\ server.owner = Identity(journal)
    BY <1>s, <1>o, <1>l, <1>i
  <2>2. ASSUME NEW n \in 1 .. MaxAttempts, server.steps[n] # Nobody
        PROVE  Holds(journal, n, server.steps[n])
    BY <2>2, <1>5, <1>o DEF Holds
  <2> QED
    BY <2>1, <2>2, <1>o DEF Claimed
<1>7. AllKnow
  <2>1. app.child # 0 => app.child = 1 /\ app.attempts = 1
    BY <1>l
  <2>2. app.child # 0 => server.steps[app.child] = TaskOf(app, app.child)
    BY <2>1, <1>5, <1>b
  <2>3. Knows(app, server)
    BY <2>2, <1>l, <1>s DEF Knows
  <2> QED
    BY <2>3, <1>o DEF AllKnow
<1>8. Seen
  <2>1. server.report # NoReport => app # NoLesson /\ server.report = Snapshot("work")
    BY <1>s
  <2>2. app # NoLesson => OfRevision(Snapshot("work"), app)
    BY <1>r, <1>l DEF OfRevision
  <2>3. app.claim = "mine" => app.rev <= seen
    BY <1>l, <1>s, <1>r DEF seen
  <2>4. server.report # NoReport => server.owner # Nobody
    BY <2>1, <1>s, <1>i
  <2>5. server.report # NoReport => server.status = server.report.status
    BY <2>1, <1>s, <1>r
  <2> QED
    BY <2>1, <2>2, <2>3, <2>4, <2>5, <1>1, <1>o, <1>l, <1>r DEF Seen
<1> QED
  BY <1>t, <1>w, <1>x, <1>2, <1>3, <1>4, <1>6, <1>7, <1>8 DEF DeliveryInv

\* Whatever is lost, late or repeated, and wherever the computer dies: the copies of
\* the lesson follow one another, and the server has nothing of this computer that is
\* not in the journal.
THEOREM DeliveryInvariant == Spec => []DeliveryInv
<1>1. DeliveryInv /\ [Next]_vars => DeliveryInv'
  <2> SUFFICES ASSUME DeliveryInv, [Next]_vars PROVE DeliveryInv'
    OBVIOUS
  <2>1. TypeOK'
    BY TypeStep, TypedLater
  <2>2. Waits'
    BY AsksStep, BlankStep DEF Waits
  <2> QED
    BY <2>1, <2>2, WellformedStep, AnswersAreTrueStep, InOrderStep, DurableStep,
       ClaimedStep, AllKnowStep, SeenStep DEF DeliveryInv
<1> QED
  BY <1>1, DeliveryInit, PTL DEF Spec

\* The type invariant.
THEOREM TypeCorrect == Spec => []TypeOK
<1>1. DeliveryInv => TypeOK
  BY DEF DeliveryInv
<1> QED
  BY <1>1, DeliveryInvariant, PTL

\* The lesson a computer takes for its own is its own, and it is never told that its
\* own is another computer's (ClassroomLessonController.start, start_lesson).
THEOREM ClaimIsRightHolds == Spec => []ClaimIsRight
<1>1. DeliveryInv => ClaimIsRight
  <2> SUFFICES ASSUME DeliveryInv PROVE ClaimIsRight
    OBVIOUS
  <2>1. app.claim = "mine" => server.owner = Identity(app)
    BY DEF DeliveryInv, AllKnow, Knows
  <2>2. ASSUME app.claim = "theirs", server.owner.by = "me" PROVE FALSE
    <3>1. app.status # Absent
      BY <2>2 DEF DeliveryInv, Wellformed, Sound, NoLesson
    <3>2. journal.status # Absent /\ server.owner = Identity(journal)
      BY <2>2 DEF DeliveryInv, Claimed
    <3>3. app.id = journal.id
      BY <3>1, <3>2 DEF DeliveryInv, InOrder, Follows
    <3> QED
      BY <2>2, <3>2, <3>3 DEF DeliveryInv, AllKnow, Knows, Identity
  <2> QED
    BY <2>1, <2>2 DEF ClaimIsRight
<1> QED
  BY <1>1, DeliveryInvariant, PTL

\* The task that runs for an attempt is the one the server has, and every task the
\* server has is in the journal (claimLessonChild, start_lesson_step).
THEOREM StepsAgreeHolds == Spec => []StepsAgree
<1>1. DeliveryInv => StepsAgree
  <2> SUFFICES ASSUME DeliveryInv PROVE StepsAgree
    OBVIOUS
  <2>1. app.child # 0 => server.steps[app.child] = TaskOf(app, app.child)
    BY DEF DeliveryInv, AllKnow, Knows
  <2>2. ASSUME NEW n \in 1 .. MaxAttempts, server.steps[n] # Nobody
        PROVE  journal.attempts >= n /\ server.steps[n] = TaskOf(journal, n)
    <3>1. Holds(journal, n, server.steps[n])
      BY <2>2 DEF DeliveryInv, Claimed
    <3>2. journal.attempts \in Nat
      BY DEF DeliveryInv, TypeOK, Lessons
    <3> QED
      BY <3>1, <3>2 DEF Holds
  <2> QED
    BY <2>1, <2>2 DEF StepsAgree
<1> QED
  BY <1>1, DeliveryInvariant, PTL

\* A report that persist has sent is in the journal until the server has it or a later
\* one (ClassroomLessonController.persist).
THEOREM ReportedIsDurableHolds == Spec => []ReportedIsDurable
<1>1. DeliveryInv => ReportedIsDurable
  BY DEF DeliveryInv, Claimed, Recorded, Kept, seen, ReportedIsDurable
<1> QED
  BY <1>1, DeliveryInvariant, PTL

\* Once nothing is being saved or waits to be reported, the teacher sees the lesson as
\* it is on its owner's computer (report_lesson, flushReports).
THEOREM SeenIsTrueHolds == Spec => []SeenIsTrue
<1>1. DeliveryInv => SeenIsTrue
  <2> SUFFICES ASSUME DeliveryInv, Quiet, app.claim = "mine", server.report.by # "other"
               PROVE  server.report.rev = app.rev /\ server.status = app.status
    BY DEF SeenIsTrue
  <2>1. app.rev \in Nat /\ server.report \in {NoReport} \cup Reports
    BY DEF DeliveryInv, TypeOK, Lessons
  <2>2. app.status # Absent /\ app.rev >= 1
    BY DEF DeliveryInv, Wellformed, Sound, NoLesson
  <2>3. app.rev <= server.report.rev
    BY DEF DeliveryInv, Seen, Quiet, Works, Writers, seen
  <2>4. server.report # NoReport
    BY <2>1, <2>2, <2>3 DEF NoReport
  <2>5. OfRevision(server.report, app) /\ server.status = server.report.status
    BY <2>4 DEF DeliveryInv, Seen, Quiet
  <2>6. server.report.rev \in Nat
    BY <2>1, <2>4 DEF Reports
  <2> QED
    BY <2>1, <2>3, <2>5, <2>6 DEF OfRevision
<1> QED
  BY <1>1, DeliveryInvariant, PTL
===============================================================================
