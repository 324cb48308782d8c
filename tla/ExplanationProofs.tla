---------------------------- MODULE ExplanationProofs ----------------------------
(***************************************************************************)
(* Proofs about Explanation, for any number of starts, requests, breaks    *)
(* and late requests.                                                      *)
(*                                                                         *)
(* Base is the invariant of the first theorems: the types, one write of    *)
(* each start in the queue, one claim and one restore under way, and who   *)
(* will free the device.  A device is a record of twelve fields and a step *)
(* is a composition of functions on devices, so each function has a lemma  *)
(* of facts first.                                                         *)
(***************************************************************************)
EXTENDS Explanation, TLAPS

(***************************************************************************)
(* The types of the fields of a device.                                    *)
(***************************************************************************)
Pcs == {"unused", "preparing", "writing", "claiming", "claimed", "lost", "round", "dispatching",
        "submitting", "creating", "undoing", "running", "failing", "done"}
StartStates == [pc : Pcs, stale : BOOLEAN]
Phases == {"none", "claiming", "claimed", "dispatching", "running", "unknown", "terminal"}
CoachPcs == {"off", "round", "consuming", "asking", "texting", "waiting"}
Cards == Ended \cup {"none", "starting", "working", "waiting"}
Holds == [reserved : BOOLEAN, route : BOOLEAN]
Tasks == {"none", "ready", "going", "over"}
CancelStates == [on : BOOLEAN, n : 0 .. MaxStarts, attached : BOOLEAN]
ReportPcs == {"idle", "storing", "sending", "clearing"}
ReportItems == [status : Statuses, n : Starts]
ReportStates == [queue : Seq(ReportItems), pc : ReportPcs, queued : Statuses \cup {"none"}]
RestoreStates == [pc : ReportPcs, j : Journals]
Callers == Cancels \cup {"start", "coach", "terminal", "report", "restore"}
Outcomes == Ended \cup {"none"}

\* A device is a record of these fields.
LEMMA DeviceIs ==
  Device = [disk : Journals, writes : Seq(Calls), obj : [Starts -> Journals], cur : 0 .. MaxStarts,
            start : [Starts -> StartStates], coach : CoachPcs, active : Cards, busy : Holds,
            task : Tasks, cancels : [Cancels -> CancelStates], reports : ReportStates,
            restore : RestoreStates]
  BY DEF Device, StartStates, Pcs, CoachPcs, Cards, Holds, Tasks, CancelStates, ReportPcs,
     ReportItems,
         ReportStates, RestoreStates

\* A journal has one of the phases, and a call of the queue carries a journal.
LEMMA JournalFacts ==
  /\ NoJournal \in Journals /\ NoJournal.phase = "none" /\ NoJournal.report = NoReport
  /\ \A j \in Journals : j.phase \in Phases /\ j.status \in Statuses /\ j.rev \in Nat
       /\ j.report \in [status : Statuses, rev : Nat] /\ j.asked \in 0 .. MaxRequests
  /\ \A w \in Calls : w.by \in Callers /\ w.n \in 0 .. MaxStarts /\ w.j \in Journals
       /\ w.status \in Outcomes
  /\ "absent" \in Statuses /\ Ended \subseteq Final /\ Final \subseteq Statuses
  /\ "none" \notin Statuses /\ {"accepted", "active"} \subseteq Statuses \ Final
  /\ Starts \subseteq 0 .. MaxStarts /\ 0 \notin Starts /\ \A n \in 0 .. MaxStarts : n # 0 => n \in Starts
  BY ExplanationBoundsAssumption
     DEF NoJournal, NoReport, Journals, Phases, Statuses, Final, Ended, Starts, Calls, Callers,
         Outcomes

\* The revision of a journal's next report.
LEMMA NextRevFacts ==
  ASSUME NEW j \in Journals
  PROVE  NextRev(j) \in Nat
<1>1. j.rev \in Nat /\ j.report.rev \in Nat
  BY JournalFacts
<1> QED
  BY <1>1 DEF NextRev

Fields == {"disk", "writes", "obj", "cur", "start", "coach", "active", "busy", "task", "cancels",
           "reports", "restore"}
\* Device e is d but for some fields.
Only(d, e, F) == \A f \in Fields \ F : e[f] = d[f]

(***************************************************************************)
(* The store's queue.                                                      *)
(***************************************************************************)
Elements(s) == {s[i] : i \in 1 .. Len(s)}
\* The calls in the queue, and those of some callers.
Queued(d) == Elements(d.writes)
Journaled(d) == {w \in Queued(d) : w.by \notin Cancels}
CallsBy(by) == {w \in Calls : w.by = by}
StartCalls(n) == {w \in Calls : w.by = "start" /\ w.n = n}

\* One call of a set at most is in a queue.
One(s, S) == \A i, j \in 1 .. Len(s) : s[i] \in S /\ s[j] \in S => i = j

\* A call joins the queue.
LEMMA AppendFacts ==
  ASSUME NEW s \in Seq(Calls), NEW w \in Calls, NEW t, t = Append(s, w)
  PROVE  /\ t \in Seq(Calls) /\ Elements(t) = Elements(s) \cup {w} /\ Elements(s) \subseteq Calls
         /\ \A S : One(s, S) /\ (w \notin S \/ \A x \in Elements(s) : x \notin S) => One(t, S)
<1>1. /\ t \in Seq(Calls) /\ Len(s) \in Nat /\ Len(t) = Len(s) + 1 /\ t[Len(s) + 1] = w
      /\ \A i \in 1 .. Len(s) : t[i] = s[i] /\ s[i] \in Calls
  OBVIOUS
<1>2. \A i \in 1 .. Len(t) : i \in 1 .. Len(s) \/ i = Len(s) + 1
  BY <1>1
<1>3. Elements(t) = Elements(s) \cup {w} /\ Elements(s) \subseteq Calls
  BY <1>1, <1>2 DEF Elements
<1>4. ASSUME NEW S, One(s, S), w \notin S \/ \A x \in Elements(s) : x \notin S
      PROVE  One(t, S)
  BY <1>1, <1>2, <1>4 DEF One, Elements
<1> QED
  BY <1>1, <1>3, <1>4

\* The first call leaves the queue.
LEMMA TailFacts ==
  ASSUME NEW s \in Seq(Calls), s # << >>
  PROVE  /\ Tail(s) \in Seq(Calls) /\ Head(s) \in Calls /\ Head(s) \in Elements(s)
         /\ Elements(Tail(s)) \subseteq Elements(s) /\ Elements(s) \subseteq Elements(Tail(s)) \cup {Head(s)}
         /\ \A S : One(s, S) =>
              One(Tail(s), S) /\ (Head(s) \in S => \A x \in Elements(Tail(s)) : x \notin S)
<1>1. /\ Tail(s) \in Seq(Calls) /\ Head(s) \in Calls /\ Head(s) = s[1] /\ Len(s) \in Nat \ {0}
      /\ Len(Tail(s)) = Len(s) - 1 /\ \A i \in 1 .. Len(s) - 1 : Tail(s)[i] = s[i + 1]
  OBVIOUS
<1>2. /\ 1 \in 1 .. Len(s) /\ \A i \in 1 .. Len(s) : i = 1 \/ i - 1 \in 1 .. Len(s) - 1
      /\ \A i \in 1 .. Len(s) - 1 : i + 1 \in 1 .. Len(s) /\ i + 1 # 1
      /\ \A i \in 1 .. Len(s) : (i - 1) + 1 = i
      /\ \A i, j \in 1 .. Len(s) - 1 : i + 1 = j + 1 => i = j
  BY <1>1
<1>3. Head(s) \in Elements(s) /\ Elements(Tail(s)) \subseteq Elements(s)
  BY <1>1, <1>2 DEF Elements
<1>4. Elements(s) \subseteq Elements(Tail(s)) \cup {Head(s)}
  <2> SUFFICES ASSUME NEW i \in 1 .. Len(s), i # 1
               PROVE  s[i] \in Elements(Tail(s))
    BY <1>1 DEF Elements
  <2>1. i - 1 \in 1 .. Len(Tail(s)) /\ Tail(s)[i - 1] = s[i]
    BY <1>1, <1>2
  <2> QED
    BY <2>1 DEF Elements
<1>5. ASSUME NEW S, One(s, S)
      PROVE  One(Tail(s), S) /\ (Head(s) \in S => \A x \in Elements(Tail(s)) : x \notin S)
  <2>1. One(Tail(s), S)
    BY <1>1, <1>2, <1>5 DEF One
  <2>2. ASSUME Head(s) \in S, NEW x \in Elements(Tail(s)), x \in S
        PROVE  FALSE
    <3>1. PICK i \in 1 .. Len(s) - 1 : x = s[i + 1]
      BY <1>1 DEF Elements
    <3> QED
      BY <1>1, <1>2, <1>5, <2>2, <3>1 DEF One
  <2> QED
    BY <2>1, <2>2
<1> QED
  BY <1>1, <1>3, <1>4, <1>5

(***************************************************************************)
(* A sound device: its calls, cards and reports name a start.              *)
(***************************************************************************)
Numbered(d) ==
  /\ \A w \in Queued(d) :
       /\ w.by \in {"start", "coach", "terminal", "report"} => w.n # 0
       /\ w.by = "terminal" => w.status # "none"
  /\ (d.active \notin Ended \cup {"none"} \/ d.coach # "off") => d.cur # 0

\* A call of a cancellation is in the queue only while the cancellation is on, and once.
Called(d) ==
  \A c \in {"stop", "leave"} :
    /\ (\E w \in Queued(d) : w.by = c) => d.cancels[c].on
    /\ One(d.writes, CallsBy(c))

\* One report at a time is stored, and it is the first of the report queue.
Reporting(d) ==
  /\ (\E w \in Queued(d) : w.by = "report") => d.reports.pc \in {"storing", "clearing"}
  /\ One(d.writes, CallsBy("report"))
  /\ d.reports.pc # "idle" => d.reports.queue # << >>

\* All of it.
Sound(d) == d \in Device /\ Numbered(d) /\ Called(d) /\ Reporting(d)

(***************************************************************************)
(* What the functions of Explanation do to a device.                       *)
(***************************************************************************)
\* The call that a write adds.
Entry(d, by, n, status) ==
  [by |-> by, n |-> n, status |-> status, j |-> IF n = 0 THEN NoJournal ELSE d.obj[n]]

\* What a call does to the queue.
LEMMA QueueFacts ==
  ASSUME NEW d \in Device, NEW by \in Callers, NEW n \in 0 .. MaxStarts, NEW status \in Outcomes
  PROVE  LET e == Queue(d, by, n, status) IN
         /\ e \in Device /\ Only(d, e, {"writes"})
         /\ Entry(d, by, n, status) \in Calls
         /\ e.writes = Append(d.writes, Entry(d, by, n, status))
<1> DEFINE e == Queue(d, by, n, status)
<1>1. (IF n = 0 THEN NoJournal ELSE d.obj[n]) \in Journals
  BY DeviceIs, JournalFacts
<1>2. Entry(d, by, n, status) \in Calls
  BY <1>1 DEF Calls, Callers, Entry, Outcomes
<1>3. Append(d.writes, Entry(d, by, n, status)) \in Seq(Calls)
  BY <1>2, DeviceIs
<1> QED
  BY <1>2, <1>3, DeviceIs DEF Queue, Entry, Only, Fields

\* What Queue adds keeps the device sound.
LEMMA QueueSound ==
  ASSUME NEW d, Sound(d), NEW by \in Callers, NEW n \in 0 .. MaxStarts, NEW status \in Outcomes,
         by \in {"start", "coach", "terminal", "report"} => n # 0,
         by = "terminal" => status # "none",
         by \in {"stop", "leave"} => d.cancels[by].on,
         by = "report" => d.reports.pc \in {"storing", "clearing"},
         by \in {"stop", "leave", "report"} => \A w \in Queued(d) : w.by # by
  PROVE  Sound(Queue(d, by, n, status))
<1> DEFINE e == Queue(d, by, n, status)
           w == Entry(d, by, n, status)
<1>t. d \in Device /\ d.writes \in Seq(Calls)
  BY DeviceIs DEF Sound
<1>1. e \in Device /\ Only(d, e, {"writes"}) /\ w \in Calls /\ e.writes = Append(d.writes, w)
  BY <1>t, QueueFacts
<1>2. w.by = by /\ w.n = n /\ w.status = status
  BY DEF Entry
<1>3. /\ Queued(e) = Queued(d) \cup {w} /\ Queued(d) \subseteq Calls
      /\ \A S : One(d.writes, S) /\ (w \notin S \/ \A x \in Queued(d) : x \notin S) => One(e.writes, S)
  <2> HIDE DEF e, w
  <2> QED
    BY <1>t, <1>1, AppendFacts DEF Queued
<1> HIDE DEF e, w
<1>4. Numbered(e)
  BY <1>1, <1>2, <1>3 DEF Sound, Numbered, Only, Fields
<1>5. Called(e)
  <2> SUFFICES ASSUME NEW c \in {"stop", "leave"}
               PROVE  /\ (\E x \in Queued(e) : x.by = c) => e.cancels[c].on
                      /\ One(e.writes, CallsBy(c))
    BY DEF Called
  <2>1. One(e.writes, CallsBy(c))
    BY <1>2, <1>3 DEF Sound, Called, CallsBy
  <2> QED
    BY <2>1, <1>1, <1>2, <1>3 DEF Sound, Called, Only, Fields
<1>6. Reporting(e)
  <2>1. One(e.writes, CallsBy("report"))
    BY <1>2, <1>3 DEF Sound, Reporting, CallsBy
  <2> QED
    BY <2>1, <1>1, <1>2, <1>3 DEF Sound, Reporting, Only, Fields
<1> QED
  BY <1>1, <1>4, <1>5, <1>6 DEF Sound, e

\* A device that differs in nothing which soundness is about.
LEMMA SoundStays ==
  ASSUME NEW d, NEW e, Sound(d), e \in Device,
         Only(d, e, {"disk", "obj", "start", "busy", "task", "restore", "coach", "active"}),
         (e.active \notin Ended \cup {"none"} \/ e.coach # "off") => d.cur # 0
  PROVE  Sound(e)
<1>1. e.writes = d.writes /\ e.cancels = d.cancels /\ e.reports = d.reports /\ e.cur = d.cur
  BY DEF Only, Fields
<1>2. Numbered(e)
  BY <1>1 DEF Sound, Numbered, Queued
<1>3. Called(e) /\ Reporting(e)
  BY <1>1 DEF Sound, Called, Reporting, Queued
<1> QED
  BY <1>2, <1>3 DEF Sound

\* The first call of the queue is done.
LEMMA LandedFacts ==
  ASSUME NEW d, Sound(d), d.writes # << >>
  PROVE  LET e == Landed(d) IN
         /\ Sound(e) /\ Only(d, e, {"disk", "writes"}) /\ e.writes = Tail(d.writes)
         /\ e.disk = IF Head(d.writes).by \in Cancels THEN d.disk ELSE Head(d.writes).j
         /\ Head(d.writes) \in Queued(d) /\ Head(d.writes) \in Calls
         /\ Queued(e) \subseteq Queued(d) /\ Queued(d) \subseteq Queued(e) \cup {Head(d.writes)}
         /\ \A S : One(d.writes, S) =>
              One(e.writes, S) /\ (Head(d.writes) \in S => \A x \in Queued(e) : x \notin S)
<1> DEFINE e == Landed(d)
<1>t. d \in Device /\ d.writes \in Seq(Calls)
  BY DeviceIs DEF Sound
<1>1. /\ Tail(d.writes) \in Seq(Calls) /\ Head(d.writes) \in Calls /\ Head(d.writes) \in Elements(d.writes)
      /\ Elements(Tail(d.writes)) \subseteq Elements(d.writes)
      /\ Elements(d.writes) \subseteq Elements(Tail(d.writes)) \cup {Head(d.writes)}
      /\ \A S : One(d.writes, S) =>
           /\ One(Tail(d.writes), S)
           /\ Head(d.writes) \in S => \A x \in Elements(Tail(d.writes)) : x \notin S
  BY <1>t, TailFacts
<1>2. Head(d.writes).j \in Journals
  BY <1>1, JournalFacts
<1>3. /\ e \in Device /\ Only(d, e, {"disk", "writes"}) /\ e.writes = Tail(d.writes)
      /\ e.disk = IF Head(d.writes).by \in Cancels THEN d.disk ELSE Head(d.writes).j
  BY <1>t, <1>1, <1>2, DeviceIs DEF Landed, Only, Fields
<1> HIDE DEF e
<1>4. /\ Queued(e) \subseteq Queued(d) /\ Queued(d) \subseteq Queued(e) \cup {Head(d.writes)}
      /\ Head(d.writes) \in Queued(d)
      /\ \A S : One(d.writes, S) =>
           /\ One(e.writes, S)
           /\ Head(d.writes) \in S => \A x \in Queued(e) : x \notin S
  BY <1>1, <1>3 DEF Queued
<1>5. Numbered(e) /\ Called(e) /\ Reporting(e)
  BY <1>3, <1>4 DEF Sound, Numbered, Called, Reporting, Only, Fields
<1>6. Sound(e)
  BY <1>3, <1>5 DEF Sound
<1> QED
  BY <1>1, <1>3, <1>4, <1>6 DEF e

(***************************************************************************)
(* Moves: what handlers do beside the starts and the restore.              *)
(***************************************************************************)
\* The starts that the device speaks of are in N.
Within(d, N) ==
  /\ d.cur \in N
  /\ \A n \in Starts : d.start[n].pc \in {"running", "undoing", "failing"} => n \in N
  /\ \A w \in Queued(d) : w.by \in {"coach", "terminal", "report"} => w.n \in N
  /\ \A r \in Elements(d.reports.queue) : r.n \in N
  /\ \A c \in {"stop", "leave"} : d.cancels[c].on => d.cancels[c].n \in N

\* A call to take a submission back is before every call of the coach.
UndoFirst(s) ==
  \E i \in 1 .. Len(s) : s[i].by = "undo" /\ \A k \in 1 .. Len(s) : s[k].by = "coach" => k > i

\* The journal of a new call is one that the device has, or one that is over.
Extra(d, w) ==
  /\ w.by \notin {"start", "restore"}
  /\ w.n = 0 => w.by \in Cancels /\ w.j.phase = "none"
  /\ w.n # 0 => w.by \notin Cancels /\ w.j.phase \in {d.obj[w.n].phase, "unknown", "terminal"}

\* Device e may follow d when a handler speaks of the starts of M.
Moves(d, e, M) ==
  /\ Only(d, e, {"writes", "obj", "coach", "active", "busy", "task", "cancels", "reports", "start"})
  /\ \A n \in Starts : e.start[n].pc = d.start[n].pc
  /\ \A n \in Starts :
       e.obj[n].phase = d.obj[n].phase \/ (n = d.cur /\ e.obj[n].phase \in {"unknown", "terminal"})
  /\ Queued(d) \subseteq Queued(e) /\ \A w \in Queued(e) : w \in Queued(d) \/ Extra(d, w)
  /\ \A S : (\A w \in S : w.by \in {"start", "restore"}) /\ One(d.writes, S) => One(e.writes, S)
  /\ \A N : Within(d, N) /\ M \subseteq N => Within(e, N)
  /\ UndoFirst(d.writes) => UndoFirst(e.writes)

\* Nothing of the device speaks of an end.
Plain(status) == status \notin Final
Quiet(d) ==
  /\ d.restore.pc = "idle"
  /\ \A r \in Elements(d.reports.queue) : Plain(r.status)
  /\ \A n \in Starts : Plain(d.obj[n].report.status)
  /\ \A w \in Queued(d) : w.by \notin {"terminal", "restore"}

\* Moves follow each other.
LEMMA MovesOn ==
  ASSUME NEW d, NEW e, NEW f, NEW M, Moves(d, e, M), Moves(e, f, M),
         \A w \in Queued(f) : w.n # 0 => w.n \in Starts
  PROVE  Moves(d, f, M)
<1>1. e.cur = d.cur
  BY DEF Moves, Only, Fields
<1>2. Only(d, f, {"writes", "obj", "coach", "active", "busy", "task", "cancels", "reports", "start"})
  BY DEF Moves, Only, Fields
<1>3. /\ \A n \in Starts : f.start[n].pc = d.start[n].pc
      /\ \A n \in Starts :
           f.obj[n].phase = d.obj[n].phase \/ (n = d.cur /\ f.obj[n].phase \in {"unknown", "terminal"})
  BY <1>1 DEF Moves
<1>4. \A w \in Queued(f) : w \in Queued(d) \/ Extra(d, w)
  <2> SUFFICES ASSUME NEW w \in Queued(f), w \notin Queued(d)
               PROVE  Extra(d, w)
    OBVIOUS
  <2>1. CASE w \in Queued(e)
    BY <2>1 DEF Moves
  <2>2. CASE w \notin Queued(e)
    <3>1. Extra(e, w)
      BY <2>2 DEF Moves
    <3>2. w.n # 0 => e.obj[w.n].phase \in {d.obj[w.n].phase, "unknown", "terminal"}
      BY DEF Moves
    <3> QED
      BY <3>1, <3>2 DEF Extra
  <2> QED
    BY <2>1, <2>2
<1>5. Queued(d) \subseteq Queued(f)
  BY DEF Moves
<1>6. \A S : (\A w \in S : w.by \in {"start", "restore"}) /\ One(d.writes, S) => One(f.writes, S)
  BY DEF Moves
<1>7. /\ \A N : Within(d, N) /\ M \subseteq N => Within(f, N)
      /\ UndoFirst(d.writes) => UndoFirst(f.writes)
  BY DEF Moves
<1> QED
  BY <1>2, <1>3, <1>4, <1>5, <1>6, <1>7 DEF Moves

\* A move that adds no call.
LEMMA StillMoves ==
  ASSUME NEW d, NEW e, NEW M,
         Only(d, e, {"obj", "coach", "active", "busy", "task", "cancels", "start", "reports"}),
         \A n \in Starts : e.start[n].pc = d.start[n].pc,
         \A n \in Starts : e.obj[n].phase = d.obj[n].phase
                             \/ (n = d.cur /\ e.obj[n].phase \in {"unknown", "terminal"}),
         \A N : Within(d, N) /\ M \subseteq N =>
           /\ \A r \in Elements(e.reports.queue) : r.n \in N
           /\ \A c \in {"stop", "leave"} : e.cancels[c].on => e.cancels[c].n \in N
  PROVE  Moves(d, e, M)
<1>1. e.writes = d.writes /\ e.cur = d.cur
  BY DEF Only, Fields
<1>2. \A N : Within(d, N) /\ M \subseteq N => Within(e, N)
  BY <1>1 DEF Within, Queued
<1>3. Only(d, e, {"writes", "obj", "coach", "active", "busy", "task", "cancels", "reports", "start"})
  BY DEF Only, Fields
<1> QED
  BY <1>1, <1>2, <1>3 DEF Moves, Queued

\* A write of the coach, a report, an end or a cancellation moves the device.
LEMMA QueueMoves ==
  ASSUME NEW d, d \in Device, NEW by \in Callers \ {"start", "restore"}, NEW n \in 0 .. MaxStarts,
         NEW status \in Outcomes, NEW M, n = 0 <=> by \in Cancels,
         n # 0 => \A N : Within(d, N) /\ M \subseteq N => n \in N
  PROVE  Moves(d, Queue(d, by, n, status), M)
<1> DEFINE e == Queue(d, by, n, status)
           w == Entry(d, by, n, status)
<1>t. d.writes \in Seq(Calls)
  BY DeviceIs
<1>1. e \in Device /\ Only(d, e, {"writes"}) /\ w \in Calls /\ e.writes = Append(d.writes, w)
  BY <1>t, QueueFacts
<1>2. /\ w.by = by /\ w.n = n
      /\ n = 0 => w.j = NoJournal
      /\ n # 0 => w.j = d.obj[n]
  BY DEF Entry
<1>3. /\ Queued(e) = Queued(d) \cup {w} /\ Queued(d) \subseteq Calls
      /\ \A S : One(d.writes, S) /\ (w \notin S \/ \A x \in Queued(d) : x \notin S) => One(e.writes, S)
  <2> HIDE DEF e, w
  <2> QED
    BY <1>t, <1>1, AppendFacts DEF Queued
<1>4. UndoFirst(d.writes) => UndoFirst(e.writes)
  <2> HIDE DEF e, w
  <2> QED
    BY <1>t, <1>1 DEF UndoFirst
<1> HIDE DEF e, w
<1>5. e.cur = d.cur /\ e.obj = d.obj /\ e.start = d.start /\ e.reports = d.reports /\ e.cancels = d.cancels
  BY <1>1 DEF Only, Fields
<1>6. Extra(d, w)
  BY <1>2, JournalFacts DEF Extra
<1>7. \A N : Within(d, N) /\ M \subseteq N => Within(e, N)
  BY <1>2, <1>3, <1>5, JournalFacts DEF Within, Cancels
<1>8. \A S : (\A x \in S : x.by \in {"start", "restore"}) /\ One(d.writes, S) => One(e.writes, S)
  BY <1>2, <1>3
<1>9. Only(d, e, {"writes", "obj", "coach", "active", "busy", "task", "cancels", "reports", "start"})
  BY <1>1 DEF Only, Fields
<1> QED
  BY <1>3, <1>4, <1>5, <1>6, <1>7, <1>8, <1>9 DEF Moves, e

\* The calls of a device are calls.
LEMMA QueuedFacts ==
  ASSUME NEW d \in Device
  PROVE  /\ d.writes \in Seq(Calls)
         /\ \A w \in Queued(d) : w \in Calls /\ (w.n # 0 => w.n \in Starts)
<1>1. d.writes \in Seq(Calls)
  BY DeviceIs
<1>2. \A i \in 1 .. Len(d.writes) : d.writes[i] \in Calls
  BY <1>1
<1> QED
  BY <1>1, <1>2, JournalFacts DEF Queued, Elements

(***************************************************************************)
(* The report queue.                                                       *)
(***************************************************************************)
\* The reports that are queued, and how a queue changes.
LEMMA ReportQueueFacts ==
  ASSUME NEW q \in Seq(ReportItems)
  PROVE  /\ \A r \in Elements(q) : r \in ReportItems
         /\ q # << >> => Head(q) \in Elements(q) /\ Tail(q) \in Seq(ReportItems)
                           /\ Elements(Tail(q)) \subseteq Elements(q)
         /\ \A r \in ReportItems : Append(q, r) \in Seq(ReportItems) /\ Append(q, r) # << >>
                           /\ Elements(Append(q, r)) = Elements(q) \cup {r}
<1>1. \A r \in Elements(q) : r \in ReportItems
  BY DEF Elements
<1>2. ASSUME q # << >>
      PROVE  /\ Head(q) \in Elements(q) /\ Tail(q) \in Seq(ReportItems)
             /\ Elements(Tail(q)) \subseteq Elements(q)
  <2>1. /\ Tail(q) \in Seq(ReportItems) /\ Head(q) = q[1] /\ Len(q) \in Nat \ {0}
        /\ Len(Tail(q)) = Len(q) - 1 /\ \A i \in 1 .. Len(q) - 1 : Tail(q)[i] = q[i + 1]
    BY <1>2
  <2>2. 1 \in 1 .. Len(q) /\ \A i \in 1 .. Len(q) - 1 : i + 1 \in 1 .. Len(q)
    BY <2>1
  <2> QED
    BY <2>1, <2>2 DEF Elements
<1>3. ASSUME NEW r \in ReportItems
      PROVE  /\ Append(q, r) \in Seq(ReportItems) /\ Append(q, r) # << >>
             /\ Elements(Append(q, r)) = Elements(q) \cup {r}
  <2> DEFINE t == Append(q, r)
  <2>1. /\ t \in Seq(ReportItems) /\ Len(q) \in Nat /\ Len(t) = Len(q) + 1 /\ t[Len(q) + 1] = r
        /\ \A i \in 1 .. Len(q) : t[i] = q[i]
    OBVIOUS
  <2>2. \A i \in 1 .. Len(t) : i \in 1 .. Len(q) \/ i = Len(q) + 1
    BY <2>1
  <2> HIDE DEF t
  <2>3. Elements(t) = Elements(q) \cup {r} /\ t # << >>
    BY <2>1, <2>2 DEF Elements
  <2> QED
    BY <2>1, <2>3 DEF t
<1> QED
  BY <1>1, <1>2, <1>3

\* A journal with another phase.
LEMMA PhaseGiven ==
  ASSUME NEW j \in Journals, NEW p \in Phases, NEW k, k = [j EXCEPT !.phase = p]
  PROVE  k \in Journals /\ k.phase = p /\ k.status = j.status /\ k.report = j.report
  BY DEF Journals, Phases

\* A journal with another report.
LEMMA ReportGiven ==
  ASSUME NEW j \in Journals, NEW r \in [status : Statuses, rev : Nat], NEW k,
         k = [j EXCEPT !.report = r]
  PROVE  k \in Journals /\ k.report = r /\ k.phase = j.phase /\ k.status = j.status
  BY DEF Journals

\* A journal with a text.
LEMMA TextGiven ==
  ASSUME NEW j \in Journals, NEW k, k = [j EXCEPT !.text = TRUE]
  PROVE  k \in Journals /\ k.report = j.report /\ k.phase = j.phase /\ k.status = j.status
  BY DEF Journals

\* A journal with another count of requests.
LEMMA CountGiven ==
  ASSUME NEW j \in Journals, NEW k, NEW a \in 0 .. MaxRequests, k = [j EXCEPT !.asked = a]
  PROVE  k \in Journals /\ k.report = j.report /\ k.phase = j.phase /\ k.status = j.status
  BY DEF Journals

\* A device in which the journal of one start is another.
Given(d, n, j) == [d EXCEPT !.obj[n] = j]

\* Such a journal keeps the device sound.
LEMMA GivenFacts ==
  ASSUME NEW d \in Device, NEW n \in Starts, NEW j \in Journals
  PROVE  LET e == Given(d, n, j) IN
         /\ e \in Device /\ Only(d, e, {"obj"}) /\ e.obj[n] = j
         /\ \A m \in Starts : m # n => e.obj[m] = d.obj[m]
<1>1. d.obj \in [Starts -> Journals]
  BY DeviceIs
<1>2. [d.obj EXCEPT ![n] = j] \in [Starts -> Journals]
  BY <1>1
<1> QED
  BY <1>1, <1>2, DeviceIs DEF Given, Only, Fields

\* The first report of the queue is saved.
LEMMA ReportBeginsFacts ==
  ASSUME NEW d, Sound(d)
  PROVE  LET e == ReportBegins(d) IN
         /\ Sound(e) /\ (\A M : Moves(d, e, M)) /\ Only(d, e, {"obj", "reports", "writes"})
         /\ (Quiet(d) => Quiet(e)) /\ e.reports.queue = d.reports.queue
         /\ e.reports.queued = d.reports.queued
         /\ d.reports.pc # "idle" => e.reports.pc = d.reports.pc
         /\ e.reports.pc # "sending" \/ d.reports.pc = "sending"
<1> DEFINE r == Head(d.reports.queue)
           report == [status |-> r.status, rev |-> NextRev(d.obj[r.n])]
           g == Given(d, r.n, [d.obj[r.n] EXCEPT !.report = report])
           m == [g EXCEPT !.reports.pc = "storing"]
<1>t. d \in Device /\ d.reports \in ReportStates /\ d.obj \in [Starts -> Journals]
  BY DeviceIs DEF Sound
<1>1. CASE d.reports.pc # "idle" \/ d.reports.queue = << >>
  <2>1. ReportBegins(d) = d
    BY <1>1 DEF ReportBegins
  <2>2. \A M : Moves(d, d, M)
    BY StillMoves DEF Only, Fields, Within
  <2> QED
    BY <2>1, <2>2 DEF Only, Fields
<1>2. CASE ~(d.reports.pc # "idle" \/ d.reports.queue = << >>)
  <2>2. r \in ReportItems /\ r \in Elements(d.reports.queue)
    BY <1>t, <1>2, ReportQueueFacts DEF ReportStates
  <2>3. r.n \in Starts /\ r.status \in Statuses
    BY <2>2 DEF ReportItems
  <2>4. report \in [status : Statuses, rev : Nat] /\ report.status = r.status
    <3>0. d.obj[r.n] \in Journals
      BY <1>t, <2>3
    <3>2. NextRev(d.obj[r.n]) \in Nat
      BY <3>0, NextRevFacts
    <3> QED
      BY <3>2, <2>3
  <2>1. ReportBegins(d) = Write(m, "report", r.n)
    <3>1. [d EXCEPT !.obj[r.n].report = report, !.reports.pc = "storing"] = m
      BY <1>t, <2>3, DeviceIs DEF Given
    <3> QED
      BY <1>2, <3>1 DEF ReportBegins
  <2> HIDE DEF report, r
  <2>5. /\ g \in Device /\ Only(d, g, {"obj"})
        /\ \A n \in Starts : g.obj[n].phase = d.obj[n].phase
        /\ \A n \in Starts : g.obj[n].report \in {d.obj[n].report, report}
    <3>1. d.obj[r.n] \in Journals
      BY <1>t, <2>3
    <3> DEFINE j == [d.obj[r.n] EXCEPT !.report = report]
    <3>2. j \in Journals /\ j.phase = d.obj[r.n].phase /\ j.report = report
      BY <2>4, <3>1, ReportGiven
    <3> HIDE DEF j
    <3>3. /\ Given(d, r.n, j) \in Device /\ Only(d, Given(d, r.n, j), {"obj"})
          /\ Given(d, r.n, j).obj[r.n] = j
          /\ \A n \in Starts : n # r.n => Given(d, r.n, j).obj[n] = d.obj[n]
      BY <1>t, <2>3, <3>2, GivenFacts
    <3> QED
      BY <3>2, <3>3 DEF j
  <2> HIDE DEF g
  <2>6. /\ m \in Device /\ Only(g, m, {"reports"})
        /\ m.reports.pc = "storing" /\ m.reports.queue = d.reports.queue
        /\ m.reports.queued = d.reports.queued
    <3>1. g.reports = d.reports
      BY <2>5 DEF Only, Fields
    <3>2. [d.reports EXCEPT !.pc = "storing"] \in ReportStates
      BY <1>t DEF ReportStates, ReportPcs
    <3>3. m = [g EXCEPT !.reports = [d.reports EXCEPT !.pc = "storing"]]
      BY <2>5, <3>1, DeviceIs
    <3> QED
      BY <1>t, <2>5, <3>1, <3>2, <3>3, DeviceIs DEF Only, Fields, ReportStates
  <2> HIDE DEF m
  <2>7. Only(d, m, {"obj", "reports"}) /\ m.obj = g.obj
    BY <2>5, <2>6 DEF Only, Fields
  <2>8. \A w \in Queued(d) : w.by # "report"
    BY <1>2 DEF Sound, Reporting
  <2>9. Sound(m) /\ Queued(m) = Queued(d)
    <3>1. /\ m.writes = d.writes /\ m.cancels = d.cancels /\ m.active = d.active
          /\ m.coach = d.coach /\ m.cur = d.cur
      BY <2>7 DEF Only, Fields
    <3> QED
      BY <3>1, <1>2, <2>6, <2>8 DEF Sound, Numbered, Called, Reporting, Queued
  <2>10. \A M : Moves(d, m, M)
    BY <2>5, <2>6, <2>7, StillMoves DEF Only, Fields, Within
  <2>11. \A N : Within(m, N) => r.n \in N
    BY <2>2, <2>6 DEF Within
  <2> DEFINE e == Write(m, "report", r.n)
             x == Entry(m, "report", r.n, "none")
  <2>12. r.n \in 0 .. MaxStarts /\ r.n # 0 /\ "report" \in Callers \ {"start", "restore"}
         /\ "report" \notin Cancels /\ "none" \in Outcomes
    BY <2>3, JournalFacts DEF Callers, Cancels, Outcomes
  <2>13. Sound(e) /\ \A M : Moves(m, e, M)
    BY <2>6, <2>8, <2>9, <2>11, <2>12, QueueSound, QueueMoves DEF Write
  <2>14. Only(m, e, {"writes"}) /\ e.writes = Append(m.writes, x) /\ x \in Calls /\ x.by = "report"
    BY <2>6, <2>12, QueueFacts DEF Write, Entry
  <2> HIDE DEF e, x
  <2>15. Queued(e) = Queued(d) \cup {x}
    <3>1. m.writes \in Seq(Calls)
      BY <2>6, DeviceIs
    <3> QED
      BY <3>1, <2>9, <2>14, AppendFacts DEF Queued
  <2>16. \A M : Moves(d, e, M)
    BY <2>10, <2>13, MovesOn, QueuedFacts DEF Sound
  <2>17. Only(d, e, {"obj", "reports", "writes"}) /\ e.reports = m.reports /\ e.obj = g.obj
    BY <2>7, <2>14 DEF Only, Fields
  <2>18. Quiet(d) => Quiet(e)
    <3>1. e.restore = d.restore
      BY <2>17 DEF Only, Fields
    <3> QED
      BY <3>1, <2>2, <2>4, <2>5, <2>6, <2>14, <2>15, <2>17 DEF Quiet
  <2> QED
    BY <1>2, <2>1, <2>6, <2>13, <2>16, <2>17, <2>18 DEF e
<1> QED
  BY <1>1, <1>2

\* A report is queued, and perhaps saved at once.
LEMMA ToldFacts ==
  ASSUME NEW d, Sound(d), NEW status \in Statuses, NEW n \in Starts
  PROVE  LET e == Told(d, status, n) IN
         /\ Sound(e) /\ Moves(d, e, {n}) /\ Only(d, e, {"obj", "reports", "writes"})
         /\ (Quiet(d) /\ Plain(status) => Quiet(e))
         /\ d.reports.pc # "idle" => e.reports.pc = d.reports.pc
         /\ e.reports.pc # "sending" \/ d.reports.pc = "sending"
<1> DEFINE r == [status |-> status, n |-> n]
           m == [d EXCEPT !.reports.queue = Append(@, r), !.reports.queued = status]
<1>t. d \in Device /\ d.reports \in ReportStates
  BY DeviceIs DEF Sound
<1>1. CASE Told(d, status, n) = d
  <2>1. Moves(d, d, {n})
    BY StillMoves DEF Only, Fields, Within
  <2> QED
    BY <1>1, <2>1 DEF Only, Fields
<1>2. CASE Told(d, status, n) # d
  <2>1. Told(d, status, n) = ReportBegins(m)
    BY <1>2 DEF Told
  <2>2. r \in ReportItems /\ r.status = status /\ r.n = n
    BY DEF ReportItems
  <2> HIDE DEF r
  <2> DEFINE q == Append(d.reports.queue, r)
  <2>3. q \in Seq(ReportItems) /\ q # << >> /\ Elements(q) = Elements(d.reports.queue) \cup {r}
    BY <1>t, <2>2, ReportQueueFacts DEF ReportStates
  <2>4. /\ m \in Device /\ Only(d, m, {"reports"}) /\ m.reports.queue = q
        /\ m.reports.pc = d.reports.pc
    <3>1. m = [d EXCEPT !.reports = [d.reports EXCEPT !.queue = q, !.queued = status]]
      BY <1>t, DeviceIs
    <3> HIDE DEF q
    <3>2. [d.reports EXCEPT !.queue = q, !.queued = status] \in ReportStates
      BY <1>t, <2>3 DEF ReportStates
    <3> HIDE DEF m
    <3>3. m \in Device /\ Only(d, m, {"reports"})
      BY <1>t, <3>1, <3>2, DeviceIs DEF Only, Fields
    <3>4. m.reports = [d.reports EXCEPT !.queue = q, !.queued = status]
      BY <1>t, <3>1, DeviceIs
    <3> QED
      BY <1>t, <3>3, <3>4 DEF ReportStates
  <2> HIDE DEF m, q
  <2>5. Sound(m)
    <3>1. /\ m.writes = d.writes /\ m.cancels = d.cancels /\ m.active = d.active
          /\ m.coach = d.coach /\ m.cur = d.cur
      BY <2>4 DEF Only, Fields
    <3> QED
      BY <3>1, <2>3, <2>4 DEF Sound, Numbered, Called, Reporting, Queued
  <2>6. Moves(d, m, {n})
    <3>1. m.start = d.start /\ m.obj = d.obj /\ m.cancels = d.cancels
      BY <2>4 DEF Only, Fields
    <3>2. \A N : Within(d, N) /\ {n} \subseteq N =>
            /\ \A x \in Elements(m.reports.queue) : x.n \in N
            /\ \A c \in {"stop", "leave"} : m.cancels[c].on => m.cancels[c].n \in N
      BY <2>2, <2>3, <2>4, <3>1 DEF Within
    <3>3. Only(d, m, {"obj", "coach", "active", "busy", "task", "cancels", "start", "reports"})
      BY <2>4 DEF Only, Fields
    <3> QED
      BY <3>1, <3>2, <3>3, StillMoves
  <2>7. Quiet(d) /\ Plain(status) => Quiet(m)
    <3>1. m.obj = d.obj /\ m.writes = d.writes /\ m.restore = d.restore
      BY <2>4 DEF Only, Fields
    <3> QED
      BY <3>1, <2>2, <2>3, <2>4 DEF Quiet, Queued
  <2> DEFINE e == ReportBegins(m)
  <2>8. /\ Sound(e) /\ Moves(m, e, {n}) /\ Only(m, e, {"obj", "reports", "writes"})
        /\ Quiet(m) => Quiet(e)
        /\ m.reports.pc # "idle" => e.reports.pc = m.reports.pc
        /\ e.reports.pc # "sending" \/ m.reports.pc = "sending"
    BY <2>5, ReportBeginsFacts
  <2> HIDE DEF e
  <2>9. Moves(d, e, {n})
    BY <2>6, <2>8, MovesOn, QueuedFacts DEF Sound
  <2>10. Only(d, e, {"obj", "reports", "writes"})
    BY <2>4, <2>8 DEF Only, Fields
  <2> QED
    BY <2>1, <2>4, <2>7, <2>8, <2>9, <2>10 DEF e
<1> QED
  BY <1>1, <1>2

\* A start's journal in another phase.
LEMMA PhaseFacts ==
  ASSUME NEW d \in Device, NEW n \in Starts, NEW p \in Phases
  PROVE  LET e == Phase(d, n, p) IN
         /\ e \in Device /\ Only(d, e, {"obj"}) /\ e.obj[n].phase = p
         /\ e.obj[n].report = d.obj[n].report /\ e.obj[n].status = d.obj[n].status
         /\ \A m \in Starts : m # n => e.obj[m] = d.obj[m]
<1> DEFINE j == [d.obj[n] EXCEPT !.phase = p]
<1>1. d.obj[n] \in Journals
  BY DeviceIs
<1>2. j \in Journals /\ j.phase = p /\ j.report = d.obj[n].report /\ j.status = d.obj[n].status
  BY <1>1, PhaseGiven
<1>3. Phase(d, n, p) = Given(d, n, j)
  BY DeviceIs DEF Phase, Given
<1> HIDE DEF j
<1> QED
  BY <1>2, <1>3, GivenFacts

\* The card, the journal and its write, when the coach has ended.
LEMMA TerminalFacts ==
  ASSUME NEW d, Sound(d), NEW status \in Ended, d.active # "none" => d.cur # 0
  PROVE  LET e == Terminal(d, status) IN
         /\ Sound(e) /\ (\A M : Moves(d, e, M)) /\ Only(d, e, {"active", "obj", "writes"})
         /\ e.active = IF d.active = "none" THEN "none" ELSE status
<1> DEFINE p == IF status = "unknown" THEN "unknown" ELSE "terminal"
           a == [d EXCEPT !.active = status]
           g == Phase(a, d.cur, p)
           e == Queue(g, "terminal", d.cur, status)
<1>t. d \in Device
  BY DEF Sound
<1>1. CASE d.active = "none"
  <2>1. Terminal(d, status) = d
    BY <1>1 DEF Terminal
  <2>2. \A M : Moves(d, d, M)
    BY StillMoves DEF Only, Fields, Within
  <2> QED
    BY <1>1, <2>1, <2>2 DEF Only, Fields
<1>2. CASE d.active # "none"
  <2>1. Terminal(d, status) = e
    BY <1>2 DEF Terminal
  <2>2. d.cur \in Starts /\ d.cur # 0 /\ d.cur \in 0 .. MaxStarts
    BY <1>t, <1>2, DeviceIs, JournalFacts
  <2>3. p \in Phases /\ p \in {"unknown", "terminal"}
    BY DEF Phases
  <2>4. /\ "terminal" \in Callers \ {"start", "restore"} /\ "terminal" \notin Cancels
        /\ status \in Outcomes /\ status \in Cards /\ status # "none"
    BY DEF Callers, Cancels, Outcomes, Cards, Ended
  <2>5. a \in Device /\ Only(d, a, {"active"}) /\ a.active = status
    BY <1>t, <2>4, DeviceIs DEF Only, Fields
  <2> HIDE DEF p, a
  <2>6. /\ g \in Device /\ Only(a, g, {"obj"}) /\ g.obj[d.cur].phase = p
        /\ \A m \in Starts : m # d.cur => g.obj[m] = a.obj[m]
    BY <2>2, <2>3, <2>5, PhaseFacts
  <2> HIDE DEF g
  <2>7. Only(d, g, {"obj", "active"}) /\ a.obj = d.obj /\ g.active = status
    BY <2>5, <2>6 DEF Only, Fields
  <2>8. Sound(g)
    <3>1. Only(d, g, {"disk", "obj", "start", "busy", "task", "restore", "coach", "active"})
      BY <2>7 DEF Only, Fields
    <3> QED
      BY <2>2, <2>6, <3>1, SoundStays
  <2>9. \A M : Moves(d, g, M)
    <3>1. /\ Only(d, g, {"obj", "coach", "active", "busy", "task", "cancels", "start", "reports"})
          /\ g.start = d.start /\ g.reports = d.reports /\ g.cancels = d.cancels
      BY <2>7 DEF Only, Fields
    <3>2. \A n \in Starts : g.obj[n].phase = d.obj[n].phase
                              \/ (n = d.cur /\ g.obj[n].phase \in {"unknown", "terminal"})
      BY <2>3, <2>6, <2>7
    <3> QED
      BY <3>1, <3>2, StillMoves DEF Within
  <2>10. \A N : Within(g, N) => d.cur \in N
    BY <2>7 DEF Within, Only, Fields
  <2>11. Sound(e) /\ (\A M : Moves(g, e, M)) /\ Only(g, e, {"writes"})
    BY <2>2, <2>4, <2>6, <2>8, <2>10, QueueSound, QueueMoves, QueueFacts
  <2> HIDE DEF e
  <2>12. \A M : Moves(d, e, M)
    BY <2>9, <2>11, MovesOn, QueuedFacts DEF Sound
  <2>13. Only(d, e, {"active", "obj", "writes"}) /\ e.active = status
    BY <2>7, <2>11 DEF Only, Fields
  <2> QED
    BY <1>2, <2>1, <2>11, <2>12, <2>13
<1> QED
  BY <1>1, <1>2

\* A device of which only the coach, the card and the task change.
LEMMA LightFacts ==
  ASSUME NEW d, NEW e, Sound(d), e \in Device, Only(d, e, {"coach", "active", "busy", "task"}),
         (e.active \notin Ended \cup {"none"} \/ e.coach # "off") => d.cur # 0
  PROVE  Sound(e) /\ (\A M : Moves(d, e, M)) /\ (Quiet(d) => Quiet(e))
<1>1. /\ Only(d, e, {"disk", "obj", "start", "busy", "task", "restore", "coach", "active"})
      /\ Only(d, e, {"obj", "coach", "active", "busy", "task", "cancels", "start", "reports"})
      /\ e.start = d.start /\ e.reports = d.reports /\ e.cancels = d.cancels /\ e.obj = d.obj
      /\ e.restore = d.restore /\ e.writes = d.writes
  BY DEF Only, Fields
<1>2. Sound(e)
  BY <1>1, SoundStays
<1>3. \A M : Moves(d, e, M)
  BY <1>1, StillMoves DEF Within
<1>4. Quiet(d) => Quiet(e)
  BY <1>1 DEF Quiet, Queued
<1> QED
  BY <1>2, <1>3, <1>4

\* The coach ends by itself.
LEMMA EndsFacts ==
  ASSUME NEW d, Sound(d), NEW status \in Ended, d.active # "none" => d.cur # 0
  PROVE  LET e == Ends(d, status) IN
         /\ Sound(e) /\ (\A M : Moves(d, e, M))
         /\ Only(d, e, {"active", "obj", "writes", "coach", "busy", "task"})
         /\ e.coach = "off" /\ e.busy = Free /\ e.task = "over"
         /\ e.active = IF d.active = "none" THEN "none" ELSE status
<1> DEFINE a == [d EXCEPT !.coach = "off", !.busy = Free, !.task = "over"]
           e == Terminal(a, status)
<1>t. d \in Device
  BY DEF Sound
<1>1. /\ a \in Device /\ Only(d, a, {"coach", "active", "busy", "task"}) /\ a.active = d.active
      /\ a.coach = "off" /\ a.busy = Free /\ a.task = "over" /\ a.cur = d.cur
  BY <1>t, DeviceIs DEF Only, Fields, Free, Holds, Tasks, CoachPcs
<1>2. Ends(d, status) = e
  BY DEF Ends
<1> HIDE DEF a
<1>3. Sound(a) /\ \A M : Moves(d, a, M)
  BY <1>1, LightFacts DEF Sound, Numbered
<1>4. /\ Sound(e) /\ (\A M : Moves(a, e, M)) /\ Only(a, e, {"active", "obj", "writes"})
      /\ e.active = IF a.active = "none" THEN "none" ELSE status
  BY <1>1, <1>3, TerminalFacts
<1> HIDE DEF e
<1>5. \A M : Moves(d, e, M)
  BY <1>3, <1>4, MovesOn, QueuedFacts DEF Sound
<1>6. /\ Only(d, e, {"active", "obj", "writes", "coach", "busy", "task"})
      /\ e.coach = "off" /\ e.busy = Free /\ e.task = "over"
  BY <1>1, <1>4 DEF Only, Fields
<1> QED
  BY <1>1, <1>2, <1>4, <1>5, <1>6

\* The coach is told, if the task is routed to it.
LEMMA AbortedFacts ==
  ASSUME NEW d, Sound(d)
  PROVE  LET e == Aborted(d) IN
         /\ Sound(e) /\ (\A M : Moves(d, e, M)) /\ (Quiet(d) => Quiet(e)) /\ Only(d, e, {"coach"})
         /\ e.coach = IF d.busy.route THEN "off" ELSE d.coach
<1> DEFINE e == Aborted(d)
<1>t. d \in Device
  BY DEF Sound
<1>1. /\ e \in Device /\ Only(d, e, {"coach"}) /\ e.coach = IF d.busy.route THEN "off" ELSE d.coach
  BY <1>t, DeviceIs DEF Aborted, Only, Fields, CoachPcs
<1> HIDE DEF e
<1>2. Only(d, e, {"coach", "active", "busy", "task"}) /\ e.active = d.active
  BY <1>1 DEF Only, Fields
<1>3. Sound(e) /\ (\A M : Moves(d, e, M)) /\ (Quiet(d) => Quiet(e))
  BY <1>1, <1>2, LightFacts DEF Sound, Numbered
<1> QED
  BY <1>1, <1>3 DEF e

\* The task is cancelled.
LEMMA TaskCancelledFacts ==
  ASSUME NEW d, Sound(d)
  PROVE  LET e == TaskCancelled(d) IN
         /\ Sound(e) /\ (\A M : Moves(d, e, M))
         /\ Only(d, e, {"active", "obj", "writes", "coach", "busy", "task"})
         /\ e.coach = IF d.busy.route THEN "off" ELSE d.coach
         /\ ~e.busy.route /\ e.busy.reserved = d.busy.reserved /\ e.task = "over"
         /\ e.active = "none" <=> d.active = "none"
         /\ e.active \in {d.active, "cancelled"}
<1> DEFINE a == Aborted(d)
           b == [a EXCEPT !.busy.route = FALSE, !.task = "over"]
           e == Terminal(b, "cancelled")
<1>1. /\ Sound(a) /\ (\A M : Moves(d, a, M)) /\ Only(d, a, {"coach"})
      /\ a.coach = IF d.busy.route THEN "off" ELSE d.coach
  BY AbortedFacts
<1>2. a \in Device /\ a.busy \in Holds /\ a.busy = d.busy /\ a.active = d.active /\ a.cur = d.cur
  BY <1>1, DeviceIs DEF Sound, Only, Fields
<1> HIDE DEF a
<1>3. /\ b \in Device /\ Only(a, b, {"coach", "active", "busy", "task"})
      /\ b.active = d.active /\ b.coach = a.coach /\ b.cur = d.cur
      /\ ~b.busy.route /\ b.busy.reserved = d.busy.reserved /\ b.task = "over"
  <2>1. b = [a EXCEPT !.busy = [a.busy EXCEPT !.route = FALSE], !.task = "over"]
    BY <1>2, DeviceIs
  <2>2. /\ [a.busy EXCEPT !.route = FALSE] \in Holds /\ ~[a.busy EXCEPT !.route = FALSE].route
        /\ [a.busy EXCEPT !.route = FALSE].reserved = d.busy.reserved
    BY <1>2 DEF Holds
  <2> HIDE DEF b
  <2> QED
    BY <1>2, <2>1, <2>2, DeviceIs DEF Only, Fields, Tasks
<1>4. TaskCancelled(d) = IF d.active \in Ended \cup {"none"} THEN b ELSE e
  BY DEF TaskCancelled, a
<1> HIDE DEF b
<1>5. Sound(b) /\ \A M : Moves(a, b, M)
  BY <1>1, <1>3, <1>2, LightFacts DEF Sound, Numbered
<1>6. \A M : Moves(d, b, M)
  BY <1>1, <1>5, MovesOn, QueuedFacts DEF Sound
<1>7. Only(d, b, {"coach", "busy", "task"})
  BY <1>1, <1>3 DEF Only, Fields
<1>8. CASE d.active \in Ended \cup {"none"}
  <2>1. Only(d, b, {"active", "obj", "writes", "coach", "busy", "task"})
    BY <1>7 DEF Only, Fields
  <2> QED
    BY <1>1, <1>3, <1>4, <1>5, <1>6, <1>8, <2>1
<1>9. CASE d.active \notin Ended \cup {"none"}
  <2>1. b.cur # 0 /\ "cancelled" \in Ended
    BY <1>3, <1>5, <1>9 DEF Sound, Numbered, Ended
  <2>2. /\ Sound(e) /\ (\A M : Moves(b, e, M)) /\ Only(b, e, {"active", "obj", "writes"})
        /\ e.active = "cancelled"
    BY <1>3, <1>5, <1>9, <2>1, TerminalFacts
  <2> HIDE DEF e
  <2>3. \A M : Moves(d, e, M)
    BY <1>6, <2>2, MovesOn, QueuedFacts DEF Sound
  <2>4. /\ Only(d, e, {"active", "obj", "writes", "coach", "busy", "task"})
        /\ e.coach = b.coach /\ e.busy = b.busy /\ e.task = b.task
    BY <1>7, <2>2 DEF Only, Fields
  <2> QED
    BY <1>1, <1>3, <1>4, <1>9, <2>2, <2>3, <2>4
<1> QED
  BY <1>8, <1>9

(***************************************************************************)
(* The coach, and those who stop it.                                       *)
(***************************************************************************)
\* What a step of the coach does: it ends and frees the device, or it goes on.
Rounds(d, e) ==
  /\ Sound(e) /\ \A M : Moves(d, e, M)
  /\ Only(d, e, {"active", "obj", "writes", "coach", "busy", "task"})
  /\ e.active = "none" <=> d.active = "none"
  /\ \/ e.coach = "off" /\ e.busy = Free /\ e.task = "over"
     \/ /\ e.coach # "off" /\ e.busy = d.busy /\ e.task = d.task
        /\ Quiet(d) => Quiet(e)

\* An end of the coach is such a step.
LEMMA EndsRounds ==
  ASSUME NEW d, Sound(d), NEW status \in Ended, d.coach # "off"
  PROVE  Rounds(d, Ends(d, status))
<1>1. d.cur # 0 /\ status # "none"
  BY DEF Sound, Numbered, Ended
<1> QED
  BY <1>1, EndsFacts DEF Rounds

\* A write of the coach's counters or texts.
LEMMA WritesFacts ==
  ASSUME NEW d, Sound(d), NEW m \in Device, d.coach # "off", m.coach # "off",
         Only(d, m, {"active", "coach", "obj"}), m.active = "none" <=> d.active = "none",
         \A n \in Starts : m.obj[n].phase = d.obj[n].phase /\ m.obj[n].report = d.obj[n].report
  PROVE  LET e == Write(m, "coach", d.cur) IN
         /\ Rounds(d, e) /\ e.coach = m.coach
         /\ \E x : e.writes = Append(d.writes, x) /\ x.by = "coach"
<1> DEFINE e == Write(m, "coach", d.cur)
           x == Entry(m, "coach", d.cur, "none")
<1>1. d.cur # 0 /\ d.cur \in 0 .. MaxStarts
  BY DeviceIs DEF Sound, Numbered
<1>2. /\ Only(d, m, {"disk", "obj", "start", "busy", "task", "restore", "coach", "active"})
      /\ Only(d, m, {"obj", "coach", "active", "busy", "task", "cancels", "start", "reports"})
      /\ m.start = d.start /\ m.reports = d.reports /\ m.cancels = d.cancels /\ m.cur = d.cur
      /\ m.restore = d.restore /\ m.writes = d.writes
  BY DEF Only, Fields
<1>3. Sound(m)
  BY <1>1, <1>2, SoundStays
<1>4. \A M : Moves(d, m, M)
  BY <1>2, StillMoves DEF Within
<1>5. Quiet(d) => Quiet(m)
  BY <1>2 DEF Quiet, Queued
<1>6. /\ "coach" \in Callers \ {"start", "restore"} /\ "coach" \notin Cancels
      /\ "none" \in Outcomes
  BY DEF Callers, Cancels, Outcomes
<1>7. \A N : Within(m, N) => d.cur \in N
  BY <1>2 DEF Within
<1>8. /\ Sound(e) /\ (\A M : Moves(m, e, M)) /\ Only(m, e, {"writes"}) /\ x \in Calls
      /\ e.writes = Append(m.writes, x) /\ x.by = "coach"
  BY <1>1, <1>3, <1>6, <1>7, QueueSound, QueueMoves, QueueFacts DEF Write, Entry
<1> HIDE DEF e, x
<1>9. \A M : Moves(d, e, M)
  BY <1>4, <1>8, MovesOn, QueuedFacts DEF Sound
<1>10. /\ Only(d, e, {"active", "obj", "writes", "coach", "busy", "task"})
       /\ e.coach = m.coach /\ e.active = m.active /\ e.busy = d.busy /\ e.task = d.task
  BY <1>8 DEF Only, Fields
<1>11. Quiet(m) => Quiet(e)
  <2>1. m.writes \in Seq(Calls)
    BY DeviceIs
  <2>2. Queued(e) = Queued(m) \cup {x}
    BY <1>8, <2>1, AppendFacts DEF Queued
  <2>3. e.restore = m.restore /\ e.reports = m.reports /\ e.obj = m.obj
    BY <1>8 DEF Only, Fields
  <2> QED
    BY <1>8, <2>2, <2>3 DEF Quiet
<1>12. Rounds(d, e)
  BY <1>5, <1>8, <1>9, <1>10, <1>11 DEF Rounds
<1> QED
  BY <1>2, <1>8, <1>10, <1>12 DEF e

\* The text of the card is saved.
LEMMA TextsFacts ==
  ASSUME NEW d, Sound(d), d.coach # "off"
  PROVE  Rounds(d, Texts(d)) /\ Texts(d).coach = "texting"
<1> DEFINE s == Status(d, "waiting")
           t == [s EXCEPT !.coach = "texting"]
           j == [t.obj[d.cur] EXCEPT !.text = TRUE]
           m == Given(t, d.cur, j)
<1>t. d \in Device /\ d.cur \in Starts
  BY DeviceIs, JournalFacts DEF Sound, Numbered
<1>1. /\ s \in Device /\ Only(d, s, {"active"}) /\ (s.active = "none" <=> d.active = "none")
      /\ s.cur = d.cur
  BY <1>t, DeviceIs DEF Status, Only, Fields, Cards
<1>5. Texts(d) = Write(m, "coach", d.cur)
  <2>1. [s EXCEPT !.coach = "texting", !.obj[d.cur].text = TRUE] = m
    <3> HIDE DEF s
    <3> QED
      BY <1>t, <1>1, DeviceIs DEF Given
  <2> QED
    BY <2>1 DEF Texts
<1> HIDE DEF s
<1>2. t \in Device /\ Only(d, t, {"active", "coach"}) /\ t.coach = "texting" /\ t.obj = d.obj
      /\ t.active = s.active
  BY <1>1, DeviceIs DEF CoachPcs, Only, Fields
<1> HIDE DEF t
<1>3. j \in Journals /\ j.phase = t.obj[d.cur].phase /\ j.report = t.obj[d.cur].report
  <2>1. t.obj[d.cur] \in Journals
    BY <1>t, <1>2, DeviceIs
  <2> QED
    BY <2>1, TextGiven
<1> HIDE DEF j
<1>4. /\ m \in Device /\ Only(t, m, {"obj"}) /\ m.obj[d.cur] = j
      /\ \A n \in Starts : n # d.cur => m.obj[n] = t.obj[n]
  BY <1>t, <1>2, <1>3, GivenFacts
<1> HIDE DEF m
<1>6. /\ Only(d, m, {"active", "coach", "obj"}) /\ m.coach = "texting" /\ m.active = t.active
      /\ \A n \in Starts : m.obj[n].phase = d.obj[n].phase /\ m.obj[n].report = d.obj[n].report
  BY <1>2, <1>3, <1>4 DEF Only, Fields
<1> QED
  BY <1>1, <1>2, <1>4, <1>5, <1>6, WritesFacts

\* The limiter's refusal.
LEMMA LimitedFacts ==
  ASSUME NEW d, Sound(d), d.coach # "off"
  PROVE  Rounds(d, Limited(d)) /\ Limited(d).coach \notin {"round", "consuming"}
<1>1. "failed" \in Ended
  BY DEF Ended
<1>2. Rounds(d, Ends(d, "failed")) /\ Ends(d, "failed").coach = "off"
  <2>1. d.active # "none" => d.cur # 0
    BY DEF Sound, Numbered
  <2> QED
    BY <1>1, <2>1, EndsRounds, EndsFacts
<1> QED
  BY <1>2, TextsFacts DEF Limited

\* The request is counted before it is made.
LEMMA ConsumesFacts ==
  ASSUME NEW d, Sound(d), d.coach # "off", MayAsk(d.obj[d.cur])
  PROVE  LET e == Write([Status(d, "working") EXCEPT !.coach = "consuming",
                                                     !.obj[d.cur].asked = @ + 1],
                        "coach", d.cur)
         IN Rounds(d, e) /\ e.coach = "consuming"
<1> DEFINE s == Status(d, "working")
           t == [s EXCEPT !.coach = "consuming"]
           a == t.obj[d.cur].asked + 1
           j == [t.obj[d.cur] EXCEPT !.asked = a]
           m == Given(t, d.cur, j)
           e == Write([Status(d, "working") EXCEPT !.coach = "consuming",
                                                   !.obj[d.cur].asked = @ + 1],
                      "coach", d.cur)
<1>t. d \in Device /\ d.cur \in Starts
  BY DeviceIs, JournalFacts DEF Sound, Numbered
<1>1. /\ s \in Device /\ Only(d, s, {"active"}) /\ (s.active = "none" <=> d.active = "none")
      /\ s.cur = d.cur
  BY <1>t, DeviceIs DEF Status, Only, Fields, Cards
<1>5. e = Write(m, "coach", d.cur)
  <2>1. [s EXCEPT !.coach = "consuming", !.obj[d.cur].asked = @ + 1] = m
    <3> HIDE DEF s
    <3> QED
      BY <1>t, <1>1, DeviceIs DEF Given
  <2> QED
    BY <2>1
<1> HIDE DEF s, e
<1>2. t \in Device /\ Only(d, t, {"active", "coach"}) /\ t.coach = "consuming" /\ t.obj = d.obj
      /\ t.active = s.active
  BY <1>1, DeviceIs DEF CoachPcs, Only, Fields
<1> HIDE DEF t
<1>3. j \in Journals /\ j.phase = t.obj[d.cur].phase /\ j.report = t.obj[d.cur].report
  <2>1. t.obj[d.cur] \in Journals
    BY <1>t, <1>2, DeviceIs
  <2>2. a \in 0 .. MaxRequests
    BY <1>2, <2>1, JournalFacts, ExplanationBoundsAssumption DEF MayAsk
  <2> HIDE DEF a
  <2> QED
    BY <2>1, <2>2, CountGiven
<1> HIDE DEF j
<1>4. /\ m \in Device /\ Only(t, m, {"obj"}) /\ m.obj[d.cur] = j
      /\ \A n \in Starts : n # d.cur => m.obj[n] = t.obj[n]
  BY <1>t, <1>2, <1>3, GivenFacts
<1> HIDE DEF m
<1>6. /\ Only(d, m, {"active", "coach", "obj"}) /\ m.coach = "consuming" /\ m.active = t.active
      /\ \A n \in Starts : m.obj[n].phase = d.obj[n].phase /\ m.obj[n].report = d.obj[n].report
  BY <1>2, <1>3, <1>4 DEF Only, Fields
<1>7. Rounds(d, e) /\ e.coach = "consuming"
  BY <1>1, <1>2, <1>4, <1>5, <1>6, WritesFacts
<1> QED
  BY <1>7 DEF e

\* The card is another one: no cancellation is attached to it.
LEMMA CardFacts ==
  ASSUME NEW d, Sound(d), NEW p \in Cards, p \in Ended \cup {"none"} \/ d.cur # 0
  PROVE  LET e == Card(d, p) IN
         /\ Sound(e) /\ (\A M : Moves(d, e, M)) /\ (Quiet(d) => Quiet(e))
         /\ Only(d, e, {"active", "cancels"}) /\ e.active = p
         /\ \A c \in Cancels : /\ e.cancels[c].on = d.cancels[c].on
                               /\ e.cancels[c].n = d.cancels[c].n /\ ~e.cancels[c].attached
<1> DEFINE e == Card(d, p)
           k == [c \in Cancels |-> [d.cancels[c] EXCEPT !.attached = FALSE]]
<1>t. d \in Device /\ d.cancels \in [Cancels -> CancelStates]
  BY DeviceIs DEF Sound
<1>1. \A c \in Cancels : LET x == [d.cancels[c] EXCEPT !.attached = FALSE] IN
        /\ x \in CancelStates /\ x.on = d.cancels[c].on /\ x.n = d.cancels[c].n /\ ~x.attached
  BY <1>t DEF CancelStates
<1>2. /\ k \in [Cancels -> CancelStates]
      /\ \A c \in Cancels : k[c].on = d.cancels[c].on /\ k[c].n = d.cancels[c].n /\ ~k[c].attached
  BY <1>1
<1>3. e = [d EXCEPT !.active = p, !.cancels = k]
  BY DEF Card
<1> HIDE DEF k, e
<1>4. e \in Device /\ Only(d, e, {"active", "cancels"}) /\ e.active = p /\ e.cancels = k
  BY <1>t, <1>2, <1>3, DeviceIs DEF Only, Fields
<1>5. /\ e.start = d.start /\ e.reports = d.reports /\ e.obj = d.obj /\ e.cur = d.cur
      /\ e.restore = d.restore /\ e.writes = d.writes /\ e.coach = d.coach
      /\ Only(d, e, {"obj", "coach", "active", "busy", "task", "cancels", "start", "reports"})
      /\ {"stop", "leave"} \subseteq Cancels
  BY <1>4 DEF Only, Fields, Cancels
<1>6. Sound(e)
  BY <1>2, <1>4, <1>5 DEF Sound, Numbered, Called, Reporting, Queued
<1>7. \A M : Moves(d, e, M)
  BY <1>2, <1>4, <1>5, StillMoves DEF Within
<1>8. Quiet(d) => Quiet(e)
  BY <1>5 DEF Quiet, Queued
<1> QED
  BY <1>2, <1>4, <1>6, <1>7, <1>8 DEF e

\* Every start under way is stale.
LEMMA StaledFacts ==
  ASSUME NEW d, Sound(d)
  PROVE  LET e == Staled(d) IN
         /\ Sound(e) /\ (\A M : Moves(d, e, M)) /\ (Quiet(d) => Quiet(e)) /\ Only(d, e, {"start"})
         /\ \A n \in Starts : /\ e.start[n].pc = d.start[n].pc
                              /\ e.start[n].stale = (d.start[n].pc \notin {"unused", "done"})
<1> DEFINE e == Staled(d)
           k == [n \in Starts |->
                  [d.start[n] EXCEPT !.stale = d.start[n].pc \notin {"unused", "done"}]]
<1>t. d \in Device /\ d.start \in [Starts -> StartStates]
  BY DeviceIs DEF Sound
<1>1. \A n \in Starts :
        LET x == [d.start[n] EXCEPT !.stale = d.start[n].pc \notin {"unused", "done"}] IN
        /\ x \in StartStates /\ x.pc = d.start[n].pc
        /\ x.stale = (d.start[n].pc \notin {"unused", "done"})
  BY <1>t DEF StartStates
<1>2. /\ k \in [Starts -> StartStates]
      /\ \A n \in Starts : /\ k[n].pc = d.start[n].pc
                           /\ k[n].stale = (d.start[n].pc \notin {"unused", "done"})
  BY <1>1
<1>3. e = [d EXCEPT !.start = k]
  BY DEF Staled
<1> HIDE DEF k, e
<1>4. e \in Device /\ Only(d, e, {"start"}) /\ e.start = k
  BY <1>t, <1>2, <1>3, DeviceIs DEF Only, Fields
<1>5. /\ e.reports = d.reports /\ e.obj = d.obj /\ e.cur = d.cur /\ e.cancels = d.cancels
      /\ e.restore = d.restore /\ e.writes = d.writes /\ e.coach = d.coach /\ e.active = d.active
      /\ Only(d, e, {"obj", "coach", "active", "busy", "task", "cancels", "start", "reports"})
  BY <1>4 DEF Only, Fields
<1>6. Sound(e)
  BY <1>4, <1>5 DEF Sound, Numbered, Called, Reporting, Queued
<1>7. \A M : Moves(d, e, M)
  BY <1>2, <1>4, <1>5, StillMoves DEF Within
<1>8. Quiet(d) => Quiet(e)
  BY <1>5 DEF Quiet, Queued
<1> QED
  BY <1>2, <1>4, <1>6, <1>7, <1>8 DEF e

\* A cancellation is called: it waits in the queue.
LEMMA CallingFacts ==
  ASSUME NEW d, Sound(d), NEW c \in {"stop", "leave", "task"}, ~d.cancels[c].on
  PROVE  LET e == Calling(d, c) IN
         /\ Sound(e) /\ (\A M : Moves(d, e, M)) /\ (Quiet(d) => Quiet(e))
         /\ Only(d, e, {"cancels", "writes"})
         /\ e.cancels[c].on /\ e.cancels[c].attached = (c = "stop")
         /\ \A b \in Cancels : b # c => e.cancels[b] = d.cancels[b]
<1> DEFINE v == [on |-> TRUE, n |-> d.cur, attached |-> c = "stop"]
           m == [d EXCEPT !.cancels[c] = v]
           e == Write(m, c, 0)
           x == Entry(m, c, 0, "none")
<1>t. d \in Device /\ d.cancels \in [Cancels -> CancelStates] /\ c \in Cancels /\ d.cur \in 0 .. MaxStarts
  BY DeviceIs DEF Sound, Cancels
<1>1. v \in CancelStates /\ v.on /\ v.n = d.cur /\ v.attached = (c = "stop")
  BY <1>t DEF CancelStates
<1>2. Calling(d, c) = e
  BY DEF Calling
<1> HIDE DEF v
<1>3. /\ m \in Device /\ Only(d, m, {"cancels"}) /\ m.cancels[c] = v
      /\ \A b \in Cancels : b # c => m.cancels[b] = d.cancels[b]
  <2>1. [d.cancels EXCEPT ![c] = v] \in [Cancels -> CancelStates]
    BY <1>t, <1>1
  <2> QED
    BY <1>t, <2>1, DeviceIs DEF Only, Fields
<1> HIDE DEF m
<1>4. /\ m.reports = d.reports /\ m.obj = d.obj /\ m.cur = d.cur /\ m.start = d.start
      /\ m.restore = d.restore /\ m.writes = d.writes /\ m.coach = d.coach /\ m.active = d.active
      /\ Only(d, m, {"obj", "coach", "active", "busy", "task", "cancels", "start", "reports"})
      /\ {"stop", "leave"} \subseteq Cancels
  BY <1>3 DEF Only, Fields, Cancels
<1>5. Sound(m)
  BY <1>1, <1>3, <1>4 DEF Sound, Numbered, Called, Reporting, Queued
<1>6. \A M : Moves(d, m, M)
  BY <1>1, <1>3, <1>4, StillMoves DEF Within
<1>7. /\ c \in Callers \ {"start", "restore"} /\ c \notin {"start", "coach", "terminal", "report"}
      /\ "none" \in Outcomes /\ 0 \in 0 .. MaxStarts
  BY JournalFacts, ExplanationBoundsAssumption DEF Callers, Cancels, Outcomes
<1>8. c \in {"stop", "leave", "report"} => \A w \in Queued(m) : w.by # c
  BY <1>4, <1>7 DEF Sound, Called, Queued
<1>9. Sound(e)
  BY <1>1, <1>3, <1>5, <1>7, <1>8, QueueSound DEF Write
<1>10. /\ (\A M : Moves(m, e, M)) /\ Only(m, e, {"writes"}) /\ x \in Calls
       /\ e.writes = Append(m.writes, x) /\ x.by = c
  BY <1>t, <1>3, <1>7, QueueMoves, QueueFacts DEF Write, Entry
<1> HIDE DEF e, x
<1>11. \A M : Moves(d, e, M)
  BY <1>6, <1>9, <1>10, MovesOn, QueuedFacts DEF Sound
<1>12. Quiet(d) => Quiet(e)
  <2>1. m.writes \in Seq(Calls)
    BY <1>3, DeviceIs
  <2>2. Queued(e) = Queued(d) \cup {x}
    BY <1>4, <1>10, <2>1, AppendFacts DEF Queued
  <2>3. e.restore = d.restore /\ e.reports = d.reports /\ e.obj = d.obj
    BY <1>4, <1>10 DEF Only, Fields
  <2> QED
    BY <1>10, <2>2, <2>3 DEF Quiet
<1>13. Only(d, e, {"cancels", "writes"}) /\ e.cancels = m.cancels
  BY <1>3, <1>10 DEF Only, Fields
<1> QED
  BY <1>1, <1>2, <1>3, <1>9, <1>11, <1>12, <1>13 DEF e

\* What a cancellation does at once: a coach that waits ends, any other goes on.
Stops(d, e) ==
  /\ Sound(e) /\ \A M : Moves(d, e, M)
  /\ Only(d, e, {"active", "obj", "writes", "coach", "busy", "task", "cancels", "start"})
  /\ \A n \in Starts : e.start[n].pc = d.start[n].pc
  /\ \A c \in Cancels : d.cancels[c].on => e.cancels[c].on
  /\ \/ e.coach = "off" /\ e.busy = Free /\ e.task = "over"
     \/ /\ e.coach = d.coach /\ e.busy = d.busy /\ e.task = d.task
        /\ Quiet(d) => Quiet(e)

\* A coach that waits is rejected, before or after the call.
LEMMA RejectedFacts ==
  ASSUME NEW d, Sound(d), NEW c \in {"stop", "leave"}, ~d.cancels[c].on,
         NEW e \in Rejected(d, c)
  PROVE  /\ Stops(d, e) /\ e.start = d.start /\ (e.active = "none" <=> d.active = "none")
         /\ e.cancels[c].on /\ e.cancels[c].attached = (c = "stop")
         /\ \A b \in Cancels : b # c => e.cancels[b] = d.cancels[b]
<1>c. c \in Cancels /\ "failed" \in Ended /\ "failed" # "none"
  BY DEF Cancels, Ended
<1>1. CASE e = Calling(d, c)
  <2>1. /\ Sound(e) /\ (\A M : Moves(d, e, M)) /\ (Quiet(d) => Quiet(e))
        /\ Only(d, e, {"cancels", "writes"})
        /\ e.cancels[c].on /\ e.cancels[c].attached = (c = "stop")
        /\ \A b \in Cancels : b # c => e.cancels[b] = d.cancels[b]
    BY <1>1, CallingFacts
  <2>2. /\ Only(d, e, {"active", "obj", "writes", "coach", "busy", "task", "cancels", "start"})
        /\ e.start = d.start /\ e.active = d.active /\ e.coach = d.coach /\ e.busy = d.busy
        /\ e.task = d.task
    BY <2>1 DEF Only, Fields
  <2> QED
    BY <1>c, <2>1, <2>2 DEF Stops
<1>2. CASE d.coach = "waiting" /\ e = Ends(Calling(d, c), "failed")
  <2> DEFINE m == Calling(d, c)
  <2>1. /\ Sound(m) /\ (\A M : Moves(d, m, M)) /\ Only(d, m, {"cancels", "writes"})
        /\ m.cancels[c].on /\ m.cancels[c].attached = (c = "stop")
        /\ \A b \in Cancels : b # c => m.cancels[b] = d.cancels[b]
    BY CallingFacts
  <2>2. m.cur = d.cur /\ m.active = d.active /\ m.start = d.start
    BY <2>1 DEF Only, Fields
  <2>0. m.cur # 0
    BY <1>2, <2>2 DEF Sound, Numbered
  <2> HIDE DEF m
  <2>3. /\ Sound(e) /\ (\A M : Moves(m, e, M))
        /\ Only(m, e, {"active", "obj", "writes", "coach", "busy", "task"})
        /\ e.coach = "off" /\ e.busy = Free /\ e.task = "over"
        /\ e.active = IF m.active = "none" THEN "none" ELSE "failed"
    BY <1>2, <1>c, <2>0, <2>1, <2>2, EndsFacts DEF m
  <2>4. \A M : Moves(d, e, M)
    BY <2>1, <2>3, MovesOn, QueuedFacts DEF Sound
  <2>5. /\ Only(d, e, {"active", "obj", "writes", "coach", "busy", "task", "cancels", "start"})
        /\ e.cancels = m.cancels /\ e.start = d.start
    BY <2>1, <2>2, <2>3 DEF Only, Fields
  <2> QED
    BY <1>c, <2>1, <2>2, <2>3, <2>4, <2>5 DEF Stops
<1>3. CASE d.coach = "waiting" /\ e = Calling(Ends(d, "failed"), c)
  <2> DEFINE m == Ends(d, "failed")
  <2>0. d.cur # 0
    BY <1>3 DEF Sound, Numbered
  <2>1. /\ Sound(m) /\ (\A M : Moves(d, m, M))
        /\ Only(d, m, {"active", "obj", "writes", "coach", "busy", "task"})
        /\ m.coach = "off" /\ m.busy = Free /\ m.task = "over"
        /\ m.active = IF d.active = "none" THEN "none" ELSE "failed"
    BY <1>c, <2>0, EndsFacts
  <2>2. m.cur = d.cur /\ m.start = d.start /\ m.cancels = d.cancels
    BY <2>1 DEF Only, Fields
  <2> HIDE DEF m
  <2>3. /\ Sound(e) /\ (\A M : Moves(m, e, M)) /\ Only(m, e, {"cancels", "writes"})
        /\ e.cancels[c].on /\ e.cancels[c].attached = (c = "stop")
        /\ \A b \in Cancels : b # c => e.cancels[b] = m.cancels[b]
    BY <1>3, <2>1, <2>2, CallingFacts DEF m
  <2>4. \A M : Moves(d, e, M)
    BY <2>1, <2>3, MovesOn, QueuedFacts DEF Sound
  <2>5. /\ Only(d, e, {"active", "obj", "writes", "coach", "busy", "task", "cancels", "start"})
        /\ e.start = d.start /\ e.coach = m.coach /\ e.busy = m.busy /\ e.task = m.task
        /\ e.active = m.active
    BY <2>1, <2>2, <2>3 DEF Only, Fields
  <2> QED
    BY <1>c, <2>1, <2>2, <2>3, <2>4, <2>5 DEF Stops
<1> QED
  BY <1>1, <1>2, <1>3 DEF Rejected

\* The card of this session goes, and its task is stopped.
LEMMA InvalidatedFacts ==
  ASSUME NEW d, Sound(d), ~d.cancels["leave"].on, NEW e \in Invalidated(d)
  PROVE  /\ Stops(d, e) /\ e.active = "none"
         /\ \A n \in Starts : e.start[n].stale = (d.start[n].pc \notin {"unused", "done"})
         /\ \A c \in Cancels : ~e.cancels[c].attached
         /\ d.active \notin Ended \cup {"none"} => e.cancels["leave"].on
<1> DEFINE s == Staled(d)
           m == Card(s, "none")
<1>c. "none" \in Cards /\ "leave" \in Cancels
  BY DEF Cards, Cancels
<1>1. /\ Sound(s) /\ (\A M : Moves(d, s, M)) /\ (Quiet(d) => Quiet(s)) /\ Only(d, s, {"start"})
      /\ \A n \in Starts : /\ s.start[n].pc = d.start[n].pc
                           /\ s.start[n].stale = (d.start[n].pc \notin {"unused", "done"})
  BY StaledFacts
<1> HIDE DEF s
<1>2. /\ Sound(m) /\ (\A M : Moves(s, m, M)) /\ (Quiet(s) => Quiet(m))
      /\ Only(s, m, {"active", "cancels"}) /\ m.active = "none"
      /\ \A c \in Cancels : /\ m.cancels[c].on = s.cancels[c].on
                            /\ m.cancels[c].n = s.cancels[c].n /\ ~m.cancels[c].attached
  BY <1>c, <1>1, CardFacts
<1>i. Invalidated(d) = IF d.active \in Ended \cup {"none"} THEN {m} ELSE Rejected(m, "leave")
  BY DEF Invalidated, s
<1> HIDE DEF m
<1>3. \A M : Moves(d, m, M)
  BY <1>1, <1>2, MovesOn, QueuedFacts DEF Sound
<1>4. /\ Only(d, m, {"start", "active", "cancels"}) /\ m.start = s.start /\ m.coach = d.coach
      /\ m.busy = d.busy /\ m.task = d.task /\ m.cur = d.cur
      /\ \A c \in Cancels : m.cancels[c].on = d.cancels[c].on
  BY <1>1, <1>2 DEF Only, Fields
<1>5. CASE e = m
  <2>1. Only(d, e, {"active", "obj", "writes", "coach", "busy", "task", "cancels", "start"})
    BY <1>4, <1>5 DEF Only, Fields
  <2>2. Stops(d, e)
    BY <1>1, <1>2, <1>3, <1>4, <1>5, <2>1 DEF Stops
  <2>3. CASE d.active \in Ended \cup {"none"}
    BY <1>1, <1>2, <1>4, <1>5, <2>2, <2>3
  <2>4. CASE d.active \notin Ended \cup {"none"}
    <3>1. e \in Rejected(m, "leave")
      BY <1>i, <2>4
    <3>3. e.cancels["leave"].on
      BY <1>c, <1>2, <1>4, <3>1, RejectedFacts
    <3> QED
      BY <1>1, <1>2, <1>4, <1>5, <2>2, <3>3
  <2> QED
    BY <2>3, <2>4
<1>6. CASE e # m
  <2>1. d.active \notin Ended \cup {"none"} /\ e \in Rejected(m, "leave")
    BY <1>i, <1>6
  <2>3. /\ Stops(m, e) /\ e.start = m.start /\ (e.active = "none" <=> m.active = "none")
        /\ e.cancels["leave"].on /\ ~e.cancels["leave"].attached
        /\ \A b \in Cancels : b # "leave" => e.cancels[b] = m.cancels[b]
    <3>1. Sound(m) /\ ~m.cancels["leave"].on
      BY <1>c, <1>2, <1>4
    <3>2. ~("leave" = "stop")
      OBVIOUS
    <3> QED
      BY <1>2, <2>1, <3>1, <3>2, RejectedFacts
  <2>4. \A M : Moves(d, e, M)
    BY <1>3, <2>3, MovesOn, QueuedFacts DEF Stops, Sound
  <2>5. Only(d, e, {"active", "obj", "writes", "coach", "busy", "task", "cancels", "start"})
    BY <1>4, <2>3 DEF Stops, Only, Fields
  <2>6. Stops(d, e)
    BY <1>1, <1>2, <1>4, <2>3, <2>4, <2>5 DEF Stops
  <2> QED
    BY <1>c, <1>1, <1>2, <1>4, <2>3, <2>6
<1> QED
  BY <1>5, <1>6

\* A report is done, and the next one begins.
LEMMA ReportDoneFacts ==
  ASSUME NEW d, Sound(d), d.reports.pc # "idle", \A w \in Queued(d) : w.by # "report"
  PROVE  LET e == ReportDone(d) IN
         /\ Sound(e) /\ (\A M : Moves(d, e, M)) /\ (Quiet(d) => Quiet(e))
         /\ Only(d, e, {"obj", "reports", "writes"}) /\ e.reports.pc # "sending"
<1> DEFINE m == [d EXCEPT !.reports.pc = "idle", !.reports.queue = Tail(@)]
           q == Tail(d.reports.queue)
           e == ReportBegins(m)
<1>t. d \in Device /\ d.reports \in ReportStates
  BY DeviceIs DEF Sound
<1>1. q \in Seq(ReportItems) /\ Elements(q) \subseteq Elements(d.reports.queue)
  BY <1>t, ReportQueueFacts DEF ReportStates, Sound, Reporting
<1>2. ReportDone(d) = e
  BY DEF ReportDone
<1>3. m = [d EXCEPT !.reports = [d.reports EXCEPT !.pc = "idle", !.queue = q]]
  BY <1>t, DeviceIs
<1> HIDE DEF m, q
<1>4. [d.reports EXCEPT !.pc = "idle", !.queue = q] \in ReportStates
  BY <1>t, <1>1 DEF ReportStates, ReportPcs
<1>5. m \in Device /\ Only(d, m, {"reports"})
  BY <1>t, <1>3, <1>4, DeviceIs DEF Only, Fields
<1>6. m.reports = [d.reports EXCEPT !.pc = "idle", !.queue = q]
  BY <1>t, <1>3, DeviceIs
<1>7. m.reports.pc = "idle" /\ m.reports.queue = q
  BY <1>t, <1>6 DEF ReportStates
<1>8. /\ m.writes = d.writes /\ m.cancels = d.cancels /\ m.active = d.active /\ m.obj = d.obj
      /\ m.coach = d.coach /\ m.cur = d.cur /\ m.start = d.start /\ m.restore = d.restore
      /\ Only(d, m, {"obj", "coach", "active", "busy", "task", "cancels", "start", "reports"})
  BY <1>5 DEF Only, Fields
<1>9. Sound(m)
  BY <1>5, <1>7, <1>8 DEF Sound, Numbered, Called, Reporting, Queued
<1>10. \A M : Moves(d, m, M)
  BY <1>1, <1>7, <1>8, StillMoves DEF Within
<1>11. Quiet(d) => Quiet(m)
  BY <1>1, <1>7, <1>8 DEF Quiet, Queued
<1>12. /\ Sound(e) /\ (\A M : Moves(m, e, M)) /\ Only(m, e, {"obj", "reports", "writes"})
       /\ (Quiet(m) => Quiet(e)) /\ e.reports.pc # "sending"
  BY <1>7, <1>9, ReportBeginsFacts
<1> HIDE DEF e
<1>13. \A M : Moves(d, e, M)
  BY <1>10, <1>12, MovesOn, QueuedFacts DEF Sound
<1>14. Only(d, e, {"obj", "reports", "writes"})
  BY <1>5, <1>12 DEF Only, Fields
<1> QED
  BY <1>2, <1>11, <1>12, <1>13, <1>14 DEF e

(***************************************************************************)
(* The starts.                                                             *)
(***************************************************************************)
\* A start is at another place.
LEMMA AtFacts ==
  ASSUME NEW d, Sound(d), NEW n \in Starts, NEW p \in Pcs
  PROVE  LET e == At(d, n, p) IN
         /\ Sound(e) /\ Only(d, e, {"start"}) /\ (Quiet(d) => Quiet(e))
         /\ e.start[n].pc = p /\ e.start[n].stale = (p # "done" /\ d.start[n].stale)
         /\ \A m \in Starts : m # n => e.start[m] = d.start[m]
<1> DEFINE e == At(d, n, p)
           v == [pc |-> p, stale |-> p # "done" /\ d.start[n].stale]
<1>t. d \in Device /\ d.start \in [Starts -> StartStates] /\ d.start[n].stale \in BOOLEAN
  BY DeviceIs DEF Sound, StartStates
<1>1. v \in StartStates /\ v.pc = p /\ v.stale = (p # "done" /\ d.start[n].stale)
  BY <1>t DEF StartStates
<1>2. e = [d EXCEPT !.start[n] = v]
  BY <1>t, DeviceIs DEF At
<1> HIDE DEF v, e
<1>3. [d.start EXCEPT ![n] = v] \in [Starts -> StartStates]
  BY <1>t, <1>1
<1>4. /\ e \in Device /\ Only(d, e, {"start"}) /\ e.start[n] = v
      /\ \A m \in Starts : m # n => e.start[m] = d.start[m]
  BY <1>t, <1>2, <1>3, DeviceIs DEF Only, Fields
<1>5. /\ Only(d, e, {"disk", "obj", "start", "busy", "task", "restore", "coach", "active"})
      /\ e.active = d.active /\ e.coach = d.coach /\ e.writes = d.writes /\ e.obj = d.obj
      /\ e.restore = d.restore /\ e.reports = d.reports
  BY <1>4 DEF Only, Fields
<1>6. Sound(e)
  BY <1>4, <1>5, SoundStays DEF Sound, Numbered
<1>7. Quiet(d) => Quiet(e)
  BY <1>5 DEF Quiet, Queued
<1> QED
  BY <1>1, <1>4, <1>6, <1>7 DEF e

\* A start writes its journal in another phase.
Writes(d, n, phase, p) == Write(At(Phase(d, n, phase), n, p), "start", n)

\* What a write of a start does.
LEMMA WritesStartFacts ==
  ASSUME NEW d, Sound(d), NEW n \in Starts, NEW phase \in Phases, NEW p \in Pcs \ {"done"},
         NEW e, e = Writes(d, n, phase, p)
  PROVE  /\ Sound(e) /\ Only(d, e, {"obj", "start", "writes"}) /\ (Quiet(d) => Quiet(e))
         /\ e.start[n].pc = p /\ e.start[n].stale = d.start[n].stale
         /\ \A m \in Starts : m # n => e.start[m] = d.start[m] /\ e.obj[m] = d.obj[m]
         /\ e.obj[n].phase = phase /\ e.obj[n].report = d.obj[n].report
         /\ \E x \in Calls : /\ x.by = "start" /\ x.n = n /\ x.j = e.obj[n]
                             /\ e.writes = Append(d.writes, x)
<1> DEFINE g == Phase(d, n, phase)
           a == At(g, n, p)
           x == Entry(a, "start", n, "none")
<1>t. d \in Device /\ e = Write(a, "start", n)
  BY DEF Sound, Writes
<1>1. /\ g \in Device /\ Only(d, g, {"obj"}) /\ g.obj[n].phase = phase
      /\ g.obj[n].report = d.obj[n].report
      /\ \A m \in Starts : m # n => g.obj[m] = d.obj[m]
  BY <1>t, PhaseFacts
<1> HIDE DEF g
<1>2. /\ Only(d, g, {"disk", "obj", "start", "busy", "task", "restore", "coach", "active"})
      /\ g.active = d.active /\ g.coach = d.coach /\ g.writes = d.writes /\ g.start = d.start
      /\ g.restore = d.restore /\ g.reports = d.reports
  BY <1>1 DEF Only, Fields
<1>3. Sound(g)
  BY <1>1, <1>2, SoundStays DEF Sound, Numbered
<1>4. Quiet(d) => Quiet(g)
  BY <1>1, <1>2 DEF Quiet, Queued
<1>5. /\ Sound(a) /\ Only(g, a, {"start"}) /\ (Quiet(g) => Quiet(a))
      /\ a.start[n].pc = p /\ a.start[n].stale = (p # "done" /\ g.start[n].stale)
      /\ \A m \in Starts : m # n => a.start[m] = g.start[m]
  BY <1>3, AtFacts
<1> HIDE DEF a
<1>6. a.writes = d.writes /\ a.obj = g.obj /\ a.writes \in Seq(Calls)
  BY <1>2, <1>5, DeviceIs DEF Only, Fields, Sound
<1>7. /\ "start" \in Callers /\ "none" \in Outcomes /\ n \in 0 .. MaxStarts /\ n # 0
      /\ "start" \notin {"stop", "leave", "report", "terminal"}
  BY JournalFacts DEF Callers, Outcomes
<1>8. Sound(e) /\ Only(a, e, {"writes"}) /\ x \in Calls /\ e.writes = Append(d.writes, x)
  BY <1>t, <1>5, <1>6, <1>7, QueueSound, QueueFacts, SMTT(20) DEF Write, Sound
<1>9. x.by = "start" /\ x.n = n /\ x.j = a.obj[n]
  BY <1>7 DEF Entry
<1> HIDE DEF x
<1>10. /\ Only(d, e, {"obj", "start", "writes"}) /\ e.obj = g.obj /\ e.start = a.start
  BY <1>1, <1>5, <1>6, <1>8 DEF Only, Fields
<1>11. Quiet(a) => Quiet(e)
  <2>1. Queued(e) = Queued(a) \cup {x}
    BY <1>6, <1>8, AppendFacts DEF Queued
  <2>2. e.restore = a.restore /\ e.reports = a.reports /\ e.obj = a.obj
    BY <1>8 DEF Only, Fields
  <2> QED
    BY <1>9, <2>1, <2>2 DEF Quiet
<1>12. x.j = e.obj[n]
  BY <1>6, <1>9, <1>10
<1>13. e.start[n].stale = d.start[n].stale
  <2>1. d.start[n].stale \in BOOLEAN
    BY <1>t, DeviceIs DEF StartStates
  <2> QED
    BY <2>1, <1>2, <1>5, <1>10
<1> QED
  BY <1>1, <1>2, <1>4, <1>5, <1>8, <1>9, <1>10, <1>11, <1>12, <1>13

\* The catch: it saves that nobody knows, or it is done.
LEMMA CaughtFacts ==
  ASSUME NEW d, Sound(d), NEW n \in Starts
  PROVE  LET e == Caught(d, n)
             c == [d EXCEPT !.busy.reserved = FALSE]
         IN
         /\ Sound(e) /\ (Quiet(d) => Quiet(e))
         /\ Only(d, e, {"busy", "active", "obj", "start", "writes"})
         /\ ~e.busy.reserved /\ e.busy.route = d.busy.route
         /\ (e.active = "none" <=> d.active = "none")
         /\ \A m \in Starts : m # n => e.start[m] = d.start[m] /\ e.obj[m] = d.obj[m]
         /\ \/ /\ d.obj[n].phase \in {"claiming", "dispatching"}
               /\ e.start[n].pc = "failing" /\ e.start[n].stale = d.start[n].stale
               /\ e.active = d.active
               /\ e.obj[n].phase = "unknown" /\ e.obj[n].report = d.obj[n].report
               /\ \E x \in Calls : /\ x.by = "start" /\ x.n = n /\ x.j = e.obj[n]
                                   /\ e.writes = Append(d.writes, x)
            \/ /\ d.obj[n].phase \notin {"claiming", "dispatching"}
               /\ e.start[n].pc = "done" /\ e.obj = d.obj /\ e.writes = d.writes
               /\ e.active \in {d.active, "failed"}
<1> DEFINE c == [d EXCEPT !.busy.reserved = FALSE]
           e == Caught(d, n)
<1>t. d \in Device /\ d.busy \in Holds /\ d.obj[n] \in Journals
  BY DeviceIs DEF Sound
<1>1. /\ c \in Device /\ Only(d, c, {"busy"}) /\ ~c.busy.reserved /\ c.busy.route = d.busy.route
  <2>1. c = [d EXCEPT !.busy = [d.busy EXCEPT !.reserved = FALSE]]
    BY <1>t, DeviceIs
  <2>2. [d.busy EXCEPT !.reserved = FALSE] \in Holds /\ ~[d.busy EXCEPT !.reserved = FALSE].reserved
        /\ [d.busy EXCEPT !.reserved = FALSE].route = d.busy.route
    BY <1>t DEF Holds
  <2> HIDE DEF c
  <2> QED
    BY <1>t, <2>1, <2>2, DeviceIs DEF Only, Fields
<1>2. CASE d.obj[n].phase \in {"claiming", "dispatching"}
  <2>1. e = Writes(c, n, "unknown", "failing")
    BY <1>2 DEF Caught, Writes
  <2> HIDE DEF c, e
  <2>2. Only(d, c, {"coach", "active", "busy", "task"}) /\ c.active = d.active /\ c.coach = d.coach
        /\ c.start = d.start /\ c.obj = d.obj /\ c.writes = d.writes
    BY <1>1 DEF Only, Fields
  <2>3. Sound(c) /\ (Quiet(d) => Quiet(c))
    BY <1>1, <2>2, LightFacts DEF Sound, Numbered
  <2>4. "unknown" \in Phases /\ "failing" \in Pcs \ {"done"}
    BY DEF Phases, Pcs
  <2>5. /\ Sound(e) /\ Only(c, e, {"obj", "start", "writes"}) /\ (Quiet(c) => Quiet(e))
        /\ e.start[n].pc = "failing" /\ e.start[n].stale = c.start[n].stale
        /\ \A m \in Starts : m # n => e.start[m] = c.start[m] /\ e.obj[m] = c.obj[m]
        /\ e.obj[n].phase = "unknown" /\ e.obj[n].report = c.obj[n].report
        /\ \E x \in Calls : /\ x.by = "start" /\ x.n = n /\ x.j = e.obj[n]
                            /\ e.writes = Append(c.writes, x)
    BY <2>1, <2>3, <2>4, WritesStartFacts, SMTT(20)
  <2>6. /\ Only(d, e, {"busy", "active", "obj", "start", "writes"}) /\ e.busy = c.busy
        /\ e.active = d.active
    BY <1>1, <2>2, <2>5 DEF Only, Fields
  <2> QED
    BY <1>1, <1>2, <2>2, <2>3, <2>5, <2>6 DEF e
<1>3. CASE d.obj[n].phase \notin {"claiming", "dispatching"}
  <2> DEFINE s == IF d.start[n].stale \/ d.active = "none" THEN d.active ELSE "failed"
             a == [c EXCEPT !.active = IF HasClaim(d.obj[n]) THEN s ELSE @]
  <2>1. e = At(a, n, "done")
    BY <1>3 DEF Caught
  <2> HIDE DEF c, e
  <2>2. Only(d, c, {"busy"}) /\ c.active = d.active /\ c.coach = d.coach
        /\ c.start = d.start /\ c.obj = d.obj /\ c.writes = d.writes
    BY <1>1 DEF Only, Fields
  <2>3. /\ a \in Device /\ Only(c, a, {"active"}) /\ a.active \in {d.active, "failed"}
        /\ (a.active = "none" <=> d.active = "none")
    <3>1. s \in Cards /\ s \in {d.active, "failed"} /\ (s = "none" <=> d.active = "none")
      BY <1>t, DeviceIs DEF Cards, Ended
    <3> HIDE DEF s
    <3> QED
      BY <1>1, <2>2, <3>1, DeviceIs DEF Only, Fields
  <2> HIDE DEF a
  <2>4. Only(d, a, {"coach", "active", "busy", "task"}) /\ a.coach = d.coach /\ a.start = d.start
        /\ a.obj = d.obj /\ a.writes = d.writes /\ a.busy = c.busy
    BY <2>2, <2>3 DEF Only, Fields
  <2>5. Sound(a) /\ (Quiet(d) => Quiet(a))
    <3>1. a.active \notin Ended \cup {"none"} => d.active \notin Ended \cup {"none"}
      BY <2>3 DEF Ended
    <3> QED
      BY <2>3, <2>4, <3>1, LightFacts DEF Sound, Numbered
  <2>6. /\ Sound(e) /\ Only(a, e, {"start"}) /\ (Quiet(a) => Quiet(e)) /\ e.start[n].pc = "done"
        /\ \A m \in Starts : m # n => e.start[m] = a.start[m]
    <3>1. "done" \in Pcs
      BY DEF Pcs
    <3> QED
      BY <2>1, <2>5, <3>1, AtFacts
  <2>7. /\ Only(d, e, {"busy", "active", "obj", "start", "writes"}) /\ e.busy = a.busy
        /\ e.active = a.active /\ e.obj = d.obj /\ e.writes = d.writes
    BY <2>2, <2>3, <2>4, <2>6 DEF Only, Fields
  <2> QED
    BY <1>1, <1>3, <2>3, <2>4, <2>5, <2>6, <2>7 DEF e
<1> QED
  BY <1>2, <1>3

\* The card of the coordinator is about this start.
LEMMA OpenedFacts ==
  ASSUME NEW d, Sound(d), NEW n \in Starts, NEW e, e = Opened(d, n)
  PROVE  /\ Sound(e) /\ Only(d, e, {"cur", "active", "cancels", "start"}) /\ (Quiet(d) => Quiet(e))
         /\ e.cur = n /\ e.active = "starting"
         /\ e.start[n].pc = "round" /\ e.start[n].stale = d.start[n].stale
         /\ \A m \in Starts : m # n => e.start[m] = d.start[m]
         /\ \A c \in Cancels : e.cancels[c].on = d.cancels[c].on /\ ~e.cancels[c].attached
<1> DEFINE a == [d EXCEPT !.cur = n]
           b == Card(a, "starting")
<1>t. d \in Device /\ n \in 0 .. MaxStarts /\ n # 0 /\ d.start[n].stale \in BOOLEAN
  BY DeviceIs, JournalFacts DEF Sound, StartStates
<1>1. a \in Device /\ Only(d, a, {"cur"}) /\ a.cur = n
  BY <1>t, DeviceIs DEF Only, Fields
<1>e. e = At(b, n, "round")
  BY DEF Opened
<1> HIDE DEF a
<1>2. Sound(a) /\ (Quiet(d) => Quiet(a))
  <2>1. /\ a.writes = d.writes /\ a.cancels = d.cancels /\ a.reports = d.reports /\ a.obj = d.obj
        /\ a.restore = d.restore
    BY <1>1 DEF Only, Fields
  <2>2. Numbered(a)
    BY <1>t, <1>1, <2>1 DEF Sound, Numbered, Queued
  <2>3. Called(a) /\ Reporting(a)
    BY <2>1 DEF Sound, Called, Reporting, Queued
  <2> QED
    BY <1>1, <2>1, <2>2, <2>3 DEF Sound, Quiet, Queued
<1>3. /\ Sound(b) /\ (Quiet(a) => Quiet(b)) /\ Only(a, b, {"active", "cancels"})
      /\ b.active = "starting"
      /\ \A c \in Cancels : /\ b.cancels[c].on = a.cancels[c].on /\ ~b.cancels[c].attached
  <2>1. "starting" \in Cards
    BY DEF Cards
  <2> QED
    BY <1>t, <1>1, <1>2, <2>1, CardFacts
<1> HIDE DEF b
<1>4. /\ Sound(e) /\ Only(b, e, {"start"}) /\ (Quiet(b) => Quiet(e))
      /\ e.start[n].pc = "round" /\ e.start[n].stale = ("round" # "done" /\ b.start[n].stale)
      /\ \A m \in Starts : m # n => e.start[m] = b.start[m]
  <2>1. "round" \in Pcs
    BY DEF Pcs
  <2> QED
    BY <1>e, <1>3, <2>1, AtFacts
<1>5. /\ Only(d, e, {"cur", "active", "cancels", "start"}) /\ e.cancels = b.cancels
      /\ a.cancels = d.cancels /\ e.cur = n /\ e.active = "starting" /\ b.start = d.start
  BY <1>1, <1>3, <1>4 DEF Only, Fields
<1> QED
  BY <1>t, <1>2, <1>3, <1>4, <1>5

(***************************************************************************)
(* The restore.                                                            *)
(***************************************************************************)
\* The restore is at another place.
LEMMA RestoreGiven ==
  ASSUME NEW d, Sound(d), NEW r \in RestoreStates, NEW e, e = [d EXCEPT !.restore = r]
  PROVE  Sound(e) /\ Only(d, e, {"restore"}) /\ e.restore = r
<1>1. e \in Device /\ Only(d, e, {"restore"}) /\ e.restore = r
  BY DeviceIs DEF Sound, Only, Fields
<1>2. /\ Only(d, e, {"disk", "obj", "start", "busy", "task", "restore", "coach", "active"})
      /\ e.active = d.active /\ e.coach = d.coach
  BY <1>1 DEF Only, Fields
<1>3. Sound(e)
  BY <1>1, <1>2, SoundStays DEF Sound, Numbered
<1> QED
  BY <1>1, <1>3

\* The journal of the restore is written.
LEMMA RestoreWritesFacts ==
  ASSUME NEW d, Sound(d), NEW p \in ReportPcs, NEW e, e = RestoreWrites(d, p)
  PROVE  /\ Sound(e) /\ Only(d, e, {"restore", "writes"})
         /\ e.restore = [pc |-> p, j |-> d.restore.j]
         /\ \E x \in Calls : /\ x.by = "restore" /\ x.n = 0 /\ x.j = d.restore.j
                             /\ e.writes = Append(d.writes, x)
<1> DEFINE x == [by |-> "restore", n |-> 0, j |-> d.restore.j, status |-> "none"]
           r == [pc |-> p, j |-> d.restore.j]
           a == [d EXCEPT !.restore = r]
<1>t. d \in Device /\ d.restore \in RestoreStates /\ d.restore.j \in Journals
      /\ d.writes \in Seq(Calls)
  BY DeviceIs DEF Sound, RestoreStates
<1>1. r \in RestoreStates
  BY <1>t DEF RestoreStates
<1>2. x \in Calls /\ x.by = "restore" /\ x.n = 0 /\ x.j = d.restore.j
  BY <1>t, ExplanationBoundsAssumption DEF Calls, Cancels
<1>3. Sound(a) /\ Only(d, a, {"restore"}) /\ a.restore = r
  BY <1>1, RestoreGiven
<1>4. e = [a EXCEPT !.writes = Append(d.writes, x)]
  <2>1. e = [d EXCEPT !.restore = [d.restore EXCEPT !.pc = p], !.writes = Append(d.writes, x)]
    BY <1>t, DeviceIs DEF RestoreWrites
  <2>2. [d.restore EXCEPT !.pc = p] = r
    BY <1>t DEF RestoreStates
  <2> HIDE DEF x, r
  <2> QED
    BY <1>t, <2>1, <2>2, DeviceIs
<1> HIDE DEF x, a
<1>5. a.writes = d.writes /\ a \in Device
  BY <1>3 DEF Only, Fields, Sound
<1>6. /\ Append(d.writes, x) \in Seq(Calls)
      /\ Elements(Append(d.writes, x)) = Elements(d.writes) \cup {x}
      /\ \A S : One(d.writes, S) /\ (x \notin S \/ \A y \in Elements(d.writes) : y \notin S)
           => One(Append(d.writes, x), S)
  BY <1>t, <1>2, AppendFacts
<1>7. e \in Device /\ Only(a, e, {"writes"}) /\ e.writes = Append(d.writes, x)
  BY <1>4, <1>5, <1>6, DeviceIs DEF Only, Fields
<1>8. /\ e.reports = a.reports /\ e.cancels = a.cancels /\ e.active = a.active
      /\ e.coach = a.coach /\ e.cur = a.cur
  BY <1>7 DEF Only, Fields
<1>9. Queued(e) = Queued(a) \cup {x}
  BY <1>5, <1>6, <1>7 DEF Queued
<1>10. Numbered(e)
  BY <1>2, <1>3, <1>8, <1>9 DEF Sound, Numbered
<1>11. Called(e)
  <2>1. \A c \in {"stop", "leave"} : One(e.writes, CallsBy(c))
    BY <1>2, <1>3, <1>5, <1>6, <1>7 DEF Sound, Called, CallsBy
  <2> QED
    BY <2>1, <1>2, <1>3, <1>8, <1>9 DEF Sound, Called
<1>12. Reporting(e)
  <2>1. One(e.writes, CallsBy("report"))
    BY <1>2, <1>3, <1>5, <1>6, <1>7 DEF Sound, Reporting, CallsBy
  <2> QED
    BY <2>1, <1>2, <1>3, <1>8, <1>9 DEF Sound, Reporting
<1>13. Only(d, e, {"restore", "writes"}) /\ e.restore = r
  BY <1>3, <1>7 DEF Only, Fields
<1> QED
  BY <1>2, <1>7, <1>10, <1>11, <1>12, <1>13 DEF Sound

\* What a restore makes of a journal.
LEMMA ReconciledFacts ==
  ASSUME NEW j \in Journals, NEW k, k = Reconciled(j)
  PROVE  /\ k \in Journals
         /\ k # j => j.phase \in {"running", "dispatching"} /\ k.phase = "unknown"
<1>1. CASE j.phase \in {"running", "dispatching"}
  <2> DEFINE r == [status |-> "interrupted", rev |-> NextRev(j)]
  <2>1. j.rev \in Nat /\ j.report.rev \in Nat /\ j.report \in [status : Statuses, rev : Nat]
    BY JournalFacts
  <2>2. r \in [status : Statuses, rev : Nat]
    BY <2>1 DEF NextRev, Statuses, Final
  <2>3. \E q \in [status : Statuses, rev : Nat] : k = [j EXCEPT !.phase = "unknown", !.report = q]
    <3>1. CASE HasClaim(j)
      BY <1>1, <2>2, <3>1 DEF Reconciled
    <3>2. CASE ~HasClaim(j)
      <4>1. k = [j EXCEPT !.phase = "unknown", !.report = j.report]
        BY <1>1, <3>2 DEF Reconciled
      <4> QED
        BY <2>1, <4>1
    <3> QED
      BY <3>1, <3>2
  <2> QED
    BY <1>1, <2>3 DEF Journals
<1>2. CASE j.phase \notin {"running", "dispatching"}
  BY <1>2 DEF Reconciled
<1> QED
  BY <1>1, <1>2

\* The file has been read.
LEMMA RestoredFacts ==
  ASSUME NEW d, Sound(d), NEW e, e = Restored(d)
  PROVE  /\ Sound(e) /\ Only(d, e, {"restore", "writes"})
         /\ \/ /\ d.disk.phase \in {"running", "dispatching"}
               /\ e.restore.pc = "storing" /\ e.restore.j.phase = "unknown"
               /\ \E x \in Calls : /\ x.by = "restore" /\ x.n = 0 /\ x.j = e.restore.j
                                   /\ e.writes = Append(d.writes, x)
            \/ /\ e.restore = [pc |-> "sending", j |-> d.disk] /\ HasReport(d.disk)
               /\ e.writes = d.writes
            \/ e = d
<1> DEFINE k == Reconciled(d.disk)
           m == [d EXCEPT !.restore = [pc |-> "sending", j |-> k]]
<1>t. d.disk \in Journals
  BY DeviceIs DEF Sound
<1>1. /\ k \in Journals
      /\ k # d.disk => d.disk.phase \in {"running", "dispatching"} /\ k.phase = "unknown"
  BY <1>t, ReconciledFacts
<1>r. Restored(d) = IF k # d.disk THEN RestoreWrites(m, "storing")
                    ELSE IF HasClaim(k) /\ HasReport(k) THEN m ELSE d
  BY DEF Restored
<1> HIDE DEF k
<1>2. [pc |-> "sending", j |-> k] \in RestoreStates /\ "storing" \in ReportPcs
  BY <1>1 DEF RestoreStates, ReportPcs
<1>3. Sound(m) /\ Only(d, m, {"restore"}) /\ m.restore = [pc |-> "sending", j |-> k]
  BY <1>2, RestoreGiven
<1> HIDE DEF m
<1>4. CASE k # d.disk
  <2>1. /\ Sound(e) /\ Only(m, e, {"restore", "writes"})
        /\ e.restore = [pc |-> "storing", j |-> m.restore.j]
        /\ \E x \in Calls : /\ x.by = "restore" /\ x.n = 0 /\ x.j = m.restore.j
                            /\ e.writes = Append(m.writes, x)
    BY <1>r, <1>2, <1>3, <1>4, RestoreWritesFacts
  <2>2. Only(d, e, {"restore", "writes"}) /\ m.writes = d.writes
    BY <1>3, <2>1 DEF Only, Fields
  <2> QED
    BY <1>1, <1>3, <1>4, <2>1, <2>2
<1>5. CASE k = d.disk
  <2>1. CASE HasClaim(k) /\ HasReport(k)
    <3>1. e = m
      BY <1>r, <1>5, <2>1
    <3> QED
      BY <1>3, <1>5, <2>1, <3>1 DEF Only, Fields
  <2>2. CASE ~(HasClaim(k) /\ HasReport(k))
    <3>1. e = d
      BY <1>r, <1>5, <2>2
    <3> QED
      BY <3>1 DEF Only, Fields
  <2> QED
    BY <2>1, <2>2
<1> QED
  BY <1>4, <1>5

(***************************************************************************)
(* Steps that move the device, with or without the first call of the queue. *)
(***************************************************************************)
\* The starts that the device and its report on the way speak of are in N.
Waited(w, N) == \A m \in w : m.kind = "report" /\ ~m.late => m.n \in N
Kept(d, w, N) == Within(d, N) /\ Waited(w, N)

\* Device e and requests v may follow d and w.
Moved(d, w, e, v) ==
  /\ Only(d, e, {"disk", "writes", "obj", "coach", "active", "busy", "task", "cancels", "reports", "start"})
  /\ \A n \in Starts : e.start[n].pc = d.start[n].pc
  /\ \A n \in Starts :
       e.obj[n].phase = d.obj[n].phase \/ (n = d.cur /\ e.obj[n].phase \in {"unknown", "terminal"})
  /\ e.disk = d.disk \/ \E x \in Journaled(d) : e.disk = x.j
  /\ \A x \in Queued(e) : x \in Queued(d) \/ Extra(d, x)
  /\ \A x \in Queued(d) : x.by \in {"start", "restore", "undo"} => x \in Queued(e)
  /\ \A S : (\A x \in S : x.by \in {"start", "restore"}) /\ One(d.writes, S) => One(e.writes, S)
  /\ \A N : Kept(d, w, N) => Kept(e, v, N)
  /\ UndoFirst(d.writes) => UndoFirst(e.writes)

\* No call has left the queue.
LEMMA StillMoved ==
  ASSUME NEW d, NEW e, NEW w, NEW v, NEW M, Moves(d, e, M),
         \A N : Kept(d, w, N) => M \subseteq N /\ Waited(v, N)
  PROVE  Moved(d, w, e, v)
<1>1. Only(d, e, {"disk", "writes", "obj", "coach", "active", "busy", "task", "cancels", "reports",
                  "start"}) /\ e.disk = d.disk
  BY DEF Moves, Only, Fields
<1>2. \A N : Kept(d, w, N) => Kept(e, v, N)
  BY DEF Moves, Kept
<1> QED
  BY <1>1, <1>2 DEF Moves, Moved

\* A call before that of an undo has left the queue.
LEMMA UndoLanded ==
  ASSUME NEW s \in Seq(Calls), s # << >>, Head(s).by # "undo", UndoFirst(s)
  PROVE  UndoFirst(Tail(s)) /\ Head(s).by # "coach"
<1>1. /\ Tail(s) \in Seq(Calls) /\ Head(s) = s[1] /\ Len(s) \in Nat \ {0}
      /\ Len(Tail(s)) = Len(s) - 1 /\ \A i \in 1 .. Len(s) - 1 : Tail(s)[i] = s[i + 1]
  OBVIOUS
<1>2. PICK i \in 1 .. Len(s) : s[i].by = "undo" /\ \A k \in 1 .. Len(s) : s[k].by = "coach" => k > i
  BY DEF UndoFirst
<1>3. i # 1 /\ i \in Nat /\ 1 \in 1 .. Len(s) /\ ~(1 > i)
  BY <1>1, <1>2
<1>4. i - 1 \in 1 .. Len(Tail(s)) /\ Tail(s)[i - 1] = s[i]
  BY <1>1, <1>3
<1>5. \A k \in 1 .. Len(Tail(s)) : Tail(s)[k].by = "coach" => k > i - 1
  <2> SUFFICES ASSUME NEW k \in 1 .. Len(Tail(s)), Tail(s)[k].by = "coach"
               PROVE  k > i - 1
    OBVIOUS
  <2>1. k + 1 \in 1 .. Len(s) /\ Tail(s)[k] = s[k + 1] /\ k \in Nat
    BY <1>1
  <2>2. k + 1 > i
    BY <1>2, <2>1
  <2> QED
    BY <1>3, <2>1, <2>2
<1> QED
  BY <1>1, <1>2, <1>3, <1>4, <1>5 DEF UndoFirst

\* A call has left the queue, and its caller goes on.
LEMMA LandedMoved ==
  ASSUME NEW d, Sound(d), d.writes # << >>, Head(d.writes).by \notin {"start", "restore", "undo"},
         NEW e, NEW w, NEW v, NEW M, Moves(Landed(d), e, M),
         \A N : Kept(d, w, N) => M \subseteq N /\ Waited(v, N)
  PROVE  Moved(d, w, e, v)
<1> DEFINE l == Landed(d)
<1>1. /\ Only(d, l, {"disk", "writes"}) /\ l.writes = Tail(d.writes)
      /\ l.disk = IF Head(d.writes).by \in Cancels THEN d.disk ELSE Head(d.writes).j
      /\ Head(d.writes) \in Queued(d) /\ Head(d.writes) \in Calls
      /\ Queued(l) \subseteq Queued(d) /\ Queued(d) \subseteq Queued(l) \cup {Head(d.writes)}
      /\ \A S : One(d.writes, S) => One(l.writes, S)
  BY LandedFacts
<1>m. Moves(l, e, M)
  OBVIOUS
<1>t. d.writes \in Seq(Calls)
  BY QueuedFacts DEF Sound
<1> HIDE DEF l
<1>2. l.cur = d.cur /\ l.obj = d.obj /\ l.start = d.start /\ l.cancels = d.cancels /\ l.reports = d.reports
  BY <1>1 DEF Only, Fields
<1>3. Only(d, e, {"disk", "writes", "obj", "coach", "active", "busy", "task", "cancels", "reports",
                  "start"}) /\ e.disk = l.disk
  BY <1>1, <1>m DEF Moves, Only, Fields
<1>4. e.disk = d.disk \/ \E x \in Journaled(d) : e.disk = x.j
  BY <1>1, <1>3 DEF Journaled
<1>5. /\ \A n \in Starts : e.start[n].pc = d.start[n].pc
      /\ \A n \in Starts :
           e.obj[n].phase = d.obj[n].phase \/ (n = d.cur /\ e.obj[n].phase \in {"unknown", "terminal"})
  BY <1>2, <1>m DEF Moves
<1>6. \A x \in Queued(e) : x \in Queued(d) \/ Extra(d, x)
  <2> SUFFICES ASSUME NEW x \in Queued(e), x \notin Queued(d)
               PROVE  Extra(d, x)
    OBVIOUS
  <2>1. Extra(l, x)
    BY <1>1, <1>m DEF Moves
  <2> QED
    BY <1>2, <2>1 DEF Extra
<1>7. \A x \in Queued(d) : x.by \in {"start", "restore", "undo"} => x \in Queued(e)
  BY <1>1, <1>m DEF Moves
<1>8. \A S : (\A x \in S : x.by \in {"start", "restore"}) /\ One(d.writes, S) => One(e.writes, S)
  BY <1>1, <1>m DEF Moves
<1>9. \A N : Kept(d, w, N) => Kept(e, v, N)
  <2> SUFFICES ASSUME NEW N, Kept(d, w, N)
               PROVE  Within(e, N)
    BY DEF Kept
  <2>1. Within(l, N)
    BY <1>1, <1>2 DEF Kept, Within
  <2> QED
    BY <2>1, <1>m DEF Moves
<1>10. UndoFirst(d.writes) => UndoFirst(e.writes)
  BY <1>1, <1>m, <1>t, UndoLanded DEF Moves
<1> QED
  BY <1>3, <1>4, <1>5, <1>6, <1>7, <1>8, <1>9, <1>10 DEF Moved

(***************************************************************************)
(* The types.                                                              *)
(***************************************************************************)
\* Requests whose sender waits.
Asks(w, kind) == {m \in w : m.kind = kind /\ ~m.late}

\* The requests under way: one report at most is waited for.
Wired(d, w) ==
  /\ \A m \in w : m \in Requests /\ (m.kind # "restore" => m.n # 0)
  /\ Asks(w, "report") # {} => d.reports.pc = "sending"
  /\ \A m, x \in Asks(w, "report") : m = x

\* The types of the history.
Histories == [dispatches : Nat, breaks : 0 .. MaxBreaks, early : BOOLEAN, lost : BOOLEAN,
              may : BOOLEAN]

\* A start that has claimed is, or was, the one of the card.
Placing == {"claiming", "claimed", "lost", "round", "dispatching", "submitting", "creating"}
\* A start past its claim is the one that the coordinator has.
Placed(d, w) ==
  ((\E n \in Starts : d.start[n].pc \in Placing) \/ Asks(w, "claim") # {}) => d.cur # 0

\* All types.
Typed ==
  /\ server \in Rows /\ Sound(dev) /\ Wired(dev, wire) /\ Placed(dev, wire) /\ here \in {"in", "left", "out"}
  /\ seen \in Histories

\* A typed state is of the types.
LEMMA TypedIsTypeOK == Typed => TypeOK
  BY DEF Typed, TypeOK, Sound, Wired, Histories

\* The same requests with a device whose reports are where they were.
LEMMA WiredStays ==
  ASSUME NEW d, NEW e, NEW w, Wired(d, w), d.reports.pc = "sending" => e.reports.pc = "sending"
  PROVE  Wired(e, w)
  BY DEF Wired

(***************************************************************************)
(* What each action does.                                                  *)
(***************************************************************************)
\* The coach begins a round.
LEMMA CoachRoundFacts ==
  ASSUME Typed, CoachRound
  PROVE  dev.coach = "round" /\ Rounds(dev, dev') /\ dev'.coach \in {"off", "texting", "consuming"}
<1>1. dev.coach = "round" /\ Sound(dev) /\ "finished" \in Ended
  BY DEF CoachRound, Typed, Ended
<1>2. CASE dev' = Ends(dev, "finished")
  <2>1. dev.active # "none" => dev.cur # 0
    BY <1>1 DEF Sound, Numbered
  <2> QED
    BY <1>1, <1>2, <2>1, EndsRounds, EndsFacts
<1>3. CASE dev' = Texts(dev)
  BY <1>1, <1>3, TextsFacts
<1>4. CASE /\ MayAsk(dev.obj[dev.cur])
           /\ dev' = Write([Status(dev, "working") EXCEPT !.coach = "consuming",
                                                         !.obj[dev.cur].asked = @ + 1],
                           "coach", dev.cur)
  BY <1>1, <1>4, ConsumesFacts
<1> QED
  BY <1>2, <1>3, <1>4 DEF CoachRound

\* The model answers.
LEMMA ModelAnswersFacts ==
  ASSUME Typed, ModelAnswers
  PROVE  dev.coach = "asking" /\ Rounds(dev, dev') /\ dev'.coach \notin {"round", "consuming", "asking"}
<1>1. dev.coach = "asking" /\ Sound(dev) /\ {"finished", "failed", "unknown"} \subseteq Ended
  BY DEF ModelAnswers, Typed, Ended
<1>2. dev.active # "none" => dev.cur # 0
  BY <1>1 DEF Sound, Numbered
<1>3. \A status \in Ended : Rounds(dev, Ends(dev, status)) /\ Ends(dev, status).coach = "off"
  BY <1>1, <1>2, EndsRounds, EndsFacts
<1>4. Rounds(dev, Texts(dev)) /\ Texts(dev).coach = "texting"
  BY <1>1, TextsFacts
<1>5. CASE dev' = Limited(dev)
  <2>1. Limited(dev) = Texts(dev) \/ Limited(dev) = Ends(dev, "failed")
    BY DEF Limited
  <2> QED
    BY <1>1, <1>3, <1>4, <1>5, <2>1
<1> QED
  BY <1>1, <1>3, <1>4, <1>5 DEF ModelAnswers

\* A coach is said to go on, or another card is shown.
LEMMA ShownRounds ==
  ASSUME NEW d, Sound(d), d.coach # "off", d.active # "none", NEW e \in Device,
         Only(d, e, {"active", "coach"}), e.coach # "off", e.active # "none"
  PROVE  Rounds(d, e)
<1>1. /\ Only(d, e, {"coach", "active", "busy", "task"})
      /\ Only(d, e, {"active", "obj", "writes", "coach", "busy", "task"})
      /\ e.busy = d.busy /\ e.task = d.task
  BY DEF Only, Fields
<1>2. Sound(e) /\ (\A M : Moves(d, e, M)) /\ (Quiet(d) => Quiet(e))
  BY <1>1, LightFacts DEF Sound, Numbered
<1> QED
  BY <1>1, <1>2 DEF Rounds

\* Steps of the coach follow each other.
LEMMA RoundsOn ==
  ASSUME NEW d, NEW e, NEW f, Rounds(d, e), Rounds(e, f), e.coach # "off"
  PROVE  Rounds(d, f)
<1>1. \A M : Moves(d, f, M)
  BY MovesOn, QueuedFacts DEF Rounds, Sound
<1>2. Only(d, f, {"active", "obj", "writes", "coach", "busy", "task"})
  BY DEF Rounds, Only, Fields
<1>3. e.busy = d.busy /\ e.task = d.task /\ (Quiet(d) => Quiet(e))
  BY DEF Rounds
<1> QED
  BY <1>1, <1>2, <1>3 DEF Rounds

\* The student goes on or finishes.
LEMMA ContinueFacts ==
  ASSUME Typed, Continue
  PROVE  /\ dev.coach = "waiting" /\ Rounds(dev, dev') /\ dev'.coach \in {"off", "round"}
         /\ dev'.coach = "round" => seen'.may
         /\ seen' \in {seen, [seen EXCEPT !.may = TRUE]}
<1> DEFINE a == [dev EXCEPT !.active = "working"]
<1>1. dev.coach = "waiting" /\ dev.active = "waiting" /\ Sound(dev) /\ seen \in Histories
  BY DEF Continue, Typed
<1>2. /\ "working" \in Cards \ {"none"} /\ {"waiting", "round"} \subseteq CoachPcs \ {"off"}
      /\ "finished" \in Ended
  BY DEF Cards, CoachPcs, Ended
<1>3. Rounds(dev, a) /\ a.coach = "waiting"
  <2>1. a \in Device /\ Only(dev, a, {"active", "coach"}) /\ a.active = "working" /\ a.coach = "waiting"
    BY <1>1, <1>2, DeviceIs DEF Sound, Only, Fields
  <2> HIDE DEF a
  <2> QED
    BY <1>1, <2>1, ShownRounds
<1>4. CASE dev' = Ends(a, "finished") /\ seen' = seen
  <2> HIDE DEF a
  <2>1. Sound(a) /\ a.cur # 0
    BY <1>3 DEF Rounds, Sound, Numbered
  <2>2. Rounds(a, dev') /\ dev'.coach = "off"
    BY <1>2, <1>3, <1>4, <2>1, EndsRounds, EndsFacts
  <2>3. Rounds(dev, dev')
    BY <1>3, <2>2, RoundsOn
  <2> QED
    BY <1>1, <1>4, <2>2, <2>3
<1>5. CASE /\ dev' = [dev EXCEPT !.active = "working", !.coach = "round"]
           /\ seen' = [seen EXCEPT !.may = TRUE]
  <2>0. /\ dev' \in Device /\ Only(dev, dev', {"active", "coach"})
        /\ dev'.active = "working" /\ dev'.coach = "round"
    BY <1>1, <1>2, <1>5, DeviceIs DEF Sound, Only, Fields
  <2>1. Rounds(dev, dev') /\ dev'.coach = "round"
    BY <1>1, <2>0, ShownRounds
  <2> QED
    BY <1>1, <1>5, <2>1 DEF Histories
<1> QED
  BY <1>4, <1>5 DEF Continue

\* A write of the coach is done.
LEMMA CoachLandsFacts ==
  ASSUME Typed, CoachLands
  PROVE  LET l == Landed(dev) IN
         /\ dev.writes # << >> /\ Head(dev.writes).by = "coach"
         /\ dev' = l \/ (Rounds(l, dev') /\ l.coach # "off")
         /\ dev'.coach \in {l.coach, "off", "asking", "waiting"}
         /\ dev'.coach = "asking" => l.coach \in {"consuming", "asking"}
         /\ dev'.coach # "consuming"
         /\ seen' = IF l.coach = "consuming" THEN [seen EXCEPT !.may = FALSE] ELSE seen
<1> DEFINE l == Landed(dev)
<1>1. dev.writes # << >> /\ Head(dev.writes).by = "coach"
  BY DEF CoachLands, Lands
<1>2. Sound(l) /\ l \in Device
  BY <1>1, LandedFacts DEF Typed, Sound
<1>3. /\ dev' = CASE l.coach = "consuming" -> [l EXCEPT !.coach = "asking"]
                  [] l.coach = "texting" ->
                       IF l.active = "none" THEN Ends(l, "failed")
                       ELSE [l EXCEPT !.coach = "waiting", !.active = "waiting"]
                  [] OTHER -> l
      /\ seen' = IF l.coach = "consuming" THEN [seen EXCEPT !.may = FALSE] ELSE seen
  BY DEF CoachLands
<1> HIDE DEF l
<1>4. CASE l.coach = "consuming"
  <2>1. dev' = [l EXCEPT !.coach = "asking"]
    BY <1>3, <1>4
  <2>2. dev' \in Device /\ Only(l, dev', {"coach"}) /\ dev'.coach = "asking"
    BY <1>2, <2>1, DeviceIs DEF Only, Fields, CoachPcs
  <2>3. /\ Only(l, dev', {"coach", "active", "busy", "task"})
        /\ Only(l, dev', {"active", "obj", "writes", "coach", "busy", "task"})
        /\ dev'.busy = l.busy /\ dev'.task = l.task /\ dev'.active = l.active
    BY <2>2 DEF Only, Fields
  <2>4. l.cur # 0
    BY <1>2, <1>4 DEF Sound, Numbered
  <2>5. Sound(dev') /\ (\A M : Moves(l, dev', M)) /\ (Quiet(l) => Quiet(dev'))
    BY <1>2, <2>2, <2>3, <2>4, LightFacts
  <2>6. Rounds(l, dev')
    BY <2>2, <2>3, <2>5 DEF Rounds
  <2> QED
    BY <1>1, <1>3, <1>4, <2>2, <2>6 DEF l
<1>5. CASE l.coach = "texting" /\ l.active = "none"
  <2>1. dev' = Ends(l, "failed") /\ "failed" \in Ended /\ l.coach # "consuming"
    BY <1>3, <1>5 DEF Ended
  <2>2. Rounds(l, dev') /\ dev'.coach = "off"
    BY <1>2, <1>5, <2>1, EndsRounds, EndsFacts
  <2> QED
    BY <1>1, <1>3, <1>5, <2>1, <2>2 DEF l
<1>6. CASE l.coach = "texting" /\ l.active # "none"
  <2>1. dev' = [l EXCEPT !.coach = "waiting", !.active = "waiting"] /\ l.coach # "consuming"
    BY <1>3, <1>6
  <2>2. /\ dev' \in Device /\ Only(l, dev', {"active", "coach"})
        /\ dev'.active = "waiting" /\ dev'.coach = "waiting"
    BY <1>2, <2>1, DeviceIs DEF Only, Fields, Cards, CoachPcs
  <2>3. Rounds(l, dev') /\ dev'.coach = "waiting"
    BY <1>2, <1>6, <2>2, ShownRounds
  <2> QED
    BY <1>1, <1>3, <1>6, <2>1, <2>3 DEF l
<1>7. CASE l.coach \notin {"consuming", "texting"}
  <2>1. dev' = l /\ l.coach # "consuming"
    BY <1>3, <1>7
  <2> QED
    BY <1>1, <1>3, <1>7, <2>1 DEF l
<1> QED
  BY <1>4, <1>5, <1>6, <1>7

\* The end is saved, and a report of it begins.
LEMMA TerminalLandsFacts ==
  ASSUME Typed, TerminalLands
  PROVE  /\ \E w \in Queued(dev) : w.by = "terminal"
         /\ Sound(dev') /\ Wired(dev', wire') /\ Moved(dev, wire, dev', wire')
         /\ Only(dev, dev', {"disk", "writes", "obj", "reports"})
<1> DEFINE l == Landed(dev)
           w == Head(dev.writes)
<1>1. /\ dev.writes # << >> /\ w.by = "terminal" /\ dev' = Told(l, w.status, w.n) /\ wire' = wire
      /\ Sound(dev) /\ Wired(dev, wire)
  BY DEF TerminalLands, Lands, Typed
<1>2. /\ Sound(l) /\ Only(dev, l, {"disk", "writes"}) /\ w \in Queued(dev) /\ w \in Calls
      /\ Queued(l) \subseteq Queued(dev)
  BY <1>1, LandedFacts
<1>3. w.n \in Starts /\ w.status \in Statuses
  <2>1. w.n # 0 /\ w.status # "none"
    BY <1>1, <1>2 DEF Sound, Numbered
  <2> QED
    BY <1>2, <2>1, JournalFacts DEF Outcomes
<1>4. /\ Sound(dev') /\ Moves(l, dev', {w.n}) /\ Only(l, dev', {"obj", "reports", "writes"})
      /\ l.reports.pc # "idle" => dev'.reports.pc = l.reports.pc
  BY <1>1, <1>2, <1>3, ToldFacts
<1>5. \A N : Kept(dev, wire, N) => {w.n} \subseteq N /\ Waited(wire', N)
  BY <1>1, <1>2 DEF Kept, Within
<1>6. Moved(dev, wire, dev', wire')
  BY <1>1, <1>4, <1>5, LandedMoved
<1> HIDE DEF l, w
<1>7. Only(dev, dev', {"disk", "writes", "obj", "reports"}) /\ l.reports = dev.reports
  BY <1>2, <1>4 DEF Only, Fields
<1>8. Wired(dev', wire')
  BY <1>1, <1>4, <1>7, WiredStays
<1> QED
  BY <1>1, <1>2, <1>4, <1>6, <1>7, <1>8

\* A step that neither works on the queue nor sends or receives.
LEMMA StepMoved ==
  ASSUME wire' = wire, \A M : Moves(dev, dev', M)
  PROVE  Moved(dev, wire, dev', wire')
<1>1. \A N : Kept(dev, wire, N) => {} \subseteq N /\ Waited(wire', N)
  BY DEF Kept
<1>2. Moves(dev, dev', {})
  OBVIOUS
<1> QED
  BY <1>1, <1>2, StillMoved

\* The student stops the explanation.
LEMMA StopFacts ==
  ASSUME Typed, Stop
  PROVE  /\ Stops(dev, dev') /\ dev.active # "none" /\ dev'.active # "none"
         /\ Moved(dev, wire, dev', wire')
<1> DEFINE s == Staled(dev)
<1>1. /\ dev.active # "none" /\ ~dev.cancels["stop"].on
      /\ dev' \in Rejected(s, "stop") /\ wire' = wire /\ Sound(dev)
  BY DEF Stop, Typed
<1>2. /\ Sound(s) /\ (\A M : Moves(dev, s, M)) /\ (Quiet(dev) => Quiet(s)) /\ Only(dev, s, {"start"})
      /\ \A n \in Starts : s.start[n].pc = dev.start[n].pc
  BY <1>1, StaledFacts
<1> HIDE DEF s
<1>3. /\ s.cancels = dev.cancels /\ s.cur = dev.cur /\ s.active = dev.active
      /\ s.coach = dev.coach /\ s.busy = dev.busy /\ s.task = dev.task
  BY <1>2 DEF Only, Fields
<1>5. Stops(s, dev') /\ dev'.start = s.start /\ (dev'.active = "none" <=> s.active = "none")
  BY <1>1, <1>2, <1>3, RejectedFacts
<1>6. \A M : Moves(dev, dev', M)
  BY <1>2, <1>5, MovesOn, QueuedFacts DEF Stops, Sound
<1>7. Only(dev, dev', {"active", "obj", "writes", "coach", "busy", "task", "cancels", "start"})
  BY <1>2, <1>5 DEF Stops, Only, Fields
<1>8. Stops(dev, dev')
  BY <1>2, <1>3, <1>5, <1>6, <1>7 DEF Stops
<1>9. Moved(dev, wire, dev', wire')
  BY <1>1, <1>6, StepMoved
<1> QED
  BY <1>1, <1>3, <1>5, <1>8, <1>9

\* The student leaves the class.
LEMMA LeaveFacts ==
  ASSUME Typed, Leave
  PROVE  /\ Stops(dev, dev') /\ dev'.active = "none" /\ \A c \in Cancels : ~dev'.cancels[c].attached
         /\ Moved(dev, wire, dev', wire')
<1>1. Sound(dev) /\ ~dev.cancels["leave"].on /\ dev' \in Invalidated(dev) /\ wire' = wire
  BY DEF Leave, Typed
<1>2. /\ Stops(dev, dev') /\ dev'.active = "none" /\ \A c \in Cancels : ~dev'.cancels[c].attached
  BY <1>1, InvalidatedFacts
<1>3. Moved(dev, wire, dev', wire')
  BY <1>1, <1>2, StepMoved DEF Stops
<1> QED
  BY <1>2, <1>3

\* The student signs out.
LEMMA SignOutFacts ==
  ASSUME Typed, SignOut
  PROVE  /\ Sound(dev') /\ Moved(dev, wire, dev', wire')
         /\ Only(dev, dev', {"active", "obj", "writes", "coach", "busy", "task", "cancels", "start"})
         /\ dev'.active = "none" /\ \A c \in Cancels : ~dev'.cancels[c].attached
         /\ \A n \in Starts : dev'.start[n].stale = (dev.start[n].pc \notin {"unused", "done"})
         /\ \A c \in Cancels : dev.cancels[c].on => dev'.cancels[c].on
         /\ dev.active \notin Ended \cup {"none"} => dev'.cancels["leave"].on
         /\ dev'.coach \in {"off", dev.coach} /\ (dev.busy.route => dev'.coach = "off")
         /\ \/ dev'.busy = Free /\ dev'.task = "over"
            \/ /\ dev'.busy = dev.busy /\ dev'.task = dev.task
               /\ dev'.coach = Aborted(dev).coach
<1> DEFINE a == Aborted(dev)
<1>1. Sound(dev) /\ ~dev.cancels["leave"].on /\ dev' \in Invalidated(a) /\ wire' = wire
  BY DEF SignOut, Typed
<1>2. /\ Sound(a) /\ (\A M : Moves(dev, a, M)) /\ Only(dev, a, {"coach"})
      /\ a.coach = IF dev.busy.route THEN "off" ELSE dev.coach
  BY <1>1, AbortedFacts
<1>h. a.coach = Aborted(dev).coach
  OBVIOUS
<1> HIDE DEF a
<1>3. a.cancels = dev.cancels /\ a.start = dev.start /\ a.busy = dev.busy /\ a.task = dev.task
      /\ a.active = dev.active
  BY <1>2 DEF Only, Fields
<1>4. /\ Stops(a, dev') /\ dev'.active = "none"
      /\ \A n \in Starts : dev'.start[n].stale = (a.start[n].pc \notin {"unused", "done"})
      /\ \A c \in Cancels : ~dev'.cancels[c].attached
      /\ a.active \notin Ended \cup {"none"} => dev'.cancels["leave"].on
  BY <1>1, <1>2, <1>3, InvalidatedFacts
<1>5. \A M : Moves(dev, dev', M)
  BY <1>2, <1>4, MovesOn, QueuedFacts DEF Stops, Sound
<1>6. Moved(dev, wire, dev', wire')
  BY <1>1, <1>5, StepMoved
<1>7. Only(dev, dev', {"active", "obj", "writes", "coach", "busy", "task", "cancels", "start"})
  BY <1>2, <1>4 DEF Stops, Only, Fields
<1>8. /\ dev'.coach \in {"off", a.coach}
      /\ \/ dev'.busy = Free /\ dev'.task = "over"
         \/ /\ dev'.busy = a.busy /\ dev'.task = a.task
            /\ dev'.coach = a.coach
  BY <1>4 DEF Stops
<1> QED
  BY <1>2, <1>3, <1>4, <1>6, <1>7, <1>8, <1>h DEF Stops

\* The companion stops the task.
LEMMA StopTaskFacts ==
  ASSUME Typed, StopTask
  PROVE  /\ Sound(dev') /\ Moved(dev, wire, dev', wire') /\ Only(dev, dev', {"cancels", "writes"})
         /\ (Quiet(dev) => Quiet(dev')) /\ ~dev'.cancels["task"].attached
         /\ dev'.cancels["task"].on /\ \A b \in Cancels : b # "task" => dev'.cancels[b] = dev.cancels[b]
<1>1. Sound(dev) /\ ~dev.cancels["task"].on /\ dev' = Calling(dev, "task") /\ wire' = wire
  BY DEF StopTask, Typed
<1>2. /\ Sound(dev') /\ (\A M : Moves(dev, dev', M)) /\ (Quiet(dev) => Quiet(dev'))
      /\ Only(dev, dev', {"cancels", "writes"})
      /\ dev'.cancels["task"].on /\ dev'.cancels["task"].attached = ("task" = "stop")
      /\ \A b \in Cancels : b # "task" => dev'.cancels[b] = dev.cancels[b]
  BY <1>1, CallingFacts
<1>3. Moved(dev, wire, dev', wire')
  BY <1>1, <1>2, StepMoved
<1> QED
  BY <1>2, <1>3

\* A cancellation has written: its call and its flag are gone.
CallEnds(d, c) == [Landed(d) EXCEPT !.cancels[c] = NoCancel]

\* The cancellation's call was in the queue once.
LEMMA CallEndsFacts ==
  ASSUME NEW d, Sound(d), NEW c \in Cancels \ {"undo"}, d.writes # << >>, Head(d.writes).by = c,
         NEW e, e = CallEnds(d, c), NEW l, l = Landed(d)
  PROVE  /\ Sound(e) /\ Only(l, e, {"cancels"}) /\ Only(d, e, {"cancels", "disk", "writes"})
         /\ e.disk = d.disk /\ (Quiet(d) => Quiet(e)) /\ ~e.cancels[c].on /\ ~e.cancels[c].attached
         /\ \A b \in Cancels : b # c => e.cancels[b] = d.cancels[b]
         /\ c # "task" => d.cancels[c].on /\ d.cancels[c].n \in 0 .. MaxStarts
<1>1. /\ Sound(l) /\ Only(d, l, {"disk", "writes"}) /\ l.writes = Tail(d.writes)
      /\ l.disk = d.disk
      /\ Head(d.writes) \in Queued(d) /\ Head(d.writes) \in Calls
      /\ Queued(l) \subseteq Queued(d)
      /\ \A S : One(d.writes, S) => (Head(d.writes) \in S => \A x \in Queued(l) : x \notin S)
  BY LandedFacts
<1>2. e = [l EXCEPT !.cancels = [l.cancels EXCEPT ![c] = NoCancel]]
  BY DEF CallEnds
<1>3. NoCancel \in CancelStates /\ ~NoCancel.on /\ ~NoCancel.attached
  BY ExplanationBoundsAssumption DEF NoCancel, CancelStates
<1>4. l \in Device /\ l.cancels \in [Cancels -> CancelStates] /\ l.cancels = d.cancels
      /\ d.cancels[c] \in CancelStates
  BY <1>1, DeviceIs DEF Sound, Only, Fields
<1>5. [l.cancels EXCEPT ![c] = NoCancel] \in [Cancels -> CancelStates]
  BY <1>3, <1>4
<1>6. /\ e \in Device /\ Only(l, e, {"cancels"}) /\ e.cancels[c] = NoCancel
      /\ \A b \in Cancels : b # c => e.cancels[b] = d.cancels[b]
  <2> DEFINE f == [l.cancels EXCEPT ![c] = NoCancel]
  <2>1. f[c] = NoCancel /\ \A b \in Cancels : b # c => f[b] = d.cancels[b]
    BY <1>4
  <2>2. f \in [Cancels -> CancelStates] /\ e = [l EXCEPT !.cancels = f]
    BY <1>2, <1>5
  <2> HIDE DEF f
  <2>3. e \in Device /\ Only(l, e, {"cancels"}) /\ e.cancels = f
    BY <1>4, <2>2, DeviceIs DEF Only, Fields
  <2> QED
    BY <2>1, <2>3
<1>7. /\ e.writes = l.writes /\ e.reports = l.reports /\ e.obj = l.obj /\ e.cur = l.cur
      /\ e.start = l.start /\ e.restore = l.restore /\ e.active = l.active /\ e.coach = l.coach
      /\ Only(l, e, {"obj", "coach", "active", "busy", "task", "cancels", "start", "reports"})
      /\ Only(d, e, {"cancels", "disk", "writes"}) /\ {"stop", "leave"} \subseteq Cancels
      /\ e.disk = d.disk /\ l.reports = d.reports /\ l.obj = d.obj /\ l.restore = d.restore
  BY <1>1, <1>6 DEF Only, Fields, Cancels
<1>8. c # "task" => d.cancels[c].on /\ d.cancels[c].n \in 0 .. MaxStarts
  <2>1. c # "task" => c \in {"stop", "leave"}
    BY DEF Cancels
  <2> QED
    BY <1>1, <1>4, <2>1, JournalFacts DEF Sound, Called, CancelStates
<1>9. c # "task" => \A x \in Queued(l) : x.by # c
  <2> SUFFICES ASSUME c # "task", NEW x \in Queued(l)
               PROVE  x.by # c
    OBVIOUS
  <2>1. c \in {"stop", "leave"}
    BY DEF Cancels
  <2>2. One(d.writes, CallsBy(c)) /\ Head(d.writes) \in CallsBy(c)
    BY <1>1, <2>1 DEF Sound, Called, CallsBy
  <2>3. x \in Calls
    BY <1>1, QueuedFacts DEF Sound
  <2> QED
    BY <1>1, <2>2, <2>3 DEF CallsBy
<1>10. Sound(e)
  BY <1>1, <1>3, <1>4, <1>6, <1>7, <1>9 DEF Sound, Numbered, Called, Reporting, Queued
<1>11. Quiet(d) => Quiet(e)
  BY <1>1, <1>7 DEF Quiet, Queued
<1> QED
  BY <1>3, <1>6, <1>7, <1>8, <1>10, <1>11

\* The rest of the device moves.
LEMMA CallEndsMoves ==
  ASSUME NEW l, NEW e, NEW c, NEW M, Only(l, e, {"cancels"}), ~e.cancels[c].on,
         \A b \in Cancels : b # c => e.cancels[b] = l.cancels[b]
  PROVE  Moves(l, e, M)
<1>1. /\ Only(l, e, {"obj", "coach", "active", "busy", "task", "cancels", "start", "reports"})
      /\ e.obj = l.obj /\ e.start = l.start /\ e.reports = l.reports
      /\ {"stop", "leave"} \subseteq Cancels
  BY DEF Only, Fields, Cancels
<1>2. \A N : Within(l, N) /\ M \subseteq N =>
        /\ \A r \in Elements(e.reports.queue) : r.n \in N
        /\ \A b \in {"stop", "leave"} : e.cancels[b].on => e.cancels[b].n \in N
  BY <1>1 DEF Within
<1> QED
  BY <1>1, <1>2, StillMoves

\* The card and the report of a cancellation.
CancelReports(d, attached, n) ==
  LET f == [d EXCEPT !.active = IF attached THEN "cancelled" ELSE @]
  IN IF n = 0 \/ f.obj[n].status = "cancelled" THEN f ELSE Told(f, "cancelled", n)

\* What they do.
LEMMA CancelReportsFacts ==
  ASSUME NEW d, Sound(d), NEW attached \in BOOLEAN, NEW n \in 0 .. MaxStarts,
         NEW e, e = CancelReports(d, attached, n)
  PROVE  /\ Sound(e) /\ Moves(d, e, {n}) /\ Only(d, e, {"active", "obj", "reports", "writes"})
         /\ e.active = IF attached THEN "cancelled" ELSE d.active
         /\ d.reports.pc # "idle" => e.reports.pc = d.reports.pc
<1> DEFINE f == [d EXCEPT !.active = IF attached THEN "cancelled" ELSE @]
<1>1. /\ f \in Device /\ Only(d, f, {"active"}) /\ f.active = IF attached THEN "cancelled" ELSE d.active
      /\ f.active \notin Ended \cup {"none"} => d.active \notin Ended \cup {"none"}
  BY DeviceIs DEF Sound, Only, Fields, Cards, Ended
<1>e. e = f \/ (n # 0 /\ e = Told(f, "cancelled", n))
  BY DEF CancelReports
<1> HIDE DEF f
<1>2. Only(d, f, {"coach", "active", "busy", "task"}) /\ f.coach = d.coach /\ f.reports = d.reports
  BY <1>1 DEF Only, Fields
<1>3. Sound(f) /\ (\A M : Moves(d, f, M))
  BY <1>1, <1>2, LightFacts DEF Sound, Numbered
<1>4. CASE e = f
  <2>1. Only(d, e, {"active", "obj", "reports", "writes"})
    BY <1>1, <1>4 DEF Only, Fields
  <2> QED
    BY <1>1, <1>2, <1>3, <1>4, <2>1
<1>5. CASE n # 0 /\ e = Told(f, "cancelled", n)
  <2>1. "cancelled" \in Statuses /\ n \in Starts
    BY <1>5, JournalFacts DEF Ended
  <2>2. /\ Sound(e) /\ Moves(f, e, {n}) /\ Only(f, e, {"obj", "reports", "writes"})
        /\ f.reports.pc # "idle" => e.reports.pc = f.reports.pc
    BY <1>3, <1>5, <2>1, ToldFacts
  <2>3. Moves(d, e, {n})
    BY <1>3, <2>2, MovesOn, QueuedFacts DEF Sound
  <2>4. Only(d, e, {"active", "obj", "reports", "writes"}) /\ e.active = f.active
    BY <1>1, <2>2 DEF Only, Fields
  <2> QED
    BY <1>1, <1>2, <2>2, <2>3, <2>4
<1> QED
  BY <1>e, <1>4, <1>5

\* A cancellation goes on once its write is done.
LEMMA CancelLandsFacts ==
  ASSUME Typed, NEW c \in Cancels \ {"undo"}, CancelLands(c)
  PROVE  /\ \E w \in Queued(dev) : w.by = c
         /\ Sound(dev') /\ Wired(dev', wire') /\ Moved(dev, wire, dev', wire')
         /\ Only(dev, dev', {"disk", "writes", "cancels", "active", "obj", "coach", "busy", "task",
                             "reports"})
         /\ dev'.active = "none" <=>
              (dev.active = "none" /\ ~(c # "task" /\ dev.cancels[c].attached))
         /\ ~dev'.cancels[c].attached
         /\ \A b \in Cancels : b # c => dev'.cancels[b] = dev.cancels[b]
         /\ \/ /\ dev'.coach = IF dev.busy.route THEN "off" ELSE dev.coach
               /\ dev'.task = "over" /\ (dev'.busy.reserved => dev.busy.reserved)
            \/ /\ ~HasTask \/ here = "out"
               /\ dev'.coach = dev.coach /\ dev'.task = dev.task
               /\ dev'.busy = Free \/ (c = "task" /\ dev'.busy = dev.busy)
<1> DEFINE l == Landed(dev)
           d == [l EXCEPT !.cancels[c] = NoCancel]
           call == dev.cancels[c]
<1>1. dev.writes # << >> /\ Head(dev.writes).by = c /\ Sound(dev) /\ Wired(dev, wire) /\ wire' = wire
  BY DEF CancelLands, Lands, Typed
<1>2. Head(dev.writes) \in Queued(dev)
  BY <1>1, LandedFacts
<1>3. /\ Sound(d) /\ (\A M : Moves(l, d, M)) /\ Only(dev, d, {"cancels", "disk", "writes"})
      /\ d.disk = dev.disk /\ ~d.cancels[c].on /\ ~d.cancels[c].attached
      /\ \A b \in Cancels : b # c => d.cancels[b] = dev.cancels[b]
      /\ c # "task" => call.on /\ call.n \in 0 .. MaxStarts
  <2>1. d = CallEnds(dev, c) /\ l = Landed(dev) /\ call = dev.cancels[c]
    BY DEF CallEnds
  <2> HIDE DEF d, l, call
  <2>2. /\ Sound(d) /\ Only(l, d, {"cancels"}) /\ Only(dev, d, {"cancels", "disk", "writes"})
        /\ d.disk = dev.disk /\ (Quiet(dev) => Quiet(d)) /\ ~d.cancels[c].on /\ ~d.cancels[c].attached
        /\ \A b \in Cancels : b # c => d.cancels[b] = dev.cancels[b]
        /\ c # "task" => dev.cancels[c].on /\ dev.cancels[c].n \in 0 .. MaxStarts
    BY <1>1, <2>1, CallEndsFacts
  <2>3. l.cancels = dev.cancels
    BY <1>1, <2>1, LandedFacts DEF Only, Fields
  <2>4. \A M : Moves(l, d, M)
    BY <2>2, <2>3, CallEndsMoves
  <2> QED
    BY <2>1, <2>2, <2>4
<1>4. call.attached \in BOOLEAN
  BY <1>1, DeviceIs DEF Sound, CancelStates
<1>5. \E e : /\ dev' = IF c = "task" THEN e ELSE CancelReports(e, call.attached, call.n)
             /\ \/ e = TaskCancelled(d)
                \/ (~HasTask \/ here = "out") /\ e = IF c = "task" THEN d ELSE [d EXCEPT !.busy = Free]
  <2>1. \/ dev' = IF c = "task" THEN TaskCancelled(d)
                  ELSE CancelReports(TaskCancelled(d), call.attached, call.n)
        \/ /\ ~HasTask \/ here = "out"
           /\ dev' = IF c = "task" THEN d
                     ELSE CancelReports([d EXCEPT !.busy = Free], call.attached, call.n)
    BY DEF CancelLands, CancelReports
  <2> HIDE DEF d, call
  <2> QED
    BY <2>1
<1> HIDE DEF l, d, call
<1>6. PICK e : /\ dev' = IF c = "task" THEN e ELSE CancelReports(e, call.attached, call.n)
               /\ \/ e = TaskCancelled(d)
                  \/ (~HasTask \/ here = "out") /\ e = IF c = "task" THEN d ELSE [d EXCEPT !.busy = Free]
  BY <1>5
<1>7. d.busy = dev.busy /\ d.coach = dev.coach /\ d.task = dev.task /\ d.active = dev.active
      /\ d.reports = dev.reports
  BY <1>3 DEF Only, Fields
<1>8. /\ Sound(e) /\ (\A M : Moves(d, e, M)) /\ Only(d, e, {"active", "obj", "writes", "coach", "busy", "task"})
      /\ (e.active = "none" <=> d.active = "none")
      /\ \/ /\ e.coach = IF dev.busy.route THEN "off" ELSE dev.coach
            /\ e.task = "over" /\ (e.busy.reserved => dev.busy.reserved)
         \/ /\ ~HasTask \/ here = "out"
            /\ e.coach = dev.coach /\ e.task = dev.task
            /\ e.busy = Free \/ (c = "task" /\ e.busy = dev.busy)
  <2>1. CASE e = TaskCancelled(d)
    <3>1. /\ Sound(e) /\ (\A M : Moves(d, e, M))
          /\ Only(d, e, {"active", "obj", "writes", "coach", "busy", "task"})
          /\ e.coach = IF d.busy.route THEN "off" ELSE d.coach
          /\ e.busy.reserved = d.busy.reserved /\ e.task = "over"
          /\ e.active = "none" <=> d.active = "none"
      BY <1>3, <2>1, TaskCancelledFacts
    <3> QED
      BY <1>7, <3>1
  <2>2. CASE (~HasTask \/ here = "out") /\ e = IF c = "task" THEN d ELSE [d EXCEPT !.busy = Free]
    <3>0. Free \in Holds /\ d \in Device
      BY <1>3 DEF Free, Holds, Sound
    <3>1. /\ e \in Device /\ Only(d, e, {"coach", "active", "busy", "task"})
          /\ e.active = d.active /\ e.coach = d.coach /\ e.task = d.task
          /\ (e.busy = Free \/ (c = "task" /\ e.busy = d.busy))
      <4>1. CASE c = "task"
        BY <2>2, <3>0, <4>1 DEF Only, Fields
      <4>2. CASE c # "task"
        <5>1. e = [d EXCEPT !.busy = Free]
          BY <2>2, <4>2
        <5> QED
          BY <3>0, <5>1, DeviceIs DEF Only, Fields
      <4> QED
        BY <4>1, <4>2
    <3>2. Sound(e) /\ (\A M : Moves(d, e, M))
      BY <1>3, <3>1, LightFacts DEF Sound, Numbered
    <3>3. Only(d, e, {"active", "obj", "writes", "coach", "busy", "task"})
      BY <3>1 DEF Only, Fields
    <3> QED
      BY <1>7, <2>2, <3>1, <3>2, <3>3
  <2> QED
    BY <1>6, <2>1, <2>2
<1>9. \A M : Moves(l, e, M)
  BY <1>3, <1>8, MovesOn, QueuedFacts DEF Sound
<1>10. e.cancels = d.cancels /\ e.reports = dev.reports
       /\ Only(dev, e, {"disk", "writes", "cancels", "active", "obj", "coach", "busy", "task", "reports"})
  BY <1>3, <1>7, <1>8 DEF Only, Fields
<1>11. CASE c = "task"
  <2>1. dev' = e
    BY <1>6, <1>11
  <2>2. Moved(dev, wire, dev', wire')
    <3>1. \A N : Kept(dev, wire, N) => {} \subseteq N /\ Waited(wire', N)
      BY <1>1 DEF Kept
    <3>2. Moves(Landed(dev), dev', {})
      BY <1>9, <2>1 DEF l
    <3>3. Head(dev.writes).by \notin {"start", "restore", "undo"}
      BY <1>1, <1>11
    <3> QED
      BY <1>1, <3>1, <3>2, <3>3, LandedMoved
  <2>3. Wired(dev', wire')
    BY <1>1, <1>10, <2>1, WiredStays
  <2> QED
    BY <1>1, <1>2, <1>3, <1>7, <1>8, <1>10, <1>11, <2>1, <2>2, <2>3
<1>12. CASE c # "task"
  <2>1. dev' = CancelReports(e, call.attached, call.n) /\ call.n \in 0 .. MaxStarts /\ call.on
    BY <1>3, <1>6, <1>12
  <2>2. /\ Sound(dev') /\ Moves(e, dev', {call.n})
        /\ Only(e, dev', {"active", "obj", "reports", "writes"})
        /\ dev'.active = IF call.attached THEN "cancelled" ELSE e.active
        /\ e.reports.pc # "idle" => dev'.reports.pc = e.reports.pc
    BY <1>4, <1>8, <2>1, CancelReportsFacts
  <2>3. Moves(l, dev', {call.n})
    BY <1>9, <2>2, MovesOn, QueuedFacts DEF Sound
  <2>4. c \in {"stop", "leave"}
    BY <1>12 DEF Cancels
  <2>5. \A N : Kept(dev, wire, N) => {call.n} \subseteq N /\ Waited(wire', N)
    BY <1>1, <2>1, <2>4 DEF Kept, Within, call
  <2>6. Moved(dev, wire, dev', wire')
    BY <1>1, <2>3, <2>4, <2>5, LandedMoved DEF l
  <2>7. Wired(dev', wire')
    BY <1>1, <1>10, <2>2, WiredStays
  <2>8. /\ dev'.cancels = d.cancels /\ dev'.coach = e.coach /\ dev'.busy = e.busy
        /\ dev'.task = e.task
        /\ Only(dev, dev', {"disk", "writes", "cancels", "active", "obj", "coach", "busy", "task",
                            "reports"})
    BY <1>10, <2>2 DEF Only, Fields
  <2>9. dev'.active = "none" <=> (dev.active = "none" /\ ~call.attached)
    BY <1>7, <1>8, <2>2
  <2> QED
    BY <1>1, <1>2, <1>3, <1>8, <1>12, <2>2, <2>6, <2>7, <2>8, <2>9 DEF call
<1> QED
  BY <1>11, <1>12

\* What is known of the rows that the server may write.
LEMMA ServerFacts ==
  ASSUME server \in Rows
  PROVE  /\ ClaimRows \in Rows
         /\ \A r \in [status : Statuses, rev : Nat] : ReportRows(r) \in Rows
         /\ \A r : ReportRows(r).owner = server.owner
         /\ server.owner # "none" => ClaimRows = server
         /\ ClaimRows.owner = server.owner \/ server.owner = "none"
<1>1. ClaimRows \in Rows /\ (server.owner # "none" => ClaimRows = server)
  BY DEF ClaimRows, Rows, Statuses
<1>2. \A r \in [status : Statuses, rev : Nat] : ReportRows(r) \in Rows
  BY DEF ReportRows, Rows
<1>3. \A r : ReportRows(r).owner = server.owner
  BY DEF ReportRows, Rows
<1> QED
  BY <1>1, <1>2, <1>3

\* A request that nobody waits for any longer.
Late(m) == [m EXCEPT !.late = TRUE]

\* It is the same request.
LEMMA LateFacts ==
  ASSUME NEW m \in Requests, NEW x, x = Late(m)
  PROVE  x \in Requests /\ x.late /\ x.kind = m.kind /\ x.n = m.n /\ x.report = m.report
  BY DEF Requests, Late

\* The sender gives up: the request is lost, or it is late.
LEMMA GivesUpFacts ==
  ASSUME NEW m \in wire, GivesUp(m)
  PROVE  wire' \subseteq (wire \ {m}) \cup {Late(m)}
  BY DEF GivesUp, Late

\* Without one of its requests, or with that one late, the wire is typed.
LEMMA WithoutFacts ==
  ASSUME NEW w, NEW m \in w, \A x \in w : x \in Requests /\ (x.kind # "restore" => x.n # 0),
         NEW v, v \subseteq (w \ {m}) \cup {Late(m)}
  PROVE  \A x \in v : /\ x \in Requests /\ (x.kind # "restore" => x.n # 0)
                      /\ ~x.late => x \in w \ {m}
<1> DEFINE l == Late(m)
<1>1. m \in Requests /\ (m.kind # "restore" => m.n # 0)
  OBVIOUS
<1>2. l \in Requests /\ l.late /\ l.kind = m.kind /\ l.n = m.n
  BY <1>1, LateFacts
<1> HIDE DEF l
<1>3. \A x \in v : x \in w \ {m} \/ x = l
  BY DEF l
<1> QED
  BY <1>1, <1>2, <1>3

\* It suits a device whose reports are where they were.
LEMMA WiredWithout ==
  ASSUME NEW d, NEW w, NEW m \in w, Wired(d, w), ~m.late, NEW v,
         v \subseteq (w \ {m}) \cup {Late(m)},
         NEW e, m.kind = "report" \/ (d.reports.pc = "sending" => e.reports.pc = "sending")
  PROVE  Wired(e, v)
<1>1. \A x \in v : /\ x \in Requests /\ (x.kind # "restore" => x.n # 0)
                   /\ ~x.late => x \in w \ {m}
  BY WithoutFacts DEF Wired
<1>2. Asks(v, "report") \subseteq Asks(w, "report") \ {m}
  BY <1>1 DEF Asks
<1>3. m.kind = "report" => Asks(v, "report") = {}
  <2> SUFFICES ASSUME m.kind = "report", NEW x \in Asks(v, "report")
               PROVE  FALSE
    OBVIOUS
  <2>1. x \in Asks(w, "report") /\ x # m /\ m \in Asks(w, "report")
    BY <1>2 DEF Asks
  <2> QED
    BY <2>1 DEF Wired
<1> QED
  BY <1>1, <1>2, <1>3 DEF Wired

\* What it waits for was waited for.
LEMMA WaitedWithout ==
  ASSUME NEW d, NEW w, NEW m \in w, Wired(d, w), NEW v, v \subseteq (w \ {m}) \cup {Late(m)},
         NEW N, Waited(w, N)
  PROVE  Waited(v, N)
<1>1. \A x \in v : /\ x \in Requests /\ (x.kind # "restore" => x.n # 0)
                   /\ ~x.late => x \in w \ {m}
  BY WithoutFacts DEF Wired
<1> QED
  BY <1>1 DEF Waited

\* The report is saved and goes on its way, or it is forgotten.
LEMMA ReportLandsFacts ==
  ASSUME Typed, ReportLands
  PROVE  /\ \E w \in Queued(dev) : w.by = "report"
         /\ Sound(dev') /\ Wired(dev', wire') /\ Moved(dev, wire, dev', wire')
         /\ Only(dev, dev', {"disk", "writes", "obj", "reports"}) /\ (Quiet(dev) => Quiet(dev'))
         /\ \/ wire' = wire
            \/ \E n \in Starts : wire' = wire \cup {Request("report", n, dev.obj[n].report)}
<1> DEFINE l == Landed(dev)
           n == Head(dev.writes).n
<1>1. /\ dev.writes # << >> /\ Head(dev.writes).by = "report" /\ Sound(dev) /\ Wired(dev, wire)
      /\ dev \in Device
  BY DEF ReportLands, Lands, Typed, Sound
<1>2. /\ Sound(l) /\ Only(dev, l, {"disk", "writes"}) /\ l.writes = Tail(dev.writes)
      /\ Head(dev.writes) \in Queued(dev) /\ Head(dev.writes) \in Calls
      /\ Queued(l) \subseteq Queued(dev)
      /\ \A S : One(dev.writes, S) => (Head(dev.writes) \in S => \A x \in Queued(l) : x \notin S)
  BY <1>1, LandedFacts
<1>3. n \in Starts
  BY <1>1, <1>2, JournalFacts DEF Sound, Numbered
<1>4. \A x \in Queued(l) : x.by # "report"
  <2>1. One(dev.writes, CallsBy("report")) /\ Head(dev.writes) \in CallsBy("report")
    BY <1>1, <1>2 DEF Sound, Reporting, CallsBy
  <2>2. \A x \in Queued(l) : x \in Calls /\ x \notin CallsBy("report")
    BY <1>1, <1>2, <2>1, QueuedFacts DEF Sound
  <2> QED
    BY <2>2 DEF CallsBy
<1>5. dev.reports.pc \in {"storing", "clearing"} /\ dev.reports.queue # << >>
  BY <1>1, <1>2 DEF Sound, Reporting
<1>6. /\ IF l.reports.pc = "storing"
         THEN /\ dev' = [l EXCEPT !.reports.pc = "sending"]
              /\ wire' = wire \cup {Request("report", n, l.obj[n].report)}
         ELSE dev' = ReportDone(l) /\ wire' = wire
      /\ UNCHANGED <<server, here, seen>>
  BY DEF ReportLands
<1> HIDE DEF l, n
<1>7. /\ l.reports = dev.reports /\ l.obj = dev.obj /\ l.restore = dev.restore /\ l.start = dev.start
      /\ l.cancels = dev.cancels
  BY <1>2 DEF Only, Fields
<1>8. Quiet(dev) => Quiet(l)
  BY <1>2, <1>7 DEF Quiet
<1>9. CASE l.reports.pc = "storing"
  <2> DEFINE r == Request("report", n, l.obj[n].report)
             q == [l.reports EXCEPT !.pc = "sending"]
  <2>1. dev' = [l EXCEPT !.reports = q] /\ wire' = wire \cup {r}
    BY <1>6, <1>9
  <2>2. l \in Device /\ l.reports \in ReportStates /\ l.obj[n] \in Journals
    BY <1>2, <1>3, DeviceIs DEF Sound
  <2>3. q \in ReportStates /\ q.pc = "sending" /\ q.queue = l.reports.queue
    BY <2>2 DEF ReportStates, ReportPcs
  <2>4. r \in Requests /\ r.kind = "report" /\ r.n = n /\ ~r.late /\ r.report = l.obj[n].report
    BY <1>3, <2>2, JournalFacts DEF Request, Requests
  <2>r. r = Request("report", n, dev.obj[n].report)
    BY <1>7
  <2> HIDE DEF q, r
  <2>5. dev' \in Device /\ Only(l, dev', {"reports"}) /\ dev'.reports = q
    BY <2>1, <2>2, <2>3, DeviceIs DEF Only, Fields
  <2>6. /\ dev'.writes = l.writes /\ dev'.cancels = l.cancels /\ dev'.active = l.active
        /\ dev'.coach = l.coach /\ dev'.cur = l.cur /\ dev'.obj = l.obj /\ dev'.restore = l.restore
        /\ dev'.start = l.start
        /\ Only(l, dev', {"obj", "coach", "active", "busy", "task", "cancels", "start", "reports"})
        /\ Only(dev, dev', {"disk", "writes", "obj", "reports"})
    BY <1>2, <2>5 DEF Only, Fields
  <2>7. Sound(dev')
    BY <1>2, <1>4, <1>5, <1>7, <2>3, <2>5, <2>6 DEF Sound, Numbered, Called, Reporting, Queued
  <2>8. Moves(l, dev', {})
    BY <2>3, <2>5, <2>6, StillMoves DEF Within
  <2>9. Asks(wire, "report") = {}
    BY <1>1, <1>7, <1>9 DEF Wired
  <2>10. Asks(wire', "report") = {r}
    BY <2>1, <2>4, <2>9 DEF Asks
  <2>11. Wired(dev', wire')
    BY <1>1, <1>3, <2>1, <2>3, <2>4, <2>5, <2>10, JournalFacts DEF Wired
  <2>12. \A N : Kept(dev, wire, N) => {} \subseteq N /\ Waited(wire', N)
    BY <1>1, <1>2, <2>1, <2>4 DEF Kept, Within, Waited, n
  <2>13. Moved(dev, wire, dev', wire')
    BY <1>1, <2>8, <2>12, LandedMoved DEF l
  <2>14. Quiet(dev) => Quiet(dev')
    BY <1>8, <2>3, <2>5, <2>6 DEF Quiet, Queued
  <2> QED
    BY <1>1, <1>2, <1>3, <2>1, <2>6, <2>7, <2>11, <2>13, <2>14, <2>r
<1>10. CASE l.reports.pc # "storing"
  <2>1. dev' = ReportDone(l) /\ wire' = wire /\ l.reports.pc # "idle"
    BY <1>5, <1>6, <1>7, <1>10
  <2>2. /\ Sound(dev') /\ (\A M : Moves(l, dev', M)) /\ (Quiet(l) => Quiet(dev'))
        /\ Only(l, dev', {"obj", "reports", "writes"}) /\ dev'.reports.pc # "sending"
    BY <1>2, <1>4, <2>1, ReportDoneFacts
  <2>3. Moves(l, dev', {})
    BY <2>2
  <2>4. \A N : Kept(dev, wire, N) => {} \subseteq N /\ Waited(wire', N)
    BY <2>1 DEF Kept
  <2>5. Moved(dev, wire, dev', wire')
    BY <1>1, <2>3, <2>4, LandedMoved DEF l
  <2>6. Only(dev, dev', {"disk", "writes", "obj", "reports"})
    BY <1>2, <2>2 DEF Only, Fields
  <2>7. dev.reports.pc # "sending"
    BY <1>5
  <2>8. Wired(dev', wire')
    BY <1>1, <2>1, <2>7, WiredStays
  <2> QED
    BY <1>1, <1>2, <1>8, <2>1, <2>2, <2>5, <2>6, <2>8
<1> QED
  BY <1>9, <1>10

\* The journal after the server has accepted its report.
LEMMA AcceptedFacts ==
  ASSUME NEW j \in Journals, NEW rows \in Rows
  PROVE  /\ Accepted(j, rows) \in Journals /\ Accepted(j, rows).phase = j.phase
         /\ Accepted(j, rows).report = NoReport
<1>1. NoReport \in [status : Statuses, rev : Nat]
  BY JournalFacts
<1> QED
  BY <1>1 DEF Accepted, Rows, Journals

\* A report is answered, or its sender gives up.
LEMMA ReportsFacts ==
  ASSUME Typed, NEW m \in wire, Reports(m)
  PROVE  /\ m.kind = "report" /\ ~m.late /\ dev.reports.pc = "sending"
         /\ Sound(dev') /\ Wired(dev', wire') /\ Moved(dev, wire, dev', wire')
         /\ Only(dev, dev', {"writes", "obj", "reports"}) /\ (Quiet(dev) => Quiet(dev'))
         /\ server' \in {server, ReportRows(m.report)}
         /\ wire' \subseteq (wire \ {m}) \cup {Late(m)}
<1>1. m.kind = "report" /\ ~m.late /\ Sound(dev) /\ Wired(dev, wire) /\ server \in Rows
  BY DEF Reports, Typed
<1>2. m \in Requests /\ m.n \in Starts /\ m.report \in [status : Statuses, rev : Nat]
  BY <1>1, JournalFacts DEF Wired, Requests
<1>3. dev.reports.pc = "sending" /\ m \in Asks(wire, "report")
  BY <1>1 DEF Wired, Asks
<1>4. (\A w \in Queued(dev) : w.by # "report") /\ dev.reports.queue # << >>
  BY <1>1, <1>3 DEF Sound, Reporting
<1>5. dev \in Device /\ dev.reports \in ReportStates /\ dev.obj[m.n] \in Journals
  BY <1>1, <1>2, DeviceIs DEF Sound
<1>6. wire' \subseteq (wire \ {m}) \cup {Late(m)}
  BY GivesUpFacts DEF Reports
<1>7. (\A e : Wired(e, wire')) /\ \A N : Waited(wire, N) => Waited(wire', N)
  <2>1. \A e : Wired(e, wire')
    BY <1>1, <1>6, WiredWithout
  <2>2. \A N : Waited(wire, N) => Waited(wire', N)
    BY <1>1, <1>6, WaitedWithout
  <2> QED
    BY <2>1, <2>2
<1>8. \A N : Kept(dev, wire, N) => {m.n} \subseteq N /\ Waited(wire', N)
  BY <1>1, <1>7 DEF Kept, Waited
<1>9. CASE /\ server' = ReportRows(m.report)
           /\ dev' = Write([dev EXCEPT !.obj[m.n] = Accepted(@, ReportRows(m.report)),
                                       !.reports.pc = "clearing"], "report", m.n)
  <2> DEFINE j == Accepted(dev.obj[m.n], ReportRows(m.report))
             g == Given(dev, m.n, j)
             q == [dev.reports EXCEPT !.pc = "clearing"]
             k == [g EXCEPT !.reports = q]
  <2>1. ReportRows(m.report) \in Rows
    BY <1>1, <1>2, ServerFacts
  <2>2. j \in Journals /\ j.phase = dev.obj[m.n].phase /\ j.report = NoReport
    BY <1>5, <2>1, AcceptedFacts
  <2>3. q \in ReportStates /\ q.pc = "clearing" /\ q.queue = dev.reports.queue
    BY <1>5 DEF ReportStates, ReportPcs
  <2>4. g \in Device /\ Only(dev, g, {"obj"}) /\ g.obj[m.n] = j
        /\ \A n \in Starts : n # m.n => g.obj[n] = dev.obj[n]
    <3> HIDE DEF j
    <3> QED
      BY <1>2, <1>5, <2>2, GivenFacts
  <2>5. g.reports = dev.reports
    BY <2>4 DEF Only, Fields
  <2>6. dev' = Write(k, "report", m.n)
    BY <1>2, <1>5, <1>9, DeviceIs DEF Given
  <2> HIDE DEF j, q, g
  <2>7. k \in Device /\ Only(g, k, {"reports"}) /\ k.reports = q
    BY <2>3, <2>4, DeviceIs DEF Only, Fields
  <2> HIDE DEF k
  <2>8. Only(dev, k, {"obj", "reports"}) /\ k.obj = g.obj /\ k.writes = dev.writes
        /\ k.cancels = dev.cancels /\ k.active = dev.active /\ k.coach = dev.coach
        /\ k.cur = dev.cur /\ k.restore = dev.restore /\ k.start = dev.start
        /\ Only(dev, k, {"obj", "coach", "active", "busy", "task", "cancels", "start", "reports"})
    BY <2>4, <2>7 DEF Only, Fields
  <2>9. \A n \in Starts : k.obj[n].phase = dev.obj[n].phase
    BY <2>2, <2>4, <2>8
  <2>10. Sound(k)
    BY <1>1, <1>4, <2>3, <2>7, <2>8 DEF Sound, Numbered, Called, Reporting, Queued
  <2>11. Moves(dev, k, {m.n})
    BY <2>3, <2>7, <2>8, <2>9, StillMoves DEF Within
  <2>12. "report" \in Callers /\ m.n \in 0 .. MaxStarts /\ m.n # 0 /\ "none" \in Outcomes
         /\ "report" \notin Cancels
    BY <1>2, JournalFacts DEF Callers, Outcomes, Cancels
  <2>13. k.reports.pc = "clearing" /\ \A w \in Queued(k) : w.by # "report"
    BY <1>4, <2>3, <2>7, <2>8 DEF Queued
  <2>14. Sound(dev')
    BY <2>6, <2>10, <2>12, <2>13, QueueSound DEF Write
  <2>15. Moves(k, dev', {m.n})
    BY <2>6, <2>7, <2>12, QueueMoves DEF Write
  <2>16. Moves(dev, dev', {m.n})
    BY <2>11, <2>14, <2>15, MovesOn, QueuedFacts DEF Sound
  <2>17. Moved(dev, wire, dev', wire')
    BY <1>8, <2>16, StillMoved
  <2>18. /\ Only(k, dev', {"writes"}) /\ dev'.writes = Append(k.writes, Entry(k, "report", m.n, "none"))
         /\ Entry(k, "report", m.n, "none") \in Calls
    BY <2>6, <2>7, <2>12, QueueFacts DEF Write
  <2>19. Only(dev, dev', {"writes", "obj", "reports"}) /\ dev'.obj = k.obj /\ dev'.reports = k.reports
         /\ dev'.restore = dev.restore
    BY <2>8, <2>18 DEF Only, Fields
  <2>20. Queued(dev') = Queued(dev) \cup {Entry(k, "report", m.n, "none")}
    <3> DEFINE x == Entry(k, "report", m.n, "none")
    <3>1. dev.writes \in Seq(Calls) /\ x \in Calls /\ dev'.writes = Append(dev.writes, x)
      BY <1>5, <2>8, <2>18, QueuedFacts
    <3> HIDE DEF x
    <3>2. Elements(dev'.writes) = Elements(dev.writes) \cup {x}
      BY <3>1, AppendFacts
    <3> QED
      BY <3>2 DEF Queued, x
  <2>21. Entry(k, "report", m.n, "none").by = "report"
    BY DEF Entry
  <2>22. Plain(NoReport.status)
    BY DEF Plain, NoReport, Final, Ended
  <2>23. Quiet(dev) => Quiet(dev')
    BY <2>2, <2>3, <2>4, <2>7, <2>8, <2>19, <2>20, <2>21, <2>22 DEF Quiet
  <2> QED
    BY <1>1, <1>3, <1>6, <1>7, <1>9, <2>14, <2>17, <2>19, <2>23
<1>10. CASE dev' = ReportDone(dev) /\ server' = server
  <2>1. /\ Sound(dev') /\ (\A M : Moves(dev, dev', M)) /\ (Quiet(dev) => Quiet(dev'))
        /\ Only(dev, dev', {"obj", "reports", "writes"})
    BY <1>1, <1>3, <1>4, <1>10, ReportDoneFacts
  <2>2. Moves(dev, dev', {m.n})
    BY <2>1
  <2>3. Moved(dev, wire, dev', wire')
    BY <1>8, <2>2, StillMoved
  <2> QED
    BY <1>1, <1>3, <1>6, <1>7, <1>10, <2>1, <2>3
<1> QED
  BY <1>9, <1>10 DEF Reports

\* A start that finds the device busy marks the card.
LEMMA BeginRefusedFacts ==
  ASSUME Typed, BeginRefused
  PROVE  /\ Sound(dev') /\ Moved(dev, wire, dev', wire') /\ Only(dev, dev', {"active"})
         /\ (Quiet(dev) => Quiet(dev')) /\ dev.active # "none" /\ dev'.active = "failed"
<1>1. /\ Sound(dev) /\ dev.active # "none" /\ dev' = [dev EXCEPT !.active = "failed"] /\ wire' = wire
      /\ dev \in Device
  BY DEF BeginRefused, Typed, Sound
<1>2. dev' \in Device /\ Only(dev, dev', {"active"}) /\ dev'.active = "failed"
  BY <1>1, DeviceIs DEF Only, Fields, Cards, Ended
<1>3. Only(dev, dev', {"coach", "active", "busy", "task"}) /\ dev'.coach = dev.coach
  BY <1>2 DEF Only, Fields
<1>4. dev'.active \in Ended
  BY <1>2 DEF Ended
<1>5. Sound(dev') /\ (\A M : Moves(dev, dev', M)) /\ (Quiet(dev) => Quiet(dev'))
  BY <1>1, <1>2, <1>3, <1>4, LightFacts DEF Sound, Numbered
<1> QED
  BY <1>1, <1>2, <1>5, StepMoved

\* The last text is shown again.
LEMMA ShowAgainFacts ==
  ASSUME Typed, ShowAgain
  PROVE  /\ Sound(dev') /\ Moved(dev, wire, dev', wire') /\ Only(dev, dev', {"active", "cancels"})
         /\ (Quiet(dev) => Quiet(dev')) /\ dev'.active = "unknown"
         /\ \A c \in Cancels : dev'.cancels[c].on = dev.cancels[c].on /\ ~dev'.cancels[c].attached
<1>1. Sound(dev) /\ dev' = Card(dev, "unknown") /\ wire' = wire
  BY DEF ShowAgain, Typed
<1>2. "unknown" \in Cards /\ "unknown" \in Ended
  BY DEF Cards, Ended
<1>3. /\ Sound(dev') /\ (\A M : Moves(dev, dev', M)) /\ (Quiet(dev) => Quiet(dev'))
      /\ Only(dev, dev', {"active", "cancels"}) /\ dev'.active = "unknown"
      /\ \A c \in Cancels : dev'.cancels[c].on = dev.cancels[c].on /\ ~dev'.cancels[c].attached
  BY <1>1, <1>2, CardFacts
<1> QED
  BY <1>1, <1>3, StepMoved

(***************************************************************************)
(* The steps of a start: each is a change of the device, and then one of   *)
(* Caught, Writes, Opened and At.                                          *)
(***************************************************************************)
\* The journal is read and the device reserved.
LEMMA BeginFacts ==
  ASSUME Typed, NEW n \in Starts, Begin(n)
  PROVE  /\ Sound(dev') /\ Only(dev, dev', {"obj", "busy", "start"})
         /\ dev.start[n].pc = "unused" /\ dev.writes = << >> /\ MayStart(dev.disk) /\ ~Busy
         /\ dev'.busy.reserved /\ dev'.busy.route = dev.busy.route /\ here = "in"
         /\ dev'.obj[n] = dev.disk /\ dev'.start[n].pc = "preparing"
         /\ \A m \in Starts : m # n => dev'.start[m] = dev.start[m] /\ dev'.obj[m] = dev.obj[m]
<1> DEFINE g == Given(dev, n, dev.disk)
           h == [dev.busy EXCEPT !.reserved = TRUE]
           b == [g EXCEPT !.busy = h]
<1>1. /\ dev.start[n].pc = "unused" /\ dev.writes = << >> /\ MayStart(dev.disk) /\ ~Busy
      /\ Sound(dev) /\ dev \in Device /\ here = "in"
  BY DEF Begin, Typed, Sound
<1>2. dev.disk \in Journals /\ dev.busy \in Holds
  BY <1>1, DeviceIs
<1>3. /\ g \in Device /\ Only(dev, g, {"obj"}) /\ g.obj[n] = dev.disk
      /\ \A m \in Starts : m # n => g.obj[m] = dev.obj[m]
  BY <1>1, <1>2, GivenFacts
<1>4. h \in Holds /\ h.reserved /\ h.route = dev.busy.route
  BY <1>2 DEF Holds
<1>5. g.busy = dev.busy
  BY <1>3 DEF Only, Fields
<1>6. dev' = At(b, n, "preparing")
  <2>1. b = [dev EXCEPT !.obj[n] = dev.disk, !.busy.reserved = TRUE]
    BY <1>1, DeviceIs DEF Given
  <2> QED
    BY <2>1 DEF Begin
<1> HIDE DEF g, h
<1>7. b \in Device /\ Only(g, b, {"busy"}) /\ b.busy = h
  BY <1>3, <1>4, DeviceIs DEF Only, Fields
<1> HIDE DEF b
<1>8. /\ Only(dev, b, {"obj", "busy"}) /\ b.obj = g.obj /\ b.start = dev.start
      /\ Only(dev, b, {"disk", "obj", "start", "busy", "task", "restore", "coach", "active"})
      /\ b.active = dev.active /\ b.coach = dev.coach
  BY <1>3, <1>7 DEF Only, Fields
<1>9. Sound(b)
  BY <1>1, <1>7, <1>8, SoundStays DEF Sound, Numbered
<1>10. /\ Sound(dev') /\ Only(b, dev', {"start"}) /\ dev'.start[n].pc = "preparing"
       /\ \A m \in Starts : m # n => dev'.start[m] = b.start[m]
  <2>1. "preparing" \in Pcs
    BY DEF Pcs
  <2> QED
    BY <1>6, <1>9, <2>1, AtFacts
<1>11. Only(dev, dev', {"obj", "busy", "start"}) /\ dev'.obj = b.obj /\ dev'.busy = b.busy
  BY <1>8, <1>10 DEF Only, Fields
<1> QED
  BY <1>1, <1>3, <1>4, <1>7, <1>8, <1>10, <1>11

\* The answer to the claim is in the journal of the start.
Answered(d, n, rows) == [d EXCEPT !.obj[n].status = rows.status, !.obj[n].rev = rows.rev]

\* Nothing else changes.
LEMMA AnsweredFacts ==
  ASSUME NEW d, Sound(d), NEW n \in Starts, NEW rows \in Rows, NEW e, e = Answered(d, n, rows)
  PROVE  /\ Sound(e) /\ Only(d, e, {"obj"}) /\ (Quiet(d) => Quiet(e))
         /\ e.obj[n].phase = d.obj[n].phase /\ e.obj[n].report = d.obj[n].report
         /\ \A m \in Starts : m # n => e.obj[m] = d.obj[m]
<1> DEFINE j == [d.obj[n] EXCEPT !.status = rows.status, !.rev = rows.rev]
<1>1. d \in Device /\ d.obj[n] \in Journals /\ rows.status \in Statuses /\ rows.rev \in Nat
  BY DeviceIs DEF Sound, Rows
<1>2. j \in Journals /\ j.phase = d.obj[n].phase /\ j.report = d.obj[n].report
  BY <1>1 DEF Journals
<1>3. e = Given(d, n, j)
  BY <1>1, DeviceIs DEF Given, Answered
<1> HIDE DEF j
<1>4. /\ e \in Device /\ Only(d, e, {"obj"}) /\ e.obj[n] = j
      /\ \A m \in Starts : m # n => e.obj[m] = d.obj[m]
  BY <1>1, <1>2, <1>3, GivenFacts
<1>5. /\ Only(d, e, {"disk", "obj", "start", "busy", "task", "restore", "coach", "active"})
      /\ e.active = d.active /\ e.coach = d.coach /\ e.writes = d.writes /\ e.restore = d.restore
      /\ e.reports = d.reports
  BY <1>4 DEF Only, Fields
<1>6. Sound(e)
  BY <1>4, <1>5, SoundStays DEF Sound, Numbered
<1>7. Quiet(d) => Quiet(e)
  BY <1>2, <1>4, <1>5 DEF Quiet, Queued
<1> QED
  BY <1>2, <1>4, <1>6, <1>7

\* The claim is answered, or its sender gives up.
LEMMA ClaimsFacts ==
  ASSUME Typed, NEW m \in wire, Claims(m)
  PROVE  /\ m.kind = "claim" /\ ~m.late /\ m.n \in Starts /\ m \in Asks(wire, "claim")
         /\ wire' \subseteq (wire \ {m}) \cup {Late(m)}
         /\ \/ dev' = Caught(dev, m.n) /\ server' = server
            \/ /\ server' = ClaimRows /\ server'.owner # "none"
               /\ \E b : /\ Sound(b) /\ Only(dev, b, {"obj"}) /\ (Quiet(dev) => Quiet(b))
                         /\ b.obj[m.n].phase = dev.obj[m.n].phase
                         /\ b.obj[m.n].report = dev.obj[m.n].report
                         /\ \A k \in Starts : k # m.n => b.obj[k] = dev.obj[k]
                         /\ \/ server'.owner = "me" /\ dev' = Writes(b, m.n, "claimed", "claimed")
                            \/ server'.owner = "other" /\ dev' = Writes(b, m.n, "terminal", "lost")
<1>1. m.kind = "claim" /\ ~m.late /\ Sound(dev) /\ Wired(dev, wire) /\ server \in Rows
  BY DEF Claims, Typed
<1>2. m \in Requests /\ m.n \in Starts /\ m \in Asks(wire, "claim")
  BY <1>1, JournalFacts DEF Wired, Requests, Asks
<1>3. wire' \subseteq (wire \ {m}) \cup {Late(m)}
  BY GivesUpFacts DEF Claims
<1>4. ASSUME ClaimRows.owner # "none", server' = ClaimRows,
             dev' = LET d == [dev EXCEPT !.obj[m.n].status = ClaimRows.status,
                                         !.obj[m.n].rev = ClaimRows.rev]
                    IN IF OwnedBy(ClaimRows.owner)
                       THEN Write(At(Phase(d, m.n, "claimed"), m.n, "claimed"), "start", m.n)
                       ELSE Write(At(Phase(d, m.n, "terminal"), m.n, "lost"), "start", m.n)
      PROVE  \E b : /\ Sound(b) /\ Only(dev, b, {"obj"}) /\ (Quiet(dev) => Quiet(b))
                    /\ b.obj[m.n].phase = dev.obj[m.n].phase
                    /\ b.obj[m.n].report = dev.obj[m.n].report
                    /\ \A k \in Starts : k # m.n => b.obj[k] = dev.obj[k]
                    /\ \/ server'.owner = "me" /\ dev' = Writes(b, m.n, "claimed", "claimed")
                       \/ server'.owner = "other" /\ dev' = Writes(b, m.n, "terminal", "lost")
  <2> DEFINE b == Answered(dev, m.n, ClaimRows)
  <2>1. ClaimRows \in Rows
    BY <1>1, ServerFacts
  <2>2. \E c : c = b
    OBVIOUS
  <2>3. dev' = IF OwnedBy(ClaimRows.owner) THEN Writes(b, m.n, "claimed", "claimed")
               ELSE Writes(b, m.n, "terminal", "lost")
    BY <1>4 DEF Writes, Answered
  <2>4. /\ Sound(b) /\ Only(dev, b, {"obj"}) /\ (Quiet(dev) => Quiet(b))
        /\ b.obj[m.n].phase = dev.obj[m.n].phase /\ b.obj[m.n].report = dev.obj[m.n].report
        /\ \A k \in Starts : k # m.n => b.obj[k] = dev.obj[k]
    BY <1>1, <1>2, <2>1, AnsweredFacts
  <2>5. ClaimRows.owner \in {"me", "other"} /\ (OwnedBy(ClaimRows.owner) <=> ClaimRows.owner = "me")
    BY <1>4, <2>1 DEF Rows, OwnedBy
  <2> HIDE DEF b
  <2> QED
    BY <1>4, <2>3, <2>4, <2>5
<1> QED
  BY <1>1, <1>2, <1>3, <1>4 DEF Claims

\* The account is there, and the task is made.
LEMMA AdmittedFacts ==
  ASSUME Typed, NEW n \in Starts, Admitted(n)
  PROVE  /\ dev.start[n].pc = "submitting" /\ wire' = wire
         /\ \/ dev' = Caught(dev, n)
            \/ /\ Sound(dev') /\ Only(dev, dev', {"task", "start"}) /\ (Quiet(dev) => Quiet(dev'))
               /\ dev'.task = "ready" /\ dev'.start[n].pc = "creating"
               /\ dev'.start[n].stale = dev.start[n].stale
               /\ \A m \in Starts : m # n => dev'.start[m] = dev.start[m]
<1>1. dev.start[n].pc = "submitting" /\ wire' = wire /\ Sound(dev) /\ dev \in Device
  BY DEF Admitted, Typed, Sound
<1>2. CASE dev' = At([dev EXCEPT !.task = "ready"], n, "creating")
  <2> DEFINE b == [dev EXCEPT !.task = "ready"]
  <2>1. b \in Device /\ Only(dev, b, {"task"}) /\ b.task = "ready"
    BY <1>1, DeviceIs DEF Only, Fields, Tasks
  <2>2. dev' = At(b, n, "creating") /\ "creating" \in Pcs /\ "creating" # "done"
    BY <1>2 DEF Pcs
  <2> HIDE DEF b
  <2>3. /\ Only(dev, b, {"coach", "active", "busy", "task"}) /\ b.start = dev.start
        /\ b.active = dev.active /\ b.coach = dev.coach
    BY <2>1 DEF Only, Fields
  <2>4. Sound(b) /\ (Quiet(dev) => Quiet(b))
    BY <1>1, <2>1, <2>3, LightFacts DEF Sound, Numbered
  <2>5. /\ Sound(dev') /\ Only(b, dev', {"start"}) /\ (Quiet(b) => Quiet(dev'))
        /\ dev'.start[n].pc = "creating"
        /\ dev'.start[n].stale = ("creating" # "done" /\ b.start[n].stale)
        /\ \A m \in Starts : m # n => dev'.start[m] = b.start[m]
    BY <2>2, <2>4, AtFacts
  <2>6. Only(dev, dev', {"task", "start"}) /\ dev'.task = b.task
    BY <2>1, <2>5 DEF Only, Fields
  <2>7. dev.start[n].stale \in BOOLEAN
    BY <1>1, DeviceIs DEF StartStates
  <2> QED
    BY <1>1, <2>1, <2>2, <2>3, <2>4, <2>5, <2>6, <2>7
<1> QED
  BY <1>1, <1>2 DEF Admitted

\* The start's route is set.
Routed(d) == [d EXCEPT !.busy.route = TRUE]

\* A route is about the device only.
LEMMA RoutedFacts ==
  ASSUME NEW d, Sound(d), NEW e, e = Routed(d)
  PROVE  /\ Sound(e) /\ Only(d, e, {"busy"}) /\ (Quiet(d) => Quiet(e))
         /\ e.busy.route /\ e.busy.reserved = d.busy.reserved
<1> DEFINE h == [d.busy EXCEPT !.route = TRUE]
<1>1. d \in Device /\ d.busy \in Holds
  BY DeviceIs DEF Sound
<1>2. h \in Holds /\ h.route /\ h.reserved = d.busy.reserved
  BY <1>1 DEF Holds
<1>3. e = [d EXCEPT !.busy = h]
  BY <1>1, DeviceIs DEF Routed
<1> HIDE DEF h
<1>4. e \in Device /\ Only(d, e, {"busy"}) /\ e.busy = h
  BY <1>1, <1>2, <1>3, DeviceIs DEF Only, Fields
<1>5. Only(d, e, {"coach", "active", "busy", "task"}) /\ e.active = d.active /\ e.coach = d.coach
  BY <1>4 DEF Only, Fields
<1>6. Sound(e) /\ (Quiet(d) => Quiet(e))
  BY <1>4, <1>5, LightFacts DEF Sound, Numbered
<1> QED
  BY <1>2, <1>4, <1>6

\* A coach begins.
Going(d) == [Routed(d) EXCEPT !.coach = "round", !.task = "going", !.busy.reserved = FALSE]

\* It begins with a start that has its place.
LEMMA GoingFacts ==
  ASSUME NEW d, Sound(d), d.cur # 0, NEW e, e = Going(d)
  PROVE  /\ Sound(e) /\ Only(d, e, {"busy", "coach", "task"}) /\ (Quiet(d) => Quiet(e))
         /\ ~e.busy.reserved /\ e.busy.route /\ e.coach = "round" /\ e.task = "going"
<1> DEFINE r == Routed(d)
           h == [r.busy EXCEPT !.reserved = FALSE]
<1>1. /\ Sound(r) /\ Only(d, r, {"busy"}) /\ (Quiet(d) => Quiet(r)) /\ r.busy.route
  BY RoutedFacts
<1>2. r \in Device /\ r.busy \in Holds
  BY <1>1, DeviceIs DEF Sound
<1>e. e = [r EXCEPT !.coach = "round", !.task = "going", !.busy.reserved = FALSE]
  BY DEF Going
<1> HIDE DEF r
<1>3. h \in Holds /\ ~h.reserved /\ h.route
  BY <1>1, <1>2 DEF Holds
<1>4. e = [r EXCEPT !.coach = "round", !.task = "going", !.busy = h]
  BY <1>e, <1>2, DeviceIs
<1> HIDE DEF h
<1>5. "round" \in CoachPcs /\ "going" \in Tasks
  BY DEF CoachPcs, Tasks
<1>6. /\ e \in Device /\ Only(r, e, {"busy", "coach", "task"}) /\ e.busy = h /\ e.coach = "round"
      /\ e.task = "going"
  BY <1>2, <1>3, <1>4, <1>5, DeviceIs DEF Only, Fields
<1>7. /\ Only(d, e, {"busy", "coach", "task"}) /\ Only(r, e, {"coach", "active", "busy", "task"})
      /\ r.cur = d.cur /\ e.active = r.active
  BY <1>1, <1>6 DEF Only, Fields
<1>8. Sound(e) /\ (Quiet(r) => Quiet(e))
  BY <1>1, <1>6, <1>7, LightFacts DEF Sound, Numbered
<1> QED
  BY <1>1, <1>3, <1>6, <1>7, <1>8

\* A coach that begins is taken back: the cancellation waits in the queue.
Undoing(d, n) == Write(At([Going(d) EXCEPT !.cancels["undo"].on = TRUE], n, "undoing"), "undo", 0)

\* It is in the queue behind everything else.
LEMMA UndoingFacts ==
  ASSUME NEW d, Sound(d), d.cur # 0, NEW n \in Starts, NEW e, e = Undoing(d, n)
  PROVE  /\ Sound(e) /\ Only(d, e, {"busy", "coach", "task", "cancels", "start", "writes"})
         /\ (Quiet(d) => Quiet(e))
         /\ ~e.busy.reserved /\ e.busy.route /\ e.coach = "round" /\ e.task = "going"
         /\ e.start[n].pc = "undoing" /\ e.start[n].stale = d.start[n].stale
         /\ \A m \in Starts : m # n => e.start[m] = d.start[m]
         /\ \A c \in Cancels : c # "undo" => e.cancels[c] = d.cancels[c]
         /\ e.cancels["undo"].on /\ e.cancels["undo"].attached = d.cancels["undo"].attached
         /\ \E x \in Calls : x.by = "undo" /\ x.n = 0 /\ e.writes = Append(d.writes, x)
<1> DEFINE g == Going(d)
           v == [g.cancels["undo"] EXCEPT !.on = TRUE]
           k == [g.cancels EXCEPT !["undo"] = v]
           b == [g EXCEPT !.cancels = k]
           a == At(b, n, "undoing")
           x == Entry(a, "undo", 0, "none")
<1>1. /\ Sound(g) /\ Only(d, g, {"busy", "coach", "task"}) /\ (Quiet(d) => Quiet(g))
      /\ ~g.busy.reserved /\ g.busy.route /\ g.coach = "round" /\ g.task = "going"
  BY GoingFacts
<1>2. g \in Device /\ g.cancels \in [Cancels -> CancelStates] /\ "undo" \in Cancels
  BY <1>1, DeviceIs DEF Sound, Cancels
<1>e. e = Write(a, "undo", 0)
  BY <1>2, DeviceIs DEF Undoing
<1> HIDE DEF g
<1>3. v \in CancelStates /\ v.on /\ v.attached = g.cancels["undo"].attached
  BY <1>2 DEF CancelStates
<1> HIDE DEF v
<1>4. /\ k \in [Cancels -> CancelStates] /\ k["undo"] = v
      /\ \A c \in Cancels : c # "undo" => k[c] = g.cancels[c]
  BY <1>2, <1>3
<1> HIDE DEF k
<1>5. b \in Device /\ Only(g, b, {"cancels"}) /\ b.cancels = k
  BY <1>2, <1>4, DeviceIs DEF Only, Fields
<1> HIDE DEF b
<1>6. /\ b.writes = g.writes /\ b.active = g.active /\ b.coach = g.coach /\ b.cur = g.cur
      /\ b.reports = g.reports /\ b.obj = g.obj /\ b.restore = g.restore /\ b.start = g.start
  BY <1>5 DEF Only, Fields
<1>7. \A c \in {"stop", "leave"} : c \in Cancels /\ c # "undo"
  BY DEF Cancels
<1>8. Sound(b)
  BY <1>1, <1>4, <1>5, <1>6, <1>7 DEF Sound, Numbered, Called, Reporting, Queued
<1>9. Quiet(g) => Quiet(b)
  BY <1>6 DEF Quiet, Queued
<1>10. "undoing" \in Pcs /\ "undoing" # "done"
  BY DEF Pcs
<1>11. /\ Sound(a) /\ Only(b, a, {"start"}) /\ (Quiet(b) => Quiet(a))
       /\ a.start[n].pc = "undoing" /\ a.start[n].stale = ("undoing" # "done" /\ b.start[n].stale)
       /\ \A m \in Starts : m # n => a.start[m] = b.start[m]
  BY <1>8, <1>10, AtFacts
<1> HIDE DEF a
<1>12. "undo" \in Callers /\ 0 \in 0 .. MaxStarts /\ "none" \in Outcomes
  BY ExplanationBoundsAssumption DEF Callers, Cancels, Outcomes
<1>13. Sound(e)
  BY <1>e, <1>11, <1>12, QueueSound DEF Write
<1>14. /\ Only(a, e, {"writes"}) /\ x \in Calls /\ e.writes = Append(a.writes, x)
  BY <1>e, <1>11, <1>12, QueueFacts DEF Write, Sound
<1>15. x.by = "undo" /\ x.n = 0
  BY DEF Entry
<1> HIDE DEF x
<1>16. /\ Only(d, e, {"busy", "coach", "task", "cancels", "start", "writes"})
       /\ e.busy = g.busy /\ e.coach = g.coach /\ e.task = g.task /\ e.start = a.start
       /\ e.cancels = b.cancels /\ a.writes = d.writes /\ g.cancels = d.cancels /\ g.start = d.start
       /\ e.obj = a.obj /\ e.restore = a.restore /\ e.reports = a.reports
  BY <1>1, <1>5, <1>11, <1>14 DEF Only, Fields
<1>17. Quiet(a) => Quiet(e)
  <2>1. a.writes \in Seq(Calls)
    BY <1>11, DeviceIs DEF Sound
  <2>2. Queued(e) = Queued(a) \cup {x}
    BY <1>14, <2>1, AppendFacts DEF Queued
  <2> QED
    BY <1>15, <1>16, <2>2 DEF Quiet
<1>18. g.start[n].stale \in BOOLEAN
  BY <1>2, DeviceIs DEF StartStates
<1> QED
  BY <1>1, <1>3, <1>4, <1>5, <1>6, <1>9, <1>10, <1>11, <1>13, <1>14, <1>15, <1>16, <1>17, <1>18

\* The task is dispatched, or its start fails.
LEMMA SubmittedFacts ==
  ASSUME Typed, NEW n \in Starts, Submitted(n)
  PROVE  /\ dev.start[n].pc = "creating" /\ dev.cur # 0 /\ wire' = wire
         /\ \/ /\ dev.task # "ready" /\ dev' = Caught(Routed(dev), n)
               /\ seen' = [seen EXCEPT !.lost = @ \/ (dev.task = "going" /\ dev.coach = "off")]
            \/ /\ dev.task = "ready" /\ dev.coach # "off" /\ seen' = seen
               /\ \E b : /\ Sound(b) /\ Only(dev, b, {"busy", "task"}) /\ (Quiet(dev) => Quiet(b))
                         /\ b.busy = Free /\ b.task = "over" /\ dev' = Caught(b, n)
            \/ /\ dev.task = "ready" /\ dev.coach = "off"
               /\ seen' = [seen EXCEPT !.dispatches = @ + 1, !.may = TRUE]
               /\ \/ dev.start[n].stale /\ dev' = Undoing(dev, n)
                  \/ ~dev.start[n].stale /\ dev' = Writes(Going(dev), n, "running", "running")
<1> DEFINE d == Routed(dev)
<1>1. dev.start[n].pc = "creating" /\ Sound(dev) /\ Placed(dev, wire) /\ wire' = wire /\ dev \in Device
  BY DEF Submitted, Typed, Sound
<1>2. dev.cur # 0
  BY <1>1 DEF Placed, Placing
<1>3. /\ Sound(d) /\ Only(dev, d, {"busy"}) /\ (Quiet(dev) => Quiet(d))
  BY <1>1, RoutedFacts
<1>4. d.task = dev.task /\ d.coach = dev.coach /\ d.start = dev.start
  BY <1>3 DEF Only, Fields
<1>5. \/ /\ d.task # "ready" /\ dev' = Caught(d, n)
         /\ seen' = [seen EXCEPT !.lost = @ \/ (d.task = "going" /\ d.coach = "off")]
      \/ /\ d.task = "ready" /\ d.coach # "off" /\ seen' = seen
         /\ dev' = Caught([d EXCEPT !.busy = Free, !.task = "over"], n)
      \/ /\ d.task = "ready" /\ d.coach = "off"
         /\ seen' = [seen EXCEPT !.dispatches = @ + 1, !.may = TRUE]
         /\ \/ d.start[n].stale /\ dev' = Undoing(dev, n)
            \/ ~d.start[n].stale /\ dev' = Writes(Going(dev), n, "running", "running")
  BY DEF Submitted, Routed, Going, Undoing, Writes
<1> HIDE DEF d
<1>6. \E b : /\ Sound(b) /\ Only(dev, b, {"busy", "task"}) /\ (Quiet(dev) => Quiet(b))
             /\ b.busy = Free /\ b.task = "over" /\ b = [d EXCEPT !.busy = Free, !.task = "over"]
  <2> DEFINE b == [d EXCEPT !.busy = Free, !.task = "over"]
  <2>1. d \in Device /\ Free \in Holds /\ "over" \in Tasks
    BY <1>3 DEF Sound, Free, Holds, Tasks
  <2>2. b \in Device /\ Only(d, b, {"busy", "task"}) /\ b.busy = Free /\ b.task = "over"
    BY <2>1, DeviceIs DEF Only, Fields
  <2>e. b = [d EXCEPT !.busy = Free, !.task = "over"]
    OBVIOUS
  <2> HIDE DEF b
  <2>3. /\ Only(d, b, {"coach", "active", "busy", "task"}) /\ b.active = d.active
        /\ b.coach = d.coach /\ Only(dev, b, {"busy", "task"})
    BY <1>3, <2>2 DEF Only, Fields
  <2>4. Sound(b) /\ (Quiet(d) => Quiet(b))
    BY <1>3, <2>2, <2>3, LightFacts DEF Sound, Numbered
  <2> QED
    BY <1>3, <2>2, <2>3, <2>4, <2>e
<1>7. CASE d.task # "ready"
  BY <1>1, <1>2, <1>4, <1>5, <1>7 DEF d
<1>8. CASE d.task = "ready" /\ d.coach # "off"
  BY <1>1, <1>2, <1>4, <1>5, <1>6, <1>8
<1>9. CASE d.task = "ready" /\ d.coach = "off"
  BY <1>1, <1>2, <1>4, <1>5, <1>9
<1> QED
  BY <1>7, <1>8, <1>9

\* A write of a start is done.
LEMMA StartLandsFacts ==
  ASSUME Typed, StartLands
  PROVE  LET l == Landed(dev)
             n == Head(dev.writes).n
             pc == dev.start[n].pc
         IN
         /\ dev.writes # << >> /\ Head(dev.writes).by = "start" /\ n \in Starts
         /\ pc # "writing" => wire' = wire
         /\ \/ /\ pc = "writing" /\ wire' = wire \cup {Request("claim", n, NoReport)}
               /\ Sound(dev') /\ Only(l, dev', {"cur", "start"}) /\ (Quiet(l) => Quiet(dev'))
               /\ dev'.cur = n /\ dev'.start[n].pc = "claiming"
               /\ dev'.start[n].stale = dev.start[n].stale
               /\ \A m \in Starts : m # n => dev'.start[m] = dev.start[m]
            \/ pc = "claimed" /\ dev.start[n].stale /\ dev' = Caught(l, n)
            \/ pc = "claimed" /\ ~dev.start[n].stale /\ dev' = Opened(l, n)
            \/ pc = "lost" /\ dev' = Caught(l, n)
            \/ pc = "dispatching" /\ dev.busy.reserved /\ dev' = At(l, n, "submitting")
            \/ pc = "dispatching" /\ ~dev.busy.reserved /\ dev' = Caught(l, n)
            \/ pc = "running" /\ dev' = At(l, n, "done")
            \/ pc = "running" /\ dev' = Told(At(l, n, "done"), "active", n)
            \/ /\ pc \notin {"writing", "claimed", "lost", "dispatching", "running"}
               /\ Sound(dev') /\ Only(l, dev', {"active", "start"}) /\ (Quiet(l) => Quiet(dev'))
               /\ dev'.active = "none" <=> dev.active = "none"
               /\ dev'.active \in {dev.active, "unknown", "failed"}
               /\ dev'.start[n].pc = "done"
               /\ \A m \in Starts : m # n => dev'.start[m] = dev.start[m]
<1> DEFINE l == Landed(dev)
           n == Head(dev.writes).n
           pc == dev.start[n].pc
           b == [l EXCEPT !.cur = n]
           c == [l EXCEPT !.active = IF l.start[n].stale \/ @ = "none" THEN @
                                     ELSE IF l.obj[n].phase = "unknown" THEN "unknown" ELSE "failed"]
<1>1. dev.writes # << >> /\ Head(dev.writes).by = "start" /\ Sound(dev)
  BY DEF StartLands, Lands, Typed
<1>2. /\ Sound(l) /\ Only(dev, l, {"disk", "writes"})
      /\ Head(dev.writes) \in Queued(dev) /\ Head(dev.writes) \in Calls
  BY <1>1, LandedFacts
<1>3. n \in Starts
  BY <1>1, <1>2, JournalFacts DEF Sound, Numbered
<1>4. /\ l.start = dev.start /\ l.active = dev.active /\ l.coach = dev.coach /\ l.busy = dev.busy
      /\ l \in Device /\ l.start[n].stale \in BOOLEAN
  <2>1. l.start = dev.start /\ l.active = dev.active /\ l.coach = dev.coach /\ l.busy = dev.busy
    BY <1>2 DEF Only, Fields
  <2>2. l \in Device
    BY <1>2 DEF Sound
  <2>3. l.start[n] \in StartStates
    BY <1>3, <2>2, DeviceIs
  <2> QED
    BY <2>1, <2>2, <2>3 DEF StartStates
<1>5. /\ dev' =
           CASE pc = "writing" -> At(b, n, "claiming")
             [] pc = "claimed" -> IF l.start[n].stale THEN Caught(l, n) ELSE Opened(l, n)
             [] pc = "lost" -> Caught(l, n)
             [] pc = "dispatching" ->
                  IF l.busy.reserved THEN At(l, n, "submitting") ELSE Caught(l, n)
             [] pc = "running" ->
                  IF l.obj[n].phase # "running" \/ l.start[n].stale \/ l.active = "none"
                  THEN At(l, n, "done") ELSE Told(At(l, n, "done"), "active", n)
             [] OTHER -> At(c, n, "done")
      /\ wire' = IF pc = "writing" THEN wire \cup {Request("claim", n, NoReport)} ELSE wire
  BY <1>4 DEF StartLands
<1>6. ASSUME pc = "writing"
      PROVE  /\ Sound(dev') /\ Only(l, dev', {"cur", "start"}) /\ (Quiet(l) => Quiet(dev'))
             /\ dev'.cur = n /\ dev'.start[n].pc = "claiming"
             /\ dev'.start[n].stale = dev.start[n].stale
             /\ \A m \in Starts : m # n => dev'.start[m] = dev.start[m]
  <2>1. dev' = At(b, n, "claiming")
    BY <1>5, <1>6
  <2>2. n \in 0 .. MaxStarts /\ n # 0 /\ "claiming" \in Pcs /\ "claiming" # "done"
    BY <1>3, JournalFacts DEF Pcs
  <2>3. b \in Device /\ Only(l, b, {"cur"}) /\ b.cur = n
    <3> HIDE DEF l, n
    <3> QED
      BY <1>4, <2>2, DeviceIs DEF Only, Fields
  <2> HIDE DEF b, l, pc
  <2>4. /\ b.writes = l.writes /\ b.cancels = l.cancels /\ b.reports = l.reports
        /\ b.obj = l.obj /\ b.restore = l.restore /\ b.start = l.start
    BY <2>3 DEF Only, Fields
  <2>5. Sound(b) /\ (Quiet(l) => Quiet(b))
    BY <1>2, <2>2, <2>3, <2>4 DEF Sound, Numbered, Called, Reporting, Queued, Quiet
  <2> HIDE DEF n
  <2>6. /\ Sound(dev') /\ Only(b, dev', {"start"}) /\ (Quiet(b) => Quiet(dev'))
        /\ dev'.start[n].pc = "claiming"
        /\ dev'.start[n].stale = ("claiming" # "done" /\ b.start[n].stale)
        /\ \A m \in Starts : m # n => dev'.start[m] = b.start[m]
    BY <1>3, <2>1, <2>2, <2>5, AtFacts
  <2>7. Only(l, dev', {"cur", "start"}) /\ dev'.cur = n
    BY <2>3, <2>6 DEF Only, Fields
  <2> QED
    BY <1>4, <2>2, <2>4, <2>5, <2>6, <2>7
<1>7. ASSUME pc \notin {"writing", "claimed", "lost", "dispatching", "running"}
      PROVE  /\ Sound(dev') /\ Only(l, dev', {"active", "start"}) /\ (Quiet(l) => Quiet(dev'))
             /\ dev'.active = "none" <=> dev.active = "none"
             /\ dev'.active \in {dev.active, "unknown", "failed"}
             /\ dev'.start[n].pc = "done"
             /\ \A m \in Starts : m # n => dev'.start[m] = dev.start[m]
  <2>1. dev' = At(c, n, "done") /\ "done" \in Pcs
    <3> HIDE DEF c, b, l, n, pc
    <3> QED
      BY <1>5, <1>7 DEF Pcs
  <2>2. c \in Device /\ Only(l, c, {"active"}) /\ c.active \in {l.active, "unknown", "failed"}
        /\ (c.active = "none" <=> l.active = "none")
    <3> DEFINE p == IF l.start[n].stale \/ l.active = "none" THEN l.active
                    ELSE IF l.obj[n].phase = "unknown" THEN "unknown" ELSE "failed"
    <3>1. c = [l EXCEPT !.active = p]
      OBVIOUS
    <3>2. p \in {l.active, "unknown", "failed"} /\ (p = "none" <=> l.active = "none")
      OBVIOUS
    <3> HIDE DEF p, c, l, n
    <3>3. p \in Cards
      BY <1>4, <3>2, DeviceIs DEF Cards, Ended
    <3> QED
      BY <1>4, <3>1, <3>2, <3>3, DeviceIs DEF Only, Fields
  <2> HIDE DEF c, l, n, pc
  <2>3. /\ Only(l, c, {"coach", "active", "busy", "task"}) /\ c.coach = l.coach /\ c.start = l.start
    BY <2>2 DEF Only, Fields
  <2>4. Sound(c) /\ (Quiet(l) => Quiet(c))
    BY <1>2, <2>2, <2>3, LightFacts DEF Sound, Numbered, Ended
  <2>5. /\ Sound(dev') /\ Only(c, dev', {"start"}) /\ (Quiet(c) => Quiet(dev'))
        /\ dev'.start[n].pc = "done"
        /\ \A m \in Starts : m # n => dev'.start[m] = c.start[m]
    BY <1>3, <2>1, <2>4, AtFacts
  <2>6. Only(l, dev', {"active", "start"}) /\ dev'.active = c.active
    BY <2>2, <2>5 DEF Only, Fields
  <2> QED
    BY <1>4, <2>2, <2>3, <2>4, <2>5, <2>6
<1>8. \/ pc = "writing" /\ wire' = wire \cup {Request("claim", n, NoReport)}
      \/ pc = "claimed" /\ l.start[n].stale /\ dev' = Caught(l, n)
      \/ pc = "claimed" /\ ~l.start[n].stale /\ dev' = Opened(l, n)
      \/ pc = "lost" /\ dev' = Caught(l, n)
      \/ pc = "dispatching" /\ l.busy.reserved /\ dev' = At(l, n, "submitting")
      \/ pc = "dispatching" /\ ~l.busy.reserved /\ dev' = Caught(l, n)
      \/ pc = "running" /\ dev' = At(l, n, "done")
      \/ pc = "running" /\ dev' = Told(At(l, n, "done"), "active", n)
      \/ pc \notin {"writing", "claimed", "lost", "dispatching", "running"}
  <2> HIDE DEF l, n, pc, b, c
  <2> QED
    BY <1>5
<1>9. pc # "writing" => wire' = wire
  BY <1>5
<1> HIDE DEF b, c
<1> QED
  BY <1>1, <1>3, <1>4, <1>6, <1>7, <1>8, <1>9

\* The call of an undo is done.
LEMMA UndoEndsFacts ==
  ASSUME NEW d, Sound(d), d.writes # << >>, Head(d.writes).by = "undo",
         NEW e, e = CallEnds(d, "undo"), NEW l, l = Landed(d)
  PROVE  /\ Sound(e) /\ Only(l, e, {"cancels"}) /\ Only(d, e, {"cancels", "disk", "writes"})
         /\ e.disk = d.disk /\ (Quiet(d) => Quiet(e)) /\ ~e.cancels["undo"].on
         /\ ~e.cancels["undo"].attached
         /\ \A b \in Cancels : b # "undo" => e.cancels[b] = d.cancels[b]
<1>1. /\ Sound(l) /\ Only(d, l, {"disk", "writes"}) /\ Queued(l) \subseteq Queued(d)
      /\ l.disk = d.disk
  BY LandedFacts DEF Cancels
<1>2. e = [l EXCEPT !.cancels = [l.cancels EXCEPT !["undo"] = NoCancel]]
  BY DEF CallEnds
<1>3. NoCancel \in CancelStates /\ ~NoCancel.on /\ ~NoCancel.attached
  BY ExplanationBoundsAssumption DEF NoCancel, CancelStates
<1>4. l \in Device /\ l.cancels \in [Cancels -> CancelStates] /\ l.cancels = d.cancels
      /\ "undo" \in Cancels
  BY <1>1, DeviceIs DEF Sound, Only, Fields, Cancels
<1>5. [l.cancels EXCEPT !["undo"] = NoCancel] \in [Cancels -> CancelStates]
  BY <1>3, <1>4
<1>6. /\ e \in Device /\ Only(l, e, {"cancels"}) /\ e.cancels["undo"] = NoCancel
      /\ \A b \in Cancels : b # "undo" => e.cancels[b] = d.cancels[b]
  <2> DEFINE f == [l.cancels EXCEPT !["undo"] = NoCancel]
  <2>1. f["undo"] = NoCancel /\ \A b \in Cancels : b # "undo" => f[b] = d.cancels[b]
    BY <1>4
  <2>2. f \in [Cancels -> CancelStates] /\ e = [l EXCEPT !.cancels = f]
    BY <1>2, <1>5
  <2> HIDE DEF f
  <2>3. e \in Device /\ Only(l, e, {"cancels"}) /\ e.cancels = f
    BY <1>4, <2>2, DeviceIs DEF Only, Fields
  <2> QED
    BY <2>1, <2>3
<1>7. /\ e.writes = l.writes /\ e.reports = l.reports /\ e.obj = l.obj /\ e.cur = l.cur
      /\ e.restore = l.restore /\ e.active = l.active /\ e.coach = l.coach
      /\ Only(d, e, {"cancels", "disk", "writes"}) /\ e.disk = d.disk
      /\ l.reports = d.reports /\ l.obj = d.obj /\ l.restore = d.restore
      /\ \A c \in {"stop", "leave"} : c \in Cancels /\ c # "undo"
  BY <1>1, <1>6 DEF Only, Fields, Cancels
<1>8. Sound(e)
  BY <1>1, <1>4, <1>6, <1>7 DEF Sound, Numbered, Called, Reporting, Queued
<1>9. Quiet(d) => Quiet(e)
  BY <1>1, <1>7 DEF Quiet, Queued
<1> QED
  BY <1>3, <1>6, <1>7, <1>8, <1>9

\* An undo goes on: the task is cancelled, or that is refused.
LEMMA UndoLandsFacts ==
  ASSUME Typed, UndoLands
  PROVE  /\ dev.writes # << >> /\ Head(dev.writes).by = "undo" /\ wire' = wire
         /\ \E n \in Starts : \E b :
              /\ dev.start[n].pc = "undoing" /\ dev' = Caught(b, n)
              /\ Sound(b) /\ Moves(Landed(dev), b, {})
              /\ Only(dev, b, {"disk", "writes", "cancels", "active", "obj", "coach", "busy", "task"})
              /\ b.disk = dev.disk /\ (b.active = "none" <=> dev.active = "none")
              /\ b.active \in {dev.active, "cancelled"} /\ ~b.cancels["undo"].attached
              /\ \A c \in Cancels : c # "undo" => b.cancels[c] = dev.cancels[c]
              /\ \/ /\ b.coach = IF dev.busy.route THEN "off" ELSE dev.coach
                    /\ b.task = "over" /\ ~b.busy.route /\ seen' = seen
                 \/ /\ b.coach = dev.coach /\ b.busy = dev.busy /\ b.task = dev.task
                    /\ here = "out" /\ (Quiet(dev) => Quiet(b))
                    /\ seen' = [seen EXCEPT !.lost = @ \/ dev.coach # "off"]
<1> DEFINE d == CallEnds(dev, "undo")
           l == Landed(dev)
<1>1. dev.writes # << >> /\ Head(dev.writes).by = "undo" /\ Sound(dev) /\ wire' = wire
  BY DEF UndoLands, Lands, Typed
<1>2. PICK n \in Starts :
        /\ dev.start[n].pc = "undoing"
        /\ \/ dev' = Caught(TaskCancelled(d), n) /\ seen' = seen
           \/ /\ here = "out" /\ dev' = Caught(d, n)
              /\ seen' = [seen EXCEPT !.lost = @ \/ d.coach # "off"]
  BY DEF UndoLands, CallEnds
<1>3. /\ Sound(d) /\ Only(l, d, {"cancels"}) /\ Only(dev, d, {"cancels", "disk", "writes"})
      /\ d.disk = dev.disk /\ (Quiet(dev) => Quiet(d)) /\ ~d.cancels["undo"].on
      /\ ~d.cancels["undo"].attached
      /\ \A c \in Cancels : c # "undo" => d.cancels[c] = dev.cancels[c]
  <2>1. d = CallEnds(dev, "undo") /\ l = Landed(dev)
    OBVIOUS
  <2> HIDE DEF d, l
  <2> QED
    BY <1>1, <2>1, UndoEndsFacts
<1>l. l.cancels = dev.cancels
  BY <1>1, LandedFacts DEF Only, Fields
<1> HIDE DEF d, l
<1>4. \A M : Moves(l, d, M)
  BY <1>3, <1>l, CallEndsMoves
<1>5. /\ d.active = dev.active /\ d.coach = dev.coach /\ d.busy = dev.busy /\ d.task = dev.task
      /\ Only(dev, d, {"disk", "writes", "cancels", "active", "obj", "coach", "busy", "task"})
  BY <1>3 DEF Only, Fields
<1>6. CASE dev' = Caught(TaskCancelled(d), n) /\ seen' = seen
  <2> DEFINE b == TaskCancelled(d)
  <2>1. /\ Sound(b) /\ (\A M : Moves(d, b, M))
        /\ Only(d, b, {"active", "obj", "writes", "coach", "busy", "task"})
        /\ b.coach = IF d.busy.route THEN "off" ELSE d.coach
        /\ ~b.busy.route /\ b.task = "over"
        /\ (b.active = "none" <=> d.active = "none")
        /\ b.active \in {d.active, "cancelled"}
    BY <1>3, TaskCancelledFacts
  <2>2. dev' = Caught(b, n)
    BY <1>6
  <2> HIDE DEF b
  <2>3. Moves(l, b, {})
    BY <1>4, <2>1, MovesOn, QueuedFacts DEF Sound
  <2>4. /\ Only(dev, b, {"disk", "writes", "cancels", "active", "obj", "coach", "busy", "task"})
        /\ b.disk = d.disk /\ b.cancels = d.cancels
    BY <1>5, <2>1 DEF Only, Fields
  <2> QED
    BY <1>1, <1>2, <1>3, <1>5, <1>6, <2>1, <2>2, <2>3, <2>4 DEF l
<1>7. CASE /\ here = "out" /\ dev' = Caught(d, n)
           /\ seen' = [seen EXCEPT !.lost = @ \/ d.coach # "off"]
  <2>1. Moves(l, d, {})
    BY <1>4
  <2> QED
    BY <1>1, <1>2, <1>3, <1>5, <1>7, <2>1 DEF l
<1> QED
  BY <1>2, <1>6, <1>7

(***************************************************************************)
(* The steps of the restore, and of a process that begins.                 *)
(***************************************************************************)
\* What the restore tells.
LEMMA RestoreWireFacts ==
  ASSUME NEW d \in Device
  PROVE  \A m \in RestoreWire(d) :
           /\ m \in Requests /\ m.kind = "restore" /\ ~m.late /\ m.report = d.restore.j.report
           /\ d.restore.pc = "sending"
<1>1. d.restore.j \in Journals
  BY DeviceIs DEF RestoreStates
<1>2. d.restore.j.report \in [status : Statuses, rev : Nat]
  BY <1>1, JournalFacts
<1>3. 0 \in 0 .. MaxStarts
  BY ExplanationBoundsAssumption
<1> DEFINE x == Request("restore", 0, d.restore.j.report)
<1>4. x \in Requests /\ x.kind = "restore" /\ ~x.late /\ x.report = d.restore.j.report
  BY <1>2, <1>3 DEF Request, Requests
<1>5. RestoreWire(d) = IF d.restore.pc = "sending" THEN {x} ELSE {}
  BY DEF RestoreWire
<1> HIDE DEF x
<1> QED
  BY <1>4, <1>5

\* More requests of the restore.
LEMMA WiredMore ==
  ASSUME NEW d, NEW w, Wired(d, w), NEW e \in Device,
         d.reports.pc = "sending" => e.reports.pc = "sending",
         NEW v, v = w \cup RestoreWire(e)
  PROVE  Wired(e, v)
<1>1. \A m \in v : m \in w \/ (m \in Requests /\ m.kind = "restore" /\ ~m.late)
  BY RestoreWireFacts
<1>2. Asks(v, "report") = Asks(w, "report")
  BY <1>1 DEF Asks
<1> QED
  BY <1>1, <1>2 DEF Wired

\* The journal of the restore is saved, and its report goes on its way.
LEMMA RestoreLandsFacts ==
  ASSUME Typed, RestoreLands
  PROVE  LET l == Landed(dev) IN
         /\ dev.writes # << >> /\ Head(dev.writes).by = "restore"
         /\ Sound(dev') /\ Only(l, dev', {"restore"}) /\ Wired(dev', wire')
         /\ \/ /\ dev'.restore.pc = "sending" /\ dev'.restore.j = dev.restore.j
               /\ wire' = wire \cup RestoreWire(dev') /\ dev.restore.pc = "storing"
            \/ /\ dev'.restore.pc = "idle" /\ dev'.restore.j = NoJournal
               /\ wire' = wire
<1> DEFINE l == Landed(dev)
<1>1. dev.writes # << >> /\ Head(dev.writes).by = "restore" /\ Sound(dev) /\ Wired(dev, wire)
  BY DEF RestoreLands, Lands, Typed
<1>2. Sound(l) /\ Only(dev, l, {"disk", "writes"})
  BY <1>1, LandedFacts
<1>3. \/ /\ dev' = [l EXCEPT !.restore.pc = "sending"] /\ l.restore.pc = "storing"
         /\ wire' = wire \cup RestoreWire(dev')
      \/ dev' = [l EXCEPT !.restore = [pc |-> "idle", j |-> NoJournal]] /\ wire' = wire
  BY DEF RestoreLands
<1> HIDE DEF l
<1>4. l \in Device /\ l.restore \in RestoreStates /\ l.restore = dev.restore /\ l.reports = dev.reports
  BY <1>2, DeviceIs DEF Sound, Only, Fields
<1>5. CASE /\ dev' = [l EXCEPT !.restore.pc = "sending"] /\ l.restore.pc = "storing"
           /\ wire' = wire \cup RestoreWire(dev')
  <2> DEFINE r == [l.restore EXCEPT !.pc = "sending"]
  <2>1. r \in RestoreStates /\ r.pc = "sending" /\ r.j = l.restore.j
    BY <1>4 DEF RestoreStates, ReportPcs
  <2>2. dev' = [l EXCEPT !.restore = r]
    BY <1>4, <1>5, DeviceIs
  <2> HIDE DEF r
  <2>3. Sound(dev') /\ Only(l, dev', {"restore"}) /\ dev'.restore = r
    BY <1>2, <2>1, <2>2, RestoreGiven
  <2>4. dev'.reports = dev.reports /\ dev' \in Device
    BY <1>4, <2>3 DEF Only, Fields, Sound
  <2>5. Wired(dev', wire')
    <3>1. dev.reports.pc = "sending" => dev'.reports.pc = "sending"
      BY <2>4
    <3>2. wire' = wire \cup RestoreWire(dev')
      BY <1>5
    <3> QED
      BY <1>1, <2>4, <3>1, <3>2, WiredMore
  <2> QED
    BY <1>1, <1>4, <1>5, <2>1, <2>3, <2>5 DEF l
<1>6. CASE dev' = [l EXCEPT !.restore = [pc |-> "idle", j |-> NoJournal]] /\ wire' = wire
  <2> DEFINE r == [pc |-> "idle", j |-> NoJournal]
  <2>1. r \in RestoreStates /\ r.pc = "idle" /\ r.j = NoJournal
    BY JournalFacts DEF RestoreStates, ReportPcs
  <2>2. dev' = [l EXCEPT !.restore = r]
    BY <1>6
  <2> HIDE DEF r
  <2>3. Sound(dev') /\ Only(l, dev', {"restore"}) /\ dev'.restore = r
    BY <1>2, <2>1, <2>2, RestoreGiven
  <2>4. dev'.reports = dev.reports
    BY <1>4, <2>3 DEF Only, Fields
  <2>5. Wired(dev', wire')
    BY <1>1, <1>6, <2>4, WiredStays
  <2> QED
    BY <1>1, <1>6, <2>1, <2>3, <2>5 DEF l
<1> QED
  BY <1>3, <1>5, <1>6

\* The report of the restore is answered, or its sender gives up.
LEMMA RestoreReportsFacts ==
  ASSUME Typed, NEW m \in wire, RestoreReports(m)
  PROVE  /\ m.kind = "restore" /\ ~m.late /\ m \in Asks(wire, "restore")
         /\ Sound(dev') /\ Wired(dev', wire') /\ Only(dev, dev', {"restore", "writes"})
         /\ server' \in {server, ReportRows(m.report)}
         /\ wire' \subseteq (wire \ {m}) \cup {Late(m)}
         /\ \/ /\ dev'.restore.pc = "clearing" /\ dev'.restore.j.phase = dev.restore.j.phase
               /\ \E x \in Calls : /\ x.by = "restore" /\ x.n = 0 /\ x.j = dev'.restore.j
                                   /\ dev'.writes = Append(dev.writes, x)
            \/ /\ dev'.restore.pc = "idle" /\ dev'.restore.j = NoJournal
               /\ dev'.writes = dev.writes
<1>1. m.kind = "restore" /\ ~m.late /\ Sound(dev) /\ Wired(dev, wire) /\ server \in Rows
  BY DEF RestoreReports, Typed
<1>2. m \in Requests /\ m.report \in [status : Statuses, rev : Nat] /\ m \in Asks(wire, "restore")
  BY <1>1 DEF Wired, Requests, Asks
<1>3. wire' \subseteq (wire \ {m}) \cup {Late(m)}
  BY GivesUpFacts DEF RestoreReports
<1>4. dev \in Device /\ dev.restore \in RestoreStates /\ dev.restore.j \in Journals
  BY <1>1, DeviceIs DEF Sound, RestoreStates
<1>5. CASE /\ server' = ReportRows(m.report)
           /\ dev' = RestoreWrites([dev EXCEPT !.restore.j = Accepted(@, ReportRows(m.report))], "clearing")
  <2> DEFINE j == Accepted(dev.restore.j, ReportRows(m.report))
             r == [dev.restore EXCEPT !.j = j]
             b == [dev EXCEPT !.restore = r]
  <2>1. ReportRows(m.report) \in Rows
    BY <1>1, <1>2, ServerFacts
  <2>2. j \in Journals /\ j.phase = dev.restore.j.phase
    BY <1>4, <2>1, AcceptedFacts
  <2>3. dev' = RestoreWrites(b, "clearing") /\ "clearing" \in ReportPcs
    BY <1>4, <1>5, DeviceIs DEF ReportPcs
  <2> HIDE DEF j
  <2>4. r \in RestoreStates /\ r.j = j
    BY <1>4, <2>2 DEF RestoreStates
  <2> HIDE DEF r
  <2>5. Sound(b) /\ Only(dev, b, {"restore"}) /\ b.restore = r
    BY <1>1, <2>4, RestoreGiven
  <2> HIDE DEF b
  <2>6. /\ Sound(dev') /\ Only(b, dev', {"restore", "writes"})
        /\ dev'.restore = [pc |-> "clearing", j |-> b.restore.j]
        /\ \E x \in Calls : /\ x.by = "restore" /\ x.n = 0 /\ x.j = b.restore.j
                            /\ dev'.writes = Append(b.writes, x)
    BY <2>3, <2>5, RestoreWritesFacts
  <2>7. Only(dev, dev', {"restore", "writes"}) /\ b.writes = dev.writes /\ dev'.reports = dev.reports
    BY <2>5, <2>6 DEF Only, Fields
  <2>8. dev'.restore.pc = "clearing" /\ dev'.restore.j = j
    BY <2>4, <2>5, <2>6
  <2>9. Wired(dev', wire')
    BY <1>1, <1>3, <2>7, WiredWithout
  <2> QED
    BY <1>1, <1>2, <1>3, <1>5, <2>2, <2>4, <2>5, <2>6, <2>7, <2>8, <2>9
<1>6. CASE dev' = [dev EXCEPT !.restore = [pc |-> "idle", j |-> NoJournal]] /\ server' = server
  <2> DEFINE r == [pc |-> "idle", j |-> NoJournal]
  <2>1. r \in RestoreStates /\ r.pc = "idle" /\ r.j = NoJournal
    BY JournalFacts DEF RestoreStates, ReportPcs
  <2>2. dev' = [dev EXCEPT !.restore = r]
    BY <1>6
  <2> HIDE DEF r
  <2>3. Sound(dev') /\ Only(dev, dev', {"restore"}) /\ dev'.restore = r
    BY <1>1, <2>1, <2>2, RestoreGiven
  <2>4. dev'.reports = dev.reports /\ dev'.writes = dev.writes /\ Only(dev, dev', {"restore", "writes"})
    BY <2>3 DEF Only, Fields
  <2>5. Wired(dev', wire')
    BY <1>1, <1>3, <2>4, WiredWithout
  <2> QED
    BY <1>1, <1>2, <1>3, <1>6, <2>1, <2>3, <2>4, <2>5
<1> QED
  BY <1>5, <1>6 DEF RestoreReports

\* Signing in restores.
LEMMA SignInFacts ==
  ASSUME Typed, SignIn
  PROVE  /\ here = "out" /\ dev.writes = << >> /\ dev.restore.pc = "idle"
         /\ Sound(dev') /\ Wired(dev', wire') /\ Only(dev, dev', {"restore", "writes"})
         /\ dev' = Restored(dev) /\ wire' = wire \cup RestoreWire(dev')
<1>1. /\ here = "out" /\ dev.writes = << >> /\ dev.restore.pc = "idle" /\ Sound(dev) /\ Wired(dev, wire)
      /\ dev' = Restored(dev) /\ wire' = wire \cup RestoreWire(dev')
  BY DEF SignIn, Typed
<1>2. Sound(dev') /\ Only(dev, dev', {"restore", "writes"})
  BY <1>1, RestoredFacts
<1>3. dev'.reports = dev.reports /\ dev' \in Device
  BY <1>2 DEF Only, Fields, Sound
<1>4. Wired(dev', wire')
  BY <1>1, <1>3, WiredMore
<1> QED
  BY <1>1, <1>2, <1>4

\* A process that has just begun has nothing but the file and the starts that are over.
LEMMA FreshFacts ==
  ASSUME NEW j \in Journals, NEW s \in [Starts -> StartStates], NEW e,
         e = [disk |-> j, writes |-> << >>, obj |-> [n \in Starts |-> NoJournal], cur |-> 0, start |-> s,
              coach |-> "off", active |-> "none", busy |-> Free, task |-> "none",
              cancels |-> [c \in Cancels |-> NoCancel],
              reports |-> [queue |-> << >>, pc |-> "idle", queued |-> "none"],
              restore |-> [pc |-> "idle", j |-> NoJournal]]
  PROVE  /\ Sound(e) /\ e.disk = j /\ e.writes = << >> /\ e.cur = 0 /\ e.start = s
         /\ e.coach = "off" /\ e.active = "none" /\ e.busy = Free /\ e.task = "none"
         /\ e.reports.queue = << >> /\ e.reports.pc = "idle" /\ e.reports.queued = "none"
         /\ e.restore.pc = "idle" /\ e.restore.j = NoJournal
         /\ \A c \in Cancels : ~e.cancels[c].on /\ ~e.cancels[c].attached
         /\ \A n \in Starts : e.obj[n] = NoJournal
<1> DEFINE o == [n \in Starts |-> NoJournal]
           k == [c \in Cancels |-> NoCancel]
           r == [queue |-> << >>, pc |-> "idle", queued |-> "none"]
           t == [pc |-> "idle", j |-> NoJournal]
<1>2. o \in [Starts -> Journals] /\ \A n \in Starts : o[n] = NoJournal
  BY JournalFacts
<1>3. /\ k \in [Cancels -> CancelStates]
      /\ \A c \in Cancels : ~k[c].on /\ ~k[c].attached
  BY ExplanationBoundsAssumption DEF NoCancel, CancelStates
<1>4. /\ r \in ReportStates /\ r.queue = << >> /\ r.pc = "idle" /\ r.queued = "none"
      /\ t \in RestoreStates /\ t.pc = "idle" /\ t.j = NoJournal
  BY JournalFacts DEF ReportStates, RestoreStates, ReportPcs
<1>5. e = [disk |-> j, writes |-> << >>, obj |-> o, cur |-> 0, start |-> s, coach |-> "off",
           active |-> "none", busy |-> Free, task |-> "none", cancels |-> k, reports |-> r, restore |-> t]
  OBVIOUS
<1> HIDE DEF o, k, r, t
<1>6. /\ j \in Journals /\ s \in [Starts -> StartStates] /\ << >> \in Seq(Calls) /\ 0 \in 0 .. MaxStarts /\ "off" \in CoachPcs
      /\ "none" \in Cards /\ Free \in Holds /\ "none" \in Tasks
  BY ExplanationBoundsAssumption DEF CoachPcs, Cards, Holds, Free, Tasks
<1>7. e \in Device
  BY <1>2, <1>3, <1>4, <1>5, <1>6, DeviceIs
<1>8. /\ e.disk = j /\ e.writes = << >> /\ e.obj = o /\ e.cur = 0 /\ e.start = s
      /\ e.coach = "off" /\ e.active = "none" /\ e.busy = Free /\ e.task = "none" /\ e.cancels = k
      /\ e.reports = r /\ e.restore = t
  BY <1>5
<1>9. Queued(e) = {} /\ \A S : One(e.writes, S)
  BY <1>8 DEF Queued, Elements, One
<1>10. \A c \in {"stop", "leave"} : c \in Cancels
  BY DEF Cancels
<1>11. Sound(e)
  BY <1>3, <1>4, <1>7, <1>8, <1>9, <1>10 DEF Sound, Numbered, Called, Reporting
<1> QED
  BY <1>2, <1>3, <1>4, <1>8, <1>11

\* The process that begins after a crash, and finds the file of d.
Begun(d) ==
  [Fresh(d.disk) EXCEPT !.start =
     [n \in Starts |-> [pc |-> IF d.start[n].pc = "unused" THEN "unused" ELSE "done",
                        stale |-> FALSE]]]

\* Its starts are over, but for those that have not been made.
LEMMA BegunFacts ==
  ASSUME NEW d \in Device, NEW e, e = Begun(d)
  PROVE  /\ Sound(e) /\ e.disk = d.disk /\ e.writes = << >> /\ e.cur = 0
         /\ e.coach = "off" /\ e.active = "none" /\ e.busy = Free /\ e.task = "none"
         /\ e.reports.queue = << >> /\ e.reports.pc = "idle" /\ e.reports.queued = "none"
         /\ e.restore.pc = "idle" /\ e.restore.j = NoJournal
         /\ \A c \in Cancels : ~e.cancels[c].on /\ ~e.cancels[c].attached
         /\ \A n \in Starts : /\ e.obj[n] = NoJournal /\ ~e.start[n].stale
                              /\ e.start[n].pc \in {"unused", "done"}
                              /\ e.start[n].pc = "unused" <=> d.start[n].pc = "unused"
<1> DEFINE s == [n \in Starts |-> [pc |-> IF d.start[n].pc = "unused" THEN "unused" ELSE "done",
                                   stale |-> FALSE]]
<1>1. /\ s \in [Starts -> StartStates]
      /\ \A n \in Starts : s[n].pc \in {"unused", "done"} /\ ~s[n].stale
                             /\ (s[n].pc = "unused" <=> d.start[n].pc = "unused")
  BY DEF StartStates, Pcs
<1>2. d.disk \in Journals
  BY DeviceIs
<1>3. e = [disk |-> d.disk, writes |-> << >>, obj |-> [n \in Starts |-> NoJournal], cur |-> 0, start |-> s,
           coach |-> "off", active |-> "none", busy |-> Free, task |-> "none",
           cancels |-> [c \in Cancels |-> NoCancel],
           reports |-> [queue |-> << >>, pc |-> "idle", queued |-> "none"],
           restore |-> [pc |-> "idle", j |-> NoJournal]]
  BY DEF Begun, Fresh
<1> HIDE DEF s
<1> QED
  BY <1>1, <1>2, <1>3, FreshFacts

\* A crash: what a process that begins makes of the file.
LEMMA RestartFacts ==
  ASSUME Typed, Restart
  PROVE  /\ Sound(dev') /\ Wired(dev', wire') /\ here' = "left" /\ server' = server
         /\ \E b : b = Begun(dev) /\ dev' = Restored(b)
         /\ \E late : /\ wire' = late \cup RestoreWire(dev')
                      /\ \A m \in late : m.late /\ \E x \in wire : m = Late(x)
<1>1. Sound(dev) /\ dev \in Device /\ Wired(dev, wire)
  BY DEF Typed, Sound
<1>2. dev' = Restored(Begun(dev)) /\ here' = "left" /\ server' = server
  BY DEF Restart, Begun
<1>3. PICK late \in SUBSET {Late(m) : m \in wire} : wire' = late \cup RestoreWire(dev')
  BY DEF Restart, Late
<1>4. PICK b : b = Begun(dev)
  OBVIOUS
<1>5. Sound(b)
  BY <1>1, <1>4, BegunFacts
<1>6. Sound(dev') /\ dev' \in Device
  BY <1>2, <1>4, <1>5, RestoredFacts DEF Sound
<1>7. \A m \in late : /\ m.late /\ \E x \in wire : m = Late(x)
                      /\ m \in Requests /\ (m.kind # "restore" => m.n # 0)
  <2> SUFFICES ASSUME NEW m \in late
               PROVE  /\ m.late /\ \E x \in wire : m = Late(x)
                      /\ m \in Requests /\ (m.kind # "restore" => m.n # 0)
    OBVIOUS
  <2>1. PICK x \in wire : m = Late(x)
    BY <1>3
  <2>2. x \in Requests /\ (x.kind # "restore" => x.n # 0)
    BY <1>1 DEF Wired
  <2> QED
    BY <2>1, <2>2, LateFacts
<1>8. \A m \in wire' : m \in late \/ (m \in Requests /\ m.kind = "restore" /\ ~m.late)
  BY <1>3, <1>6, RestoreWireFacts
<1>9. Asks(wire', "report") = {}
  BY <1>7, <1>8 DEF Asks
<1>10. Wired(dev', wire')
  BY <1>7, <1>8, <1>9 DEF Wired
<1> QED
  BY <1>2, <1>3, <1>4, <1>6, <1>7, <1>10

(***************************************************************************)
(* The types are kept.                                                     *)
(***************************************************************************)
\* The card keeps the start that it is about.
LEMMA PlacedStays ==
  ASSUME NEW d, NEW w, Placed(d, w), NEW e, NEW v, d.cur # 0 => e.cur # 0,
         \/ e.cur # 0
         \/ /\ \A n \in Starts : e.start[n].pc \in Placing => \E m \in Starts : d.start[m].pc \in Placing
            /\ Asks(v, "claim") # {} => Asks(w, "claim") # {}
  PROVE  Placed(e, v)
  BY DEF Placed

\* A step that moves the device keeps the types.
LEMMA MovedTyped ==
  ASSUME Typed, Sound(dev'), Wired(dev', wire'), Moved(dev, wire, dev', wire'), server' \in Rows,
         here' \in {"in", "left", "out"}, seen' \in Histories,
         \A x \in wire' : x.kind = "claim" /\ ~x.late => x \in wire
  PROVE  Typed'
<1>1. dev'.cur = dev.cur /\ \A n \in Starts : dev'.start[n].pc = dev.start[n].pc
  BY DEF Moved, Only, Fields
<1>2. Asks(wire', "claim") # {} => Asks(wire, "claim") # {}
  BY DEF Asks
<1>3. Placed(dev', wire')
  BY <1>1, <1>2, PlacedStays DEF Typed
<1> QED
  BY <1>3 DEF Typed

\* The catch keeps them.
LEMMA CaughtTyped ==
  ASSUME Typed, NEW b, NEW n \in Starts, Sound(b), dev' = Caught(b, n),
         \A m \in Starts : b.start[m].pc = dev.start[m].pc,
         b.cur = dev.cur, dev.reports.pc = "sending" => b.reports.pc = "sending",
         wire' = wire, server' \in Rows, here' \in {"in", "left", "out"}, seen' \in Histories
  PROVE  Typed'
<1>1. /\ Sound(dev') /\ Only(b, dev', {"busy", "active", "obj", "start", "writes"})
      /\ \A m \in Starts : m # n => dev'.start[m] = b.start[m]
      /\ dev'.start[n].pc \in {"failing", "done"}
  BY CaughtFacts
<1>2. dev'.cur = dev.cur /\ dev'.reports = b.reports
  BY <1>1 DEF Only, Fields
<1>3. Wired(dev', wire')
  BY <1>2, WiredStays DEF Typed
<1>4. \A m \in Starts : dev'.start[m].pc \in Placing => dev.start[m].pc \in Placing
  BY <1>1 DEF Placing
<1>5. Placed(dev', wire')
  BY <1>2, <1>4, PlacedStays DEF Typed
<1> QED
  BY <1>1, <1>3, <1>5 DEF Typed

\* Any other step of a start keeps them, once its start has its place.
LEMMA StartTyped ==
  ASSUME Typed, NEW F, F \subseteq Fields, "reports" \notin F, Sound(dev'), Only(dev, dev', F),
         dev'.cur # 0 \/ (dev'.cur = dev.cur /\ \A m \in Starts : dev'.start[m].pc \in Placing =>
                                                               dev.start[m].pc \in Placing),
         NEW n \in Starts, wire' \in {wire, wire \cup {Request("claim", n, NoReport)}},
         wire' # wire => dev'.cur # 0,
         server' \in Rows, here' \in {"in", "left", "out"}, seen' \in Histories
  PROVE  Typed'
<1> DEFINE r == Request("claim", n, NoReport)
<1>1. dev'.reports = dev.reports
  BY DEF Only, Fields
<1>2. r \in Requests /\ r.kind = "claim" /\ r.n = n /\ n # 0
  BY JournalFacts DEF Request, Requests
<1> HIDE DEF r
<1>3. Wired(dev', wire')
  <2>1. Asks(wire', "report") = Asks(wire, "report")
    BY <1>2 DEF Asks, r
  <2>2. \A m \in wire' : m \in Requests /\ (m.kind # "restore" => m.n # 0)
    BY <1>2 DEF Typed, Wired, r
  <2> QED
    BY <1>1, <2>1, <2>2 DEF Typed, Wired
<1>4. Placed(dev', wire')
  <2>1. CASE dev'.cur # 0
    BY <2>1 DEF Placed
  <2>2. CASE dev'.cur = 0
    BY <2>2, PlacedStays DEF Typed
  <2> QED
    BY <2>1, <2>2
<1> QED
  BY <1>3, <1>4 DEF Typed

\* The steps that move the device: those of the coach, the cancellations and the reports.
Moving ==
  \/ Coach \/ CoachLands \/ TerminalLands \/ ReportLands
  \/ \E c \in Cancels \ {"undo"} : CancelLands(c)
  \/ BeginRefused \/ ShowAgain \/ Continue \/ Stop \/ StopTask \/ Leave \/ SignOut
  \/ \E m \in wire : Reports(m)

\* What they have in common.
Common ==
  /\ Moved(dev, wire, dev', wire')
  /\ server'.owner = server.owner
  /\ \A x \in wire' : x.kind # "report" /\ ~x.late => x \in wire

\* A step that neither sends nor receives, and what it moves.
LEMMA StillCommon ==
  ASSUME Typed, Sound(dev'), Moved(dev, wire, dev', wire'), wire' = wire, server' = server,
         here' \in {"in", "left", "out"}, seen' \in Histories, dev'.reports.pc = dev.reports.pc
  PROVE  Typed' /\ Common
<1>1. Wired(dev', wire')
  BY WiredStays DEF Typed
<1>2. server' \in Rows /\ \A x \in wire' : x \in wire
  BY DEF Typed
<1>3. Typed'
  BY <1>1, <1>2, MovedTyped
<1> QED
  BY <1>2, <1>3 DEF Common

\* The coach steps.
LEMMA CoachCommon ==
  ASSUME Typed, Coach \/ Continue
  PROVE  Typed' /\ Common
<1>1. Rounds(dev, dev') /\ seen' \in Histories
  <2>1. CASE CoachRound
    BY <2>1, CoachRoundFacts DEF CoachRound, Typed
  <2>2. CASE ModelAnswers
    BY <2>2, ModelAnswersFacts DEF ModelAnswers, Typed
  <2>3. CASE Continue
    <3>1. seen \in Histories /\ seen' \in {seen, [seen EXCEPT !.may = TRUE]}
      BY <2>3, ContinueFacts DEF Typed
    <3>2. [seen EXCEPT !.may = TRUE] \in Histories
      BY <3>1 DEF Histories
    <3> QED
      BY <2>3, <3>1, <3>2, ContinueFacts
  <2> QED
    BY <2>1, <2>2, <2>3 DEF Coach
<1>2. wire' = wire /\ server' = server /\ here' = here
  BY DEF Coach, CoachRound, ModelAnswers, Continue
<1>3. Sound(dev') /\ dev'.reports = dev.reports
  BY <1>1 DEF Rounds, Only, Fields
<1>4. Moved(dev, wire, dev', wire')
  BY <1>1, <1>2, StepMoved DEF Rounds
<1>5. here' \in {"in", "left", "out"}
  BY <1>2 DEF Typed
<1> QED
  BY <1>1, <1>2, <1>3, <1>4, <1>5, StillCommon

\* A write of the coach is done.
LEMMA CoachLandsCommon ==
  ASSUME Typed, CoachLands
  PROVE  Typed' /\ Common
<1> DEFINE l == Landed(dev)
<1>1. /\ dev.writes # << >> /\ Head(dev.writes).by = "coach"
      /\ dev' = l \/ (Rounds(l, dev') /\ l.coach # "off")
      /\ seen' = IF l.coach = "consuming" THEN [seen EXCEPT !.may = FALSE] ELSE seen
  BY CoachLandsFacts
<1>2. Sound(dev) /\ seen \in Histories /\ here \in {"in", "left", "out"}
  BY DEF Typed
<1>3. wire' = wire /\ server' = server /\ here' = here
  BY DEF CoachLands
<1>4. Sound(l) /\ Only(dev, l, {"disk", "writes"})
  BY <1>1, <1>2, LandedFacts
<1>5. [seen EXCEPT !.may = FALSE] \in Histories
  BY <1>2 DEF Histories
<1> HIDE DEF l
<1>6. Moves(l, dev', {}) /\ Sound(dev') /\ dev'.reports = l.reports
  <2>1. CASE dev' = l
    <3>1. Moves(l, l, {})
      BY StillMoves DEF Only, Fields, Within
    <3> QED
      BY <1>4, <2>1, <3>1
  <2>2. CASE Rounds(l, dev')
    BY <2>2 DEF Rounds, Only, Fields
  <2> QED
    BY <1>1, <2>1, <2>2
<1>7. l.reports = dev.reports
  BY <1>4 DEF Only, Fields
<1>8. \A N : Kept(dev, wire, N) => {} \subseteq N /\ Waited(wire', N)
  BY <1>3 DEF Kept
<1>9. Head(dev.writes).by \notin {"start", "restore", "undo"}
  BY <1>1
<1>10. Moved(dev, wire, dev', wire')
  BY <1>1, <1>2, <1>6, <1>8, <1>9, LandedMoved DEF l
<1> QED
  BY <1>1, <1>2, <1>3, <1>5, <1>6, <1>7, <1>10, StillCommon

\* The cancellations are called.
LEMMA StopsCommon ==
  ASSUME Typed, Stop \/ StopTask \/ Leave \/ SignOut
  PROVE  Typed' /\ Common
<1>1. wire' = wire /\ server' = server /\ here' \in {"in", "left", "out"}
  BY DEF Stop, StopTask, Leave, SignOut, Typed
<1>2. seen' \in Histories
  <2>1. seen \in Histories /\ dev.active \in Cards
    BY DeviceIs DEF Typed, Sound
  <2>2. CASE Stop \/ Leave
    BY <2>1, <2>2 DEF Stop, Leave, Histories
  <2>3. CASE StopTask
    BY <2>1, <2>3 DEF StopTask
  <2>4. CASE SignOut
    <3>1. seen.breaks + 1 \in 0 .. MaxBreaks
      BY <2>1, <2>4, ExplanationBoundsAssumption DEF SignOut, Histories
    <3> QED
      BY <2>1, <2>4, <3>1 DEF SignOut, Histories
  <2> QED
    BY <2>2, <2>3, <2>4
<1>3. Sound(dev') /\ Moved(dev, wire, dev', wire') /\ dev'.reports = dev.reports
  <2>1. CASE Stop
    BY <2>1, StopFacts DEF Stops, Only, Fields
  <2>2. CASE StopTask
    BY <2>2, StopTaskFacts DEF Only, Fields
  <2>3. CASE Leave
    BY <2>3, LeaveFacts DEF Stops, Only, Fields
  <2>4. CASE SignOut
    BY <2>4, SignOutFacts DEF Only, Fields
  <2> QED
    BY <2>1, <2>2, <2>3, <2>4
<1> QED
  BY <1>1, <1>2, <1>3, StillCommon

\* The other steps of this kind.
LEMMA MovingFacts ==
  ASSUME Typed, Moving
  PROVE  Typed' /\ Common
<1>1. seen \in Histories /\ server \in Rows /\ here \in {"in", "left", "out"} /\ Wired(dev, wire)
  BY DEF Typed
<1>2. CASE TerminalLands
  <2>1. /\ Sound(dev') /\ Wired(dev', wire') /\ Moved(dev, wire, dev', wire')
        /\ wire' = wire /\ server' = server /\ here' = here /\ seen' = seen
    BY <1>2, TerminalLandsFacts DEF TerminalLands
  <2> QED
    BY <1>1, <2>1, MovedTyped DEF Common
<1>3. CASE ReportLands
  <2>1. /\ Sound(dev') /\ Wired(dev', wire') /\ Moved(dev, wire, dev', wire')
        /\ server' = server /\ here' = here /\ seen' = seen
        /\ \/ wire' = wire
           \/ \E n \in Starts : wire' = wire \cup {Request("report", n, dev.obj[n].report)}
    BY <1>3, ReportLandsFacts DEF ReportLands
  <2>2. \A x \in wire' : x.kind # "report" => x \in wire
    BY <2>1 DEF Request
  <2> QED
    BY <1>1, <2>1, <2>2, MovedTyped DEF Common
<1>4. ASSUME NEW c \in Cancels \ {"undo"}, CancelLands(c)
      PROVE  Typed' /\ Common
  <2>1. /\ Sound(dev') /\ Wired(dev', wire') /\ Moved(dev, wire, dev', wire')
        /\ wire' = wire /\ server' = server /\ here' = here /\ seen' = seen
    BY <1>4, CancelLandsFacts DEF CancelLands
  <2> QED
    BY <1>1, <2>1, MovedTyped DEF Common
<1>5. CASE BeginRefused \/ ShowAgain
  <2>1. /\ Sound(dev') /\ Moved(dev, wire, dev', wire') /\ dev'.reports = dev.reports
        /\ wire' = wire /\ server' = server /\ here' = here /\ seen' = seen
    <3>1. CASE BeginRefused
      BY <3>1, BeginRefusedFacts DEF BeginRefused, Only, Fields
    <3>2. CASE ShowAgain
      BY <3>2, ShowAgainFacts DEF ShowAgain, Only, Fields
    <3> QED
      BY <1>5, <3>1, <3>2
  <2> QED
    BY <1>1, <2>1, StillCommon
<1>6. ASSUME NEW m \in wire, Reports(m)
      PROVE  Typed' /\ Common
  <2>1. /\ Sound(dev') /\ Wired(dev', wire') /\ Moved(dev, wire, dev', wire')
        /\ server' \in {server, ReportRows(m.report)}
        /\ wire' \subseteq (wire \ {m}) \cup {Late(m)}
        /\ here' = here /\ seen' = seen
    BY <1>6, ReportsFacts DEF Reports
  <2>2. m \in Requests /\ m.report \in [status : Statuses, rev : Nat]
    BY <1>1 DEF Wired, Requests
  <2>3. server' \in Rows /\ server'.owner = server.owner
    BY <1>1, <2>1, <2>2, ServerFacts
  <2>4. \A x \in wire' : ~x.late => x \in wire
    BY <2>1, <2>2, LateFacts
  <2> QED
    BY <1>1, <2>1, <2>3, <2>4, MovedTyped DEF Common
<1> QED
  BY <1>2, <1>3, <1>4, <1>5, <1>6, CoachCommon, CoachLandsCommon, StopsCommon DEF Moving

\* A step that brings no start to its place.
LEMMA OnTyped ==
  ASSUME Typed, Sound(dev'), Wired(dev', wire'), server' \in Rows, here' \in {"in", "left", "out"},
         seen' \in Histories,
         \/ dev'.cur # 0
         \/ /\ dev'.cur = dev.cur
            /\ \A m \in Starts : dev'.start[m].pc \in Placing => dev.start[m].pc \in Placing
            /\ Asks(wire', "claim") # {} => Asks(wire, "claim") # {}
  PROVE  Typed'
<1>1. Placed(dev', wire')
  <2>1. CASE dev'.cur # 0
    BY <2>1 DEF Placed
  <2>2. CASE dev'.cur = 0
    BY <2>2, PlacedStays DEF Typed
  <2> QED
    BY <2>1, <2>2
<1> QED
  BY <1>1 DEF Typed

\* The steps of one start that neither send nor receive.
LEMMA BeginTyped ==
  ASSUME Typed, NEW n \in Starts, Begin(n) \/ Prepared(n) \/ Rounded(n)
  PROVE  Typed'
<1>1. /\ wire' = wire /\ server' = server /\ here' = here /\ seen' = seen
      /\ server \in Rows /\ here \in {"in", "left", "out"} /\ seen \in Histories
      /\ Sound(dev) /\ Wired(dev, wire)
  BY DEF Begin, Prepared, Rounded, Typed
<1>2. CASE Begin(n)
  <2>1. /\ Sound(dev') /\ dev'.cur = dev.cur /\ dev'.reports = dev.reports
        /\ dev'.start[n].pc = "preparing" /\ \A m \in Starts : m # n => dev'.start[m] = dev.start[m]
    BY <1>2, BeginFacts DEF Only, Fields
  <2>2. \A m \in Starts : dev'.start[m].pc \in Placing => dev.start[m].pc \in Placing
    BY <2>1 DEF Placing
  <2>3. Wired(dev', wire)
    BY <1>1, <2>1, WiredStays
  <2> QED
    BY <1>1, <2>1, <2>2, <2>3, OnTyped
<1>3. CASE dev' = Caught(dev, n)
  BY <1>1, <1>3, CaughtTyped
<1>4. CASE dev' = Opened(dev, n)
  <2>1. Sound(dev') /\ dev'.cur = n /\ dev'.reports = dev.reports
    BY <1>1, <1>4, OpenedFacts DEF Only, Fields
  <2>2. Wired(dev', wire) /\ n # 0
    BY <1>1, <2>1, WiredStays, JournalFacts
  <2> QED
    BY <1>1, <2>1, <2>2, OnTyped
<1>5. ASSUME NEW phase \in Phases, NEW p \in Pcs \ {"done"}, dev' = Writes(dev, n, phase, p),
             dev.start[n].pc \in Placing \/ p \notin Placing
      PROVE  Typed'
  <2>1. /\ Sound(dev') /\ Only(dev, dev', {"obj", "start", "writes"}) /\ dev'.start[n].pc = p
        /\ \A m \in Starts : m # n => dev'.start[m] = dev.start[m]
    BY <1>1, <1>5, WritesStartFacts
  <2>2. dev'.cur = dev.cur /\ dev'.reports = dev.reports
    BY <2>1 DEF Only, Fields
  <2>3. \A m \in Starts : dev'.start[m].pc \in Placing => dev.start[m].pc \in Placing
    BY <1>5, <2>1
  <2>4. Wired(dev', wire)
    BY <1>1, <2>2, WiredStays
  <2> QED
    BY <1>1, <2>1, <2>2, <2>3, <2>4, OnTyped
<1>6. CASE Prepared(n) /\ dev' = Writes(dev, n, "claiming", "writing")
  <2>1. "claiming" \in Phases /\ "writing" \in Pcs \ {"done"} /\ "writing" \notin Placing
    BY DEF Phases, Pcs, Placing
  <2> QED
    BY <1>5, <1>6, <2>1
<1>7. CASE Rounded(n) /\ dev' = Writes(dev, n, "dispatching", "dispatching")
  <2>1. /\ "dispatching" \in Phases /\ "dispatching" \in Pcs \ {"done"}
        /\ dev.start[n].pc \in Placing
    BY <1>7 DEF Phases, Pcs, Placing, Rounded
  <2> QED
    BY <1>5, <1>7, <2>1
<1> QED
  BY <1>2, <1>3, <1>4, <1>6, <1>7 DEF Prepared, Rounded, Writes

\* The task is made, and dispatched.
LEMMA SubmittedTyped ==
  ASSUME Typed, NEW n \in Starts, Admitted(n) \/ Submitted(n)
  PROVE  Typed'
<1>1. /\ wire' = wire /\ server' = server /\ here' = here
      /\ server \in Rows /\ here \in {"in", "left", "out"} /\ seen \in Histories
      /\ Sound(dev) /\ Wired(dev, wire)
  BY DEF Admitted, Submitted, Typed
<1>2. seen' \in Histories
  <2>1. CASE Admitted(n)
    BY <1>1, <2>1 DEF Admitted
  <2>2. CASE Submitted(n)
    <3> DEFINE given == dev.task = "going" /\ dev.coach = "off"
    <3>1. seen' \in {seen, [seen EXCEPT !.lost = @ \/ given], [seen EXCEPT !.dispatches = @ + 1, !.may = TRUE]}
      BY <2>2, SubmittedFacts
    <3>2. given \in BOOLEAN
      OBVIOUS
    <3> HIDE DEF given
    <3>3. [seen EXCEPT !.lost = @ \/ given] \in Histories
      BY <1>1, <3>2 DEF Histories
    <3>4. [seen EXCEPT !.dispatches = @ + 1, !.may = TRUE] \in Histories
      <4>1. seen \in Histories /\ seen.dispatches + 1 \in Nat
        BY <1>1 DEF Histories
      <4> QED
        BY <4>1 DEF Histories
    <3> QED
      BY <1>1, <3>1, <3>3, <3>4
  <2> QED
    BY <2>1, <2>2
<1>3. ASSUME NEW b, Sound(b), Only(dev, b, {"busy", "task"}), dev' = Caught(b, n)
      PROVE  Typed'
  <2>1. b.cur = dev.cur /\ b.reports = dev.reports /\ b.start = dev.start
    BY <1>3 DEF Only, Fields
  <2> QED
    BY <1>1, <1>2, <1>3, <2>1, CaughtTyped
<1>4. CASE Admitted(n)
  <2>1. CASE dev' = Caught(dev, n)
    <3>1. Only(dev, dev, {"busy", "task"})
      BY DEF Only
    <3> QED
      BY <1>1, <1>3, <2>1, <3>1
  <2>2. CASE Only(dev, dev', {"task", "start"})
    <3>1. /\ Sound(dev') /\ dev.start[n].pc = "submitting"
          /\ \A m \in Starts : m # n => dev'.start[m] = dev.start[m]
      BY <1>4, AdmittedFacts, <2>2, CaughtFacts, <1>1
    <3>2. dev'.cur = dev.cur /\ dev'.reports = dev.reports
      BY <2>2 DEF Only, Fields
    <3>3. \A m \in Starts : dev'.start[m].pc \in Placing => dev.start[m].pc \in Placing
      BY <3>1 DEF Placing
    <3>4. Wired(dev', wire)
      BY <1>1, <3>2, WiredStays
    <3> QED
      BY <1>1, <1>2, <3>1, <3>2, <3>3, <3>4, OnTyped
  <2> QED
    BY <1>4, <2>1, <2>2, AdmittedFacts
<1>5. CASE Submitted(n)
  <2>1. dev.cur # 0
    BY <1>5, SubmittedFacts
  <2>2. CASE dev' = Caught(Routed(dev), n)
    <3> DEFINE b == Routed(dev)
    <3>1. Sound(b) /\ Only(dev, b, {"busy"})
      BY <1>1, RoutedFacts
    <3>2. Only(dev, b, {"busy", "task"})
      BY <3>1 DEF Only
    <3> HIDE DEF b
    <3> QED
      BY <1>3, <2>2, <3>1, <3>2 DEF b
  <2>3. CASE dev' = Undoing(dev, n)
    <3>1. Sound(dev') /\ dev'.cur = dev.cur /\ dev'.reports = dev.reports
      BY <1>1, <2>1, <2>3, UndoingFacts DEF Only, Fields
    <3>2. Wired(dev', wire)
      BY <1>1, <3>1, WiredStays
    <3> QED
      BY <1>1, <1>2, <2>1, <3>1, <3>2, OnTyped
  <2>4. CASE dev' = Writes(Going(dev), n, "running", "running")
    <3> DEFINE g == Going(dev)
    <3>1. Sound(g) /\ g.cur = dev.cur /\ g.reports = dev.reports
      BY <1>1, <2>1, GoingFacts DEF Only, Fields
    <3>2. "running" \in Phases /\ "running" \in Pcs \ {"done"} /\ dev' = Writes(g, n, "running", "running")
      BY <2>4 DEF Phases, Pcs
    <3> HIDE DEF g
    <3>3. Sound(dev') /\ Only(g, dev', {"obj", "start", "writes"})
      BY <3>1, <3>2, WritesStartFacts
    <3>4. dev'.cur = dev.cur /\ dev'.reports = dev.reports
      BY <3>1, <3>3 DEF Only, Fields
    <3>5. Wired(dev', wire)
      BY <1>1, <3>4, WiredStays
    <3> QED
      BY <1>1, <1>2, <2>1, <3>3, <3>4, <3>5, OnTyped
  <2>5. CASE \E b : Sound(b) /\ Only(dev, b, {"busy", "task"}) /\ dev' = Caught(b, n)
    BY <1>3, <2>5
  <2> QED
    BY <1>5, <2>2, <2>3, <2>4, <2>5, SubmittedFacts
<1> QED
  BY <1>4, <1>5

\* The answer to a claim.
LEMMA ClaimsTyped ==
  ASSUME Typed, NEW m \in wire, Claims(m)
  PROVE  Typed'
<1>1. /\ here' = here /\ seen' = seen /\ Sound(dev) /\ Wired(dev, wire) /\ Placed(dev, wire)
      /\ server \in Rows /\ here \in {"in", "left", "out"} /\ seen \in Histories
  BY DEF Claims, Typed
<1>2. /\ ~m.late /\ m.n \in Starts /\ m \in Asks(wire, "claim")
      /\ wire' \subseteq (wire \ {m}) \cup {Late(m)}
  BY ClaimsFacts
<1>3. dev.cur # 0
  BY <1>1, <1>2 DEF Placed
<1>4. /\ server' \in {server, ClaimRows}
      /\ Sound(dev') /\ dev'.cur = dev.cur /\ dev'.reports = dev.reports
  <2>1. CASE dev' = Caught(dev, m.n) /\ server' = server
    BY <1>1, <1>2, <2>1, CaughtFacts DEF Only, Fields
  <2>2. ASSUME NEW b, Sound(b), Only(dev, b, {"obj"}), NEW phase \in Phases,
               NEW p \in Pcs \ {"done"},
               dev' = Writes(b, m.n, phase, p)
        PROVE  Sound(dev') /\ dev'.cur = dev.cur /\ dev'.reports = dev.reports
    <3>1. Sound(dev') /\ Only(b, dev', {"obj", "start", "writes"})
      BY <1>2, <2>2, WritesStartFacts
    <3> QED
      BY <2>2, <3>1 DEF Only, Fields
  <2>3. "claimed" \in Phases /\ "terminal" \in Phases /\ {"claimed", "lost"} \subseteq Pcs \ {"done"}
    BY DEF Phases, Pcs
  <2> QED
    BY <2>1, <2>2, <2>3, ClaimsFacts
<1>5. Wired(dev', wire')
  BY <1>1, <1>2, <1>4, WiredWithout
<1>6. server' \in Rows
  BY <1>1, <1>4, ServerFacts
<1> QED
  BY <1>1, <1>3, <1>4, <1>5, <1>6, OnTyped

\* A write of a start is done.
LEMMA StartLandsTyped ==
  ASSUME Typed, StartLands
  PROVE  Typed'
<1> DEFINE l == Landed(dev)
           n == Head(dev.writes).n
           pc == dev.start[n].pc
<1>1. /\ server' = server /\ here' = here /\ seen' = seen /\ Sound(dev) /\ Wired(dev, wire)
      /\ server \in Rows /\ here \in {"in", "left", "out"} /\ seen \in Histories
  BY DEF StartLands, Typed
<1>2. dev.writes # << >> /\ n \in Starts
  BY StartLandsFacts
<1>3. Sound(l) /\ Only(dev, l, {"disk", "writes"})
  BY <1>1, <1>2, LandedFacts
<1>4. l.start = dev.start /\ l.cur = dev.cur /\ l.reports = dev.reports
  BY <1>3 DEF Only, Fields
<1>5. CASE pc = "writing"
  <2>1. /\ wire' = wire \cup {Request("claim", n, NoReport)}
        /\ Sound(dev') /\ Only(l, dev', {"cur", "start"}) /\ dev'.cur = n
    BY <1>5, StartLandsFacts
  <2>2. Only(dev, dev', {"cur", "start", "disk", "writes"})
    BY <1>3, <2>1 DEF Only, Fields
  <2>3. dev'.cur # 0
    BY <1>2, <2>1, JournalFacts
  <2>4. {"cur", "start", "disk", "writes"} \subseteq Fields /\ "reports" \notin {"cur", "start", "disk", "writes"}
    BY DEF Fields
  <2> QED
    BY <1>1, <1>2, <2>1, <2>2, <2>3, <2>4, StartTyped
<1>6. CASE pc # "writing"
  <2>1. wire' = wire
    BY <1>6, StartLandsFacts
  <2>2. CASE dev' = Caught(l, n)
    BY <1>1, <1>2, <1>3, <1>4, <2>1, <2>2, CaughtTyped
  <2>3. CASE dev' = Opened(l, n)
    <3>1. Sound(dev') /\ dev'.cur = n /\ dev'.reports = l.reports
      BY <1>2, <1>3, <2>3, OpenedFacts DEF Only, Fields
    <3>2. Wired(dev', wire) /\ n # 0
      BY <1>1, <1>2, <1>4, <3>1, WiredStays, JournalFacts
    <3> QED
      BY <1>1, <2>1, <3>1, <3>2, OnTyped
  <2>4. CASE \/ dev' = At(l, n, "submitting") /\ pc = "dispatching"
             \/ dev' = At(l, n, "done")
             \/ dev' = Told(At(l, n, "done"), "active", n)
             \/ /\ Sound(dev') /\ Only(l, dev', {"active", "start"}) /\ dev'.start[n].pc = "done"
                /\ \A m \in Starts : m # n => dev'.start[m] = dev.start[m]
    <3>1. /\ Sound(dev') /\ dev'.cur = dev.cur /\ (dev.reports.pc = "sending" => dev'.reports.pc = "sending")
          /\ \A m \in Starts : m # n => dev'.start[m] = dev.start[m]
          /\ dev'.start[n].pc = "done" \/ (dev'.start[n].pc = "submitting" /\ pc = "dispatching")
      <4>1. ASSUME NEW p \in {"submitting", "done"}, NEW a, a = At(l, n, p)
            PROVE  /\ Sound(a) /\ Only(l, a, {"start"}) /\ a.start[n].pc = p
                   /\ a.cur = dev.cur /\ a.reports = dev.reports
                   /\ \A m \in Starts : m # n => a.start[m] = dev.start[m]
        <5>1. p \in Pcs
          BY <4>1 DEF Pcs
        <5>2. /\ Sound(a) /\ Only(l, a, {"start"}) /\ a.start[n].pc = p
              /\ \A m \in Starts : m # n => a.start[m] = l.start[m]
          BY <1>2, <1>3, <4>1, <5>1, AtFacts
        <5> QED
          BY <1>4, <5>2 DEF Only, Fields
      <4>2. CASE dev' = Told(At(l, n, "done"), "active", n)
        <5> DEFINE a == At(l, n, "done")
        <5>1. /\ Sound(a) /\ Only(l, a, {"start"}) /\ a.start[n].pc = "done"
              /\ a.cur = dev.cur /\ a.reports = dev.reports
              /\ \A m \in Starts : m # n => a.start[m] = dev.start[m]
          BY <4>1
        <5>2. dev' = Told(a, "active", n) /\ "active" \in Statuses
          BY <4>2, JournalFacts
        <5> HIDE DEF a
        <5>3. Sound(dev') /\ Only(a, dev', {"obj", "reports", "writes"})
              /\ (a.reports.pc # "idle" => dev'.reports.pc = a.reports.pc)
          BY <1>2, <5>1, <5>2, ToldFacts
        <5> QED
          BY <5>1, <5>3 DEF Only, Fields
      <4>3. CASE /\ Sound(dev') /\ Only(l, dev', {"active", "start"}) /\ dev'.start[n].pc = "done"
                 /\ \A m \in Starts : m # n => dev'.start[m] = dev.start[m]
        BY <1>4, <4>3 DEF Only, Fields
      <4> QED
        BY <2>4, <4>1, <4>2, <4>3
    <3>2. \A m \in Starts : dev'.start[m].pc \in Placing => dev.start[m].pc \in Placing
      BY <3>1 DEF Placing
    <3>3. Wired(dev', wire)
      BY <1>1, <3>1, WiredStays
    <3> QED
      BY <1>1, <2>1, <3>1, <3>2, <3>3, OnTyped
  <2> HIDE DEF l, n, pc
  <2>5. \/ dev' = Caught(l, n) \/ dev' = Opened(l, n) \/ (dev' = At(l, n, "submitting") /\ pc = "dispatching")
        \/ dev' = At(l, n, "done") \/ dev' = Told(At(l, n, "done"), "active", n)
        \/ /\ Sound(dev') /\ Only(l, dev', {"active", "start"}) /\ dev'.start[n].pc = "done"
           /\ \A m \in Starts : m # n => dev'.start[m] = dev.start[m]
    BY <1>6, StartLandsFacts DEF l, n, pc
  <2> QED
    BY <2>2, <2>3, <2>4, <2>5
<1> QED
  BY <1>5, <1>6

\* The undo is done.
LEMMA UndoLandsTyped ==
  ASSUME Typed, UndoLands
  PROVE  Typed'
<1>1. /\ server' = server /\ here' = here /\ Sound(dev) /\ Wired(dev, wire) /\ wire' = wire
      /\ server \in Rows /\ here \in {"in", "left", "out"} /\ seen \in Histories
  BY DEF UndoLands, Typed
<1>2. dev.writes # << >>
  BY UndoLandsFacts
<1>3. PICK n, b :
        /\ n \in Starts
        /\ dev' = Caught(b, n) /\ Sound(b) /\ Moves(Landed(dev), b, {})
        /\ Only(dev, b, {"disk", "writes", "cancels", "active", "obj", "coach", "busy", "task"})
        /\ seen' \in {seen, [seen EXCEPT !.lost = @ \/ dev.coach # "off"]}
  BY UndoLandsFacts
<1>4. seen' \in Histories
  <2> DEFINE given == dev.coach # "off"
  <2>1. given \in BOOLEAN /\ seen' \in {seen, [seen EXCEPT !.lost = @ \/ given]}
    BY <1>3
  <2> HIDE DEF given
  <2> QED
    BY <1>1, <2>1 DEF Histories
<1>5. b.start = dev.start /\ b.cur = dev.cur /\ b.reports = dev.reports
  BY <1>3 DEF Only, Fields
<1> QED
  BY <1>1, <1>3, <1>4, <1>5, CaughtTyped

\* The steps of the restore, and of the server by itself.
LEMMA RestoreTyped ==
  ASSUME Typed, RestoreLands \/ SignIn \/ \E m \in wire : RestoreReports(m)
  PROVE  Typed'
<1>1. /\ seen' = seen /\ Sound(dev) /\ Wired(dev, wire) /\ here' \in {"in", "left", "out"}
      /\ server \in Rows /\ seen \in Histories
  BY DEF RestoreLands, SignIn, RestoreReports, Typed
<1>2. ASSUME Sound(dev'), Wired(dev', wire'), server' \in Rows, dev'.start = dev.start,
             dev'.cur = dev.cur,
             \A x \in wire' : x.kind = "claim" /\ ~x.late => x \in wire
      PROVE  Typed'
  <2>1. Asks(wire', "claim") # {} => Asks(wire, "claim") # {}
    BY <1>2 DEF Asks
  <2> QED
    BY <1>1, <1>2, <2>1, OnTyped
<1>3. \A x \in RestoreWire(dev') : Sound(dev') => x.kind = "restore"
  BY RestoreWireFacts DEF Sound
<1>4. CASE RestoreLands
  <2> DEFINE l == Landed(dev)
  <2>1. /\ dev.writes # << >> /\ Sound(dev') /\ Only(l, dev', {"restore"}) /\ Wired(dev', wire')
        /\ wire' \in {wire, wire \cup RestoreWire(dev')} /\ server' = server
    BY <1>4, RestoreLandsFacts DEF RestoreLands
  <2>2. Only(dev, l, {"disk", "writes"})
    BY <1>1, <2>1, LandedFacts
  <2> HIDE DEF l
  <2>3. dev'.start = dev.start /\ dev'.cur = dev.cur
    BY <2>1, <2>2 DEF Only, Fields
  <2> QED
    BY <1>1, <1>2, <1>3, <2>1, <2>3
<1>5. CASE SignIn
  <2>1. /\ Sound(dev') /\ Only(dev, dev', {"restore", "writes"}) /\ Wired(dev', wire')
        /\ wire' = wire \cup RestoreWire(dev') /\ server' = server
    BY <1>5, SignInFacts DEF SignIn
  <2>2. dev'.start = dev.start /\ dev'.cur = dev.cur
    BY <2>1 DEF Only, Fields
  <2> QED
    BY <1>1, <1>2, <1>3, <2>1, <2>2
<1>6. ASSUME NEW m \in wire, RestoreReports(m)
      PROVE  Typed'
  <2>1. /\ Sound(dev') /\ Only(dev, dev', {"restore", "writes"}) /\ Wired(dev', wire')
        /\ server' \in {server, ReportRows(m.report)} /\ wire' \subseteq (wire \ {m}) \cup {Late(m)}
    BY <1>6, RestoreReportsFacts
  <2>2. m \in Requests /\ m.report \in [status : Statuses, rev : Nat]
    BY <1>1 DEF Wired, Requests
  <2>3. server' \in Rows
    BY <1>1, <2>1, <2>2, ServerFacts
  <2>4. \A x \in wire' : ~x.late => x \in wire
    BY <2>1, <2>2, LateFacts
  <2>5. dev'.start = dev.start /\ dev'.cur = dev.cur
    BY <2>1 DEF Only, Fields
  <2> QED
    BY <1>2, <2>1, <2>3, <2>4, <2>5
<1> QED
  BY <1>4, <1>5, <1>6

\* A process begins.
LEMMA RestartTyped ==
  ASSUME Typed, Restart
  PROVE  Typed'
<1>1. server' = server /\ server \in Rows /\ Sound(dev) /\ here' = "left" /\ Sound(dev') /\ Wired(dev', wire')
  BY RestartFacts DEF Typed
<1>2. seen' \in Histories
  <2>1. seen \in Histories /\ seen' = [seen EXCEPT !.breaks = @ + 1] /\ seen.breaks < MaxBreaks
    BY DEF Restart, Typed
  <2>2. seen.breaks + 1 \in 0 .. MaxBreaks
    BY <2>1, ExplanationBoundsAssumption DEF Histories
  <2> QED
    BY <2>1, <2>2 DEF Histories
<1>3. PICK late : /\ wire' = late \cup RestoreWire(dev') /\ \A m \in late : m.late
  BY RestartFacts
<1>4. Asks(wire', "claim") = {}
  BY <1>1, <1>3, RestoreWireFacts DEF Asks, Sound
<1>5. \A n \in Starts : dev'.start[n].pc \in {"unused", "done"}
  <2> DEFINE b == Begun(dev)
  <2>1. Sound(b) /\ \A n \in Starts : b.start[n].pc \in {"unused", "done"}
    BY <1>1, BegunFacts DEF Sound
  <2>2. dev' = Restored(b)
    BY RestartFacts
  <2> HIDE DEF b
  <2>3. Only(b, dev', {"restore", "writes"})
    BY <2>1, <2>2, RestoredFacts
  <2> QED
    BY <2>1, <2>3 DEF Only, Fields
<1>6. Placed(dev', wire')
  BY <1>4, <1>5 DEF Placed, Placing
<1> QED
  BY <1>1, <1>2, <1>6 DEF Typed

\* The server, the student's other computer and a request that is late.
LEMMA OutsideTyped ==
  ASSUME Typed, SessionCloses \/ OtherClaims \/ Return \/ (\E m \in wire : ServeLate(m))
  PROVE  Typed'
<1>1. /\ dev' = dev /\ seen' = seen /\ here' \in {"in", "left", "out"}
      /\ server \in Rows /\ seen \in Histories /\ Sound(dev) /\ Wired(dev, wire)
  BY DEF SessionCloses, OtherClaims, Return, ServeLate, Typed
<1>2. wire' \subseteq wire
  BY DEF SessionCloses, OtherClaims, Return, ServeLate
<1>3. server' \in Rows
  <2>1. CASE SessionCloses \/ OtherClaims
    BY <1>1, <2>1 DEF SessionCloses, OtherClaims, Rows, Statuses
  <2>2. CASE Return
    BY <1>1, <2>2 DEF Return
  <2>3. ASSUME NEW m \in wire, ServeLate(m)
        PROVE  server' \in Rows
    <3>1. m.report \in [status : Statuses, rev : Nat]
      BY <1>1 DEF Wired, Requests
    <3> QED
      BY <1>1, <2>3, <3>1, ServerFacts DEF ServeLate
  <2> QED
    BY <2>1, <2>2, <2>3
<1>4. Wired(dev, wire')
  BY <1>1, <1>2 DEF Wired, Asks
<1>5. Asks(wire', "claim") # {} => Asks(wire, "claim") # {}
  BY <1>2 DEF Asks
<1> QED
  BY <1>1, <1>3, <1>4, <1>5, OnTyped

\* The steps that do not move the device, but for the outside.
StartStep ==
  \/ StartLands \/ UndoLands
  \/ \E n \in Starts : Begin(n) \/ Prepared(n) \/ Rounded(n) \/ Admitted(n) \/ Submitted(n)
  \/ \E m \in wire : Claims(m)
\* The steps of the restore.
RestoreStep == RestoreLands \/ SignIn \/ \E m \in wire : RestoreReports(m)
\* The steps of the server, and the way back into the class.
Outside == SessionCloses \/ OtherClaims \/ Return \/ (\E m \in wire : ServeLate(m))

\* Every step is of one of these kinds.
LEMMA StepKinds ==
  Next => Moving \/ StartStep \/ RestoreStep \/ Restart \/ Outside
  BY DEF Next, Store, Moving, StartStep, RestoreStep, Outside

\* The types are inductive.
LEMMA TypedStep ==
  ASSUME Typed, [Next]_vars
  PROVE  Typed'
<1>1. CASE StartStep
  BY <1>1, BeginTyped, SubmittedTyped, ClaimsTyped, StartLandsTyped, UndoLandsTyped DEF StartStep
<1>2. CASE RestoreStep
  BY <1>2, RestoreTyped DEF RestoreStep
<1>3. CASE Outside
  BY <1>3, OutsideTyped DEF Outside
<1>4. CASE UNCHANGED vars
  BY <1>4 DEF vars, Typed, Sound, Numbered, Called, Reporting, Wired, Placed, Histories, Rows
<1> QED
  BY <1>1, <1>2, <1>3, <1>4, MovingFacts, RestartTyped, StepKinds

\* They hold at the start.
LEMMA TypedInit == Init => Typed
<1> SUFFICES ASSUME Init
             PROVE  Typed
  OBVIOUS
<1>1. server \in Rows /\ here \in {"in", "left", "out"} /\ seen \in Histories /\ wire = {}
  BY ExplanationBoundsAssumption DEF Init, Rows, Statuses, Histories
<1>2. dev = Fresh(NoJournal)
  BY DEF Init
<1>3. Sound(dev) /\ \A n \in Starts : dev.start[n].pc = "unused"
  <2> DEFINE s == [n \in Starts |-> [pc |-> "unused", stale |-> FALSE]]
  <2>1. s \in [Starts -> StartStates] /\ \A n \in Starts : s[n].pc = "unused"
    BY DEF StartStates, Pcs
  <2>2. dev = [disk |-> NoJournal, writes |-> << >>, obj |-> [n \in Starts |-> NoJournal], cur |-> 0, start |-> s,
             coach |-> "off", active |-> "none", busy |-> Free, task |-> "none",
             cancels |-> [c \in Cancels |-> NoCancel],
             reports |-> [queue |-> << >>, pc |-> "idle", queued |-> "none"],
             restore |-> [pc |-> "idle", j |-> NoJournal]]
    BY <1>2 DEF Fresh
  <2> HIDE DEF s
  <2> QED
    BY <2>1, <2>2, FreshFacts, JournalFacts
<1> QED
  BY <1>1, <1>3 DEF Typed, Wired, Placed, Asks, Placing

\* Every state is typed.
THEOREM TypedAlways == Spec => []Typed
<1>1. Typed /\ [Next]_vars => Typed'
  BY TypedStep
<1> QED
  BY <1>1, TypedInit, PTL DEF Spec

\* The fields of the computer, of the server and of the requests keep their types (Explanation's
\* TypeOK), for any number of starts, requests and restarts.
THEOREM TypeCorrect == Spec => []TypeOK
  BY TypedAlways, TypedIsTypeOK, PTL

(***************************************************************************)
(* The writes of the starts: one at a time for each start, and only while  *)
(* it waits for it.                                                        *)
(***************************************************************************)
Writing == {"writing", "claimed", "lost", "dispatching", "running", "failing"}

\* The starts but n: a write in the queue, the journal of one that prepares, the card.
StartingBut(d, n) ==
  /\ \A x \in Queued(d) : x.by = "start" => x.n # n /\ d.start[x.n].pc \in Writing
  /\ \A m \in Starts : One(d.writes, StartCalls(m))
  /\ \A m \in Starts : m # n /\ d.start[m].pc \in {"unused", "preparing", "writing"} => d.cur # m
  /\ \A m \in Starts : m # n /\ d.start[m].pc = "preparing" => d.obj[m].phase \in {"none", "claimed"}

\* All of them.
Starting(d) ==
  /\ \A x \in Queued(d) : x.by = "start" => d.start[x.n].pc \in Writing
  /\ \A m \in Starts : One(d.writes, StartCalls(m))
  /\ \A m \in Starts : d.start[m].pc \in {"unused", "preparing", "writing"} => d.cur # m
  /\ \A m \in Starts : d.start[m].pc = "preparing" => d.obj[m].phase \in {"none", "claimed"}

\* A claim is waited for by the start that claims.
Claiming(d, w) ==
  \A m \in Asks(w, "claim") : d.start[m.n].pc = "claiming" /\ m.report = NoReport

\* A device that has not moved its starts.
LEMMA StartingKept ==
  ASSUME NEW d, NEW e, Starting(d), Sound(d), e.cur = d.cur,
         \A m \in Starts : e.start[m].pc = d.start[m].pc,
         \A m \in Starts : e.obj[m].phase = d.obj[m].phase \/ m = d.cur,
         \A x \in Queued(e) : x.by = "start" => x \in Queued(d),
         \A m \in Starts : One(d.writes, StartCalls(m)) => One(e.writes, StartCalls(m))
  PROVE  Starting(e)
<1>1. \A x \in Queued(d) : x.by = "start" => x.n \in Starts
  BY QueuedFacts DEF Sound, Numbered
<1>2. \A x \in Queued(e) : x.by = "start" => e.start[x.n].pc \in Writing
  BY <1>1 DEF Starting
<1> QED
  BY <1>2 DEF Starting

\* The same for all starts but one.
LEMMA StartingButKept ==
  ASSUME NEW d, NEW e, NEW n, StartingBut(d, n), Sound(d), e.cur = d.cur,
         \A m \in Starts : e.start[m].pc = d.start[m].pc,
         \A m \in Starts : e.obj[m].phase = d.obj[m].phase \/ m = d.cur,
         \A x \in Queued(e) : x.by = "start" => x \in Queued(d),
         \A m \in Starts : One(d.writes, StartCalls(m)) => One(e.writes, StartCalls(m))
  PROVE  StartingBut(e, n)
<1>1. \A x \in Queued(d) : x.by = "start" => x.n \in Starts
  BY QueuedFacts DEF Sound, Numbered
<1>2. \A x \in Queued(e) : x.by = "start" => x.n # n /\ e.start[x.n].pc \in Writing
  BY <1>1 DEF StartingBut
<1> QED
  BY <1>2 DEF StartingBut

\* What moves a device keeps its starts.
LEMMA MovesStarting ==
  ASSUME NEW d, NEW e, NEW M, Moves(d, e, M), Sound(d)
  PROVE  /\ Starting(d) => Starting(e)
         /\ \A n : StartingBut(d, n) => StartingBut(e, n)
<1>1. e.cur = d.cur
  BY DEF Moves, Only, Fields
<1>2. \A m \in Starts : e.start[m].pc = d.start[m].pc /\ (e.obj[m].phase = d.obj[m].phase \/ m = d.cur)
  BY DEF Moves
<1>3. \A x \in Queued(e) : x.by = "start" => x \in Queued(d)
  BY DEF Moves, Extra
<1>4. \A m \in Starts : One(d.writes, StartCalls(m)) => One(e.writes, StartCalls(m))
  <2>1. \A m \in Starts : \A x \in StartCalls(m) : x.by \in {"start", "restore"}
    BY DEF StartCalls
  <2> QED
    BY <2>1 DEF Moves
<1> QED
  BY <1>1, <1>2, <1>3, <1>4, StartingKept, StartingButKept

\* What a start does to its own part of a device.
Shape(b, e, n) ==
  /\ Only(b, e, {"cur", "active", "cancels", "busy", "task", "coach", "obj", "start", "writes"})
  /\ e.cur \in {b.cur, n}
  /\ \A m \in Starts : m # n => e.start[m] = b.start[m] /\ e.obj[m] = b.obj[m]
  /\ e.start[n].pc \in {"unused", "preparing", "writing"} => e.cur # n
  /\ e.start[n].pc = "preparing" => e.obj[n].phase \in {"none", "claimed"}
  /\ \/ e.writes = b.writes
     \/ \E x \in Calls : /\ e.writes = Append(b.writes, x)
                         /\ \/ x.by = "start" /\ x.n = n /\ e.start[n].pc \in Writing
                            \/ x.by = "undo"

\* The start takes its place again.
LEMMA ShapeStarting ==
  ASSUME NEW b, NEW e, NEW n \in Starts, Sound(b), StartingBut(b, n), Shape(b, e, n)
  PROVE  Starting(e)
<1>1. \A x \in Queued(b) : x.by = "start" => x.n \in Starts /\ x.n # n /\ e.start[x.n].pc \in Writing
  BY QueuedFacts DEF Sound, Numbered, StartingBut, Shape
<1>2. b.writes \in Seq(Calls)
  BY QueuedFacts DEF Sound
<1>3. /\ \A x \in Queued(e) : x.by = "start" => e.start[x.n].pc \in Writing
      /\ \A m \in Starts : One(e.writes, StartCalls(m))
  <2>1. CASE e.writes = b.writes
    BY <1>1, <2>1 DEF Queued, StartingBut
  <2>2. ASSUME NEW x \in Calls, e.writes = Append(b.writes, x),
               \/ x.by = "start" /\ x.n = n /\ e.start[n].pc \in Writing
               \/ x.by = "undo"
        PROVE  /\ \A y \in Queued(e) : y.by = "start" => e.start[y.n].pc \in Writing
               /\ \A m \in Starts : One(e.writes, StartCalls(m))
    <3>1. Queued(e) = Queued(b) \cup {x}
      BY <1>2, <2>2, AppendFacts DEF Queued
    <3>2. \A m \in Starts : One(e.writes, StartCalls(m))
      <4> SUFFICES ASSUME NEW m \in Starts
                   PROVE  One(e.writes, StartCalls(m))
        OBVIOUS
      <4>1. One(b.writes, StartCalls(m))
        BY DEF StartingBut
      <4>2. x \notin StartCalls(m) \/ \A y \in Elements(b.writes) : y \notin StartCalls(m)
        BY <1>1, <2>2 DEF StartCalls, Queued
      <4> QED
        BY <1>2, <2>2, <4>1, <4>2, AppendFacts
    <3> QED
      BY <1>1, <2>2, <3>1, <3>2
  <2> QED
    BY <2>1, <2>2 DEF Shape
<1>4. \A m \in Starts : e.start[m].pc \in {"unused", "preparing", "writing"} => e.cur # m
  BY DEF Shape, StartingBut
<1>5. \A m \in Starts : e.start[m].pc = "preparing" => e.obj[m].phase \in {"none", "claimed"}
  BY DEF Shape, StartingBut
<1> QED
  BY <1>3, <1>4, <1>5 DEF Starting

\* A start that does not wait for a write.
LEMMA ButStarting ==
  ASSUME NEW d, Starting(d), NEW n, d.start[n].pc \notin Writing
  PROVE  StartingBut(d, n)
  BY DEF Starting, StartingBut

\* A start whose write is done.
LEMMA LandedStarting ==
  ASSUME NEW d, Sound(d), Starting(d), d.writes # << >>, Head(d.writes).by \in {"start", "undo"},
         NEW n \in Starts, Head(d.writes).by = "start" => n = Head(d.writes).n,
         Head(d.writes).by = "undo" => d.start[n].pc \notin Writing
  PROVE  StartingBut(Landed(d), n)
<1> DEFINE l == Landed(d)
<1>1. /\ Only(d, l, {"disk", "writes"}) /\ Queued(l) \subseteq Queued(d)
      /\ Head(d.writes) \in Queued(d) /\ Head(d.writes) \in Calls
      /\ \A S : One(d.writes, S) =>
           One(l.writes, S) /\ (Head(d.writes) \in S => \A x \in Queued(l) : x \notin S)
  BY LandedFacts
<1> HIDE DEF l
<1>2. l.cur = d.cur /\ l.obj = d.obj /\ l.start = d.start
  BY <1>1 DEF Only, Fields
<1>3. \A x \in Queued(d) : x \in Calls
  BY QueuedFacts DEF Sound
<1>4. ASSUME NEW x \in Queued(l), x.by = "start"
      PROVE  x.n # n /\ l.start[x.n].pc \in Writing
  <2>1. l.start[x.n].pc \in Writing
    BY <1>1, <1>2, <1>4 DEF Starting
  <2>2. CASE Head(d.writes).by = "start"
    <3>1. Head(d.writes) \in StartCalls(n) /\ One(d.writes, StartCalls(n))
      BY <1>1, <2>2 DEF StartCalls, Starting
    <3>2. x \notin StartCalls(n) /\ x \in Calls
      BY <1>1, <1>3, <3>1
    <3> QED
      BY <1>4, <2>1, <3>2 DEF StartCalls
  <2>3. CASE Head(d.writes).by = "undo"
    BY <1>2, <2>1, <2>3
  <2> QED
    BY <2>2, <2>3
<1>5. \A m \in Starts : One(l.writes, StartCalls(m))
  BY <1>1 DEF Starting
<1> QED
  BY <1>2, <1>4, <1>5 DEF Starting, StartingBut, l

\* A device that stays.
LEMMA MovesSelf ==
  ASSUME NEW d, NEW M
  PROVE  Moves(d, d, M)
  BY StillMoves DEF Only, Within

\* The catch, a write and the card of a start, after a change of the device or of its journal.
LEMMA CaughtShape ==
  ASSUME NEW l, NEW b, NEW n \in Starts, Sound(b), Only(l, b, {"busy", "task"})
  PROVE  Shape(l, Caught(b, n), n)
<1> DEFINE e == Caught(b, n)
<1>1. /\ Only(b, e, {"busy", "active", "obj", "start", "writes"})
      /\ \A m \in Starts : m # n => e.start[m] = b.start[m] /\ e.obj[m] = b.obj[m]
      /\ e.start[n].pc \in {"failing", "done"}
      /\ \/ e.writes = b.writes
         \/ e.start[n].pc = "failing" /\ \E x \in Calls : x.by = "start" /\ x.n = n /\ e.writes = Append(b.writes, x)
  BY CaughtFacts
<1> HIDE DEF e
<1>2. Only(l, e, {"cur", "active", "cancels", "busy", "task", "coach", "obj", "start", "writes"}) /\ e.cur = l.cur
      /\ b.start = l.start /\ b.obj = l.obj /\ b.writes = l.writes
  BY <1>1 DEF Only, Fields
<1> QED
  BY <1>1, <1>2 DEF Shape, Writing, e

\* So does a write.
LEMMA WritesShape ==
  ASSUME NEW l, NEW b, NEW n \in Starts, Sound(b), Only(l, b, {"busy", "task", "coach", "obj"}),
         \A m \in Starts : m # n => b.obj[m] = l.obj[m],
         NEW phase \in Phases, NEW p \in Writing, p = "writing" => l.cur # n
  PROVE  Shape(l, Writes(b, n, phase, p), n)
<1> DEFINE e == Writes(b, n, phase, p)
<1>0. p \in Pcs \ {"done"}
  BY DEF Writing, Pcs
<1>1. /\ Only(b, e, {"obj", "start", "writes"})
      /\ \A m \in Starts : m # n => e.start[m] = b.start[m] /\ e.obj[m] = b.obj[m]
      /\ e.start[n].pc = p
      /\ \E x \in Calls : x.by = "start" /\ x.n = n /\ e.writes = Append(b.writes, x)
  BY <1>0, WritesStartFacts
<1> HIDE DEF e
<1>2. Only(l, e, {"cur", "active", "cancels", "busy", "task", "coach", "obj", "start", "writes"}) /\ e.cur = l.cur
      /\ b.start = l.start /\ b.writes = l.writes
  BY <1>1 DEF Only, Fields
<1> QED
  BY <1>1, <1>2 DEF Shape, Writing, e

\* So does the card.
LEMMA OpenedShape ==
  ASSUME NEW l, NEW n \in Starts, Sound(l), NEW e, e = Opened(l, n)
  PROVE  Shape(l, e, n) /\ Sound(e)
<1>1. /\ Only(l, e, {"cur", "active", "cancels", "start"}) /\ Sound(e)
      /\ e.cur = n /\ e.start[n].pc = "round" /\ \A m \in Starts : m # n => e.start[m] = l.start[m]
  BY OpenedFacts
<1>2. Only(l, e, {"cur", "active", "cancels", "busy", "task", "coach", "obj", "start", "writes"})
      /\ e.obj = l.obj /\ e.writes = l.writes
  BY <1>1 DEF Only, Fields
<1> QED
  BY <1>1, <1>2 DEF Shape

\* A step of start n: perhaps a call is done and others go on, then the start goes on.
StartForm(n, l, b, c) ==
  /\ Sound(l) /\ Sound(b) /\ Sound(c)
  /\ \/ l = dev /\ dev.start[n].pc \notin Writing
     \/ /\ dev.writes # << >> /\ l = Landed(dev)
        /\ \/ Head(dev.writes).by = "start" /\ n = Head(dev.writes).n
           \/ Head(dev.writes).by = "undo" /\ dev.start[n].pc \notin Writing
  /\ Moves(l, b, {}) /\ Shape(b, c, n) /\ Moves(c, dev', {n})
  /\ \A m \in Asks(wire', "claim") :
       (m \in wire /\ m.n # n) \/ (m = Request("claim", n, NoReport) /\ c.start[n].pc = "claiming")
  /\ \A m \in wire' : m.kind # "claim" /\ ~m.late => m \in wire

\* The steps that neither land nor receive.
LEMMA PlainForm ==
  ASSUME Typed, Claiming(dev, wire), NEW n \in Starts, NEW e, e = dev', wire' = wire,
         Sound(e), Shape(dev, e, n), dev.start[n].pc \notin Writing \cup {"claiming"}
  PROVE  StartForm(n, dev, dev, e)
<1>1. Moves(dev, dev, {}) /\ Moves(e, e, {n}) /\ Sound(dev)
  BY MovesSelf DEF Typed
<1>2. \A m \in Asks(wire', "claim") : m \in wire /\ m.n # n
  BY DEF Claiming, Asks
<1> QED
  BY <1>1, <1>2 DEF StartForm

\* Every step of a start is of this form.
LEMMA BeginForm ==
  ASSUME Typed, Starting(dev), Claiming(dev, wire), NEW n \in Starts,
         Begin(n) \/ Prepared(n) \/ Rounded(n)
  PROVE  \E l, b, c : StartForm(n, l, b, c)
<1>1. wire' = wire /\ Sound(dev) /\ dev.start[n].pc \in {"unused", "preparing", "round"}
  BY BeginFacts DEF Begin, Prepared, Rounded, Typed
<1>2. dev.start[n].pc \notin Writing \cup {"claiming"}
  BY <1>1 DEF Writing
<1>3. Only(dev, dev, {"busy", "task"}) /\ Only(dev, dev, {"busy", "task", "coach", "obj"})
  BY DEF Only
<1>4. Sound(dev')
  <2>1. Typed'
    BY BeginTyped
  <2> QED
    BY <2>1 DEF Typed
<1>5. Shape(dev, dev', n)
  <2>1. CASE Begin(n)
    <3>1. /\ Only(dev, dev', {"obj", "busy", "start"}) /\ dev.start[n].pc = "unused" /\ MayStart(dev.disk)
          /\ dev'.obj[n] = dev.disk /\ dev'.start[n].pc = "preparing"
          /\ \A m \in Starts : m # n => dev'.start[m] = dev.start[m] /\ dev'.obj[m] = dev.obj[m]
      BY <2>1, BeginFacts
    <3>2. /\ Only(dev, dev', {"cur", "active", "cancels", "busy", "task", "coach", "obj", "start", "writes"})
          /\ dev'.cur = dev.cur /\ dev'.writes = dev.writes
      BY <3>1 DEF Only, Fields
    <3>3. dev.cur # n
      BY <3>1 DEF Starting
    <3> QED
      BY <3>1, <3>2, <3>3 DEF Shape, MayStart
  <2>2. CASE dev' = Caught(dev, n)
    BY <1>1, <1>3, <2>2, CaughtShape
  <2>3. CASE dev' = Opened(dev, n)
    BY <1>1, <2>3, OpenedShape
  <2>4. CASE Prepared(n) /\ dev' = Writes(dev, n, "claiming", "writing")
    <3>1. dev.cur # n
      BY <2>4 DEF Starting, Prepared
    <3>2. "claiming" \in Phases /\ "writing" \in Writing
      BY DEF Phases, Writing
    <3> QED
      BY <1>1, <1>3, <2>4, <3>1, <3>2, WritesShape
  <2>5. CASE Rounded(n) /\ dev' = Writes(dev, n, "dispatching", "dispatching")
    <3>1. "dispatching" \in Phases /\ "dispatching" \in Writing /\ "dispatching" # "writing"
      BY DEF Phases, Writing
    <3> QED
      BY <1>1, <1>3, <2>5, <3>1, WritesShape
  <2> QED
    BY <2>1, <2>2, <2>3, <2>4, <2>5 DEF Prepared, Rounded, Writes
<1> QED
  BY <1>1, <1>2, <1>4, <1>5, PlainForm

\* A submission has a form.
LEMMA SubmittedForm ==
  ASSUME Typed, Starting(dev), Claiming(dev, wire), NEW n \in Starts, Admitted(n) \/ Submitted(n)
  PROVE  \E l, b, c : StartForm(n, l, b, c)
<1>1. wire' = wire /\ Sound(dev) /\ dev.start[n].pc \in {"submitting", "creating"}
  BY DEF Admitted, Submitted, Typed
<1>2. dev.start[n].pc \notin Writing \cup {"claiming"}
  BY <1>1 DEF Writing
<1>3. Sound(dev')
  <2>1. Typed'
    BY SubmittedTyped
  <2> QED
    BY <2>1 DEF Typed
<1>4. ASSUME NEW b, Sound(b), Only(dev, b, {"busy", "task"}), dev' = Caught(b, n)
      PROVE  Shape(dev, dev', n)
  BY <1>4, CaughtShape
<1>5. CASE Admitted(n)
  <2>1. CASE dev' = Caught(dev, n)
    <3>1. Only(dev, dev, {"busy", "task"})
      BY DEF Only
    <3> QED
      BY <1>1, <1>2, <1>3, <1>4, <2>1, <3>1, PlainForm
  <2>2. CASE /\ Only(dev, dev', {"task", "start"}) /\ dev'.start[n].pc = "creating"
             /\ \A m \in Starts : m # n => dev'.start[m] = dev.start[m]
    <3>1. /\ Only(dev, dev', {"cur", "active", "cancels", "busy", "task", "coach", "obj", "start", "writes"})
          /\ dev'.cur = dev.cur /\ dev'.writes = dev.writes /\ dev'.obj = dev.obj
      BY <2>2 DEF Only, Fields
    <3>2. Shape(dev, dev', n)
      BY <2>2, <3>1 DEF Shape
    <3> QED
      BY <1>1, <1>2, <1>3, <3>2, PlainForm
  <2> QED
    BY <1>5, <2>1, <2>2, AdmittedFacts
<1>6. CASE Submitted(n)
  <2>0. dev.cur # 0
    BY <1>6, SubmittedFacts
  <2>1. Shape(dev, dev', n)
    <3>1. CASE dev' = Caught(Routed(dev), n)
      <4> DEFINE b == Routed(dev)
      <4>1. Sound(b) /\ Only(dev, b, {"busy"})
        BY <1>1, RoutedFacts
      <4>2. Only(dev, b, {"busy", "task"})
        BY <4>1 DEF Only
      <4> HIDE DEF b
      <4> QED
        BY <1>4, <3>1, <4>1, <4>2 DEF b
    <3>2. CASE dev' = Undoing(dev, n)
      <4>1. /\ Only(dev, dev', {"busy", "coach", "task", "cancels", "start", "writes"})
            /\ dev'.start[n].pc = "undoing" /\ \A m \in Starts : m # n => dev'.start[m] = dev.start[m]
            /\ \E x \in Calls : x.by = "undo" /\ dev'.writes = Append(dev.writes, x)
        BY <1>1, <2>0, <3>2, UndoingFacts
      <4>2. /\ Only(dev, dev', {"cur", "active", "cancels", "busy", "task", "coach", "obj", "start", "writes"})
            /\ dev'.cur = dev.cur /\ dev'.obj = dev.obj
        BY <4>1 DEF Only, Fields
      <4> QED
        BY <4>1, <4>2 DEF Shape
    <3>3. CASE dev' = Writes(Going(dev), n, "running", "running")
      <4> DEFINE g == Going(dev)
      <4>1. Sound(g) /\ Only(dev, g, {"busy", "coach", "task"})
        BY <1>1, <2>0, GoingFacts
      <4>2. "running" \in Phases /\ "running" \in Writing /\ dev' = Writes(g, n, "running", "running")
        BY <3>3 DEF Phases, Writing
      <4>3. Only(dev, g, {"busy", "task", "coach", "obj"}) /\ g.obj = dev.obj
        BY <4>1 DEF Only, Fields
      <4> HIDE DEF g
      <4> QED
        BY <4>1, <4>2, <4>3, WritesShape
    <3>4. CASE \E b : Sound(b) /\ Only(dev, b, {"busy", "task"}) /\ dev' = Caught(b, n)
      BY <1>4, <3>4
    <3> QED
      BY <1>6, <3>1, <3>2, <3>3, <3>4, SubmittedFacts
  <2> QED
    BY <1>1, <1>2, <1>3, <2>1, PlainForm
<1> QED
  BY <1>5, <1>6

\* So has an answer to a claim.
LEMMA ClaimsForm ==
  ASSUME Typed, Starting(dev), Claiming(dev, wire), NEW m \in wire, Claims(m)
  PROVE  \E n \in Starts : \E l, b, c : StartForm(n, l, b, c)
<1>1. /\ m.n \in Starts /\ m \in Asks(wire, "claim") /\ wire' \subseteq (wire \ {m}) \cup {Late(m)}
  BY ClaimsFacts
<1>2. Sound(dev) /\ Wired(dev, wire)
  BY DEF Typed
<1>3. dev.start[m.n].pc = "claiming" /\ dev.start[m.n].pc \notin Writing
  BY <1>1 DEF Claiming, Writing
<1>4. Sound(dev')
  <2>1. Typed'
    BY ClaimsTyped
  <2> QED
    BY <2>1 DEF Typed
<1>5. Shape(dev, dev', m.n)
  <2>1. CASE dev' = Caught(dev, m.n)
    <3>1. Only(dev, dev, {"busy", "task"})
      BY DEF Only
    <3> QED
      BY <1>1, <1>2, <2>1, <3>1, CaughtShape
  <2>2. ASSUME NEW b, Sound(b), Only(dev, b, {"obj"}),
               \A k \in Starts : k # m.n => b.obj[k] = dev.obj[k],
               NEW phase \in Phases, NEW p \in {"claimed", "lost"}, dev' = Writes(b, m.n, phase, p)
        PROVE  Shape(dev, dev', m.n)
    <3>1. Only(dev, b, {"busy", "task", "coach", "obj"})
      BY <2>2 DEF Only
    <3>2. p \in Writing /\ p # "writing"
      BY <2>2 DEF Writing
    <3> QED
      BY <1>1, <2>2, <3>1, <3>2, WritesShape
  <2>3. "claimed" \in Phases /\ "terminal" \in Phases
    BY DEF Phases
  <2> QED
    BY <2>1, <2>2, <2>3, ClaimsFacts
<1>6. \A x \in wire' : ~x.late => x \in wire \ {m}
  <2>1. \A x \in wire : x \in Requests /\ (x.kind # "restore" => x.n # 0)
    BY <1>2 DEF Wired
  <2> QED
    BY <1>1, <2>1, WithoutFacts
<1>7. \A x \in Asks(wire', "claim") : x \in wire /\ x.n # m.n
  <2> SUFFICES ASSUME NEW x \in Asks(wire', "claim"), x.n = m.n
               PROVE  FALSE
    BY <1>6 DEF Asks
  <2>1. x \in wire \ {m} /\ x \in Asks(wire, "claim")
    BY <1>6 DEF Asks
  <2>2. /\ x \in Requests /\ m \in Requests /\ x.report = m.report /\ x.kind = m.kind
        /\ x.late = FALSE /\ m.late = FALSE
    BY <1>1, <1>2, <2>1 DEF Claiming, Asks, Wired, Requests
  <2>3. x = m
    BY <2>2 DEF Requests
  <2> QED
    BY <2>1, <2>3
<1>8. Moves(dev, dev, {}) /\ Moves(dev', dev', {m.n})
  BY MovesSelf
<1>9. StartForm(m.n, dev, dev, dev')
  BY <1>2, <1>3, <1>4, <1>5, <1>6, <1>7, <1>8 DEF StartForm
<1> QED
  BY <1>1, <1>9

\* So has a write of a start that is done.
LEMMA StartLandsForm ==
  ASSUME Typed, Starting(dev), Claiming(dev, wire), StartLands
  PROVE  \E n \in Starts : \E l, b, c : StartForm(n, l, b, c)
<1> DEFINE l == Landed(dev)
           n == Head(dev.writes).n
           pc == dev.start[n].pc
<1>1. dev.writes # << >> /\ Head(dev.writes).by = "start" /\ n \in Starts /\ Sound(dev)
  BY StartLandsFacts DEF Typed
<1>2. Sound(l) /\ Only(dev, l, {"disk", "writes"}) /\ Head(dev.writes) \in Queued(dev)
  BY <1>1, LandedFacts
<1>3. l.start = dev.start /\ l.cur = dev.cur
  BY <1>2 DEF Only, Fields
<1>4. pc \in Writing
  BY <1>1, <1>2 DEF Starting
<1>5. Moves(l, l, {}) /\ Only(l, l, {"busy", "task"})
  BY MovesSelf DEF Only
<1>6. \A m \in Asks(wire, "claim") : m \in wire /\ m.n # n
  BY <1>4 DEF Claiming, Writing, Asks
<1>7. Sound(dev')
  <2>1. Typed'
    BY StartLandsTyped
  <2> QED
    BY <2>1 DEF Typed
<1>8. ASSUME NEW c, Sound(c), Shape(l, c, n), Moves(c, dev', {n}),
             wire' = wire \/ (wire' = wire \cup {Request("claim", n, NoReport)} /\ c.start[n].pc = "claiming")
      PROVE  StartForm(n, l, l, c)
  <2>1. \A m \in Asks(wire', "claim") :
          (m \in wire /\ m.n # n) \/ (m = Request("claim", n, NoReport) /\ c.start[n].pc = "claiming")
    BY <1>6, <1>8 DEF Asks
  <2>2. \A m \in wire' : m.kind # "claim" /\ ~m.late => m \in wire
    BY <1>8 DEF Request
  <2> QED
    BY <1>1, <1>2, <1>5, <1>8, <2>1, <2>2 DEF StartForm
<1>9. Moves(dev', dev', {n})
  BY MovesSelf
<1> HIDE DEF l, n, pc
<1>10. CASE pc = "writing"
  <2>1. /\ wire' = wire \cup {Request("claim", n, NoReport)}
        /\ Only(l, dev', {"cur", "start"}) /\ dev'.cur = n /\ dev'.start[n].pc = "claiming"
        /\ \A m \in Starts : m # n => dev'.start[m] = dev.start[m]
    BY <1>10, StartLandsFacts DEF l, n, pc
  <2>2. /\ Only(l, dev', {"cur", "active", "cancels", "busy", "task", "coach", "obj", "start", "writes"})
        /\ dev'.writes = l.writes /\ dev'.obj = l.obj
    BY <2>1 DEF Only, Fields
  <2>3. Shape(l, dev', n)
    BY <1>3, <2>1, <2>2 DEF Shape
  <2> QED
    BY <1>1, <1>7, <1>8, <1>9, <2>1, <2>3
<1>11. CASE pc # "writing"
  <2>1. wire' = wire
    BY <1>11, StartLandsFacts DEF l, n, pc
  <2>2. CASE dev' = Caught(l, n)
    <3>1. Shape(l, dev', n)
      BY <1>1, <1>2, <1>5, <2>2, CaughtShape
    <3> QED
      BY <1>1, <1>7, <1>8, <1>9, <2>1, <3>1
  <2>3. CASE dev' = Opened(l, n)
    <3>1. Shape(l, dev', n)
      BY <1>1, <1>2, <2>3, OpenedShape
    <3> QED
      BY <1>1, <1>7, <1>8, <1>9, <2>1, <3>1
  <2>4. ASSUME NEW p \in {"submitting", "done"}, NEW a, a = At(l, n, p)
        PROVE  Sound(a) /\ Shape(l, a, n)
    <3>1. p \in Pcs
      BY <2>4 DEF Pcs
    <3>2. /\ Sound(a) /\ Only(l, a, {"start"}) /\ a.start[n].pc = p
          /\ \A m \in Starts : m # n => a.start[m] = l.start[m]
      BY <1>1, <1>2, <2>4, <3>1, AtFacts
    <3>3. /\ Only(l, a, {"cur", "active", "cancels", "busy", "task", "coach", "obj", "start", "writes"})
          /\ a.writes = l.writes /\ a.obj = l.obj /\ a.cur = l.cur
      BY <3>2 DEF Only, Fields
    <3> QED
      BY <2>4, <3>2, <3>3 DEF Shape
  <2>5. CASE dev' = At(l, n, "submitting") \/ dev' = At(l, n, "done")
    BY <1>1, <1>8, <1>9, <2>1, <2>4, <2>5
  <2>6. CASE dev' = Told(At(l, n, "done"), "active", n)
    <3> DEFINE a == At(l, n, "done")
    <3>1. Sound(a) /\ Shape(l, a, n)
      BY <2>4
    <3>2. dev' = Told(a, "active", n) /\ "active" \in Statuses
      BY <2>6, JournalFacts
    <3> HIDE DEF a
    <3>3. Moves(a, dev', {n})
      BY <1>1, <3>1, <3>2, ToldFacts
    <3> QED
      BY <1>1, <1>8, <2>1, <3>1, <3>3
  <2>7. CASE /\ Only(l, dev', {"active", "start"}) /\ dev'.start[n].pc = "done"
             /\ \A m \in Starts : m # n => dev'.start[m] = dev.start[m]
    <3>1. /\ Only(l, dev', {"cur", "active", "cancels", "busy", "task", "coach", "obj", "start", "writes"})
          /\ dev'.writes = l.writes /\ dev'.obj = l.obj /\ dev'.cur = l.cur
      BY <2>7 DEF Only, Fields
    <3>2. Shape(l, dev', n)
      BY <1>3, <2>7, <3>1 DEF Shape
    <3> QED
      BY <1>1, <1>7, <1>8, <1>9, <2>1, <3>2
  <2>8. \/ dev' = Caught(l, n) \/ dev' = Opened(l, n) \/ dev' = At(l, n, "submitting")
        \/ dev' = At(l, n, "done") \/ dev' = Told(At(l, n, "done"), "active", n)
        \/ /\ Only(l, dev', {"active", "start"}) /\ dev'.start[n].pc = "done"
           /\ \A m \in Starts : m # n => dev'.start[m] = dev.start[m]
    BY <1>11, StartLandsFacts DEF l, n, pc
  <2> QED
    BY <2>2, <2>3, <2>5, <2>6, <2>7, <2>8
<1> QED
  BY <1>10, <1>11

\* So has an undo.
LEMMA UndoLandsForm ==
  ASSUME Typed, Starting(dev), Claiming(dev, wire), UndoLands
  PROVE  \E n \in Starts : \E l, b, c : StartForm(n, l, b, c)
<1>1. dev.writes # << >> /\ Head(dev.writes).by = "undo" /\ wire' = wire /\ Sound(dev)
  BY UndoLandsFacts DEF Typed
<1>2. PICK n, b :
        /\ n \in Starts
        /\ dev.start[n].pc = "undoing" /\ dev' = Caught(b, n) /\ Sound(b) /\ Moves(Landed(dev), b, {})
  BY UndoLandsFacts
<1>3. Sound(Landed(dev))
  BY <1>1, LandedFacts
<1>4. Sound(dev')
  <2>1. Typed'
    BY UndoLandsTyped
  <2> QED
    BY <2>1 DEF Typed
<1>5. Only(b, b, {"busy", "task"})
  BY DEF Only
<1>6. Shape(b, dev', n) /\ Moves(dev', dev', {n})
  BY <1>2, <1>5, CaughtShape, MovesSelf
<1>7. dev.start[n].pc \notin Writing /\ \A m \in Asks(wire', "claim") : m \in wire /\ m.n # n
  BY <1>1, <1>2 DEF Claiming, Writing, Asks
<1>8. StartForm(n, Landed(dev), b, dev')
  BY <1>1, <1>2, <1>3, <1>4, <1>6, <1>7 DEF StartForm
<1> QED
  BY <1>2, <1>8

\* So has every step of the starts.
LEMMA StartForms ==
  ASSUME Typed, Starting(dev), Claiming(dev, wire), StartStep
  PROVE  \E n \in Starts : \E l, b, c : StartForm(n, l, b, c)
  BY BeginForm, SubmittedForm, ClaimsForm, StartLandsForm, UndoLandsForm DEF StartStep

\* The writes of the starts stay in order when a start steps.
LEMMA FormStarting ==
  ASSUME Typed, Starting(dev), Claiming(dev, wire), NEW n \in Starts, NEW l, NEW b, NEW c,
         StartForm(n, l, b, c)
  PROVE  Starting(dev') /\ Claiming(dev', wire')
<1>1. Sound(dev) /\ Sound(l) /\ Sound(b) /\ Sound(c)
  BY DEF Typed, StartForm
<1>2. StartingBut(l, n) /\ l.start = dev.start
  <2>1. CASE l = dev /\ dev.start[n].pc \notin Writing
    BY <2>1, ButStarting
  <2>2. CASE /\ dev.writes # << >> /\ l = Landed(dev)
             /\ \/ Head(dev.writes).by = "start" /\ n = Head(dev.writes).n
                \/ Head(dev.writes).by = "undo" /\ dev.start[n].pc \notin Writing
    <3>1. Only(dev, l, {"disk", "writes"})
      BY <1>1, <2>2, LandedFacts
    <3>2. l.start = dev.start
      BY <3>1 DEF Only, Fields
    <3> QED
      BY <1>1, <2>2, <3>2, LandedStarting
  <2> QED
    BY <2>1, <2>2 DEF StartForm
<1>3. Moves(l, b, {}) /\ Shape(b, c, n) /\ Moves(c, dev', {n})
  BY DEF StartForm
<1>4. StartingBut(b, n)
  BY <1>1, <1>2, <1>3, MovesStarting
<1>5. Starting(c)
  BY <1>1, <1>3, <1>4, ShapeStarting
<1>6. Starting(dev')
  BY <1>1, <1>3, <1>5, MovesStarting
<1>7. \A m \in Starts : dev'.start[m].pc = c.start[m].pc /\ (m # n => c.start[m].pc = dev.start[m].pc)
  BY <1>2, <1>3 DEF Moves, Shape
<1>8. Claiming(dev', wire')
  <2> SUFFICES ASSUME NEW m \in Asks(wire', "claim")
               PROVE  dev'.start[m.n].pc = "claiming" /\ m.report = NoReport
    BY DEF Claiming
  <2>1. CASE m \in wire /\ m.n # n
    <3>1. m \in Asks(wire, "claim") /\ m.n \in Starts
      BY <2>1, JournalFacts DEF Asks, Typed, Wired, Requests
    <3> QED
      BY <1>7, <2>1, <3>1 DEF Claiming
  <2>2. CASE m = Request("claim", n, NoReport) /\ c.start[n].pc = "claiming"
    BY <1>7, <2>2 DEF Request
  <2> QED
    BY <2>1, <2>2 DEF StartForm
<1> QED
  BY <1>6, <1>8

\* What the steps of the restore leave alone.
LEMMA RestoreStepFacts ==
  ASSUME Typed, RestoreStep
  PROVE  /\ Only(dev, dev', {"disk", "writes", "restore"})
         /\ \A x \in Queued(dev') : x.by # "restore" => x \in Queued(dev)
         /\ \A m \in Starts : One(dev.writes, StartCalls(m)) => One(dev'.writes, StartCalls(m))
         /\ \A m \in wire' : m.kind # "restore" /\ ~m.late => m \in wire
<1>1. Sound(dev) /\ dev.writes \in Seq(Calls) /\ Wired(dev, wire)
  BY QueuedFacts DEF Typed, Sound
<1>2. Sound(dev') => \A x \in RestoreWire(dev') : x.kind = "restore"
  BY RestoreWireFacts DEF Sound
<1>3. ASSUME NEW x \in Calls, x.by = "restore", dev'.writes = Append(dev.writes, x)
      PROVE  /\ \A y \in Queued(dev') : y.by # "restore" => y \in Queued(dev)
             /\ \A m \in Starts : One(dev.writes, StartCalls(m)) => One(dev'.writes, StartCalls(m))
  <2>1. Queued(dev') = Queued(dev) \cup {x}
    BY <1>1, <1>3, AppendFacts DEF Queued
  <2>2. \A m \in Starts : x \notin StartCalls(m)
    BY <1>3 DEF StartCalls
  <2>3. \A m \in Starts : One(dev.writes, StartCalls(m)) => One(dev'.writes, StartCalls(m))
    BY <1>1, <1>3, <2>2, AppendFacts
  <2> QED
    BY <1>3, <2>1, <2>3
<1>4. ASSUME dev'.writes = dev.writes
      PROVE  /\ \A y \in Queued(dev') : y.by # "restore" => y \in Queued(dev)
             /\ \A m \in Starts : One(dev.writes, StartCalls(m)) => One(dev'.writes, StartCalls(m))
  BY <1>4 DEF Queued
<1>5. CASE RestoreLands
  <2> DEFINE l == Landed(dev)
  <2>1. /\ dev.writes # << >> /\ Sound(dev') /\ Only(l, dev', {"restore"})
        /\ wire' \in {wire, wire \cup RestoreWire(dev')}
    BY <1>5, RestoreLandsFacts
  <2>2. /\ Only(dev, l, {"disk", "writes"}) /\ Queued(l) \subseteq Queued(dev)
        /\ \A S : One(dev.writes, S) => One(l.writes, S)
    BY <1>1, <2>1, LandedFacts
  <2> HIDE DEF l
  <2>3. dev'.writes = l.writes /\ Only(dev, dev', {"disk", "writes", "restore"})
    BY <2>1, <2>2 DEF Only, Fields
  <2>4. Queued(dev') = Queued(l)
    BY <2>3 DEF Queued
  <2> QED
    BY <1>2, <2>1, <2>2, <2>3, <2>4
<1>6. CASE SignIn
  <2>1. /\ Sound(dev') /\ Only(dev, dev', {"restore", "writes"})
        /\ dev' = Restored(dev) /\ wire' = wire \cup RestoreWire(dev')
    BY <1>6, SignInFacts
  <2>2. \/ dev'.writes = dev.writes
        \/ \E x \in Calls : x.by = "restore" /\ dev'.writes = Append(dev.writes, x)
    BY <1>1, <2>1, RestoredFacts
  <2>3. Only(dev, dev', {"disk", "writes", "restore"})
    BY <2>1 DEF Only
  <2> QED
    BY <1>2, <1>3, <1>4, <2>1, <2>2, <2>3
<1>7. ASSUME NEW m \in wire, RestoreReports(m)
      PROVE  /\ Only(dev, dev', {"disk", "writes", "restore"})
             /\ \A x \in Queued(dev') : x.by # "restore" => x \in Queued(dev)
             /\ \A k \in Starts : One(dev.writes, StartCalls(k)) => One(dev'.writes, StartCalls(k))
             /\ \A x \in wire' : x.kind # "restore" /\ ~x.late => x \in wire
  <2>1. /\ Only(dev, dev', {"restore", "writes"}) /\ wire' \subseteq (wire \ {m}) \cup {Late(m)}
        /\ \/ dev'.writes = dev.writes
           \/ \E x \in Calls : x.by = "restore" /\ dev'.writes = Append(dev.writes, x)
    BY <1>7, RestoreReportsFacts
  <2>2. Only(dev, dev', {"disk", "writes", "restore"})
    BY <2>1 DEF Only
  <2>3. \A x \in wire' : ~x.late => x \in wire
    BY <1>1, <2>1, LateFacts DEF Wired
  <2> QED
    BY <1>3, <1>4, <2>1, <2>2, <2>3
<1> QED
  BY <1>5, <1>6, <1>7 DEF RestoreStep

\* The writes of the starts are in order.
LEMMA StartingStep ==
  ASSUME Typed, Starting(dev), Claiming(dev, wire), [Next]_vars
  PROVE  Starting(dev') /\ Claiming(dev', wire')
<1>0. Sound(dev) /\ \A m \in Asks(wire, "claim") : m.n \in Starts
  BY JournalFacts DEF Typed, Wired, Requests, Asks
<1>1. CASE Moving
  <2>1. Common
    BY <1>1, MovingFacts
  <2>2. Moved(dev, wire, dev', wire')
    BY <2>1 DEF Common
  <2>3. /\ \A m \in Starts : dev'.start[m].pc = dev.start[m].pc
        /\ \A m \in Starts : dev'.obj[m].phase = dev.obj[m].phase \/ m = dev.cur
        /\ \A x \in Queued(dev') : x.by = "start" => x \in Queued(dev)
    BY <2>2 DEF Moved, Extra
  <2>4. dev'.cur = dev.cur
    BY <2>2 DEF Moved, Only, Fields
  <2>5. \A m \in Starts : One(dev.writes, StartCalls(m)) => One(dev'.writes, StartCalls(m))
    <3>1. \A m \in Starts : \A x \in StartCalls(m) : x.by \in {"start", "restore"}
      BY DEF StartCalls
    <3> QED
      BY <2>2, <3>1 DEF Moved
  <2>6. \A x \in Asks(wire', "claim") : x \in Asks(wire, "claim")
    BY <2>1 DEF Common, Asks
  <2>7. Starting(dev')
    BY <1>0, <2>3, <2>4, <2>5, StartingKept
  <2> QED
    BY <1>0, <2>3, <2>6, <2>7 DEF Claiming
<1>2. CASE StartStep
  BY <1>2, StartForms, FormStarting
<1>3. CASE RestoreStep
  <2>1. /\ Only(dev, dev', {"disk", "writes", "restore"})
        /\ \A x \in Queued(dev') : x.by # "restore" => x \in Queued(dev)
        /\ \A m \in Starts : One(dev.writes, StartCalls(m)) => One(dev'.writes, StartCalls(m))
        /\ \A m \in wire' : m.kind # "restore" /\ ~m.late => m \in wire
    BY <1>3, RestoreStepFacts
  <2>2. dev'.cur = dev.cur /\ dev'.start = dev.start /\ dev'.obj = dev.obj
    BY <2>1 DEF Only, Fields
  <2>3. \A x \in Asks(wire', "claim") : x \in Asks(wire, "claim")
    BY <2>1 DEF Asks
  <2>4. Starting(dev')
    BY <1>0, <2>1, <2>2, StartingKept
  <2> QED
    BY <2>2, <2>3, <2>4 DEF Claiming
<1>4. CASE Restart
  <2> DEFINE b == Begun(dev)
  <2>1. dev' = Restored(b) /\ Sound(b) /\ b.writes = << >> /\ b.cur = 0
        /\ \A n \in Starts : b.start[n].pc \in {"unused", "done"}
    BY <1>0, <1>4, RestartFacts, BegunFacts DEF Sound
  <2>2. PICK late : wire' = late \cup RestoreWire(dev') /\ \A m \in late : m.late
    BY <1>4, RestartFacts
  <2> HIDE DEF b
  <2>3. /\ Sound(dev') /\ Only(b, dev', {"restore", "writes"})
        /\ \/ dev'.writes = b.writes
           \/ \E x \in Calls : x.by = "restore" /\ dev'.writes = Append(b.writes, x)
    BY <2>1, RestoredFacts
  <2>4. \A x \in Queued(dev') : x.by = "restore"
    <3>1. b.writes \in Seq(Calls) /\ Elements(b.writes) = {}
      BY <2>1 DEF Elements
    <3>2. CASE dev'.writes = b.writes
      BY <3>1, <3>2 DEF Queued
    <3>3. ASSUME NEW x \in Calls, x.by = "restore", dev'.writes = Append(b.writes, x)
          PROVE  Queued(dev') = {x}
      <4>1. Elements(dev'.writes) = Elements(b.writes) \cup {x}
        BY <3>1, <3>3, AppendFacts
      <4> QED
        BY <3>1, <4>1 DEF Queued
    <3> QED
      BY <2>3, <3>2, <3>3
  <2>5. \A m \in Starts : One(dev'.writes, StartCalls(m))
    BY <2>4 DEF One, StartCalls, Queued, Elements
  <2>6. dev'.cur = 0 /\ \A n \in Starts : dev'.start[n].pc \in {"unused", "done"}
    BY <2>1, <2>3 DEF Only, Fields
  <2>7. Starting(dev')
    BY <2>4, <2>5, <2>6, JournalFacts DEF Starting
  <2>8. Asks(wire', "claim") = {}
    BY <2>2, <2>3, RestoreWireFacts DEF Asks, Sound
  <2> QED
    BY <2>7, <2>8 DEF Claiming
<1>5. CASE Outside \/ UNCHANGED vars
  <2>1. dev' = dev /\ wire' \subseteq wire
    BY <1>5 DEF Outside, SessionCloses, OtherClaims, Return, ServeLate, vars
  <2> QED
    BY <2>1 DEF Claiming, Asks
<1> QED
  BY <1>1, <1>2, <1>3, <1>4, <1>5, StepKinds

(***************************************************************************)
(* The restore does one thing at a time.                                   *)
(***************************************************************************)
Restoring(d, w) ==
  /\ \A x \in Queued(d) : x.by = "restore" => d.restore.pc \in {"storing", "clearing"}
  /\ One(d.writes, CallsBy("restore"))
  /\ \A m \in Asks(w, "restore") : d.restore.pc = "sending"
  /\ \A m, x \in Asks(w, "restore") : m = x

\* A step of another.
LEMMA RestoringKept ==
  ASSUME NEW d, NEW w, NEW e, NEW v, Restoring(d, w), e.restore = d.restore,
         \A x \in Queued(e) : x.by = "restore" => x \in Queued(d),
         One(d.writes, CallsBy("restore")) => One(e.writes, CallsBy("restore")),
         \A m \in Asks(v, "restore") : m \in Asks(w, "restore")
  PROVE  Restoring(e, v)
  BY DEF Restoring

\* What a move, and what a start, does to the restore: nothing.
LEMMA MovesRestore ==
  ASSUME NEW d, NEW e, NEW M, Moves(d, e, M)
  PROVE  /\ e.restore = d.restore /\ \A x \in Queued(e) : x.by = "restore" => x \in Queued(d)
         /\ One(d.writes, CallsBy("restore")) => One(e.writes, CallsBy("restore"))
<1>1. \A x \in CallsBy("restore") : x.by \in {"start", "restore"}
  BY DEF CallsBy
<1> QED
  BY <1>1 DEF Moves, Extra, Only, Fields

\* A change of one start leaves the restore alone.
LEMMA ShapeRestore ==
  ASSUME NEW b, NEW e, NEW n, Sound(b), Shape(b, e, n)
  PROVE  /\ e.restore = b.restore /\ \A x \in Queued(e) : x.by = "restore" => x \in Queued(b)
         /\ One(b.writes, CallsBy("restore")) => One(e.writes, CallsBy("restore"))
<1>1. e.restore = b.restore
  BY DEF Shape, Only, Fields
<1>2. b.writes \in Seq(Calls)
  BY QueuedFacts DEF Sound
<1>3. CASE e.writes = b.writes
  BY <1>1, <1>3 DEF Queued
<1>4. ASSUME NEW x \in Calls, e.writes = Append(b.writes, x), x.by \in {"start", "undo"}
      PROVE  /\ \A y \in Queued(e) : y.by = "restore" => y \in Queued(b)
             /\ One(b.writes, CallsBy("restore")) => One(e.writes, CallsBy("restore"))
  <2>1. Elements(e.writes) = Elements(b.writes) \cup {x}
    BY <1>2, <1>4, AppendFacts
  <2>2. x \notin CallsBy("restore")
    BY <1>4 DEF CallsBy
  <2>3. One(b.writes, CallsBy("restore")) => One(e.writes, CallsBy("restore"))
    BY <1>2, <1>4, <2>2, AppendFacts
  <2> QED
    BY <1>4, <2>1, <2>3 DEF Queued
<1> QED
  BY <1>1, <1>3, <1>4 DEF Shape

\* So does every step of that form.
LEMMA FormRestoring ==
  ASSUME Typed, Restoring(dev, wire), NEW n \in Starts, NEW l, NEW b, NEW c, StartForm(n, l, b, c)
  PROVE  Restoring(dev', wire')
<1>1. Sound(dev) /\ Sound(l) /\ Sound(b) /\ Sound(c) /\ Moves(l, b, {}) /\ Shape(b, c, n) /\ Moves(c, dev', {n})
  BY DEF Typed, StartForm
<1>2. /\ l.restore = dev.restore /\ \A x \in Queued(l) : x.by = "restore" => x \in Queued(dev)
      /\ One(dev.writes, CallsBy("restore")) => One(l.writes, CallsBy("restore"))
  <2>1. CASE l = dev
    BY <2>1
  <2>2. CASE dev.writes # << >> /\ l = Landed(dev)
    BY <1>1, <2>2, LandedFacts DEF Only, Fields
  <2> QED
    BY <2>1, <2>2 DEF StartForm
<1>3. /\ b.restore = l.restore /\ \A x \in Queued(b) : x.by = "restore" => x \in Queued(l)
      /\ One(l.writes, CallsBy("restore")) => One(b.writes, CallsBy("restore"))
  BY <1>1, MovesRestore
<1>4. /\ c.restore = b.restore /\ \A x \in Queued(c) : x.by = "restore" => x \in Queued(b)
      /\ One(b.writes, CallsBy("restore")) => One(c.writes, CallsBy("restore"))
  BY <1>1, ShapeRestore
<1>5. /\ dev'.restore = c.restore /\ \A x \in Queued(dev') : x.by = "restore" => x \in Queued(c)
      /\ One(c.writes, CallsBy("restore")) => One(dev'.writes, CallsBy("restore"))
  BY <1>1, MovesRestore
<1>6. \A m \in Asks(wire', "restore") : m \in Asks(wire, "restore")
  BY DEF StartForm, Asks
<1> QED
  BY <1>2, <1>3, <1>4, <1>5, <1>6, RestoringKept

\* One request at most tells what the restore has found.
LEMMA RestoreWireOne ==
  ASSUME NEW d
  PROVE  /\ \A m, x \in RestoreWire(d) : m = x
         /\ \A m \in RestoreWire(d) : d.restore.pc = "sending"
  BY DEF RestoreWire

\* Every step keeps it.
LEMMA RestoringStep ==
  ASSUME Typed, Starting(dev), Claiming(dev, wire), Restoring(dev, wire), [Next]_vars
  PROVE  Restoring(dev', wire')
<1>0. Sound(dev) /\ Sound(dev') /\ Wired(dev, wire) /\ dev.writes \in Seq(Calls)
  BY TypedStep, QueuedFacts DEF Typed, Sound
<1>1. CASE Moving
  <2>1. Common
    BY <1>1, MovingFacts
  <2>2. Moved(dev, wire, dev', wire')
    BY <2>1 DEF Common
  <2>3. \A x \in CallsBy("restore") : x.by \in {"start", "restore"}
    BY DEF CallsBy
  <2>4. /\ dev'.restore = dev.restore /\ \A x \in Queued(dev') : x.by = "restore" => x \in Queued(dev)
        /\ One(dev.writes, CallsBy("restore")) => One(dev'.writes, CallsBy("restore"))
    BY <2>2, <2>3 DEF Moved, Extra, Only, Fields
  <2>5. \A x \in Asks(wire', "restore") : x \in Asks(wire, "restore")
    BY <2>1 DEF Common, Asks
  <2> QED
    BY <2>4, <2>5, RestoringKept
<1>2. CASE StartStep
  BY <1>2, StartForms, FormRestoring
<1>3. CASE RestoreLands
  <2> DEFINE l == Landed(dev)
  <2>1. /\ dev.writes # << >> /\ Head(dev.writes).by = "restore" /\ Only(l, dev', {"restore"})
        /\ \/ dev'.restore.pc = "sending" /\ wire' = wire \cup RestoreWire(dev')
           \/ wire' = wire
    BY <1>3, RestoreLandsFacts
  <2>2. /\ Head(dev.writes) \in Queued(dev) /\ Head(dev.writes) \in Calls /\ Queued(l) \subseteq Queued(dev)
        /\ \A S : One(dev.writes, S) =>
             One(l.writes, S) /\ (Head(dev.writes) \in S => \A x \in Queued(l) : x \notin S)
    BY <1>0, <2>1, LandedFacts
  <2> HIDE DEF l
  <2>3. dev'.writes = l.writes /\ Queued(dev') = Queued(l)
    BY <2>1 DEF Only, Fields, Queued
  <2>4. Head(dev.writes) \in CallsBy("restore") /\ One(dev.writes, CallsBy("restore"))
    BY <2>1, <2>2 DEF CallsBy, Restoring
  <2>5. \A x \in Queued(dev') : x.by # "restore"
    <3>1. \A x \in Queued(dev') : x \in Calls /\ x \notin CallsBy("restore")
      BY <1>0, <2>2, <2>3, <2>4, QueuedFacts DEF Sound
    <3> QED
      BY <3>1 DEF CallsBy
  <2>6. One(dev'.writes, CallsBy("restore"))
    BY <2>2, <2>3, <2>4
  <2>7. Asks(wire, "restore") = {}
    BY <2>1, <2>2 DEF Restoring
  <2>8. \A m \in Asks(wire', "restore") : m \in RestoreWire(dev')
    BY <2>1, <2>7 DEF Asks
  <2> QED
    BY <2>5, <2>6, <2>8, RestoreWireOne DEF Restoring
<1>4. ASSUME NEW m \in wire, RestoreReports(m)
      PROVE  Restoring(dev', wire')
  <2>1. /\ m \in Asks(wire, "restore") /\ wire' \subseteq (wire \ {m}) \cup {Late(m)}
        /\ \/ /\ dev'.restore.pc = "clearing"
              /\ \E x \in Calls : x.by = "restore" /\ dev'.writes = Append(dev.writes, x)
           \/ dev'.writes = dev.writes
    BY <1>4, RestoreReportsFacts
  <2>2. \A x \in Queued(dev) : x.by # "restore"
    BY <2>1 DEF Restoring
  <2>3. \A x \in wire' : ~x.late => x \in wire \ {m}
    BY <1>0, <2>1, LateFacts DEF Wired
  <2>4. Asks(wire', "restore") = {}
    BY <2>1, <2>3 DEF Restoring, Asks
  <2>5. /\ \A x \in Queued(dev') : x.by = "restore" => dev'.restore.pc \in {"storing", "clearing"}
        /\ One(dev'.writes, CallsBy("restore"))
    <3>1. CASE dev'.writes = dev.writes
      BY <2>2, <3>1 DEF Restoring, Queued
    <3>2. ASSUME NEW x \in Calls, x.by = "restore", dev'.writes = Append(dev.writes, x),
                 dev'.restore.pc = "clearing"
          PROVE  One(dev'.writes, CallsBy("restore"))
      <4>1. \A y \in Elements(dev.writes) : y \notin CallsBy("restore")
        BY <2>2 DEF CallsBy, Queued
      <4>2. One(dev.writes, CallsBy("restore"))
        BY DEF Restoring
      <4> QED
        BY <1>0, <3>2, <4>1, <4>2, AppendFacts
    <3> QED
      BY <2>1, <3>1, <3>2
  <2> QED
    BY <2>4, <2>5 DEF Restoring
<1>5. ASSUME NEW b, Sound(b), b.restore.pc = "idle", \A x \in Queued(b) : x.by # "restore",
             NEW w, Asks(w, "restore") = {}, dev' = Restored(b), wire' = w \cup RestoreWire(dev')
      PROVE  Restoring(dev', wire')
  <2>1. b.writes \in Seq(Calls) /\ \A y \in Elements(b.writes) : y \notin CallsBy("restore")
    BY <1>5, QueuedFacts DEF Sound, CallsBy, Queued
  <2>2. One(b.writes, CallsBy("restore"))
    BY <2>1 DEF One, Elements
  <2>3. \A m \in Asks(wire', "restore") : m \in RestoreWire(dev')
    BY <1>5 DEF Asks
  <2>4. /\ \A x \in Queued(dev') : x.by = "restore" => dev'.restore.pc = "storing"
        /\ One(dev'.writes, CallsBy("restore"))
    <3>1. CASE dev'.writes = b.writes
      BY <1>5, <2>2, <3>1 DEF Queued
    <3>2. ASSUME NEW x \in Calls, dev'.writes = Append(b.writes, x)
          PROVE  One(dev'.writes, CallsBy("restore"))
      BY <2>1, <2>2, <3>2, AppendFacts
    <3> QED
      BY <1>5, <3>1, <3>2, RestoredFacts
  <2> QED
    BY <2>3, <2>4, RestoreWireOne DEF Restoring
<1>6. CASE SignIn
  <2>1. dev.writes = << >> /\ dev.restore.pc = "idle" /\ dev' = Restored(dev) /\ wire' = wire \cup RestoreWire(dev')
    BY <1>6, SignInFacts
  <2>2. Asks(wire, "restore") = {} /\ \A x \in Queued(dev) : x.by # "restore"
    BY <2>1 DEF Restoring
  <2> QED
    BY <1>0, <1>5, <2>1, <2>2
<1>7. CASE Restart
  <2> DEFINE b == Begun(dev)
  <2>1. dev' = Restored(b) /\ Sound(b) /\ b.writes = << >> /\ b.restore.pc = "idle"
    BY <1>0, <1>7, RestartFacts, BegunFacts DEF Sound
  <2>2. PICK late : wire' = late \cup RestoreWire(dev') /\ \A m \in late : m.late
    BY <1>7, RestartFacts
  <2> HIDE DEF b
  <2>3. Asks(late, "restore") = {} /\ \A x \in Queued(b) : x.by # "restore"
    BY <2>1, <2>2 DEF Asks, Queued, Elements
  <2> QED
    BY <1>5, <2>1, <2>2, <2>3
<1>8. CASE Outside \/ UNCHANGED vars
  <2>1. dev' = dev /\ wire' \subseteq wire
    BY <1>8 DEF Outside, SessionCloses, OtherClaims, Return, ServeLate, vars
  <2> QED
    BY <2>1 DEF Restoring, Asks
<1> QED
  BY <1>1, <1>2, <1>3, <1>4, <1>6, <1>7, <1>8, StepKinds DEF RestoreStep

(***************************************************************************)
(* The device is freed, and the model is asked with leave.                 *)
(***************************************************************************)
Admitting == {"preparing", "writing", "claiming", "claimed", "lost", "round", "dispatching",
              "submitting", "creating"}
Live(d, n) == d.start[n].pc \in Admitting

\* The device and the task are taken only by what will free them.
Freed(d, lost) ==
  /\ d.busy.reserved => \E n \in Starts : Live(d, n)
  /\ d.task = "ready" => \E n \in Starts : d.start[n].pc = "creating"
  /\ d.task = "going" /\ d.busy.route => d.coach # "off" \/ lost \/ d.cancels["leave"].on
\* A coach that is about to ask may.
Allowed(d, may) == d.coach \in {"round", "consuming"} => may

\* What a step that moves the device does to the task and the coach: it takes, but for
\* the student's Next, and signing out says what it takes.
Lessens(d, e) ==
  /\ e.busy.reserved => d.busy.reserved
  /\ e.task = "ready" => d.task = "ready"
  /\ e.coach # "off" => d.coach # "off"
  /\ e.task = "going" /\ e.busy.route =>
       d.task = "going" /\ d.busy.route /\ (d.cancels["leave"].on => e.cancels["leave"].on)

\* The coach ends with the device and the task, or goes on.
LEMMA RoundsLessens ==
  ASSUME NEW d, NEW e, Rounds(d, e), d.coach # "off"
  PROVE  Lessens(d, e) /\ (e.task = "going" /\ e.busy.route => e.coach # "off")
<1>1. e.cancels = d.cancels
  BY DEF Rounds, Only, Fields
<1> QED
  BY <1>1 DEF Rounds, Lessens, Free

\* A cancellation takes.
LEMMA StopsLessens ==
  ASSUME NEW d, NEW e, Stops(d, e)
  PROVE  Lessens(d, e) /\ (e.task = "going" /\ e.busy.route /\ d.coach # "off" => e.coach # "off")
<1>1. d.cancels["leave"].on => e.cancels["leave"].on
  BY DEF Stops, Cancels
<1> QED
  BY <1>1 DEF Stops, Lessens, Free

\* The history goes on.
Recalled(s, t) == t.dispatches = s.dispatches /\ (s.early => t.early) /\ (s.lost => t.lost)

\* Every step that moves the device takes.
LEMMA MovingLessens ==
  ASSUME Typed, Moving
  PROVE  /\ Lessens(dev, dev') /\ Recalled(seen, seen')
         /\ dev'.task = "going" /\ dev'.busy.route /\ dev.coach # "off" =>
              dev'.coach # "off" \/ seen'.lost \/ dev'.cancels["leave"].on
         /\ dev'.coach \in {"round", "consuming"} =>
              seen'.may \/ (dev.coach \in {"round", "consuming"} /\ (seen.may => seen'.may))
<1>0. Sound(dev) /\ seen \in Histories
  BY DEF Typed
<1>1. Recalled(seen, seen')
  <2>1. CASE seen' = seen
    BY <2>1 DEF Recalled
  <2>2. CASE \/ seen' = [seen EXCEPT !.may = TRUE] \/ seen' = [seen EXCEPT !.may = FALSE]
    BY <1>0, <2>2 DEF Recalled, Histories
  <2>3. CASE Stop \/ Leave
    BY <1>0, <2>3 DEF Recalled, Histories, Stop, Leave
  <2>4. CASE SignOut
    BY <1>0, <2>4 DEF Recalled, Histories, SignOut
  <2>5. CASE CoachLands
    BY <2>1, <2>2, <2>5, CoachLandsFacts
  <2>6. CASE Continue
    BY <2>1, <2>2, <2>6, ContinueFacts
  <2> QED
    BY <2>1, <2>3, <2>4, <2>5, <2>6
    DEF Moving, Coach, CoachRound, ModelAnswers, TerminalLands, ReportLands, CancelLands,
       BeginRefused,
        ShowAgain, StopTask, Reports
<1> DEFINE Rest ==
             /\ Lessens(dev, dev')
             /\ dev'.task = "going" /\ dev'.busy.route /\ dev.coach # "off" =>
                  dev'.coach # "off" \/ seen'.lost \/ dev'.cancels["leave"].on
             /\ dev'.coach \in {"round", "consuming"} =>
                  seen'.may \/ (dev.coach \in {"round", "consuming"} /\ (seen.may => seen'.may))
<1> SUFFICES Rest
  BY <1>1
<1>2. CASE CoachRound
  <2>1. dev.coach = "round" /\ Rounds(dev, dev') /\ seen' = seen
    BY <1>2, CoachRoundFacts DEF CoachRound
  <2> QED
    BY <2>1, RoundsLessens
<1>3. CASE ModelAnswers
  <2>1. dev.coach = "asking" /\ Rounds(dev, dev') /\ dev'.coach \notin {"round", "consuming", "asking"}
    BY <1>3, ModelAnswersFacts
  <2> QED
    BY <2>1, RoundsLessens
<1>4. CASE Continue
  <2>1. /\ dev.coach = "waiting" /\ Rounds(dev, dev') /\ dev'.coach \in {"off", "round"}
        /\ dev'.coach = "round" => seen'.may
    BY <1>4, ContinueFacts
  <2> QED
    BY <2>1, RoundsLessens
<1>5. CASE CoachLands
  <2> DEFINE l == Landed(dev)
  <2>1. /\ dev.writes # << >> /\ (dev' = l \/ (Rounds(l, dev') /\ l.coach # "off"))
        /\ dev'.coach \in {l.coach, "off", "asking", "waiting"} /\ dev'.coach # "consuming"
        /\ seen' = IF l.coach = "consuming" THEN [seen EXCEPT !.may = FALSE] ELSE seen
    BY <1>5, CoachLandsFacts
  <2>2. Only(dev, l, {"disk", "writes"})
    BY <1>0, <2>1, LandedFacts
  <2> HIDE DEF l
  <2>3. l.coach = dev.coach /\ l.busy = dev.busy /\ l.task = dev.task /\ l.cancels = dev.cancels
    BY <2>2 DEF Only, Fields
  <2>4. Lessens(dev, dev') /\ (dev'.task = "going" /\ dev'.busy.route /\ dev.coach # "off" => dev'.coach # "off")
    <3>1. CASE dev' = l
      BY <2>3, <3>1 DEF Lessens
    <3>2. CASE Rounds(l, dev') /\ l.coach # "off"
      BY <2>3, <3>2, RoundsLessens DEF Lessens
    <3> QED
      BY <2>1, <3>1, <3>2
  <2>5. dev'.coach \in {"round", "consuming"} => dev.coach = "round" /\ seen' = seen
    BY <2>1, <2>3
  <2> QED
    BY <2>4, <2>5
<1>6. ASSUME Only(dev, dev', {"disk", "writes", "obj", "reports", "active"}), seen' = seen
      PROVE  Rest
  BY <1>6 DEF Only, Fields, Lessens
<1>7. CASE TerminalLands \/ ReportLands
  <2>1. Only(dev, dev', {"disk", "writes", "obj", "reports"}) /\ seen' = seen
    BY <1>7, TerminalLandsFacts, ReportLandsFacts DEF TerminalLands, ReportLands
  <2>2. Only(dev, dev', {"disk", "writes", "obj", "reports", "active"})
    BY <2>1 DEF Only
  <2> QED
    BY <1>6, <2>1, <2>2
<1>8. ASSUME NEW m \in wire, Reports(m)
      PROVE  Rest
  <2>1. Only(dev, dev', {"writes", "obj", "reports"}) /\ seen' = seen
    BY <1>8, ReportsFacts DEF Reports
  <2>2. Only(dev, dev', {"disk", "writes", "obj", "reports", "active"})
    BY <2>1 DEF Only
  <2> QED
    BY <1>6, <2>1, <2>2
<1>9. CASE BeginRefused
  <2>1. Only(dev, dev', {"active"}) /\ seen' = seen
    BY <1>9, BeginRefusedFacts DEF BeginRefused
  <2>2. Only(dev, dev', {"disk", "writes", "obj", "reports", "active"})
    BY <2>1 DEF Only
  <2> QED
    BY <1>6, <2>1, <2>2
<1>10. CASE ShowAgain \/ StopTask
  <2>1. /\ Only(dev, dev', {"active", "cancels", "writes"}) /\ seen' = seen
        /\ dev.cancels["leave"].on => dev'.cancels["leave"].on
    <3>1. CASE ShowAgain
      BY <3>1, ShowAgainFacts DEF ShowAgain, Only, Cancels
    <3>2. CASE StopTask
      BY <3>2, StopTaskFacts DEF StopTask, Only, Cancels
    <3> QED
      BY <1>10, <3>1, <3>2
  <2> QED
    BY <2>1 DEF Only, Fields, Lessens
<1>11. CASE Stop \/ Leave
  <2>1. Stops(dev, dev') /\ seen'.may = seen.may
    BY <1>0, <1>11, StopFacts, LeaveFacts DEF Stop, Leave, Histories
  <2> QED
    BY <2>1, StopsLessens DEF Stops
<1>12. CASE SignOut
  <2>1. /\ \A c \in Cancels : dev.cancels[c].on => dev'.cancels[c].on
        /\ dev.active \notin Ended \cup {"none"} => dev'.cancels["leave"].on
        /\ dev'.coach \in {"off", dev.coach} /\ (dev.busy.route => dev'.coach = "off")
        /\ \/ dev'.busy = Free /\ dev'.task = "over"
           \/ dev'.busy = dev.busy /\ dev'.task = dev.task
    BY <1>12, SignOutFacts
  <2>2. dev.busy.route => Aborted(dev).coach = "off"
    BY <1>0, AbortedFacts
  <2>3. seen'.may = seen.may /\ (dev.active \in Ended \cup {"none"} /\ dev.busy.route /\ dev.coach # "off" => seen'.lost)
    BY <1>0, <1>12, <2>2 DEF SignOut, Histories
  <2>4. Lessens(dev, dev')
    BY <2>1 DEF Lessens, Free, Cancels
  <2> QED
    BY <2>1, <2>3, <2>4 DEF Free
<1>13. ASSUME NEW c \in Cancels \ {"undo"}, CancelLands(c)
       PROVE  Rest
  <2>1. /\ \A b \in Cancels : b # c => dev'.cancels[b] = dev.cancels[b]
        /\ \/ /\ dev'.coach = IF dev.busy.route THEN "off" ELSE dev.coach
              /\ dev'.task = "over" /\ (dev'.busy.reserved => dev.busy.reserved)
           \/ /\ dev'.coach = dev.coach /\ dev'.task = dev.task
              /\ dev'.busy = Free \/ (c = "task" /\ dev'.busy = dev.busy)
        /\ seen' = seen
    BY <1>13, CancelLandsFacts DEF CancelLands
  <2>2. Lessens(dev, dev')
    BY <2>1 DEF Lessens, Free, Cancels
  <2> QED
    BY <2>1, <2>2 DEF Free
<1> QED
  BY <1>2, <1>3, <1>4, <1>5, <1>7, <1>8, <1>9, <1>10, <1>11, <1>12, <1>13 DEF Moving, Coach

\* Start n steps, and holds the device or frees it.
Holding(d, e, n, given) ==
  /\ \A m \in Starts : m # n => e.start[m].pc = d.start[m].pc
  /\ e.busy.reserved => Live(e, n) \/ (d.busy.reserved /\ ~Live(d, n))
  /\ e.task = "ready" => e.start[n].pc = "creating" \/ (d.task = "ready" /\ d.start[n].pc # "creating")
  /\ e.task = "going" /\ e.busy.route => e.coach # "off" \/ given \/ e.cancels["leave"].on

\* It is held by a start, or freed.
LEMMA StartFreed ==
  ASSUME NEW d, NEW lost, Freed(d, lost), NEW e, NEW n \in Starts, NEW given,
         Holding(d, e, n, given)
  PROVE  Freed(e, given)
<1> USE DEF Holding
<1>1. e.busy.reserved => \E m \in Starts : Live(e, m)
  <2>1. CASE d.busy.reserved /\ ~Live(d, n)
    <3>1. PICK m \in Starts : Live(d, m) /\ m # n
      BY <2>1 DEF Freed
    <3> QED
      BY <3>1 DEF Live
  <2> QED
    BY <2>1
<1>2. e.task = "ready" => \E m \in Starts : e.start[m].pc = "creating"
  BY DEF Freed
<1> QED
  BY <1>1, <1>2 DEF Freed

\* The catch frees the device.
LEMMA CaughtFreed ==
  ASSUME NEW d, NEW lost, Freed(d, lost), NEW b, Sound(b), NEW n \in Starts, NEW given, NEW e,
         e = Caught(b, n),
         \A m \in Starts : b.start[m].pc = d.start[m].pc,
         b.task = "ready" => d.task = "ready" /\ d.start[n].pc # "creating",
         b.task = "going" /\ b.busy.route => b.coach # "off" \/ given \/ b.cancels["leave"].on
  PROVE  Freed(e, given) /\ e.coach = b.coach
<1>1. /\ Only(b, e, {"busy", "active", "obj", "start", "writes"})
      /\ ~e.busy.reserved /\ e.busy.route = b.busy.route
      /\ \A m \in Starts : m # n => e.start[m] = b.start[m]
  BY CaughtFacts
<1>2. e.coach = b.coach /\ e.task = b.task /\ e.cancels = b.cancels
  BY <1>1 DEF Only, Fields
<1>3. Holding(d, e, n, given)
  BY <1>1, <1>2 DEF Holding
<1> QED
  BY <1>2, <1>3, StartFreed

\* The steps of the starts.
LEMMA StartsFreed ==
  ASSUME Typed, Starting(dev), Claiming(dev, wire), Freed(dev, seen.lost), Allowed(dev, seen.may),
         StartStep
  PROVE  Freed(dev', seen'.lost) /\ Allowed(dev', seen'.may)
<1>0. Sound(dev) /\ seen \in Histories /\ \A c \in Cancels : dev.cancels[c] = dev.cancels[c]
  BY DEF Typed
<1>1. ASSUME NEW b, Sound(b), NEW n \in Starts, dev' = Caught(b, n),
             Only(dev, b, {"disk", "writes", "obj"}),
             dev.start[n].pc # "creating", seen' = seen
      PROVE  Freed(dev', seen'.lost) /\ Allowed(dev', seen'.may)
  <2>1. /\ b.start = dev.start /\ b.task = dev.task /\ b.busy = dev.busy /\ b.coach = dev.coach
        /\ b.cancels = dev.cancels
    BY <1>1 DEF Only, Fields
  <2>2. b.task = "going" /\ b.busy.route => b.coach # "off" \/ seen.lost \/ b.cancels["leave"].on
    BY <2>1 DEF Freed
  <2>3. Freed(dev', seen.lost) /\ dev'.coach = b.coach
    BY <1>1, <2>1, <2>2, CaughtFreed
  <2> QED
    BY <1>1, <2>1, <2>3 DEF Allowed
<1>2. ASSUME NEW n \in Starts, seen' = seen, dev'.coach = dev.coach,
             dev'.busy.route = dev.busy.route,
             dev'.cancels["leave"].on = dev.cancels["leave"].on,
             dev'.task = dev.task \/ (dev'.task = "ready" /\ dev'.start[n].pc = "creating"),
             \A m \in Starts : m # n => dev'.start[m].pc = dev.start[m].pc,
             dev'.busy.reserved => Live(dev', n) \/ (dev.busy.reserved /\ ~Live(dev, n)),
             dev.start[n].pc # "creating"
      PROVE  Freed(dev', seen'.lost) /\ Allowed(dev', seen'.may)
  <2>1. dev'.task = "going" /\ dev'.busy.route =>
          dev'.coach # "off" \/ seen.lost \/ dev'.cancels["leave"].on
    BY <1>2 DEF Freed
  <2>2. dev'.task = "ready" =>
          dev'.start[n].pc = "creating" \/ (dev.task = "ready" /\ dev.start[n].pc # "creating")
    BY <1>2
  <2>3. Holding(dev, dev', n, seen.lost)
    BY <1>2, <2>1, <2>2 DEF Holding
  <2>4. Freed(dev', seen.lost)
    BY <2>3, StartFreed
  <2> QED
    BY <1>2, <2>4 DEF Allowed
<1>3. Only(dev, dev, {"disk", "writes", "obj"}) /\ "leave" \in Cancels
  BY DEF Only, Cancels
<1>4. ASSUME NEW n \in Starts, Begin(n)
      PROVE  Freed(dev', seen'.lost) /\ Allowed(dev', seen'.may)
  <2>1. /\ Only(dev, dev', {"obj", "busy", "start"}) /\ dev.start[n].pc = "unused"
        /\ dev'.busy.route = dev.busy.route /\ dev'.start[n].pc = "preparing"
        /\ \A m \in Starts : m # n => dev'.start[m] = dev.start[m]
    BY <1>4, BeginFacts
  <2>2. dev'.coach = dev.coach /\ dev'.task = dev.task /\ dev'.cancels = dev.cancels /\ seen' = seen
    BY <1>4, <2>1 DEF Only, Fields, Begin
  <2>3. Live(dev', n)
    BY <2>1 DEF Live, Admitting
  <2> QED
    BY <1>2, <2>1, <2>2, <2>3
<1>5. ASSUME NEW b, NEW n \in Starts, dev' = Opened(b, n), Sound(b),
             Only(dev, b, {"disk", "writes"}),
             seen' = seen, dev.start[n].pc # "creating"
      PROVE  Freed(dev', seen'.lost) /\ Allowed(dev', seen'.may)
  <2>1. /\ Only(b, dev', {"cur", "active", "cancels", "start"}) /\ dev'.start[n].pc = "round"
        /\ \A m \in Starts : m # n => dev'.start[m] = b.start[m]
        /\ \A c \in Cancels : dev'.cancels[c].on = b.cancels[c].on
    BY <1>5, OpenedFacts
  <2>2. /\ dev'.coach = dev.coach /\ dev'.task = dev.task /\ dev'.busy = dev.busy /\ b.cancels = dev.cancels
        /\ b.start = dev.start
    BY <1>5, <2>1 DEF Only, Fields
  <2>3. Live(dev', n)
    BY <2>1 DEF Live, Admitting
  <2> QED
    BY <1>2, <1>3, <1>5, <2>1, <2>2, <2>3
<1>6. ASSUME NEW b, NEW n \in Starts, NEW phase \in Phases, NEW p \in Pcs \ {"done"},
             p \in Admitting,
             Sound(b), Only(dev, b, {"obj"}), dev' = Writes(b, n, phase, p), seen' = seen, dev.start[n].pc # "creating"
      PROVE  Freed(dev', seen'.lost) /\ Allowed(dev', seen'.may)
  <2>1. /\ Only(b, dev', {"obj", "start", "writes"}) /\ dev'.start[n].pc = p
        /\ \A m \in Starts : m # n => dev'.start[m] = b.start[m]
    BY <1>6, WritesStartFacts
  <2>2. /\ dev'.coach = dev.coach /\ dev'.task = dev.task /\ dev'.busy = dev.busy /\ dev'.cancels = dev.cancels
        /\ b.start = dev.start
    BY <1>6, <2>1 DEF Only, Fields
  <2>3. Live(dev', n)
    BY <1>6, <2>1 DEF Live
  <2> QED
    BY <1>2, <1>6, <2>1, <2>2, <2>3
<1>7. ASSUME NEW n \in Starts, Prepared(n)
      PROVE  Freed(dev', seen'.lost) /\ Allowed(dev', seen'.may)
  <2>1. dev.start[n].pc # "creating" /\ seen' = seen
    BY <1>7 DEF Prepared
  <2>2. CASE dev' = Caught(dev, n)
    BY <1>0, <1>1, <1>3, <2>1, <2>2
  <2>3. CASE dev' = Opened(dev, n)
    <3>1. Only(dev, dev, {"disk", "writes"})
      BY DEF Only
    <3> QED
      BY <1>0, <1>5, <2>1, <2>3, <3>1
  <2>4. CASE dev' = Writes(dev, n, "claiming", "writing")
    <3>1. /\ "claiming" \in Phases /\ "writing" \in Pcs \ {"done"} /\ "writing" \in Admitting
          /\ Only(dev, dev, {"obj"})
      BY DEF Phases, Pcs, Admitting, Only
    <3> QED
      BY <1>0, <1>6, <2>1, <2>4, <3>1
  <2> QED
    BY <1>7, <2>2, <2>3, <2>4 DEF Prepared, Writes
<1>8. ASSUME NEW n \in Starts, Rounded(n)
      PROVE  Freed(dev', seen'.lost) /\ Allowed(dev', seen'.may)
  <2>1. dev.start[n].pc # "creating" /\ seen' = seen
    BY <1>8 DEF Rounded
  <2>2. CASE dev' = Caught(dev, n)
    BY <1>0, <1>1, <1>3, <2>1, <2>2
  <2>3. CASE dev' = Writes(dev, n, "dispatching", "dispatching")
    <3>1. /\ "dispatching" \in Phases /\ "dispatching" \in Pcs \ {"done"} /\ "dispatching" \in Admitting
          /\ Only(dev, dev, {"obj"})
      BY DEF Phases, Pcs, Admitting, Only
    <3> QED
      BY <1>0, <1>6, <2>1, <2>3, <3>1
  <2> QED
    BY <1>8, <2>2, <2>3 DEF Rounded, Writes
<1>9. ASSUME NEW n \in Starts, Admitted(n)
      PROVE  Freed(dev', seen'.lost) /\ Allowed(dev', seen'.may)
  <2>1. dev.start[n].pc = "submitting" /\ seen' = seen
    BY <1>9 DEF Admitted
  <2>2. CASE dev' = Caught(dev, n)
    BY <1>0, <1>1, <1>3, <2>1, <2>2
  <2>3. CASE /\ Only(dev, dev', {"task", "start"}) /\ dev'.task = "ready" /\ dev'.start[n].pc = "creating"
             /\ \A m \in Starts : m # n => dev'.start[m] = dev.start[m]
    <3>1. dev'.coach = dev.coach /\ dev'.busy = dev.busy /\ dev'.cancels = dev.cancels
      BY <2>3 DEF Only, Fields
    <3>2. Live(dev', n)
      BY <2>3 DEF Live, Admitting
    <3> QED
      BY <1>2, <2>1, <2>3, <3>1, <3>2
  <2> QED
    BY <1>9, <2>2, <2>3, AdmittedFacts
<1>10. ASSUME NEW m \in wire, Claims(m)
       PROVE  Freed(dev', seen'.lost) /\ Allowed(dev', seen'.may)
  <2>1. m.n \in Starts /\ m \in Asks(wire, "claim") /\ seen' = seen
    BY <1>10, ClaimsFacts DEF Claims
  <2>2. dev.start[m.n].pc # "creating"
    BY <2>1 DEF Claiming
  <2>3. CASE dev' = Caught(dev, m.n)
    BY <1>0, <1>1, <1>3, <2>1, <2>2, <2>3
  <2>4. /\ {"claimed", "terminal"} \subseteq Phases
        /\ {"claimed", "lost"} \subseteq Pcs \ {"done"} /\ {"claimed", "lost"} \subseteq Admitting
    BY DEF Phases, Pcs, Admitting
  <2>5. CASE \E b : /\ Sound(b) /\ Only(dev, b, {"obj"})
                    /\ dev' = Writes(b, m.n, "claimed", "claimed") \/ dev' = Writes(b, m.n, "terminal", "lost")
    BY <1>6, <2>1, <2>2, <2>4, <2>5
  <2> QED
    BY <1>10, <2>3, <2>5, ClaimsFacts
<1>11. CASE StartLands
  <2> DEFINE l == Landed(dev)
             n == Head(dev.writes).n
             pc == dev.start[n].pc
  <2>1. dev.writes # << >> /\ n \in Starts /\ Head(dev.writes).by = "start" /\ seen' = seen
    BY <1>11, StartLandsFacts DEF StartLands
  <2>2. Sound(l) /\ Only(dev, l, {"disk", "writes"}) /\ Head(dev.writes) \in Queued(dev)
    BY <1>0, <2>1, LandedFacts
  <2>3. pc \in Writing /\ pc # "creating"
    BY <2>1, <2>2 DEF Starting, Writing
  <2>4. Only(dev, l, {"disk", "writes", "obj"})
    BY <2>2 DEF Only
  <2>5. /\ l.coach = dev.coach /\ l.task = dev.task /\ l.busy = dev.busy /\ l.cancels = dev.cancels
        /\ l.start = dev.start
    BY <2>2 DEF Only, Fields
  <2>6. \/ /\ pc = "writing" /\ Only(l, dev', {"cur", "start"}) /\ dev'.start[n].pc = "claiming"
           /\ \A m \in Starts : m # n => dev'.start[m] = dev.start[m]
        \/ dev' = Caught(l, n) \/ dev' = Opened(l, n)
        \/ dev' = At(l, n, "submitting")
        \/ pc = "running" /\ dev' = At(l, n, "done")
        \/ pc = "running" /\ dev' = Told(At(l, n, "done"), "active", n)
        \/ /\ pc \notin {"writing", "claimed", "lost", "dispatching", "running"}
           /\ Only(l, dev', {"active", "start"})
           /\ \A m \in Starts : m # n => dev'.start[m] = dev.start[m]
    BY <1>11, StartLandsFacts
  <2> HIDE DEF l, n, pc
  <2>7. CASE /\ pc = "writing" /\ Only(l, dev', {"cur", "start"}) /\ dev'.start[n].pc = "claiming"
             /\ \A m \in Starts : m # n => dev'.start[m] = dev.start[m]
    <3>1. dev'.coach = dev.coach /\ dev'.task = dev.task /\ dev'.busy = dev.busy /\ dev'.cancels = dev.cancels
      BY <2>5, <2>7 DEF Only, Fields
    <3>2. Live(dev', n)
      BY <2>7 DEF Live, Admitting
    <3> QED
      BY <1>2, <2>1, <2>3, <2>7, <3>1, <3>2 DEF pc
  <2>8. CASE dev' = Caught(l, n)
    BY <1>1, <2>1, <2>2, <2>3, <2>4, <2>8 DEF pc
  <2>9. CASE dev' = Opened(l, n)
    BY <1>5, <2>1, <2>2, <2>3, <2>9 DEF pc
  <2>10. ASSUME NEW p \in {"submitting", "done"}, NEW a, a = At(l, n, p)
         PROVE  /\ Sound(a) /\ a.start[n].pc = p
                /\ \A m \in Starts : m # n => a.start[m] = dev.start[m]
                /\ a.coach = dev.coach /\ a.task = dev.task /\ a.busy = dev.busy /\ a.cancels = dev.cancels
    <3>1. p \in Pcs
      BY <2>10 DEF Pcs
    <3>2. /\ Sound(a) /\ Only(l, a, {"start"}) /\ a.start[n].pc = p
          /\ \A m \in Starts : m # n => a.start[m] = l.start[m]
      BY <2>1, <2>2, <2>10, <3>1, AtFacts
    <3> QED
      BY <2>5, <3>2 DEF Only, Fields
  <2>11. CASE dev' = At(l, n, "submitting")
    <3>1. /\ dev'.start[n].pc = "submitting"
          /\ \A m \in Starts : m # n => dev'.start[m] = dev.start[m]
          /\ dev'.coach = dev.coach /\ dev'.task = dev.task /\ dev'.busy = dev.busy /\ dev'.cancels = dev.cancels
      BY <2>10, <2>11
    <3>2. Live(dev', n)
      BY <3>1 DEF Live, Admitting
    <3> QED
      BY <1>2, <2>1, <2>3, <3>1, <3>2 DEF pc
  <2>12. CASE /\ pc = "running"
              /\ dev' = At(l, n, "done") \/ dev' = Told(At(l, n, "done"), "active", n)
    <3> DEFINE a == At(l, n, "done")
    <3>1. /\ Sound(a) /\ \A m \in Starts : m # n => a.start[m] = dev.start[m]
          /\ a.coach = dev.coach /\ a.task = dev.task /\ a.busy = dev.busy /\ a.cancels = dev.cancels
      BY <2>10
    <3>2. (dev' = a \/ dev' = Told(a, "active", n)) /\ "active" \in Statuses
      BY <2>12, JournalFacts
    <3> HIDE DEF a
    <3>3. Only(a, dev', {"obj", "reports", "writes"})
      <4>1. CASE dev' = a
        BY <4>1 DEF Only
      <4>2. CASE dev' = Told(a, "active", n)
        BY <2>1, <3>1, <3>2, <4>2, ToldFacts
      <4> QED
        BY <3>2, <4>1, <4>2
    <3>4. /\ \A m \in Starts : m # n => dev'.start[m] = dev.start[m]
          /\ dev'.coach = dev.coach /\ dev'.task = dev.task /\ dev'.busy = dev.busy /\ dev'.cancels = dev.cancels
      BY <3>1, <3>3 DEF Only, Fields
    <3>5. ~Live(dev, n)
      BY <2>12 DEF Live, Admitting, pc
    <3> QED
      BY <1>2, <2>1, <2>3, <3>4, <3>5 DEF pc
  <2>13. CASE /\ pc \notin {"writing", "claimed", "lost", "dispatching", "running"}
              /\ Only(l, dev', {"active", "start"})
              /\ \A m \in Starts : m # n => dev'.start[m] = dev.start[m]
    <3>1. dev'.coach = dev.coach /\ dev'.task = dev.task /\ dev'.busy = dev.busy /\ dev'.cancels = dev.cancels
      BY <2>5, <2>13 DEF Only, Fields
    <3>2. ~Live(dev, n)
      BY <2>3, <2>13 DEF Live, Admitting, Writing, pc
    <3> QED
      BY <1>2, <2>1, <2>3, <2>13, <3>1, <3>2 DEF pc
  <2> QED
    BY <2>6, <2>7, <2>8, <2>9, <2>11, <2>12, <2>13
<1>12. CASE UndoLands
  <2>1. PICK n, b :
          /\ n \in Starts
          /\ dev.start[n].pc = "undoing" /\ dev' = Caught(b, n) /\ Sound(b)
          /\ Only(dev, b, {"disk", "writes", "cancels", "active", "obj", "coach", "busy", "task"})
          /\ \A c \in Cancels : c # "undo" => b.cancels[c] = dev.cancels[c]
          /\ \/ /\ b.coach = IF dev.busy.route THEN "off" ELSE dev.coach
                /\ b.task = "over" /\ ~b.busy.route /\ seen' = seen
             \/ /\ b.coach = dev.coach /\ b.busy = dev.busy /\ b.task = dev.task
                /\ seen' = [seen EXCEPT !.lost = @ \/ dev.coach # "off"]
    BY <1>12, UndoLandsFacts
  <2>2. b.start = dev.start /\ b.cancels["leave"] = dev.cancels["leave"]
    BY <1>3, <2>1 DEF Only, Fields
  <2>3. seen'.may = seen.may /\ (seen.lost => seen'.lost)
    BY <1>0, <2>1 DEF Histories
  <2>4. b.task = "going" /\ b.busy.route => b.coach # "off" \/ seen'.lost \/ b.cancels["leave"].on
    BY <2>1, <2>2, <2>3 DEF Freed
  <2>5. b.task = "ready" => dev.task = "ready" /\ dev.start[n].pc # "creating"
    BY <2>1
  <2>6. Freed(dev', seen'.lost) /\ dev'.coach = b.coach
    BY <2>1, <2>2, <2>4, <2>5, CaughtFreed
  <2>7. b.coach \in {"off", dev.coach}
    BY <2>1
  <2> QED
    BY <2>3, <2>6, <2>7 DEF Allowed
<1>13. ASSUME NEW n \in Starts, Submitted(n)
       PROVE  Freed(dev', seen'.lost) /\ Allowed(dev', seen'.may)
  <2>1. dev.start[n].pc = "creating" /\ dev.cur # 0
    BY <1>13, SubmittedFacts
  <2>2. CASE /\ dev.task # "ready" /\ dev' = Caught(Routed(dev), n)
             /\ seen' = [seen EXCEPT !.lost = @ \/ (dev.task = "going" /\ dev.coach = "off")]
    <3> DEFINE b == Routed(dev)
    <3>1. Sound(b) /\ Only(dev, b, {"busy"})
      BY <1>0, RoutedFacts
    <3>2. dev' = Caught(b, n)
      BY <2>2
    <3> HIDE DEF b
    <3>3. b.start = dev.start /\ b.task = dev.task /\ b.coach = dev.coach
      BY <3>1 DEF Only, Fields
    <3>4. seen'.may = seen.may /\ (dev.task = "going" /\ dev.coach = "off" => seen'.lost)
      BY <1>0, <2>2 DEF Histories
    <3>5. Freed(dev', seen'.lost) /\ dev'.coach = b.coach
      BY <2>2, <3>1, <3>2, <3>3, <3>4, CaughtFreed
    <3> QED
      BY <3>3, <3>4, <3>5 DEF Allowed
  <2>3. ASSUME NEW b, Sound(b), Only(dev, b, {"busy", "task"}), b.task = "over",
               dev' = Caught(b, n), seen' = seen
        PROVE  Freed(dev', seen'.lost) /\ Allowed(dev', seen'.may)
    <3>1. b.start = dev.start /\ b.coach = dev.coach
      BY <2>3 DEF Only, Fields
    <3>2. Freed(dev', seen'.lost) /\ dev'.coach = b.coach
      BY <2>3, <3>1, CaughtFreed
    <3> QED
      BY <2>3, <3>1, <3>2 DEF Allowed
  <2>4. CASE /\ seen' = [seen EXCEPT !.dispatches = @ + 1, !.may = TRUE]
             /\ dev' = Undoing(dev, n) \/ dev' = Writes(Going(dev), n, "running", "running")
    <3>1. ~dev'.busy.reserved /\ dev'.task = "going" /\ dev'.coach = "round"
      <4>1. CASE dev' = Undoing(dev, n)
        BY <1>0, <2>1, <4>1, UndoingFacts
      <4>2. CASE dev' = Writes(Going(dev), n, "running", "running")
        <5> DEFINE g == Going(dev)
        <5>1. Sound(g) /\ ~g.busy.reserved /\ g.task = "going" /\ g.coach = "round"
          BY <1>0, <2>1, GoingFacts
        <5>2. "running" \in Phases /\ "running" \in Pcs \ {"done"} /\ dev' = Writes(g, n, "running", "running")
          BY <4>2 DEF Phases, Pcs
        <5> HIDE DEF g
        <5>3. Only(g, dev', {"obj", "start", "writes"})
          BY <5>1, <5>2, WritesStartFacts
        <5> QED
          BY <5>1, <5>3 DEF Only, Fields
      <4> QED
        BY <2>4, <4>1, <4>2
    <3>2. seen'.may
      BY <1>0, <2>4 DEF Histories
    <3> QED
      BY <3>1, <3>2 DEF Freed, Allowed
  <2> QED
    BY <1>13, <2>2, <2>3, <2>4, SubmittedFacts
<1> QED
  BY <1>4, <1>7, <1>8, <1>9, <1>10, <1>11, <1>12, <1>13 DEF StartStep

\* The device is freed, and the model is asked with leave, after every step.
LEMMA FreedStep ==
  ASSUME Typed, Starting(dev), Claiming(dev, wire), Freed(dev, seen.lost), Allowed(dev, seen.may),
         [Next]_vars
  PROVE  Freed(dev', seen'.lost) /\ Allowed(dev', seen'.may)
<1>0. Sound(dev)
  BY DEF Typed
<1>1. CASE Moving
  <2>1. Lessens(dev, dev') /\ Recalled(seen, seen')
    BY <1>1, MovingLessens
  <2>2. \A n \in Starts : dev'.start[n].pc = dev.start[n].pc
    BY <1>1, MovingFacts DEF Common, Moved
  <2>3. dev'.task = "going" /\ dev'.busy.route /\ dev.coach # "off" =>
          dev'.coach # "off" \/ seen'.lost \/ dev'.cancels["leave"].on
    BY <1>1, MovingLessens
  <2>4. dev'.coach \in {"round", "consuming"} =>
          seen'.may \/ (dev.coach \in {"round", "consuming"} /\ (seen.may => seen'.may))
    BY <1>1, MovingLessens
  <2>5. dev'.task = "going" /\ dev'.busy.route =>
          dev'.coach # "off" \/ seen'.lost \/ dev'.cancels["leave"].on
    BY <2>1, <2>3 DEF Freed, Lessens, Recalled
  <2>6. dev'.busy.reserved => \E n \in Starts : Live(dev', n)
    BY <2>1, <2>2 DEF Freed, Lessens, Live
  <2>7. dev'.task = "ready" => \E n \in Starts : dev'.start[n].pc = "creating"
    BY <2>1, <2>2 DEF Freed, Lessens
  <2> QED
    BY <2>4, <2>5, <2>6, <2>7 DEF Freed, Allowed
<1>2. CASE StartStep
  BY <1>2, StartsFreed
<1>3. CASE RestoreStep
  <2>1. Only(dev, dev', {"disk", "writes", "restore"}) /\ seen' = seen
    BY <1>3, RestoreStepFacts DEF RestoreStep, RestoreLands, SignIn, RestoreReports
  <2>2. /\ dev'.busy = dev.busy /\ dev'.task = dev.task /\ dev'.coach = dev.coach /\ dev'.start = dev.start
        /\ dev'.cancels = dev.cancels
    BY <2>1 DEF Only, Fields
  <2> QED
    BY <2>1, <2>2 DEF Freed, Allowed, Live
<1>4. CASE Restart
  <2> DEFINE b == Begun(dev)
  <2>1. dev' = Restored(b) /\ Sound(b) /\ b.coach = "off" /\ b.busy = Free /\ b.task = "none"
    BY <1>0, <1>4, RestartFacts, BegunFacts DEF Sound
  <2> HIDE DEF b
  <2>2. Only(b, dev', {"restore", "writes"})
    BY <2>1, RestoredFacts
  <2>3. dev'.coach = "off" /\ dev'.busy = Free /\ dev'.task = "none"
    BY <2>1, <2>2 DEF Only, Fields
  <2> QED
    BY <2>3 DEF Freed, Allowed, Free
<1>5. CASE Outside \/ UNCHANGED vars
  <2>1. dev' = dev /\ seen' = seen
    BY <1>5 DEF Outside, SessionCloses, OtherClaims, Return, ServeLate, vars
  <2> QED
    BY <2>1
<1> QED
  BY <1>1, <1>2, <1>3, <1>4, <1>5, StepKinds

(***************************************************************************)
(* The invariant that the first theorems need.                             *)
(***************************************************************************)
Base ==
  /\ Typed /\ Starting(dev) /\ Claiming(dev, wire) /\ Restoring(dev, wire)
  /\ Freed(dev, seen.lost) /\ Allowed(dev, seen.may)

\* It holds at the start.
LEMMA BaseInit == Init => Base
<1> SUFFICES ASSUME Init
             PROVE  Base
  OBVIOUS
<1>1. Typed /\ wire = {}
  BY TypedInit DEF Init
<1>2. /\ dev.writes = << >> /\ dev.cur = 0 /\ dev.coach = "off" /\ ~dev.busy.reserved /\ ~dev.busy.route
      /\ dev.task = "none" /\ dev.restore.pc = "idle"
      /\ \A n \in Starts : dev.start[n].pc = "unused"
  BY DEF Init, Fresh, Free
<1>3. Queued(dev) = {} /\ \A S : One(dev.writes, S)
  BY <1>2 DEF Queued, Elements, One
<1>4. 0 \notin Starts
  BY JournalFacts
<1> QED
  BY <1>1, <1>2, <1>3, <1>4 DEF Base, Starting, Claiming, Restoring, Freed, Allowed, Asks

\* It is inductive.
LEMMA BaseStep ==
  ASSUME Base, [Next]_vars
  PROVE  Base'
  BY TypedStep, StartingStep, RestoringStep, FreedStep DEF Base

\* It holds in every state.
LEMMA BaseAlways == Spec => []Base
  BY BaseInit, BaseStep, PTL DEF Spec

\* The device is busy only while a coach, a start or a cancel is under way that will free it
\* (Explanation's DeviceIsFreed).
THEOREM DeviceIsFreedHolds == Spec => []DeviceIsFreed
<1>1. Base => DeviceIsFreed
  <2>1. "leave" \in Cancels
    BY DEF Cancels
  <2> QED
    BY <2>1 DEF Base, Freed, DeviceIsFreed, Busy, Live, Admitting
<1> QED
  BY <1>1, BaseAlways, PTL

\* The coach asks the model only after a dispatch or a Next that no other request has used
\* (Explanation's AskedForOnce).
THEOREM AskedForOnceHolds == Spec => AskedForOnce
<1>1. Base /\ [Next]_vars => [dev.coach = "consuming" /\ dev'.coach = "asking" => seen.may]_vars
  BY DEF Base, Allowed
<1> QED
  BY <1>1, BaseAlways, PTL DEF Spec, AskedForOnce
================================================================================
