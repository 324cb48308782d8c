------------------------- MODULE ExplanationClaimProofs -------------------------
(***************************************************************************)
(* Proofs that an explanation is dispatched once, and that the coach asks  *)
(* the model only under the claim of its computer.  They rest on Base of   *)
(* ExplanationProofs and on two more layers:                               *)
(*  - Dispatched: Before the dispatch one start at most is at work; After  *)
(*    it every journal is spent;                                           *)
(*  - Claimed: whoever is away has no card (Away), the claim is of this    *)
(*    computer (Mine), and nobody has told the teacher of an end (Unheard),*)
(*    which is Untold before the dispatch and Heard after it.              *)
(***************************************************************************)
EXTENDS ExplanationProofs

(***************************************************************************)
(* Nobody is away with a card: whoever has signed out has none, and his    *)
(* starts know.                                                            *)
(***************************************************************************)
Away(d, h) ==
  /\ d.active = "none" => \A c \in Cancels : ~d.cancels[c].attached
  /\ h = "out" => d.active = "none" /\ \A n \in Starts : Live(d, n) => d.start[n].stale

\* A step that keeps the card, and brings no start to life.
Follows(d, e) ==
  /\ e.active = "none" <=> d.active = "none"
  /\ \A c \in Cancels : e.cancels[c].attached => d.cancels[c].attached
  /\ \A n \in Starts : Live(e, n) => Live(d, n) /\ (d.start[n].stale => e.start[n].stale)

\* It changes nothing of who is away.
LEMMA FollowsAway ==
  ASSUME NEW d, NEW e, NEW h, Away(d, h), Follows(d, e)
  PROVE  Away(e, h)
  BY DEF Away, Follows

\* The fields that are not about it.
LEMMA OnlyFollows ==
  ASSUME NEW d, NEW e,
         Only(d, e, {"disk", "writes", "obj", "cur", "coach", "busy", "task", "reports", "restore"})
  PROVE  Follows(d, e)
<1>1. e.active = d.active /\ e.cancels = d.cancels /\ e.start = d.start
  BY DEF Only, Fields
<1> QED
  BY <1>1 DEF Follows, Live

\* A step of the coach.
LEMMA RoundsFollows ==
  ASSUME NEW d, NEW e, Rounds(d, e)
  PROVE  Follows(d, e)
<1>1. e.cancels = d.cancels /\ e.start = d.start /\ (e.active = "none" <=> d.active = "none")
  BY DEF Rounds, Only, Fields
<1> QED
  BY <1>1 DEF Follows, Live

\* The first call is done.
LEMMA LandedFollows ==
  ASSUME NEW d, Sound(d), d.writes # << >>
  PROVE  Follows(d, Landed(d))
<1>1. Only(d, Landed(d), {"disk", "writes"})
  BY LandedFacts
<1>2. Only(d, Landed(d), {"disk", "writes", "obj", "cur", "coach", "busy", "task", "reports", "restore"})
  BY <1>1 DEF Only
<1> QED
  BY <1>2, OnlyFollows

\* Such steps follow each other.
LEMMA FollowsOn ==
  ASSUME NEW d, NEW e, NEW f, Follows(d, e), Follows(e, f)
  PROVE  Follows(d, f)
  BY DEF Follows

\* The steps that move the device.
LEMMA MovingAway ==
  ASSUME Typed, Away(dev, here), Moving
  PROVE  Away(dev', here')
<1>0. Sound(dev)
  BY DEF Typed
<1>1. ASSUME Follows(dev, dev'), here' = here
      PROVE  Away(dev', here')
  BY <1>1, FollowsAway
<1>2. CASE Coach \/ Continue
  <2>1. Rounds(dev, dev') /\ here' = here
    BY <1>2, CoachRoundFacts, ModelAnswersFacts, ContinueFacts DEF Coach, CoachRound, ModelAnswers,
       Continue
  <2> QED
    BY <1>1, <2>1, RoundsFollows
<1>3. CASE CoachLands
  <2>1. /\ dev.writes # << >> /\ here' = here
        /\ dev' = Landed(dev) \/ Rounds(Landed(dev), dev')
    BY <1>3, CoachLandsFacts DEF CoachLands
  <2>2. Follows(dev, Landed(dev))
    BY <1>0, <2>1, LandedFollows
  <2>3. Follows(dev, dev')
    BY <2>1, <2>2, RoundsFollows, FollowsOn
  <2> QED
    BY <1>1, <2>1, <2>3
<1>4. CASE TerminalLands \/ ReportLands \/ (\E m \in wire : Reports(m))
  <2>1. Only(dev, dev', {"disk", "writes", "obj", "reports"}) /\ here' = here
    <3>1. CASE TerminalLands \/ ReportLands
      BY <3>1, TerminalLandsFacts, ReportLandsFacts DEF TerminalLands, ReportLands
    <3>2. ASSUME NEW m \in wire, Reports(m)
          PROVE  Only(dev, dev', {"disk", "writes", "obj", "reports"}) /\ here' = here
      <4>1. Only(dev, dev', {"writes", "obj", "reports"}) /\ here' = here
        BY <3>2, ReportsFacts DEF Reports
      <4> QED
        BY <4>1 DEF Only
    <3> QED
      BY <1>4, <3>1, <3>2
  <2>2. Only(dev, dev', {"disk", "writes", "obj", "cur", "coach", "busy", "task", "reports", "restore"})
    BY <2>1 DEF Only
  <2> QED
    BY <1>1, <2>1, <2>2, OnlyFollows
<1>5. ASSUME NEW c \in Cancels \ {"undo"}, CancelLands(c)
      PROVE  Away(dev', here')
  <2>1. /\ Only(dev, dev', {"disk", "writes", "cancels", "active", "obj", "coach", "busy", "task", "reports"})
        /\ dev'.active = "none" <=> (dev.active = "none" /\ ~(c # "task" /\ dev.cancels[c].attached))
        /\ ~dev'.cancels[c].attached /\ \A b \in Cancels : b # c => dev'.cancels[b] = dev.cancels[b]
        /\ here' = here
    BY <1>5, CancelLandsFacts DEF CancelLands
  <2>2. dev'.start = dev.start
    BY <2>1 DEF Only, Fields
  <2> QED
    BY <2>1, <2>2 DEF Away, Live
<1>6. CASE BeginRefused \/ ShowAgain
  <2>1. dev'.active # "none" /\ here' = "in"
    BY <1>6, BeginRefusedFacts, ShowAgainFacts DEF BeginRefused, ShowAgain
  <2> QED
    BY <2>1 DEF Away
<1>7. CASE Stop
  <2>1. dev.active # "none" /\ dev'.active # "none" /\ here' = here
    BY <1>7, StopFacts DEF Stop
  <2> QED
    BY <2>1 DEF Away
<1>8. CASE StopTask
  <2>1. /\ Only(dev, dev', {"cancels", "writes"}) /\ ~dev'.cancels["task"].attached
        /\ \A b \in Cancels : b # "task" => dev'.cancels[b] = dev.cancels[b]
        /\ here' = here
    BY <1>8, StopTaskFacts DEF StopTask
  <2>2. dev'.start = dev.start /\ dev'.active = dev.active
    BY <2>1 DEF Only, Fields
  <2>3. Follows(dev, dev')
    BY <2>1, <2>2 DEF Follows, Live
  <2> QED
    BY <1>1, <2>1, <2>3
<1>9. CASE Leave
  <2>1. dev'.active = "none" /\ (\A c \in Cancels : ~dev'.cancels[c].attached) /\ here' = "left"
    BY <1>9, LeaveFacts DEF Leave
  <2> QED
    BY <2>1 DEF Away
<1>10. CASE SignOut
  <2>1. /\ dev'.active = "none" /\ \A c \in Cancels : ~dev'.cancels[c].attached
        /\ \A n \in Starts : dev'.start[n].stale = (dev.start[n].pc \notin {"unused", "done"})
        /\ Moved(dev, wire, dev', wire')
    BY <1>10, SignOutFacts
  <2>2. \A n \in Starts : dev'.start[n].pc = dev.start[n].pc
    BY <2>1 DEF Moved
  <2> QED
    BY <2>1, <2>2 DEF Away, Live, Admitting
<1> QED
  BY <1>2, <1>3, <1>4, <1>5, <1>6, <1>7, <1>8, <1>9, <1>10 DEF Moving

\* The catch, a write and a place of a start that has one, after a change that follows.
LEMMA CaughtFollows ==
  ASSUME NEW d, NEW b, Sound(b), NEW n \in Starts, Follows(d, b)
  PROVE  Follows(d, Caught(b, n))
<1> DEFINE e == Caught(b, n)
<1>1. /\ Only(b, e, {"busy", "active", "obj", "start", "writes"}) /\ (e.active = "none" <=> b.active = "none")
      /\ \A m \in Starts : m # n => e.start[m] = b.start[m]
      /\ e.start[n].pc \in {"failing", "done"}
  BY CaughtFacts
<1> HIDE DEF e
<1>2. e.cancels = b.cancels
  BY <1>1 DEF Only, Fields
<1>3. Follows(b, e)
  BY <1>1, <1>2 DEF Follows, Live, Admitting
<1> QED
  BY <1>3, FollowsOn DEF e

\* The same of a start that writes.
LEMMA WritesFollows ==
  ASSUME NEW d, NEW b, Sound(b), NEW n \in Starts, Follows(d, b), NEW phase \in Phases,
         NEW p \in Pcs \ {"done"}, Live(b, n)
  PROVE  Follows(d, Writes(b, n, phase, p))
<1> DEFINE e == Writes(b, n, phase, p)
<1>1. /\ Only(b, e, {"obj", "start", "writes"}) /\ e.start[n].stale = b.start[n].stale
      /\ \A m \in Starts : m # n => e.start[m] = b.start[m]
  BY WritesStartFacts
<1> HIDE DEF e
<1>2. e.cancels = b.cancels /\ e.active = b.active
  BY <1>1 DEF Only, Fields
<1>3. Follows(b, e)
  BY <1>1, <1>2 DEF Follows, Live
<1> QED
  BY <1>3, FollowsOn DEF e

\* A start at another place.
LEMMA AtFollows ==
  ASSUME NEW d, NEW e, NEW n \in Starts,
         Only(d, e, {"disk", "writes", "obj", "cur", "coach", "busy", "task", "reports", "restore", "start", "active"}),
         e.active = "none" <=> d.active = "none",
         \A m \in Starts : m # n => e.start[m] = d.start[m],
         Live(e, n) => Live(d, n) /\ e.start[n].stale = d.start[n].stale
  PROVE  Follows(d, e)
<1>1. e.cancels = d.cancels
  BY DEF Only, Fields
<1> QED
  BY <1>1 DEF Follows, Live

\* Only a start that is not stale opens the card, and nobody is away then.
LEMMA OpenedAway ==
  ASSUME NEW d, Sound(d), NEW h, Away(d, h), NEW n \in Starts, Live(d, n), ~d.start[n].stale,
         NEW e, e = Opened(d, n)
  PROVE  Away(e, h)
<1>1. e.active = "starting"
  BY OpenedFacts
<1> QED
  BY <1>1 DEF Away

\* The steps of the starts.
LEMMA StartsAway ==
  ASSUME Typed, Starting(dev), Claiming(dev, wire), Away(dev, here), StartStep
  PROVE  Away(dev', here')
<1>0. Sound(dev)
  BY DEF Typed
<1>1. ASSUME Follows(dev, dev'), here' = here
      PROVE  Away(dev', here')
  BY <1>1, FollowsAway
<1>s. Follows(dev, dev)
  BY DEF Follows
<1>2. ASSUME NEW n \in Starts, Begin(n)
      PROVE  Away(dev', here')
  <2>1. Only(dev, dev', {"obj", "busy", "start"}) /\ here = "in" /\ here' = here
    BY <1>2, BeginFacts DEF Begin
  <2>2. dev'.active = dev.active /\ dev'.cancels = dev.cancels
    BY <2>1 DEF Only, Fields
  <2> QED
    BY <2>1, <2>2 DEF Away
<1>3. ASSUME NEW n \in Starts, Prepared(n)
      PROVE  Away(dev', here')
  <2>1. dev.start[n].pc = "preparing" /\ here' = here
    BY <1>3 DEF Prepared
  <2>2. Live(dev, n)
    BY <2>1 DEF Live, Admitting
  <2>3. CASE dev' = Caught(dev, n)
    BY <1>0, <1>1, <1>s, <2>1, <2>3, CaughtFollows
  <2>4. CASE ~dev.start[n].stale /\ dev' = Opened(dev, n)
    BY <1>0, <2>1, <2>2, <2>4, OpenedAway
  <2>5. CASE dev' = Writes(dev, n, "claiming", "writing")
    <3>1. "claiming" \in Phases /\ "writing" \in Pcs \ {"done"}
      BY DEF Phases, Pcs
    <3> QED
      BY <1>0, <1>1, <1>s, <2>1, <2>2, <2>5, <3>1, WritesFollows
  <2> QED
    BY <1>3, <2>3, <2>4, <2>5 DEF Prepared, Writes
<1>4. ASSUME NEW n \in Starts, Rounded(n)
      PROVE  Away(dev', here')
  <2>1. dev.start[n].pc = "round" /\ here' = here
    BY <1>4 DEF Rounded
  <2>2. Live(dev, n)
    BY <2>1 DEF Live, Admitting
  <2>3. CASE dev' = Caught(dev, n)
    BY <1>0, <1>1, <1>s, <2>1, <2>3, CaughtFollows
  <2>4. CASE dev' = Writes(dev, n, "dispatching", "dispatching")
    <3>1. "dispatching" \in Phases /\ "dispatching" \in Pcs \ {"done"}
      BY DEF Phases, Pcs
    <3> QED
      BY <1>0, <1>1, <1>s, <2>1, <2>2, <2>4, <3>1, WritesFollows
  <2> QED
    BY <1>4, <2>3, <2>4 DEF Rounded, Writes
<1>5. ASSUME NEW n \in Starts, Admitted(n)
      PROVE  Away(dev', here')
  <2>1. dev.start[n].pc = "submitting" /\ here' = here
    BY <1>5 DEF Admitted
  <2>2. CASE dev' = Caught(dev, n)
    BY <1>0, <1>1, <1>s, <2>1, <2>2, CaughtFollows
  <2>3. CASE /\ Only(dev, dev', {"task", "start"}) /\ dev'.start[n].stale = dev.start[n].stale
             /\ \A m \in Starts : m # n => dev'.start[m] = dev.start[m]
    <3>1. dev'.active = dev.active /\ dev'.cancels = dev.cancels
      BY <2>3 DEF Only, Fields
    <3>2. Live(dev, n)
      BY <2>1 DEF Live, Admitting
    <3>3. Follows(dev, dev')
      BY <2>3, <3>1, <3>2 DEF Follows, Live
    <3> QED
      BY <1>1, <2>1, <3>3
  <2> QED
    BY <1>5, <2>2, <2>3, AdmittedFacts
<1>6. ASSUME NEW n \in Starts, Submitted(n)
      PROVE  Away(dev', here')
  <2>1. dev.start[n].pc = "creating" /\ dev.cur # 0 /\ here' = here
    BY <1>6, SubmittedFacts DEF Submitted
  <2>2. Live(dev, n)
    BY <2>1 DEF Live, Admitting
  <2>3. ASSUME NEW b, Sound(b), Only(dev, b, {"busy", "task"}), dev' = Caught(b, n)
        PROVE  Away(dev', here')
    <3>1. Only(dev, b, {"disk", "writes", "obj", "cur", "coach", "busy", "task", "reports", "restore"})
      BY <2>3 DEF Only
    <3> QED
      BY <1>1, <2>1, <2>3, <3>1, OnlyFollows, CaughtFollows
  <2>4. CASE dev' = Caught(Routed(dev), n)
    <3> DEFINE b == Routed(dev)
    <3>1. Sound(b) /\ Only(dev, b, {"busy"})
      BY <1>0, RoutedFacts
    <3>2. Only(dev, b, {"busy", "task"})
      BY <3>1 DEF Only
    <3> HIDE DEF b
    <3>3. dev' = Caught(b, n)
      BY <2>4 DEF b
    <3> QED
      BY <2>3, <3>1, <3>2, <3>3
  <2>5. CASE dev' = Undoing(dev, n)
    <3>1. /\ Only(dev, dev', {"busy", "coach", "task", "cancels", "start", "writes"})
          /\ dev'.start[n].pc = "undoing" /\ \A m \in Starts : m # n => dev'.start[m] = dev.start[m]
          /\ \A c \in Cancels : c # "undo" => dev'.cancels[c] = dev.cancels[c]
          /\ dev'.cancels["undo"].attached = dev.cancels["undo"].attached
      BY <1>0, <2>1, <2>5, UndoingFacts
    <3>2. dev'.active = dev.active
      BY <3>1 DEF Only, Fields
    <3>3. Follows(dev, dev')
      BY <3>1, <3>2 DEF Follows, Live, Admitting
    <3> QED
      BY <1>1, <2>1, <3>3
  <2>6. CASE dev' = Writes(Going(dev), n, "running", "running")
    <3> DEFINE b == Going(dev)
    <3>1. Sound(b) /\ Only(dev, b, {"busy", "coach", "task"})
      BY <1>0, <2>1, GoingFacts
    <3>2. Only(dev, b, {"disk", "writes", "obj", "cur", "coach", "busy", "task", "reports", "restore"})
      BY <3>1 DEF Only
    <3>3. "running" \in Phases /\ "running" \in Pcs \ {"done"}
      BY DEF Phases, Pcs
    <3> HIDE DEF b
    <3>4. Follows(dev, b) /\ Live(b, n)
      BY <2>2, <3>1, <3>2, OnlyFollows DEF Only, Fields, Live
    <3>5. Follows(dev, Writes(b, n, "running", "running"))
      BY <3>1, <3>3, <3>4, WritesFollows
    <3> QED
      BY <1>1, <2>1, <2>6, <3>5 DEF b
  <2> QED
    BY <1>6, <2>3, <2>4, <2>5, <2>6, SubmittedFacts
<1>7. ASSUME NEW m \in wire, Claims(m)
      PROVE  Away(dev', here')
  <2>1. m.n \in Starts /\ m \in Asks(wire, "claim") /\ here' = here
    BY <1>7, ClaimsFacts DEF Claims
  <2>2. Live(dev, m.n)
    BY <2>1 DEF Claiming, Live, Admitting
  <2>3. CASE dev' = Caught(dev, m.n)
    BY <1>0, <1>1, <1>s, <2>1, <2>3, CaughtFollows
  <2>4. ASSUME NEW b, Sound(b), Only(dev, b, {"obj"}),
               dev' = Writes(b, m.n, "claimed", "claimed") \/ dev' = Writes(b, m.n, "terminal", "lost")
        PROVE  Away(dev', here')
    <3>1. Only(dev, b, {"disk", "writes", "obj", "cur", "coach", "busy", "task", "reports", "restore"})
      BY <2>4 DEF Only
    <3>2. Follows(dev, b) /\ Live(b, m.n)
      BY <2>2, <2>4, <3>1, OnlyFollows DEF Only, Fields, Live
    <3>3. /\ "claimed" \in Phases /\ "claimed" \in Pcs \ {"done"}
          /\ "terminal" \in Phases /\ "lost" \in Pcs \ {"done"}
      BY DEF Phases, Pcs
    <3>4. /\ Follows(dev, Writes(b, m.n, "claimed", "claimed"))
          /\ Follows(dev, Writes(b, m.n, "terminal", "lost"))
      BY <2>1, <2>4, <3>2, <3>3, WritesFollows
    <3> QED
      BY <1>1, <2>1, <2>4, <3>4
  <2> QED
    BY <1>7, <2>3, <2>4, ClaimsFacts
<1>8. CASE StartLands
  <2> DEFINE l == Landed(dev)
             n == Head(dev.writes).n
             pc == dev.start[n].pc
  <2>1. dev.writes # << >> /\ Head(dev.writes).by = "start" /\ n \in Starts /\ here' = here
    BY <1>8, StartLandsFacts DEF StartLands
  <2>2. Sound(l) /\ Only(dev, l, {"disk", "writes"}) /\ Follows(dev, l)
    BY <1>0, <2>1, LandedFacts, LandedFollows
  <2>3. \/ /\ pc = "writing" /\ Only(l, dev', {"cur", "start"})
           /\ dev'.start[n].stale = dev.start[n].stale
           /\ \A m \in Starts : m # n => dev'.start[m] = dev.start[m]
        \/ dev' = Caught(l, n)
        \/ pc = "claimed" /\ ~dev.start[n].stale /\ dev' = Opened(l, n)
        \/ pc = "dispatching" /\ dev' = At(l, n, "submitting")
        \/ dev' = At(l, n, "done") \/ dev' = Told(At(l, n, "done"), "active", n)
        \/ /\ Only(l, dev', {"active", "start"}) /\ (dev'.active = "none" <=> dev.active = "none")
           /\ dev'.start[n].pc = "done" /\ \A m \in Starts : m # n => dev'.start[m] = dev.start[m]
    BY <1>8, StartLandsFacts
  <2> HIDE DEF l, n
  <2>4. l.start = dev.start /\ l.active = dev.active /\ l.cancels = dev.cancels
    BY <2>2 DEF Only, Fields
  <2>5. pc \in Admitting => Live(l, n) /\ Live(dev, n)
    BY <2>4 DEF Live
  <2>6. CASE /\ pc = "writing" /\ Only(l, dev', {"cur", "start"})
             /\ dev'.start[n].stale = dev.start[n].stale
             /\ \A m \in Starts : m # n => dev'.start[m] = dev.start[m]
    <3>1. dev'.active = dev.active /\ dev'.cancels = dev.cancels
      BY <2>4, <2>6 DEF Only, Fields
    <3>2. Follows(dev, dev')
      BY <2>5, <2>6, <3>1 DEF Follows, Live, Admitting
    <3> QED
      BY <1>1, <2>1, <3>2
  <2>7. CASE dev' = Caught(l, n)
    BY <1>1, <2>1, <2>2, <2>7, CaughtFollows
  <2>8. CASE pc = "claimed" /\ ~dev.start[n].stale /\ dev' = Opened(l, n)
    <3>1. Away(l, here) /\ Live(l, n) /\ ~l.start[n].stale
      BY <2>2, <2>4, <2>5, <2>8, FollowsAway DEF Admitting
    <3> QED
      BY <2>1, <2>2, <2>8, <3>1, OpenedAway
  <2>9. ASSUME NEW e, NEW p \in {"submitting", "done"}, e = At(l, n, p),
               p = "submitting" => pc = "dispatching"
        PROVE  Follows(dev, e)
    <3>0. p \in Pcs
      BY DEF Pcs
    <3>1. /\ Only(l, e, {"start"}) /\ e.start[n].pc = p /\ e.start[n].stale = (p # "done" /\ l.start[n].stale)
          /\ \A m \in Starts : m # n => e.start[m] = l.start[m]
      BY <2>1, <2>2, <2>9, <3>0, AtFacts
    <3>2. e.active = dev.active /\ e.cancels = dev.cancels
      BY <2>4, <3>1 DEF Only, Fields
    <3>3. CASE p = "done"
      BY <2>4, <3>1, <3>2, <3>3 DEF Follows, Live, Admitting
    <3>4. CASE p = "submitting"
      <4>1. Live(dev, n) /\ e.start[n].stale = dev.start[n].stale
        <5>1. dev.start \in [Starts -> StartStates]
          BY <1>0, DeviceIs DEF Sound
        <5>2. dev.start[n].stale \in BOOLEAN
          BY <2>1, <5>1 DEF StartStates
        <5>3. e.start[n].stale = (p # "done" /\ l.start[n].stale) /\ p # "done"
          BY <3>1, <3>4
        <5>4. e.start[n].stale = dev.start[n].stale
          BY <2>4, <5>2, <5>3
        <5> QED
          BY <2>5, <2>9, <3>4, <5>4 DEF Admitting
      <4> QED
        BY <2>4, <3>1, <3>2, <4>1 DEF Follows, Live
    <3> QED
      BY <3>3, <3>4
  <2>10. CASE pc = "dispatching" /\ dev' = At(l, n, "submitting")
    BY <1>1, <2>1, <2>9, <2>10
  <2>11. CASE dev' = At(l, n, "done")
    BY <1>1, <2>1, <2>9, <2>11
  <2>12. CASE dev' = Told(At(l, n, "done"), "active", n)
    <3> DEFINE e == At(l, n, "done")
    <3>1. Follows(dev, e)
      BY <2>9
    <3>2. Sound(e) /\ "active" \in Statuses
      BY <2>1, <2>2, AtFacts, JournalFacts DEF Pcs
    <3> HIDE DEF e
    <3>3. Only(e, Told(e, "active", n), {"obj", "reports", "writes"})
      BY <2>1, <3>2, ToldFacts
    <3>4. Only(e, Told(e, "active", n), {"disk", "writes", "obj", "cur", "coach", "busy", "task", "reports", "restore"})
      BY <3>3 DEF Only
    <3>5. Follows(dev, Told(e, "active", n))
      BY <3>1, <3>4, OnlyFollows, FollowsOn
    <3> QED
      BY <1>1, <2>1, <2>12, <3>5 DEF e
  <2>13. CASE /\ Only(l, dev', {"active", "start"}) /\ (dev'.active = "none" <=> dev.active = "none")
              /\ dev'.start[n].pc = "done" /\ \A m \in Starts : m # n => dev'.start[m] = dev.start[m]
    <3>1. dev'.cancels = dev.cancels
      BY <2>4, <2>13 DEF Only, Fields
    <3>2. Follows(dev, dev')
      BY <2>13, <3>1 DEF Follows, Live, Admitting
    <3> QED
      BY <1>1, <2>1, <3>2
  <2> QED
    BY <2>3, <2>6, <2>7, <2>8, <2>10, <2>11, <2>12, <2>13
<1>9. CASE UndoLands
  <2>1. PICK n, b : /\ n \in Starts /\ dev' = Caught(b, n) /\ Sound(b)
                    /\ Only(dev, b, {"disk", "writes", "cancels", "active", "obj", "coach", "busy", "task"})
                    /\ (b.active = "none" <=> dev.active = "none") /\ ~b.cancels["undo"].attached
                    /\ \A c \in Cancels : c # "undo" => b.cancels[c] = dev.cancels[c]
    BY <1>9, UndoLandsFacts
  <2>2. b.start = dev.start
    BY <2>1 DEF Only, Fields
  <2>3. Follows(dev, b)
    BY <2>1, <2>2 DEF Follows, Live
  <2>4. here' = here
    BY <1>9 DEF UndoLands
  <2> QED
    BY <1>1, <2>1, <2>3, <2>4, CaughtFollows
<1> QED
  BY <1>2, <1>3, <1>4, <1>5, <1>6, <1>7, <1>8, <1>9 DEF StartStep

\* Every step.
LEMMA AwayStep ==
  ASSUME Typed, Starting(dev), Claiming(dev, wire), Away(dev, here), [Next]_vars
  PROVE  Away(dev', here')
<1>1. CASE RestoreStep
  <2>1. Only(dev, dev', {"disk", "writes", "restore"}) /\ here' \in {here, "left"}
    BY <1>1, RestoreStepFacts DEF RestoreStep, RestoreLands, SignIn, RestoreReports
  <2>2. Only(dev, dev', {"disk", "writes", "obj", "cur", "coach", "busy", "task", "reports", "restore"})
    BY <2>1 DEF Only
  <2>3. Away(dev', here)
    BY <2>2, OnlyFollows, FollowsAway
  <2> QED
    BY <2>1, <2>3 DEF Away
<1>2. CASE Restart
  <2>1. PICK b : b = Begun(dev) /\ dev' = Restored(b)
    BY <1>2, RestartFacts
  <2>2. dev \in Device
    BY DEF Typed, Sound
  <2>3. Sound(b) /\ \A c \in Cancels : ~b.cancels[c].attached
    BY <2>1, <2>2, BegunFacts
  <2>4. Only(b, dev', {"restore", "writes"})
    BY <2>1, <2>3, RestoredFacts
  <2>5. dev'.cancels = b.cancels /\ here' = "left"
    BY <1>2, <2>4 DEF Only, Fields, Restart
  <2> QED
    BY <2>3, <2>5 DEF Away
<1>3. CASE Outside
  <2>1. dev' = dev /\ here' \in {here, "in"}
    BY <1>3 DEF Outside, SessionCloses, OtherClaims, Return, ServeLate
  <2> QED
    BY <2>1 DEF Away, Live
<1>4. CASE UNCHANGED vars
  BY <1>4 DEF vars
<1> QED
  BY <1>1, <1>2, <1>3, <1>4, MovingAway, StartsAway, StepKinds

(***************************************************************************)
(* Who owns the claim: without one of this computer no journal is claimed, *)
(* no start is past its claim and there is no coach.                       *)
(***************************************************************************)
Owning == {"claimed", "round", "dispatching", "submitting", "creating"}
\* Nothing of the device is claimed.
Unclaimed(d) ==
  /\ d.coach = "off" /\ d.disk.phase # "claimed" /\ d.restore.j.phase # "claimed"
  /\ \A n \in Starts : d.obj[n].phase # "claimed" /\ d.start[n].pc \notin Owning
  /\ \A x \in Queued(d) : x.j.phase # "claimed"
\* The claim is of this computer, or nothing is claimed.
Mine(d, rows) == rows.owner = "me" \/ Unclaimed(d)

\* Functions of a device without a claim.
LEMMA MovesUnclaimed ==
  ASSUME NEW d, NEW e, NEW M, Moves(d, e, M), Unclaimed(d), e.coach = "off", Sound(e)
  PROVE  Unclaimed(e)
<1>1. e.disk = d.disk /\ e.restore = d.restore
  BY DEF Moves, Only, Fields
<1>2. \A x \in Queued(e) : x.n # 0 => x.n \in Starts
  BY QueuedFacts, JournalFacts DEF Sound
<1>3. \A x \in Queued(e) : x.j.phase # "claimed"
  BY <1>2 DEF Moves, Extra, Unclaimed
<1>4. \A n \in Starts : e.obj[n].phase # "claimed" /\ e.start[n].pc \notin Owning
  BY DEF Moves, Unclaimed
<1> QED
  BY <1>1, <1>3, <1>4 DEF Unclaimed

\* The first call is done.
LEMMA LandedUnclaimed ==
  ASSUME NEW d, Sound(d), d.writes # << >>, Unclaimed(d)
  PROVE  Unclaimed(Landed(d))
<1> DEFINE l == Landed(d)
<1>1. /\ Only(d, l, {"disk", "writes"}) /\ Queued(l) \subseteq Queued(d) /\ Head(d.writes) \in Queued(d)
      /\ l.disk = IF Head(d.writes).by \in Cancels THEN d.disk ELSE Head(d.writes).j
  BY LandedFacts
<1> HIDE DEF l
<1>2. l.coach = d.coach /\ l.restore = d.restore /\ l.obj = d.obj /\ l.start = d.start
  BY <1>1 DEF Only, Fields
<1> QED
  BY <1>1, <1>2 DEF Unclaimed, l

\* A start changes, and perhaps a call joins the queue.
LEMMA ChangeUnclaimed ==
  ASSUME NEW d, Unclaimed(d), Sound(d), NEW e, NEW n \in Starts,
         Only(d, e, {"cur", "active", "cancels", "busy", "task", "obj", "start", "writes"}),
         \A m \in Starts : m # n => e.start[m] = d.start[m] /\ e.obj[m] = d.obj[m],
         e.start[n].pc \notin Owning, e.obj[n].phase # "claimed",
         e.writes = d.writes \/ \E x \in Calls : x.j = e.obj[n] /\ e.writes = Append(d.writes, x)
  PROVE  Unclaimed(e)
<1>1. e.coach = d.coach /\ e.disk = d.disk /\ e.restore = d.restore
  BY DEF Only, Fields
<1>2. \A x \in Queued(e) : x.j.phase # "claimed"
  <2>1. CASE e.writes = d.writes
    BY <2>1 DEF Unclaimed, Queued
  <2>2. ASSUME NEW x \in Calls, x.j = e.obj[n], e.writes = Append(d.writes, x)
        PROVE  \A y \in Queued(e) : y.j.phase # "claimed"
    <3>1. d.writes \in Seq(Calls)
      BY QueuedFacts DEF Sound
    <3>2. Elements(e.writes) = Elements(d.writes) \cup {x}
      BY <2>2, <3>1, AppendFacts
    <3> QED
      BY <2>2, <3>2 DEF Unclaimed, Queued
  <2> QED
    BY <2>1, <2>2
<1> QED
  BY <1>1, <1>2 DEF Unclaimed

\* The catch.
LEMMA CaughtUnclaimed ==
  ASSUME NEW d, Sound(d), Unclaimed(d), NEW n \in Starts
  PROVE  Unclaimed(Caught(d, n))
<1> DEFINE e == Caught(d, n)
<1>1. /\ Only(d, e, {"busy", "active", "obj", "start", "writes"})
      /\ \A m \in Starts : m # n => e.start[m] = d.start[m] /\ e.obj[m] = d.obj[m]
      /\ \/ /\ e.start[n].pc = "failing" /\ e.obj[n].phase = "unknown"
            /\ \E x \in Calls : x.by = "start" /\ x.n = n /\ x.j = e.obj[n] /\ e.writes = Append(d.writes, x)
         \/ e.start[n].pc = "done" /\ e.obj = d.obj /\ e.writes = d.writes
  BY CaughtFacts
<1> HIDE DEF e
<1>2. Only(d, e, {"cur", "active", "cancels", "busy", "task", "obj", "start", "writes"})
  BY <1>1 DEF Only
<1>3. e.start[n].pc \notin Owning /\ e.obj[n].phase # "claimed"
  BY <1>1 DEF Owning, Unclaimed
<1>4. e.writes = d.writes \/ \E x \in Calls : x.j = e.obj[n] /\ e.writes = Append(d.writes, x)
  BY <1>1
<1> QED
  BY <1>1, <1>2, <1>3, <1>4, ChangeUnclaimed DEF e

\* A write.
LEMMA WritesUnclaimed ==
  ASSUME NEW d, Sound(d), Unclaimed(d), NEW n \in Starts, NEW phase \in Phases \ {"claimed"},
         NEW p \in Pcs \ {"done"}, p \notin Owning
  PROVE  Unclaimed(Writes(d, n, phase, p))
<1> DEFINE e == Writes(d, n, phase, p)
<1>1. /\ Only(d, e, {"obj", "start", "writes"}) /\ e.start[n].pc = p /\ e.obj[n].phase = phase
      /\ \A m \in Starts : m # n => e.start[m] = d.start[m] /\ e.obj[m] = d.obj[m]
      /\ \E x \in Calls : x.by = "start" /\ x.n = n /\ x.j = e.obj[n] /\ e.writes = Append(d.writes, x)
  BY WritesStartFacts
<1> HIDE DEF e
<1>2. Only(d, e, {"cur", "active", "cancels", "busy", "task", "obj", "start", "writes"})
  BY <1>1 DEF Only
<1>4. \E x \in Calls : x.j = e.obj[n] /\ e.writes = Append(d.writes, x)
  BY <1>1
<1>5. Unclaimed(e)
  BY <1>1, <1>2, <1>4, ChangeUnclaimed
<1> QED
  BY <1>5 DEF e

\* The owner stays.
LEMMA OwnerStays ==
  ASSUME Typed, Next
  PROVE  server.owner = "me" => server'.owner = "me"
<1>1. server \in Rows
  BY DEF Typed
<1>2. /\ \A r : ReportRows(r).owner = server.owner
      /\ server.owner # "none" => ClaimRows = server
  BY <1>1, ServerFacts
<1>3. server'.owner = server.owner \/ server' = ClaimRows \/ OtherClaims
  <2>1. CASE Moving
    BY <2>1, MovingFacts DEF Common
  <2>2. CASE StartStep
    BY <2>2, ClaimsFacts DEF StartStep, StartLands, UndoLands, Begin, Prepared, Rounded, Admitted,
       Submitted
  <2>3. CASE RestoreStep
    <3>1. ASSUME NEW m \in wire, RestoreReports(m)
          PROVE  server'.owner = server.owner
      BY <1>2, <3>1, RestoreReportsFacts
    <3> QED
      BY <2>3, <3>1 DEF RestoreStep, RestoreLands, SignIn
  <2>4. CASE Restart
    BY <2>4 DEF Restart
  <2>5. CASE Outside
    <3>1. ASSUME NEW m \in wire, ServeLate(m)
          PROVE  server'.owner = server.owner \/ server' = ClaimRows
      BY <1>2, <3>1 DEF ServeLate
    <3>2. CASE SessionCloses
      BY <1>1, <3>2 DEF SessionCloses, Rows
    <3> QED
      BY <2>5, <3>1, <3>2 DEF Outside, Return
  <2> QED
    BY <2>1, <2>2, <2>3, <2>4, <2>5, StepKinds
<1> QED
  BY <1>2, <1>3 DEF OtherClaims

\* The steps that move the device.
LEMMA MovingUnclaimed ==
  ASSUME Typed, Moving, Unclaimed(dev)
  PROVE  Unclaimed(dev')
<1>1. Moved(dev, wire, dev', wire') /\ Sound(dev')
  BY MovingFacts DEF Common, Typed
<1>2. dev'.coach = "off"
  BY MovingLessens DEF Lessens, Unclaimed
<1>3. dev'.restore = dev.restore
  BY <1>1 DEF Moved, Only, Fields
<1>4. dev'.disk.phase # "claimed"
  BY <1>1 DEF Moved, Unclaimed, Journaled
<1>5. \A x \in Queued(dev') : x.n # 0 => x.n \in Starts
  BY <1>1, QueuedFacts, JournalFacts DEF Sound
<1>6. \A x \in Queued(dev') : x.j.phase # "claimed"
  BY <1>1, <1>5 DEF Moved, Extra, Unclaimed
<1>7. \A n \in Starts : dev'.obj[n].phase # "claimed" /\ dev'.start[n].pc \notin Owning
  BY <1>1 DEF Moved, Unclaimed
<1> QED
  BY <1>2, <1>3, <1>4, <1>6, <1>7 DEF Unclaimed

\* The steps of the starts: without a claim nothing is opened and nothing is dispatched.
LEMMA StartsUnclaimed ==
  ASSUME Typed, Starting(dev), Claiming(dev, wire), StartStep, Unclaimed(dev), server'.owner # "me"
  PROVE  Unclaimed(dev')
<1>0. Sound(dev) /\ server \in Rows
  BY DEF Typed
<1>1. ASSUME NEW n \in Starts, Begin(n)
      PROVE  Unclaimed(dev')
  <2>1. /\ Only(dev, dev', {"obj", "busy", "start"}) /\ dev'.obj[n] = dev.disk
        /\ dev'.start[n].pc = "preparing"
        /\ \A m \in Starts : m # n => dev'.start[m] = dev.start[m] /\ dev'.obj[m] = dev.obj[m]
    BY <1>1, BeginFacts
  <2>2. /\ Only(dev, dev', {"cur", "active", "cancels", "busy", "task", "obj", "start", "writes"})
        /\ dev'.writes = dev.writes
    BY <2>1 DEF Only, Fields
  <2>3. dev'.start[n].pc \notin Owning /\ dev'.obj[n].phase # "claimed"
    BY <2>1 DEF Owning, Unclaimed
  <2> QED
    BY <1>0, <2>1, <2>2, <2>3, ChangeUnclaimed
<1>2. ASSUME NEW n \in Starts, Prepared(n)
      PROVE  Unclaimed(dev')
  <2>1. dev.start[n].pc = "preparing"
    BY <1>2 DEF Prepared
  <2>2. dev.obj[n].phase = "none"
    BY <2>1 DEF Starting, Unclaimed
  <2>3. "claiming" \in Phases \ {"claimed"} /\ "writing" \in Pcs \ {"done"} /\ "writing" \notin Owning
    BY DEF Phases, Pcs, Owning
  <2>4. dev' = Caught(dev, n) \/ dev' = Writes(dev, n, "claiming", "writing")
    BY <1>2, <2>2 DEF Prepared, Writes
  <2> QED
    BY <1>0, <2>3, <2>4, CaughtUnclaimed, WritesUnclaimed
<1>3. ASSUME NEW n \in Starts, Rounded(n) \/ Admitted(n) \/ Submitted(n)
      PROVE  FALSE
  BY <1>3 DEF Rounded, Admitted, Submitted, Unclaimed, Owning
<1>4. ASSUME NEW m \in wire, Claims(m)
      PROVE  Unclaimed(dev')
  <2>1. m.n \in Starts
    BY <1>4, ClaimsFacts
  <2>2. CASE dev' = Caught(dev, m.n)
    BY <1>0, <2>1, <2>2, CaughtUnclaimed
  <2>3. ASSUME NEW b, Sound(b), Only(dev, b, {"obj"}), b.obj[m.n].phase = dev.obj[m.n].phase,
               \A k \in Starts : k # m.n => b.obj[k] = dev.obj[k], dev' = Writes(b, m.n, "terminal", "lost")
        PROVE  Unclaimed(dev')
    <3>1. /\ b.coach = dev.coach /\ b.disk = dev.disk /\ b.restore = dev.restore /\ b.start = dev.start
          /\ b.writes = dev.writes
      BY <2>3 DEF Only, Fields
    <3>2. Unclaimed(b)
      BY <2>3, <3>1 DEF Unclaimed, Queued
    <3>3. "terminal" \in Phases \ {"claimed"} /\ "lost" \in Pcs \ {"done"} /\ "lost" \notin Owning
      BY DEF Phases, Pcs, Owning
    <3> QED
      BY <2>1, <2>3, <3>2, <3>3, WritesUnclaimed
  <2> QED
    BY <1>4, <2>2, <2>3, ClaimsFacts
<1>5. CASE StartLands
  <2> DEFINE l == Landed(dev)
             n == Head(dev.writes).n
             pc == dev.start[n].pc
  <2>1. dev.writes # << >> /\ Head(dev.writes).by = "start" /\ n \in Starts
    BY <1>5, StartLandsFacts
  <2>2. Sound(l) /\ Only(dev, l, {"disk", "writes"}) /\ Unclaimed(l)
    BY <1>0, <2>1, LandedFacts, LandedUnclaimed
  <2>3. pc \notin {"claimed", "dispatching"}
    BY <2>1 DEF Unclaimed, Owning
  <2>4. \/ /\ Only(l, dev', {"cur", "active", "start"}) /\ dev'.start[n].pc \in {"claiming", "done"}
           /\ \A m \in Starts : m # n => dev'.start[m] = dev.start[m]
        \/ dev' = Caught(l, n)
        \/ dev' = At(l, n, "done") \/ dev' = Told(At(l, n, "done"), "active", n)
    <3>1. \A F \in {{"cur", "start"}, {"active", "start"}} :
            Only(l, dev', F) => Only(l, dev', {"cur", "active", "start"})
      BY DEF Only
    <3> HIDE DEF l
    <3> QED
      BY <1>5, <2>3, <3>1, StartLandsFacts DEF l
  <2> HIDE DEF l, n
  <2>5. CASE /\ Only(l, dev', {"cur", "active", "start"}) /\ dev'.start[n].pc \in {"claiming", "done"}
             /\ \A m \in Starts : m # n => dev'.start[m] = dev.start[m]
    <3>1. /\ Only(l, dev', {"cur", "active", "cancels", "busy", "task", "obj", "start", "writes"})
          /\ dev'.obj = l.obj /\ dev'.writes = l.writes /\ l.start = dev.start
      BY <2>2, <2>5 DEF Only, Fields
    <3>2. dev'.start[n].pc \notin Owning /\ dev'.obj[n].phase # "claimed"
      BY <2>1, <2>2, <2>5, <3>1 DEF Owning, Unclaimed
    <3> QED
      BY <2>1, <2>2, <2>5, <3>1, <3>2, ChangeUnclaimed
  <2>6. CASE dev' = Caught(l, n)
    BY <2>1, <2>2, <2>6, CaughtUnclaimed
  <2>7. ASSUME NEW e, e = At(l, n, "done")
        PROVE  Unclaimed(e) /\ Sound(e)
    <3>1. /\ Sound(e) /\ Only(l, e, {"start"}) /\ e.start[n].pc = "done"
          /\ \A m \in Starts : m # n => e.start[m] = l.start[m]
      <4>1. "done" \in Pcs
        BY DEF Pcs
      <4> QED
        BY <2>1, <2>2, <2>7, <4>1, AtFacts
    <3>2. /\ Only(l, e, {"cur", "active", "cancels", "busy", "task", "obj", "start", "writes"})
          /\ e.obj = l.obj /\ e.writes = l.writes
      BY <3>1 DEF Only, Fields
    <3>3. e.start[n].pc \notin Owning /\ e.obj[n].phase # "claimed"
      BY <2>1, <2>2, <3>1, <3>2 DEF Owning, Unclaimed
    <3> QED
      BY <2>1, <2>2, <3>1, <3>2, <3>3, ChangeUnclaimed
  <2>8. CASE dev' = At(l, n, "done")
    BY <2>7, <2>8
  <2>9. CASE dev' = Told(At(l, n, "done"), "active", n)
    <3> DEFINE e == At(l, n, "done")
               f == Told(e, "active", n)
    <3>1. Unclaimed(e) /\ Sound(e)
      BY <2>7
    <3> HIDE DEF e
    <3>2. "active" \in Statuses
      BY JournalFacts
    <3>3. Sound(f) /\ Moves(e, f, {n}) /\ Only(e, f, {"obj", "reports", "writes"})
      BY <2>1, <3>1, <3>2, ToldFacts
    <3> HIDE DEF f
    <3>4. f.coach = "off"
      BY <3>1, <3>3 DEF Only, Fields, Unclaimed
    <3>5. Unclaimed(f)
      BY <3>1, <3>3, <3>4, MovesUnclaimed
    <3> QED
      BY <2>9, <3>5 DEF e, f
  <2> QED
    BY <2>4, <2>5, <2>6, <2>8, <2>9
<1>6. CASE UndoLands
  <2>1. PICK n, b : /\ n \in Starts /\ dev' = Caught(b, n) /\ Sound(b) /\ Moves(Landed(dev), b, {})
                    /\ b.coach \in {"off", dev.coach}
    BY <1>6, UndoLandsFacts
  <2>2. dev.writes # << >>
    BY <1>6, UndoLandsFacts
  <2>3. Unclaimed(Landed(dev))
    BY <1>0, <2>2, LandedUnclaimed
  <2>4. b.coach = "off"
    BY <2>1 DEF Unclaimed
  <2>5. Unclaimed(b)
    BY <2>1, <2>3, <2>4, MovesUnclaimed
  <2> QED
    BY <2>1, <2>5, CaughtUnclaimed
<1> QED
  BY <1>1, <1>2, <1>3, <1>4, <1>5, <1>6 DEF StartStep

\* Every step.
LEMMA MineStep ==
  ASSUME Typed, Starting(dev), Claiming(dev, wire), Mine(dev, server), [Next]_vars
  PROVE  Mine(dev', server')
<1>0. Sound(dev) /\ NoJournal.phase # "claimed"
  BY JournalFacts DEF Typed
<1>1. CASE UNCHANGED vars
  BY <1>1 DEF vars
<1>2. CASE Next
  <2> SUFFICES ASSUME server'.owner # "me"
               PROVE  Unclaimed(dev')
    BY DEF Mine
  <2>1. Unclaimed(dev)
    BY <1>2, OwnerStays DEF Mine
  <2>2. CASE RestoreStep
    <3>1. ASSUME NEW d, Unclaimed(d), Sound(d), Only(d, dev', {"writes", "restore"}),
                 dev'.restore.j.phase # "claimed",
                 dev'.writes = d.writes \/ \E x \in Calls : x.j = dev'.restore.j /\ dev'.writes = Append(d.writes, x)
          PROVE  Unclaimed(dev')
      <4>1. /\ dev'.coach = d.coach /\ dev'.disk = d.disk /\ dev'.obj = d.obj /\ dev'.start = d.start
        BY <3>1 DEF Only, Fields
      <4>2. \A y \in Queued(dev') : y.j.phase # "claimed"
        <5>1. CASE dev'.writes = d.writes
          BY <3>1, <5>1 DEF Unclaimed, Queued
        <5>2. ASSUME NEW x \in Calls, x.j = dev'.restore.j, dev'.writes = Append(d.writes, x)
              PROVE  \A y \in Queued(dev') : y.j.phase # "claimed"
          <6>1. d.writes \in Seq(Calls)
            BY <3>1, QueuedFacts DEF Sound
          <6>2. Elements(dev'.writes) = Elements(d.writes) \cup {x}
            BY <5>2, <6>1, AppendFacts
          <6> QED
            BY <3>1, <5>2, <6>2 DEF Unclaimed, Queued
        <5> QED
          BY <3>1, <5>1, <5>2
      <4> QED
        BY <3>1, <4>1, <4>2 DEF Unclaimed
    <3>2. CASE RestoreLands
      <4> DEFINE l == Landed(dev)
      <4>1. /\ dev.writes # << >> /\ Only(l, dev', {"restore"})
            /\ dev'.restore.j = dev.restore.j \/ dev'.restore.j = NoJournal
        BY <3>2, RestoreLandsFacts
      <4>2. Unclaimed(l) /\ Sound(l)
        BY <1>0, <2>1, <4>1, LandedUnclaimed, LandedFacts
      <4> HIDE DEF l
      <4>3. Only(l, dev', {"writes", "restore"}) /\ dev'.writes = l.writes
        BY <4>1 DEF Only, Fields
      <4>4. dev'.restore.j.phase # "claimed"
        BY <1>0, <2>1, <4>1 DEF Unclaimed
      <4> QED
        BY <3>1, <4>2, <4>3, <4>4
    <3>3. ASSUME NEW m \in wire, RestoreReports(m)
          PROVE  Unclaimed(dev')
      <4>1. /\ Only(dev, dev', {"restore", "writes"})
            /\ \/ /\ dev'.restore.j.phase = dev.restore.j.phase
                  /\ \E x \in Calls : x.by = "restore" /\ x.n = 0 /\ x.j = dev'.restore.j
                                      /\ dev'.writes = Append(dev.writes, x)
               \/ dev'.restore.j = NoJournal /\ dev'.writes = dev.writes
        BY <3>3, RestoreReportsFacts
      <4>2. dev'.restore.j.phase # "claimed"
        BY <1>0, <2>1, <4>1 DEF Unclaimed
      <4>3. Only(dev, dev', {"writes", "restore"})
        BY <4>1 DEF Only
      <4> QED
        BY <1>0, <2>1, <3>1, <4>1, <4>2, <4>3
    <3>4. CASE SignIn
      <4>1. dev' = Restored(dev)
        BY <3>4, SignInFacts
      <4> DEFINE e == Restored(dev)
      <4>2. /\ Only(dev, e, {"restore", "writes"})
            /\ \/ /\ e.restore.j.phase = "unknown"
                  /\ \E x \in Calls : x.by = "restore" /\ x.n = 0 /\ x.j = e.restore.j
                                      /\ e.writes = Append(dev.writes, x)
               \/ e.restore = [pc |-> "sending", j |-> dev.disk] /\ e.writes = dev.writes
               \/ e = dev
        BY <1>0, RestoredFacts
      <4> HIDE DEF e
      <4>3. e.restore.j.phase # "claimed" /\ Only(dev, e, {"writes", "restore"})
        BY <2>1, <4>2 DEF Unclaimed, Only
      <4>4. dev' = e
        BY <4>1 DEF e
      <4>5. dev'.writes = dev.writes \/ \E x \in Calls : x.j = dev'.restore.j /\ dev'.writes = Append(dev.writes, x)
        BY <4>2, <4>4
      <4> QED
        BY <1>0, <2>1, <3>1, <4>3, <4>4, <4>5
    <3> QED
      BY <2>2, <3>2, <3>3, <3>4 DEF RestoreStep
  <2>3. CASE Restart
    <3>1. PICK b : b = Begun(dev) /\ dev' = Restored(b)
      BY <2>3, RestartFacts
    <3>2. dev \in Device
      BY <1>0 DEF Sound
    <3>3. /\ Sound(b) /\ b.disk = dev.disk /\ b.writes = << >> /\ b.coach = "off" /\ b.restore.j = NoJournal
          /\ \A n \in Starts : b.obj[n] = NoJournal /\ b.start[n].pc \in {"unused", "done"}
      BY <3>1, <3>2, BegunFacts
    <3> DEFINE e == Restored(b)
    <3>4. /\ Only(b, e, {"restore", "writes"})
          /\ \/ /\ e.restore.j.phase = "unknown"
                /\ \E x \in Calls : x.by = "restore" /\ x.n = 0 /\ x.j = e.restore.j
                                    /\ e.writes = Append(b.writes, x)
             \/ e.restore = [pc |-> "sending", j |-> b.disk] /\ e.writes = b.writes
             \/ e = b
      BY <3>3, RestoredFacts
    <3> HIDE DEF e
    <3>5. /\ e.coach = "off" /\ e.disk = dev.disk /\ e.obj = b.obj /\ e.start = b.start
          /\ e.restore.j.phase # "claimed"
      BY <1>0, <2>1, <3>3, <3>4 DEF Only, Fields, Unclaimed
    <3>6. \A y \in Queued(e) : y.j.phase # "claimed"
      <4>1. CASE e.writes = << >>
        BY <4>1 DEF Queued, Elements
      <4>2. ASSUME NEW x \in Calls, x.j = e.restore.j, e.writes = Append(b.writes, x)
            PROVE  \A y \in Queued(e) : y.j.phase # "claimed"
        <5>1. b.writes \in Seq(Calls) /\ Elements(b.writes) = {}
          BY <3>3 DEF Elements
        <5>2. Elements(e.writes) = Elements(b.writes) \cup {x}
          BY <4>2, <5>1, AppendFacts
        <5> QED
          BY <3>5, <4>2, <5>1, <5>2 DEF Queued
      <4> QED
        BY <3>3, <3>4, <4>1, <4>2
    <3>7. Unclaimed(e)
      <4>1. \A n \in Starts : e.obj[n].phase # "claimed" /\ e.start[n].pc \notin Owning
        BY <1>0, <3>3, <3>5 DEF Owning
      <4> QED
        BY <2>1, <3>5, <3>6, <4>1 DEF Unclaimed
    <3> QED
      BY <3>1, <3>7 DEF e
  <2>4. CASE Outside
    <3>1. dev' = dev
      BY <2>4 DEF Outside, SessionCloses, OtherClaims, Return, ServeLate
    <3> QED
      BY <2>1, <3>1
  <2>5. CASE Moving
    BY <2>1, <2>5, MovingUnclaimed
  <2>6. CASE StartStep
    BY <2>1, <2>6, StartsUnclaimed
  <2> QED
    BY <1>2, <2>2, <2>3, <2>4, <2>5, <2>6, StepKinds
<1> QED
  BY <1>1, <1>2

(***************************************************************************)
(* One dispatch.  Before it nothing but the starts and the restore writes, *)
(* and one start at most is under way; after it no journal that anybody    *)
(* has may start again.                                                    *)
(***************************************************************************)
Spent(j) == j.phase \in {"dispatching", "running", "unknown", "terminal"}

\* A write before the dispatch, of a start that waits for it.
Unspent(d, x) == x.by = "start" /\ d.start[x.n].pc \in {"writing", "claimed"} /\ ~HasReport(x.j)

\* Nobody else is at work.
Calm(d, w) ==
  /\ d.coach = "off" /\ ~d.busy.route /\ d.active \notin {"working", "waiting"}
  /\ \A c \in Cancels : ~d.cancels[c].on
  /\ \A x \in Queued(d) : x.by \in {"start", "restore"}
  /\ d.reports.queue = << >>
  /\ \A m \in w : m.kind # "report"
  /\ d.restore.pc # "idle" => Spent(d.restore.j)

\* Start n holds the device, and its dispatch is in the file before it is made.
Fit(d, n) ==
  /\ Live(d, n) => d.busy.reserved /\ ~HasReport(d.obj[n])
  /\ d.start[n].pc = "creating" => d.task = "ready"
  /\ d.start[n].pc \in {"submitting", "creating"} => Spent(d.disk)
  /\ d.start[n].pc \in {"round", "dispatching", "submitting", "creating"} => d.cur = n
  /\ d.start[n].pc \in {"dispatching", "submitting", "creating", "failing"} => Spent(d.obj[n])
  /\ d.start[n].pc \notin {"running", "undoing"}

\* Before the dispatch.
Before(d, w) ==
  /\ Calm(d, w) /\ \A n \in Starts : Fit(d, n)
  /\ \A n, m \in Starts : Live(d, n) /\ Live(d, m) => n = m
  /\ \A x \in Journaled(d) : Spent(x.j) \/ Unspent(d, x)
  /\ HasReport(d.disk) => Spent(d.disk)

\* The journals that may not start again.
SpentStarts(d) == {0} \cup {n \in Starts : Spent(d.obj[n])}

\* After it.
After(d, w) ==
  /\ Spent(d.disk) /\ (d.restore.pc # "idle" => Spent(d.restore.j))
  /\ \A x \in Journaled(d) : Spent(x.j)
  /\ \A n \in Starts : ~Live(d, n)
  /\ Kept(d, w, SpentStarts(d))

\* One or the other, but for an explanation that was stopped early.
Dispatched ==
  seen.early \/ (seen.dispatches = 0 /\ Before(dev, wire)) \/ (seen.dispatches = 1 /\ After(dev, wire))

\* Of more starts.
LEMMA KeptMore ==
  ASSUME NEW d, NEW w, NEW N, NEW S, Kept(d, w, N), N \subseteq S
  PROVE  Kept(d, w, S)
  BY DEF Kept, Within, Waited

\* After the dispatch: the steps that move the device.
LEMMA MovingAfter ==
  ASSUME Typed, Moving, After(dev, wire)
  PROVE  After(dev', wire')
<1>1. Moved(dev, wire, dev', wire') /\ Sound(dev') /\ Sound(dev)
  BY MovingFacts DEF Common, Typed
<1> DEFINE N == SpentStarts(dev)
<1>2. Kept(dev, wire, N) /\ Kept(dev', wire', N)
  BY <1>1 DEF After, Moved
<1>3. N \subseteq SpentStarts(dev')
  BY <1>1 DEF Moved, SpentStarts, Spent
<1>4. \A x \in Journaled(dev') : Spent(x.j)
  <2> SUFFICES ASSUME NEW x \in Queued(dev'), x.by \notin Cancels, x \notin Queued(dev)
               PROVE  Spent(x.j)
    BY DEF After, Journaled
  <2>1. Extra(dev, x) /\ x \in Calls
    BY <1>1, QueuedFacts DEF Moved, Sound
  <2>2. x.n # 0 /\ x.by \in {"coach", "terminal", "report"}
    BY <2>1, JournalFacts DEF Extra, Callers
  <2>3. x.n \in N
    BY <1>2, <2>2 DEF Kept, Within
  <2>4. Spent(dev.obj[x.n])
    BY <2>2, <2>3 DEF SpentStarts
  <2> QED
    BY <2>1, <2>2, <2>4 DEF Extra, Spent
<1>5. Spent(dev'.disk) /\ dev'.restore = dev.restore
  BY <1>1 DEF After, Moved, Only, Fields
<1>6. \A n \in Starts : ~Live(dev', n)
  BY <1>1 DEF Moved, After, Live
<1> HIDE DEF N
<1>7. Kept(dev', wire', SpentStarts(dev'))
  BY <1>2, <1>3, KeptMore
<1> QED
  BY <1>4, <1>5, <1>6, <1>7 DEF After

\* The first call is done.
LEMMA LandedAfter ==
  ASSUME NEW d, Sound(d), NEW w, After(d, w), d.writes # << >>
  PROVE  After(Landed(d), w)
<1> DEFINE l == Landed(d)
<1>1. /\ Only(d, l, {"disk", "writes"}) /\ Queued(l) \subseteq Queued(d) /\ Head(d.writes) \in Queued(d)
      /\ l.disk = IF Head(d.writes).by \in Cancels THEN d.disk ELSE Head(d.writes).j
  BY LandedFacts
<1> HIDE DEF l
<1>2. /\ l.cur = d.cur /\ l.obj = d.obj /\ l.start = d.start /\ l.cancels = d.cancels
      /\ l.reports = d.reports /\ l.restore = d.restore
  BY <1>1 DEF Only, Fields
<1>3. Spent(l.disk) /\ \A x \in Journaled(l) : Spent(x.j)
  BY <1>1 DEF After, Journaled
<1>4. SpentStarts(l) = SpentStarts(d)
  BY <1>2 DEF SpentStarts
<1>5. Kept(l, w, SpentStarts(d))
  BY <1>1, <1>2 DEF After, Kept, Within
<1> QED
  BY <1>2, <1>3, <1>4, <1>5 DEF After, Live, l

\* Others go on, and no call leaves the queue.
LEMMA MovesAfter ==
  ASSUME NEW d, NEW e, NEW w, NEW M, Moves(d, e, M), After(d, w), Sound(e),
         M \subseteq SpentStarts(d)
  PROVE  After(e, w)
<1> DEFINE N == SpentStarts(d)
<1>1. Within(e, N) /\ Waited(w, N)
  BY DEF After, Kept, Moves
<1>2. N \subseteq SpentStarts(e)
  BY DEF Moves, SpentStarts, Spent
<1>3. \A x \in Journaled(e) : Spent(x.j)
  <2> SUFFICES ASSUME NEW x \in Queued(e), x.by \notin Cancels, x \notin Queued(d)
               PROVE  Spent(x.j)
    BY DEF After, Journaled
  <2>1. Extra(d, x) /\ x \in Calls
    BY QueuedFacts DEF Moves, Sound
  <2>2. x.n # 0 /\ x.by \in {"coach", "terminal", "report"}
    BY <2>1, JournalFacts DEF Extra, Callers
  <2>3. x.n \in N
    BY <1>1, <2>2 DEF Within
  <2>4. Spent(d.obj[x.n])
    BY <2>2, <2>3 DEF SpentStarts
  <2> QED
    BY <2>1, <2>2, <2>4 DEF Extra, Spent
<1>4. e.disk = d.disk /\ e.restore = d.restore
  BY DEF Moves, Only, Fields
<1>5. \A n \in Starts : ~Live(e, n)
  BY DEF Moves, After, Live
<1> HIDE DEF N
<1>6. Kept(e, w, SpentStarts(e))
  BY <1>1, <1>2, KeptMore DEF Kept
<1> QED
  BY <1>3, <1>4, <1>5, <1>6 DEF After

\* A start whose journal is spent saves it, or is done.
LEMMA ChangeAfter ==
  ASSUME NEW d, NEW w, Sound(d), NEW e, NEW n \in Starts,
         Spent(d.disk), d.restore.pc # "idle" => Spent(d.restore.j),
         \A x \in Journaled(d) : Spent(x.j),
         Kept(d, w, SpentStarts(e)), \A m \in Starts : m # n => ~Live(d, m),
         Only(d, e, {"active", "busy", "task", "coach", "cancels", "obj", "start", "writes"}),
         \A m \in Starts : m # n => e.start[m].pc = d.start[m].pc,
         Spent(e.obj[n]), ~Live(e, n),
         \A c \in {"stop", "leave"} : e.cancels[c] = d.cancels[c],
         \/ e.writes = d.writes
         \/ \E x \in Calls : (x.by = "undo" \/ (x.by = "start" /\ x.j = e.obj[n])) /\ e.writes = Append(d.writes, x)
  PROVE  After(e, w)
<1>1. e.disk = d.disk /\ e.restore = d.restore /\ e.cur = d.cur /\ e.reports = d.reports
  BY DEF Only, Fields
<1>2. /\ \A x \in Journaled(e) : Spent(x.j)
      /\ \A x \in Queued(e) : x.by \in {"coach", "terminal", "report"} => x \in Queued(d)
  <2>1. CASE e.writes = d.writes
    BY <2>1 DEF Queued, Journaled
  <2>2. ASSUME NEW x \in Calls, x.by = "undo" \/ (x.by = "start" /\ x.j = e.obj[n]),
               e.writes = Append(d.writes, x)
        PROVE  /\ \A y \in Journaled(e) : Spent(y.j)
               /\ \A y \in Queued(e) : y.by \in {"coach", "terminal", "report"} => y \in Queued(d)
    <3>1. d.writes \in Seq(Calls)
      BY QueuedFacts DEF Sound
    <3>2. Elements(e.writes) = Elements(d.writes) \cup {x}
      BY <2>2, <3>1, AppendFacts
    <3> QED
      BY <2>2, <3>2 DEF Queued, Journaled, Cancels
  <2> QED
    BY <2>1, <2>2
<1>3. n \in SpentStarts(e)
  BY DEF SpentStarts
<1>4. Kept(e, w, SpentStarts(e))
  <2> DEFINE N == SpentStarts(e)
  <2> HIDE DEF N
  <2>1. Kept(d, w, N) /\ n \in N
    BY <1>3 DEF N
  <2>2. \A m \in Starts : e.start[m].pc \in {"running", "undoing", "failing"} => m \in N
    BY <2>1 DEF Kept, Within
  <2>3. Within(e, N)
    BY <1>1, <1>2, <2>1, <2>2 DEF Kept, Within
  <2> QED
    BY <2>1, <2>3 DEF Kept, N
<1>5. \A m \in Starts : ~Live(e, m)
  BY DEF Live
<1> QED
  BY <1>1, <1>2, <1>4, <1>5 DEF After

\* A start whose journal is spent ends in the catch.
LEMMA CaughtAfter ==
  ASSUME NEW d, NEW w, Sound(d), After(d, w), NEW n \in Starts, Spent(d.obj[n])
  PROVE  After(Caught(d, n), w)
<1> DEFINE e == Caught(d, n)
<1>1. /\ Only(d, e, {"busy", "active", "obj", "start", "writes"})
      /\ \A m \in Starts : m # n => e.start[m] = d.start[m] /\ e.obj[m] = d.obj[m]
      /\ \/ /\ e.start[n].pc = "failing" /\ e.obj[n].phase = "unknown"
            /\ \E x \in Calls : x.by = "start" /\ x.n = n /\ x.j = e.obj[n] /\ e.writes = Append(d.writes, x)
         \/ e.start[n].pc = "done" /\ e.obj = d.obj /\ e.writes = d.writes
  BY CaughtFacts
<1> HIDE DEF e
<1>2. /\ Only(d, e, {"active", "busy", "task", "coach", "cancels", "obj", "start", "writes"})
      /\ e.cancels = d.cancels
  BY <1>1 DEF Only, Fields
<1>3. Spent(e.obj[n]) /\ ~Live(e, n)
  BY <1>1 DEF Spent, Live, Admitting
<1>4. SpentStarts(d) \subseteq SpentStarts(e)
  BY <1>1, <1>3 DEF SpentStarts
<1>5. Kept(d, w, SpentStarts(e))
  BY <1>4, KeptMore DEF After
<1>6. Spent(d.disk) /\ (d.restore.pc # "idle" => Spent(d.restore.j))
  BY DEF After
<1>7. (\A x \in Journaled(d) : Spent(x.j)) /\ (\A m \in Starts : ~Live(d, m))
  BY DEF After
<1>8. \/ e.writes = d.writes
      \/ \E x \in Calls : (x.by = "undo" \/ (x.by = "start" /\ x.j = e.obj[n])) /\ e.writes = Append(d.writes, x)
  BY <1>1
<1>9. After(e, w)
  BY <1>1, <1>2, <1>3, <1>5, <1>6, <1>7, <1>8, ChangeAfter
<1> QED
  BY <1>9 DEF e

\* A start whose journal is spent is done.
LEMMA DoneAfter ==
  ASSUME NEW d, NEW w, Sound(d), After(d, w), NEW n \in Starts, Spent(d.obj[n]), NEW e,
         Only(d, e, {"active", "start"}), e.start[n].pc = "done",
         \A m \in Starts : m # n => e.start[m] = d.start[m]
  PROVE  After(e, w)
<1>1. /\ Only(d, e, {"active", "busy", "task", "coach", "cancels", "obj", "start", "writes"})
      /\ e.cancels = d.cancels /\ e.obj = d.obj /\ e.writes = d.writes
  BY DEF Only, Fields
<1>2. Spent(e.obj[n]) /\ ~Live(e, n)
  BY <1>1 DEF Live, Admitting
<1>3. Kept(d, w, SpentStarts(e))
  BY <1>1 DEF After, SpentStarts
<1>4. Spent(d.disk) /\ (d.restore.pc # "idle" => Spent(d.restore.j))
  BY DEF After
<1>5. (\A x \in Journaled(d) : Spent(x.j)) /\ (\A m \in Starts : ~Live(d, m))
  BY DEF After
<1> QED
  BY <1>1, <1>2, <1>3, <1>4, <1>5, ChangeAfter

\* After the dispatch: the steps of the starts.
LEMMA StartsAfter ==
  ASSUME Typed, Starting(dev), Claiming(dev, wire), StartStep, After(dev, wire)
  PROVE  After(dev', wire') /\ seen'.dispatches = seen.dispatches
<1>0. Sound(dev) /\ Spent(dev.disk) /\ \A n \in Starts : ~Live(dev, n)
  BY DEF Typed, After
<1>1. ASSUME NEW n \in Starts, Begin(n)
      PROVE  FALSE
  BY <1>0, <1>1, BeginFacts DEF MayStart, Spent
<1>2. ASSUME NEW n \in Starts, Prepared(n) \/ Rounded(n) \/ Admitted(n) \/ Submitted(n)
      PROVE  FALSE
  BY <1>0, <1>2 DEF Prepared, Rounded, Admitted, Submitted, Live, Admitting
<1>3. ASSUME NEW m \in wire, Claims(m)
      PROVE  FALSE
  <2>1. m.n \in Starts /\ m \in Asks(wire, "claim")
    BY <1>3, ClaimsFacts
  <2> QED
    BY <1>0, <2>1 DEF Claiming, Live, Admitting
<1>4. CASE StartLands
  <2> DEFINE l == Landed(dev)
             n == Head(dev.writes).n
             pc == dev.start[n].pc
  <2>1. dev.writes # << >> /\ Head(dev.writes).by = "start" /\ n \in Starts
    BY <1>4, StartLandsFacts
  <2>2. Sound(l) /\ Only(dev, l, {"disk", "writes"}) /\ Head(dev.writes) \in Queued(dev)
    BY <1>0, <2>1, LandedFacts
  <2>3. After(l, wire)
    BY <1>0, <2>1, LandedAfter
  <2>4. pc \in {"running", "failing"}
    BY <1>0, <2>1, <2>2 DEF Starting, Writing, Live, Admitting
  <2>5. Spent(l.obj[n])
    <3>1. n \in SpentStarts(dev) /\ n # 0
      BY <2>1, <2>4, JournalFacts DEF After, Kept, Within
    <3> QED
      BY <2>2, <3>1 DEF SpentStarts, Only, Fields
  <2>6. /\ wire' = wire /\ seen' = seen
        /\ \/ dev' = At(l, n, "done") \/ dev' = Told(At(l, n, "done"), "active", n)
           \/ /\ Only(l, dev', {"active", "start"}) /\ dev'.start[n].pc = "done"
              /\ \A m \in Starts : m # n => dev'.start[m] = dev.start[m]
    BY <1>4, <2>4, StartLandsFacts DEF StartLands
  <2>7. l.start = dev.start
    BY <2>2 DEF Only, Fields
  <2> HIDE DEF l, n
  <2>8. CASE /\ Only(l, dev', {"active", "start"}) /\ dev'.start[n].pc = "done"
             /\ \A m \in Starts : m # n => dev'.start[m] = dev.start[m]
    BY <2>1, <2>2, <2>3, <2>5, <2>6, <2>7, <2>8, DoneAfter
  <2>9. ASSUME NEW e, e = At(l, n, "done")
        PROVE  After(e, wire) /\ Sound(e) /\ Only(l, e, {"start"})
    <3>1. "done" \in Pcs
      BY DEF Pcs
    <3>2. /\ Sound(e) /\ Only(l, e, {"start"}) /\ e.start[n].pc = "done"
          /\ \A m \in Starts : m # n => e.start[m] = l.start[m]
      BY <2>1, <2>2, <2>9, <3>1, AtFacts
    <3>3. Only(l, e, {"active", "start"})
      BY <3>2 DEF Only
    <3>4. After(e, wire)
      BY <2>1, <2>2, <2>3, <2>5, <3>2, <3>3, DoneAfter
    <3> QED
      BY <3>2, <3>4
  <2>10. CASE dev' = At(l, n, "done")
    BY <2>6, <2>9, <2>10
  <2>11. CASE dev' = Told(At(l, n, "done"), "active", n)
    <3> DEFINE e == At(l, n, "done")
               f == Told(e, "active", n)
    <3>1. After(e, wire) /\ Sound(e) /\ Only(l, e, {"start"})
      BY <2>9
    <3> HIDE DEF e
    <3>2. "active" \in Statuses
      BY JournalFacts
    <3>3. Sound(f) /\ Moves(e, f, {n})
      BY <2>1, <3>1, <3>2, ToldFacts
    <3> HIDE DEF f
    <3>4. n \in SpentStarts(e)
      BY <2>1, <2>5, <3>1 DEF SpentStarts, Only, Fields
    <3>5. {n} \subseteq SpentStarts(e)
      BY <3>4
    <3>6. After(f, wire)
      BY <3>1, <3>3, <3>5, MovesAfter
    <3> QED
      BY <2>6, <2>11, <3>6 DEF e, f
  <2> QED
    BY <2>6, <2>8, <2>10, <2>11
<1>5. CASE UndoLands
  <2>1. dev.writes # << >> /\ wire' = wire
    BY <1>5, UndoLandsFacts
  <2>2. PICK n, b : /\ n \in Starts /\ dev.start[n].pc = "undoing" /\ dev' = Caught(b, n) /\ Sound(b)
                    /\ Moves(Landed(dev), b, {})
                    /\ seen' = seen \/ seen' = [seen EXCEPT !.lost = @ \/ dev.coach # "off"]
    BY <1>5, UndoLandsFacts
  <2>3. After(Landed(dev), wire)
    BY <1>0, <2>1, LandedAfter
  <2>4. After(b, wire)
    BY <2>2, <2>3, MovesAfter
  <2>5. b.start[n].pc = "undoing"
    <3>1. Only(dev, Landed(dev), {"disk", "writes"})
      BY <1>0, <2>1, LandedFacts
    <3> QED
      BY <2>2, <3>1 DEF Moves, Only, Fields
  <2>6. Spent(b.obj[n])
    <3>1. n \in SpentStarts(b) /\ n # 0
      BY <2>2, <2>4, <2>5, JournalFacts DEF After, Kept, Within
    <3> QED
      BY <3>1 DEF SpentStarts
  <2>7. After(dev', wire)
    BY <2>2, <2>4, <2>6, CaughtAfter
  <2>8. seen'.dispatches = seen.dispatches
    BY <2>2 DEF Typed, Histories
  <2> QED
    BY <2>1, <2>7, <2>8
<1> QED
  BY <1>1, <1>2, <1>3, <1>4, <1>5 DEF StartStep

\* The restore writes a journal that is spent.
LEMMA RestoredAfter ==
  ASSUME NEW d, NEW w, Sound(d), After(d, w), NEW e, NEW v, Only(d, e, {"restore", "writes"}),
         e.restore.pc # "idle" => Spent(e.restore.j),
         \/ e.writes = d.writes
         \/ \E x \in Calls : x.by = "restore" /\ Spent(x.j) /\ e.writes = Append(d.writes, x),
         \A m \in Asks(v, "report") : m \in w
  PROVE  After(e, v)
<1>1. /\ e.disk = d.disk /\ e.obj = d.obj /\ e.start = d.start /\ e.cur = d.cur /\ e.reports = d.reports
      /\ e.cancels = d.cancels
  BY DEF Only, Fields
<1>2. /\ \A x \in Journaled(e) : Spent(x.j)
      /\ \A x \in Queued(e) : x.by \in {"coach", "terminal", "report"} => x \in Queued(d)
  <2>1. CASE e.writes = d.writes
    BY <2>1 DEF Queued, Journaled, After
  <2>2. ASSUME NEW x \in Calls, x.by = "restore", Spent(x.j), e.writes = Append(d.writes, x)
        PROVE  /\ \A y \in Journaled(e) : Spent(y.j)
               /\ \A y \in Queued(e) : y.by \in {"coach", "terminal", "report"} => y \in Queued(d)
    <3>1. d.writes \in Seq(Calls)
      BY QueuedFacts DEF Sound
    <3>2. Elements(e.writes) = Elements(d.writes) \cup {x}
      BY <2>2, <3>1, AppendFacts
    <3>3. \A y \in Journaled(d) : Spent(y.j)
      BY DEF After
    <3> QED
      BY <2>2, <3>2, <3>3 DEF Queued, Journaled
  <2> QED
    BY <2>1, <2>2
<1>3. SpentStarts(e) = SpentStarts(d)
  BY <1>1 DEF SpentStarts
<1>4. Kept(e, v, SpentStarts(d))
  BY <1>1, <1>2 DEF After, Kept, Within, Waited, Asks
<1> QED
  BY <1>1, <1>2, <1>3, <1>4 DEF After, Live

\* After the dispatch: the steps of the restore, a crash and the others.
LEMMA RestoreAfter ==
  ASSUME Typed, Restoring(dev, wire), RestoreStep \/ Outside, After(dev, wire)
  PROVE  After(dev', wire') /\ seen'.dispatches = seen.dispatches
<1>0. Sound(dev) /\ Spent(dev.disk) /\ (dev.restore.pc # "idle" => Spent(dev.restore.j))
  BY DEF Typed, After
<1>1. CASE RestoreLands
  <2> DEFINE l == Landed(dev)
  <2>1. /\ dev.writes # << >> /\ Only(l, dev', {"restore"})
        /\ \/ dev'.restore.pc = "sending" /\ dev'.restore.j = dev.restore.j
              /\ wire' = wire \cup RestoreWire(dev') /\ dev.restore.pc = "storing"
           \/ dev'.restore.pc = "idle" /\ wire' = wire
    BY <1>1, RestoreLandsFacts
  <2>2. Sound(l) /\ After(l, wire)
    BY <1>0, <2>1, LandedFacts, LandedAfter
  <2> HIDE DEF l
  <2>3. Only(l, dev', {"restore", "writes"}) /\ dev'.writes = l.writes
    BY <2>1 DEF Only, Fields
  <2>4. dev'.restore.pc # "idle" => Spent(dev'.restore.j)
    BY <1>0, <2>1
  <2>5. dev' \in Device
    BY <1>1, RestoreLandsFacts DEF Sound
  <2>6. \A m \in Asks(wire', "report") : m \in wire
    BY <2>1, <2>5, RestoreWireFacts DEF Asks
  <2>7. After(dev', wire')
    BY <2>2, <2>3, <2>4, <2>6, RestoredAfter
  <2> QED
    BY <1>1, <2>7 DEF RestoreLands
<1>2. ASSUME NEW m \in wire, RestoreReports(m)
      PROVE  After(dev', wire') /\ seen'.dispatches = seen.dispatches
  <2>1. /\ Only(dev, dev', {"restore", "writes"}) /\ m \in Asks(wire, "restore") /\ m.kind = "restore"
        /\ wire' \subseteq (wire \ {m}) \cup {Late(m)}
        /\ \/ /\ dev'.restore.j.phase = dev.restore.j.phase
              /\ \E x \in Calls : x.by = "restore" /\ x.n = 0 /\ x.j = dev'.restore.j
                                  /\ dev'.writes = Append(dev.writes, x)
           \/ dev'.restore.pc = "idle" /\ dev'.writes = dev.writes
    BY <1>2, RestoreReportsFacts
  <2>2. Spent(dev.restore.j)
    BY <1>0, <2>1 DEF Restoring
  <2>3. dev'.restore.pc # "idle" => Spent(dev'.restore.j)
    BY <2>1, <2>2 DEF Spent
  <2>4. \/ dev'.writes = dev.writes
        \/ \E x \in Calls : x.by = "restore" /\ Spent(x.j) /\ dev'.writes = Append(dev.writes, x)
    BY <2>1, <2>2 DEF Spent
  <2>5. \A x \in Asks(wire', "report") : x \in wire
    <3>1. m \in Requests
      BY DEF Typed, Wired
    <3>2. Late(m).late
      BY <3>1, LateFacts
    <3> QED
      BY <2>1, <3>2 DEF Asks
  <2>6. After(dev', wire')
    BY <1>0, <2>1, <2>3, <2>4, <2>5, RestoredAfter
  <2> QED
    BY <1>2, <2>6 DEF RestoreReports
<1>3. CASE SignIn
  <2>1. dev' = Restored(dev) /\ wire' = wire \cup RestoreWire(dev') /\ dev' \in Device
    BY <1>3, SignInFacts DEF Sound
  <2> DEFINE e == Restored(dev)
  <2>2. /\ Only(dev, e, {"restore", "writes"})
        /\ \/ /\ e.restore.j.phase = "unknown"
              /\ \E x \in Calls : x.by = "restore" /\ x.n = 0 /\ x.j = e.restore.j
                                  /\ e.writes = Append(dev.writes, x)
           \/ e.restore = [pc |-> "sending", j |-> dev.disk] /\ e.writes = dev.writes
           \/ e = dev
    BY <1>0, RestoredFacts
  <2> HIDE DEF e
  <2>3. e.restore.pc # "idle" => Spent(e.restore.j)
    BY <1>0, <2>2 DEF Spent
  <2>4. \/ e.writes = dev.writes
        \/ \E x \in Calls : x.by = "restore" /\ Spent(x.j) /\ e.writes = Append(dev.writes, x)
    BY <2>2 DEF Spent
  <2>5. \A m \in Asks(wire', "report") : m \in wire
    BY <2>1, RestoreWireFacts DEF Asks
  <2>6. After(e, wire')
    BY <1>0, <2>2, <2>3, <2>4, <2>5, RestoredAfter
  <2> QED
    BY <1>3, <2>1, <2>6 DEF e, SignIn
<1>4. CASE Outside
  <2>1. dev' = dev /\ wire' \subseteq wire /\ seen' = seen
    BY <1>4 DEF Outside, SessionCloses, OtherClaims, Return, ServeLate
  <2>2. \A m \in Asks(wire', "report") : m \in wire
    BY <2>1 DEF Asks
  <2>3. Only(dev, dev', {"restore", "writes"}) /\ dev'.writes = dev.writes
    BY <2>1 DEF Only
  <2>4. dev'.restore.pc # "idle" => Spent(dev'.restore.j)
    BY <1>0, <2>1
  <2>5. After(dev', wire')
    BY <1>0, <2>2, <2>3, <2>4, RestoredAfter
  <2> QED
    BY <2>1, <2>5
<1> QED
  BY <1>1, <1>2, <1>3, <1>4 DEF RestoreStep

\* After the dispatch: a crash.
LEMMA RestartAfter ==
  ASSUME Typed, Restart, After(dev, wire)
  PROVE  After(dev', wire') /\ seen'.dispatches = seen.dispatches
<1>1. PICK b : b = Begun(dev) /\ dev' = Restored(b)
  BY RestartFacts
<1>2. dev \in Device /\ Spent(dev.disk) /\ dev' \in Device
  BY RestartFacts DEF Typed, Sound, After
<1>3. /\ Sound(b) /\ b.disk = dev.disk /\ b.writes = << >> /\ b.cur = 0 /\ b.reports.queue = << >>
      /\ b.restore.pc = "idle" /\ \A c \in Cancels : ~b.cancels[c].on
      /\ \A n \in Starts : b.start[n].pc \in {"unused", "done"}
  BY <1>1, <1>2, BegunFacts
<1>4. Queued(b) = {} /\ Elements(b.reports.queue) = {}
  BY <1>3 DEF Queued, Elements
<1>5. After(b, {})
  <2>1. 0 \in SpentStarts(b)
    BY DEF SpentStarts
  <2>2. Kept(b, {}, SpentStarts(b))
    BY <1>3, <1>4, <2>1 DEF Kept, Within, Waited, Cancels
  <2> QED
    BY <1>2, <1>3, <1>4, <2>2 DEF After, Journaled, Live, Admitting
<1> DEFINE e == Restored(b)
<1>6. /\ Only(b, e, {"restore", "writes"})
      /\ \/ /\ e.restore.j.phase = "unknown"
            /\ \E x \in Calls : x.by = "restore" /\ x.n = 0 /\ x.j = e.restore.j
                                /\ e.writes = Append(b.writes, x)
         \/ e.restore = [pc |-> "sending", j |-> b.disk] /\ e.writes = b.writes
         \/ e = b
  BY <1>3, RestoredFacts
<1> HIDE DEF e
<1>7. e.restore.pc # "idle" => Spent(e.restore.j)
  BY <1>2, <1>3, <1>6 DEF Spent
<1>8. \/ e.writes = b.writes
      \/ \E x \in Calls : x.by = "restore" /\ Spent(x.j) /\ e.writes = Append(b.writes, x)
  BY <1>6 DEF Spent
<1>9. Asks(wire', "report") = {}
  BY <1>2, RestartFacts, RestoreWireFacts DEF Asks
<1>10. After(e, wire')
  BY <1>3, <1>5, <1>6, <1>7, <1>8, <1>9, RestoredAfter
<1>11. seen'.dispatches = seen.dispatches
  BY DEF Restart, Typed, Histories
<1> QED
  BY <1>1, <1>10, <1>11 DEF e

\* Before the dispatch: the card, its cancellations and the generation do not matter.
LEMMA BeforeKept ==
  ASSUME NEW d, NEW w, Sound(d), Before(d, w), NEW e, Only(d, e, {"active", "cancels", "start"}),
         e.active \notin {"working", "waiting"},
         \A c \in Cancels : e.cancels[c].on = d.cancels[c].on,
         \A n \in Starts : e.start[n].pc = d.start[n].pc
  PROVE  Before(e, w)
<1>1. /\ e.disk = d.disk /\ e.writes = d.writes /\ e.obj = d.obj /\ e.cur = d.cur /\ e.coach = d.coach
      /\ e.busy = d.busy /\ e.task = d.task /\ e.reports = d.reports /\ e.restore = d.restore
  BY DEF Only, Fields
<1>2. Queued(e) = Queued(d) /\ Journaled(e) = Journaled(d)
  BY <1>1 DEF Queued, Journaled
<1>3. Calm(e, w)
  BY <1>1, <1>2 DEF Before, Calm
<1>4. \A n \in Starts : Fit(e, n) /\ (Live(e, n) <=> Live(d, n))
  BY <1>1 DEF Before, Fit, Live
<1>5. \A x \in Journaled(e) : Spent(x.j) \/ Unspent(e, x)
  <2> SUFFICES ASSUME NEW x \in Journaled(d), Unspent(d, x)
               PROVE  Unspent(e, x)
    BY <1>2 DEF Before
  <2>1. x.by = "start" /\ d.start[x.n].pc \in {"writing", "claimed"} /\ x \in Queued(d)
    BY DEF Unspent, Journaled
  <2>2. x.n \in Starts
    BY <2>1, QueuedFacts, JournalFacts DEF Sound, Numbered
  <2> QED
    BY <2>1, <2>2 DEF Unspent
<1> QED
  BY <1>1, <1>3, <1>4, <1>5 DEF Before

\* What leaves, when there is nothing to stop.
LEMMA LeavesBefore ==
  ASSUME NEW d, NEW w, Sound(d), Before(d, w), NEW e, e = Card(Staled(d), "none")
  PROVE  Before(e, w)
<1> DEFINE s == Staled(d)
<1>1. Sound(s) /\ Only(d, s, {"start"}) /\ \A n \in Starts : s.start[n].pc = d.start[n].pc
  BY StaledFacts
<1> HIDE DEF s
<1>2. "none" \in Cards
  BY DEF Cards
<1>3. e = Card(s, "none")
  BY DEF s
<1>4. /\ Only(s, e, {"active", "cancels"}) /\ e.active = "none"
      /\ \A c \in Cancels : e.cancels[c].on = s.cancels[c].on
  BY <1>1, <1>2, <1>3, CardFacts
<1>5. Only(d, e, {"active", "cancels", "start"}) /\ e.start = s.start /\ s.cancels = d.cancels
  BY <1>1, <1>4 DEF Only, Fields
<1> QED
  BY <1>1, <1>4, <1>5, BeforeKept

\* Before the dispatch: nothing moves but the card, unless the student stops a start.
LEMMA MovingBefore ==
  ASSUME Typed, Moving, Before(dev, wire), seen.dispatches = 0
  PROVE  seen'.early \/ (Before(dev', wire') /\ seen'.dispatches = seen.dispatches)
<1>0. Sound(dev) /\ Calm(dev, wire) /\ seen \in Histories
  BY DEF Typed, Before
<1>1. dev.coach = "off" /\ \A m \in wire : m.kind # "report"
  BY <1>0 DEF Calm
<1>2. dev.writes # << >> => Head(dev.writes).by \in {"start", "restore"}
  BY <1>0, LandedFacts DEF Calm
<1>3. ASSUME Coach \/ CoachLands \/ TerminalLands \/ ReportLands \/ Continue \/ StopTask
      PROVE  FALSE
  BY <1>1, <1>2, <1>3
     DEF Coach, CoachRound, ModelAnswers, CoachLands, TerminalLands, ReportLands, Continue,
        StopTask, Lands
<1>4. ASSUME NEW c \in Cancels \ {"undo"}, CancelLands(c)
      PROVE  FALSE
  BY <1>2, <1>4 DEF CancelLands, Lands, Cancels
<1>5. ASSUME NEW m \in wire, Reports(m)
      PROVE  FALSE
  BY <1>1, <1>5 DEF Reports
<1>6. CASE BeginRefused
  <2>1. Only(dev, dev', {"active"}) /\ dev'.active = "failed" /\ wire' = wire /\ seen' = seen
    BY <1>6, BeginRefusedFacts DEF BeginRefused
  <2>2. Only(dev, dev', {"active", "cancels", "start"}) /\ dev'.cancels = dev.cancels /\ dev'.start = dev.start
    BY <2>1 DEF Only, Fields
  <2> QED
    BY <1>0, <2>1, <2>2, BeforeKept
<1>7. CASE ShowAgain
  <2>1. /\ Only(dev, dev', {"active", "cancels"}) /\ dev'.active = "unknown" /\ wire' = wire /\ seen' = seen
        /\ \A c \in Cancels : dev'.cancels[c].on = dev.cancels[c].on
    BY <1>7, ShowAgainFacts DEF ShowAgain
  <2>2. Only(dev, dev', {"active", "cancels", "start"}) /\ dev'.start = dev.start
    BY <2>1 DEF Only, Fields
  <2> QED
    BY <1>0, <2>1, <2>2, BeforeKept
<1>8. CASE Stop
  <2>1. dev.active \in Cards
    BY <1>0, DeviceIs DEF Sound
  <2>2. dev.active \in Ended \cup {"starting"}
    BY <1>0, <1>8, <2>1 DEF Stop, Calm, Cards
  <2> QED
    BY <1>0, <1>8, <2>2 DEF Stop, Histories
<1>9. CASE Leave
  <2>1. dev.active \in Cards
    BY <1>0, DeviceIs DEF Sound
  <2>2. CASE dev.active = "starting"
    BY <1>0, <1>9, <2>2 DEF Leave, Histories
  <2>3. CASE dev.active # "starting"
    <3>1. dev.active \in Ended \cup {"none"}
      BY <1>0, <2>1, <2>3 DEF Calm, Cards
    <3>2. dev' = Card(Staled(dev), "none") /\ wire' = wire
      BY <1>9, <3>1 DEF Leave, Invalidated
    <3>3. seen'.dispatches = seen.dispatches
      BY <1>0, <1>9 DEF Leave, Histories
    <3> QED
      BY <1>0, <3>2, <3>3, LeavesBefore
  <2> QED
    BY <2>2, <2>3
<1>10. CASE SignOut
  <2>1. dev.active \in Cards
    BY <1>0, DeviceIs DEF Sound
  <2>2. CASE dev.active = "starting"
    BY <1>0, <1>10, <2>2 DEF SignOut, Histories
  <2>3. CASE dev.active # "starting"
    <3> DEFINE a == Aborted(dev)
    <3>1. Sound(a) /\ Only(dev, a, {"coach"}) /\ a.coach = dev.coach
      BY <1>0, AbortedFacts DEF Calm
    <3>2. dev' \in Invalidated(a) /\ wire' = wire
      BY <1>10 DEF SignOut
    <3> HIDE DEF a
    <3>3. /\ Only(dev, a, {"active", "cancels", "start"}) /\ a.active = dev.active /\ a.cancels = dev.cancels
          /\ a.start = dev.start
      BY <3>1 DEF Only, Fields
    <3>4. a.active \in Ended \cup {"none"}
      BY <1>0, <2>1, <2>3, <3>3 DEF Calm, Cards
    <3>5. dev' = Card(Staled(a), "none")
      BY <3>2, <3>4 DEF Invalidated
    <3>6. Before(a, wire)
      BY <1>0, <3>3, BeforeKept DEF Calm
    <3>7. seen'.dispatches = seen.dispatches
      BY <1>0, <1>10 DEF SignOut, Histories
    <3> QED
      BY <3>1, <3>2, <3>5, <3>6, <3>7, LeavesBefore
  <2> QED
    BY <2>2, <2>3
<1> QED
  BY <1>3, <1>4, <1>5, <1>6, <1>7, <1>8, <1>9, <1>10 DEF Moving

\* Before the dispatch, when start n alone is under way and has nothing in the queue.
Alone(d, w, n) ==
  /\ Calm(d, w) /\ \A m \in Starts : m # n => Fit(d, m) /\ ~Live(d, m)
  /\ \A x \in Journaled(d) : Spent(x.j)
  /\ HasReport(d.disk) => Spent(d.disk)

\* Start n does something, and the others do not.
Goes(d, e, n) ==
  /\ Only(d, e, {"cur", "active", "cancels", "busy", "task", "obj", "start", "writes"})
  /\ ~e.busy.route /\ e.active \notin {"working", "waiting"}
  /\ \A c \in Cancels : e.cancels[c].on = d.cancels[c].on
  /\ \A m \in Starts : m # n => e.start[m].pc = d.start[m].pc /\ e.obj[m] = d.obj[m]
  /\ Fit(e, n)
  /\ \/ e.writes = d.writes
     \/ \E x \in Calls : /\ x.by = "start" /\ x.n = n /\ e.writes = Append(d.writes, x)
                         /\ Spent(x.j) \/ (e.start[n].pc \in {"writing", "claimed"} /\ ~HasReport(x.j))

\* What start n does keeps the time before the dispatch.
LEMMA GoesBefore ==
  ASSUME NEW d, Sound(d), NEW w, NEW n \in Starts, Alone(d, w, n), NEW e, Goes(d, e, n), NEW v,
         \A m \in v : m.kind # "report"
  PROVE  Before(e, v)
<1>1. /\ e.disk = d.disk /\ e.restore = d.restore /\ e.reports = d.reports /\ e.coach = d.coach
  BY DEF Goes, Only, Fields
<1>2. \A x \in Queued(e) :
        x \in Queued(d) \/ (x.by = "start" /\ x.n = n /\ (Spent(x.j) \/ Unspent(e, x)))
  <2>1. CASE e.writes = d.writes
    BY <2>1 DEF Queued
  <2>2. ASSUME NEW x \in Calls, x.by = "start", x.n = n, e.writes = Append(d.writes, x),
               Spent(x.j) \/ (e.start[n].pc \in {"writing", "claimed"} /\ ~HasReport(x.j))
        PROVE  \A y \in Queued(e) :
                 y \in Queued(d) \/ (y.by = "start" /\ y.n = n /\ (Spent(y.j) \/ Unspent(e, y)))
    <3>1. d.writes \in Seq(Calls)
      BY QueuedFacts DEF Sound
    <3>2. Elements(e.writes) = Elements(d.writes) \cup {x}
      BY <2>2, <3>1, AppendFacts
    <3>3. Spent(x.j) \/ Unspent(e, x)
      BY <2>2 DEF Unspent
    <3> QED
      BY <2>2, <3>2, <3>3 DEF Queued
  <2> QED
    BY <2>1, <2>2 DEF Goes
<1>3. Calm(e, v)
  <2>1. \A x \in Queued(e) : x.by \in {"start", "restore"}
    BY <1>2 DEF Alone, Calm
  <2> QED
    BY <1>1, <2>1 DEF Alone, Calm, Goes
<1>4. \A m \in Starts : m # n => Fit(e, m) /\ ~Live(e, m)
  <2> SUFFICES ASSUME NEW m \in Starts, m # n
               PROVE  Fit(e, m) /\ ~Live(e, m)
    OBVIOUS
  <2>1. Fit(d, m) /\ ~Live(d, m) /\ e.start[m].pc = d.start[m].pc /\ e.obj[m] = d.obj[m]
    BY DEF Alone, Goes
  <2> QED
    BY <2>1 DEF Fit, Live, Admitting
<1>5. \A x \in Journaled(e) : Spent(x.j) \/ Unspent(e, x)
  BY <1>2 DEF Journaled, Alone
<1>6. Fit(e, n) /\ (HasReport(e.disk) => Spent(e.disk))
  BY <1>1 DEF Goes, Alone
<1> QED
  BY <1>3, <1>4, <1>5, <1>6 DEF Before

\* A live start that does not write.
LEMMA NowAlone ==
  ASSUME Typed, Starting(dev), Before(dev, wire), NEW n \in Starts, Live(dev, n),
         dev.start[n].pc \notin Writing
  PROVE  Alone(dev, wire, n)
<1>1. Calm(dev, wire) /\ \A m \in Starts : m # n => Fit(dev, m) /\ ~Live(dev, m)
  BY DEF Before
<1>2. \A x \in Journaled(dev) : Spent(x.j)
  <2> SUFFICES ASSUME NEW x \in Journaled(dev), Unspent(dev, x)
               PROVE  FALSE
    BY DEF Before
  <2>1. x \in Queued(dev) /\ x.by = "start" /\ Live(dev, x.n)
    BY DEF Journaled, Unspent, Live, Admitting
  <2>2. x.n \in Starts /\ dev.start[x.n].pc \in Writing
    BY <2>1, QueuedFacts, JournalFacts DEF Typed, Sound, Numbered, Starting
  <2>3. x.n = n
    BY <2>1, <2>2 DEF Before
  <2> QED
    BY <2>2, <2>3
<1> QED
  BY <1>1, <1>2 DEF Alone, Before

\* A live start whose write is done.
LEMMA LandedAlone ==
  ASSUME Typed, Starting(dev), Before(dev, wire), dev.writes # << >>, Head(dev.writes).by = "start",
         NEW n \in Starts, n = Head(dev.writes).n, Live(dev, n), NEW l, l = Landed(dev)
  PROVE  Alone(l, wire, n) /\ (dev.start[n].pc \notin {"writing", "claimed"} => Spent(l.disk))
<1> DEFINE x == Head(dev.writes)
<1>0. Sound(dev)
  BY DEF Typed
<1>1. /\ Sound(l) /\ Only(dev, l, {"disk", "writes"}) /\ Queued(l) \subseteq Queued(dev)
      /\ x \in Queued(dev) /\ l.disk = x.j
  BY <1>0, LandedFacts DEF Cancels
<1>2. l.start = dev.start /\ l.obj = dev.obj /\ l.coach = dev.coach /\ l.busy = dev.busy /\ l.active = dev.active
      /\ l.cancels = dev.cancels /\ l.reports = dev.reports /\ l.restore = dev.restore /\ l.task = dev.task
      /\ l.cur = dev.cur
  BY <1>1 DEF Only, Fields
<1>3. Calm(l, wire)
  BY <1>1, <1>2 DEF Before, Calm
<1>4. \A m \in Starts : m # n => Fit(l, m) /\ ~Live(l, m)
  <2> SUFFICES ASSUME NEW m \in Starts, m # n
               PROVE  Fit(l, m) /\ ~Live(l, m)
    OBVIOUS
  <2>1. Fit(dev, m) /\ ~Live(dev, m)
    BY DEF Before
  <2> QED
    BY <1>2, <2>1 DEF Fit, Live, Admitting
<1>5. \A y \in Queued(l) : y.by = "start" => y.n # n
  BY LandedStarting DEF Typed, StartingBut
<1>6. \A y \in Journaled(l) : Spent(y.j)
  <2> SUFFICES ASSUME NEW y \in Journaled(l), Unspent(dev, y)
               PROVE  FALSE
    BY <1>1 DEF Before, Journaled
  <2>1. y \in Queued(l) /\ y \in Queued(dev) /\ y.by = "start" /\ Live(dev, y.n)
    BY <1>1 DEF Journaled, Unspent, Live, Admitting
  <2>2. y.n \in Starts
    BY <1>0, <2>1, QueuedFacts, JournalFacts DEF Sound, Numbered
  <2>3. y.n = n
    BY <2>1, <2>2 DEF Before
  <2> QED
    BY <1>5, <2>1, <2>3
<1>7. x \in Journaled(dev) /\ (Spent(x.j) \/ Unspent(dev, x))
  BY <1>1 DEF Before, Journaled, Cancels
<1>8. HasReport(l.disk) => Spent(l.disk)
  BY <1>1, <1>7 DEF Unspent
<1>9. dev.start[n].pc \notin {"writing", "claimed"} => Spent(l.disk)
  BY <1>1, <1>7 DEF Unspent
<1> HIDE DEF x
<1> QED
  BY <1>3, <1>4, <1>6, <1>8, <1>9 DEF Alone

\* The catch, a write and the card of a start.
LEMMA CaughtGoes ==
  ASSUME NEW b, Sound(b), NEW n \in Starts, ~b.busy.route, b.active \notin {"working", "waiting"},
         NEW e, e = Caught(b, n)
  PROVE  Goes(b, e, n)
<1>1. /\ Only(b, e, {"busy", "active", "obj", "start", "writes"})
      /\ ~e.busy.reserved /\ e.busy.route = b.busy.route /\ e.active \in {b.active, "failed"}
      /\ \A m \in Starts : m # n => e.start[m] = b.start[m] /\ e.obj[m] = b.obj[m]
      /\ \/ /\ e.start[n].pc = "failing" /\ e.obj[n].phase = "unknown"
            /\ \E x \in Calls : x.by = "start" /\ x.n = n /\ x.j = e.obj[n] /\ e.writes = Append(b.writes, x)
         \/ e.start[n].pc = "done" /\ e.writes = b.writes
  BY CaughtFacts
<1>2. /\ Only(b, e, {"cur", "active", "cancels", "busy", "task", "obj", "start", "writes"})
      /\ e.cancels = b.cancels
  BY <1>1 DEF Only, Fields
<1>3. Fit(e, n)
  BY <1>1 DEF Fit, Live, Admitting, Spent
<1> QED
  BY <1>1, <1>2, <1>3 DEF Goes, Spent

\* A write of a start that is alone.
LEMMA WritesGoes ==
  ASSUME NEW b, Sound(b), NEW n \in Starts, ~b.busy.route, b.active \notin {"working", "waiting"},
         b.busy.reserved, ~HasReport(b.obj[n]), NEW phase, NEW p, NEW e, e = Writes(b, n, phase, p),
         \/ phase = "claiming" /\ p = "writing"
         \/ phase = "claimed" /\ p = "claimed"
         \/ phase = "terminal" /\ p = "lost"
         \/ phase = "dispatching" /\ p = "dispatching" /\ b.cur = n
  PROVE  Goes(b, e, n)
<1>1. phase \in Phases /\ p \in Pcs \ {"done"}
  BY DEF Phases, Pcs
<1>2. /\ Only(b, e, {"obj", "start", "writes"}) /\ e.start[n].pc = p
      /\ \A m \in Starts : m # n => e.start[m] = b.start[m] /\ e.obj[m] = b.obj[m]
      /\ e.obj[n].phase = phase /\ e.obj[n].report = b.obj[n].report
      /\ \E x \in Calls : x.by = "start" /\ x.n = n /\ x.j = e.obj[n] /\ e.writes = Append(b.writes, x)
  BY <1>1, WritesStartFacts
<1>3. /\ Only(b, e, {"cur", "active", "cancels", "busy", "task", "obj", "start", "writes"})
      /\ e.cancels = b.cancels /\ e.busy = b.busy /\ e.active = b.active /\ e.cur = b.cur
  BY <1>2 DEF Only, Fields
<1>4. ~HasReport(e.obj[n])
  BY <1>2 DEF HasReport
<1>5. Fit(e, n)
  BY <1>2, <1>3, <1>4 DEF Fit, Spent
<1>6. Spent(e.obj[n]) \/ p \in {"writing", "claimed"}
  BY <1>2 DEF Spent
<1> QED
  BY <1>2, <1>3, <1>4, <1>5, <1>6 DEF Goes

\* Its card.
LEMMA OpenedGoes ==
  ASSUME NEW b, Sound(b), NEW n \in Starts, ~b.busy.route, b.busy.reserved, ~HasReport(b.obj[n]),
         NEW e, e = Opened(b, n)
  PROVE  Goes(b, e, n)
<1>1. /\ Only(b, e, {"cur", "active", "cancels", "start"}) /\ e.cur = n /\ e.active = "starting"
      /\ e.start[n].pc = "round" /\ \A m \in Starts : m # n => e.start[m] = b.start[m]
      /\ \A c \in Cancels : e.cancels[c].on = b.cancels[c].on
  BY OpenedFacts
<1>2. /\ Only(b, e, {"cur", "active", "cancels", "busy", "task", "obj", "start", "writes"})
      /\ e.busy = b.busy /\ e.obj = b.obj /\ e.writes = b.writes
  BY <1>1 DEF Only, Fields
<1>3. Fit(e, n)
  BY <1>1, <1>2 DEF Fit
<1> QED
  BY <1>1, <1>2, <1>3 DEF Goes

\* The start goes from one place to another.
LEMMA PlaceGoes ==
  ASSUME NEW b, NEW n \in Starts, ~b.busy.route, b.active \notin {"working", "waiting"}, NEW e,
         Only(b, e, {"cur", "active", "task", "start"}), e.active \notin {"working", "waiting"},
         \A m \in Starts : m # n => e.start[m] = b.start[m], Fit(e, n)
  PROVE  Goes(b, e, n)
<1>1. /\ Only(b, e, {"cur", "active", "cancels", "busy", "task", "obj", "start", "writes"})
      /\ e.busy = b.busy /\ e.obj = b.obj /\ e.writes = b.writes /\ e.cancels = b.cancels
  BY DEF Only, Fields
<1> QED
  BY <1>1 DEF Goes

\* The dispatch.
LEMMA DispatchAfter ==
  ASSUME Typed, Starting(dev), Before(dev, wire), seen.dispatches = 0, NEW n \in Starts,
         Submitted(n)
  PROVE  After(dev', wire') /\ seen'.dispatches = 1
<1>0. Sound(dev) /\ seen \in Histories /\ dev.cur # 0 /\ dev.start[n].pc = "creating" /\ wire' = wire
  BY SubmittedFacts DEF Typed
<1>1. Live(dev, n) /\ dev.start[n].pc \notin Writing
  BY <1>0 DEF Live, Admitting, Writing
<1>2. Alone(dev, wire, n) /\ Calm(dev, wire)
  BY <1>1, NowAlone DEF Before
<1>3. dev.task = "ready" /\ dev.coach = "off" /\ Spent(dev.disk) /\ dev.cur = n /\ Spent(dev.obj[n])
  BY <1>0, <1>2 DEF Before, Fit, Calm
<1>4. /\ seen' = [seen EXCEPT !.dispatches = @ + 1, !.may = TRUE]
      /\ dev' = Undoing(dev, n) \/ dev' = Writes(Going(dev), n, "running", "running")
  BY <1>3, SubmittedFacts
<1>5. seen'.dispatches = 1
  BY <1>0, <1>4 DEF Histories
<1>6. \A S : SpentStarts(dev) \subseteq S => Kept(dev, wire, S)
  <2> SUFFICES Kept(dev, wire, SpentStarts(dev))
    BY KeptMore
  <2>1. \A m \in Starts : dev.start[m].pc \in {"running", "undoing", "failing"} => m \in SpentStarts(dev)
    BY DEF Before, Fit, SpentStarts
  <2>2. Elements(dev.reports.queue) = {}
    BY <1>2 DEF Calm, Elements
  <2>3. dev.cur \in SpentStarts(dev)
    BY <1>3 DEF SpentStarts
  <2>4. Within(dev, SpentStarts(dev))
    BY <1>2, <2>1, <2>2, <2>3 DEF Within, Calm, Cancels
  <2>5. Waited(wire, SpentStarts(dev))
    BY <1>2 DEF Calm, Waited
  <2> QED
    BY <2>4, <2>5 DEF Kept
<1>7. ASSUME NEW e,
             Only(dev, e, {"active", "busy", "task", "coach", "cancels", "obj", "start", "writes"}),
             \A m \in Starts : m # n => e.start[m] = dev.start[m] /\ e.obj[m] = dev.obj[m],
             Spent(e.obj[n]), ~Live(e, n),
             \A c \in {"stop", "leave"} : e.cancels[c] = dev.cancels[c],
             \E x \in Calls : (x.by = "undo" \/ (x.by = "start" /\ x.j = e.obj[n]))
                              /\ e.writes = Append(dev.writes, x)
      PROVE  After(e, wire)
  <2>1. SpentStarts(dev) \subseteq SpentStarts(e)
    BY <1>7 DEF SpentStarts
  <2>2. Kept(dev, wire, SpentStarts(e))
    BY <1>6, <2>1
  <2>3. dev.restore.pc # "idle" => Spent(dev.restore.j)
    BY <1>2 DEF Calm
  <2>4. (\A x \in Journaled(dev) : Spent(x.j)) /\ (\A m \in Starts : m # n => ~Live(dev, m))
    BY <1>2 DEF Alone
  <2>5. \A m \in Starts : m # n => e.start[m].pc = dev.start[m].pc
    BY <1>7
  <2> QED
    BY <1>0, <1>3, <1>7, <2>2, <2>3, <2>4, <2>5, ChangeAfter
<1>8. CASE dev' = Undoing(dev, n)
  <2> DEFINE e == Undoing(dev, n)
  <2>1. /\ Only(dev, e, {"busy", "coach", "task", "cancels", "start", "writes"}) /\ e.start[n].pc = "undoing"
        /\ \A m \in Starts : m # n => e.start[m] = dev.start[m]
        /\ \A c \in Cancels : c # "undo" => e.cancels[c] = dev.cancels[c]
        /\ \E x \in Calls : x.by = "undo" /\ x.n = 0 /\ e.writes = Append(dev.writes, x)
    BY <1>0, UndoingFacts
  <2> HIDE DEF e
  <2>2. /\ Only(dev, e, {"active", "busy", "task", "coach", "cancels", "obj", "start", "writes"})
        /\ e.obj = dev.obj /\ ~Live(e, n) /\ \A c \in {"stop", "leave"} : e.cancels[c] = dev.cancels[c]
    BY <2>1 DEF Only, Fields, Live, Admitting, Cancels
  <2>3. After(e, wire)
    BY <1>3, <1>7, <2>1, <2>2
  <2> QED
    BY <1>0, <1>5, <1>8, <2>3 DEF e
<1>9. CASE dev' = Writes(Going(dev), n, "running", "running")
  <2> DEFINE g == Going(dev)
             e == Writes(g, n, "running", "running")
  <2>1. Sound(g) /\ Only(dev, g, {"busy", "coach", "task"})
    BY <1>0, GoingFacts
  <2> HIDE DEF g
  <2>2. "running" \in Phases /\ "running" \in Pcs \ {"done"}
    BY DEF Phases, Pcs
  <2>3. /\ Only(g, e, {"obj", "start", "writes"}) /\ e.start[n].pc = "running"
        /\ \A m \in Starts : m # n => e.start[m] = g.start[m] /\ e.obj[m] = g.obj[m]
        /\ e.obj[n].phase = "running"
        /\ \E x \in Calls : x.by = "start" /\ x.n = n /\ x.j = e.obj[n] /\ e.writes = Append(g.writes, x)
    BY <2>1, <2>2, WritesStartFacts
  <2> HIDE DEF e
  <2>4. g.start = dev.start /\ g.obj = dev.obj /\ g.writes = dev.writes /\ g.cancels = dev.cancels
    BY <2>1 DEF Only, Fields
  <2>5. /\ Only(dev, e, {"active", "busy", "task", "coach", "cancels", "obj", "start", "writes"})
        /\ e.cancels = dev.cancels
    BY <2>1, <2>3, <2>4 DEF Only, Fields
  <2>6. Spent(e.obj[n]) /\ ~Live(e, n)
    BY <2>3 DEF Spent, Live, Admitting
  <2>7. After(e, wire)
    BY <1>7, <2>3, <2>4, <2>5, <2>6
  <2> QED
    BY <1>0, <1>5, <1>9, <2>7 DEF e, g
<1> QED
  BY <1>4, <1>8, <1>9

\* Before the dispatch: a start begins.
LEMMA BeginBefore ==
  ASSUME Typed, Starting(dev), Before(dev, wire), NEW n \in Starts, Begin(n)
  PROVE  Before(dev', wire')
<1>1. /\ Sound(dev) /\ Only(dev, dev', {"obj", "busy", "start"}) /\ dev.writes = << >>
      /\ MayStart(dev.disk) /\ ~Busy /\ dev'.busy.reserved /\ dev'.busy.route = dev.busy.route
      /\ dev'.obj[n] = dev.disk /\ dev'.start[n].pc = "preparing"
      /\ \A m \in Starts : m # n => dev'.start[m] = dev.start[m] /\ dev'.obj[m] = dev.obj[m]
  BY BeginFacts DEF Typed
<1>2. \A m \in Starts : Fit(dev, m) /\ ~Live(dev, m)
  BY <1>1 DEF Before, Fit, Busy
<1>3. Queued(dev) = {}
  BY <1>1 DEF Queued, Elements
<1>4. Alone(dev, wire, n)
  BY <1>2, <1>3 DEF Before, Alone, Journaled
<1>5. ~HasReport(dev.disk)
  BY <1>1 DEF Before, MayStart, Spent
<1>6. Fit(dev', n)
  BY <1>1, <1>5 DEF Fit
<1>7. /\ Only(dev, dev', {"cur", "active", "cancels", "busy", "task", "obj", "start", "writes"})
      /\ dev'.active = dev.active /\ dev'.cancels = dev.cancels /\ dev'.writes = dev.writes
  BY <1>1 DEF Only, Fields
<1>8. Goes(dev, dev', n)
  BY <1>1, <1>6, <1>7 DEF Goes, Before, Calm
<1>9. wire' = wire /\ \A m \in wire : m.kind # "report"
  BY DEF Begin, Before, Calm
<1> QED
  BY <1>1, <1>4, <1>8, <1>9, GoesBefore

\* Before the dispatch: a start goes on.
LEMMA GoesOnBefore ==
  ASSUME Typed, Starting(dev), Before(dev, wire), NEW n \in Starts,
         Prepared(n) \/ Rounded(n) \/ Admitted(n)
  PROVE  Before(dev', wire')
<1>0. /\ Sound(dev) /\ wire' = wire /\ dev.start[n].pc \in {"preparing", "round", "submitting"}
      /\ Calm(dev, wire) /\ Fit(dev, n)
  BY DEF Typed, Before, Prepared, Rounded, Admitted
<1>1. Live(dev, n) /\ dev.start[n].pc \notin Writing
  BY <1>0 DEF Live, Admitting, Writing
<1>2. Alone(dev, wire, n)
  BY <1>1, NowAlone
<1>3. /\ ~dev.busy.route /\ dev.active \notin {"working", "waiting"} /\ \A m \in wire : m.kind # "report"
      /\ dev.busy.reserved /\ ~HasReport(dev.obj[n])
  BY <1>0, <1>1 DEF Calm, Fit
<1>4. SUFFICES Goes(dev, dev', n)
  BY <1>0, <1>2, <1>3, GoesBefore
<1>5. CASE dev' = Caught(dev, n)
  BY <1>0, <1>3, <1>5, CaughtGoes
<1>6. CASE Prepared(n) /\ dev' = Writes(dev, n, "claiming", "writing")
  BY <1>0, <1>3, <1>6, WritesGoes
<1>7. CASE Prepared(n) /\ dev' = Opened(dev, n)
  BY <1>0, <1>3, <1>7, OpenedGoes
<1>8. CASE Rounded(n) /\ dev' = Writes(dev, n, "dispatching", "dispatching")
  <2>1. dev.cur = n
    BY <1>0, <1>8 DEF Rounded, Fit
  <2> QED
    BY <1>0, <1>3, <1>8, <2>1, WritesGoes
<1>9. CASE /\ Admitted(n) /\ Only(dev, dev', {"task", "start"}) /\ dev'.task = "ready"
           /\ dev'.start[n].pc = "creating" /\ \A m \in Starts : m # n => dev'.start[m] = dev.start[m]
  <2>1. Only(dev, dev', {"cur", "active", "task", "start"}) /\ dev'.active = dev.active /\ dev'.busy = dev.busy
        /\ dev'.obj = dev.obj /\ dev'.cur = dev.cur /\ dev'.disk = dev.disk
    BY <1>9 DEF Only, Fields
  <2>2. Fit(dev', n)
    BY <1>0, <1>3, <1>9, <2>1 DEF Admitted, Fit
  <2> QED
    BY <1>3, <1>9, <2>1, <2>2, PlaceGoes
<1> QED
  BY <1>5, <1>6, <1>7, <1>8, <1>9, AdmittedFacts DEF Prepared, Rounded, Writes

\* Before the dispatch: the claim is answered.
LEMMA ClaimsBefore ==
  ASSUME Typed, Starting(dev), Claiming(dev, wire), Before(dev, wire), NEW m \in wire, Claims(m)
  PROVE  Before(dev', wire')
<1> DEFINE n == m.n
<1>1. n \in Starts /\ m \in Asks(wire, "claim") /\ m.kind = "claim" /\ wire' \subseteq (wire \ {m}) \cup {Late(m)}
  BY ClaimsFacts
<1>0. Sound(dev) /\ Calm(dev, wire) /\ Fit(dev, n) /\ dev.start[n].pc = "claiming"
  BY <1>1 DEF Typed, Before, Claiming
<1>2. Live(dev, n) /\ dev.start[n].pc \notin Writing
  BY <1>0 DEF Live, Admitting, Writing
<1>3. Alone(dev, wire, n)
  BY <1>1, <1>2, NowAlone
<1>4. \A x \in wire' : x.kind # "report"
  <2>1. Late(m).kind = "claim"
    BY <1>1, LateFacts DEF Typed, Wired
  <2> QED
    BY <1>0, <1>1, <2>1 DEF Calm
<1>5. ~dev.busy.route /\ dev.active \notin {"working", "waiting"} /\ dev.busy.reserved /\ ~HasReport(dev.obj[n])
  BY <1>0, <1>2 DEF Calm, Fit
<1>6. CASE dev' = Caught(dev, n)
  <2>1. Goes(dev, dev', n)
    BY <1>0, <1>1, <1>5, <1>6, CaughtGoes
  <2> QED
    BY <1>0, <1>1, <1>3, <1>4, <2>1, GoesBefore
<1>7. ASSUME NEW b, Sound(b), Only(dev, b, {"obj"}), b.obj[n].report = dev.obj[n].report,
             \A k \in Starts : k # n => b.obj[k] = dev.obj[k],
             dev' = Writes(b, n, "claimed", "claimed") \/ dev' = Writes(b, n, "terminal", "lost")
      PROVE  Before(dev', wire')
  <2>1. /\ b.disk = dev.disk /\ b.writes = dev.writes /\ b.start = dev.start /\ b.cur = dev.cur /\ b.coach = dev.coach
        /\ b.busy = dev.busy /\ b.task = dev.task /\ b.reports = dev.reports /\ b.restore = dev.restore
        /\ b.active = dev.active /\ b.cancels = dev.cancels
    BY <1>7 DEF Only, Fields
  <2>2. Queued(b) = Queued(dev) /\ Journaled(b) = Journaled(dev) /\ Calm(b, wire)
    BY <1>0, <2>1 DEF Queued, Journaled, Calm
  <2>3. Alone(b, wire, n)
    <3>1. \A k \in Starts : k # n => Fit(b, k) /\ ~Live(b, k)
      BY <1>3, <1>7, <2>1 DEF Alone, Fit, Live
    <3> QED
      BY <1>3, <2>1, <2>2, <3>1 DEF Alone
  <2>4. ~HasReport(b.obj[n])
    BY <1>5, <1>7 DEF HasReport
  <2>5. Goes(b, dev', n)
    BY <1>1, <1>5, <1>7, <2>1, <2>4, WritesGoes
  <2> QED
    BY <1>1, <1>4, <1>7, <2>3, <2>5, GoesBefore
<1> QED
  BY <1>6, <1>7, ClaimsFacts

\* Before the dispatch: a start that has failed is done when that is saved.
LEMMA FailsBefore ==
  ASSUME Typed, Starting(dev), Before(dev, wire), dev.writes # << >>, Head(dev.writes).by = "start",
         NEW n \in Starts, n = Head(dev.writes).n, dev.start[n].pc = "failing", NEW l,
         l = Landed(dev), NEW e,
         Only(l, e, {"active", "start"}), e.active \in {dev.active, "unknown", "failed"},
         e.start[n].pc = "done", \A m \in Starts : m # n => e.start[m] = dev.start[m]
  PROVE  Before(e, wire)
<1> DEFINE x == Head(dev.writes)
<1>0. Sound(dev)
  BY DEF Typed
<1>1. /\ Sound(l) /\ Only(dev, l, {"disk", "writes"}) /\ Queued(l) \subseteq Queued(dev)
      /\ x \in Queued(dev) /\ l.disk = x.j
  BY <1>0, LandedFacts DEF Cancels
<1>2. /\ e.obj = dev.obj /\ e.coach = dev.coach /\ e.busy = dev.busy /\ e.cur = dev.cur
      /\ e.cancels = dev.cancels /\ e.reports = dev.reports /\ e.restore = dev.restore /\ e.task = dev.task
      /\ e.disk = x.j /\ e.writes = l.writes
  BY <1>1 DEF Only, Fields
<1>3. Spent(x.j)
  BY <1>1 DEF Before, Journaled, Cancels, Unspent
<1> HIDE DEF x
<1>4. Queued(e) \subseteq Queued(dev)
  BY <1>1, <1>2 DEF Queued
<1>5. Calm(e, wire)
  BY <1>2, <1>4 DEF Before, Calm
<1>6. \A m \in Starts : Fit(e, m) /\ (Live(e, m) => Live(dev, m))
  <2> SUFFICES ASSUME NEW m \in Starts
               PROVE  Fit(e, m) /\ (Live(e, m) => Live(dev, m))
    OBVIOUS
  <2>1. Fit(dev, m)
    BY DEF Before
  <2>2. CASE m = n
    BY <2>2 DEF Fit, Live, Admitting
  <2>3. CASE m # n
    BY <1>2, <1>3, <2>1, <2>3 DEF Fit, Live
  <2> QED
    BY <2>2, <2>3
<1>7. \A y \in Journaled(e) : Spent(y.j) \/ Unspent(e, y)
  <2> SUFFICES ASSUME NEW y \in Journaled(e), Unspent(dev, y)
               PROVE  Unspent(e, y)
    BY <1>4 DEF Before, Journaled
  <2>1. y \in Queued(dev) /\ y.by = "start" /\ dev.start[y.n].pc \in {"writing", "claimed"}
    BY <1>4 DEF Journaled, Unspent
  <2>2. y.n \in Starts /\ y.n # n
    BY <1>0, <2>1, QueuedFacts, JournalFacts DEF Sound, Numbered
  <2> QED
    BY <2>2 DEF Unspent
<1> QED
  BY <1>2, <1>3, <1>5, <1>6, <1>7 DEF Before

\* Before the dispatch: a write of a start is done.
LEMMA StartLandsBefore ==
  ASSUME Typed, Starting(dev), Before(dev, wire), StartLands
  PROVE  Before(dev', wire')
<1> DEFINE l == Landed(dev)
           n == Head(dev.writes).n
           pc == dev.start[n].pc
<1>1. dev.writes # << >> /\ Head(dev.writes).by = "start" /\ n \in Starts /\ Sound(dev)
  BY StartLandsFacts DEF Typed
<1>2. Sound(l) /\ Only(dev, l, {"disk", "writes"}) /\ Head(dev.writes) \in Queued(dev)
  BY <1>1, LandedFacts
<1>3. pc \in Writing /\ pc # "running" /\ Fit(dev, n) /\ Calm(dev, wire)
  BY <1>1, <1>2 DEF Starting, Before, Fit
<1>4. \/ /\ pc = "writing" /\ wire' = wire \cup {Request("claim", n, NoReport)} /\ Only(l, dev', {"cur", "start"})
         /\ dev'.cur = n /\ dev'.start[n].pc = "claiming"
         /\ \A m \in Starts : m # n => dev'.start[m] = dev.start[m]
      \/ pc \in {"claimed", "lost", "dispatching"} /\ dev' = Caught(l, n) /\ wire' = wire
      \/ pc = "claimed" /\ dev' = Opened(l, n) /\ wire' = wire
      \/ pc = "dispatching" /\ dev' = At(l, n, "submitting") /\ wire' = wire
      \/ /\ pc = "failing" /\ wire' = wire /\ Only(l, dev', {"active", "start"})
         /\ dev'.active \in {dev.active, "unknown", "failed"} /\ dev'.start[n].pc = "done"
         /\ \A m \in Starts : m # n => dev'.start[m] = dev.start[m]
  BY <1>3, StartLandsFacts DEF Writing
<1>5. /\ l.start = dev.start /\ l.obj = dev.obj /\ l.busy = dev.busy /\ l.active = dev.active /\ l.cur = dev.cur
  BY <1>2 DEF Only, Fields
<1>6. CASE pc = "failing"
  BY <1>1, <1>4, <1>6, FailsBefore
<1>7. CASE pc # "failing"
  <2>1. Live(dev, n)
    BY <1>3, <1>7 DEF Writing, Live, Admitting
  <2>2. Alone(l, wire, n) /\ (pc \notin {"writing", "claimed"} => Spent(l.disk))
    BY <1>1, <2>1, LandedAlone
  <2>3. /\ ~l.busy.route /\ l.active \notin {"working", "waiting"} /\ \A m \in wire : m.kind # "report"
        /\ l.busy.reserved /\ ~HasReport(l.obj[n])
    BY <1>3, <1>5, <2>1 DEF Calm, Fit
  <2> HIDE DEF l, n
  <2>4. CASE dev' = Caught(l, n) /\ wire' = wire
    <3>1. Goes(l, dev', n)
      BY <1>1, <1>2, <2>3, <2>4, CaughtGoes
    <3> QED
      BY <1>1, <1>2, <2>2, <2>3, <2>4, <3>1, GoesBefore
  <2>5. CASE dev' = Opened(l, n) /\ wire' = wire
    <3>1. Goes(l, dev', n)
      BY <1>1, <1>2, <2>3, <2>5, OpenedGoes
    <3> QED
      BY <1>1, <1>2, <2>2, <2>3, <2>5, <3>1, GoesBefore
  <2>6. CASE pc = "dispatching" /\ dev' = At(l, n, "submitting") /\ wire' = wire
    <3>1. "submitting" \in Pcs
      BY DEF Pcs
    <3> DEFINE e == At(l, n, "submitting")
    <3>2. /\ Only(l, e, {"start"}) /\ e.start[n].pc = "submitting"
          /\ \A m \in Starts : m # n => e.start[m] = l.start[m]
      BY <1>1, <1>2, <3>1, AtFacts
    <3> HIDE DEF e
    <3>3. /\ Only(l, e, {"cur", "active", "task", "start"}) /\ e.active = l.active /\ e.busy = l.busy
          /\ e.obj = l.obj /\ e.cur = l.cur /\ e.disk = l.disk
      BY <3>2 DEF Only, Fields
    <3>4. dev.cur = n /\ Spent(dev.obj[n])
      BY <1>3, <2>6 DEF Fit
    <3>5. Fit(e, n)
      BY <1>5, <2>2, <2>3, <2>6, <3>2, <3>3, <3>4 DEF Fit
    <3>6. Goes(l, e, n)
      BY <1>1, <2>3, <3>2, <3>3, <3>5, PlaceGoes
    <3> QED
      BY <1>1, <1>2, <2>2, <2>3, <2>6, <3>6, GoesBefore DEF e
  <2>7. CASE /\ wire' = wire \cup {Request("claim", n, NoReport)} /\ Only(l, dev', {"cur", "start"})
             /\ dev'.cur = n /\ dev'.start[n].pc = "claiming"
             /\ \A m \in Starts : m # n => dev'.start[m] = dev.start[m]
    <3>1. /\ Only(l, dev', {"cur", "active", "task", "start"}) /\ dev'.active = l.active /\ dev'.busy = l.busy
          /\ dev'.obj = l.obj
      BY <2>7 DEF Only, Fields
    <3>2. Fit(dev', n)
      BY <2>3, <2>7, <3>1 DEF Fit
    <3>3. Goes(l, dev', n)
      BY <1>1, <1>5, <2>3, <2>7, <3>1, <3>2, PlaceGoes
    <3>4. \A m \in wire' : m.kind # "report"
      BY <2>3, <2>7 DEF Request
    <3> QED
      BY <1>1, <1>2, <2>2, <3>3, <3>4, GoesBefore
  <2> QED
    BY <1>4, <1>7, <2>4, <2>5, <2>6, <2>7
<1> QED
  BY <1>6, <1>7

\* Before the dispatch: the steps of the starts, the dispatch among them.
LEMMA StartsBefore ==
  ASSUME Typed, Starting(dev), Claiming(dev, wire), StartStep, Before(dev, wire),
         seen.dispatches = 0
  PROVE  \/ Before(dev', wire') /\ seen'.dispatches = 0
         \/ After(dev', wire') /\ seen'.dispatches = 1
<1>1. CASE UndoLands
  <2>1. dev.writes # << >> /\ Head(dev.writes).by = "undo"
    BY <1>1, UndoLandsFacts
  <2>2. Head(dev.writes) \in Queued(dev)
    BY <2>1, LandedFacts DEF Typed
  <2> QED
    BY <2>1, <2>2 DEF Before, Calm
<1>2. CASE StartLands
  BY <1>2, StartLandsBefore DEF StartLands
<1>3. ASSUME NEW n \in Starts, Begin(n)
      PROVE  Before(dev', wire') /\ seen'.dispatches = 0
  BY <1>3, BeginBefore DEF Begin
<1>4. ASSUME NEW n \in Starts, Prepared(n) \/ Rounded(n) \/ Admitted(n)
      PROVE  Before(dev', wire') /\ seen'.dispatches = 0
  BY <1>4, GoesOnBefore DEF Prepared, Rounded, Admitted
<1>5. ASSUME NEW n \in Starts, Submitted(n)
      PROVE  After(dev', wire') /\ seen'.dispatches = 1
  BY <1>5, DispatchAfter
<1>6. ASSUME NEW m \in wire, Claims(m)
      PROVE  Before(dev', wire') /\ seen'.dispatches = 0
  BY <1>6, ClaimsBefore DEF Claims
<1> QED
  BY <1>1, <1>2, <1>3, <1>4, <1>5, <1>6 DEF StartStep

\* Before the dispatch: the restore writes a journal that is spent.
LEMMA RestoredBefore ==
  ASSUME NEW d, NEW w, Sound(d), Before(d, w), NEW e, NEW v, Only(d, e, {"restore", "writes"}),
         e.restore.pc # "idle" => Spent(e.restore.j),
         \/ e.writes = d.writes
         \/ \E x \in Calls : x.by = "restore" /\ Spent(x.j) /\ e.writes = Append(d.writes, x),
         \A m \in v : m.kind # "report"
  PROVE  Before(e, v)
<1>1. /\ e.disk = d.disk /\ e.obj = d.obj /\ e.start = d.start /\ e.cur = d.cur /\ e.reports = d.reports
      /\ e.cancels = d.cancels /\ e.coach = d.coach /\ e.active = d.active /\ e.busy = d.busy /\ e.task = d.task
  BY DEF Only, Fields
<1>2. \A x \in Queued(e) : x \in Queued(d) \/ (x.by = "restore" /\ Spent(x.j))
  <2>1. CASE e.writes = d.writes
    BY <2>1 DEF Queued
  <2>2. ASSUME NEW x \in Calls, x.by = "restore", Spent(x.j), e.writes = Append(d.writes, x)
        PROVE  \A y \in Queued(e) : y \in Queued(d) \/ (y.by = "restore" /\ Spent(y.j))
    <3>1. d.writes \in Seq(Calls)
      BY QueuedFacts DEF Sound
    <3>2. Elements(e.writes) = Elements(d.writes) \cup {x}
      BY <2>2, <3>1, AppendFacts
    <3> QED
      BY <2>2, <3>2 DEF Queued
  <2> QED
    BY <2>1, <2>2
<1>3. Calm(e, v)
  BY <1>1, <1>2 DEF Before, Calm
<1>4. \A n \in Starts : Fit(e, n) /\ (Live(e, n) <=> Live(d, n))
  BY <1>1 DEF Before, Fit, Live
<1>5. \A x \in Journaled(e) : Spent(x.j) \/ Unspent(e, x)
  BY <1>1, <1>2 DEF Before, Journaled, Unspent
<1> QED
  BY <1>1, <1>3, <1>4, <1>5 DEF Before

\* Before the dispatch: what the restore wrote is in the file.
LEMMA LandedBefore ==
  ASSUME NEW d, NEW w, Sound(d), Before(d, w), d.writes # << >>, Head(d.writes).by = "restore"
  PROVE  Before(Landed(d), w)
<1> DEFINE e == Landed(d)
           x == Head(d.writes)
<1>1. /\ Only(d, e, {"disk", "writes"}) /\ Queued(e) \subseteq Queued(d) /\ x \in Queued(d) /\ e.disk = x.j
  BY LandedFacts DEF Cancels
<1> HIDE DEF e
<1>2. /\ e.obj = d.obj /\ e.start = d.start /\ e.cur = d.cur /\ e.reports = d.reports /\ e.restore = d.restore
      /\ e.cancels = d.cancels /\ e.coach = d.coach /\ e.active = d.active /\ e.busy = d.busy /\ e.task = d.task
  BY <1>1 DEF Only, Fields
<1>3. Spent(e.disk)
  BY <1>1 DEF Before, Journaled, Cancels, Unspent
<1>4. Calm(e, w)
  BY <1>1, <1>2 DEF Before, Calm
<1>5. \A n \in Starts : Fit(e, n) /\ (Live(e, n) <=> Live(d, n))
  BY <1>2, <1>3 DEF Before, Fit, Live
<1>6. \A y \in Journaled(e) : Spent(y.j) \/ Unspent(e, y)
  BY <1>1, <1>2 DEF Before, Journaled, Unspent
<1>7. Before(e, w)
  BY <1>2, <1>3, <1>4, <1>5, <1>6 DEF Before
<1> QED
  BY <1>7 DEF e

\* Before the dispatch: what a restore of the file is about is spent.
LEMMA FoundBefore ==
  ASSUME NEW d, NEW w, Sound(d), Before(d, w), NEW e, e = Restored(d), NEW v,
         \A m \in v : m.kind # "report"
  PROVE  Before(e, v)
<1>1. /\ Only(d, e, {"restore", "writes"})
      /\ \/ /\ e.restore.j.phase = "unknown"
            /\ \E x \in Calls : x.by = "restore" /\ x.n = 0 /\ x.j = e.restore.j
                                /\ e.writes = Append(d.writes, x)
         \/ e.restore = [pc |-> "sending", j |-> d.disk] /\ HasReport(d.disk) /\ e.writes = d.writes
         \/ e = d
  BY RestoredFacts
<1>2. e.restore.pc # "idle" => Spent(e.restore.j)
  BY <1>1 DEF Before, Calm, Spent
<1>3. \/ e.writes = d.writes
      \/ \E x \in Calls : x.by = "restore" /\ Spent(x.j) /\ e.writes = Append(d.writes, x)
  BY <1>1 DEF Spent
<1> QED
  BY <1>1, <1>2, <1>3, RestoredBefore

\* Before the dispatch: the steps of the restore, a crash and the others.
LEMMA RestoreBefore ==
  ASSUME Typed, Restoring(dev, wire), RestoreStep \/ Restart \/ Outside, Before(dev, wire)
  PROVE  Before(dev', wire') /\ seen'.dispatches = seen.dispatches
<1>0. /\ Sound(dev) /\ (dev.restore.pc # "idle" => Spent(dev.restore.j)) /\ seen \in Histories
      /\ \A m \in wire : m.kind # "report" /\ m \in Requests
  BY DEF Typed, Before, Calm, Wired
<1>1. CASE RestoreLands
  <2> DEFINE l == Landed(dev)
  <2>1. /\ dev.writes # << >> /\ Head(dev.writes).by = "restore" /\ Only(l, dev', {"restore"})
        /\ \/ dev'.restore.pc = "sending" /\ dev'.restore.j = dev.restore.j
              /\ wire' = wire \cup RestoreWire(dev') /\ dev.restore.pc = "storing"
           \/ dev'.restore.pc = "idle" /\ wire' = wire
    BY <1>1, RestoreLandsFacts
  <2>2. Sound(l) /\ Before(l, wire)
    BY <1>0, <2>1, LandedFacts, LandedBefore
  <2> HIDE DEF l
  <2>3. Only(l, dev', {"restore", "writes"}) /\ dev'.writes = l.writes
    BY <2>1 DEF Only, Fields
  <2>4. dev'.restore.pc # "idle" => Spent(dev'.restore.j)
    BY <1>0, <2>1
  <2>5. dev' \in Device
    BY <1>1, RestoreLandsFacts DEF Sound
  <2>6. \A m \in wire' : m.kind # "report"
    BY <1>0, <2>1, <2>5, RestoreWireFacts
  <2>7. Before(dev', wire')
    BY <2>2, <2>3, <2>4, <2>6, RestoredBefore
  <2> QED
    BY <1>1, <2>7 DEF RestoreLands
<1>2. ASSUME NEW m \in wire, RestoreReports(m)
      PROVE  Before(dev', wire') /\ seen'.dispatches = seen.dispatches
  <2>1. /\ Only(dev, dev', {"restore", "writes"}) /\ m \in Asks(wire, "restore")
        /\ wire' \subseteq (wire \ {m}) \cup {Late(m)}
        /\ \/ /\ dev'.restore.j.phase = dev.restore.j.phase
              /\ \E x \in Calls : x.by = "restore" /\ x.n = 0 /\ x.j = dev'.restore.j
                                  /\ dev'.writes = Append(dev.writes, x)
           \/ dev'.restore.pc = "idle" /\ dev'.writes = dev.writes
    BY <1>2, RestoreReportsFacts
  <2>2. Spent(dev.restore.j)
    BY <1>0, <2>1 DEF Restoring
  <2>3. dev'.restore.pc # "idle" => Spent(dev'.restore.j)
    BY <2>1, <2>2 DEF Spent
  <2>4. \/ dev'.writes = dev.writes
        \/ \E x \in Calls : x.by = "restore" /\ Spent(x.j) /\ dev'.writes = Append(dev.writes, x)
    BY <2>1, <2>2 DEF Spent
  <2>5. \A x \in wire' : x.kind # "report"
    BY <1>0, <2>1, LateFacts
  <2>6. Before(dev', wire')
    BY <1>0, <2>1, <2>3, <2>4, <2>5, RestoredBefore
  <2> QED
    BY <1>2, <2>6 DEF RestoreReports
<1>3. CASE SignIn
  <2>1. dev' = Restored(dev) /\ wire' = wire \cup RestoreWire(dev') /\ dev' \in Device
    BY <1>3, SignInFacts DEF Sound
  <2>2. \A m \in wire' : m.kind # "report"
    BY <1>0, <2>1, RestoreWireFacts
  <2>3. Before(dev', wire')
    BY <1>0, <2>1, <2>2, FoundBefore
  <2> QED
    BY <1>3, <2>3 DEF SignIn
<1>4. CASE Outside
  <2>1. dev' = dev /\ wire' \subseteq wire /\ seen' = seen
    BY <1>4 DEF Outside, SessionCloses, OtherClaims, Return, ServeLate
  <2>2. Only(dev, dev', {"restore", "writes"}) /\ dev'.writes = dev.writes
    BY <2>1 DEF Only
  <2>3. Before(dev', wire')
    BY <1>0, <2>1, <2>2, RestoredBefore
  <2> QED
    BY <2>1, <2>3
<1>5. CASE Restart
  <2>1. PICK b : b = Begun(dev) /\ dev' = Restored(b)
    BY <1>5, RestartFacts
  <2>2. dev \in Device /\ dev' \in Device
    BY <1>0, <1>5, RestartFacts DEF Sound
  <2>3. /\ Sound(b) /\ b.disk = dev.disk /\ b.writes = << >> /\ b.coach = "off" /\ b.active = "none"
        /\ b.busy = Free /\ b.reports.queue = << >> /\ b.restore.pc = "idle"
        /\ \A c \in Cancels : ~b.cancels[c].on
        /\ \A n \in Starts : b.start[n].pc \in {"unused", "done"}
    BY <2>1, <2>2, BegunFacts
  <2>4. Queued(b) = {}
    BY <2>3 DEF Queued, Elements
  <2>5. Calm(b, {})
    BY <2>3, <2>4 DEF Calm, Free
  <2>6. \A n \in Starts : Fit(b, n) /\ ~Live(b, n)
    BY <2>3 DEF Fit, Live, Admitting
  <2>7. Before(b, {})
    BY <2>3, <2>4, <2>5, <2>6 DEF Before, Journaled
  <2>8. PICK late : wire' = late \cup RestoreWire(dev') /\ \A m \in late : \E x \in wire : m = Late(x)
    BY <1>5, RestartFacts
  <2>9. \A m \in wire' : m.kind # "report"
    BY <1>0, <2>2, <2>8, RestoreWireFacts, LateFacts
  <2>10. Before(dev', wire')
    BY <2>1, <2>3, <2>7, <2>9, FoundBefore
  <2>11. seen'.dispatches = seen.dispatches
    BY <1>0, <1>5 DEF Restart, Histories
  <2> QED
    BY <2>10, <2>11
<1> QED
  BY <1>1, <1>2, <1>3, <1>4, <1>5 DEF RestoreStep

\* A student who stopped an explanation early has done so for good.
LEMMA EarlyStays ==
  ASSUME Typed, Next, seen.early
  PROVE  seen'.early
<1>1. seen \in Histories
  BY DEF Typed
<1>2. CASE UndoLands
  BY <1>1, <1>2, UndoLandsFacts DEF Histories
<1>3. ASSUME NEW n \in Starts, Submitted(n)
      PROVE  seen'.early
  BY <1>1, <1>3, SubmittedFacts DEF Histories
<1>4. CASE StartLands \/ \E n \in Starts : Begin(n) \/ Prepared(n) \/ Rounded(n) \/ Admitted(n)
  BY <1>4 DEF StartLands, Begin, Prepared, Rounded, Admitted
<1>5. CASE \E m \in wire : Claims(m)
  BY <1>5 DEF Claims
<1>6. CASE Moving
  BY <1>6, MovingLessens DEF Recalled
<1>7. CASE RestoreStep \/ Outside
  BY <1>7 DEF RestoreStep, Outside, RestoreLands, SignIn, RestoreReports, SessionCloses,
     OtherClaims, Return, ServeLate
<1>8. CASE Restart
  BY <1>1, <1>8 DEF Restart, Histories
<1> QED
  BY <1>2, <1>3, <1>4, <1>5, <1>6, <1>7, <1>8, StepKinds DEF StartStep

\* Every step.
LEMMA DispatchedStep ==
  ASSUME Base, Dispatched, [Next]_vars
  PROVE  Dispatched'
<1>0. Typed /\ Starting(dev) /\ Claiming(dev, wire) /\ Restoring(dev, wire)
  BY DEF Base
<1>1. CASE UNCHANGED vars
  BY <1>1 DEF vars, Dispatched, Before, After, Calm, Fit, Live, Kept, Within, Waited, Queued,
     Journaled,
     SpentStarts, Unspent
<1>2. CASE Next
  <2>1. CASE seen.early
    BY <1>0, <1>2, <2>1, EarlyStays DEF Dispatched
  <2>2. CASE seen.dispatches = 0 /\ Before(dev, wire)
    BY <1>0, <1>2, <2>2, MovingBefore, StartsBefore, RestoreBefore, StepKinds DEF Dispatched
  <2>3. CASE seen.dispatches = 1 /\ After(dev, wire)
    <3>1. CASE Moving
      <4>1. After(dev', wire')
        BY <1>0, <2>3, <3>1, MovingAfter
      <4>2. seen'.dispatches = seen.dispatches
        BY <1>0, <3>1, MovingLessens DEF Recalled
      <4> QED
        BY <2>3, <4>1, <4>2 DEF Dispatched
    <3> QED
      BY <1>0, <1>2, <2>3, <3>1, StartsAfter, RestoreAfter, RestartAfter, StepKinds DEF Dispatched
  <2> QED
    BY <2>1, <2>2, <2>3 DEF Dispatched
<1> QED
  BY <1>1, <1>2

\* It holds at the start.
LEMMA DispatchedInit == Init => Dispatched
<1> SUFFICES ASSUME Init
             PROVE  Before(dev, wire) /\ seen.dispatches = 0
  BY DEF Dispatched
<1>1. wire = {} /\ seen.dispatches = 0
  BY DEF Init
<1>2. /\ dev.disk = NoJournal /\ dev.writes = << >> /\ dev.coach = "off" /\ ~dev.busy.route /\ dev.active = "none"
      /\ dev.reports.queue = << >> /\ dev.restore.pc = "idle" /\ \A c \in Cancels : ~dev.cancels[c].on
      /\ \A n \in Starts : dev.start[n].pc = "unused"
  BY DEF Init, Fresh, Free, NoCancel
<1>3. Queued(dev) = {}
  BY <1>2 DEF Queued, Elements
<1>4. ~HasReport(dev.disk)
  BY <1>2, JournalFacts DEF HasReport
<1>5. \A n \in Starts : Fit(dev, n) /\ ~Live(dev, n)
  BY <1>2 DEF Fit, Live, Admitting
<1>6. Calm(dev, wire)
  BY <1>1, <1>2, <1>3 DEF Calm
<1> QED
  BY <1>1, <1>3, <1>4, <1>5, <1>6 DEF Before, Journaled

\* It holds in every state.
LEMMA DispatchedAlways == Spec => []Dispatched
<1>1. Base /\ Base' /\ Dispatched /\ [Next]_vars => Dispatched'
  BY DispatchedStep
<1> QED
  BY <1>1, DispatchedInit, BaseAlways, PTL DEF Spec

\* An explanation is dispatched once, whatever restarts, lost answers and second computers do,
\* unless the student stopped it before its dispatch (Explanation's NeverReplayed).
THEOREM NeverReplayedHolds == Spec => []NeverReplayed
<1>1. Dispatched => NeverReplayed
  BY DEF Dispatched, NeverReplayed
<1> QED
  BY <1>1, DispatchedAlways, PTL

(***************************************************************************)
(* Nobody has told the teacher of an end: not before the dispatch, and     *)
(* while there is a coach only behind the call that will end it.           *)
(***************************************************************************)
UndoAhead(d) == d.coach \in {"round", "consuming", "texting"} /\ UndoFirst(d.writes)

\* The server has heard of no end, and nothing on its way to it speaks of one.
Clear(d, w, r) ==
  /\ Plain(r.status) /\ Quiet(d)
  /\ \A m \in w : m.kind # "claim" => Plain(m.report.status)

\* Start n is the first: the file and what it writes before its dispatch are not spent.
First(d, n) ==
  /\ ~Spent(d.disk)
  /\ \A x \in Journaled(d) :
       x.by = "start" /\ x.n = n /\ (d.start[n].pc \in {"writing", "claimed"} => ~Spent(x.j))

\* Before the dispatch.
Untold(d, w, r) ==
  /\ ~Spent(d.disk) => Clear(d, w, r) /\ ~HasReport(d.disk)
  /\ \A n \in Starts :
       IF d.start[n].pc \in {"submitting", "creating"} THEN Clear(d, w, r) \/ d.start[n].stale
       ELSE Live(d, n) => First(d, n)

\* After it.
Heard(d, w, r, h) ==
  d.coach # "off" =>
    /\ d.busy.route /\ d.task # "none"
    /\ Clear(d, w, r) \/ UndoAhead(d)
    /\ h = "out" => UndoAhead(d) /\ ~d.cancels["stop"].on /\ ~d.cancels["leave"].on

\* One or the other, but for an early stop and a task that nobody finishes.
Unheard ==
  \/ seen.early \/ seen.lost
  \/ (seen.dispatches = 0 /\ Untold(dev, wire, server))
  \/ (seen.dispatches = 1 /\ Heard(dev, wire, server, here))

\* Rows without an end stay so, but for a report of one.
LEMMA PlainRows ==
  ASSUME server \in Rows, Plain(server.status)
  PROVE  /\ Plain(ClaimRows.status)
         /\ \A r \in [status : Statuses, rev : Nat] : Plain(r.status) => Plain(ReportRows(r).status)
  BY DEF Rows, ClaimRows, ReportRows, Plain, Final, Ended

\* A request that is answered or given up.
LEMMA PlainWithout ==
  ASSUME NEW w, \A m \in w : m \in Requests, NEW m \in w, NEW v,
         v \subseteq (w \ {m}) \cup {Late(m)},
         \A x \in w : x.kind # "claim" => Plain(x.report.status)
  PROVE  \A x \in v : x.kind # "claim" => Plain(x.report.status)
<1>1. Late(m).kind = m.kind /\ Late(m).report = m.report
  BY LateFacts
<1> QED
  BY <1>1

\* A call that is done speaks of no end.
LEMMA LandedQuiet ==
  ASSUME NEW d, Sound(d), d.writes # << >>, Quiet(d)
  PROVE  Quiet(Landed(d))
<1>1. Only(d, Landed(d), {"disk", "writes"}) /\ Queued(Landed(d)) \subseteq Queued(d)
  BY LandedFacts
<1> QED
  BY <1>1 DEF Quiet, Only, Fields

\* Before the dispatch: nothing moves but the card and the generation.
LEMMA MovingCalm ==
  ASSUME Typed, Moving, Before(dev, wire), seen.dispatches = 0
  PROVE  \/ seen'.early
         \/ /\ Only(dev, dev', {"active", "cancels", "start"}) /\ (Quiet(dev) => Quiet(dev'))
            /\ \A n \in Starts : /\ dev'.start[n].pc = dev.start[n].pc
                                 /\ Live(dev, n) /\ dev.start[n].stale => dev'.start[n].stale
            /\ wire' = wire /\ server' = server
<1>0. Sound(dev) /\ Calm(dev, wire) /\ seen \in Histories /\ dev.active \in Cards
  BY DeviceIs DEF Typed, Before, Sound
<1>1. dev.coach = "off" /\ ~dev.busy.route /\ \A m \in wire : m.kind # "report"
  BY <1>0 DEF Calm
<1>2. dev.writes # << >> => Head(dev.writes).by \in {"start", "restore"}
  BY <1>0, LandedFacts DEF Calm
<1>3. ASSUME Coach \/ CoachLands \/ TerminalLands \/ ReportLands \/ Continue \/ StopTask
      PROVE  FALSE
  BY <1>1, <1>2, <1>3
     DEF Coach, CoachRound, ModelAnswers, CoachLands, TerminalLands, ReportLands, Continue,
        StopTask, Lands
<1>4. ASSUME NEW c \in Cancels \ {"undo"}, CancelLands(c)
      PROVE  FALSE
  BY <1>2, <1>4 DEF CancelLands, Lands, Cancels
<1>5. ASSUME NEW m \in wire, Reports(m)
      PROVE  FALSE
  BY <1>1, <1>5 DEF Reports
<1>6. CASE BeginRefused
  <2>1. Only(dev, dev', {"active"}) /\ (Quiet(dev) => Quiet(dev')) /\ wire' = wire /\ server' = server
    BY <1>6, BeginRefusedFacts DEF BeginRefused
  <2> QED
    BY <2>1 DEF Only, Fields
<1>7. CASE ShowAgain
  <2>1. Only(dev, dev', {"active", "cancels"}) /\ (Quiet(dev) => Quiet(dev')) /\ wire' = wire /\ server' = server
    BY <1>7, ShowAgainFacts DEF ShowAgain
  <2> QED
    BY <2>1 DEF Only, Fields
<1>8. ASSUME dev.active = "starting", Leave \/ SignOut
      PROVE  seen'.early
  BY <1>0, <1>8 DEF Leave, SignOut, Histories
<1>9. dev.active # "starting" => dev.active \in Ended \cup {"none"}
  BY <1>0 DEF Calm, Cards
<1>10. CASE Stop
  BY <1>0, <1>9, <1>10 DEF Stop, Histories
<1>11. ASSUME NEW a, Sound(a), Only(dev, a, {"coach"}), a.coach = dev.coach, Quiet(dev) => Quiet(a),
              dev' \in Invalidated(a), wire' = wire, server' = server, dev.active # "starting"
       PROVE  /\ Only(dev, dev', {"active", "cancels", "start"}) /\ (Quiet(dev) => Quiet(dev'))
              /\ \A n \in Starts : /\ dev'.start[n].pc = dev.start[n].pc
                                   /\ Live(dev, n) /\ dev.start[n].stale => dev'.start[n].stale
  <2>1. a.active = dev.active /\ a.start = dev.start
    BY <1>11 DEF Only, Fields
  <2>2. dev' = Card(Staled(a), "none")
    BY <1>9, <1>11, <2>1 DEF Invalidated
  <2> DEFINE s == Staled(a)
  <2>3. /\ Sound(s) /\ (Quiet(a) => Quiet(s)) /\ Only(a, s, {"start"})
        /\ \A n \in Starts : /\ s.start[n].pc = a.start[n].pc
                             /\ s.start[n].stale = (a.start[n].pc \notin {"unused", "done"})
    BY <1>11, StaledFacts
  <2> HIDE DEF s
  <2>4. "none" \in Cards
    BY DEF Cards
  <2> DEFINE e == Card(s, "none")
  <2>5. (Quiet(s) => Quiet(e)) /\ Only(s, e, {"active", "cancels"})
    BY <2>3, <2>4, CardFacts
  <2> HIDE DEF e
  <2>6. Only(dev, e, {"active", "cancels", "start"}) /\ e.start = s.start
    BY <1>11, <2>3, <2>5 DEF Only, Fields
  <2> QED
    BY <1>11, <2>1, <2>2, <2>3, <2>5, <2>6 DEF Live, Admitting, e, s
<1>12. CASE Leave
  <2>1. Only(dev, dev, {"coach"}) /\ dev' \in Invalidated(dev) /\ wire' = wire /\ server' = server
    BY <1>12 DEF Leave, Only
  <2> QED
    BY <1>0, <1>8, <1>11, <1>12, <2>1
<1>13. CASE SignOut
  <2> DEFINE a == Aborted(dev)
  <2>1. Sound(a) /\ Only(dev, a, {"coach"}) /\ a.coach = dev.coach /\ (Quiet(dev) => Quiet(a))
    BY <1>0, <1>1, AbortedFacts
  <2>2. dev' \in Invalidated(a) /\ wire' = wire /\ server' = server
    BY <1>13 DEF SignOut
  <2> HIDE DEF a
  <2> QED
    BY <1>8, <1>11, <1>13, <2>1, <2>2
<1> QED
  BY <1>3, <1>4, <1>5, <1>6, <1>7, <1>10, <1>12, <1>13 DEF Moving

\* Before the dispatch: the file and the queue stay.
LEMMA UntoldKept ==
  ASSUME NEW d, NEW w, NEW r, Untold(d, w, r), NEW e, NEW v, NEW s, e.disk = d.disk,
         e.writes = d.writes,
         \A n \in Starts : /\ e.start[n].pc = d.start[n].pc
                           /\ Live(d, n) /\ d.start[n].stale => e.start[n].stale,
         Clear(d, w, r) => Clear(e, v, s)
  PROVE  Untold(e, v, s)
<1>1. Journaled(e) = Journaled(d)
  BY DEF Journaled, Queued
<1>2. \A n \in Starts : (First(d, n) => First(e, n)) /\ (Live(e, n) <=> Live(d, n))
  BY <1>1 DEF First, Live
<1>3. {"submitting", "creating"} \subseteq Admitting
  BY DEF Admitting
<1> QED
  BY <1>2, <1>3 DEF Untold, Live

\* Before the dispatch: the steps that move the device.
LEMMA MovingUntold ==
  ASSUME Typed, Moving, Before(dev, wire), Untold(dev, wire, server), seen.dispatches = 0
  PROVE  seen'.early \/ Untold(dev', wire', server')
<1>1. CASE ~seen'.early
  <2>1. /\ Only(dev, dev', {"active", "cancels", "start"}) /\ (Quiet(dev) => Quiet(dev'))
        /\ \A n \in Starts : /\ dev'.start[n].pc = dev.start[n].pc
                             /\ Live(dev, n) /\ dev.start[n].stale => dev'.start[n].stale
        /\ wire' = wire /\ server' = server
    BY <1>1, MovingCalm
  <2>2. dev'.disk = dev.disk /\ dev'.writes = dev.writes
    BY <2>1 DEF Only, Fields
  <2>3. Clear(dev, wire, server) => Clear(dev', wire', server')
    BY <2>1 DEF Clear
  <2> QED
    BY <2>1, <2>2, <2>3, UntoldKept
<1> QED
  BY <1>1

\* Start n does something: it leaves the file alone, and what it saves before its dispatch is not
\* spent.
Steps(d, e, n) ==
  /\ e.disk = d.disk /\ \A m \in Starts : m # n => e.start[m].pc = d.start[m].pc
  /\ \/ e.writes = d.writes
     \/ \E x \in Calls : /\ x.by = "start" /\ x.n = n /\ e.writes = Append(d.writes, x)
                         /\ e.start[n].pc \in {"writing", "claimed"} => ~Spent(x.j)

\* The only start under way does something.
LEMMA StepUntold ==
  ASSUME NEW d, Sound(d), NEW e, NEW n \in Starts, NEW v, NEW r,
         \A m \in Starts : m # n => ~Live(d, m),
         Steps(d, e, n), ~Spent(d.disk) => Clear(e, v, r) /\ ~HasReport(d.disk),
         e.start[n].pc \in {"submitting", "creating"} => Clear(e, v, r) \/ e.start[n].stale,
         Live(e, n) /\ e.start[n].pc \notin {"submitting", "creating"} => ~Spent(d.disk) /\ Journaled(d) = {}
  PROVE  Untold(e, v, r)
<1>1. e.disk = d.disk /\ \A m \in Starts : m # n => ~Live(e, m)
  BY DEF Steps, Live
<1>2. {"submitting", "creating"} \subseteq Admitting
  BY DEF Admitting
<1>3. ASSUME Live(e, n), e.start[n].pc \notin {"submitting", "creating"}
      PROVE  First(e, n)
  <2>1. CASE e.writes = d.writes
    <3>1. Journaled(e) = {}
      BY <1>3, <2>1 DEF Journaled, Queued
    <3> QED
      BY <1>1, <1>3, <3>1 DEF First
  <2>2. ASSUME NEW x \in Calls, x.by = "start", x.n = n, e.writes = Append(d.writes, x),
               e.start[n].pc \in {"writing", "claimed"} => ~Spent(x.j)
        PROVE  First(e, n)
    <3>1. d.writes \in Seq(Calls)
      BY QueuedFacts DEF Sound
    <3>2. Elements(e.writes) = Elements(d.writes) \cup {x}
      BY <2>2, <3>1, AppendFacts
    <3>3. \A y \in Journaled(e) : y = x
      BY <1>3, <3>2 DEF Journaled, Queued
    <3> QED
      BY <1>1, <1>3, <2>2, <3>3 DEF First
  <2> QED
    BY <2>1, <2>2 DEF Steps
<1> QED
  BY <1>1, <1>2, <1>3 DEF Untold, Live

\* The catch, a write and the card of a start do such a thing.
LEMMA CaughtSteps ==
  ASSUME NEW b, Sound(b), NEW n \in Starts
  PROVE  LET e == Caught(b, n) IN Steps(b, e, n) /\ ~Live(e, n) /\ (Quiet(b) => Quiet(e))
<1> DEFINE e == Caught(b, n)
<1>1. /\ (Quiet(b) => Quiet(e)) /\ Only(b, e, {"busy", "active", "obj", "start", "writes"})
      /\ \A m \in Starts : m # n => e.start[m] = b.start[m] /\ e.obj[m] = b.obj[m]
      /\ \/ /\ e.start[n].pc = "failing"
            /\ \E x \in Calls : x.by = "start" /\ x.n = n /\ e.writes = Append(b.writes, x)
         \/ e.start[n].pc = "done" /\ e.writes = b.writes
  BY CaughtFacts
<1> HIDE DEF e
<1>2. e.disk = b.disk
  BY <1>1 DEF Only, Fields
<1>3. Steps(b, e, n) /\ ~Live(e, n) /\ (Quiet(b) => Quiet(e))
  BY <1>1, <1>2 DEF Steps, Live, Admitting
<1> QED
  BY <1>3 DEF e

\* A write.
LEMMA WritesSteps ==
  ASSUME NEW b, Sound(b), NEW n \in Starts, NEW phase \in Phases, NEW p \in Pcs \ {"done"},
         p \in {"writing", "claimed"} => phase \in {"claiming", "claimed"}, NEW e, e = Writes(b, n, phase, p)
  PROVE  /\ Steps(b, e, n) /\ (Quiet(b) => Quiet(e)) /\ e.start[n].pc = p
         /\ e.start[n].stale = b.start[n].stale
<1>1. /\ Only(b, e, {"obj", "start", "writes"}) /\ (Quiet(b) => Quiet(e))
      /\ e.start[n].pc = p /\ e.start[n].stale = b.start[n].stale
      /\ \A m \in Starts : m # n => e.start[m] = b.start[m] /\ e.obj[m] = b.obj[m]
      /\ e.obj[n].phase = phase
      /\ \E x \in Calls : x.by = "start" /\ x.n = n /\ x.j = e.obj[n] /\ e.writes = Append(b.writes, x)
  BY WritesStartFacts
<1>2. e.disk = b.disk
  BY <1>1 DEF Only, Fields
<1>3. p \in {"writing", "claimed"} => ~Spent(e.obj[n])
  BY <1>1 DEF Spent
<1> QED
  BY <1>1, <1>2, <1>3 DEF Steps

\* The card, and any other place.
LEMMA PlaceSteps ==
  ASSUME NEW b, NEW e, NEW n,
         Only(b, e, {"cur", "active", "cancels", "task", "busy", "obj", "start"}),
         \A m \in Starts : m # n => e.start[m] = b.start[m]
  PROVE  Steps(b, e, n)
<1>1. e.disk = b.disk /\ e.writes = b.writes
  BY DEF Only, Fields
<1> QED
  BY <1>1 DEF Steps

\* A start under way that does not wait for a write has none in the queue.
LEMMA FirstNow ==
  ASSUME Typed, Starting(dev), NEW n \in Starts, First(dev, n), dev.start[n].pc \notin Writing
  PROVE  Journaled(dev) = {}
<1>1. ASSUME NEW x \in Journaled(dev)
      PROVE  FALSE
  BY <1>1 DEF First, Starting, Journaled
<1> QED
  BY <1>1

\* Nor one whose write is done.
LEMMA FirstLanded ==
  ASSUME Typed, Starting(dev), NEW n \in Starts, First(dev, n), dev.writes # << >>,
         Head(dev.writes).by = "start", Head(dev.writes).n = n
  PROVE  Journaled(Landed(dev)) = {}
<1> DEFINE l == Landed(dev)
<1>1. /\ Queued(l) \subseteq Queued(dev) /\ Head(dev.writes) \in Calls
      /\ \A S : One(dev.writes, S) => (Head(dev.writes) \in S => \A x \in Queued(l) : x \notin S)
  BY LandedFacts DEF Typed
<1> HIDE DEF l
<1>2. Head(dev.writes) \in StartCalls(n) /\ One(dev.writes, StartCalls(n))
  BY <1>1 DEF StartCalls, Starting
<1>3. \A x \in Queued(l) : x \notin StartCalls(n)
  BY <1>1, <1>2
<1>4. Queued(dev) \subseteq Calls
  BY QueuedFacts DEF Typed, Sound
<1>5. ASSUME NEW x \in Journaled(l)
      PROVE  FALSE
  <2>1. x \in Queued(l) /\ x \in Journaled(dev) /\ x \in Calls
    BY <1>1, <1>4, <1>5 DEF Journaled
  <2>2. x.by = "start" /\ x.n = n
    BY <2>1 DEF First
  <2> QED
    BY <1>3, <2>1, <2>2 DEF StartCalls
<1>6. Journaled(l) = {}
  BY <1>5
<1> QED
  BY <1>6 DEF l

\* Before the dispatch: a start begins.
LEMMA BeginUntold ==
  ASSUME Typed, Starting(dev), Before(dev, wire), Untold(dev, wire, server), NEW n \in Starts,
         Begin(n)
  PROVE  Untold(dev', wire', server')
<1>1. /\ Sound(dev) /\ Only(dev, dev', {"obj", "busy", "start"}) /\ dev.writes = << >>
      /\ MayStart(dev.disk) /\ ~Busy /\ dev'.obj[n] = dev.disk /\ dev'.start[n].pc = "preparing"
      /\ \A m \in Starts : m # n => dev'.start[m] = dev.start[m] /\ dev'.obj[m] = dev.obj[m]
  BY BeginFacts DEF Typed
<1>2. wire' = wire /\ server' = server
  BY DEF Begin
<1>3. Only(dev, dev', {"cur", "active", "cancels", "task", "busy", "obj", "start"})
  BY <1>1 DEF Only
<1>4. Steps(dev, dev', n)
  BY <1>1, <1>3, PlaceSteps
<1>5. \A m \in Starts : ~Live(dev, m)
  BY <1>1 DEF Before, Fit, Busy
<1>6. ~Spent(dev.disk) /\ Journaled(dev) = {}
  BY <1>1 DEF MayStart, Spent, Journaled, Queued, Elements
<1>7. Clear(dev, wire, server) /\ ~HasReport(dev.disk)
  BY <1>6 DEF Untold
<1>8. Plain(dev'.obj[n].report.status)
  BY <1>1, <1>7 DEF HasReport, NoReport, Plain, Final, Ended
<1>9. dev'.restore = dev.restore /\ dev'.reports = dev.reports /\ dev'.writes = dev.writes
  BY <1>1 DEF Only, Fields
<1>10. Quiet(dev')
  BY <1>1, <1>7, <1>8, <1>9 DEF Quiet, Clear, Queued
<1>11. Clear(dev', wire', server')
  BY <1>2, <1>7, <1>10 DEF Clear
<1> QED
  BY <1>1, <1>4, <1>5, <1>6, <1>7, <1>11, StepUntold

\* Before the dispatch: a start goes on.
LEMMA GoesOnUntold ==
  ASSUME Typed, Starting(dev), Before(dev, wire), Untold(dev, wire, server), NEW n \in Starts,
         Prepared(n) \/ Rounded(n) \/ Admitted(n)
  PROVE  Untold(dev', wire', server')
<1>0. /\ Sound(dev) /\ wire' = wire /\ server' = server /\ dev.start[n].pc \in {"preparing", "round", "submitting"}
  BY DEF Typed, Prepared, Rounded, Admitted
<1>1. Live(dev, n) /\ dev.start[n].pc \notin Writing
  BY <1>0 DEF Live, Admitting, Writing
<1>2. \A m \in Starts : m # n => ~Live(dev, m)
  BY <1>1 DEF Before
<1>3. ~Spent(dev.disk) => Clear(dev, wire, server) /\ ~HasReport(dev.disk)
  BY DEF Untold
<1>4. dev.start[n].pc \in {"preparing", "round"} => ~Spent(dev.disk) /\ Journaled(dev) = {}
  <2>1. dev.start[n].pc \in {"preparing", "round"} => First(dev, n)
    BY <1>1 DEF Untold
  <2> QED
    BY <1>1, <2>1, FirstNow DEF First
<1>5. ASSUME Steps(dev, dev', n), Quiet(dev) => Quiet(dev'),
             \/ ~Live(dev', n)
             \/ dev.start[n].pc \in {"preparing", "round"} /\ dev'.start[n].pc \notin {"submitting", "creating"}
             \/ /\ dev.start[n].pc = "submitting" /\ dev'.start[n].pc = "creating"
                /\ dev'.start[n].stale = dev.start[n].stale
      PROVE  Untold(dev', wire', server')
  <2>1. Clear(dev, wire, server) => Clear(dev', wire', server')
    BY <1>0, <1>5 DEF Clear
  <2>2. dev'.start[n].pc \in {"submitting", "creating"} =>
          Clear(dev', wire', server') \/ dev'.start[n].stale
    <3>1. {"submitting", "creating"} \subseteq Admitting
      BY DEF Admitting
    <3> QED
      BY <1>5, <2>1, <3>1 DEF Untold, Live
  <2>3. /\ Live(dev', n) /\ dev'.start[n].pc \notin {"submitting", "creating"} =>
             ~Spent(dev.disk) /\ Journaled(dev) = {}
    BY <1>4, <1>5
  <2>4. ~Spent(dev.disk) => Clear(dev', wire', server') /\ ~HasReport(dev.disk)
    BY <1>3, <2>1
  <2> QED
    BY <1>0, <1>2, <1>5, <2>2, <2>3, <2>4, StepUntold
<1>6. CASE dev' = Caught(dev, n)
  BY <1>0, <1>5, <1>6, CaughtSteps
<1>7. ASSUME NEW phase, NEW p, dev' = Writes(dev, n, phase, p),
             dev.start[n].pc \in {"preparing", "round"},
             \/ phase = "claiming" /\ p = "writing"
             \/ phase = "dispatching" /\ p = "dispatching"
      PROVE  Untold(dev', wire', server')
  <2>1. /\ phase \in Phases /\ p \in Pcs \ {"done"}
        /\ p \in {"writing", "claimed"} => phase \in {"claiming", "claimed"}
    BY <1>7 DEF Phases, Pcs
  <2>2. Steps(dev, dev', n) /\ (Quiet(dev) => Quiet(dev')) /\ dev'.start[n].pc = p
    BY <1>0, <1>7, <2>1, WritesSteps
  <2> QED
    BY <1>5, <1>7, <2>2
<1>8. CASE Prepared(n) /\ dev' = Opened(dev, n)
  <2>1. /\ Only(dev, dev', {"cur", "active", "cancels", "start"}) /\ (Quiet(dev) => Quiet(dev'))
        /\ dev'.start[n].pc = "round" /\ \A m \in Starts : m # n => dev'.start[m] = dev.start[m]
    BY <1>0, <1>8, OpenedFacts
  <2>2. Only(dev, dev', {"cur", "active", "cancels", "task", "busy", "obj", "start"})
    BY <2>1 DEF Only
  <2>3. Steps(dev, dev', n)
    BY <2>1, <2>2, PlaceSteps
  <2> QED
    BY <1>5, <1>8, <2>1, <2>3 DEF Prepared
<1>9. CASE /\ Admitted(n) /\ Only(dev, dev', {"task", "start"}) /\ (Quiet(dev) => Quiet(dev'))
           /\ dev'.start[n].pc = "creating" /\ dev'.start[n].stale = dev.start[n].stale
           /\ \A m \in Starts : m # n => dev'.start[m] = dev.start[m]
  <2>1. Only(dev, dev', {"cur", "active", "cancels", "task", "busy", "obj", "start"})
    BY <1>9 DEF Only
  <2>2. Steps(dev, dev', n)
    BY <1>9, <2>1, PlaceSteps
  <2> QED
    BY <1>5, <1>9, <2>2 DEF Admitted
<1>10. Prepared(n) => dev.start[n].pc = "preparing"
  BY DEF Prepared
<1>11. Rounded(n) => dev.start[n].pc = "round"
  BY DEF Rounded
<1>12. CASE Prepared(n)
  <2>1. \/ dev' = Caught(dev, n) \/ dev' = Writes(dev, n, "claiming", "writing") \/ dev' = Opened(dev, n)
    BY <1>12 DEF Prepared, Writes
  <2> QED
    BY <1>6, <1>7, <1>8, <1>10, <1>12, <2>1
<1>13. CASE Rounded(n)
  <2>1. dev' = Caught(dev, n) \/ dev' = Writes(dev, n, "dispatching", "dispatching")
    BY <1>13 DEF Rounded, Writes
  <2> QED
    BY <1>6, <1>7, <1>11, <1>13, <2>1
<1>14. CASE Admitted(n)
  BY <1>6, <1>9, <1>14, AdmittedFacts
<1> QED
  BY <1>12, <1>13, <1>14

\* Before the dispatch: the claim is answered.
LEMMA ClaimsUntold ==
  ASSUME Typed, Starting(dev), Claiming(dev, wire), Before(dev, wire), Untold(dev, wire, server),
         NEW m \in wire, Claims(m)
  PROVE  Untold(dev', wire', server')
<1> DEFINE n == m.n
<1>1. n \in Starts /\ m \in Asks(wire, "claim") /\ wire' \subseteq (wire \ {m}) \cup {Late(m)}
  BY ClaimsFacts
<1>0. Sound(dev) /\ server \in Rows /\ (\A x \in wire : x \in Requests) /\ dev.start[n].pc = "claiming"
  BY <1>1 DEF Typed, Wired, Claiming
<1>2. Live(dev, n) /\ dev.start[n].pc \notin Writing
  BY <1>0 DEF Live, Admitting, Writing
<1>3. \A k \in Starts : k # n => ~Live(dev, k)
  BY <1>1, <1>2 DEF Before
<1>4. First(dev, n)
  BY <1>0, <1>1, <1>2 DEF Untold
<1>5. ~Spent(dev.disk) /\ Journaled(dev) = {}
  BY <1>1, <1>2, <1>4, FirstNow DEF First
<1>6. Clear(dev, wire, server) /\ ~HasReport(dev.disk)
  BY <1>5 DEF Untold
<1>7. \A x \in wire' : x.kind # "claim" => Plain(x.report.status)
  BY <1>0, <1>1, <1>6, PlainWithout DEF Clear
<1>8. server' \in {server, ClaimRows}
  BY ClaimsFacts
<1>9. Plain(server'.status)
  BY <1>0, <1>6, <1>8, PlainRows DEF Clear
<1>10. Quiet(dev) /\ (Quiet(dev') => Clear(dev', wire', server'))
  BY <1>6, <1>7, <1>9 DEF Clear
<1> HIDE DEF n
<1>11. CASE dev' = Caught(dev, n)
  <2>1. Steps(dev, dev', n) /\ ~Live(dev', n) /\ Quiet(dev')
    BY <1>0, <1>1, <1>10, <1>11, CaughtSteps
  <2>2. dev'.start[n].pc \notin {"submitting", "creating"}
    BY <2>1 DEF Live, Admitting
  <2> QED
    BY <1>0, <1>1, <1>3, <1>6, <1>10, <2>1, <2>2, StepUntold
<1>12. ASSUME NEW b, Sound(b), Only(dev, b, {"obj"}), Quiet(dev) => Quiet(b), NEW phase, NEW p,
              dev' = Writes(b, n, phase, p), \/ phase = "claimed" /\ p = "claimed"
                                             \/ phase = "terminal" /\ p = "lost"
       PROVE  Untold(dev', wire', server')
  <2>1. /\ phase \in Phases /\ p \in Pcs \ {"done"}
        /\ p \in {"writing", "claimed"} => phase \in {"claiming", "claimed"}
    BY <1>12 DEF Phases, Pcs
  <2>2. Steps(b, dev', n) /\ (Quiet(b) => Quiet(dev')) /\ dev'.start[n].pc = p
    BY <1>1, <1>12, <2>1, WritesSteps
  <2>3. b.disk = dev.disk /\ b.writes = dev.writes /\ b.start = dev.start
    BY <1>12 DEF Only, Fields
  <2>4. Steps(dev, dev', n)
    BY <2>2, <2>3 DEF Steps
  <2>5. Clear(dev', wire', server') /\ dev'.start[n].pc \notin {"submitting", "creating"}
    BY <1>10, <1>12, <2>2
  <2> QED
    BY <1>0, <1>1, <1>3, <1>5, <1>6, <2>4, <2>5, StepUntold
<1>13. \/ dev' = Caught(dev, n)
       \/ \E b : /\ Sound(b) /\ Only(dev, b, {"obj"}) /\ (Quiet(dev) => Quiet(b))
                 /\ dev' = Writes(b, n, "claimed", "claimed") \/ dev' = Writes(b, n, "terminal", "lost")
  BY ClaimsFacts DEF n
<1> QED
  BY <1>11, <1>12, <1>13

\* Before the dispatch: a write of a start is done.
LEMMA StartLandsUntold ==
  ASSUME Typed, Starting(dev), Before(dev, wire), Untold(dev, wire, server), StartLands
  PROVE  Untold(dev', wire', server')
<1> DEFINE l == Landed(dev)
           n == Head(dev.writes).n
           pc == dev.start[n].pc
           x == Head(dev.writes)
<1>1. dev.writes # << >> /\ x.by = "start" /\ n \in Starts /\ Sound(dev) /\ server' = server
  BY StartLandsFacts DEF Typed, StartLands
<1>2. /\ Sound(l) /\ Only(dev, l, {"disk", "writes"}) /\ x \in Queued(dev)
      /\ l.disk = x.j /\ (Quiet(dev) => Quiet(l))
  BY <1>1, LandedFacts, LandedQuiet DEF Cancels
<1>3. pc \in Writing /\ pc # "running" /\ x \in Journaled(dev)
  BY <1>1, <1>2 DEF Starting, Before, Fit, Journaled, Cancels
<1>4. l.start = dev.start
  BY <1>2 DEF Only, Fields
<1>5. Spent(x.j) \/ (pc \in {"writing", "claimed"} /\ ~HasReport(x.j))
  BY <1>3 DEF Before, Unspent
<1>6. pc # "failing" => Live(dev, n)
  BY <1>3 DEF Writing, Live, Admitting
<1>7. pc # "failing" => First(dev, n)
  BY <1>1, <1>3, <1>6 DEF Untold, Writing
<1>8. pc # "failing" => Clear(dev, wire, server)
  BY <1>7 DEF First, Untold
<1>9. pc \in {"writing", "claimed"} => ~Spent(l.disk) /\ ~HasReport(l.disk) /\ Journaled(l) = {}
  <2> SUFFICES ASSUME pc \in {"writing", "claimed"}
               PROVE  ~Spent(l.disk) /\ ~HasReport(l.disk) /\ Journaled(l) = {}
    OBVIOUS
  <2>1. First(dev, n)
    BY <1>7
  <2>2. Journaled(l) = {}
    BY <1>1, <2>1, FirstLanded
  <2>3. ~Spent(x.j)
    BY <1>3, <2>1 DEF First
  <2> QED
    BY <1>2, <1>5, <2>2, <2>3
<1>10. \/ /\ pc = "writing" /\ wire' = wire \cup {Request("claim", n, NoReport)} /\ Only(l, dev', {"cur", "start"})
          /\ dev'.start[n].pc = "claiming" /\ (Quiet(l) => Quiet(dev'))
          /\ \A m \in Starts : m # n => dev'.start[m] = dev.start[m]
       \/ dev' = Caught(l, n) /\ wire' = wire
       \/ pc = "claimed" /\ dev' = Opened(l, n) /\ wire' = wire
       \/ pc = "dispatching" /\ dev' = At(l, n, "submitting") /\ wire' = wire
       \/ /\ pc = "failing" /\ wire' = wire /\ Only(l, dev', {"active", "start"}) /\ dev'.start[n].pc = "done"
          /\ \A m \in Starts : m # n => dev'.start[m] = dev.start[m]
  BY <1>3, StartLandsFacts DEF Writing
<1> HIDE DEF l, n, x
<1>11. \A m \in wire' : m.kind # "claim" => m \in wire
  BY <1>10 DEF Request
<1>12. Clear(dev, wire, server) /\ (Quiet(l) => Quiet(dev')) => Clear(dev', wire', server')
  BY <1>1, <1>2, <1>11 DEF Clear
<1>13. CASE pc = "failing"
  <2>1. /\ Only(l, dev', {"active", "start"}) /\ dev'.start[n].pc = "done" /\ (Quiet(l) => Quiet(dev'))
        /\ \A m \in Starts : m # n => dev'.start[m] = dev.start[m]
    BY <1>13, StartLandsFacts DEF l, n
  <2>2. Spent(dev'.disk)
    BY <1>2, <1>5, <1>13, <2>1 DEF Only, Fields
  <2>3. \A m \in Starts : m # n => ~First(dev, m)
    BY <1>1, <1>3 DEF First, n, x
  <2>4. ~Live(dev', n) /\ dev'.start[n].pc \notin {"submitting", "creating"}
    BY <2>1 DEF Live, Admitting
  <2> QED
    BY <1>12, <2>1, <2>2, <2>3, <2>4 DEF Untold, Live
<1>14. CASE pc # "failing"
  <2>1. \A m \in Starts : m # n => ~Live(l, m)
    BY <1>1, <1>4, <1>6, <1>14 DEF Before, Live
  <2>2. ~Spent(l.disk) => ~HasReport(l.disk)
    BY <1>2, <1>5
  <2>3. ASSUME Steps(l, dev', n), Quiet(l) => Quiet(dev'),
               \/ ~Live(dev', n)
               \/ pc \in {"writing", "claimed"}
               \/ dev'.start[n].pc = "submitting"
        PROVE  Untold(dev', wire', server')
    <3>1. Clear(dev', wire', server')
      BY <1>8, <1>12, <1>14, <2>3
    <3>2. Live(dev', n) /\ dev'.start[n].pc \notin {"submitting", "creating"} => ~Spent(l.disk) /\ Journaled(l) = {}
      BY <1>9, <2>3
    <3> QED
      BY <1>1, <1>2, <2>1, <2>2, <2>3, <3>1, <3>2, StepUntold
  <2>4. CASE dev' = Caught(l, n) /\ wire' = wire
    BY <1>1, <1>2, <2>3, <2>4, CaughtSteps
  <2>5. CASE pc = "claimed" /\ dev' = Opened(l, n) /\ wire' = wire
    <3>1. /\ Only(l, dev', {"cur", "active", "cancels", "start"}) /\ (Quiet(l) => Quiet(dev'))
          /\ \A m \in Starts : m # n => dev'.start[m] = l.start[m]
      BY <1>1, <1>2, <2>5, OpenedFacts
    <3>2. Only(l, dev', {"cur", "active", "cancels", "task", "busy", "obj", "start"})
      BY <3>1 DEF Only
    <3>3. Steps(l, dev', n)
      BY <3>1, <3>2, PlaceSteps
    <3> QED
      BY <2>3, <2>5, <3>1, <3>3
  <2>6. CASE pc = "dispatching" /\ dev' = At(l, n, "submitting") /\ wire' = wire
    <3>1. "submitting" \in Pcs
      BY DEF Pcs
    <3>2. /\ Only(l, dev', {"start"}) /\ (Quiet(l) => Quiet(dev')) /\ dev'.start[n].pc = "submitting"
          /\ \A m \in Starts : m # n => dev'.start[m] = l.start[m]
      BY <1>1, <1>2, <2>6, <3>1, AtFacts
    <3>3. Only(l, dev', {"cur", "active", "cancels", "task", "busy", "obj", "start"})
      BY <3>2 DEF Only
    <3>4. Steps(l, dev', n)
      BY <3>2, <3>3, PlaceSteps
    <3> QED
      BY <2>3, <3>2, <3>4
  <2>7. CASE /\ pc = "writing" /\ Only(l, dev', {"cur", "start"}) /\ (Quiet(l) => Quiet(dev'))
             /\ \A m \in Starts : m # n => dev'.start[m] = dev.start[m]
    <3>1. Only(l, dev', {"cur", "active", "cancels", "task", "busy", "obj", "start"})
      BY <2>7 DEF Only
    <3>2. Steps(l, dev', n)
      BY <1>4, <2>7, <3>1, PlaceSteps
    <3> QED
      BY <2>3, <2>7, <3>2
  <2> QED
    BY <1>10, <1>14, <2>4, <2>5, <2>6, <2>7
<1> QED
  BY <1>13, <1>14

\* A file before the dispatch has nothing to restore.
LEMMA NothingToRestore ==
  ASSUME NEW d, Sound(d), d.restore.pc = "idle", ~Spent(d.disk), ~HasReport(d.disk), NEW e,
         e = Restored(d)
  PROVE  e = d /\ RestoreWire(e) = {}
<1>1. e = d
  BY RestoredFacts DEF Spent
<1> QED
  BY <1>1 DEF RestoreWire

\* Before the dispatch: the steps of the restore.
LEMMA RestoreUntold ==
  ASSUME Typed, Restoring(dev, wire), Before(dev, wire), Away(dev, here),
         Untold(dev, wire, server), RestoreStep
  PROVE  Untold(dev', wire', server')
<1>0. /\ Sound(dev) /\ (dev.restore.pc # "idle" => Spent(dev.restore.j))
      /\ {"submitting", "creating"} \subseteq Admitting
  BY DEF Typed, Before, Calm, Admitting
<1>1. ASSUME ~Quiet(dev), dev'.start = dev.start, Spent(dev'.disk),
             \/ dev'.disk = dev.disk
             \/ \E x \in Queued(dev) : x.by = "restore"
      PROVE  Untold(dev', wire', server')
  <2>1. Spent(dev.disk)
    BY <1>1 DEF Untold, Clear
  <2>2. \A n \in Starts : ~First(dev, n)
    BY <2>1 DEF First
  <2> QED
    BY <1>1, <2>2 DEF Untold, Clear, Live
<1>2. CASE RestoreLands
  <2> DEFINE l == Landed(dev)
             x == Head(dev.writes)
  <2>1. dev.writes # << >> /\ x.by = "restore" /\ Only(l, dev', {"restore"})
    BY <1>2, RestoreLandsFacts
  <2>2. Only(dev, l, {"disk", "writes"}) /\ x \in Queued(dev) /\ l.disk = x.j
    BY <1>0, <2>1, LandedFacts DEF Cancels
  <2> HIDE DEF l, x
  <2>3. dev'.disk = x.j /\ dev'.start = dev.start
    BY <2>1, <2>2 DEF Only, Fields
  <2>4. Spent(x.j)
    BY <2>1, <2>2 DEF Before, Journaled, Unspent, Cancels
  <2>5. ~Quiet(dev)
    BY <2>1, <2>2 DEF Quiet
  <2> QED
    BY <1>1, <2>1, <2>2, <2>3, <2>4, <2>5
<1>3. ASSUME NEW m \in wire, RestoreReports(m)
      PROVE  Untold(dev', wire', server')
  <2>1. m \in Asks(wire, "restore") /\ Only(dev, dev', {"restore", "writes"})
    BY <1>3, RestoreReportsFacts
  <2>2. ~Quiet(dev)
    BY <2>1 DEF Restoring, Quiet
  <2>3. Spent(dev.disk)
    BY <2>2 DEF Untold, Clear
  <2>4. dev'.disk = dev.disk /\ dev'.start = dev.start
    BY <2>1 DEF Only, Fields
  <2> QED
    BY <1>1, <2>2, <2>3, <2>4
<1>4. CASE SignIn
  <2>1. /\ here = "out" /\ dev.restore.pc = "idle" /\ Only(dev, dev', {"restore", "writes"})
        /\ dev' = Restored(dev) /\ wire' = wire \cup RestoreWire(dev') /\ server' = server
    BY <1>4, SignInFacts DEF SignIn
  <2>2. CASE ~Spent(dev.disk)
    <3>1. dev' = dev /\ wire' = wire
      BY <1>0, <2>1, <2>2, NothingToRestore DEF Untold
    <3> QED
      BY <2>1, <3>1
  <2>3. CASE Spent(dev.disk)
    <3>1. dev'.disk = dev.disk /\ dev'.start = dev.start
      BY <2>1 DEF Only, Fields
    <3>2. \A n \in Starts : Live(dev, n) => dev.start[n].stale
      BY <2>1 DEF Away
    <3>3. \A n \in Starts : ~First(dev, n)
      BY <2>3 DEF First
    <3> QED
      BY <1>0, <2>3, <3>1, <3>2, <3>3 DEF Untold, Live
  <2> QED
    BY <2>2, <2>3
<1> QED
  BY <1>2, <1>3, <1>4 DEF RestoreStep

\* Before the dispatch: a crash.
LEMMA RestartUntold ==
  ASSUME Typed, Untold(dev, wire, server), Restart
  PROVE  Untold(dev', wire', server')
<1>0. dev \in Device /\ \A m \in wire : m \in Requests
  BY DEF Typed, Sound, Wired
<1>1. PICK b : b = Begun(dev) /\ dev' = Restored(b)
  BY RestartFacts
<1>2. /\ Sound(b) /\ b.disk = dev.disk /\ b.writes = << >> /\ b.reports.queue = << >> /\ b.restore.pc = "idle"
      /\ \A n \in Starts : b.obj[n] = NoJournal /\ b.start[n].pc \in {"unused", "done"}
  BY <1>0, <1>1, BegunFacts
<1>3. Only(b, dev', {"restore", "writes"})
  BY <1>1, <1>2, RestoredFacts
<1>4. dev'.disk = dev.disk /\ dev'.start = b.start
  BY <1>2, <1>3 DEF Only, Fields
<1>5. \A n \in Starts : ~Live(dev', n) /\ dev'.start[n].pc \notin {"submitting", "creating"}
  BY <1>2, <1>4 DEF Live, Admitting
<1>6. PICK late : wire' = late \cup RestoreWire(dev') /\ \A m \in late : \E x \in wire : m = Late(x)
  BY RestartFacts
<1>7. ASSUME ~Spent(dev.disk)
      PROVE  Clear(dev', wire', server') /\ ~HasReport(dev.disk)
  <2>1. Clear(dev, wire, server) /\ ~HasReport(dev.disk)
    BY <1>7 DEF Untold
  <2>2. dev' = b /\ RestoreWire(dev') = {}
    BY <1>1, <1>2, <1>7, <2>1, NothingToRestore
  <2>3. \A m \in wire' : m.kind # "claim" => Plain(m.report.status)
    BY <1>0, <1>6, <2>1, <2>2, LateFacts DEF Clear
  <2>4. Elements(dev'.reports.queue) = {} /\ Queued(dev') = {}
    BY <1>2, <2>2 DEF Elements, Queued
  <2>5. Quiet(dev')
    BY <1>2, <2>2, <2>4, JournalFacts DEF Quiet, Plain, Final, Ended, NoJournal, NoReport
  <2>6. server' = server
    BY RestartFacts
  <2> QED
    BY <2>1, <2>3, <2>5, <2>6 DEF Clear
<1> QED
  BY <1>4, <1>5, <1>7 DEF Untold

\* What the server does by itself keeps it clear.
LEMMA OutsideClear ==
  ASSUME Typed, Outside, Clear(dev, wire, server)
  PROVE  Clear(dev', wire', server')
<1>0. server \in Rows /\ Plain(server.status) /\ \A m \in wire : m \in Requests
  BY DEF Typed, Wired, Clear
<1>1. dev' = dev /\ wire' \subseteq wire
  BY DEF Outside, SessionCloses, OtherClaims, Return, ServeLate
<1>2. ASSUME NEW m \in wire, ServeLate(m)
      PROVE  Plain(server'.status)
  <2>1. m.report \in [status : Statuses, rev : Nat] /\ (m.kind # "claim" => Plain(m.report.status))
    BY <1>0 DEF Requests, Clear
  <2> QED
    BY <1>0, <1>2, <2>1, PlainRows DEF ServeLate
<1>3. Plain(server'.status)
  BY <1>0, <1>2 DEF Outside, SessionCloses, OtherClaims, Return, Rows, Plain, Final, Ended
<1> QED
  BY <1>1, <1>3 DEF Clear

\* Before the dispatch: what the server does by itself.
LEMMA OutsideUntold ==
  ASSUME Typed, Outside, Untold(dev, wire, server)
  PROVE  Untold(dev', wire', server')
<1>1. dev' = dev
  BY DEF Outside, SessionCloses, OtherClaims, Return, ServeLate
<1>2. Clear(dev, wire, server) => Clear(dev', wire', server')
  BY OutsideClear
<1> QED
  BY <1>1, <1>2, UntoldKept

\* A call joins the queue behind the undo; the first undo has no call of the coach before it.
LEMMA UndoAppended ==
  ASSUME NEW s \in Seq(Calls), NEW x \in Calls
  PROVE  /\ UndoFirst(s) => (x.by # "coach" => UndoFirst(Append(s, x)))
         /\ x.by = "undo" /\ (\A y \in Elements(s) : y.by # "coach") => UndoFirst(Append(s, x))
<1> DEFINE t == Append(s, x)
<1>1. /\ Len(s) \in Nat /\ Len(t) = Len(s) + 1 /\ t[Len(s) + 1] = x /\ \A i \in 1 .. Len(s) : t[i] = s[i]
      /\ \A i \in 1 .. Len(t) : i \in 1 .. Len(s) \/ i = Len(s) + 1
      /\ \A i \in 1 .. Len(s) : i \in 1 .. Len(t)
      /\ Len(s) + 1 \in 1 .. Len(t)
  OBVIOUS
<1> HIDE DEF t
<1>2. ASSUME UndoFirst(s), x.by # "coach"
      PROVE  UndoFirst(t)
  <2>1. PICK i \in 1 .. Len(s) : s[i].by = "undo" /\ \A k \in 1 .. Len(s) : s[k].by = "coach" => k > i
    BY <1>2 DEF UndoFirst
  <2>2. i \in 1 .. Len(t) /\ t[i].by = "undo" /\ \A k \in 1 .. Len(t) : t[k].by = "coach" => k > i
    BY <1>1, <1>2, <2>1
  <2> QED
    BY <2>2 DEF UndoFirst
<1>3. ASSUME x.by = "undo", \A y \in Elements(s) : y.by # "coach"
      PROVE  UndoFirst(t)
  <2>1. \A k \in 1 .. Len(t) : t[k].by # "coach"
    BY <1>1, <1>3 DEF Elements
  <2>2. Len(s) + 1 \in 1 .. Len(t) /\ t[Len(s) + 1].by = "undo"
    BY <1>1, <1>3
  <2> QED
    BY <2>1, <2>2 DEF UndoFirst
<1> QED
  BY <1>2, <1>3 DEF t

\* The dispatch: of a start that was stopped, the coach is behind its undo.
LEMMA DispatchHeard ==
  ASSUME Typed, Starting(dev), Before(dev, wire), Away(dev, here), Untold(dev, wire, server),
         seen.dispatches = 0,
         NEW n \in Starts, Submitted(n)
  PROVE  Heard(dev', wire', server', here') /\ seen'.dispatches = 1
<1>0. /\ Sound(dev) /\ seen \in Histories /\ dev.cur # 0 /\ dev.start[n].pc = "creating" /\ wire' = wire
      /\ server' = server /\ here' = here
  BY SubmittedFacts DEF Typed, Submitted
<1>1. Live(dev, n)
  BY <1>0 DEF Live, Admitting
<1>2. dev.task = "ready" /\ dev.coach = "off" /\ ~dev.cancels["stop"].on /\ ~dev.cancels["leave"].on
  BY <1>0 DEF Before, Fit, Calm, Cancels
<1>3. /\ seen' = [seen EXCEPT !.dispatches = @ + 1, !.may = TRUE]
      /\ \/ dev.start[n].stale /\ dev' = Undoing(dev, n)
         \/ ~dev.start[n].stale /\ dev' = Writes(Going(dev), n, "running", "running")
  BY <1>2, SubmittedFacts
<1>4. seen'.dispatches = 1
  BY <1>0, <1>3 DEF Histories
<1>5. Clear(dev, wire, server) \/ dev.start[n].stale
  BY <1>0 DEF Untold
<1>6. here = "out" => dev.start[n].stale
  BY <1>1 DEF Away
<1>7. CASE dev.start[n].stale
  <2> DEFINE e == Undoing(dev, n)
  <2>1. /\ e.busy.route /\ e.coach = "round" /\ e.task = "going"
        /\ \A c \in Cancels : c # "undo" => e.cancels[c] = dev.cancels[c]
        /\ \E x \in Calls : x.by = "undo" /\ x.n = 0 /\ e.writes = Append(dev.writes, x)
    BY <1>0, UndoingFacts
  <2> HIDE DEF e
  <2>2. dev.writes \in Seq(Calls) /\ \A y \in Elements(dev.writes) : y.by # "coach"
    BY <1>0, QueuedFacts DEF Sound, Before, Calm, Queued
  <2>3. UndoFirst(e.writes)
    BY <2>1, <2>2, UndoAppended
  <2>4. e.cancels["stop"] = dev.cancels["stop"] /\ e.cancels["leave"] = dev.cancels["leave"]
    BY <2>1 DEF Cancels
  <2>5. dev' = e
    BY <1>3, <1>7 DEF e
  <2> QED
    BY <1>2, <1>4, <2>1, <2>3, <2>4, <2>5 DEF Heard, UndoAhead
<1>8. CASE ~dev.start[n].stale
  <2> DEFINE g == Going(dev)
             e == Writes(g, n, "running", "running")
  <2>1. /\ Sound(g) /\ (Quiet(dev) => Quiet(g)) /\ g.busy.route /\ g.coach = "round" /\ g.task = "going"
    BY <1>0, GoingFacts
  <2> HIDE DEF g
  <2>2. "running" \in Phases /\ "running" \in Pcs \ {"done"}
    BY DEF Phases, Pcs
  <2>3. Only(g, e, {"obj", "start", "writes"}) /\ (Quiet(g) => Quiet(e))
    BY <2>1, <2>2, WritesStartFacts
  <2> HIDE DEF e
  <2>4. e.busy = g.busy /\ e.coach = g.coach /\ e.task = g.task
    BY <2>3 DEF Only, Fields
  <2>5. dev' = e
    BY <1>3, <1>8 DEF e, g
  <2>6. Clear(dev', wire', server')
    BY <1>0, <1>5, <1>8, <2>1, <2>3, <2>5 DEF Clear
  <2> QED
    BY <1>0, <1>4, <1>6, <1>8, <2>1, <2>4, <2>5, <2>6 DEF Heard
<1> QED
  BY <1>7, <1>8

\* Before the dispatch: the steps of the starts.
LEMMA StartsUntold ==
  ASSUME Typed, Starting(dev), Claiming(dev, wire), Before(dev, wire), Away(dev, here),
         Untold(dev, wire, server), StartStep, seen.dispatches = 0
  PROVE  \/ Untold(dev', wire', server') /\ seen'.dispatches = 0
         \/ Heard(dev', wire', server', here') /\ seen'.dispatches = 1
<1>1. ASSUME NEW n \in Starts, Submitted(n)
      PROVE  Heard(dev', wire', server', here') /\ seen'.dispatches = 1
  BY <1>1, DispatchHeard
<1>2. CASE StartLands
  BY <1>2, StartLandsUntold DEF StartLands
<1>3. ASSUME UndoLands
      PROVE  FALSE
  BY <1>3 DEF UndoLands, Before, Fit
<1>4. ASSUME NEW n \in Starts, Begin(n)
      PROVE  Untold(dev', wire', server') /\ seen' = seen
  BY <1>4, BeginUntold DEF Begin
<1>5. ASSUME NEW n \in Starts, Prepared(n) \/ Rounded(n) \/ Admitted(n)
      PROVE  Untold(dev', wire', server') /\ seen' = seen
  BY <1>5, GoesOnUntold DEF Prepared, Rounded, Admitted
<1>6. ASSUME NEW m \in wire, Claims(m)
      PROVE  Untold(dev', wire', server') /\ seen' = seen
  BY <1>6, ClaimsUntold DEF Claims
<1> QED
  BY <1>1, <1>2, <1>3, <1>4, <1>5, <1>6 DEF StartStep

\* Device e has heard no more than d, if it has a coach.
Hears(d, w, r, h, e, v, s, k) ==
  e.coach # "off" =>
    /\ d.coach # "off" /\ (d.busy.route => e.busy.route) /\ (d.task # "none" => e.task # "none")
    /\ Clear(d, w, r) => Clear(e, v, s)
    /\ UndoAhead(d) => UndoAhead(e)
    /\ k = "out" => /\ h = "out" /\ (e.cancels["stop"].on => d.cancels["stop"].on)
                    /\ e.cancels["leave"].on => d.cancels["leave"].on

\* So it is still behind its undo, or nobody has been told.
LEMMA HeardKept ==
  ASSUME NEW d, NEW w, NEW r, NEW h, Heard(d, w, r, h), NEW e, NEW v, NEW s, NEW k,
         Hears(d, w, r, h, e, v, s, k)
  PROVE  Heard(e, v, s, k)
  BY DEF Heard, Hears

\* After the dispatch: a step that leaves the coach, and what it waits for, alone.
LEMMA HeardStill ==
  ASSUME Heard(dev, wire, server, here),
         Only(dev, dev', {"disk", "writes", "obj", "reports", "active", "cancels"}),
         UndoFirst(dev.writes) => UndoFirst(dev'.writes),
         Clear(dev, wire, server) => Clear(dev', wire', server'),
         here' = "out" => /\ here = "out" /\ dev'.cancels["stop"].on = dev.cancels["stop"].on
                          /\ dev'.cancels["leave"].on = dev.cancels["leave"].on
  PROVE  Heard(dev', wire', server', here')
<1>1. dev'.coach = dev.coach /\ dev'.busy = dev.busy /\ dev'.task = dev.task
  BY DEF Only, Fields
<1>2. Hears(dev, wire, server, here, dev', wire', server', here')
  BY <1>1 DEF Hears, UndoAhead
<1> QED
  BY <1>2, HeardKept

\* After the dispatch: the coach.
LEMMA CoachHeard ==
  ASSUME Typed, Coach \/ Continue \/ CoachLands, Heard(dev, wire, server, here)
  PROVE  Heard(dev', wire', server', here')
<1>0. Sound(dev) /\ wire' = wire /\ server' = server /\ here' = here
  BY DEF Typed, Coach, CoachRound, ModelAnswers, Continue, CoachLands
<1>1. ASSUME NEW l, Rounds(l, dev'), l.coach = dev.coach, l.busy = dev.busy, l.task = dev.task,
             l.cancels = dev.cancels,
             l.coach # "off", Quiet(dev) => Quiet(l),
             UndoAhead(dev) => l.writes = dev.writes /\ dev'.coach \in {"off", "round", "consuming", "texting"}
      PROVE  Heard(dev', wire', server', here')
  <2>1. /\ dev'.cancels = dev.cancels /\ (UndoFirst(l.writes) => UndoFirst(dev'.writes))
        /\ dev'.coach # "off" => dev'.busy = dev.busy /\ dev'.task = dev.task /\ (Quiet(l) => Quiet(dev'))
    BY <1>1 DEF Rounds, Moves, Only, Fields
  <2>2. Hears(dev, wire, server, here, dev', wire', server', here')
    BY <1>0, <1>1, <2>1 DEF Hears, Clear, UndoAhead
  <2> QED
    BY <2>2, HeardKept
<1>2. CASE CoachRound
  <2>1. dev.coach = "round" /\ Rounds(dev, dev') /\ dev'.coach \in {"off", "texting", "consuming"}
    BY <1>2, CoachRoundFacts
  <2> QED
    BY <1>1, <2>1
<1>3. CASE ModelAnswers
  <2>1. dev.coach = "asking" /\ Rounds(dev, dev')
    BY <1>3, ModelAnswersFacts
  <2> QED
    BY <1>1, <2>1 DEF UndoAhead
<1>4. CASE Continue
  <2>1. dev.coach = "waiting" /\ Rounds(dev, dev')
    BY <1>4, ContinueFacts
  <2> QED
    BY <1>1, <2>1 DEF UndoAhead
<1>5. CASE CoachLands
  <2> DEFINE l == Landed(dev)
  <2>1. dev.writes # << >> /\ Head(dev.writes).by = "coach" /\ (dev' = l \/ (Rounds(l, dev') /\ l.coach # "off"))
    BY <1>5, CoachLandsFacts
  <2>2. Only(dev, l, {"disk", "writes"}) /\ (Quiet(dev) => Quiet(l))
    BY <1>0, <2>1, LandedFacts, LandedQuiet
  <2>3. dev.writes \in Seq(Calls)
    BY <1>0, QueuedFacts DEF Sound
  <2>4. ~UndoFirst(dev.writes)
    BY <2>1, <2>3, UndoLanded
  <2> HIDE DEF l
  <2>5. l.coach = dev.coach /\ l.busy = dev.busy /\ l.task = dev.task /\ l.cancels = dev.cancels
    BY <2>2 DEF Only, Fields
  <2>6. CASE dev' = l
    <3>1. Hears(dev, wire, server, here, dev', wire', server', here')
      BY <1>0, <2>2, <2>4, <2>5, <2>6 DEF Hears, Clear, UndoAhead
    <3> QED
      BY <3>1, HeardKept
  <2>7. CASE Rounds(l, dev') /\ l.coach # "off"
    BY <1>1, <2>2, <2>4, <2>5, <2>7 DEF UndoAhead
  <2> QED
    BY <2>1, <2>6, <2>7
<1> QED
  BY <1>2, <1>3, <1>4, <1>5 DEF Coach

\* After the dispatch: the reports.
LEMMA ReportsHeard ==
  ASSUME Typed, TerminalLands \/ ReportLands \/ (\E m \in wire : Reports(m)),
         Heard(dev, wire, server, here)
  PROVE  Heard(dev', wire', server', here')
<1>0. Sound(dev) /\ server \in Rows /\ (\A m \in wire : m \in Requests) /\ here' = here
  BY DEF Typed, Wired, TerminalLands, ReportLands, Reports
<1>1. ASSUME Moved(dev, wire, dev', wire'), Only(dev, dev', {"disk", "writes", "obj", "reports"}),
             Clear(dev, wire, server) => Clear(dev', wire', server')
      PROVE  Heard(dev', wire', server', here')
  <2>1. /\ Only(dev, dev', {"disk", "writes", "obj", "reports", "active", "cancels"}) /\ dev'.cancels = dev.cancels
        /\ UndoFirst(dev.writes) => UndoFirst(dev'.writes)
    BY <1>1 DEF Moved, Only, Fields
  <2> QED
    BY <1>0, <1>1, <2>1, HeardStill
<1>2. CASE TerminalLands
  <2>1. ~Clear(dev, wire, server)
    BY <1>2, TerminalLandsFacts DEF Clear, Quiet
  <2> QED
    BY <1>1, <1>2, <2>1, TerminalLandsFacts
<1>3. CASE ReportLands
  <2>1. /\ Quiet(dev) => Quiet(dev')
        /\ wire' = wire \/ \E n \in Starts : wire' = wire \cup {Request("report", n, dev.obj[n].report)}
    BY <1>3, ReportLandsFacts
  <2>2. server' = server
    BY <1>3 DEF ReportLands
  <2>3. Quiet(dev) => \A n \in Starts : Plain(Request("report", n, dev.obj[n].report).report.status)
    BY DEF Quiet, Request
  <2>4. Clear(dev, wire, server) => Clear(dev', wire', server')
    BY <2>1, <2>2, <2>3 DEF Clear
  <2> QED
    BY <1>1, <1>3, <2>4, ReportLandsFacts
<1>4. ASSUME NEW m \in wire, Reports(m)
      PROVE  Heard(dev', wire', server', here')
  <2>1. /\ m.kind = "report" /\ (Quiet(dev) => Quiet(dev')) /\ server' \in {server, ReportRows(m.report)}
        /\ wire' \subseteq (wire \ {m}) \cup {Late(m)} /\ Moved(dev, wire, dev', wire')
        /\ Only(dev, dev', {"writes", "obj", "reports"})
    BY <1>4, ReportsFacts
  <2>2. Only(dev, dev', {"disk", "writes", "obj", "reports"})
    BY <2>1 DEF Only
  <2>3. ASSUME Clear(dev, wire, server)
        PROVE  Clear(dev', wire', server')
    <3>1. Plain(server.status) /\ Quiet(dev) /\ \A x \in wire : x.kind # "claim" => Plain(x.report.status)
      BY <2>3 DEF Clear
    <3>2. \A x \in wire' : x.kind # "claim" => Plain(x.report.status)
      BY <1>0, <2>1, <3>1, PlainWithout
    <3>3. m.report \in [status : Statuses, rev : Nat] /\ Plain(m.report.status)
      BY <1>0, <2>1, <3>1 DEF Requests
    <3>4. Plain(server'.status)
      BY <1>0, <2>1, <3>1, <3>3, PlainRows
    <3> QED
      BY <2>1, <3>1, <3>2, <3>4 DEF Clear
  <2> QED
    BY <1>1, <2>1, <2>2, <2>3
<1> QED
  BY <1>2, <1>3, <1>4

\* After the dispatch: a cancellation begins in the class.
LEMMA StopsHears ==
  ASSUME Heard(dev, wire, server, here), Stops(dev, dev'), here' # "out", wire' = wire,
         server' = server
  PROVE  Heard(dev', wire', server', here')
<1>1. Moves(dev, dev', {})
  BY DEF Stops
<1>2. UndoFirst(dev.writes) => UndoFirst(dev'.writes)
  BY <1>1 DEF Moves
<1>3. Hears(dev, wire, server, here, dev', wire', server', here')
  BY <1>2 DEF Stops, Hears, UndoAhead, Clear
<1> QED
  BY <1>3, HeardKept

\* After the dispatch: a card, a stop, and who goes away.
LEMMA StopsHeard ==
  ASSUME Typed, Away(dev, here), BeginRefused \/ ShowAgain \/ Stop \/ StopTask \/ Leave \/ SignOut,
         Heard(dev, wire, server, here)
  PROVE  Heard(dev', wire', server', here')
<1>1. ASSUME Only(dev, dev', {"active", "cancels", "writes"}), Moved(dev, wire, dev', wire'),
             Quiet(dev) => Quiet(dev'),
             wire' = wire, server' = server, here' # "out"
      PROVE  Heard(dev', wire', server', here')
  <2>1. /\ Only(dev, dev', {"disk", "writes", "obj", "reports", "active", "cancels"})
        /\ (UndoFirst(dev.writes) => UndoFirst(dev'.writes))
    BY <1>1 DEF Only, Moved
  <2>2. Clear(dev, wire, server) => Clear(dev', wire', server')
    BY <1>1 DEF Clear
  <2> QED
    BY <1>1, <2>1, <2>2, HeardStill
<1>2. CASE BeginRefused
  <2>1. Only(dev, dev', {"active", "cancels", "writes"}) /\ wire' = wire /\ server' = server /\ here' # "out"
    BY <1>2, BeginRefusedFacts DEF BeginRefused, Only
  <2> QED
    BY <1>1, <1>2, <2>1, BeginRefusedFacts
<1>3. CASE ShowAgain
  <2>1. Only(dev, dev', {"active", "cancels", "writes"}) /\ wire' = wire /\ server' = server /\ here' # "out"
    BY <1>3, ShowAgainFacts DEF ShowAgain, Only
  <2> QED
    BY <1>1, <1>3, <2>1, ShowAgainFacts
<1>4. CASE StopTask
  <2>1. Only(dev, dev', {"active", "cancels", "writes"}) /\ wire' = wire /\ server' = server /\ here' # "out"
    BY <1>4, StopTaskFacts DEF StopTask, Only
  <2> QED
    BY <1>1, <1>4, <2>1, StopTaskFacts
<1>5. CASE Stop
  <2>1. here # "out"
    BY <1>5 DEF Stop, Away
  <2> QED
    BY <1>5, <2>1, StopsHears, StopFacts DEF Stop
<1>6. CASE Leave
  BY <1>6, StopsHears, LeaveFacts DEF Leave
<1>7. CASE SignOut
  BY <1>7, SignOutFacts DEF Heard
<1> QED
  BY <1>2, <1>3, <1>4, <1>5, <1>6, <1>7

\* After the dispatch: a cancellation goes on.  Only the companion's leaves the coach, where nobody
\* is
\* signed in.
LEMMA CancelHeard ==
  ASSUME Typed, seen.dispatches = 1, NEW c \in Cancels \ {"undo"}, CancelLands(c),
         Heard(dev, wire, server, here)
  PROVE  Heard(dev', wire', server', here')
<1>0. /\ Sound(dev) /\ wire' = wire /\ server' = server /\ here' = here
      /\ dev.writes # << >> /\ Head(dev.writes).by = c
  BY DEF Typed, CancelLands, Lands
<1>1. CASE dev'.coach = "off"
  BY <1>1 DEF Heard
<1>2. CASE dev'.coach # "off"
  <2>1. /\ \E x \in Queued(dev) : x.by = c
        /\ Moved(dev, wire, dev', wire')
        /\ \A b \in Cancels : b # c => dev'.cancels[b] = dev.cancels[b]
        /\ \/ dev'.coach = IF dev.busy.route THEN "off" ELSE dev.coach
           \/ /\ ~HasTask \/ here = "out"
              /\ dev'.coach = dev.coach
    BY CancelLandsFacts
  <2>2. dev.coach # "off" /\ dev.busy.route /\ dev.task # "none"
    BY <1>2, <2>1 DEF Heard
  <2>3. HasTask
    BY <2>2 DEF HasTask
  <2>4. here = "out" /\ ~dev.cancels["stop"].on /\ ~dev.cancels["leave"].on
    BY <1>2, <2>1, <2>2, <2>3 DEF Heard
  <2>5. c = "task"
    <3>1. c \in {"stop", "leave", "task"}
      BY DEF Cancels
    <3> QED
      BY <1>0, <2>1, <2>4, <3>1 DEF Sound, Called
  <2> DEFINE d == CallEnds(dev, c)
  <2>6. /\ Sound(d) /\ Only(dev, d, {"cancels", "disk", "writes"}) /\ (Quiet(dev) => Quiet(d))
    BY <1>0, CallEndsFacts
  <2>7. dev' = TaskCancelled(d) \/ dev' = d
    BY <2>5 DEF CancelLands, CallEnds
  <2> HIDE DEF d
  <2>8. d.busy.route
    BY <2>2, <2>6 DEF Only, Fields
  <2>9. TaskCancelled(d).coach = "off"
    BY <2>6, <2>8, TaskCancelledFacts
  <2>10. dev' = d
    BY <1>2, <2>7, <2>9
  <2>11. Only(dev, dev', {"disk", "writes", "obj", "reports", "active", "cancels"})
    BY <2>6, <2>10 DEF Only
  <2>12. UndoFirst(dev.writes) => UndoFirst(dev'.writes)
    BY <2>1 DEF Moved
  <2>13. dev'.cancels["stop"].on = dev.cancels["stop"].on /\ dev'.cancels["leave"].on = dev.cancels["leave"].on
    BY <2>1, <2>5 DEF Cancels
  <2> QED
    BY <1>0, <2>4, <2>6, <2>10, <2>11, <2>12, <2>13, HeardStill DEF Clear
<1> QED
  BY <1>1, <1>2

\* After the dispatch: the steps that move the device.
LEMMA MovingHeard ==
  ASSUME Typed, Away(dev, here), seen.dispatches = 1, Moving, Heard(dev, wire, server, here)
  PROVE  Heard(dev', wire', server', here')
  BY CoachHeard, ReportsHeard, StopsHeard, CancelHeard DEF Moving

\* After the dispatch: a write is done, and neither the coach nor the cancellations change.
LEMMA LandedHeard ==
  ASSUME Typed, Heard(dev, wire, server, here), dev.writes # << >>, Head(dev.writes).by # "undo",
         Only(Landed(dev), dev', {"writes", "obj", "reports", "active", "start", "restore"}),
         UndoFirst(Landed(dev).writes) => UndoFirst(dev'.writes),
         Clear(dev, wire, server) => Clear(dev', wire', server'), here' = here
  PROVE  Heard(dev', wire', server', here')
<1> DEFINE l == Landed(dev)
<1>1. Only(dev, l, {"disk", "writes"}) /\ l.writes = Tail(dev.writes) /\ dev.writes \in Seq(Calls)
  BY LandedFacts, QueuedFacts DEF Typed, Sound
<1>2. UndoFirst(dev.writes) => UndoFirst(l.writes)
  BY <1>1, UndoLanded
<1>3. Only(l, dev', {"writes", "obj", "reports", "active", "start", "restore"}) /\ (UndoFirst(l.writes) => UndoFirst(dev'.writes))
  OBVIOUS
<1> HIDE DEF l
<1>4. dev'.coach = dev.coach /\ dev'.busy = dev.busy /\ dev'.task = dev.task /\ dev'.cancels = dev.cancels
  BY <1>1, <1>3 DEF Only, Fields
<1>5. Hears(dev, wire, server, here, dev', wire', server', here')
  BY <1>2, <1>3, <1>4 DEF Hears, UndoAhead
<1> QED
  BY <1>5, HeardKept

\* After the dispatch: a start that is over hears of its write.
LEMMA StartLandsHeard ==
  ASSUME Typed, Starting(dev), After(dev, wire), StartLands, Heard(dev, wire, server, here)
  PROVE  Heard(dev', wire', server', here')
<1> DEFINE l == Landed(dev)
           n == Head(dev.writes).n
           pc == dev.start[n].pc
<1>1. dev.writes # << >> /\ Head(dev.writes).by = "start" /\ n \in Starts /\ Sound(dev)
  BY StartLandsFacts DEF Typed
<1>2. Sound(l) /\ Only(dev, l, {"disk", "writes"}) /\ Head(dev.writes) \in Queued(dev) /\ (Quiet(dev) => Quiet(l))
  BY <1>1, LandedFacts, LandedQuiet
<1>3. pc \in {"running", "failing"}
  BY <1>1, <1>2 DEF Starting, Writing, After, Live, Admitting
<1>4. /\ wire' = wire /\ server' = server /\ here' = here
      /\ \/ dev' = At(l, n, "done") \/ dev' = Told(At(l, n, "done"), "active", n)
         \/ Only(l, dev', {"active", "start"}) /\ (Quiet(l) => Quiet(dev'))
  BY <1>3, StartLandsFacts DEF StartLands
<1> HIDE DEF n, pc
<1>5. ASSUME Only(l, dev', {"writes", "obj", "reports", "active", "start"}),
             Quiet(l) => Quiet(dev'),
             UndoFirst(l.writes) => UndoFirst(dev'.writes)
      PROVE  Heard(dev', wire', server', here')
  <2>1. Only(l, dev', {"writes", "obj", "reports", "active", "start", "restore"})
    BY <1>5 DEF Only
  <2>2. Clear(dev, wire, server) => Clear(dev', wire', server')
    BY <1>2, <1>4, <1>5 DEF Clear
  <2> QED
    BY <1>1, <1>4, <1>5, <2>1, <2>2, LandedHeard
<1> HIDE DEF l
<1>6. CASE Only(l, dev', {"active", "start"}) /\ (Quiet(l) => Quiet(dev'))
  <2>1. Only(l, dev', {"writes", "obj", "reports", "active", "start"}) /\ dev'.writes = l.writes
    BY <1>6 DEF Only, Fields
  <2> QED
    BY <1>5, <1>6, <2>1
<1> DEFINE a == At(l, n, "done")
<1>7. Sound(a) /\ Only(l, a, {"start"}) /\ (Quiet(l) => Quiet(a))
  <2>1. "done" \in Pcs
    BY DEF Pcs
  <2> QED
    BY <1>1, <1>2, <2>1, AtFacts
<1>8. dev' = a \/ dev' = Told(a, "active", n) \/ (Only(l, dev', {"active", "start"}) /\ (Quiet(l) => Quiet(dev')))
  BY <1>4
<1> HIDE DEF a
<1>9. CASE dev' = a
  <2>1. Only(l, dev', {"writes", "obj", "reports", "active", "start"}) /\ dev'.writes = l.writes
    BY <1>7, <1>9 DEF Only, Fields
  <2> QED
    BY <1>5, <1>7, <1>9, <2>1
<1>10. CASE dev' = Told(a, "active", n)
  <2>1. "active" \in Statuses /\ Plain("active")
    BY JournalFacts DEF Plain
  <2>2. Moves(a, dev', {n}) /\ Only(a, dev', {"obj", "reports", "writes"}) /\ (Quiet(a) => Quiet(dev'))
    BY <1>1, <1>7, <1>10, <2>1, ToldFacts
  <2>3. Only(l, dev', {"writes", "obj", "reports", "active", "start"}) /\ a.writes = l.writes
    BY <1>7, <2>2 DEF Only, Fields
  <2>4. UndoFirst(l.writes) => UndoFirst(dev'.writes)
    BY <2>2, <2>3 DEF Moves
  <2> QED
    BY <1>5, <1>7, <2>2, <2>3, <2>4
<1> QED
  BY <1>6, <1>8, <1>9, <1>10

\* After the dispatch: the undo ends the coach, or is refused.
LEMMA UndoLandsHeard ==
  ASSUME Typed, UndoLands, Heard(dev, wire, server, here)
  PROVE  seen'.lost \/ Heard(dev', wire', server', here')
<1>1. PICK n, b : /\ n \in Starts /\ dev' = Caught(b, n) /\ Sound(b)
                  /\ \/ b.coach = IF dev.busy.route THEN "off" ELSE dev.coach
                     \/ b.coach = dev.coach /\ seen' = [seen EXCEPT !.lost = @ \/ dev.coach # "off"]
  BY UndoLandsFacts
<1>2. Only(b, dev', {"busy", "active", "obj", "start", "writes"})
  BY <1>1, CaughtFacts
<1>3. dev'.coach = b.coach /\ seen \in Histories
  BY <1>2 DEF Only, Fields, Typed
<1>4. CASE dev.coach = "off"
  BY <1>1, <1>3, <1>4 DEF Heard
<1>5. CASE dev.coach # "off"
  <2>1. dev.busy.route
    BY <1>5 DEF Heard
  <2> QED
    BY <1>1, <1>3, <1>5, <2>1 DEF Heard, Histories
<1> QED
  BY <1>4, <1>5

\* After the dispatch: the starts.
LEMMA StartsHeard ==
  ASSUME Typed, Starting(dev), Claiming(dev, wire), After(dev, wire), StartStep,
         Heard(dev, wire, server, here)
  PROVE  seen'.lost \/ Heard(dev', wire', server', here')
<1>0. Sound(dev) /\ Spent(dev.disk) /\ \A n \in Starts : ~Live(dev, n)
  BY DEF Typed, After
<1>1. ASSUME NEW n \in Starts, Begin(n)
      PROVE  FALSE
  BY <1>0, <1>1, BeginFacts DEF MayStart, Spent
<1>2. ASSUME NEW n \in Starts, Prepared(n) \/ Rounded(n) \/ Admitted(n) \/ Submitted(n)
      PROVE  FALSE
  BY <1>0, <1>2 DEF Prepared, Rounded, Admitted, Submitted, Live, Admitting
<1>3. ASSUME NEW m \in wire, Claims(m)
      PROVE  FALSE
  <2>1. m.n \in Starts /\ m \in Asks(wire, "claim")
    BY <1>3, ClaimsFacts
  <2> QED
    BY <1>0, <2>1 DEF Claiming, Live, Admitting
<1> QED
  BY <1>1, <1>2, <1>3, StartLandsHeard, UndoLandsHeard DEF StartStep

\* After the dispatch: the restore reads what is spent; there is a coach only before its undo.
LEMMA RestoreHeard ==
  ASSUME Typed, Restoring(dev, wire), RestoreStep \/ Outside, Heard(dev, wire, server, here)
  PROVE  Heard(dev', wire', server', here')
<1>0. Sound(dev) /\ dev.writes \in Seq(Calls)
  BY QueuedFacts DEF Typed, Sound
<1>1. CASE RestoreLands
  <2> DEFINE l == Landed(dev)
  <2>1. dev.writes # << >> /\ Head(dev.writes).by = "restore" /\ Only(l, dev', {"restore"})
    BY <1>1, RestoreLandsFacts
  <2>2. Head(dev.writes) \in Queued(dev)
    BY <1>0, <2>1, LandedFacts
  <2>3. ~Clear(dev, wire, server)
    BY <2>1, <2>2 DEF Clear, Quiet
  <2>4. /\ Only(l, dev', {"writes", "obj", "reports", "active", "start", "restore"})
        /\ dev'.writes = l.writes
    BY <2>1 DEF Only, Fields
  <2>5. here' = here
    BY <1>1 DEF RestoreLands
  <2> QED
    BY <2>1, <2>3, <2>4, <2>5, LandedHeard
<1>2. ASSUME NEW m \in wire, RestoreReports(m)
      PROVE  Heard(dev', wire', server', here')
  <2>1. /\ m \in Asks(wire, "restore") /\ Only(dev, dev', {"restore", "writes"})
        /\ dev'.writes = dev.writes \/ \E x \in Calls : x.by = "restore" /\ dev'.writes = Append(dev.writes, x)
    BY <1>2, RestoreReportsFacts
  <2>2. ~Clear(dev, wire, server)
    BY <2>1 DEF Restoring, Clear, Quiet
  <2>3. UndoFirst(dev.writes) => UndoFirst(dev'.writes)
    BY <1>0, <2>1, UndoAppended
  <2>4. dev'.coach = dev.coach /\ dev'.busy = dev.busy /\ dev'.task = dev.task /\ dev'.cancels = dev.cancels
    BY <2>1 DEF Only, Fields
  <2>5. here' = here
    BY <1>2 DEF RestoreReports
  <2>6. Hears(dev, wire, server, here, dev', wire', server', here')
    BY <2>2, <2>3, <2>4, <2>5 DEF Hears, UndoAhead
  <2> QED
    BY <2>6, HeardKept
<1>3. CASE SignIn
  <2>1. here = "out" /\ dev.writes = << >> /\ Only(dev, dev', {"restore", "writes"})
    BY <1>3, SignInFacts
  <2>2. ~UndoAhead(dev)
    BY <2>1 DEF UndoAhead, UndoFirst
  <2>3. dev'.coach = dev.coach
    BY <2>1 DEF Only, Fields
  <2> QED
    BY <2>1, <2>2, <2>3 DEF Heard
<1>4. CASE Outside
  <2>1. dev' = dev /\ (here' = here \/ here' = "in")
    BY <1>4 DEF Outside, SessionCloses, OtherClaims, Return, ServeLate
  <2>2. Clear(dev, wire, server) => Clear(dev', wire', server')
    BY <1>4, OutsideClear
  <2>3. Hears(dev, wire, server, here, dev', wire', server', here')
    BY <2>1, <2>2 DEF Hears
  <2> QED
    BY <2>3, HeardKept
<1> QED
  BY <1>1, <1>2, <1>3, <1>4 DEF RestoreStep

\* A crash takes the coach.
LEMMA RestartHeard ==
  ASSUME Typed, Restart
  PROVE  Heard(dev', wire', server', here')
<1>1. dev \in Device
  BY DEF Typed, Sound
<1>2. PICK b : b = Begun(dev) /\ dev' = Restored(b)
  BY RestartFacts
<1>3. Sound(b) /\ b.coach = "off"
  BY <1>1, <1>2, BegunFacts
<1>4. Only(b, dev', {"restore", "writes"})
  BY <1>2, <1>3, RestoredFacts
<1>5. dev'.coach = "off"
  BY <1>3, <1>4 DEF Only, Fields
<1> QED
  BY <1>5 DEF Heard

\* A task that nobody finishes is not forgotten.
LEMMA LostStays ==
  ASSUME Typed, Next, seen.lost
  PROVE  seen'.lost
<1>1. seen \in Histories
  BY DEF Typed
<1>2. CASE UndoLands
  BY <1>1, <1>2, UndoLandsFacts DEF Histories
<1>3. ASSUME NEW n \in Starts, Submitted(n)
      PROVE  seen'.lost
  BY <1>1, <1>3 DEF Submitted, Histories
<1>4. CASE StartLands \/ \E n \in Starts : Begin(n) \/ Prepared(n) \/ Rounded(n) \/ Admitted(n)
  BY <1>4 DEF StartLands, Begin, Prepared, Rounded, Admitted
<1>5. CASE \E m \in wire : Claims(m)
  BY <1>5 DEF Claims
<1>6. CASE Moving
  BY <1>6, MovingLessens DEF Recalled
<1>7. CASE RestoreStep \/ Outside
  BY <1>7 DEF RestoreStep, Outside, RestoreLands, SignIn, RestoreReports, SessionCloses,
     OtherClaims, Return, ServeLate
<1>8. CASE Restart
  BY <1>1, <1>8 DEF Restart, Histories
<1> QED
  BY <1>2, <1>3, <1>4, <1>5, <1>6, <1>7, <1>8, StepKinds DEF StartStep

\* A step of the starts, of the restore or of the server before the dispatch.
LEMMA UntoldStep ==
  ASSUME Base, Before(dev, wire), Away(dev, here), seen.dispatches = 0, Untold(dev, wire, server),
         Next
  PROVE  Unheard'
<1>0. Typed /\ Starting(dev) /\ Claiming(dev, wire) /\ Restoring(dev, wire)
  BY DEF Base
<1>1. CASE Moving
  <2>1. seen'.dispatches = seen.dispatches
    BY <1>0, <1>1, MovingLessens DEF Recalled
  <2> QED
    BY <1>0, <1>1, <2>1, MovingUntold DEF Unheard
<1>2. CASE StartStep
  BY <1>0, <1>2, StartsUntold DEF Unheard
<1>3. CASE RestoreStep
  <2>1. seen' = seen
    BY <1>3 DEF RestoreStep, RestoreLands, SignIn, RestoreReports
  <2> QED
    BY <1>0, <1>3, <2>1, RestoreUntold DEF Unheard
<1>4. CASE Outside
  <2>1. seen' = seen
    BY <1>4 DEF Outside, SessionCloses, OtherClaims, Return, ServeLate
  <2> QED
    BY <1>0, <1>4, <2>1, OutsideUntold DEF Unheard
<1>5. CASE Restart
  <2>1. seen'.dispatches = seen.dispatches
    BY <1>0, <1>5 DEF Restart, Typed, Histories
  <2> QED
    BY <1>0, <1>5, <2>1, RestartUntold DEF Unheard
<1> QED
  BY <1>1, <1>2, <1>3, <1>4, <1>5, StepKinds

\* A step after it.
LEMMA HeardStep ==
  ASSUME Base, After(dev, wire), Away(dev, here), seen.dispatches = 1,
         Heard(dev, wire, server, here), Next
  PROVE  Unheard'
<1>0. Typed /\ Starting(dev) /\ Claiming(dev, wire) /\ Restoring(dev, wire)
  BY DEF Base
<1>1. CASE Moving
  <2>1. seen'.dispatches = seen.dispatches
    BY <1>0, <1>1, MovingLessens DEF Recalled
  <2> QED
    BY <1>0, <1>1, <2>1, MovingHeard DEF Unheard
<1>2. CASE StartStep
  <2>1. seen'.dispatches = seen.dispatches
    BY <1>0, <1>2, StartsAfter
  <2> QED
    BY <1>0, <1>2, <2>1, StartsHeard DEF Unheard
<1>3. CASE RestoreStep \/ Outside
  <2>1. seen'.dispatches = seen.dispatches
    BY <1>0, <1>3, RestoreAfter
  <2> QED
    BY <1>0, <1>3, <2>1, RestoreHeard DEF Unheard
<1>4. CASE Restart
  <2>1. seen'.dispatches = seen.dispatches
    BY <1>0, <1>4, RestartAfter
  <2> QED
    BY <1>0, <1>4, <2>1, RestartHeard DEF Unheard
<1> QED
  BY <1>1, <1>2, <1>3, <1>4, StepKinds

\* Every step.
LEMMA UnheardStep ==
  ASSUME Base, Dispatched, Away(dev, here), Unheard, [Next]_vars
  PROVE  Unheard'
<1>1. CASE UNCHANGED vars
  <2>1. dev' = dev /\ wire' = wire /\ server' = server /\ here' = here /\ seen' = seen
    BY <1>1 DEF vars
  <2> QED
    BY <2>1 DEF Unheard
<1>2. CASE Next
  <2>1. CASE seen.early
    BY <1>2, <2>1, EarlyStays DEF Unheard, Base
  <2>2. CASE seen.lost
    BY <1>2, <2>2, LostStays DEF Unheard, Base
  <2>3. CASE ~seen.early /\ ~seen.lost
    BY <1>2, <2>3, UntoldStep, HeardStep DEF Unheard, Dispatched
  <2> QED
    BY <2>1, <2>2, <2>3
<1> QED
  BY <1>1, <1>2

\* The invariant that the last theorem needs.
Claimed == Away(dev, here) /\ Mine(dev, server) /\ Unheard

\* It holds at the start.
LEMMA ClaimedInit == Init => Claimed
<1> SUFFICES ASSUME Init
             PROVE  Claimed
  OBVIOUS
<1>1. /\ wire = {} /\ seen.dispatches = 0 /\ here = "in" /\ server.status = "absent"
  BY DEF Init
<1>2. /\ dev.disk = NoJournal /\ dev.writes = << >> /\ dev.coach = "off" /\ dev.active = "none"
      /\ dev.reports.queue = << >> /\ dev.restore.pc = "idle" /\ dev.restore.j = NoJournal
      /\ \A c \in Cancels : ~dev.cancels[c].on /\ ~dev.cancels[c].attached
      /\ \A n \in Starts : dev.start[n].pc = "unused" /\ dev.obj[n] = NoJournal
  BY DEF Init, Fresh, NoCancel
<1>3. Queued(dev) = {} /\ Elements(dev.reports.queue) = {}
  BY <1>2 DEF Queued, Elements
<1>4. NoJournal.phase = "none" /\ NoJournal.report = NoReport /\ NoReport.status = "absent"
  BY DEF NoJournal, NoReport
<1>5. \A n \in Starts : ~Live(dev, n) /\ dev.start[n].pc \notin Owning \cup {"submitting", "creating"}
  BY <1>2 DEF Live, Admitting, Owning
<1>6. Clear(dev, wire, server) /\ ~HasReport(dev.disk)
  BY <1>1, <1>2, <1>3, <1>4 DEF Clear, Quiet, Plain, Final, Ended, HasReport
<1>7. Untold(dev, wire, server)
  BY <1>5, <1>6 DEF Untold
<1>8. Mine(dev, server)
  BY <1>2, <1>3, <1>4, <1>5 DEF Mine, Unclaimed
<1> QED
  BY <1>1, <1>2, <1>7, <1>8 DEF Claimed, Away, Unheard

\* It holds in every state.
LEMMA ClaimedAlways == Spec => []Claimed
<1>1. Base /\ Dispatched /\ Claimed /\ [Next]_vars => Claimed'
  <2> SUFFICES ASSUME Base, Dispatched, Claimed, [Next]_vars
               PROVE  Claimed'
    OBVIOUS
  <2>1. Typed /\ Starting(dev) /\ Claiming(dev, wire) /\ Away(dev, here) /\ Mine(dev, server) /\ Unheard
    BY DEF Base, Claimed
  <2> QED
    BY <2>1, AwayStep, MineStep, UnheardStep DEF Claimed
<1> QED
  BY <1>1, ClaimedInit, BaseAlways, DispatchedAlways, PTL DEF Spec

\* The coach asks the model only under a claim of this computer, and not after the teacher was told
\* that the explanation is over, unless the student stopped it before its dispatch or nobody could
\* stop
\* it (Explanation's AsksUnderClaim).
THEOREM AsksUnderClaimHolds == Spec => []AsksUnderClaim
<1>1. Dispatched /\ Claimed => AsksUnderClaim
  <2> SUFFICES ASSUME Dispatched, Claimed, dev.coach = "asking"
               PROVE  server.owner = "me" /\ (server.status \notin Final \/ seen.early \/ seen.lost)
    BY DEF AsksUnderClaim
  <2>1. server.owner = "me"
    BY DEF Claimed, Mine, Unclaimed
  <2>2. ASSUME ~seen.early, ~seen.lost
        PROVE  server.status \notin Final
    <3>1. Heard(dev, wire, server, here)
      BY <2>2 DEF Dispatched, Before, Calm, Claimed, Unheard
    <3> QED
      BY <3>1 DEF Heard, UndoAhead, Clear, Plain
  <2> QED
    BY <2>1, <2>2
<1> QED
  BY <1>1, ClaimedAlways, DispatchedAlways, PTL
================================================================================
