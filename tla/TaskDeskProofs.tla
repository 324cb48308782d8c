---------------------------- MODULE TaskDeskProofs ----------------------------
(***************************************************************************)
(* Theorems about TaskDesk, for any tasks and bounds.  What TypeOK says     *)
(* holds however the window and the restore are ordered; the other theorems *)
(* are about a launch, where the window opens after the restore.            *)
(***************************************************************************)
EXTENDS TaskDesk, TLAPS

(***************************************************************************)
(* The queue of the history.                                               *)
(***************************************************************************)
Entries == Tasks \X Phases

\* A phase of t waits to be written.
Queued(t, q) == \E i \in 1 .. Len(q) : q[i][1] = t

\* The newest phase of t that waits is p.
LastQueued(t, p, q) ==
  \E i \in 1 .. Len(q) : q[i] = <<t, p>> /\ \A j \in i + 1 .. Len(q) : q[j][1] # t

\* What the store will hold of t once the queue is written.
WillBe(t, p, q, s) == LastQueued(t, p, q) \/ (~Queued(t, q) /\ s[t] = p)

(***************************************************************************)
(* The inductive invariant of a launch.                                    *)
(***************************************************************************)
Ended == Over \cup {"none"}

\* The phase of t that the window shows or, before the restore, would show.
Shown(t) == IF phase[t] = "none" THEN saved[t] ELSE phase[t]

\* Nothing out of the ordinary has happened to t.
Clean(t) == t \notin stopped \cup revived \cup lost

\* The store will hold what the window shows, and only that is on its way.
Synced ==
  \A t \in Tasks :
    IF phase[t] = "none" THEN ~Queued(t, queue) ELSE WillBe(t, phase[t], queue, saved)

\* Who starts a task holds the reservation, and a task that the window does not
\* show has nobody at work.
Submitting ==
  \A t \in Tasks :
    /\ sub[t] = "creating" => reservation = t /\ turn[t] = "none"
    /\ turn[t] \in {"admitting", "prefetch"} => sub[t] = "starting" /\ reservation = t
    /\ sub[t] = "starting" => turn[t] # "active"
    /\ sub[t] = "new" => phase[t] = "none" /\ saved[t] = "none"
    /\ phase[t] = "none" =>
         /\ turn[t] = "none" /\ tool[t] = "idle" /\ sub[t] \in {"new", "done"}
         /\ restoring # t /\ reservation # t

\* Until the restore is done nobody submits, and what is to be restored is what
\* the store holds.
Launching ==
  /\ launch # "done" => reservation = None /\ \A t \in Tasks : sub[t] \in {"new", "done"}
  /\ launch = "due" => restoring = None /\ \A t \in Tasks : phase[t] = "none"
  /\ launch # "restoring" => pending = {} /\ restoring = None
  /\ \A t \in Tasks, p \in Phases :
       <<t, p>> \in pending => phase[t] = "none" /\ saved[t] = p /\ p \notin Ended
  /\ launch # "due" =>
       \A t \in Tasks :
         phase[t] = "none" /\ saved[t] \notin Ended => <<t, saved[t]>> \in pending
  /\ \A t \in Tasks :
       restoring = t =>
         /\ turn[t] = "none" /\ sub[t] = "done"
         /\ phase[t] \in Over => t \in stopped

\* t is shown as unfinished, or would be.
AtWork(t) == Clean(t) /\ Shown(t) \notin Ended

\* A task at work keeps the device; there is one.
OneActive ==
  /\ \A t \in Tasks :
       Clean(t) /\ Unfinished(t) => t \in routes \/ sub[t] = "creating"
  /\ \A t, u \in Tasks : AtWork(t) /\ AtWork(u) => t = u
  /\ reservation = Explanation => \A t \in Tasks : ~AtWork(t)

\* What the user stopped at work stays over, if nothing unusual follows.
ReachedIsOver ==
  reached \subseteq stopped
    /\ \A t \in reached \ (revived \cup lost) : Shown(t) \in Over

\* Nor is it being restored.
ReachedStays == \A t \in reached \ (revived \cup lost) : restoring # t

\* What holds in every state of a launch.
LaunchInv ==
  /\ TypeOK /\ Synced /\ Submitting /\ Launching
  /\ OneActive /\ ReachedIsOver /\ ReachedStays /\ RunningIsShown /\ NoOrphan

(***************************************************************************)
(* Types.                                                                  *)
(***************************************************************************)
\* A write that joins the queue is the newest of its task, and the others' are
\* what they were.
LEMMA AppendQueue ==
  ASSUME NEW q \in Seq(Entries), NEW t \in Tasks, NEW p \in Phases,
         NEW r, r = Append(q, <<t, p>>)
  PROVE  /\ r \in Seq(Entries)
         /\ LastQueued(t, p, r)
         /\ \A u \in Tasks \ {t} : Queued(u, r) <=> Queued(u, q)
         /\ \A u \in Tasks \ {t}, v \in Phases : LastQueued(u, v, r) <=> LastQueued(u, v, q)
<1>1. <<t, p>> \in Entries
  BY DEF Entries
<1>2. /\ r \in Seq(Entries) /\ Len(r) = Len(q) + 1 /\ Len(q) \in Nat
      /\ r[Len(q) + 1] = <<t, p>>
      /\ \A i \in 1 .. Len(q) : r[i] = q[i]
  BY <1>1
<1>3. <<t, p>>[1] = t
  OBVIOUS
<1>4. LastQueued(t, p, r)
  BY <1>2 DEF LastQueued
<1>5. ASSUME NEW u \in Tasks \ {t}
      PROVE  Queued(u, r) <=> Queued(u, q)
  BY <1>2, <1>3 DEF Queued
<1>6. ASSUME NEW u \in Tasks \ {t}, NEW v \in Phases
      PROVE  LastQueued(u, v, r) <=> LastQueued(u, v, q)
  <2>1. <<u, v>> # <<t, p>>
    OBVIOUS
  <2>2. ASSUME LastQueued(u, v, r) PROVE LastQueued(u, v, q)
    <3>1. PICK i \in 1 .. Len(r) :
            r[i] = <<u, v>> /\ \A j \in i + 1 .. Len(r) : r[j][1] # u
      BY <2>2 DEF LastQueued
    <3>2. i \in 1 .. Len(q)
      BY <1>2, <2>1, <3>1
    <3>3. \A j \in i + 1 .. Len(q) : q[j][1] # u
      BY <1>2, <3>1, <3>2
    <3> QED
      BY <1>2, <3>1, <3>2, <3>3 DEF LastQueued
  <2>3. ASSUME LastQueued(u, v, q) PROVE LastQueued(u, v, r)
    <3>1. PICK i \in 1 .. Len(q) :
            q[i] = <<u, v>> /\ \A j \in i + 1 .. Len(q) : q[j][1] # u
      BY <2>3 DEF LastQueued
    <3>2. i \in 1 .. Len(r) /\ r[i] = <<u, v>>
      BY <1>2, <3>1
    <3>3. \A j \in i + 1 .. Len(r) : r[j][1] # u
      <4> TAKE j \in i + 1 .. Len(r)
      <4>1. CASE j = Len(q) + 1
        BY <1>2, <1>3, <4>1
      <4>2. CASE j # Len(q) + 1
        <5>1. i \in Nat /\ Len(q) \in Nat /\ j \in i + 1 .. Len(q) + 1
          BY <1>2, <3>1
        <5>2. j \in i + 1 .. Len(q)
          BY <4>2, <5>1
        <5>3. j \in 1 .. Len(q)
          BY <5>1, <5>2
        <5> QED
          BY <1>2, <3>1, <5>2, <5>3
      <4> QED
        BY <4>1, <4>2
    <3> QED
      BY <3>2, <3>3 DEF LastQueued
  <2> QED
    BY <2>2, <2>3
<1> QED
  BY <1>2, <1>4, <1>5, <1>6

\* When the oldest write is done, nothing else waits, and a task without a write
\* keeps what the store has of it.
LEMMA TailQueue ==
  ASSUME NEW q \in Seq(Entries), q # << >>, NEW s \in [Tasks -> Phases], NEW r,
         r = [s EXCEPT ![Head(q)[1]] = Head(q)[2]], NEW w, w = Tail(q)
  PROVE  /\ w \in Seq(Entries) /\ Head(q) \in Entries /\ r \in [Tasks -> Phases]
         /\ \A u \in Tasks : Queued(u, w) => Queued(u, q)
         /\ \A u \in Tasks : ~Queued(u, q) => r[u] = s[u]
<1>1. /\ w \in Seq(Entries) /\ Len(q) \in Nat \ {0} /\ Len(w) = Len(q) - 1
      /\ \A i \in 1 .. Len(q) - 1 : w[i] = q[i + 1]
      /\ Head(q) = q[1] /\ q[1] \in Entries
  OBVIOUS
<1>2. Head(q)[1] \in Tasks /\ Head(q)[2] \in Phases
      /\ Head(q) = <<Head(q)[1], Head(q)[2]>>
  BY <1>1 DEF Entries
<1>3. r \in [Tasks -> Phases]
  BY <1>2
<1>4. ASSUME NEW u \in Tasks, Queued(u, w) PROVE Queued(u, q)
  <2>1. PICK i \in 1 .. Len(w) : w[i][1] = u
    BY <1>4 DEF Queued
  <2>2. i + 1 \in 1 .. Len(q) /\ q[i + 1][1] = u
    BY <1>1, <2>1
  <2> QED
    BY <2>2 DEF Queued
<1>5. ASSUME NEW u \in Tasks, ~Queued(u, q) PROVE r[u] = s[u]
  <2>1. 1 \in 1 .. Len(q)
    BY <1>1
  <2>2. Head(q)[1] # u
    BY <1>1, <1>5, <2>1 DEF Queued
  <2> QED
    BY <2>2
<1> QED
  BY <1>1, <1>3, <1>4, <1>5

\* What the store will hold stays the same when the oldest write is done.
LEMMA TailWillBe ==
  ASSUME NEW q \in Seq(Entries), q # << >>, NEW s \in [Tasks -> Phases], NEW r,
         r = [s EXCEPT ![Head(q)[1]] = Head(q)[2]], NEW w, w = Tail(q),
         NEW u \in Tasks, NEW v \in Phases, WillBe(u, v, q, s)
  PROVE  WillBe(u, v, w, r)
<1>a. /\ w \in Seq(Entries) /\ Len(q) \in Nat \ {0} /\ Len(w) = Len(q) - 1
      /\ \A i \in 1 .. Len(q) - 1 : w[i] = q[i + 1]
      /\ Head(q) = q[1] /\ q[1] \in Entries
  OBVIOUS
<1>b. Head(q)[1] \in Tasks /\ Head(q)[2] \in Phases
      /\ Head(q) = <<Head(q)[1], Head(q)[2]>>
  BY <1>a DEF Entries
<1>c. ASSUME ~Queued(u, q) PROVE ~Queued(u, w) /\ r[u] = s[u]
  <2>1. ASSUME NEW i \in 1 .. Len(w) PROVE w[i][1] # u
    <3>1. i + 1 \in 1 .. Len(q) /\ w[i] = q[i + 1]
      BY <1>a
    <3> QED
      BY <1>c, <3>1 DEF Queued
  <2>2. 1 \in 1 .. Len(q)
    BY <1>a
  <2>3. Head(q)[1] # u
    BY <1>a, <1>c, <2>2 DEF Queued
  <2> QED
    BY <2>1, <2>3 DEF Queued
<1>1. CASE LastQueued(u, v, q)
  <2>1. PICK i \in 1 .. Len(q) :
          q[i] = <<u, v>> /\ \A j \in i + 1 .. Len(q) : q[j][1] # u
    BY <1>1 DEF LastQueued
  <2>2. CASE i = 1
    <3>1. r[u] = v
      BY <1>a, <1>b, <2>1, <2>2
    <3>2. ~Queued(u, w)
      <4> SUFFICES ASSUME NEW k \in 1 .. Len(w) PROVE w[k][1] # u
        BY DEF Queued
      <4>1. k + 1 \in i + 1 .. Len(q) /\ w[k] = q[k + 1]
        BY <1>a, <2>2
      <4> QED
        BY <2>1, <4>1
    <3> QED
      BY <3>1, <3>2 DEF WillBe
  <2>3. CASE i # 1
    <3> DEFINE k == i - 1
    <3>1. k \in 1 .. Len(w) /\ w[k] = <<u, v>>
      BY <1>a, <2>1, <2>3
    <3>2. \A j \in k + 1 .. Len(w) : w[j][1] # u
      <4> TAKE j \in k + 1 .. Len(w)
      <4>1. j + 1 \in i + 1 .. Len(q) /\ w[j] = q[j + 1]
        BY <1>a, <2>1
      <4> QED
        BY <2>1, <4>1
    <3> QED
      BY <3>1, <3>2 DEF LastQueued, WillBe
  <2> QED
    BY <2>2, <2>3
<1>2. CASE ~Queued(u, q) /\ s[u] = v
  BY <1>c, <1>2 DEF WillBe
<1> QED
  BY <1>1, <1>2 DEF WillBe

\* What a new snapshot changes.
LEMMA CommitFacts ==
  ASSUME TypeOK, NEW t \in Tasks, NEW p \in Phases, Commit(t, p)
  PROVE  /\ phase' = [phase EXCEPT ![t] = p] /\ phase' \in [Tasks -> Phases]
         /\ queue' \in Seq(Tasks \X Phases)
         /\ LastQueued(t, p, queue')
         /\ \A u \in Tasks \ {t} : Queued(u, queue') <=> Queued(u, queue)
         /\ \A u \in Tasks \ {t}, v \in Phases :
              LastQueued(u, v, queue') <=> LastQueued(u, v, queue)
         /\ revived' \subseteq Tasks /\ revived \subseteq revived'
         /\ \A u \in Tasks : u \in revived' <=>
              u \in revived \/ (u = t /\ phase[t] \in Over /\ p \notin Over)
<1>1. queue' = Append(queue, <<t, p>>) /\ queue \in Seq(Entries)
  BY DEF Commit, RecordTaskUpdate, TypeOK, Entries
<1>2. phase' = [phase EXCEPT ![t] = p] /\ phase' \in [Tasks -> Phases]
  BY DEF Commit, TypeOK
<1>3. revived' = IF phase[t] \in Over /\ p \notin Over THEN revived \cup {t} ELSE revived
  BY DEF Commit
<1>4. revived \subseteq Tasks
  BY DEF TypeOK
<1> QED
  BY <1>1, <1>2, <1>3, <1>4, AppendQueue DEF Entries

\* Every step keeps the types.
LEMMA TypeStep == TypeOK /\ [Next]_vars => TypeOK'
<1> SUFFICES ASSUME TypeOK, [Next]_vars PROVE TypeOK'
  OBVIOUS
<1> USE DEF deskVars, turnVars, restoreVars, stops
<1>p. {"none", "ready", "planning", "acting", "verifying", "completed", "failed",
       "cancelled", "blocked"} \subseteq Phases
  BY DEF Phases, Over
<1>c. ASSUME NEW t \in Tasks, NEW p \in Phases, Commit(t, p)
      PROVE  /\ phase' \in [Tasks -> Phases] /\ queue' \in Seq(Tasks \X Phases)
             /\ revived' \subseteq Tasks
  BY <1>c, CommitFacts
<1>1. ASSUME NEW t \in Tasks, Submit(t) PROVE TypeOK'
  BY <1>1, <1>p, <1>c DEF Submit, TypeOK
<1>2. ASSUME NEW t \in Tasks, StartTask(t) PROVE TypeOK'
  BY <1>2, <1>p, <1>c DEF StartTask, Created, TypeOK
<1>3. ASSUME NEW t \in Tasks, StartFails(t) PROVE TypeOK'
  <2>1. GiveUp(t)
    BY <1>3 DEF StartFails
  <2>2. /\ phase' \in [Tasks -> Phases] /\ queue' \in Seq(Tasks \X Phases)
        /\ revived' \subseteq Tasks
    BY <2>1, <1>p, <1>c DEF GiveUp, NoCommit, TypeOK
  <2>3. /\ routes' \subseteq Tasks /\ sub' \in [Tasks -> {"new", "creating", "starting", "done"}]
        /\ reservation' \in Tasks \cup {Explanation, None}
    BY <2>1 DEF GiveUp, Release, TypeOK
  <2>4. saved' \in [Tasks -> Phases]
    BY <1>3, <1>p DEF StartFails, Created, TypeOK
  <2> QED
    BY <1>3, <2>2, <2>3, <2>4 DEF StartFails, TypeOK
<1>4. ASSUME NEW t \in Tasks, Admit(t) PROVE TypeOK'
  BY <1>4, <1>p, <1>c DEF Admit, NoCommit, TypeOK
<1>5. ASSUME NEW t \in Tasks, PostStart(t) PROVE TypeOK'
  BY <1>5, <1>p, <1>c DEF PostStart, Release, NoCommit, TypeOK
<1>6. ASSUME NEW t \in Tasks, Stop(t) PROVE TypeOK'
  BY <1>6, <1>p, <1>c DEF Stop, TypeOK
<1>7. ASSUME NEW t \in Tasks, RequestTool(t) PROVE TypeOK'
  <2>1. asked[t] + 1 \in 0 .. MaxCalls
    BY <1>7, BoundsAssumption DEF RequestTool, TypeOK
  <2> QED
    BY <1>7, <1>p, <1>c, <2>1 DEF RequestTool, TypeOK
<1>8. ASSUME NEW t \in Tasks, StartTool(t) PROVE TypeOK'
  BY <1>8, <1>p, <1>c DEF StartTool, NoCommit, TypeOK
<1>9. ASSUME NEW t \in Tasks, ToolReturns(t) PROVE TypeOK'
  BY <1>9, <1>p, <1>c DEF ToolReturns, NoCommit, TypeOK
<1>10. ASSUME NEW t \in Tasks, EndTurn(t) PROVE TypeOK'
  BY <1>10 DEF EndTurn, Terminals, TypeOK
<1>11. ASSUME NEW t \in Tasks, Report(t) PROVE TypeOK'
  <2>1. PhaseOf(turn[t]) \in Phases
    BY <1>11 DEF Report, PhaseOf, Terminals, Phases, Over
  <2> QED
    BY <1>11, <1>c, <2>1 DEF Report, Release, TypeOK
<1>12. CASE ReserveClassroomExplanation
  BY <1>12 DEF ReserveClassroomExplanation, TypeOK
<1>13. CASE ReleaseReservation
  BY <1>13 DEF ReleaseReservation, TypeOK
<1>14. CASE ProcessExits
  BY <1>14 DEF ProcessExits, Terminals, TypeOK
<1>15. CASE Write
  <2>1. saved' \in [Tasks -> Phases] /\ queue' \in Seq(Tasks \X Phases)
    BY <1>15, TailQueue DEF Write, Entries, TypeOK
  <2> QED
    BY <1>15, <2>1 DEF Write, TypeOK
<1>16. CASE Restart
  <2>1. {queue[i][1] : i \in 1 .. Len(queue)} \subseteq Tasks
    BY DEF TypeOK
  <2>2. restarts + 1 \in 0 .. MaxRestarts
    BY <1>16, BoundsAssumption DEF Restart, TypeOK
  <2>3. lost' \subseteq Tasks
    BY <1>16, <2>1 DEF Restart, TypeOK
  <2> QED
    BY <1>16, <1>p, <2>2, <2>3 DEF Restart, TypeOK
<1>17. CASE BeginRestore
  <2>1. pending' \subseteq Tasks \X Phases
    BY <1>17 DEF BeginRestore, TypeOK
  <2> QED
    BY <1>17, <2>1 DEF BeginRestore, TypeOK
<1>18. ASSUME NEW t \in Tasks, RestoreTask(t) PROVE TypeOK'
  BY <1>18 DEF RestoreTask, TypeOK
<1>19. ASSUME NEW t \in Tasks, ResumeTurn(t) PROVE TypeOK'
  BY <1>19 DEF ResumeTurn, TypeOK
<1>20. ASSUME NEW t \in Tasks, ResumeFails(t) PROVE TypeOK'
  BY <1>20, <1>p, <1>c DEF ResumeFails, TypeOK
<1>21. CASE EndRestore
  BY <1>21 DEF EndRestore, TypeOK
<1>22. CASE UNCHANGED vars
  BY <1>22 DEF vars, TypeOK
<1> QED
  BY <1>1, <1>2, <1>3, <1>4, <1>5, <1>6, <1>7, <1>8, <1>9, <1>10, <1>11, <1>12, <1>13,
     <1>14, <1>15, <1>16, <1>17, <1>18, <1>19, <1>20, <1>21, <1>22
     DEF Next, SubmitStep, RestoreStep

\* So do the initial states.
LEMMA TypeInit == Init => TypeOK
BY BoundsAssumption DEF Init, TypeOK, Phases

\* Every part of the desk stays within its type, in a launch and after a sign-in
\* (TaskRuntime, TaskHistoryService, TaskApplicationService, LocalAgentRuntime).
THEOREM TypeCorrect == Spec => []TypeOK
BY TypeInit, TypeStep, PTL DEF Spec

\* What a new snapshot means for every task.
CommitEffect(t, p) ==
  /\ phase'[t] = p /\ \A u \in Tasks \ {t} : phase'[u] = phase[u]
  /\ LastQueued(t, p, queue')
  /\ \A u \in Tasks \ {t} : Queued(u, queue') <=> Queued(u, queue)
  /\ \A u \in Tasks \ {t}, v \in Phases :
       LastQueued(u, v, queue') <=> LastQueued(u, v, queue)
  /\ \A u \in Tasks : u \in revived' <=>
       u \in revived \/ (u = t /\ phase[t] \in Over /\ p \notin Over)

\* Every new snapshot has that effect.
LEMMA CommitEffects ==
  ASSUME LaunchInv, NEW t \in Tasks, NEW p \in Phases, Commit(t, p)
  PROVE  CommitEffect(t, p)
BY CommitFacts DEF CommitEffect, LaunchInv, TypeOK

\* What a write means for every task.
LEMMA WriteEffect ==
  ASSUME TypeOK, Write
  PROVE  /\ \A u \in Tasks : Queued(u, queue') => Queued(u, queue)
         /\ \A u \in Tasks : ~Queued(u, queue) => saved'[u] = saved[u]
         /\ \A u \in Tasks, v \in Phases :
              WillBe(u, v, queue, saved) => WillBe(u, v, queue', saved')
<1>1. queue \in Seq(Entries) /\ queue # << >> /\ saved \in [Tasks -> Phases]
  BY DEF Write, Entries, TypeOK
<1>2. queue' = Tail(queue) /\ saved' = [saved EXCEPT ![Head(queue)[1]] = Head(queue)[2]]
  BY DEF Write
<1>3. /\ \A u \in Tasks : Queued(u, queue') => Queued(u, queue)
      /\ \A u \in Tasks : ~Queued(u, queue) => saved'[u] = saved[u]
      /\ \A u \in Tasks, v \in Phases :
           WillBe(u, v, queue, saved) => WillBe(u, v, queue', saved')
  <2>1. \A u \in Tasks : Queued(u, queue') => Queued(u, queue)
    BY <1>1, <1>2, TailQueue
  <2>2. \A u \in Tasks : ~Queued(u, queue) => saved'[u] = saved[u]
    BY <1>1, <1>2, TailQueue
  <2>3. ASSUME NEW u \in Tasks, NEW v \in Phases, WillBe(u, v, queue, saved)
        PROVE  WillBe(u, v, queue', saved')
    BY <1>1, <1>2, <2>3, TailWillBe
  <2> QED
    BY <2>1, <2>2, <2>3
<1> QED
  BY <1>2, <1>3

\* The store will still hold what is shown: a new snapshot joins the queue, a
\* write takes the oldest from it.
LEMMA SyncedStep == RestoreFirst /\ LaunchInv /\ [Next]_vars => Synced'
<1> SUFFICES ASSUME RestoreFirst, LaunchInv, [Next]_vars PROVE Synced'
  OBVIOUS
<1> USE DEF deskVars, turnVars, restoreVars, stops, LaunchInv
<1>c. ASSUME NEW t \in Tasks, NEW p \in Phases, Commit(t, p)
      PROVE  CommitEffect(t, p)
  BY <1>c, CommitEffects
<1>p. {"ready", "planning", "acting", "verifying", "completed", "failed", "cancelled",
       "blocked"} \subseteq Phases \ {"none"}
  BY DEF Phases, Over
<1>1. ASSUME NEW t \in Tasks, Submit(t) PROVE Synced'
  BY <1>1, HoldersAssumption, <1>c, <1>p DEF Submit, Busy, CommitEffect, Synced,
     Submitting, Launching, Unfinished, WillBe, TypeOK
<1>2. ASSUME NEW t \in Tasks, StartTask(t) PROVE Synced'
  BY <1>2, HoldersAssumption, <1>c, <1>p DEF StartTask, Created, CommitEffect, Synced,
     Submitting, Launching, Unfinished, WillBe, TypeOK
<1>3. ASSUME NEW t \in Tasks, StartFails(t) PROVE Synced'
  BY <1>3, HoldersAssumption, <1>c, <1>p DEF StartFails, Created, GiveUp, Release,
     NoCommit, CommitEffect, Synced, Submitting, Launching, Unfinished, WillBe, TypeOK
<1>4. ASSUME NEW t \in Tasks, Admit(t) PROVE Synced'
  <2>1. CASE NoCommit
    BY <1>4, <2>1 DEF NoCommit, Admit, WillBe, Synced
  <2>2. CASE Commit(t, "acting")
    BY <1>4, <1>c, <1>p, <2>2 DEF Admit, CommitEffect, Synced, WillBe, TypeOK
  <2> QED
    BY <1>4, <2>1, <2>2 DEF Admit
<1>5. ASSUME NEW t \in Tasks, PostStart(t) PROVE Synced'
  <2>1. CASE NoCommit
    BY <1>5, <2>1 DEF NoCommit, PostStart, WillBe, Synced
  <2>2. CASE Commit(t, "verifying")
    BY <1>5, <1>c, <1>p, <2>2 DEF PostStart, CommitEffect, Synced, WillBe, TypeOK
  <2> QED
    BY <1>5, <2>1, <2>2 DEF PostStart
<1>6. ASSUME NEW t \in Tasks, Stop(t) PROVE Synced'
  BY <1>6, <1>c, <1>p DEF Stop, Unfinished, CommitEffect, Synced, WillBe, TypeOK
<1>7. ASSUME NEW t \in Tasks, RequestTool(t) PROVE Synced'
  BY <1>7, HoldersAssumption, <1>c, <1>p DEF RequestTool, CommitEffect, Synced,
     Submitting, Launching, Unfinished, WillBe, TypeOK
<1>8. ASSUME NEW t \in Tasks, StartTool(t) PROVE Synced'
  BY <1>8, HoldersAssumption, <1>c, <1>p DEF StartTool, NoCommit, CommitEffect, Synced,
     Submitting, Launching, Unfinished, WillBe, TypeOK
<1>9. ASSUME NEW t \in Tasks, ToolReturns(t) PROVE Synced'
  BY <1>9, HoldersAssumption, <1>c, <1>p DEF ToolReturns, NoCommit, CommitEffect, Synced,
     Submitting, Launching, Unfinished, WillBe, TypeOK
<1>10. ASSUME NEW t \in Tasks, EndTurn(t) PROVE Synced'
  BY <1>10, HoldersAssumption DEF EndTurn, Terminals, Synced, Submitting, Launching,
     Unfinished, WillBe, TypeOK
<1>11. ASSUME NEW t \in Tasks, Report(t) PROVE Synced'
  BY <1>11, HoldersAssumption, <1>c, <1>p DEF Report, Release, PhaseOf, Terminals,
     CommitEffect, Synced, Submitting, Launching, Unfinished, WillBe, TypeOK
<1>12. CASE ReserveClassroomExplanation
  BY <1>12, HoldersAssumption DEF ReserveClassroomExplanation, Busy, Synced, Submitting,
     Launching, Unfinished, WillBe, TypeOK
<1>13. CASE ReleaseReservation
  BY <1>13, HoldersAssumption DEF ReleaseReservation, Synced, Submitting, Launching,
     Unfinished, WillBe, TypeOK
<1>14. CASE ProcessExits
  BY <1>14, HoldersAssumption DEF ProcessExits, InActiveMap, Synced, Submitting,
     Launching, Unfinished, WillBe, TypeOK
<1>15. CASE Write
  BY <1>15, WriteEffect DEF Write, Synced, Submitting, Launching, Unfinished, WillBe,
     TypeOK
<1>16. CASE Restart
  BY <1>16 DEF Restart, Synced, Queued
<1>17. CASE BeginRestore
  BY <1>17, HoldersAssumption DEF BeginRestore, Synced, Submitting, Launching, Unfinished,
     WillBe, TypeOK
<1>18. ASSUME NEW t \in Tasks, RestoreTask(t) PROVE Synced'
  BY <1>18, HoldersAssumption DEF RestoreTask, Synced, Submitting, Launching, Unfinished,
     WillBe, TypeOK
<1>19. ASSUME NEW t \in Tasks, ResumeTurn(t) PROVE Synced'
  BY <1>19, HoldersAssumption DEF ResumeTurn, InActiveMap, Synced, Submitting, Launching,
     Unfinished, WillBe, TypeOK
<1>20. ASSUME NEW t \in Tasks, ResumeFails(t) PROVE Synced'
  BY <1>20, HoldersAssumption, <1>c, <1>p DEF ResumeFails, CommitEffect, Synced,
     Submitting, Launching, Unfinished, WillBe, TypeOK
<1>21. CASE EndRestore
  BY <1>21, HoldersAssumption DEF EndRestore, Synced, Submitting, Launching, Unfinished,
     WillBe, TypeOK
<1>22. CASE UNCHANGED vars
  BY <1>22 DEF vars, Synced, Submitting, Launching, Unfinished, WillBe, TypeOK
<1> QED
  BY <1>1, <1>2, <1>3, <1>4, <1>5, <1>6, <1>7, <1>8, <1>9, <1>10, <1>11, <1>12, <1>13,
     <1>14, <1>15, <1>16, <1>17, <1>18, <1>19, <1>20, <1>21, <1>22
     DEF Next, SubmitStep, RestoreStep

\* Each step of a submission hands the reservation on as it found it.
LEMMA SubmittingStep == RestoreFirst /\ LaunchInv /\ [Next]_vars => Submitting'
<1> SUFFICES ASSUME RestoreFirst, LaunchInv, [Next]_vars PROVE Submitting'
  OBVIOUS
<1> USE DEF deskVars, turnVars, restoreVars, stops, LaunchInv
<1>c. ASSUME NEW t \in Tasks, NEW p \in Phases, Commit(t, p)
      PROVE  CommitEffect(t, p)
  BY <1>c, CommitEffects
<1>p. {"ready", "planning", "acting", "verifying", "completed", "failed", "cancelled",
       "blocked"} \subseteq Phases \ {"none"}
  BY DEF Phases, Over
<1>1. ASSUME NEW t \in Tasks, Submit(t) PROVE Submitting'
  BY <1>1, HoldersAssumption, <1>c, <1>p DEF Submit, Busy, CommitEffect, Submitting,
     Launching, Synced, TypeOK, Ended, Over, Unfinished
<1>2. ASSUME NEW t \in Tasks, StartTask(t) PROVE Submitting'
  BY <1>2, HoldersAssumption, <1>c, <1>p DEF StartTask, Created, CommitEffect, Submitting,
     Launching, Synced, TypeOK, Ended, Over, Unfinished
<1>3. ASSUME NEW t \in Tasks, StartFails(t) PROVE Submitting'
  BY <1>3, HoldersAssumption, <1>c, <1>p DEF StartFails, Created, GiveUp, Release,
     NoCommit, CommitEffect, Submitting, Launching, Synced, TypeOK, Ended, Over,
     Unfinished
<1>4. ASSUME NEW t \in Tasks, Admit(t) PROVE Submitting'
  BY <1>4, HoldersAssumption, <1>c, <1>p DEF Admit, NoCommit, CommitEffect, Submitting,
     Launching, Synced, TypeOK, Ended, Over, Unfinished
<1>5. ASSUME NEW t \in Tasks, PostStart(t) PROVE Submitting'
  BY <1>5, HoldersAssumption, <1>c, <1>p DEF PostStart, NoCommit, Release, CommitEffect,
     Submitting, Launching, Synced, TypeOK, Ended, Over, Unfinished
<1>6. ASSUME NEW t \in Tasks, Stop(t) PROVE Submitting'
  BY <1>6, HoldersAssumption, <1>c, <1>p DEF Stop, InActiveMap, CommitEffect, Submitting,
     Launching, Synced, TypeOK, Ended, Over, Unfinished
<1>7. ASSUME NEW t \in Tasks, RequestTool(t) PROVE Submitting'
  BY <1>7, HoldersAssumption, <1>c, <1>p DEF RequestTool, CommitEffect, Submitting,
     Launching, Synced, TypeOK, Ended, Over, Unfinished
<1>8. ASSUME NEW t \in Tasks, StartTool(t) PROVE Submitting'
  BY <1>8, HoldersAssumption, <1>c, <1>p DEF StartTool, NoCommit, CommitEffect,
     Submitting, Launching, Synced, TypeOK, Ended, Over, Unfinished
<1>9. ASSUME NEW t \in Tasks, ToolReturns(t) PROVE Submitting'
  BY <1>9, HoldersAssumption, <1>c, <1>p DEF ToolReturns, NoCommit, CommitEffect,
     Submitting, Launching, Synced, TypeOK, Ended, Over, Unfinished
<1>10. ASSUME NEW t \in Tasks, EndTurn(t) PROVE Submitting'
  BY <1>10, HoldersAssumption DEF EndTurn, Terminals, Submitting, Launching, Synced,
     TypeOK, Ended, Over, Unfinished
<1>11. ASSUME NEW t \in Tasks, Report(t) PROVE Submitting'
  BY <1>11, HoldersAssumption, <1>c, <1>p DEF Report, Release, PhaseOf, Terminals,
     CommitEffect, Submitting, Launching, Synced, TypeOK, Ended, Over, Unfinished
<1>12. CASE ReserveClassroomExplanation
  BY <1>12, HoldersAssumption DEF ReserveClassroomExplanation, Busy, Submitting,
     Launching, Synced, TypeOK, Ended, Over, Unfinished
<1>13. CASE ReleaseReservation
  BY <1>13, HoldersAssumption DEF ReleaseReservation, Submitting, Launching, Synced,
     TypeOK, Ended, Over, Unfinished
<1>14. CASE ProcessExits
  BY <1>14, HoldersAssumption DEF ProcessExits, InActiveMap, Submitting, Launching,
     Synced, TypeOK, Ended, Over, Unfinished
<1>15. CASE Write
  BY <1>15, WriteEffect DEF Write, Submitting, Launching, Synced, TypeOK, Ended, Over,
     Unfinished
<1>16. CASE Restart
  BY <1>16, HoldersAssumption DEF Restart, Submitting, Launching, Synced, TypeOK, Ended,
     Over, Unfinished
<1>17. CASE BeginRestore
  BY <1>17, HoldersAssumption DEF BeginRestore, Submitting, Launching, Synced, TypeOK,
     Ended, Over, Unfinished
<1>18. ASSUME NEW t \in Tasks, RestoreTask(t) PROVE Submitting'
  BY <1>18, HoldersAssumption DEF RestoreTask, Submitting, Launching, Synced, TypeOK,
     Ended, Over, Unfinished
<1>19. ASSUME NEW t \in Tasks, ResumeTurn(t) PROVE Submitting'
  BY <1>19, HoldersAssumption DEF ResumeTurn, InActiveMap, Submitting, Launching, Synced,
     TypeOK, Ended, Over, Unfinished
<1>20. ASSUME NEW t \in Tasks, ResumeFails(t) PROVE Submitting'
  BY <1>20, HoldersAssumption, <1>c, <1>p DEF ResumeFails, CommitEffect, Submitting,
     Launching, Synced, TypeOK, Ended, Over, Unfinished
<1>21. CASE EndRestore
  BY <1>21, HoldersAssumption DEF EndRestore, Submitting, Launching, Synced, TypeOK,
     Ended, Over, Unfinished
<1>22. CASE UNCHANGED vars
  BY <1>22 DEF vars, Submitting, Launching, Synced, TypeOK, Ended, Over, Unfinished
<1> QED
  BY <1>1, <1>2, <1>3, <1>4, <1>5, <1>6, <1>7, <1>8, <1>9, <1>10, <1>11, <1>12, <1>13,
     <1>14, <1>15, <1>16, <1>17, <1>18, <1>19, <1>20, <1>21, <1>22
     DEF Next, SubmitStep, RestoreStep

\* What is to be restored is not touched before its turn.
LEMMA LaunchingStep == RestoreFirst /\ LaunchInv /\ [Next]_vars => Launching'
<1> SUFFICES ASSUME RestoreFirst, LaunchInv, [Next]_vars PROVE Launching'
  OBVIOUS
<1> USE DEF deskVars, turnVars, restoreVars, stops, LaunchInv
<1>c. ASSUME NEW t \in Tasks, NEW p \in Phases, Commit(t, p)
      PROVE  CommitEffect(t, p)
  BY <1>c, CommitEffects
<1>p. {"ready", "planning", "acting", "verifying", "completed", "failed", "cancelled",
       "blocked"} \subseteq Phases \ {"none"}
  BY DEF Phases, Over
<1>1. ASSUME NEW t \in Tasks, Submit(t) PROVE Launching'
  BY <1>1, HoldersAssumption, <1>c, <1>p DEF Submit, Busy, CommitEffect, Launching,
     Submitting, Synced, Ended, Over, Unfinished, TypeOK
<1>2. ASSUME NEW t \in Tasks, StartTask(t) PROVE Launching'
  BY <1>2, HoldersAssumption, <1>c, <1>p DEF StartTask, Created, CommitEffect, Launching,
     Submitting, Synced, Ended, Over, Unfinished, TypeOK
<1>3. ASSUME NEW t \in Tasks, StartFails(t) PROVE Launching'
  BY <1>3, HoldersAssumption, <1>c, <1>p DEF StartFails, Created, GiveUp, Release,
     NoCommit, CommitEffect, Launching, Submitting, Synced, Ended, Over, Unfinished,
     TypeOK
<1>4. ASSUME NEW t \in Tasks, Admit(t) PROVE Launching'
  BY <1>4, HoldersAssumption, <1>c, <1>p DEF Admit, NoCommit, CommitEffect, Launching,
     Submitting, Synced, Ended, Over, Unfinished, TypeOK
<1>5. ASSUME NEW t \in Tasks, PostStart(t) PROVE Launching'
  BY <1>5, HoldersAssumption, <1>c, <1>p DEF PostStart, NoCommit, Release, CommitEffect,
     Launching, Submitting, Synced, Ended, Over, Unfinished, TypeOK
<1>6. ASSUME NEW t \in Tasks, Stop(t) PROVE Launching'
  BY <1>6, HoldersAssumption, <1>c, <1>p DEF Stop, InActiveMap, CommitEffect, Launching,
     Submitting, Synced, Ended, Over, Unfinished, TypeOK
<1>7. ASSUME NEW t \in Tasks, RequestTool(t) PROVE Launching'
  BY <1>7, HoldersAssumption, <1>c, <1>p DEF RequestTool, CommitEffect, Launching,
     Submitting, Synced, Ended, Over, Unfinished, TypeOK
<1>8. ASSUME NEW t \in Tasks, StartTool(t) PROVE Launching'
  BY <1>8, HoldersAssumption, <1>c, <1>p DEF StartTool, NoCommit, CommitEffect, Launching,
     Submitting, Synced, Ended, Over, Unfinished, TypeOK
<1>9. ASSUME NEW t \in Tasks, ToolReturns(t) PROVE Launching'
  BY <1>9, HoldersAssumption, <1>c, <1>p DEF ToolReturns, NoCommit, CommitEffect,
     Launching, Submitting, Synced, Ended, Over, Unfinished, TypeOK
<1>10. ASSUME NEW t \in Tasks, EndTurn(t) PROVE Launching'
  BY <1>10, HoldersAssumption DEF EndTurn, Terminals, Launching, Submitting, Synced,
     Ended, Over, Unfinished, TypeOK
<1>11. ASSUME NEW t \in Tasks, Report(t) PROVE Launching'
  BY <1>11, HoldersAssumption, <1>c, <1>p DEF Report, Release, PhaseOf, Terminals,
     CommitEffect, Launching, Submitting, Synced, Ended, Over, Unfinished, TypeOK
<1>12. CASE ReserveClassroomExplanation
  BY <1>12, HoldersAssumption DEF ReserveClassroomExplanation, Busy, Launching,
     Submitting, Synced, Ended, Over, Unfinished, TypeOK
<1>13. CASE ReleaseReservation
  BY <1>13, HoldersAssumption DEF ReleaseReservation, Launching, Submitting, Synced,
     Ended, Over, Unfinished, TypeOK
<1>14. CASE ProcessExits
  BY <1>14, HoldersAssumption DEF ProcessExits, InActiveMap, Launching, Submitting,
     Synced, Ended, Over, Unfinished, TypeOK
<1>15. CASE Write
  BY <1>15, WriteEffect DEF Write, Launching, Submitting, Synced, Ended, Over, Unfinished,
     TypeOK
<1>16. CASE Restart
  BY <1>16, HoldersAssumption DEF Restart, Launching, Submitting, Synced, Ended, Over,
     Unfinished, TypeOK
<1>17. CASE BeginRestore
  BY <1>17, HoldersAssumption DEF BeginRestore, Launching, Submitting, Synced, Ended,
     Over, Unfinished, TypeOK
<1>18. ASSUME NEW t \in Tasks, RestoreTask(t) PROVE Launching'
  BY <1>18, HoldersAssumption DEF RestoreTask, Launching, Submitting, Synced, Ended, Over,
     Unfinished, TypeOK
<1>19. ASSUME NEW t \in Tasks, ResumeTurn(t) PROVE Launching'
  BY <1>19, HoldersAssumption DEF ResumeTurn, InActiveMap, Launching, Submitting, Synced,
     Ended, Over, Unfinished, TypeOK
<1>20. ASSUME NEW t \in Tasks, ResumeFails(t) PROVE Launching'
  BY <1>20, HoldersAssumption, <1>c, <1>p DEF ResumeFails, CommitEffect, Launching,
     Submitting, Synced, Ended, Over, Unfinished, TypeOK
<1>21. CASE EndRestore
  BY <1>21, HoldersAssumption DEF EndRestore, Launching, Submitting, Synced, Ended, Over,
     Unfinished, TypeOK
<1>22. CASE UNCHANGED vars
  BY <1>22 DEF vars, Launching, Submitting, Synced, Ended, Over, Unfinished, TypeOK
<1> QED
  BY <1>1, <1>2, <1>3, <1>4, <1>5, <1>6, <1>7, <1>8, <1>9, <1>10, <1>11, <1>12, <1>13,
     <1>14, <1>15, <1>16, <1>17, <1>18, <1>19, <1>20, <1>21, <1>22
     DEF Next, SubmitStep, RestoreStep

\* A snapshot of a task that is shown puts none to work that was not.
LEMMA CommitKeeps ==
  ASSUME LaunchInv, NEW t \in Tasks, NEW p \in Phases \ {"none"}, Commit(t, p),
         phase[t] # "none",
         \A u \in Tasks \ {t} : saved'[u] = saved[u],
         stopped \subseteq stopped', lost' = lost
  PROVE  \A u \in Tasks : AtWork(u)' => AtWork(u)
<1> SUFFICES ASSUME NEW u \in Tasks, AtWork(u)' PROVE AtWork(u)
  OBVIOUS
<1>1. CommitEffect(t, p)
  BY CommitEffects
<1>2. Clean(u)
  BY <1>1 DEF AtWork, Clean, CommitEffect
<1>3. CASE u = t
  <2>1. phase'[t] = p /\ p \notin Ended /\ t \notin revived'
    BY <1>1, <1>3 DEF AtWork, Clean, Shown, CommitEffect
  <2>2. phase[t] \notin Over
    BY <1>1, <2>1 DEF CommitEffect, Ended
  <2> QED
    BY <1>2, <1>3, <2>2 DEF AtWork, Shown, Ended
<1>4. CASE u # t
  <2>1. phase'[u] = phase[u] /\ saved'[u] = saved[u]
    BY <1>1, <1>4 DEF CommitEffect
  <2> QED
    BY <1>2, <2>1 DEF AtWork, Shown
<1> QED
  BY <1>3, <1>4

\* No step puts a task to work beside another: a submission finds the device free,
\* a restart brings back what the store holds.
LEMMA OneActiveStep == RestoreFirst /\ LaunchInv /\ [Next]_vars => OneActive'
<1> SUFFICES ASSUME RestoreFirst, LaunchInv, [Next]_vars PROVE OneActive'
  OBVIOUS
<1> USE DEF deskVars, turnVars, restoreVars, stops, LaunchInv
<1>c. ASSUME NEW t \in Tasks, NEW p \in Phases, Commit(t, p)
      PROVE  CommitEffect(t, p)
  BY <1>c, CommitEffects
<1>p. {"ready", "planning", "acting", "verifying", "completed", "failed", "cancelled",
       "blocked"} \subseteq Phases \ {"none"}
  BY DEF Phases, Over
<1>1. ASSUME NEW t \in Tasks, Submit(t) PROVE OneActive'
  <2>1. launch = "done" /\ reservation = None /\ \A u \in routes : phase[u] \in Over
    BY <1>1 DEF Submit, Busy
  <2>2. \A u \in Tasks : phase[u] = "none" => saved[u] \in Ended
    BY <2>1 DEF Launching
  <2>3. \A u \in Tasks : sub[u] # "creating"
    BY <2>1, HoldersAssumption DEF Submitting
  <2>4. \A u \in Tasks : ~AtWork(u)
    BY <2>1, <2>2, <2>3 DEF OneActive, AtWork, Shown, Unfinished, Ended
  <2>5. CommitEffect(t, "ready")
    BY <1>1, <1>c, <1>p DEF Submit
  <2>6. \A u \in Tasks \ {t} : ~AtWork(u)'
    BY <1>1, <2>4, <2>5 DEF Submit, AtWork, Shown, Clean, CommitEffect
  <2>7. \A u \in Tasks :
          (Clean(u) /\ Unfinished(u) => u \in routes \/ sub[u] = "creating")'
    BY <1>1, <2>5 DEF Submit, OneActive, Clean, Unfinished, CommitEffect, TypeOK
  <2> QED
    BY <1>1, <2>6, <2>7, HoldersAssumption DEF Submit, OneActive
<1>2. ASSUME NEW t \in Tasks, StartTask(t) PROVE OneActive'
  BY <1>2, HoldersAssumption, <1>c, <1>p DEF StartTask, Created, CommitEffect, OneActive,
     Launching, Submitting, Synced, AtWork, Clean, Shown, Ended, Unfinished, Over, TypeOK
<1>3. ASSUME NEW t \in Tasks, StartFails(t) PROVE OneActive'
  <2>s. \A u \in Tasks \ {t} : saved'[u] = saved[u]
    BY <1>3 DEF StartFails, Created, TypeOK
  <2>1. phase[t] # "none"
    BY <1>3 DEF StartFails, Submitting, Launching, Unfinished
  <2>2. \A u \in Tasks : AtWork(u)' => AtWork(u)
    <3>1. CASE NoCommit
      BY <1>3, <2>1, <2>s, <3>1 DEF StartFails, NoCommit, AtWork, Shown, Clean
    <3>2. CASE Commit(t, "failed")
      BY <1>3, <1>p, <2>1, <2>s, <3>2, CommitKeeps DEF StartFails, GiveUp
    <3> QED
      BY <1>3, <3>1, <3>2 DEF StartFails, GiveUp, Created
  <2>3. \A u \in Tasks :
          (Clean(u) /\ Unfinished(u) => u \in routes \/ sub[u] = "creating")'
    <3>1. CASE NoCommit /\ phase[t] \in Over
      BY <1>3, <3>1 DEF StartFails, GiveUp, NoCommit, OneActive, Clean, Unfinished, TypeOK
    <3>2. CASE Commit(t, "failed")
      <4>1. CommitEffect(t, "failed") /\ "failed" \in Over
        BY <3>2, <1>c, <1>p DEF Over
      <4> QED
        BY <1>3, <4>1 DEF StartFails, GiveUp, CommitEffect, OneActive, Clean, Unfinished,
           TypeOK
    <3> QED
      BY <1>3, <3>1, <3>2 DEF StartFails, GiveUp
  <2>4. (reservation = Explanation)' => reservation = Explanation
    BY <1>3, HoldersAssumption DEF StartFails, GiveUp, Created, Release
  <2> QED
    BY <2>2, <2>3, <2>4 DEF OneActive
<1>4. ASSUME NEW t \in Tasks, Admit(t) PROVE OneActive'
  <2>1. phase[t] # "none"
    BY <1>4 DEF Admit, Submitting, Launching, Unfinished
  <2>2. \A u \in Tasks : AtWork(u)' => AtWork(u)
    <3>1. CASE NoCommit
      BY <1>4, <3>1 DEF Admit, NoCommit, AtWork, Shown, Clean
    <3>2. CASE Commit(t, "acting")
      BY <1>4, <1>p, <2>1, <3>2, CommitKeeps DEF Admit
    <3> QED
      BY <1>4, <3>1, <3>2 DEF Admit
  <2>3. \A u \in Tasks :
          (Clean(u) /\ Unfinished(u) => u \in routes \/ sub[u] = "creating")'
    BY <1>4, HoldersAssumption, <1>c, <1>p, <2>1, <2>2 DEF Admit, NoCommit, CommitEffect,
       OneActive,
       AtWork, Shown, Clean, Ended, Unfinished, Submitting, TypeOK
  <2>4. (reservation = Explanation)' => reservation = Explanation
    BY <1>4, HoldersAssumption DEF Admit, Release
  <2> QED
    BY <2>2, <2>3, <2>4 DEF OneActive
<1>5. ASSUME NEW t \in Tasks, PostStart(t) PROVE OneActive'
  <2>1. phase[t] # "none"
    BY <1>5 DEF PostStart, Submitting, Launching, Unfinished
  <2>2. \A u \in Tasks : AtWork(u)' => AtWork(u)
    <3>1. CASE NoCommit
      BY <1>5, <3>1 DEF PostStart, NoCommit, AtWork, Shown, Clean
    <3>2. CASE Commit(t, "verifying")
      BY <1>5, <1>p, <2>1, <3>2, CommitKeeps DEF PostStart
    <3> QED
      BY <1>5, <3>1, <3>2 DEF PostStart
  <2>3. \A u \in Tasks :
          (Clean(u) /\ Unfinished(u) => u \in routes \/ sub[u] = "creating")'
    BY <1>5, HoldersAssumption, <1>c, <1>p, <2>1, <2>2 DEF PostStart, Release, NoCommit,
       CommitEffect, OneActive,
       AtWork, Shown, Clean, Ended, Unfinished, Submitting, TypeOK
  <2>4. (reservation = Explanation)' => reservation = Explanation
    BY <1>5, HoldersAssumption DEF PostStart, Release
  <2> QED
    BY <2>2, <2>3, <2>4 DEF OneActive
<1>6. ASSUME NEW t \in Tasks, Stop(t) PROVE OneActive'
  BY <1>6, HoldersAssumption, <1>c, <1>p DEF Stop, InActiveMap, CommitEffect, OneActive,
     Launching, Submitting, Synced, AtWork, Clean, Shown, Ended, Unfinished, Over, TypeOK
<1>7. ASSUME NEW t \in Tasks, RequestTool(t) PROVE OneActive'
  <2>1. phase[t] # "none"
    BY <1>7 DEF RequestTool, Submitting, Launching, Unfinished
  <2>2. \A u \in Tasks : AtWork(u)' => AtWork(u)
    <3>1. CASE Commit(t, "acting")
      BY <1>7, <1>p, <2>1, <3>1, CommitKeeps DEF RequestTool
    <3> QED
      BY <1>7, <3>1 DEF RequestTool
  <2>3. \A u \in Tasks :
          (Clean(u) /\ Unfinished(u) => u \in routes \/ sub[u] = "creating")'
    BY <1>7, HoldersAssumption, <1>c, <1>p, <2>1, <2>2 DEF RequestTool, NoCommit,
       CommitEffect, OneActive,
       AtWork, Shown, Clean, Ended, Unfinished, Submitting, TypeOK
  <2>4. (reservation = Explanation)' => reservation = Explanation
    BY <1>7, HoldersAssumption DEF RequestTool, Release
  <2> QED
    BY <2>2, <2>3, <2>4 DEF OneActive
<1>8. ASSUME NEW t \in Tasks, StartTool(t) PROVE OneActive'
  <2>1. phase[t] # "none"
    BY <1>8 DEF StartTool, Submitting, Launching, Unfinished
  <2>2. \A u \in Tasks : AtWork(u)' => AtWork(u)
    <3>1. CASE NoCommit
      BY <1>8, <3>1 DEF StartTool, NoCommit, AtWork, Shown, Clean
    <3>2. CASE Commit(t, "acting")
      BY <1>8, <1>p, <2>1, <3>2, CommitKeeps DEF StartTool
    <3> QED
      BY <1>8, <3>1, <3>2 DEF StartTool
  <2>3. \A u \in Tasks :
          (Clean(u) /\ Unfinished(u) => u \in routes \/ sub[u] = "creating")'
    BY <1>8, HoldersAssumption, <1>c, <1>p, <2>1, <2>2 DEF StartTool, NoCommit,
       CommitEffect, OneActive,
       AtWork, Shown, Clean, Ended, Unfinished, Submitting, TypeOK
  <2>4. (reservation = Explanation)' => reservation = Explanation
    BY <1>8, HoldersAssumption DEF StartTool, Release
  <2> QED
    BY <2>2, <2>3, <2>4 DEF OneActive
<1>9. ASSUME NEW t \in Tasks, ToolReturns(t) PROVE OneActive'
  <2>1. phase[t] # "none"
    BY <1>9 DEF ToolReturns, Submitting, Launching, Unfinished
  <2>2. \A u \in Tasks : AtWork(u)' => AtWork(u)
    <3>1. CASE NoCommit
      BY <1>9, <3>1 DEF ToolReturns, NoCommit, AtWork, Shown, Clean
    <3>2. CASE Commit(t, "verifying")
      BY <1>9, <1>p, <2>1, <3>2, CommitKeeps DEF ToolReturns
    <3> QED
      BY <1>9, <3>1, <3>2 DEF ToolReturns
  <2>3. \A u \in Tasks :
          (Clean(u) /\ Unfinished(u) => u \in routes \/ sub[u] = "creating")'
    BY <1>9, HoldersAssumption, <1>c, <1>p, <2>1, <2>2 DEF ToolReturns, NoCommit,
       CommitEffect, OneActive,
       AtWork, Shown, Clean, Ended, Unfinished, Submitting, TypeOK
  <2>4. (reservation = Explanation)' => reservation = Explanation
    BY <1>9, HoldersAssumption DEF ToolReturns, Release
  <2> QED
    BY <2>2, <2>3, <2>4 DEF OneActive
<1>10. ASSUME NEW t \in Tasks, EndTurn(t) PROVE OneActive'
  BY <1>10, HoldersAssumption DEF EndTurn, Terminals, OneActive, Launching, Submitting,
     Synced, AtWork, Clean, Shown, Ended, Unfinished, Over, TypeOK
<1>11. ASSUME NEW t \in Tasks, Report(t) PROVE OneActive'
  <2>t. PhaseOf(turn[t]) \in Over /\ PhaseOf(turn[t]) \in Phases \ {"none"}
    BY <1>11 DEF Report, PhaseOf, Terminals, Phases, Over
  <2>1. phase[t] # "none"
    BY <1>11 DEF Report, Terminals, Submitting, Launching, Unfinished
  <2>2. \A u \in Tasks : AtWork(u)' => AtWork(u)
    <3>1. CASE Commit(t, PhaseOf(turn[t]))
      BY <1>11, <1>p, <2>1, <2>t, <3>1, CommitKeeps DEF Report
    <3> QED
      BY <1>11, <3>1 DEF Report
  <2>3. \A u \in Tasks :
          (Clean(u) /\ Unfinished(u) => u \in routes \/ sub[u] = "creating")'
    BY <1>11, HoldersAssumption, <1>c, <1>p, <2>t, <2>1, <2>2 DEF Report, NoCommit,
       CommitEffect, OneActive,
       AtWork, Shown, Clean, Ended, Unfinished, Submitting, TypeOK
  <2>4. (reservation = Explanation)' => reservation = Explanation
    BY <1>11, HoldersAssumption DEF Report, Release
  <2> QED
    BY <2>2, <2>3, <2>4 DEF OneActive
<1>12. CASE ReserveClassroomExplanation
  <2>1. launch = "done" /\ reservation = None /\ \A u \in routes : phase[u] \in Over
    BY <1>12 DEF ReserveClassroomExplanation, Busy
  <2>2. \A u \in Tasks : phase[u] = "none" => saved[u] \in Ended
    BY <2>1 DEF Launching
  <2>3. \A u \in Tasks : sub[u] # "creating"
    BY <2>1, HoldersAssumption DEF Submitting
  <2>4. \A u \in Tasks : ~AtWork(u)
    BY <2>1, <2>2, <2>3 DEF OneActive, AtWork, Shown, Unfinished, Ended
  <2> QED
    BY <1>12, <2>4 DEF ReserveClassroomExplanation, OneActive, AtWork, Shown, Clean,
       Unfinished
<1>13. CASE ReleaseReservation
  BY <1>13, HoldersAssumption DEF ReleaseReservation, OneActive, Launching, Submitting,
     Synced, AtWork, Clean, Shown, Ended, Unfinished, Over, TypeOK
<1>14. CASE ProcessExits
  BY <1>14, HoldersAssumption DEF ProcessExits, InActiveMap, OneActive, Launching,
     Submitting, Synced, AtWork, Clean, Shown, Ended, Unfinished, Over, TypeOK
<1>15. CASE Write
  BY <1>15, WriteEffect DEF Write, OneActive, Launching, Submitting, Synced, AtWork,
     Clean, Shown, Ended, Unfinished, Over, TypeOK
<1>16. CASE Restart
  <2>1. ASSUME NEW u \in Tasks, AtWork(u)' PROVE AtWork(u)
    <3>1. ~Queued(u, queue)
      BY <1>16, <2>1 DEF Restart, AtWork, Clean, Queued
    <3>2. phase[u] # "none" => saved[u] = phase[u]
      <4>1. ~LastQueued(u, phase[u], queue)
        BY <3>1 DEF LastQueued, Queued
      <4> QED
        BY <3>1, <4>1 DEF Synced, WillBe
    <3> QED
      BY <1>16, <2>1, <3>2 DEF Restart, AtWork, Clean, Shown, Ended, TypeOK
  <2> QED
    BY <1>16, <2>1, HoldersAssumption DEF Restart, OneActive, Unfinished
<1>17. CASE BeginRestore
  BY <1>17, HoldersAssumption DEF BeginRestore, OneActive, Launching, Submitting, Synced,
     AtWork, Clean, Shown, Ended, Unfinished, Over, TypeOK
<1>18. ASSUME NEW t \in Tasks, RestoreTask(t) PROVE OneActive'
  BY <1>18, HoldersAssumption DEF RestoreTask, OneActive, Launching, Submitting, Synced,
     AtWork, Clean, Shown, Ended, Unfinished, Over, TypeOK
<1>19. ASSUME NEW t \in Tasks, ResumeTurn(t) PROVE OneActive'
  BY <1>19, HoldersAssumption DEF ResumeTurn, InActiveMap, OneActive, Launching,
     Submitting, Synced, AtWork, Clean, Shown, Ended, Unfinished, Over, TypeOK
<1>20. ASSUME NEW t \in Tasks, ResumeFails(t) PROVE OneActive'
  <2>1. phase[t] # "none"
    BY <1>20 DEF ResumeFails, Submitting, Launching, Unfinished
  <2>2. \A u \in Tasks : AtWork(u)' => AtWork(u)
    <3>1. CASE Commit(t, "failed")
      BY <1>20, <1>p, <2>1, <3>1, CommitKeeps DEF ResumeFails
    <3> QED
      BY <1>20, <3>1 DEF ResumeFails
  <2>3. \A u \in Tasks :
          (Clean(u) /\ Unfinished(u) => u \in routes \/ sub[u] = "creating")'
    BY <1>20, HoldersAssumption, <1>c, <1>p, <2>1, <2>2 DEF ResumeFails, NoCommit,
       CommitEffect, OneActive,
       AtWork, Shown, Clean, Ended, Unfinished, Submitting, TypeOK
  <2>4. (reservation = Explanation)' => reservation = Explanation
    BY <1>20, HoldersAssumption DEF ResumeFails, Release
  <2> QED
    BY <2>2, <2>3, <2>4 DEF OneActive
<1>21. CASE EndRestore
  BY <1>21, HoldersAssumption DEF EndRestore, OneActive, Launching, Submitting, Synced,
     AtWork, Clean, Shown, Ended, Unfinished, Over, TypeOK
<1>22. CASE UNCHANGED vars
  BY <1>22 DEF vars, OneActive, Launching, Submitting, Synced, AtWork, Clean, Shown,
     Ended, Unfinished, Over, TypeOK
<1> QED
  BY <1>1, <1>2, <1>3, <1>4, <1>5, <1>6, <1>7, <1>8, <1>9, <1>10, <1>11, <1>12, <1>13,
     <1>14, <1>15, <1>16, <1>17, <1>18, <1>19, <1>20, <1>21, <1>22
     DEF Next, SubmitStep, RestoreStep

\* A snapshot of a task that is shown does not revive another, nor itself unseen.
LEMMA CommitKeepsOver ==
  ASSUME LaunchInv, NEW t \in Tasks, NEW p \in Phases \ {"none"}, Commit(t, p),
         phase[t] # "none", saved' = saved,
         NEW u \in Tasks \ revived', Shown(u) \in Over
  PROVE  Shown(u)' \in Over
<1>1. CommitEffect(t, p)
  BY CommitEffects
<1>2. CASE u = t
  BY <1>1, <1>2 DEF Shown, CommitEffect, Over
<1>3. CASE u # t
  BY <1>1, <1>3 DEF Shown, CommitEffect
<1> QED
  BY <1>2, <1>3

\* A task stopped at work stays over, in the window and in the store.
LEMMA ReachedIsOverStep == RestoreFirst /\ LaunchInv /\ [Next]_vars => ReachedIsOver'
<1> SUFFICES ASSUME RestoreFirst, LaunchInv, [Next]_vars PROVE ReachedIsOver'
  OBVIOUS
<1> USE DEF deskVars, turnVars, restoreVars, stops, LaunchInv
<1>c. ASSUME NEW t \in Tasks, NEW p \in Phases, Commit(t, p)
      PROVE  CommitEffect(t, p)
  BY <1>c, CommitEffects
<1>p. {"ready", "planning", "acting", "verifying", "completed", "failed", "cancelled",
       "blocked"} \subseteq Phases \ {"none"}
  BY DEF Phases, Over
<1>1. ASSUME NEW t \in Tasks, Submit(t) PROVE ReachedIsOver'
  <2>1. CommitEffect(t, "ready") /\ reached' = reached /\ stopped' = stopped
        /\ lost' = lost /\ saved' = saved /\ revived \subseteq revived'
    BY <1>1, <1>c, <1>p DEF Submit, Commit
  <2>2. phase[t] = "none" /\ saved[t] = "none"
    BY <1>1 DEF Submit, Submitting
  <2>3. ASSUME NEW u \in (reached \ (revived \cup lost))' PROVE Shown(u)' \in Over
    <3>1. u \in Tasks \ {t} /\ Shown(u) \in Over
      BY <2>1, <2>2, <2>3 DEF ReachedIsOver, Shown, Over, TypeOK
    <3> QED
      BY <2>1, <3>1 DEF Shown, CommitEffect
  <2> QED
    BY <2>1, <2>3 DEF ReachedIsOver
<1>2. ASSUME NEW t \in Tasks, StartTask(t) PROVE ReachedIsOver'
  BY <1>2, HoldersAssumption, <1>c, <1>p DEF StartTask, Created, CommitEffect,
     ReachedIsOver, Launching, Submitting, Synced, Shown, Ended, Unfinished, Over, TypeOK
<1>3. ASSUME NEW t \in Tasks, StartFails(t) PROVE ReachedIsOver'
  BY <1>3, HoldersAssumption, <1>c, <1>p DEF StartFails, Created, GiveUp, Release,
     NoCommit, CommitEffect, ReachedIsOver, Launching, Submitting, Synced, Shown, Ended,
     Unfinished, Over, TypeOK
<1>4. ASSUME NEW t \in Tasks, Admit(t) PROVE ReachedIsOver'
  <2>1. phase[t] # "none"
    BY <1>4 DEF Admit, Submitting
  <2>2. ASSUME NEW u \in (reached \ (revived \cup lost))' PROVE Shown(u)' \in Over
    <3>1. u \in Tasks \ revived' /\ Shown(u) \in Over
      BY <1>4, <2>2, CommitFacts, <1>p DEF Admit, NoCommit, ReachedIsOver, TypeOK
    <3>2. CASE NoCommit
      BY <1>4, <3>1, <3>2 DEF Admit, NoCommit, Shown
    <3>3. CASE Commit(t, "acting")
      BY <1>4, <1>p, <2>1, <3>1, <3>3, CommitKeepsOver DEF Admit
    <3> QED
      BY <1>4, <3>2, <3>3 DEF Admit
  <2> QED
    BY <1>4, <2>2 DEF Admit, ReachedIsOver
<1>5. ASSUME NEW t \in Tasks, PostStart(t) PROVE ReachedIsOver'
  <2>1. phase[t] # "none"
    BY <1>5 DEF PostStart, Submitting
  <2>2. ASSUME NEW u \in (reached \ (revived \cup lost))' PROVE Shown(u)' \in Over
    <3>1. u \in Tasks \ revived' /\ Shown(u) \in Over
      BY <1>5, <2>2, CommitFacts, <1>p DEF PostStart, NoCommit, ReachedIsOver, TypeOK
    <3>2. CASE NoCommit
      BY <1>5, <3>1, <3>2 DEF PostStart, NoCommit, Shown
    <3>3. CASE Commit(t, "verifying")
      BY <1>5, <1>p, <2>1, <3>1, <3>3, CommitKeepsOver DEF PostStart
    <3> QED
      BY <1>5, <3>2, <3>3 DEF PostStart
  <2> QED
    BY <1>5, <2>2 DEF PostStart, ReachedIsOver
<1>6. ASSUME NEW t \in Tasks, Stop(t) PROVE ReachedIsOver'
  BY <1>6, HoldersAssumption, <1>c, <1>p DEF Stop, InActiveMap, CommitEffect,
     ReachedIsOver, Launching, Submitting, Synced, Shown, Ended, Unfinished, Over, TypeOK
<1>7. ASSUME NEW t \in Tasks, RequestTool(t) PROVE ReachedIsOver'
  <2>1. phase[t] # "none"
    BY <1>7 DEF RequestTool, Submitting
  <2>2. ASSUME NEW u \in (reached \ (revived \cup lost))' PROVE Shown(u)' \in Over
    <3>1. u \in Tasks \ revived' /\ Shown(u) \in Over
      BY <1>7, <2>2, CommitFacts, <1>p DEF RequestTool, NoCommit, ReachedIsOver, TypeOK
    <3>2. CASE Commit(t, "acting")
      BY <1>7, <1>p, <2>1, <3>1, <3>2, CommitKeepsOver DEF RequestTool
    <3> QED
      BY <1>7, <3>2 DEF RequestTool
  <2> QED
    BY <1>7, <2>2 DEF RequestTool, ReachedIsOver
<1>8. ASSUME NEW t \in Tasks, StartTool(t) PROVE ReachedIsOver'
  BY <1>8, HoldersAssumption, <1>c, <1>p DEF StartTool, NoCommit, CommitEffect,
     ReachedIsOver, Launching, Submitting, Synced, Shown, Ended, Unfinished, Over, TypeOK
<1>9. ASSUME NEW t \in Tasks, ToolReturns(t) PROVE ReachedIsOver'
  BY <1>9, HoldersAssumption, <1>c, <1>p DEF ToolReturns, NoCommit, CommitEffect,
     ReachedIsOver, Launching, Submitting, Synced, Shown, Ended, Unfinished, Over, TypeOK
<1>10. ASSUME NEW t \in Tasks, EndTurn(t) PROVE ReachedIsOver'
  BY <1>10, HoldersAssumption DEF EndTurn, Terminals, ReachedIsOver, Launching,
     Submitting, Synced, Shown, Ended, Unfinished, Over, TypeOK
<1>11. ASSUME NEW t \in Tasks, Report(t) PROVE ReachedIsOver'
  BY <1>11, HoldersAssumption, <1>c, <1>p DEF Report, Release, PhaseOf, Terminals,
     CommitEffect, ReachedIsOver, Launching, Submitting, Synced, Shown, Ended, Unfinished,
     Over, TypeOK
<1>12. CASE ReserveClassroomExplanation
  BY <1>12, HoldersAssumption DEF ReserveClassroomExplanation, Busy, ReachedIsOver,
     Launching, Submitting, Synced, Shown, Ended, Unfinished, Over, TypeOK
<1>13. CASE ReleaseReservation
  BY <1>13, HoldersAssumption DEF ReleaseReservation, ReachedIsOver, Launching,
     Submitting, Synced, Shown, Ended, Unfinished, Over, TypeOK
<1>14. CASE ProcessExits
  BY <1>14, HoldersAssumption DEF ProcessExits, InActiveMap, ReachedIsOver, Launching,
     Submitting, Synced, Shown, Ended, Unfinished, Over, TypeOK
<1>15. CASE Write
  BY <1>15, WriteEffect DEF Write, ReachedIsOver, Launching, Submitting, Synced, Shown,
     Ended, Unfinished, Over, TypeOK
<1>16. CASE Restart
  <2>1. ASSUME NEW u \in (reached \ (revived \cup lost))' PROVE Shown(u)' \in Over
    <3>1. u \in Tasks /\ Shown(u) \in Over /\ ~Queued(u, queue)
      BY <1>16, <2>1 DEF Restart, ReachedIsOver, Queued, TypeOK
    <3>2. phase[u] # "none" => saved[u] = phase[u]
      <4>1. ~LastQueued(u, phase[u], queue)
        BY <3>1 DEF LastQueued, Queued
      <4> QED
        BY <3>1, <4>1 DEF Synced, WillBe
    <3> QED
      BY <1>16, <3>1, <3>2 DEF Restart, Shown
  <2> QED
    BY <1>16, <2>1 DEF Restart, ReachedIsOver
<1>17. CASE BeginRestore
  BY <1>17, HoldersAssumption DEF BeginRestore, ReachedIsOver, Launching, Submitting,
     Synced, Shown, Ended, Unfinished, Over, TypeOK
<1>18. ASSUME NEW t \in Tasks, RestoreTask(t) PROVE ReachedIsOver'
  BY <1>18, HoldersAssumption DEF RestoreTask, ReachedIsOver, Launching, Submitting,
     Synced, Shown, Ended, Unfinished, Over, TypeOK
<1>19. ASSUME NEW t \in Tasks, ResumeTurn(t) PROVE ReachedIsOver'
  BY <1>19, HoldersAssumption DEF ResumeTurn, InActiveMap, ReachedIsOver, Launching,
     Submitting, Synced, Shown, Ended, Unfinished, Over, TypeOK
<1>20. ASSUME NEW t \in Tasks, ResumeFails(t) PROVE ReachedIsOver'
  BY <1>20, HoldersAssumption, <1>c, <1>p DEF ResumeFails, CommitEffect, ReachedIsOver,
     Launching, Submitting, Synced, Shown, Ended, Unfinished, Over, TypeOK
<1>21. CASE EndRestore
  BY <1>21, HoldersAssumption DEF EndRestore, ReachedIsOver, Launching, Submitting,
     Synced, Shown, Ended, Unfinished, Over, TypeOK
<1>22. CASE UNCHANGED vars
  BY <1>22 DEF vars, ReachedIsOver, Launching, Submitting, Synced, Shown, Ended,
     Unfinished, Over, TypeOK
<1> QED
  BY <1>1, <1>2, <1>3, <1>4, <1>5, <1>6, <1>7, <1>8, <1>9, <1>10, <1>11, <1>12, <1>13,
     <1>14, <1>15, <1>16, <1>17, <1>18, <1>19, <1>20, <1>21, <1>22
     DEF Next, SubmitStep, RestoreStep

\* The restore leaves a task stopped at work alone.
LEMMA ReachedStaysStep == LaunchInv /\ [Next]_vars => ReachedStays'
<1> SUFFICES ASSUME LaunchInv, [Next]_vars, NEW u \in (reached \ (revived \cup lost))',
                    restoring' = u
             PROVE  FALSE
  BY DEF ReachedStays
<1> USE DEF deskVars, turnVars, restoreVars, stops, LaunchInv
<1>1. revived \subseteq revived'
  <2>1. ASSUME NEW t \in Tasks, NEW p, Commit(t, p) PROVE revived \subseteq revived'
    BY <2>1 DEF Commit
  <2> QED
    BY <2>1 DEF Next, SubmitStep, RestoreStep, Submit, StartTask, StartFails, GiveUp,
       Admit,
       PostStart, Stop, RequestTool, StartTool, ToolReturns, EndTurn, Report, NoCommit,
       ReserveClassroomExplanation, ReleaseReservation, ProcessExits, Write, Restart,
       BeginRestore, RestoreTask, ResumeTurn, ResumeFails, EndRestore, vars
<1>2. ASSUME NEW t \in Tasks, RestoreTask(t) PROVE FALSE
  BY <1>2 DEF RestoreTask, ReachedIsOver, Launching, Shown, Ended, TypeOK
<1>3. ASSUME NEW t \in Tasks, Stop(t) PROVE FALSE
  BY <1>1, <1>3, HoldersAssumption DEF Stop, InActiveMap, ReachedStays, Launching, TypeOK
<1>4. CASE Restart
  BY <1>4, HoldersAssumption DEF Restart, TypeOK
<1>5. ASSUME NEW t \in Tasks, ResumeTurn(t) \/ ResumeFails(t) PROVE FALSE
  BY <1>5, HoldersAssumption DEF ResumeTurn, ResumeFails, TypeOK
<1>6. CASE UNCHANGED <<restoring, reached, lost>>
  BY <1>1, <1>6 DEF ReachedStays
<1> QED
  BY <1>2, <1>3, <1>4, <1>5, <1>6
     DEF Next, SubmitStep, RestoreStep, Submit, StartTask, StartFails, Admit, PostStart,
         RequestTool, StartTool, ToolReturns, EndTurn, Report, ReserveClassroomExplanation,
         ReleaseReservation, ProcessExits, Write, BeginRestore, EndRestore, vars

\* No step ends a task in the window whose turn goes on.
LEMMA RunningIsShownStep == RestoreFirst /\ LaunchInv /\ [Next]_vars => RunningIsShown'
<1> SUFFICES ASSUME RestoreFirst, LaunchInv, [Next]_vars PROVE RunningIsShown'
  OBVIOUS
<1> USE DEF deskVars, turnVars, restoreVars, stops, LaunchInv
<1>c. ASSUME NEW t \in Tasks, NEW p \in Phases, Commit(t, p)
      PROVE  CommitEffect(t, p)
  BY <1>c, CommitEffects
<1>p. {"ready", "planning", "acting", "verifying", "completed", "failed", "cancelled",
       "blocked"} \subseteq Phases \ {"none"}
  BY DEF Phases, Over
<1>1. ASSUME NEW t \in Tasks, Submit(t) PROVE RunningIsShown'
  BY <1>1, HoldersAssumption, <1>c, <1>p DEF Submit, Busy, CommitEffect, RunningIsShown,
     Holds, Submitting, Launching, Unfinished, Over, TypeOK
<1>2. ASSUME NEW t \in Tasks, StartTask(t) PROVE RunningIsShown'
  BY <1>2, HoldersAssumption, <1>c, <1>p DEF StartTask, Created, CommitEffect,
     RunningIsShown, Holds, Submitting, Launching, Unfinished, Over, TypeOK
<1>3. ASSUME NEW t \in Tasks, StartFails(t) PROVE RunningIsShown'
  BY <1>3, HoldersAssumption, <1>c, <1>p DEF StartFails, Created, GiveUp, Release,
     NoCommit, CommitEffect, RunningIsShown, Holds, Submitting, Launching, Unfinished,
     Over, TypeOK
<1>4. ASSUME NEW t \in Tasks, Admit(t) PROVE RunningIsShown'
  BY <1>4, HoldersAssumption, <1>c, <1>p DEF Admit, NoCommit, CommitEffect,
     RunningIsShown, Holds, Submitting, Launching, Unfinished, Over, TypeOK
<1>5. ASSUME NEW t \in Tasks, PostStart(t) PROVE RunningIsShown'
  BY <1>5, HoldersAssumption, <1>c, <1>p DEF PostStart, NoCommit, Release, CommitEffect,
     RunningIsShown, Holds, Submitting, Launching, Unfinished, Over, TypeOK
<1>6. ASSUME NEW t \in Tasks, Stop(t) PROVE RunningIsShown'
  BY <1>6, HoldersAssumption, <1>c, <1>p DEF Stop, InActiveMap, CommitEffect,
     RunningIsShown, Holds, Submitting, Launching, Unfinished, Over, TypeOK
<1>7. ASSUME NEW t \in Tasks, RequestTool(t) PROVE RunningIsShown'
  BY <1>7, HoldersAssumption, <1>c, <1>p DEF RequestTool, CommitEffect, RunningIsShown,
     Holds, Submitting, Launching, Unfinished, Over, TypeOK
<1>8. ASSUME NEW t \in Tasks, StartTool(t) PROVE RunningIsShown'
  BY <1>8, HoldersAssumption, <1>c, <1>p DEF StartTool, NoCommit, CommitEffect,
     RunningIsShown, Holds, Submitting, Launching, Unfinished, Over, TypeOK
<1>9. ASSUME NEW t \in Tasks, ToolReturns(t) PROVE RunningIsShown'
  BY <1>9, HoldersAssumption, <1>c, <1>p DEF ToolReturns, NoCommit, CommitEffect,
     RunningIsShown, Holds, Submitting, Launching, Unfinished, Over, TypeOK
<1>10. ASSUME NEW t \in Tasks, EndTurn(t) PROVE RunningIsShown'
  BY <1>10, HoldersAssumption DEF EndTurn, Terminals, RunningIsShown, Holds, Submitting,
     Launching, Unfinished, Over, TypeOK
<1>11. ASSUME NEW t \in Tasks, Report(t) PROVE RunningIsShown'
  BY <1>11, HoldersAssumption, <1>c, <1>p DEF Report, Release, PhaseOf, Terminals,
     CommitEffect, RunningIsShown, Holds, Submitting, Launching, Unfinished, Over, TypeOK
<1>12. CASE ReserveClassroomExplanation
  BY <1>12, HoldersAssumption DEF ReserveClassroomExplanation, Busy, RunningIsShown,
     Holds, Submitting, Launching, Unfinished, Over, TypeOK
<1>13. CASE ReleaseReservation
  BY <1>13, HoldersAssumption DEF ReleaseReservation, RunningIsShown, Holds, Submitting,
     Launching, Unfinished, Over, TypeOK
<1>14. CASE ProcessExits
  BY <1>14, HoldersAssumption DEF ProcessExits, InActiveMap, RunningIsShown, Holds,
     Submitting, Launching, Unfinished, Over, TypeOK
<1>15. CASE Write
  BY <1>15, WriteEffect DEF Write, RunningIsShown, Holds, Submitting, Launching,
     Unfinished, Over, TypeOK
<1>16. CASE Restart
  BY <1>16, HoldersAssumption DEF Restart, RunningIsShown, Holds, Submitting, Launching,
     Unfinished, Over, TypeOK
<1>17. CASE BeginRestore
  BY <1>17, HoldersAssumption DEF BeginRestore, RunningIsShown, Holds, Submitting,
     Launching, Unfinished, Over, TypeOK
<1>18. ASSUME NEW t \in Tasks, RestoreTask(t) PROVE RunningIsShown'
  BY <1>18, HoldersAssumption DEF RestoreTask, RunningIsShown, Holds, Submitting,
     Launching, Unfinished, Over, TypeOK
<1>19. ASSUME NEW t \in Tasks, ResumeTurn(t) PROVE RunningIsShown'
  BY <1>19, HoldersAssumption DEF ResumeTurn, InActiveMap, RunningIsShown, Holds,
     Submitting, Launching, Unfinished, Over, TypeOK
<1>20. ASSUME NEW t \in Tasks, ResumeFails(t) PROVE RunningIsShown'
  BY <1>20, HoldersAssumption, <1>c, <1>p DEF ResumeFails, CommitEffect, RunningIsShown,
     Holds, Submitting, Launching, Unfinished, Over, TypeOK
<1>21. CASE EndRestore
  BY <1>21, HoldersAssumption DEF EndRestore, RunningIsShown, Holds, Submitting,
     Launching, Unfinished, Over, TypeOK
<1>22. CASE UNCHANGED vars
  BY <1>22 DEF vars, RunningIsShown, Holds, Submitting, Launching, Unfinished, Over,
     TypeOK
<1> QED
  BY <1>1, <1>2, <1>3, <1>4, <1>5, <1>6, <1>7, <1>8, <1>9, <1>10, <1>11, <1>12, <1>13,
     <1>14, <1>15, <1>16, <1>17, <1>18, <1>19, <1>20, <1>21, <1>22
     DEF Next, SubmitStep, RestoreStep

\* No step leaves a task unfinished without somebody who ends it.
LEMMA NoOrphanStep == RestoreFirst /\ LaunchInv /\ [Next]_vars => NoOrphan'
<1> SUFFICES ASSUME RestoreFirst, LaunchInv, [Next]_vars PROVE NoOrphan'
  OBVIOUS
<1> USE DEF deskVars, turnVars, restoreVars, stops, LaunchInv
<1>c. ASSUME NEW t \in Tasks, NEW p \in Phases, Commit(t, p)
      PROVE  CommitEffect(t, p)
  BY <1>c, CommitEffects
<1>p. {"ready", "planning", "acting", "verifying", "completed", "failed", "cancelled",
       "blocked"} \subseteq Phases \ {"none"}
  BY DEF Phases, Over
<1>1. ASSUME NEW t \in Tasks, Submit(t) PROVE NoOrphan'
  BY <1>1, HoldersAssumption, <1>c, <1>p DEF Submit, Busy, CommitEffect, NoOrphan,
     Submitting, Launching, Unfinished, Over, TypeOK
<1>2. ASSUME NEW t \in Tasks, StartTask(t) PROVE NoOrphan'
  BY <1>2, HoldersAssumption, <1>c, <1>p DEF StartTask, Created, CommitEffect, NoOrphan,
     Submitting, Launching, Unfinished, Over, TypeOK
<1>3. ASSUME NEW t \in Tasks, StartFails(t) PROVE NoOrphan'
  BY <1>3, HoldersAssumption, <1>c, <1>p DEF StartFails, Created, GiveUp, Release,
     NoCommit, CommitEffect, NoOrphan, Submitting, Launching, Unfinished, Over, TypeOK
<1>4. ASSUME NEW t \in Tasks, Admit(t) PROVE NoOrphan'
  BY <1>4, HoldersAssumption, <1>c, <1>p DEF Admit, NoCommit, CommitEffect, NoOrphan,
     Submitting, Launching, Unfinished, Over, TypeOK
<1>5. ASSUME NEW t \in Tasks, PostStart(t) PROVE NoOrphan'
  BY <1>5, HoldersAssumption, <1>c, <1>p DEF PostStart, NoCommit, Release, CommitEffect,
     NoOrphan, Submitting, Launching, Unfinished, Over, TypeOK
<1>6. ASSUME NEW t \in Tasks, Stop(t) PROVE NoOrphan'
  BY <1>6, HoldersAssumption, <1>c, <1>p DEF Stop, InActiveMap, CommitEffect, NoOrphan,
     Submitting, Launching, Unfinished, Over, TypeOK
<1>7. ASSUME NEW t \in Tasks, RequestTool(t) PROVE NoOrphan'
  BY <1>7, HoldersAssumption, <1>c, <1>p DEF RequestTool, CommitEffect, NoOrphan,
     Submitting, Launching, Unfinished, Over, TypeOK
<1>8. ASSUME NEW t \in Tasks, StartTool(t) PROVE NoOrphan'
  BY <1>8, HoldersAssumption, <1>c, <1>p DEF StartTool, NoCommit, CommitEffect, NoOrphan,
     Submitting, Launching, Unfinished, Over, TypeOK
<1>9. ASSUME NEW t \in Tasks, ToolReturns(t) PROVE NoOrphan'
  BY <1>9, HoldersAssumption, <1>c, <1>p DEF ToolReturns, NoCommit, CommitEffect,
     NoOrphan, Submitting, Launching, Unfinished, Over, TypeOK
<1>10. ASSUME NEW t \in Tasks, EndTurn(t) PROVE NoOrphan'
  BY <1>10, HoldersAssumption DEF EndTurn, Terminals, NoOrphan, Submitting, Launching,
     Unfinished, Over, TypeOK
<1>11. ASSUME NEW t \in Tasks, Report(t) PROVE NoOrphan'
  BY <1>11, HoldersAssumption, <1>c, <1>p DEF Report, Release, PhaseOf, Terminals,
     CommitEffect, NoOrphan, Submitting, Launching, Unfinished, Over, TypeOK
<1>12. CASE ReserveClassroomExplanation
  BY <1>12, HoldersAssumption DEF ReserveClassroomExplanation, Busy, NoOrphan, Submitting,
     Launching, Unfinished, Over, TypeOK
<1>13. CASE ReleaseReservation
  BY <1>13, HoldersAssumption DEF ReleaseReservation, NoOrphan, Submitting, Launching,
     Unfinished, Over, TypeOK
<1>14. CASE ProcessExits
  BY <1>14, HoldersAssumption DEF ProcessExits, InActiveMap, NoOrphan, Submitting,
     Launching, Unfinished, Over, TypeOK
<1>15. CASE Write
  BY <1>15, WriteEffect DEF Write, NoOrphan, Submitting, Launching, Unfinished, Over,
     TypeOK
<1>16. CASE Restart
  BY <1>16, HoldersAssumption DEF Restart, NoOrphan, Submitting, Launching, Unfinished,
     Over, TypeOK
<1>17. CASE BeginRestore
  BY <1>17, HoldersAssumption DEF BeginRestore, NoOrphan, Submitting, Launching,
     Unfinished, Over, TypeOK
<1>18. ASSUME NEW t \in Tasks, RestoreTask(t) PROVE NoOrphan'
  BY <1>18, HoldersAssumption DEF RestoreTask, NoOrphan, Submitting, Launching,
     Unfinished, Over, TypeOK
<1>19. ASSUME NEW t \in Tasks, ResumeTurn(t) PROVE NoOrphan'
  BY <1>19, HoldersAssumption DEF ResumeTurn, InActiveMap, NoOrphan, Submitting,
     Launching, Unfinished, Over, TypeOK
<1>20. ASSUME NEW t \in Tasks, ResumeFails(t) PROVE NoOrphan'
  BY <1>20, HoldersAssumption, <1>c, <1>p DEF ResumeFails, CommitEffect, NoOrphan,
     Submitting, Launching, Unfinished, Over, TypeOK
<1>21. CASE EndRestore
  BY <1>21, HoldersAssumption DEF EndRestore, NoOrphan, Submitting, Launching, Unfinished,
     Over, TypeOK
<1>22. CASE UNCHANGED vars
  BY <1>22 DEF vars, NoOrphan, Submitting, Launching, Unfinished, Over, TypeOK
<1> QED
  BY <1>1, <1>2, <1>3, <1>4, <1>5, <1>6, <1>7, <1>8, <1>9, <1>10, <1>11, <1>12, <1>13,
     <1>14, <1>15, <1>16, <1>17, <1>18, <1>19, <1>20, <1>21, <1>22
     DEF Next, SubmitStep, RestoreStep

(***************************************************************************)
(* The theorems about a launch.                                            *)
(***************************************************************************)
LEMMA LaunchInit == Init => LaunchInv
<1> SUFFICES ASSUME Init PROVE LaunchInv
  OBVIOUS
<1> USE HoldersAssumption DEF Init
<1>1. TypeOK
  BY TypeInit
<1>2. Synced
  <2>1. queue = << >> /\ \A t \in Tasks : phase[t] = "none"
    OBVIOUS
  <2>2. ASSUME NEW t \in Tasks PROVE ~Queued(t, << >>)
    BY DEF Queued
  <2> HIDE DEF Init
  <2> QED
    BY <2>1, <2>2 DEF Synced
<1>3. Submitting /\ Launching
  BY DEF Submitting, Launching, Ended
<1>4. OneActive /\ ReachedIsOver /\ ReachedStays
  BY DEF ReachedStays, OneActive, AtWork, Shown, Unfinished, Ended, ReachedIsOver
<1>5. RunningIsShown /\ NoOrphan
  BY DEF RunningIsShown, NoOrphan, Unfinished, Over
<1> QED
  BY <1>1, <1>2, <1>3, <1>4, <1>5 DEF LaunchInv

\* Every step of a launch keeps the invariant.
LEMMA LaunchStep == RestoreFirst /\ LaunchInv /\ [Next]_vars => LaunchInv'
BY TypeStep, SyncedStep, SubmittingStep, LaunchingStep, OneActiveStep, ReachedIsOverStep,
   ReachedStaysStep, RunningIsShownStep, NoOrphanStep
   DEF LaunchInv

\* In a launch the store is only behind the window by the writes that wait, the
\* reservation and the routes keep all but one task from the device, and nothing
\* that the restore is still to bring back is at work (submitAndStart,
\* restoreLocalTasks, recordTaskUpdate).
THEOREM LaunchInvariant ==
  ASSUME RestoreFirst
  PROVE  Spec => []LaunchInv
BY LaunchInit, LaunchStep, PTL DEF Spec

\* Whoever holds the device is at work, or has the reservation.
LEMMA OneOfThem == LaunchInv => OneAtATime
<1> SUFFICES ASSUME LaunchInv,
                    NEW x \in Tasks \cup {Explanation}, NEW y \in Tasks \cup {Explanation},
                    x # y, Holds(x), Holds(y), x \in Tasks => Clean(x), y \in Tasks => Clean(y)
             PROVE  FALSE
  BY HoldersAssumption DEF OneAtATime, Clean
<1>1. ASSUME NEW t \in Tasks, Holds(t), Clean(t) PROVE AtWork(t)
  <2>1. turn[t] \in {"admitting", "prefetch", "active"}
    BY <1>1, HoldersAssumption DEF Holds
  <2>2. phase[t] \notin Ended
    BY <1>1, <2>1 DEF LaunchInv, RunningIsShown, Submitting, Clean, Ended
  <2> QED
    BY <1>1, <2>2 DEF AtWork, Shown, Ended
<1>2. Holds(Explanation) => reservation = Explanation
  BY DEF Holds
<1> QED
  BY <1>1, <1>2 DEF LaunchInv, OneActive

\* Two never use the device at once, save for a task that the user stopped, that
\* came back after it was over, or whose end a restart lost (submitAndStart,
\* isDeviceBusy, restoreLocalTasks).
THEOREM OneAtATimeHolds ==
  ASSUME RestoreFirst
  PROVE  Spec => []OneAtATime
BY LaunchInvariant, OneOfThem, PTL

\* A task that is shown as running, or keeps the device, has somebody who will
\* end it (finish, cancel, onTerminal, restoreLocalTasks).
THEOREM NoOrphanHolds ==
  ASSUME RestoreFirst
  PROVE  Spec => []NoOrphan
<1>1. LaunchInv => NoOrphan
  BY DEF LaunchInv
<1> QED
  BY <1>1, LaunchInvariant, PTL

\* A task whose turn is at work is shown as over only if the user stopped it
\* (complete, finish, restoreLocalTasks).
THEOREM RunningIsShownHolds ==
  ASSUME RestoreFirst
  PROVE  Spec => []RunningIsShown
<1>1. LaunchInv => RunningIsShown
  BY DEF LaunchInv
<1> QED
  BY <1>1, LaunchInvariant, PTL

\* Once its writes are done, the store has what the window shows
\* (recordTaskUpdate).
THEOREM SavedIsShownHolds ==
  ASSUME RestoreFirst
  PROVE  Spec => []SavedIsShown
<1>1. LaunchInv => SavedIsShown
  BY DEF LaunchInv, SavedIsShown, Synced, WillBe, LastQueued
<1> QED
  BY <1>1, LaunchInvariant, PTL

\* Only the restore makes a turn active that was not admitted.
LEMMA StoppedStep ==
  LaunchInv /\ [Next]_vars =>
    \A t \in reached \ (revived \cup lost) : turn[t] = "none" => turn'[t] # "active"
<1> SUFFICES ASSUME LaunchInv, [Next]_vars,
                    NEW u \in reached \ (revived \cup lost), turn[u] = "none",
                    turn'[u] = "active"
             PROVE  FALSE
  OBVIOUS
<1>1. u \in Tasks /\ restoring # u
  BY DEF LaunchInv, TypeOK, ReachedStays
<1>2. ASSUME NEW t \in Tasks, StartTask(t) \/ StartFails(t) \/ Admit(t) \/ PostStart(t)
      PROVE  FALSE
  BY <1>1, <1>2 DEF StartTask, StartFails, Admit, PostStart, LaunchInv, TypeOK
<1>3. ASSUME NEW t \in Tasks, EndTurn(t) \/ Report(t) PROVE FALSE
  BY <1>1, <1>3 DEF EndTurn, Report, Terminals, LaunchInv, TypeOK
<1>4. ASSUME NEW t \in Tasks, ResumeTurn(t) PROVE FALSE
  BY <1>1, <1>4 DEF ResumeTurn, LaunchInv, TypeOK
<1>5. CASE ProcessExits
  BY <1>1, <1>5 DEF ProcessExits, LaunchInv, TypeOK
<1>6. CASE Restart
  BY <1>1, <1>6 DEF Restart, LaunchInv, TypeOK
<1>7. CASE turn' = turn
  BY <1>7
<1> QED
  BY <1>2, <1>3, <1>4, <1>5, <1>6, <1>7
     DEF Next, SubmitStep, RestoreStep, Submit, Stop, RequestTool, StartTool, ToolReturns,
         ReserveClassroomExplanation, ReleaseReservation, Write, BeginRestore, RestoreTask,
         ResumeFails, EndRestore, vars, turnVars

\* A task whose turn the user stopped is not resumed by a later launch, unless a
\* message under way moved its phase on again or a restart lost the write of its
\* end (cancel, applyRuntimeEvent, restoreLocalTasks).
THEOREM StopIsForGoodHolds ==
  ASSUME RestoreFirst
  PROVE  Spec => StopIsForGood
BY LaunchInvariant, StoppedStep, PTL DEF Spec, StopIsForGood
====
