------------------------------- MODULE TaskDesk -------------------------------
(***************************************************************************)
(* The desktop's task lifecycle: TaskApplicationService admits one request *)
(* at a time and restores unfinished tasks, TaskRuntime keeps the phase    *)
(* the user sees, TaskHistoryService writes every phase to the encrypted   *)
(* store in the background, and the local runtime's turns (AgentTurn)      *)
(* report back through onEvent and onTerminal.                             *)
(*                                                                         *)
(* A phase is changed by four parties that do not wait for each other: the *)
(* submission, the user's Stop, the events of a turn and of its tools, and *)
(* the turn's terminal report.  The store sees the changes later, and a    *)
(* restart sees only the store.                                            *)
(*                                                                         *)
(* Simplifications:                                                        *)
(*  - A turn is its place in LocalAgentRuntime and at most one tool call   *)
(*    at a time; its steps are those of AgentTurn.                         *)
(*  - Events that leave the phase as it is, and messages, are left out.    *)
(*  - Lesson children and Coach tasks are left out; an explanation is only *)
(*    the reservation it holds.  Writes of the history do not fail.        *)
(*  - Sign-out is left out.                                                *)
(***************************************************************************)
EXTENDS Naturals, Sequences

CONSTANTS
  Tasks,         \* task ids the user may submit, each once
  Explanation,   \* the holder of a reservation made for a class explanation
  None,          \* "no task"
  MaxCalls,      \* bound: tool calls of a task
  MaxRestarts,   \* bound: restarts of the application
  MaxQueue,      \* bound: writes of the history that wait
  RestoreFirst   \* TRUE: launch, the window opens after the restore;
                 \* FALSE: sign-in, the window is there while it runs

ASSUME HoldersAssumption == Explanation \notin Tasks /\ None \notin Tasks \cup {Explanation}
ASSUME BoundsAssumption ==
  /\ MaxCalls \in Nat /\ MaxRestarts \in Nat /\ MaxQueue \in Nat
  /\ RestoreFirst \in BOOLEAN

Over == {"completed", "failed", "cancelled", "blocked"}
Phases == {"none", "ready", "planning", "acting", "verifying"} \cup Over
Terminals == {"completed", "failed", "cancelled", "unknown"}

VARIABLES
  phase,         \* TaskRuntime: the phase of each task, "none" if it has no snapshot
  queue,         \* TaskHistoryService: phases still to be written, oldest first
  saved,         \* snapshot.enc: the phase the store holds
  checkpointed,  \* snapshot.enc: tasks with an SDK checkpoint
  reservation,   \* TaskApplicationService: who is starting, or None
  routes,        \* TaskApplicationService: tasks that occupy the device
  sub,           \* where submitOrdinary is with each task
  turn,          \* LocalAgentRuntime: the task's turn, or how it ended
  aborted,       \* tasks whose turn's AbortController has fired
  tool,          \* the tool call a handler of the task is working on
  asked,         \* tool calls of each task so far
  launch,        \* prepareLocalAgentRuntime: restore due, restoring or done
  pending,       \* restoreLocalTasks: tasks read from the store, with their phase
  restoring,     \* restoreLocalTasks: the task whose resume is awaited
  restarts,      \* restarts so far
  stopped,       \* history: tasks the user stopped
  reached,       \* history: stopped tasks whose turn was aborted by it
  revived,       \* history: tasks that were over and went on
  lost           \* history: tasks with a phase that a restart lost

deskVars == <<reservation, routes, sub>>
turnVars == <<turn, aborted, tool, asked, checkpointed>>
restoreVars == <<launch, pending, restoring, restarts>>
stops == <<stopped, reached>>
vars == <<phase, queue, saved, deskVars, turnVars, restoreVars, stops, revived, lost>>

TypeOK ==
  /\ phase \in [Tasks -> Phases] /\ saved \in [Tasks -> Phases]
  /\ queue \in Seq(Tasks \X Phases)
  /\ checkpointed \subseteq Tasks /\ routes \subseteq Tasks /\ aborted \subseteq Tasks
  /\ reservation \in Tasks \cup {Explanation, None}
  /\ sub \in [Tasks -> {"new", "creating", "starting", "done"}]
  /\ turn \in [Tasks -> {"none", "admitting", "prefetch", "active"} \cup Terminals]
  /\ tool \in [Tasks -> {"idle", "asked", "running"}]
  /\ asked \in [Tasks -> 0 .. MaxCalls]
  /\ launch \in {"due", "restoring", "done"}
  /\ pending \subseteq Tasks \X Phases
  /\ restoring \in Tasks \cup {None}
  /\ restarts \in 0 .. MaxRestarts
  /\ stopped \subseteq Tasks /\ reached \subseteq Tasks /\ revived \subseteq Tasks /\ lost \subseteq Tasks

Init ==
  /\ phase = [t \in Tasks |-> "none"] /\ saved = [t \in Tasks |-> "none"]
  /\ queue = << >>
  /\ checkpointed = {} /\ routes = {} /\ aborted = {}
  /\ reservation = None
  /\ sub = [t \in Tasks |-> "new"]
  /\ turn = [t \in Tasks |-> "none"]
  /\ tool = [t \in Tasks |-> "idle"]
  /\ asked = [t \in Tasks |-> 0]
  /\ launch = "due" /\ pending = {} /\ restoring = None
  /\ restarts = 0
  /\ stopped = {} /\ reached = {} /\ revived = {} /\ lost = {}

(***************************************************************************)
(* TaskRuntime and its history.                                            *)
(***************************************************************************)
Unfinished(t) == phase[t] \notin Over \cup {"none"}

\* The write of a new snapshot waits for those before it.
RecordTaskUpdate(t, p) ==
  /\ Len(queue) < MaxQueue
  /\ queue' = Append(queue, <<t, p>>)

\* commit: the new snapshot, which the history is told of.
Commit(t, p) ==
  /\ phase' = [phase EXCEPT ![t] = p]
  /\ RecordTaskUpdate(t, p)
  /\ revived' = IF phase[t] \in Over /\ p \notin Over THEN revived \cup {t} ELSE revived

NoCommit == UNCHANGED <<phase, queue, revived>>

\* The next queued snapshot reaches the store.  If it is the first of a new
\* task, state.create has written before it: the store works in order.
Write ==
  /\ queue # << >>
  /\ saved' = [saved EXCEPT ![Head(queue)[1]] = Head(queue)[2]]
  /\ queue' = Tail(queue)
  /\ UNCHANGED <<phase, deskVars, turnVars, restoreVars, stops, revived, lost>>

(***************************************************************************)
(* submitAndStart.                                                         *)
(***************************************************************************)
\* Mutant of Busy: a start that is still awaited does not count.
BusyWhenRouted == \E t \in routes : phase[t] \notin Over

\* isDeviceBusy, and the two checks of submitAndStart.
Busy == reservation # None \/ \E t \in routes : phase[t] \notin Over

Release(t) == reservation' = IF reservation = t THEN None ELSE reservation

Submit(t) ==
  /\ sub[t] = "new"
  /\ RestoreFirst => launch = "done"
  /\ ~Busy
  /\ reservation' = t
  /\ sub' = [sub EXCEPT ![t] = "creating"]
  /\ Commit(t, "ready")
  /\ UNCHANGED <<saved, routes, turnVars, restoreVars, stops, lost>>

\* A class explanation takes the device, and gives it back.
ReserveClassroomExplanation ==
  /\ RestoreFirst => launch = "done"
  /\ ~Busy
  /\ reservation' = Explanation
  /\ UNCHANGED <<phase, queue, saved, routes, sub, turnVars, restoreVars,
                 stops, revived, lost>>

ReleaseReservation ==
  /\ reservation = Explanation
  /\ reservation' = None
  /\ UNCHANGED <<phase, queue, saved, routes, sub, turnVars, restoreVars,
                 stops, revived, lost>>

\* Mutant of Created: a late create overwrites.
CreatedBlindly(t) == saved' = [saved EXCEPT ![t] = "ready"]

\* What state.create wrote, unless a later snapshot has replaced it.
Created(t) == saved' = IF saved[t] = "none" THEN [saved EXCEPT ![t] = "ready"] ELSE saved

\* state.create is done: start the task, unless it was stopped meanwhile.
StartTask(t) ==
  /\ sub[t] = "creating" /\ phase[t] = "ready"
  /\ Created(t)
  /\ Commit(t, "planning")
  /\ routes' = routes \cup {t}
  /\ sub' = [sub EXCEPT ![t] = "starting"]
  /\ turn' = [turn EXCEPT ![t] = "admitting"]
  /\ UNCHANGED <<reservation, aborted, tool, asked, checkpointed, restoreVars, stops, lost>>

\* Mutant of GiveUp: the task keeps its phase.
GiveUpQuietly(t) ==
  /\ NoCommit
  /\ routes' = routes \ {t}
  /\ sub' = [sub EXCEPT ![t] = "done"]
  /\ Release(t)

\* The catch and finally of submitOrdinary and submitAndStart.
GiveUp(t) ==
  /\ IF phase[t] \in Over THEN NoCommit ELSE Commit(t, "failed")
  /\ routes' = routes \ {t}
  /\ sub' = [sub EXCEPT ![t] = "done"]
  /\ Release(t)

\* Mutant of StartFails: the caller gives up, the admission goes on.
StartFailsAlone(t) ==
  /\ sub[t] = "starting" /\ turn[t] # "prefetch"
  /\ GiveUp(t)
  /\ UNCHANGED <<saved, turnVars, restoreVars, stops, lost>>

\* The store refuses, the task was stopped before runtime.start, there is no
\* token, process or model turn, or the process exited before turn.start.
StartFails(t) ==
  /\ \/ sub[t] = "creating" /\ saved' = saved
     \/ sub[t] = "creating" /\ phase[t] # "ready" /\ Created(t)
     \/ sub[t] = "starting" /\ turn[t] # "prefetch" /\ saved' = saved
  /\ turn' = IF turn[t] = "admitting" THEN [turn EXCEPT ![t] = "none"] ELSE turn
  /\ GiveUp(t)
  /\ UNCHANGED <<aborted, tool, asked, checkpointed, restoreVars, stops, lost>>

\* The turn enters the active map; a required first observation announces itself.
Admit(t) ==
  /\ turn[t] = "admitting"
  /\ turn' = [turn EXCEPT ![t] = "prefetch"]
  /\ NoCommit \/ Commit(t, "acting")
  /\ UNCHANGED <<saved, deskVars, aborted, tool, asked, checkpointed, restoreVars,
                 stops, lost>>

\* The observation is in or failed; turn.start is posted and the desk is free.
PostStart(t) ==
  /\ turn[t] = "prefetch"
  /\ turn' = [turn EXCEPT ![t] = "active"]
  /\ NoCommit \/ Commit(t, "verifying")
  /\ sub' = [sub EXCEPT ![t] = "done"]
  /\ Release(t)
  /\ UNCHANGED <<saved, routes, aborted, tool, asked, checkpointed, restoreVars,
                 stops, lost>>

(***************************************************************************)
(* cancel, and the turn's own life.                                        *)
(***************************************************************************)
InActiveMap(t) == turn[t] \in {"prefetch", "active"}

\* Mutant of Stop: the phase is left to the report of the aborted turn.
StopByReport(t) ==
  /\ Unfinished(t)
  /\ aborted' = IF InActiveMap(t) THEN aborted \cup {t} ELSE aborted
  /\ routes' = routes \ {t}
  /\ IF InActiveMap(t) THEN NoCommit ELSE Commit(t, "cancelled")
  /\ stopped' = stopped \cup {t}
  /\ reached' = IF InActiveMap(t) THEN reached \cup {t} ELSE reached
  /\ UNCHANGED <<saved, reservation, sub, turn, tool, asked, checkpointed, restoreVars, lost>>

\* Stop or Escape, for a task the window shows as unfinished.
Stop(t) ==
  /\ Unfinished(t)
  /\ aborted' = IF InActiveMap(t) THEN aborted \cup {t} ELSE aborted
  /\ routes' = routes \ {t}
  /\ Commit(t, "cancelled")
  /\ stopped' = stopped \cup {t}
  /\ reached' = IF InActiveMap(t) THEN reached \cup {t} ELSE reached
  /\ UNCHANGED <<saved, reservation, sub, turn, tool, asked, checkpointed, restoreVars, lost>>

\* The utility process announces a tool call and checkpoints it.  Its message
\* may have been on its way when the turn was stopped.
RequestTool(t) ==
  /\ turn[t] = "active" /\ tool[t] = "idle" /\ asked[t] < MaxCalls
  /\ tool' = [tool EXCEPT ![t] = "asked"]
  /\ asked' = [asked EXCEPT ![t] = @ + 1]
  /\ checkpointed' = checkpointed \cup {t}
  /\ Commit(t, "acting")
  /\ UNCHANGED <<saved, deskVars, turn, aborted, restoreVars, stops, lost>>

\* toolExecute claims the call and calls the adapter, or finds its turn aborted.
StartTool(t) ==
  /\ tool[t] = "asked"
  /\ \/ t \notin aborted /\ tool' = [tool EXCEPT ![t] = "running"] /\ Commit(t, "acting")
     \/ t \in aborted /\ tool' = [tool EXCEPT ![t] = "idle"] /\ NoCommit
  /\ UNCHANGED <<saved, deskVars, turn, aborted, asked, checkpointed, restoreVars,
                 stops, lost>>

\* The adapter returns, whatever became of its turn; a completed call says so.
\* Without a turn the answer has nobody to go to and the host kills the process.
ToolReturns(t) ==
  /\ tool[t] = "running"
  /\ tool' = [tool EXCEPT ![t] = "idle"]
  /\ NoCommit \/ Commit(t, "verifying")
  /\ UNCHANGED <<saved, deskVars, turn, aborted, asked, checkpointed, restoreVars,
                 stops, lost>>

\* turn.terminal arrives: the turn leaves the active map and its signal fires.
\* A completed one has committed its last checkpoint.
EndTurn(t) ==
  /\ turn[t] = "active"
  /\ \E status \in Terminals :
       /\ status \in {"completed", "unknown"} => tool[t] = "idle"
       /\ status = "cancelled" => t \in aborted
       /\ turn' = [turn EXCEPT ![t] = status]
       /\ checkpointed' = IF status = "completed" THEN checkpointed \cup {t} ELSE checkpointed
  /\ aborted' = aborted \cup {t}
  /\ UNCHANGED <<phase, queue, saved, deskVars, tool, asked, restoreVars,
                 stops, revived, lost>>

\* The utility process serves all tasks; its exit fails every active turn.
ProcessExits ==
  /\ \E t \in Tasks : InActiveMap(t)
  /\ turn' = [t \in Tasks |-> IF InActiveMap(t) THEN "failed" ELSE turn[t]]
  /\ aborted' = aborted \cup {t \in Tasks : InActiveMap(t)}
  /\ UNCHANGED <<phase, queue, saved, deskVars, tool, asked, checkpointed, restoreVars,
                 stops, revived, lost>>

\* Mutant of PhaseOf: one name for both.
PhaseOfSame(status) == status

PhaseOf(status) == IF status = "unknown" THEN "blocked" ELSE status

\* onTerminal, after the tools of the task were ended: complete and finish.
Report(t) ==
  /\ turn[t] \in Terminals
  /\ turn' = [turn EXCEPT ![t] = "none"]
  /\ Commit(t, PhaseOf(turn[t]))
  /\ routes' = routes \ {t}
  /\ Release(t)
  /\ UNCHANGED <<saved, sub, aborted, tool, asked, checkpointed, restoreVars, stops, lost>>

(***************************************************************************)
(* Restart and restoreLocalTasks.                                          *)
(***************************************************************************)

\* The application ends; what the history had queued may or may not be written.
Restart ==
  /\ restarts < MaxRestarts
  /\ restarts' = restarts + 1
  /\ lost' = lost \cup {queue[i][1] : i \in 1 .. Len(queue)}
  /\ phase' = [t \in Tasks |-> "none"]
  /\ queue' = << >>
  /\ reservation' = None /\ routes' = {}
  /\ sub' = [t \in Tasks |-> IF sub[t] = "new" THEN "new" ELSE "done"]
  /\ turn' = [t \in Tasks |-> "none"]
  /\ tool' = [t \in Tasks |-> "idle"]
  /\ aborted' = {}
  /\ launch' = "due" /\ pending' = {} /\ restoring' = None
  /\ UNCHANGED <<saved, asked, checkpointed, stops, revived>>

\* listActive: the tasks whose saved phase is not over.
BeginRestore ==
  /\ launch = "due"
  /\ launch' = "restoring"
  /\ pending' = {<<t, saved[t]>> : t \in {u \in Tasks : saved[u] \notin Over \cup {"none"}}}
  /\ UNCHANGED <<phase, queue, saved, deskVars, turnVars, restoring, restarts,
                 stops, revived, lost>>

\* restore puts the stored snapshot in place of what is there; resume follows.
RestoreTask(t) ==
  /\ restoring = None
  /\ \E p \in Phases :
       /\ <<t, p>> \in pending
       /\ pending' = pending \ {<<t, p>>}
       /\ phase' = [phase EXCEPT ![t] = p]
  /\ routes' = routes \cup {t}
  /\ restoring' = t
  /\ revived' = IF phase[t] \in Over THEN revived \cup {t} ELSE revived
  /\ UNCHANGED <<queue, saved, reservation, sub, turnVars, launch, restarts, stops, lost>>

\* resume finds a checkpoint and the same tools, and posts turn.resume.
ResumeTurn(t) ==
  /\ restoring = t
  /\ t \in checkpointed /\ ~InActiveMap(t)
  /\ turn' = [turn EXCEPT ![t] = "active"]
  /\ aborted' = aborted \ {t}
  /\ restoring' = None
  /\ UNCHANGED <<phase, queue, saved, deskVars, tool, asked, checkpointed, launch,
                 pending, restarts, stops, revived, lost>>

\* No token, no checkpoint, other tools, or a turn that is active: failed.
ResumeFails(t) ==
  /\ restoring = t
  /\ restoring' = None
  /\ Commit(t, "failed")
  /\ UNCHANGED <<saved, deskVars, turnVars, launch, pending, restarts, stops, lost>>

EndRestore ==
  /\ launch = "restoring" /\ pending = {} /\ restoring = None
  /\ launch' = "done"
  /\ UNCHANGED <<phase, queue, saved, deskVars, turnVars, pending, restoring, restarts,
                 stops, revived, lost>>

SubmitStep(t) == StartTask(t) \/ StartFails(t) \/ Admit(t) \/ PostStart(t)
RestoreStep ==
  BeginRestore \/ EndRestore
    \/ \E t \in Tasks : RestoreTask(t) \/ ResumeTurn(t) \/ ResumeFails(t)

Next ==
  \/ \E t \in Tasks :
       \/ Submit(t) \/ SubmitStep(t) \/ Stop(t)
       \/ RequestTool(t) \/ StartTool(t) \/ ToolReturns(t) \/ EndTurn(t) \/ Report(t)
  \/ ReserveClassroomExplanation \/ ReleaseReservation
  \/ ProcessExits
  \/ Write
  \/ RestoreStep
  \/ Restart

Spec == Init /\ [][Next]_vars

(***************************************************************************)
(* Properties.                                                             *)
(***************************************************************************)
Holds(x) == IF x = Explanation THEN reservation = x
            ELSE turn[x] \in {"admitting", "prefetch", "active"}

\* Two never use the device at once, unless one of them is a task that the user
\* stopped, that came back after it was over, or whose end a restart lost
\* (submitAndStart, isDeviceBusy).
OneAtATime ==
  \A x, y \in Tasks \cup {Explanation} :
    x # y /\ Holds(x) /\ Holds(y)
      => \E t \in {x, y} : t \in stopped \cup revived \cup lost

\* A task that the window shows as running, or that keeps the device, has
\* somebody who will end it: its submission, its turn, its report or the restore
\* (the catch and finally of submitAndStart, finish, cancel, onTerminal,
\* restoreLocalTasks).
NoOrphan ==
  \A t \in Tasks \ revived :
    Unfinished(t) \/ reservation = t
      => sub[t] \in {"creating", "starting"} \/ turn[t] # "none" \/ restoring = t

\* A task whose turn is at work is not shown as over, unless the user stopped it
\* (complete, finish, restoreLocalTasks).
RunningIsShown ==
  \A t \in Tasks : Holds(t) /\ phase[t] \in Over => t \in stopped

\* Once the history is written, the store has what the window shows, so a
\* restart restores just the tasks that were unfinished (recordTaskUpdate).
SavedIsShown ==
  queue = << >> => \A t \in Tasks : phase[t] # "none" => saved[t] = phase[t]

\* A task whose turn the user has stopped is not resumed by a later launch,
\* unless a message under way moved its phase on again or a restart lost the
\* write of its end (cancel, applyRuntimeEvent, restoreLocalTasks).
StopIsForGood ==
  [][\A t \in reached \ (revived \cup lost) :
       turn[t] = "none" => turn'[t] # "active"]_vars
===============================================================================
