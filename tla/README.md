# TroCode in TLA+

TroCode is a desktop companion: an Electron application that runs an agent on the user's own
machine (the Agents SDK in a *utility process*, tools in Electron main, an encrypted store on
disk) and a hosted Rust API that pays for model calls and keeps classrooms, knowledge and
accounts. This directory holds TLA+ models of the parts whose correctness rests on *order*: who
may act next, what is durable before what, what a crash, a Stop or a late answer may find.

Contents: 1 the system; 2 the modules and the code; 3 the runs; 4 what the proofs show;
5 disagreements found; 6 what is only model-checked or not modelled; 7 the plan.

Paths are relative to the repository's root (`src/main/...` is Electron main,
`services/agent-runtime` the utility process, `services/api` the hosted API).

## 1. The system

### 1.1 Components, their state and their operations

**Local agent runtime** (`src/main/agent-runtime/agent-runtime-adapter.ts`,
`services/agent-runtime/src`). The host's `LocalAgentRuntime` keeps the map of active turns (one
per thread, with an `AbortController`), the handle of the utility process, and forks or kills it.
The utility process keeps one running turn per thread and a `HostBridge` with the requests it
waits for. They talk over a message port: `turn.start/resume/cancel` and
`checkpoint.commit.result`/`tool.execute.result` one way, `checkpoint.commit`, `tool.execute`,
`turn.terminal` and fatal errors the other.
*Correct if* a tool call is executed at most once, the journal and the checkpoint are durable
before the effect, the model is told what happened and nothing else, a stopped turn executes
nothing more, and no turn stays busy for ever.

**Encrypted agent state store** (`src/main/agent-runtime/encrypted-agent-state-store.ts`). One
directory per thread: `snapshot.enc` (task snapshot and SDK checkpoint with its revision),
`invocations.enc` (the journal of tool calls), session items and an event log. Operations are
serialised in one chain and replace files by rename. *Correct if* revisions are compared and
set, a record settles once, and a crash leaves a thread that can be listed or ignored.

**Task lifecycle** (`src/main/application/task-application-service.ts`,
`src/main/agent/task-runtime.ts`, `src/main/history/task-history-service.ts`,
`task-device-admission.ts`). The service keeps one `reservation` (somebody is starting) and the
routes of running tasks, admits one task to the device at a time, cancels, and at launch restores
unfinished tasks from the store. `TaskRuntime` keeps the phase the window shows; the history
writes every phase in the background. *Correct if* two tasks never work the device at once, a task
shown as running has somebody who will end it, a task at work is not shown as over, and the store
catches up with the window.

**Usage budget ledger** (`services/api/src/usage/budget.rs`) **and the provider handlers**
(`services/api/src/providers/*.rs`, `http/core.rs`). Rows of `model_budget_reservations` and
`agent_turns`. A handler reserves an estimate under the user's advisory lock, marks the row
dispatched, calls the provider, and then settles, releases or marks it uncertain; a sweep in
`reserve` decides rows past their time-to-live. *Correct if* a request id is paid for once, money
spent stays committed, limits hold under concurrency, and a message given back owes nothing.

**Lessons on the desktop** (`src/main/knowledge/classroom-lesson-*.ts`). The controller keeps one
active lesson with its status, its child task, an effect marker and a revision, saves it to an
encrypted journal and reports it. One execution (`work`) prepares material, claims a step, starts a
child task and waits for it; Pause, Stop, a question, opting out, leaving and the teacher's stop all
call `halt`, which aborts the execution, cancels the child, waits, and then moves the status. The
tool policy keeps a round for the child and revokes it. *Correct if* an action whose outcome nobody
knows is never attempted again, nothing is dispatched after a halt, every halt ends, a lesson that is
over stays over, and the lesson has the device while it works.

**Lesson delivery on the server** (`services/api/src/classroom/lesson_delivery.rs`, `lessons.rs`):
transactions that hand out the start of a lesson to one device and each attempt of a step to one
task, and take reports in the order of their revisions. *Correct if* lost answers, late requests and
crashes never leave two owners or two tasks, and the teacher finally sees what the student has.

**Class explanations** (`src/main/knowledge/classroom-guidance-coordinator.ts`,
`src/main/coach/coach-runtime.ts`, `services/api/src/classroom/guidance.rs`). The coordinator keeps a
card, a generation, and a journal whose phases (claiming, claimed, dispatching, running, unknown,
terminal) are saved before they are acted on; the Coach counts model requests in the same journal;
the server has one claim per student and broadcast. *Correct if* an explanation is dispatched once
whatever crashes, the model is asked only under a claim of this computer and once for each wish of
the student, Stop ends it without a network, and the device becomes free again.

**Session store of the SDK** (`services/agent-runtime/src/host-backed-session.ts`): items with a
revision and operation ids; an append whose answer was lost must be recognised.

**Async operation tracker** (`src/main/agent/async-operation-tracker.ts`): openings of
applications, dispatched once and reported unknown after a restart.

**Feeds, directives and broadcasts** (`classroom-lesson-feed-service.ts`,
`classroom-directive-service.ts`, `classroom-broadcast-service.ts`): cursors over polled feeds.

**Knowledge ingestion** (`services/api/src/knowledge/worker.rs`): jobs with leases and attempts.

**Others**: Coach as a task of its own, the native computer-use service, voice
and dictation, connectors, accounts and sessions, rate limiter, updater, analytics, windows and
admin pages. `PROJECT.json` lists every one with its status and reason.

### 1.2 How they interact

    window --submit/stop--> TaskApplicationService --start/cancel/resume--> LocalAgentRuntime
                                  |      ^                                    |        ^
                                phases   | onTerminal, onEvent          messages      | exit
                                  v      |                                    v        |
                             TaskRuntime <---------------- tool events ---- utility process (SDK)
                                  |                                               |
                            TaskHistoryService --save--> encrypted store          | model calls
                                                              ^                   v
                         LocalAgentRuntime --checkpoint, journal                hosted API:
                                                                        BudgetLedger -> provider

* The task service awaits `start`; the runtime calls back `onEvent` while a turn works and
  `onTerminal` when it is over. Both write the same phase, and so does Stop.
* The runtime and the task history share the store, and nothing else survives a restart.
* Every model request of the utility process is a reservation in the ledger, and a turn has
  to be reserved (`POST /v1/agent-turns`) before it starts.
* A lesson and an explanation reserve the same device as a task does, and their children are
  tasks: the Stop of a task calls back `onTaskCancelled` of the coordinator and the step runner.
* Lessons and explanations have a journal on the disk, a claim on the server, and reports between
  the two; the account and the class membership may go away between any two steps.

### 1.3 What is hard here

The interleavings of the host, the utility process and the user between any two awaits; handlers
that outlive the turn they serve; timeouts that race late answers; a crash between claim, effect and
record; background writes that a restart cuts off; a launch that restores tasks while the user
submits new ones; on the server, handlers dropped at any await, repeated request ids and the sweep
of stale rows; in class, halts that overlap each other and the execution they halt, answers lost
after the server has acted, requests served after their sender has given up, and a second computer
of the same student. `PROJECT.json` lists 40 such hazards at their lines, and for each one the
properties that watch it or the reason why none does yet.

## 2. Modules and how they correspond to the code

| module | models | lines of TLA+ |
|---|---|---|
| `AgentTurn` | one thread: host, utility process, store, failures | 768 |
| `ToolCallPromise` | abstract: what is promised about a tool call | 78 |
| `AgentTurnProofs` | at most once, final outcomes, nothing dispatched for an aborted turn | proofs |
| `AgentPromiseProofs` | what the model is told, durability, the refinement of `ToolCallPromise`, no completion over an unknown effect | proofs |
| `BudgetLedger` | one user's reservations, agent turns and handlers | 300 |
| `MCBudgetLedger` | its symmetry for TLC | 13 |
| `BudgetLedgerProofs` | all six properties of `BudgetLedger` | proofs |
| `TaskDesk` | admission, phases, history and restore of several tasks | 427 |
| `TaskDeskProofs` | its types, and its properties at launch | proofs |
| `LessonRun` | a lesson on one computer: execution, halts, child, tool policy, journal | 814 |
| `MCLessonRun` | its plans for TLC | 8 |
| `LessonRunProofs` | all its safety properties | proofs |
| `LessonDelivery` | a lesson between a computer and the server: claims, reports, lost answers | 543 |
| `LessonDeliveryProofs` | all its properties | proofs |
| `Explanation` | a class explanation: coordinator, Coach, device, claim and reports | 647 |
| `ExplanationProofs` | its types, who frees the device, one request for each wish | proofs |
| `ExplanationClaimProofs` | one dispatch, and no request without a claim | proofs |

Names of actions and operators follow the functions they model; `PROJECT.json` gives the exact
lines for each one. Operators introduced as "Mutant of ..." are wrong variants kept beside the
right one: each is a plausible bug, and shows that some property notices it.

### 2.1 AgentTurn

*State.* `checkpoint`, `journal` are the store. `turns, stage, active, aborted, exiting, handler,
outcome` are the host: where `start` is, the active map, which abort signals have fired, the exit
handler's unfinished work, and the program counter of the handler that serves a turn's request.
`proc, child, toHost, toChild` are the utility process, its running turn and the message port.
`asked, told, dispatched, stopped` are history variables that no guard but uniqueness of call ids
and one Stop per turn reads.

*Actions.*

| action | code |
|---|---|
| `BeginStart`, `AdmitTurn`, `RefuseTurn`, `PostStart` | `LocalAgentRuntime.start`, cut at its awaits |
| `Resume` (`ResumeKind`) | `resume`, `pendingToolResumeDisposition` |
| `Stop` | `cancel` |
| `RequestTool`, `FinishRun`, `ModelFails`, `RequestTimesOut` | `runTurn` and `HostBridge.request` |
| `ChildReceive`: `RunTurn`, `CancelTurn`, `CommitConfirmed`, `ToolAnswered`, `UnexpectedResponse` | the commands and responses `LocalRuntimeServer` takes |
| `HostReceive` | `receive` of the host |
| `CommitCheckpoint` | `checkpointCommit`, `commitCheckpoint` of the store |
| `ReadCheckpoint`, `AddInvocation`, `LessonPolicy`, `RefuseCall` (the answer to a call that will not be dispatched: unknown, cancelled or denied), `ClaimExecution`, `Dispatch`, `AdapterReturns`, `RecordOutcome`, `Respond` | `toolExecute`, one action per await |
| `StoreFails` | an operation of the store throws; `receive` fails closed |
| `ProcessDies`, `ProcessExits`, `SettleExit` | exit of the utility process, `handleExit` cut at its awaits |
| `Restart` | the application ends; only the store survives |

Every await of a handler is a step of its own, so every other party can run in between. Store
operations are one step because the store runs them in a chain and replaces whole files.

*What is simplified.* The SDK is not part of the repository: it is modelled from how `runTurn` uses
it (it asks for one tool call at a time, a thrown tool error leaves the run). A call id is issued
once. The handshake, credentials, streamed text and steering are left out. Whether the native driver
looks at the abort signal once it has been called is the driver's business.

### 2.2 ToolCallPromise

The abstract specification: a record that goes from open through claimed to an outcome, adapter
runs between claim and outcome, and an answer to the model that equals the record or says that
the call did not run and now never will. `AgentTurn!KeepsPromise` states the refinement: the
journal is the record (`none` and `checkpointed` are open, `executing` is claimed), `dispatched`
the runs, `told` the answer. `Forget` is there because a resumed conversation is older than
what the model had been told.

### 2.3 BudgetLedger

*State.* `res` is the table of reservations by request id, `turn` the table of agent turns, `pc` the
place of every handler; `paid` and `ran` are history: provider calls made and whether the provider
ran inference.

*Actions.* `ReserveTurn` (`POST /v1/agent-turns`), `Reserve`/`RefuseReserve` (`reserve`, with the
sweep as its first statement), `MarkDispatched`, `CallProvider`, `ProviderAnswers` and
`StreamEnds` (the provider, external), `Release`, `MarkUncertain`, `Settle`, `SettleFails`
(`transition`, `settle`), `Drop` (the handler's future is dropped) and `Age` (the time-to-live
passes). Each ledger operation is one transaction under `pg_advisory_xact_lock` of the user, so
it is one step and other users cannot matter.

*What is simplified.* One period stands for the month, the day and the task, whose totals `reserve`
compares in the same way; every request reserves the same `Estimate`. Usage may come to anything up
to `MaxCost`, more than the estimate too: `settle` writes it without comparing the two. One
assumption: a handler gets from `reserve` to `mark_dispatched` - two statements with no provider
call between - within the time-to-live. It matters: `mark_dispatched` answers OK for a row that was
swept, and is listed as a hazard.

### 2.4 TaskDesk

*State.* `phase` is TaskRuntime's snapshot, `queue` and `saved` the history's chain of writes and what
it has written, `checkpointed` the threads that can be resumed, `reservation`, `routes`, `sub` the
task service and each submission's place, `turn`, `aborted`, `tool`, `asked` a runtime reduced to
its place, `launch`, `pending`, `restoring` the restore. `stopped, reached, revived, lost` are
history: stopped by the user; stopped with its turn aborted; over and then not over; phase cut off
by a restart.

*Actions.* `Submit`, `StartTask`, `StartFails`, `Admit`, `PostStart` are `submitAndStart` and
`submitOrdinary` with the `start` they await; `ReserveClassroomExplanation`/`ReleaseReservation`
the reservation a guidance holds; `Stop` is `cancel`; `RequestTool`, `StartTool`, `ToolReturns`
the tool events that set a phase; `EndTurn`, `ProcessExits`, `Report` the terminal report and
`onTerminal`; `Write` one background write; `BeginRestore`, `RestoreTask`, `ResumeTurn`,
`ResumeFails`, `EndRestore` are `restoreLocalTasks`; `Restart` ends the application.

*Relation to AgentTurn.* A turn's inner steps are those of `AgentTurn`; `TaskDesk` keeps only what
moves a phase. `AgentTurn` in turn knows of the task service only that it starts a thread once
and resumes it after a restart. The two modules are two views of one system, not a composition.

*What is simplified.* Agent tasks only (the Coach's device is in `Explanation`, a lesson's in
`LessonRun`), no sign-out, history writes that do not fail, the restored window opened after the
restore (`RestoreFirst`, as at launch) or before it (as after a sign-in).

### 2.5 LessonRun

*State.* `lesson` is `controller.active`, `journal` and `writes` its copy on the disk and the
store's queue; `work` the execution with its abort signal, `halts` the calls of `halt` under way,
with the place each waits at; `waiting, cancelling` the step runner, `round` the tool policy, `turn`
the child tasks' turns, `tool` the call in flight; `reservation` the device; `open, joined` the
class. `doubt` (an action was dispatched and nobody learned its outcome), `revoked` and `overlap` (a
run began while a halt still waited for the cancellation of an earlier child) are history. A run
deletes the cancellation that a halt of the same child waits for, so this halt is `overtaken`
(`unsure` if the outcome was not known by then): its answer comes whenever the native session's
does, and rejects the run that there is then.

*Actions.*

| action | code |
|---|---|
| `Launch`, `Prepare`, `Claim`, `PrepareMaterial`, `MaterialReady`, `ViewStep`, `StepFinished`, `FinishOpening`, `WorkSaved` | `launch` and `execute`, cut at their awaits |
| `ClaimChild`, `StepClaimed` | `claimLessonChild` |
| `RunStep`, `StartRun`, `Register`, `RunFails`, `RunStopped`, `ChildEnds` | `run` and `terminal` of the step runner |
| `Authorize`, `Admit`, `StartChild`, `ChildStarted` | `authorize`, `admitLessonChild` |
| `ToolAsks`, `ToolMarks`, `ToolDispatches`, `ToolActed`, `ToolReturns`, `ToolObservesAgain`, `ToolRecovers` | the teaching tools' guard and the policy's `dispatch` |
| `StudentHalts`, `StudentAsks`, `FeedStops`, `LeaveClass`, `ChildStopped` | the callers of `halt` |
| `HaltCancelled`, `OvertakenDone`, `HaltMoves`, `HaltReturns`, `CancelDone` | `halt` after its awaits, `cancel` of the runner |
| `NextStep`, `Finish` | `continue` |
| `JoinClass`, `Restart` | `activate` with what `latest` finds, a crash |
| `OtherTaskStarts`, `OtherTaskEnds`, `TeacherStops`, `CancelTask` | the environment |

*What is simplified.* One lesson; requests to the server may fail at any time and are otherwise a wait
(`LessonDelivery` has them); the student's checks, texts and budgets are left out; one tool call of
a child in flight.

### 2.6 LessonDelivery

*State.* `server` is the lesson's row, its delivery and its step claims; `wire` the requests not yet
served, each marked `late` once its sender has given up; `app, journal, writes` the lesson in
memory, on the disk and in the store's queue, each with the set of its pending reports; `saver, ask,
flush` where each call of `persist`, each request and the feed's `flushReports` is.

*Actions.* `Serve` (`start_lesson`, `start_lesson_step`, `report_lesson`, each one transaction under
row locks), `GivesUp` (the request or its answer is lost, or the 20 s of the client are over);
`Launch`, `Prepared`, `Starts`, `StartAnswered`, `LooksUpStart`, `Authorizes`, `ShowsMaterial`,
`Attempts`, `ClaimsStep`, `StepAnswered`, `LooksUpStep`, `ChildEnds`, `WorkEnds`, `Finishes` are
`execute` and `claimLessonChild`; `Saved`, `SendReport`, `Reported` are `persist`; `FlushSends`,
`FlushAnswered` the feed's retry; `Halts`, `HaltMoves`, `Restart`, `TeacherStops`, `OtherStarts`,
`OtherReports` the rest. The two lesson modules split one system: what happens inside the computer
is coarse here, what happens on the wire is coarse there, and no run composes them - their product
is far beyond TLC. What each takes from the other is in its header.

### 2.7 Explanation

*State.* `server` is the claim's row and whether the class is open; `wire` the requests; `dev` the
computer as a record: the journal file, the store's queue, the journal object of each start, the
place of each start and whether its generation is stale, the coach, the card, the device, calls of
`tasks.cancel`, the report queue, the restore; `here` is the account and the class. `seen` is
history: how often the explanation was dispatched, whether it was stopped before that, while it
started or after its start had failed (`early`), whether the coach may ask (`may`: a dispatch or a
Next that no request has used), and whether a task was left that nobody finishes (`lost`, see 5).
Revisions of reports are natural numbers without a bound, since their number follows from the other
bounds.

*Actions.* `Begin`, `BeginRefused`, `ShowAgain`, `Prepared`, `Claims`, `Rounded`, `Admitted`,
`Submitted`, `StartLands`, `UndoLands` are `startExplanation` and `submitClassroomExplanation`, cut
at their awaits; `CoachRound`, `ModelAnswers`, `CoachLands`, `Continue` are `runExplanation` with the
coordinator's `consume` and `awaitContinuation`; `Stop`, `StopTask`, `CancelLands`, `TerminalLands`,
`Leave`, `SignOut` the ways it ends; `Reports`, `ReportLands`, `RestoreLands`, `RestoreReports`,
`SignIn`, `Restart` reports, restore and crash; `SessionCloses`, `OtherClaims`, `ServeLate` the
server's other events. A handler is written as a composition of functions on `dev`, because most
of them call each other synchronously.

*What is simplified.* One broadcast; observations (paid for as model requests are), screen modes and
texts are left out; other tasks of the device are `TaskDesk`'s. The pages of this commit call
none of the start, continue and stop handlers: they are reached by IPC, and `startExplanation`
also by the automatic start on a broadcast, so the model takes any order of these calls.

## 3. The runs

Deadlock checking is off in every run: threads, requests and tasks are finite in number, so a
finished instance has nothing left to do, as a program that waits for its user.

| run | cfg | shows | states |
|---|---|---|---|
| `agent_task` | `AgentTurn_task` | `TypeOK AtMostOnce ToldTheTruth NoCompletionOverUnknown KeepsPromise SettledIsFinal DurableBeforeEffect AbortedTurnsDispatchNothing`, and `TurnEnds` under `FairSpec`, for a task with two calls, two turns, one restart | 160,053 |
| `agent_lesson` | `AgentTurn_lesson` | `KeepsPromise` for a lesson's thread, where a handler of the first turn may overlap the second | 1,247,344 |
| `agent_continue` | `AgentTurn_continue` | violation of `ContinuationCommits` | |
| `ledger_enforce` | `MCBudgetLedger_enforce` | `TypeOK OnePaidCall SpendIsCommitted ReleasedTurnsOweNothing WithinLimit DecidedIsFinal`: three requests of two turns, one of them an image, two handlers each, usage beyond the estimate, one message at a time | 850,962 |
| `desk_launch` | `TaskDesk_launch` | `TypeOK OneAtATime NoOrphan RunningIsShown SavedIsShown StopIsForGood` for two tasks and an explanation, from launch on, with a restart | 2,639,465 |
| `lesson_tools` | `MCLessonRun_tools` | `TypeOK NeverReplayed UncertaintySurvives NoActionAfterHalt`: a taught step and one that opens material, one halt, one restart | 2,063,774 |
| `lesson_halts` | `MCLessonRun_halts` | `RunningHasWork OverIsFinal`, and `HaltsEnd` under `FairSpec`: two halts at once, another task | 185,928 |
| `lesson_device` | `MCLessonRun_device` | violation of `DeviceIsHeld` | |
| `lesson_delivery` | `LessonDelivery_run` | `TypeOK ClaimIsRight StepsAgree ReportedIsDurable SeenIsTrue`: a crash, a late request, a second computer | 1,035,512 |
| `lesson_owner` | `LessonDelivery_owner` | violation of `OneExecution` | |
| `explanation_run` | `Explanation_run` | `TypeOK NeverReplayed AsksUnderClaim DeviceIsFreed AskedForOnce`: two starts, a crash or a sign-out, a late request | 2,770,292 |
| `explanation_stops` | `Explanation_stops` | `StopEnds` under `FairSpec` | 155,712 |

### 3.1 Properties

* `AtMostOnce` - a call reaches its adapter once at most. It takes a crash after the claim, a
  resume that asks for the call again and the journal's `executing` record to see why.
* `SettledIsFinal` - late adapter, exit handler and resumed turn write about one call; the first wins.
* `DurableBeforeEffect` - at the adapter call both files already say so.
* `ToldTheTruth` - the model's picture equals the journal; "did not run" only of calls that did not.
* `NoCompletionOverUnknown` - no turn is reported completed over an unknown effect.
* `AbortedTurnsDispatchNothing` - nothing is dispatched once the signal has fired, although it was
  read before two awaits.
* `KeepsPromise` - the refinement of `ToolCallPromise`.
* `TurnEnds` - no turn that `start` is through with stays in the active map, although its adapter,
  the store or the model may never answer. A turn whose initial observation is still awaited is not
  covered (3.3, 5).
* `OnePaidCall`, `SpendIsCommitted`, `ReleasedTurnsOweNothing`, `DecidedIsFinal` - the ledger, see
  1.1.
* `WithinLimit` - in enforce mode the total in which every call counts up to its estimate (`Capped`)
  stays within the limit: only what calls turn out to cost beyond their estimates can take the real
  total past it, and then nothing more is admitted.
* `OneAtATime` - two holders of the device (tasks whose turn starts or runs, an explanation) never
  coexist. It excuses tasks the user stopped (Stop frees the device before the turn has ended:
  the code means it so), tasks that were over and went on, and tasks whose end a restart lost.
  The first exception is the code's design, the other two are a late tool event (see 5) and the
  background write; without restore-at-sign-in nothing else breaks it.
* `NoOrphan` - an unfinished phase or a held reservation always has a submission, a turn, a report or
  a restore that will end it. Tasks moved back from over to acting are excused; see 5.
* `RunningIsShown` - a task that works is not shown as over unless the user stopped it.
* `SavedIsShown` - with an empty queue the store has what the window shows, although the first phase
  is written by two paths.
* `StopIsForGood` - a task whose Stop reached its turn never works again, also after a restart, unless
  a late tool event or a lost write made it unfinished (`revived`, `lost`; see 5).
* `NeverReplayed`, `UncertaintySurvives` of `LessonRun` - while nobody knows whether an action
  happened no execution begins and the step does not count as done; a crash does not wash it away.
  Both are claimed only as long as no run began beside a halt (`overlap`): after that the code breaks
  them (see 5).
* `NoActionAfterHalt` - the policy's check and the native call are one step of the code, but the
  check was reached through several awaits during which a halt may come and a next execution begin.
* `RunningHasWork`, `OverIsFinal`, `HaltsEnd` - halts and the execution's own end write the same
  status; whoever is last, the lesson does not claim to run with nobody at work, an end is final,
  and no two of them wait for each other.
* `ClaimIsRight`, `StepsAgree` - what the computer was told of the start and of every attempt is
  what the server has.
* `ReportedIsDurable`, `SeenIsTrue` - a report sent is on the disk until the server has it or a later
  one; when all is quiet (before a restart) the teacher sees what the student has.
* `NeverReplayed` of `Explanation` - one dispatch. A student who stopped it before the dispatch, also
  one whose start had failed, may start again (`early`): the journal stays at claimed.
* `AsksUnderClaim` - at every model request the server's row is this computer's and is not over, again
  but for an early stop, which tells the teacher "cancelled" and leaves the journal startable, and for a
  coach that the account's sign-out left behind (`lost`, see 5).
* `AskedForOnce` - every model request has a dispatch or a Next of its own; the limiter's refusal has
  none.
* `DeviceIsFreed` - a busy device has a start, a coach or a cancellation that will free it. The
  exceptions (`lost`: a coach aborted after its card has ended, a route set after its coach has gone) are
  in 5.
* `StopEnds` - Stop and leaving end the coach although they first wait for the store.

### 3.2 Bounds

* Two calls, one harmless (`ObserveCalls`) and one not: what the store knows of a call interacts
  with another only through the one pending call of the checkpoint, so a third adds nothing new. Two
  turns and one restart: a turn, its crash and the turn that resumes it, or a lesson's turn and its
  continuation. `MaxContinuations` is 2, the code's own number.
* Three requests over limits that two of them fill: one is refused while another is undecided. Two
  turns under a limit of one message, so that the second needs the release of the first; two
  handlers per request id are enough for a repeat racing its original or following it. Usage runs up to
  3 beside an estimate of 2, so that calls settle below, at and above it, and two of them can pass the
  limit.
* Two tasks and one explanation are the smallest set in which three kinds of holders meet. One tool
  call per task suffices, because a phase forgets earlier calls. `MaxQueue = 1` in `desk_launch`
  makes the history write each phase before the next one is committed but still after any number of
  other steps. In the code the chain is unbounded. A commit that finds the queue full waits in the
  model; a queue of one therefore leaves out the runs in which two phases of the same moment are
  both lost, or written after a third. The theorems of 4.3 hold for every length.
* `lesson_tools` has a step with a working child followed by one that opens material, so both routes
  of an execution and the step between them occur; one halt and one restart, because an action in
  doubt is the result of the first interruption and must survive the second. `lesson_halts` has two
  halts, the fewest that overlap, and one explanation step; a third halt would find what the second
  finds.
* `lesson_delivery`: one attempt, one late request, one restart, five revisions: enough for a start
  or a step served late after the restart that repeated it. Two of the initial states are a lesson
  whose child works and one whose child has ended, at revision 3, so that two more reports and a
  late one can arrive out of order. The second computer reports one revision. With the working
  lesson at revision 2, one more report in flight, the same properties were checked once (3.6
  million states).
* `explanation_run`: two starts, so that a stopped one meets its successor; two model requests stand
  for the eight of the code, since only the last and those before it differ. One break - a crash or
  a sign-out - and one late request can fall into any await of either start. The run's bounds are
  what fits into five minutes. The invariants behind the proofs were checked with the properties on
  more, all with one model request: one start with four breaks (559,239 states) or with three breaks
  and a late request (959,595); two starts with one break and a late request (2,211,126) or with two
  breaks (3,211,083); three starts with one break as far as 7 million states; and random behaviours
  with four starts, four breaks and two late requests over 72 million states. Three starts with a
  break, and one start with two, showed the two ways into `lost` that the run is too small for
  (section 5).

### 3.3 Fairness

Three runs use fairness. `agent_task`: `AgentTurn!FairSpec` assumes three things. The utility process
takes its next step; since `HostBridge.request` arms a timer (30 s, 180 s), a request is among the
steps that end by themselves. The host takes the messages of that process. The exit of a dead process
is delivered. Weak fairness is enough because none of these steps is disabled again by others for
ever. Nothing is assumed of the adapters and of the handlers that wait for them, for the store or for
the lesson's policy (`AdapterReturns` and `HandlerStep` have no fairness), of the user, or of crashes.
Nothing is assumed of `start` either: it awaits a token, the process, the server's answer and then
`prefetchInitialObservation`, a native observation without a time limit, during which the turn is
already in the active map (`agent-runtime-adapter.ts:199-203`). `TurnEnds` is therefore about turns
that `start` has posted.

`lesson_halts`: the store's queue, the execution's next step (a request is answered or fails: the
client arms 20 s) and the runner's cancellation are weakly fair. The steps of a halt are strongly
fair: a halt that awaits the work is due whenever the work has ended, new work may begin in the
meantime, but the continuation of an awaited promise runs before the next event of the loop. Nothing
is assumed of the student, the teacher, the other task or the model.

`explanation_stops`: the store's queue and the coach are weakly fair; the model's request has a limit of
120 s (`coach-runtime.ts:654`). Nothing is assumed of the network: a stop must end without it.

## 4. What is proved

`tlapm` checks every theorem below for all constants that satisfy the modules' assumptions: any sets
of calls, requests, turns, tasks and handlers, any plan, any number of restarts, halts and starts, any
limits. Every safety property that a passing run checks has a theorem, type invariants included.

| module | about | obligations |
|---|---|---|
| `AgentTurnProofs` | `AgentTurn` (`CallsAssumption`, `BoundsAssumption`) | 1556 |
| `AgentPromiseProofs` | the same | 3998 |
| `BudgetLedgerProofs` | `BudgetLedger` (`SetsAssumption`, `NumbersAssumption`) | 1610 |
| `TaskDeskProofs` | `TaskDesk` (`HoldersAssumption`, `BoundsAssumption`) | 1610 |
| `LessonRunProofs` | `LessonRun` (`PlanAssumption`, `LessonBoundsAssumption`) | 3216 |
| `LessonDeliveryProofs` | `LessonDelivery` (`DeliveryBoundsAssumption`) | 4940 |
| `ExplanationProofs` | `Explanation` (`ExplanationBoundsAssumption`) | 5831 |
| `ExplanationClaimProofs` | the same | 4068 |

None of the properties is inductive as it stands. Each theorem rests on a strengthening that says what the
program's state means, one step per action, and under it one per conjunct the action can
disturb. TLC checked each strengthening before it was proved, on the instances of the runs and, for
`Explanation`, on those of 3.2.

### 4.1 AgentTurn

*At most once* (`IInv`). `AtMostOnce` is not inductive: the claim in the journal does not record
*who* claimed, so a state with two handlers at "dispatch" for one call satisfies it and breaks it in
a step. `IInv` adds what makes the claim unique: `OneTurnPerCall` (the messages, handlers and
running child that mention a call all belong to one turn), `AskedFirst` (a call that a checkpoint or
anybody mentions has been asked for), `RestoredIsQuiet` (after a restart nothing moves until the
resume), `HandlersFollowJournal` (before the claim the journal says checkpointed; at the dispatch it
says more and nothing was dispatched yet) and `DispatchedIsClaimed` (an adapter call leaves a
journal beyond `checkpointed`). Theorems: `TypeCorrect`, `Inductive`, `AtMostOnceHolds`,
`SettledIsFinalHolds`, `AbortedTurnsDispatchNothingHolds`.

*What the model is told, and the refinement* (`PInv`). `ToldTheTruth` breaks if an answer reaches
the model while somebody else may still change the record. `PInv` says that this cannot be: what a
turn asked of the host and has not heard of is in one place only - with the model, on the wire to
the host, with a handler, on the wire back (`Places`); nobody knows a newer checkpoint than the
store's and a new process does not overlap the exit of an old one (`Order`); a commit that an
aborted turn left behind is refused for its revision (`Current`); what handlers and messages say of
a call agrees with the journal (`Known`); what was told is the last word (`AnswersAreLast`).
Theorems: `PromiseInvariant`, `ToldTheTruthHolds`, `DurableBeforeEffectHolds`, and
`KeepsPromiseHolds`: the initial state maps to the promise's, and each action to a step of one
call's record, claim, run or answer, or to a stutter. A resume that forgets what the model was told
maps to `Forget`.

*No completion over an unknown effect* (`CInv`). The commit before a completion could hide a call of
unknown outcome if it replaced the checkpoint that names it. `CInv` adds that one turn at most knows
the store's revision (`OneKnows`), that what is executed or confirmed is the last checkpoint's call
(`NamesCurrent`), that whoever may commit next leaves no unsettled call behind (`CommitsAreClear`),
that a call in doubt is named by the last checkpoint (`DoubtIsNamed`), that a turn commits the calls
its own model asked for (`CommitsOwn`) and that only later turns know the checkpoint of a finished
one (`FinishedIsPast`). TLC checked it for a task and for a lesson, on the instances of both passing
runs. Theorems: `CompletionInvariant`, `NoCompletionOverUnknownHolds`.

### 4.2 BudgetLedger

`IInv` says that a request has one handler beyond the duplicate check (`OneOwner`), that this handler has
a row (`OwnerHasRow`), that nothing was paid before the call (`UnpaidBefore`), that a row is fresh
while its handler is between reserve and mark (`FreshWhileReserved`), that a marked row stays
committed until somebody who knows better decides it (`MarkedIsCommitted`), that a rejected call ran
nothing (`RejectedRanNothing`) and that spend is behind a marked row (`SpendIsMarked`). With these
`OnePaidCall`, `SpendIsCommitted` and `ReleasedTurnsOweNothing` are inductive together;
`DecidedIsFinal` follows from the types alone.

`WithinLimit` is about a sum over a set of rows. The sum is a fold, a recursive function, and an
induction over sets cannot be used here; instead the committed amounts are counted: `Units` is the
set of pairs of a committed request and a number up to its amount, `SumsCount` shows that the fold
is its cardinality - a smallest set for which it is not would have an element to take away - and the
library's facts about cardinalities do the rest. `Spending` adds that a reservation which nobody has
decided holds back the whole estimate, without which a settlement could add to the capped total.
Admission compares the real total, which is never less than the capped one (`CappedTotal`). Nothing is
assumed of what a call costs, and nothing relates `MaxCost` to `Estimate`.

Theorems: `TypeCorrect`, `Inductive`, `OnePaidCallHolds`, `SpendIsCommittedHolds`,
`ReleasedTurnsOweNothingHolds`, `DecidedIsFinalHolds`, `WithinLimitHolds`.

### 4.3 TaskDesk

`TypeCorrect` holds for every order of window and restore. The other theorems have the hypothesis
`RestoreFirst`: at launch the window opens after the restore. It is what `desk_launch` checks; after
a sign-in the properties do not hold (section 5). `LaunchInv` says that the store will hold what the
window shows (`Synced`), who holds the reservation while a task is being submitted (`Submitting`),
that during the restore nobody submits and what is pending is what the store holds (`Launching`),
that one task at most is at work and keeps the device (`OneActive`), and that what was stopped at
work stays over (`ReachedIsOver`, `ReachedStays`). Theorems: `LaunchInvariant`, `OneAtATimeHolds`,
`NoOrphanHolds`, `RunningIsShownHolds`, `SavedIsShownHolds`, `StopIsForGoodHolds`.

### 4.4 LessonRun

`LessonInv`: the status says where the execution is (`Status`), an aborted execution has a halt that
waits for it (`Halted`), the tools' round belongs to the child that is waited for and not to an
aborted one (`Child`), an end in the journal or in the queue is followed by ends only
(`OverInOrder`), the disk names the child before it works (`ChildSaved`), and an action of unknown
outcome is known to the run, or to the halt that will make the lesson unknown, and to every copy
(`Doubtful`). Theorems: `TypeCorrect`, `LessonInvariant`, `NoActionAfterHaltHolds`,
`RunningHasWorkHolds`, `UncertaintySurvivesHolds`, `NeverReplayedHolds`, `OverIsFinalHolds`.

### 4.5 LessonDelivery

`DeliveryInv`: the copies of the lesson - journal, queue, memory - follow one another (`InOrder`);
what is about to be asked is in the journal or on its way there (`Durable`), so that all the server
was asked or has of this computer is in the journal too (`Claimed`); answers that have arrived are
true (`AnswersAreTrue`), hence what every copy took from them (`AllKnow`); reports are of revisions
the lesson has had (`Seen`). Theorems: `TypeCorrect`, `DeliveryInvariant`, `ClaimIsRightHolds`,
`StepsAgreeHolds`, `ReportedIsDurableHolds`, `SeenIsTrueHolds`.

### 4.6 Explanation

The invariant has layers, each proved from those before it.

* `Base`: the types; one write of each start in the queue, and only while that start waits for it
  (`Starting`); one claim (`Claiming`) and one restore (`Restoring`) under way; who will free the
  device (`Freed`); whether the coach may ask (`Allowed`). It gives `TypeCorrect`,
  `DeviceIsFreedHolds` and `AskedForOnceHolds`.
* `Dispatched`: `Before` the dispatch one start at most is at work, it holds the device, nobody else
  works for this explanation, and its "dispatching" is in the file before it is made; `After` it
  every journal - the file's, the queue's, the ones in memory - is spent, and none of them can start
  again. A stop before the dispatch is excused. It gives `NeverReplayedHolds`.
* `Claimed`: whoever is signed out has no card, and his starts know it (`Away`); without a claim of
  this computer no journal says so and there is no coach (`Mine`); and nobody has told the teacher
  of an end (`Unheard`): before the dispatch because there was none to tell (`Untold`), after it
  because an end is reported behind the call that ends the coach - the exception is a stop whose
  journal is still in the store's queue, in front of anything the coach waits for (`UndoAhead`). It
  gives `AsksUnderClaimHolds`.

`Base` and its theorems are in `ExplanationProofs`, the other two in `ExplanationClaimProofs`. A device is a
record of twelve fields and a step is a composition of functions on it, so most of both modules are facts
about these functions: which fields each one moves, and what it puts into the queue.

### 4.7 Not proved

`TurnEnds`, `HaltsEnd` and `StopEnds`: liveness under fairness and ENABLED are beyond this prover. TLC
checks them on the runs' instances. The three properties that the violation runs refute are false.

## 5. Disagreements found

Three are runs that violate one property, with the code doing what the model says.

1. `agent_continue` - a continued lesson step commits from revision 0 while the store holds the
   revision of the turn before; the commit is refused and the process that serves all threads is
   killed. `docs/lesson-agent-architecture-spec.md:122` asks to continue "with preserved context".
2. `lesson_device` - `halt` releases the device after its awaited report
   (`classroom-lesson-controller.ts:437`). Pause, then Resume while that report is under way: the
   first halt gives away the reservation of the resumed execution.
   `docs/classroom-lesson-execution.md:53-54` says that ordinary work and a lesson cannot acquire
   independent ownership.
3. `lesson_owner` - `execute` keeps the claim that it then refuses (`:308`, `:324`). Resume finds a
   claim, skips the start, and the refused computer works on the other one's lesson.
   `docs/lesson-agent-architecture-spec.md:507` says that existing ownership prevents this.

Others came up while modelling. The models contain them unless said otherwise; the properties name them as
exceptions or the bounds leave them out, and no run is kept for them:

* Stop while `start` is awaiting its token, process or model turn is not remembered
  (`agent-runtime-adapter.ts:378`): the turn is posted and runs tools; `README.md:518` says "at any
  time".
* A turn is in the active map while `start` awaits its initial observation, a native call without a
  time limit (`agent-runtime-adapter.ts:199-203`, `:249`). If that never returns, no timer and no exit
  of the process gives the thread back: every later start on it is refused, and Stop only fires the
  signal. `TurnEnds` leaves it out.
* An answer of the host that crosses a Stop or a timeout is `unexpected_host_response`
  (`host-bridge.ts:90`), fatal to the process of every thread.
* A call whose handler outlives the time-to-live is swept to uncertain and its settlement refused
  (`budget.rs:370`); `docs/inference-cost-lifecycle.md:113-115` says successful calls settle.
* `settle` charges the usage whatever it is (`budget.rs:375-386`), and
  `/v1/openai/responses/compact` neither requires nor caps `max_output_tokens`
  (`http/core.rs:688-709`), whose output the estimate then counts as nothing (`models.rs:132-173`). A
  settlement may so take commitments past the limit, although `docs/inference-cost-lifecycle.md:5`
  calls the estimates conservative. `WithinLimit` says that only such overruns can.
* After a sign-in `restoreLocalTasks` runs in the background without the reservation
  (`task-application-service.ts:441`): a task submitted meanwhile is taken for an interrupted one,
  marked failed, and its device given away. (`TaskDesk` with `RestoreFirst = FALSE`.)
* A tool event under way at Stop moves the task from cancelled to acting (`task-runtime.ts:145`); if
  the application then ends, the next launch resumes it (`revived` of `TaskDesk`).
* Stop of a lesson during the admission of its child leaves the child's turn running (`stray` in
  `LessonRun`).
* A report whose revision the server has with another id is refused by 409 until a later one is
  accepted, and `flushReports` throws at every poll meanwhile; it may also send a revision that is
  not yet durable. Both are in `LessonDelivery`; `ReportedIsDurable` is about `persist` only. What
  `activate` writes after a restart is reported by nobody, and the pending reports of a lesson that
  is over are lost there: `SeenIsTrue` looks at runs before a restart.
* Stop of an explanation while it is starting, or after its start has failed, leaves the journal at
  claimed and tells the teacher "cancelled": `stop` looks at no phase
  (`classroom-guidance-coordinator.ts:487-492`). The student may start the explanation again, and the
  model is asked under a row that is over (`early`).
* Signing out aborts the coach by its route and `invalidate` stops nothing when the card has ended:
  the task keeps the device until somebody stops it (`lost`).
* The catch of a stopped start releases its successor's reservation, which has the same task id
  (`classroom-guidance-coordinator.ts:365`); a third start is then admitted, and two of them create
  the same task. If the first is dispatched and the student then signs out, the sign-out aborts its
  coach and removes the route; the second sets the route again, the runtime refuses to start the
  task twice (`task-application-service.ts:370-371`), and nobody removes the route: the device is
  busy until the application ends (`lost`; a behaviour of 26 states with three starts and one
  break).
* The student signs out while the task of an explanation is being created, signs in, so that the
  restore reports it interrupted, and signs out again. The start finds that its generation is over
  and cancels the task (`classroom-guidance-coordinator.ts:335`), the cancellation is refused
  without an account, and the coach goes on and asks the model after the teacher was told of an end
  (`lost`; 23 states with one start and two breaks).
* A halt waits for the child's cancellation (`classroom-lesson-controller.ts:428`). Meanwhile the
  execution may end by itself, the student resumes, and the same child runs again: `run` forgets the
  cancellation (`classroom-lesson-step-runner.ts:106`), which still waits for the task and the
  native session. When it answers, it rejects the new run's waiter (`:223`), and the halt writes its
  "confirmed" over the effect of the new run's action. The lesson may then resume over an action of
  unknown outcome, although `docs/lesson-agent-architecture-spec.md:532` says "unknown effects are
  never replayed". It takes one halt, no restart and 51 states with the plan of `lesson_tools`;
  `NeverReplayed` and `UncertaintySurvives` are about the behaviours before it (`overlap`).
* Stop of an explanation that waits may be reported as failed, because the coach's rejection comes
  first.
* `docs/knowledge-spaces.md:162-164` says "Consent starts off"; `defaultClassroomGuidanceConsent`
  (`classroom-guidance-policy.ts:3-6`) is enabled. Consent is not modelled.

## 6. Only model-checked, and not modelled

Only model-checked: the liveness properties, see 4.7. Not modelled, and why, is in `PROJECT.json`
per component: external processes (native driver, SDK internals, providers), user interface, HTTP
glue and clients without shared state; the others are in the plan below. Of the modelled components
these operations are left out: steering, interactions and the handshake of the runtime; the Coach as
a task of its own; the lesson's checks, budgets and feed cursor; consent and pending notices of the
coordinator; publication, feeds and summaries of the server; the monthly count of images of the
ledger is modelled but no run fills it, since four requests beside a limit of money are too many
states.

Smaller ones: `AbortedTurnsDispatchNothing` and `NoActionAfterHalt` look at the signal where the
policy's coordinator does, and for a `cua.*` tool the native call follows one more await, of
`startTaskSession` (`execution-coordinator.ts:251`), which gets the signal too; `LessonRun` leaves out
`lesson_open` and the recovery by a confirmed observation.

Writes of the task history that fail (`task-history-service.ts:60`) end its chain until the next start; they
are not modelled.

No run composes two modules. They share the device, the store and the tasks' lives, and each takes the
others as an environment that may do at any time what its neighbour allows: another task in `LessonRun`,
an explanation in `TaskDesk`, lost requests in `LessonRun`, a second computer in `LessonDelivery`.

Most of the repository's lines are schemas, pages, catalogues and clients in which nothing can happen in
a wrong order; the models cover the state machines, a small share of the lines.

## 7. The plan

Done, in this order, most important behaviour first: `AgentTurn` with `ToolCallPromise` and its
proofs; `BudgetLedger`; `TaskDesk`; `LessonRun`; `LessonDelivery`; `Explanation`.

The proofs followed the same order, and cover every safety property of the runs (section 4).

Proofs that would follow: that `TaskDesk` after a sign-in keeps those parts of `LaunchInv` that the
restore beside a submission does not break; an abstract specification of "one dispatch, one
owner" that `LessonDelivery` and `Explanation` both implement.

Modules that would follow, each in the place of a run that has become less interesting:

1. `SessionStore` - the SDK's hosted session over the store: revisions, operation ids, lost answers,
   compaction by compare-and-replace. Abstract specification: a list to which every operation
   applies once.
2. `StateFiles` - create (snapshot, journal, index), save and the framed event log under a crash after
   each file; abstract: a map of threads that are either complete or absent.
3. `OpeningTracker` - the at-most-once receipt across restarts, and a late read against a restore.
4. `IngestionWorker` - leases, takeover and the twelfth attempt.
5. Feeds and directives: cursors, stale polls and the acknowledgement of a directive.
6. Extensions of `TaskDesk`: sign-out, failing history writes, and the liveness property that every
   submitted task settles.
