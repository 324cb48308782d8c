------------------------------ MODULE AgentTurn ------------------------------
(***************************************************************************)
(* One task thread of the local agent: the utility process that runs the   *)
(* Agents SDK (services/agent-runtime/src), Electron main that owns it     *)
(* (LocalAgentRuntime), and the encrypted store that outlives both.        *)
(*                                                                         *)
(* A tool call goes through four places in turn.  The utility process      *)
(* commits a checkpoint that names the call, asks the host to execute it,  *)
(* the host journals the call and moves it to "executing" before it calls  *)
(* the adapter, and the recorded result is what the model is told.  The    *)
(* user may press Stop, either process may die, and a request may time     *)
(* out, between any two of these steps.                                    *)
(*                                                                         *)
(* Simplifications:                                                        *)
(*  - Store operations are atomic: the store serialises them and replaces  *)
(*    files by rename.  A RunState is its revision and pending call.       *)
(*  - The handshake, credentials and streamed events are left out.         *)
(*  - An error thrown by a tool callback leaves the SDK's run (the catch   *)
(*    of runTurn is written for that); the SDK itself is not in src/.      *)
(*  - The receipt "unknown, observe first" of a guarded lesson tool is the *)
(*    value "observe"; the journal's status for it is unknown.             *)
(***************************************************************************)
EXTENDS Naturals, Sequences

CONSTANTS
  Calls,          \* tool call ids the model provider may issue, each once
  ObserveCalls,   \* the calls of computer.observe, which change nothing
  NoCall,         \* "no pending call"
  MaxTurns,       \* bound: starts and resumes of the thread
  MaxRestarts,    \* bound: restarts of the application
  LessonChild     \* TRUE: the thread is a lesson's task and may take a second turn

ASSUME CallsAssumption == ObserveCalls \subseteq Calls /\ NoCall \notin Calls
ASSUME BoundsAssumption ==
  MaxTurns \in Nat /\ MaxRestarts \in Nat /\ LessonChild \in BOOLEAN

Turns == 1 .. MaxTurns
NoTurn == 0
CallOrNone == Calls \cup {NoCall}

Settled  == {"completed", "failed", "unknown", "observe", "cancelled"}
Status   == {"none", "checkpointed", "executing"} \cup Settled
Told     == {"none", "rejected"} \cup Settled
Outcomes == {"none", "completed", "failed", "cancelled", "unknown"}

VARIABLES
  checkpoint,   \* snapshot.enc: revision and pending call of the last RunState
  journal,      \* invocations.enc: status of each call
  turns,        \* turns started or resumed so far; the newest one's number
  stage,        \* where LocalAgentRuntime.start is for the newest turn
  active,       \* the turn in the host's `active` map, or NoTurn
  aborted,      \* turns whose AbortController has fired
  exiting,      \* turn whose child has gone and whose journal is being settled
  handler,      \* the host's handler of the turn's outstanding request
  outcome,      \* what onTerminal reported for each turn
  proc,         \* the utility process: down, up, or killed but not yet gone
  child,        \* the turn that runs in the utility process
  toHost,       \* messages from the utility process, oldest first
  toChild,      \* messages to the utility process, oldest first
  restored,     \* TRUE after a restart, until the thread is restored
  restarts,     \* restarts of the application so far
  asked,        \* history: the turn in which the model asked for a call
  told,         \* history: what the model was told about a call
  dispatched,   \* history: adapter calls made for a call
  stopped       \* history: turns the user stopped

durable == <<checkpoint, journal>>
hostVars == <<turns, stage, active, aborted, exiting, handler, outcome>>
procVars == <<proc, child, toHost, toChild>>
history == <<asked, told, dispatched, stopped>>
vars == <<durable, hostVars, procVars, restored, restarts, history>>

HandlerPc == {"idle", "commit", "committed", "read", "add", "policy", "start",
              "markUnknown", "markCancelled", "markDenied", "dispatch",
              "running", "record", "result"}
Idle == [pc |-> "idle", call |-> NoCall, rev |-> 0, out |-> "none"]
NoChild == [turn |-> NoTurn, pc |-> "none", call |-> NoCall, rev |-> 0, goes |-> 0]

MaxContinuations == 2

HostBound ==
  [kind : {"fatal"}, turn : {NoTurn}, call : {NoCall}, rev : {0}, status : {"none"}]
    \cup [kind : {"commit"}, turn : Turns, call : CallOrNone, rev : Nat, status : {"none"}]
    \cup [kind : {"execute"}, turn : Turns, call : Calls, rev : {0}, status : {"none"}]
    \cup [kind : {"terminal"}, turn : Turns, call : {NoCall}, rev : {0}, status : Outcomes]
ChildBound ==
  [kind : {"start", "finish", "cancel"}, turn : Turns, call : {NoCall}, rev : Nat, val : {"none"}]
    \cup [kind : {"replay", "reject"}, turn : Turns, call : Calls, rev : Nat, val : {"none"}]
    \cup [kind : {"committed"}, turn : Turns, call : CallOrNone, rev : Nat, val : Told]
    \cup [kind : {"result"}, turn : Turns, call : Calls, rev : Nat, val : Settled]

ChildState ==
  {NoChild}
    \cup [turn : Turns, pc : {"model", "committing"}, call : CallOrNone, rev : Nat,
          goes : 0 .. MaxContinuations]
    \cup [turn : Turns, pc : {"executing"}, call : Calls, rev : Nat,
          goes : 0 .. MaxContinuations]

\* A handler that executes a call has one, and its last steps have an outcome.
HandlerState ==
  {h \in [pc : HandlerPc, call : CallOrNone, rev : Nat, out : Told] :
     /\ h.pc \notin {"idle", "commit", "committed"} => h.call \in Calls
     /\ h.pc \in {"record", "result"} => h.out \in Settled}

TypeOK ==
  /\ checkpoint \in [rev : Nat, call : CallOrNone]
  /\ journal \in [Calls -> Status]
  /\ turns \in 0 .. MaxTurns
  /\ stage \in {"idle", "admitting", "prefetch"}
  /\ stage # "idle" => turns \in Turns
  /\ active \in Turns \cup {NoTurn}
  /\ aborted \subseteq Turns
  /\ exiting \in Turns \cup {NoTurn}
  /\ handler \in [Turns -> HandlerState]
  /\ outcome \in [Turns -> Outcomes]
  /\ proc \in {"down", "up", "dying"}
  /\ child \in ChildState
  /\ toHost \in Seq(HostBound)
  /\ toChild \in Seq(ChildBound)
  /\ restored \in BOOLEAN
  /\ restarts \in 0 .. MaxRestarts
  /\ asked \in [Calls -> Turns \cup {NoTurn}]
  /\ told \in [Calls -> Told]
  /\ dispatched \in [Calls -> Nat]
  /\ stopped \subseteq Turns

Init ==
  /\ checkpoint = [rev |-> 0, call |-> NoCall]
  /\ journal = [c \in Calls |-> "none"]
  /\ turns = 0
  /\ stage = "idle"
  /\ active = NoTurn
  /\ aborted = {}
  /\ exiting = NoTurn
  /\ handler = [t \in Turns |-> Idle]
  /\ outcome = [t \in Turns |-> "none"]
  /\ proc = "down"
  /\ child = NoChild
  /\ toHost = << >>
  /\ toChild = << >>
  /\ restored = FALSE
  /\ restarts = 0
  /\ asked = [c \in Calls |-> NoTurn]
  /\ told = [c \in Calls |-> "none"]
  /\ dispatched = [c \in Calls |-> 0]
  /\ stopped = {}

(***************************************************************************)
(* Messages.  What is posted to a process that is already gone is lost.    *)
(***************************************************************************)
Post(kind, t, c, r, v) ==
  toChild' = IF proc = "up"
             THEN Append(toChild, [kind |-> kind, turn |-> t, call |-> c,
                                   rev |-> r, val |-> v])
             ELSE toChild

Send(kind, t, c, r, s) ==
  toHost' = Append(toHost, [kind |-> kind, turn |-> t, call |-> c,
                            rev |-> r, status |-> s])

\* failClosed: the host kills the utility process and waits for its exit.
FailClosed == proc' = IF proc = "up" THEN "dying" ELSE proc

(***************************************************************************)
(* Host: starting, resuming and stopping a turn.                           *)
(***************************************************************************)

\* assertSettledInvocations, asked before a lesson's task takes another turn.
SettledInvocations ==
  \A c \in Calls : journal[c] \notin {"executing", "unknown", "observe"}

\* A turn starts when the task has no active one; the token, the process and
\* the reserved model turn are awaited next.
BeginStart ==
  /\ stage = "idle" /\ active = NoTurn /\ exiting = NoTurn
  /\ turns < MaxTurns
  /\ turns = 0 \/ (LessonChild /\ SettledInvocations)
  /\ turns' = turns + 1
  /\ stage' = "admitting"
  /\ UNCHANGED <<durable, active, aborted, exiting, handler, outcome,
                 procVars, restored, restarts, history>>

\* ensureReady forks a process only when the host holds none; a killed one is
\* still held.
AdmitTurn ==
  /\ stage = "admitting"
  /\ proc' = IF proc = "down" THEN "up" ELSE proc
  /\ active' = turns
  /\ stage' = "prefetch"
  /\ UNCHANGED <<durable, turns, aborted, exiting, handler, outcome, child,
                 toHost, toChild, restored, restarts, history>>

\* No token, no runtime, or no model turn left: start rejects and the caller
\* completes the task as failed.
RefuseTurn ==
  /\ stage = "admitting"
  /\ stage' = "idle"
  /\ outcome' = [outcome EXCEPT ![turns] = "failed"]
  /\ UNCHANGED <<durable, turns, active, aborted, exiting, handler,
                 procVars, restored, restarts, history>>

\* The initial observation is in; post turn.start, or fail if the process went.
PostStart ==
  /\ stage = "prefetch"
  /\ stage' = "idle"
  /\ \/ /\ proc # "down"
        /\ Post("start", turns, NoCall, 0, "none")
        /\ UNCHANGED <<active, outcome>>
     \/ /\ proc = "down"
        /\ active' = NoTurn
        /\ outcome' = [outcome EXCEPT ![turns] = "failed"]
        /\ UNCHANGED toChild
  /\ UNCHANGED <<durable, turns, aborted, exiting, handler, proc, child,
                 toHost, restored, restarts, history>>

\* Mutant of ResumeKind: a call left executing is taken for one that did not run.
ResumeForgets ==
  LET c == checkpoint.call IN
  CASE c = NoCall -> "finish"
    [] c \in Calls /\ journal[c] \in {"completed", "failed"} -> "replay"
    [] OTHER -> "reject"

\* pendingToolResumeDisposition with the branch resume takes on no pending call.
ResumeKind ==
  LET c == checkpoint.call IN
  CASE c = NoCall -> "finish"
    [] c \in ObserveCalls -> "reject"
    [] c \in Calls \ ObserveCalls
         /\ journal[c] \in {"none", "checkpointed", "cancelled"} -> "reject"
    [] OTHER -> "replay"

\* restoreLocalTasks resumes an unfinished task from its durable checkpoint.
\* The new RunState has forgotten what was told about the pending call.
Resume ==
  /\ restored /\ ~LessonChild
  /\ stage = "idle" /\ active = NoTurn
  /\ turns < MaxTurns
  /\ checkpoint.rev > 0
  /\ restored' = FALSE
  /\ turns' = turns + 1
  /\ active' = turns + 1
  /\ proc' = "up"
  /\ toChild' = Append(toChild, [kind |-> ResumeKind, turn |-> turns + 1,
                                 call |-> checkpoint.call, rev |-> checkpoint.rev,
                                 val |-> "none"])
  /\ told' = [c \in Calls |-> IF c = checkpoint.call THEN "none" ELSE told[c]]
  /\ UNCHANGED <<durable, stage, aborted, exiting, handler, outcome, child,
                 toHost, restarts, asked, dispatched, stopped>>

\* Mutant of UserStop: no look at the active map.
StopsBlindly ==
  /\ UNCHANGED stopped
  /\ aborted' = aborted \cup {active}
  /\ UNCHANGED toChild

\* Stop or Escape.  A turn that is not in the active map yet is not reached.
UserStop ==
  \/ /\ stage = "admitting" /\ turns \notin stopped
     /\ stopped' = stopped \cup {turns}
     /\ UNCHANGED <<aborted, toChild>>
  \/ /\ active # NoTurn /\ active \notin stopped
     /\ stopped' = stopped \cup {active}
     /\ aborted' = aborted \cup {active}
     /\ Post("cancel", active, NoCall, 0, "none")

Stop ==
  /\ UserStop
  /\ UNCHANGED <<durable, turns, stage, active, exiting, handler, outcome,
                 proc, child, toHost, restored, restarts, asked, told, dispatched>>

(***************************************************************************)
(* Utility process: runTurn, one step per model request or host response.  *)
(***************************************************************************)
EndTurn(status) ==
  /\ Send("terminal", child.turn, NoCall, 0, status)
  /\ child' = NoChild

Fatal == Send("fatal", NoTurn, NoCall, 0, "none")

\* The model asks for one tool call: checkpoint it, then wait for the host.
RequestTool(c) ==
  /\ proc = "up" /\ child.pc = "model"
  /\ asked[c] = NoTurn
  /\ asked' = [asked EXCEPT ![c] = child.turn]
  /\ child' = [child EXCEPT !.pc = "committing", !.call = c]
  /\ Send("commit", child.turn, c, child.rev, "none")
  /\ UNCHANGED <<durable, hostVars, proc, toChild, restored, restarts,
                 told, dispatched, stopped>>

\* The model answers without a tool call: checkpoint the finished run.
FinishRun ==
  /\ proc = "up" /\ child.pc = "model"
  /\ child' = [child EXCEPT !.pc = "committing", !.call = NoCall]
  /\ Send("commit", child.turn, NoCall, child.rev, "none")
  /\ UNCHANGED <<durable, hostVars, proc, toChild, restored, restarts, history>>

\* The provider fails, the answer is empty, or the run hits its turn limit.
ModelFails ==
  /\ proc = "up" /\ child.pc = "model"
  /\ EndTurn("failed")
  /\ UNCHANGED <<durable, hostVars, proc, toChild, restored, restarts, history>>

\* HostBridge.request gives up after 30 s (checkpoint) or 180 s (tool).
RequestTimesOut ==
  /\ proc = "up" /\ child.pc \in {"committing", "executing"}
  /\ EndTurn("failed")
  /\ UNCHANGED <<durable, hostVars, proc, toChild, restored, restarts, history>>

Expected(m) ==
  /\ child.turn = m.turn /\ child.call = m.call
  /\ \/ m.kind = "committed" /\ child.pc = "committing"
     \/ m.kind = "result" /\ child.pc = "executing"

ChildTakes(m) ==
  proc = "up" /\ toChild # << >> /\ Head(toChild) = m /\ toChild' = Tail(toChild)

\* turn.start and turn.resume; an active thread is a fatal command error.
RunTurn(m) ==
  /\ m.kind \in {"start", "replay", "reject", "finish"}
  /\ \/ /\ child.pc # "none"
        /\ Fatal
        /\ UNCHANGED <<child, told>>
     \/ /\ child.pc = "none" /\ m.kind = "replay"
        /\ child' = [NoChild EXCEPT !.turn = m.turn, !.pc = "executing", !.call = m.call,
                                    !.rev = m.rev]
        /\ Send("execute", m.turn, m.call, 0, "none")
        /\ UNCHANGED told
     \/ /\ child.pc = "none" /\ m.kind = "finish"
        /\ child' = [NoChild EXCEPT !.turn = m.turn, !.pc = "committing", !.rev = m.rev]
        /\ Send("commit", m.turn, NoCall, m.rev, "none")
        /\ UNCHANGED told
     \/ /\ child.pc = "none" /\ m.kind \in {"start", "reject"}
        /\ child' = [NoChild EXCEPT !.turn = m.turn, !.pc = "model", !.rev = m.rev]
        /\ told' = [c \in Calls |-> IF m.kind = "reject" /\ c = m.call
                                    THEN "rejected" ELSE told[c]]
        /\ UNCHANGED toHost

\* turn.cancel aborts the turn; a thread without one ignores it.
CancelTurn(m) ==
  /\ m.kind = "cancel"
  /\ \/ child.pc = "none" /\ UNCHANGED <<child, toHost>>
     \/ child.pc # "none" /\ EndTurn("cancelled")
  /\ UNCHANGED told

\* checkpoint.commit.result: approve the call, or end the finished run.  A
\* lesson turn whose completion tool is unconfirmed runs on, twice at most.
CommitConfirmed(m) ==
  /\ m.kind = "committed" /\ Expected(m)
  /\ \/ /\ m.call # NoCall
        /\ child' = [child EXCEPT !.pc = "executing", !.rev = m.rev]
        /\ Send("execute", m.turn, m.call, 0, "none")
     \/ m.call = NoCall /\ EndTurn("completed")
     \/ m.call = NoCall /\ LessonChild /\ EndTurn("failed")
     \/ /\ m.call = NoCall /\ LessonChild /\ child.goes < MaxContinuations
        /\ child' = [child EXCEPT !.pc = "model", !.rev = m.rev, !.goes = @ + 1]
        /\ UNCHANGED toHost
  /\ UNCHANGED told

\* Mutant of ToolAnswered: the model is told "unknown" and carries on.
AnswersUnknown(m) ==
  /\ m.kind = "result" /\ Expected(m)
  /\ told' = [told EXCEPT ![m.call] = m.val]
  /\ child' = [child EXCEPT !.pc = "model", !.call = NoCall]
  /\ UNCHANGED toHost

\* tool.execute.result, through modelToolResult.
ToolAnswered(m) ==
  /\ m.kind = "result" /\ Expected(m)
  /\ \/ /\ m.val \in {"completed", "failed", "observe"}
        /\ told' = [told EXCEPT ![m.call] = m.val]
        /\ child' = [child EXCEPT !.pc = "model", !.call = NoCall]
        /\ UNCHANGED toHost
     \/ /\ m.val = "unknown" /\ EndTurn("unknown") /\ UNCHANGED told
     \/ /\ m.val = "cancelled" /\ EndTurn("failed") /\ UNCHANGED told

\* A response nobody waits for is a protocol error of the host.
UnexpectedResponse(m) ==
  /\ m.kind \in {"committed", "result"} /\ ~Expected(m)
  /\ Fatal
  /\ UNCHANGED <<child, told>>

ChildReceive ==
  /\ \E m \in {toChild[i] : i \in DOMAIN toChild} :
       /\ ChildTakes(m)
       /\ RunTurn(m) \/ CancelTurn(m) \/ CommitConfirmed(m) \/ ToolAnswered(m)
            \/ UnexpectedResponse(m)
  /\ UNCHANGED <<durable, hostVars, proc, restored, restarts,
                 asked, dispatched, stopped>>

(***************************************************************************)
(* Host: messages of the utility process and their handlers.               *)
(***************************************************************************)
Handle(t, pc, c, r) ==
  handler' = [handler EXCEPT ![t] = [pc |-> pc, call |-> c, rev |-> r, out |-> "none"]]
Goto(t, pc) == handler' = [handler EXCEPT ![t].pc = pc]
Conclude(t, pc, out) == handler' = [handler EXCEPT ![t].pc = pc, ![t].out = out]
EndHandler(t) == handler' = [handler EXCEPT ![t] = Idle]

HostTakes(m) ==
  proc # "down" /\ toHost # << >> /\ Head(toHost) = m /\ toHost' = Tail(toHost)

\* receive: a message of another turn than the active one fails closed.
Receive(m) ==
  \/ /\ m.kind = "fatal" \/ m.turn # active
     /\ FailClosed
     /\ UNCHANGED <<active, aborted, handler, outcome>>
  \/ /\ m.kind = "commit" /\ m.turn = active
     /\ Handle(m.turn, "commit", m.call, m.rev)
     /\ UNCHANGED <<active, aborted, outcome, proc>>
  \/ /\ m.kind = "execute" /\ m.turn = active
     /\ Handle(m.turn, "read", m.call, 0)
     /\ UNCHANGED <<active, aborted, outcome, proc>>
  \/ /\ m.kind = "terminal" /\ m.turn = active
     /\ aborted' = aborted \cup {m.turn}
     /\ active' = NoTurn
     /\ outcome' = [outcome EXCEPT ![m.turn] = m.status]
     /\ UNCHANGED <<handler, proc>>

HostReceive ==
  /\ \E m \in {toHost[i] : i \in DOMAIN toHost} : HostTakes(m) /\ Receive(m)
  /\ UNCHANGED <<durable, turns, stage, exiting, child, toChild,
                 restored, restarts, history>>

\* commitCheckpoint: compare the revision, write the next one.  The store also
\* answers a repeated commit of the same RunState; no caller repeats one.
CommitCheckpoint(t) ==
  /\ handler[t].pc = "commit"
  /\ \/ /\ handler[t].rev = checkpoint.rev
        /\ checkpoint' = [rev |-> checkpoint.rev + 1, call |-> handler[t].call]
        /\ Handle(t, "committed", handler[t].call, checkpoint.rev + 1)
        /\ UNCHANGED proc
     \/ /\ handler[t].rev # checkpoint.rev
        /\ EndHandler(t)
        /\ FailClosed
        /\ UNCHANGED checkpoint
  /\ UNCHANGED <<journal, turns, stage, active, aborted, exiting, outcome,
                 child, toHost, toChild, restored, restarts, history>>

\* toolExecute: the checkpoint must name the call.  A call of another catalog
\* or another required initial tool fails closed too.
ReadCheckpoint(t) ==
  /\ handler[t].pc = "read"
  /\ \/ /\ checkpoint.rev > 0 /\ checkpoint.call = handler[t].call
        /\ Goto(t, "add")
        /\ UNCHANGED proc
     \/ /\ EndHandler(t)
        /\ FailClosed
  /\ UNCHANGED <<durable, turns, stage, active, aborted, exiting, outcome,
                 child, toHost, toChild, restored, restarts, history>>

\* Mutants of Branch: an executing call is dispatched again; the claim is skipped.
BranchRetries(t, record) ==
  IF record = "checkpointed" /\ t \in aborted THEN "markCancelled" ELSE "start"
BranchSkipsClaim(t, record) ==
  IF record = "executing" THEN "markUnknown" ELSE "dispatch"

\* Where toolExecute goes with a record that has no result.
Branch(t, record) ==
  CASE record = "executing" -> "markUnknown"
    [] record = "checkpointed" /\ t \in aborted -> "markCancelled"
    [] record = "checkpointed" /\ t \notin aborted -> IF LessonChild THEN "policy" ELSE "start"

\* addInvocation: an existing record is returned as it is.
AddInvocation(t) ==
  LET c == handler[t].call
      record == IF journal[c] = "none" THEN "checkpointed" ELSE journal[c]
  IN
  /\ handler[t].pc = "add"
  /\ journal' = [journal EXCEPT ![c] = record]
  /\ \/ /\ record \in Settled
        /\ Conclude(t, "result", record)
     \/ /\ record \notin Settled
        /\ Goto(t, Branch(t, record))
  /\ UNCHANGED <<checkpoint, turns, stage, active, aborted, exiting, outcome,
                 procVars, restored, restarts, history>>

\* beforeTool, awaited for a lesson's tools only: allowed, or denied.
LessonPolicy(t) ==
  /\ handler[t].pc = "policy"
  /\ \E pc \in {"start", "markDenied"} : Goto(t, pc)
  /\ UNCHANGED <<durable, turns, stage, active, aborted, exiting, outcome,
                 procVars, restored, restarts, history>>

\* Mutant of Transition: no comparison.
TransitionBlindly(c, expected, status) == journal' = [journal EXCEPT ![c] = status]

\* transitionInvocation: compare and set one record's status.
Transition(c, expected, status) ==
  journal' = IF journal[c] = expected THEN [journal EXCEPT ![c] = status] ELSE journal

\* The host's answer to a call it will not dispatch.
RefuseCall(t) ==
  LET c == handler[t].call IN
  /\ \/ handler[t].pc = "markUnknown"   /\ Transition(c, "executing", "unknown")
     \/ handler[t].pc = "markCancelled" /\ Transition(c, "checkpointed", "cancelled")
     \/ handler[t].pc = "markDenied"    /\ Transition(c, "checkpointed", "failed")
  /\ Conclude(t, "result",
       IF handler[t].pc = "markDenied" THEN "failed"
       ELSE IF journal'[c] \in Settled THEN journal'[c]
       ELSE IF handler[t].pc = "markUnknown" THEN "unknown" ELSE "cancelled")
  /\ UNCHANGED <<checkpoint, turns, stage, active, aborted, exiting, outcome,
                 procVars, restored, restarts, history>>

\* checkpointed -> executing, the step that owns the dispatch.
ClaimExecution(t) ==
  LET c == handler[t].call IN
  /\ handler[t].pc = "start"
  /\ Transition(c, "checkpointed", "executing")
  /\ \/ /\ journal'[c] = "executing"
        /\ Goto(t, "dispatch")
        /\ UNCHANGED proc
     \/ /\ journal'[c] # "executing"
        /\ EndHandler(t)
        /\ FailClosed
  /\ UNCHANGED <<checkpoint, turns, stage, active, aborted, exiting, outcome,
                 child, toHost, toChild, restored, restarts, history>>

\* Mutant of Dispatch: the signal is not looked at.
DispatchIgnoresSignal(t) ==
  /\ handler[t].pc = "dispatch"
  /\ dispatched' = [dispatched EXCEPT ![handler[t].call] = @ + 1]
  /\ Goto(t, "running")
  /\ UNCHANGED <<durable, turns, stage, active, aborted, exiting, outcome,
                 procVars, restored, restarts, asked, told, stopped>>

\* dispatchTool: the dispatcher looks at the signal and calls the adapter.
Dispatch(t) ==
  LET c == handler[t].call IN
  /\ handler[t].pc = "dispatch"
  /\ \/ /\ t \notin aborted
        /\ dispatched' = [dispatched EXCEPT ![c] = @ + 1]
        /\ Goto(t, "running")
     \/ /\ t \in aborted
        /\ Conclude(t, "record", "unknown")
        /\ UNCHANGED dispatched
  /\ UNCHANGED <<durable, turns, stage, active, aborted, exiting, outcome,
                 procVars, restored, restarts, asked, told, stopped>>

\* What normalizeLocalToolResult makes of a receipt.  Only the tools of a lesson
\* may say that the screen has to be observed again.
Receipts == {"completed", "failed", "unknown"} \cup (IF LessonChild THEN {"observe"} ELSE {})

\* The adapter returns a receipt or throws; a throw is an unknown outcome.
AdapterReturns(t) ==
  /\ handler[t].pc = "running"
  /\ \E out \in Receipts : Conclude(t, "record", out)
  /\ UNCHANGED <<durable, turns, stage, active, aborted, exiting, outcome,
                 procVars, restored, restarts, history>>

\* Mutant of RecordOutcome: what is not completed is recorded as failed, and the
\* adapter's result is answered as it is.
RecordOutcomeCoarsely(t) ==
  LET c == handler[t].call IN
  /\ handler[t].pc = "record"
  /\ Transition(c, "executing", IF handler[t].out = "completed" THEN "completed" ELSE "failed")
  /\ Goto(t, "result")
  /\ UNCHANGED <<checkpoint, turns, stage, active, aborted, exiting, outcome,
                 procVars, restored, restarts, history>>

\* The outcome goes into the journal, unless the record was settled meanwhile;
\* the journal's result is the answer.
RecordOutcome(t) ==
  LET c == handler[t].call IN
  /\ handler[t].pc = "record"
  /\ Transition(c, "executing", handler[t].out)
  /\ Conclude(t, "result", IF journal'[c] \in Settled THEN journal'[c] ELSE handler[t].out)
  /\ UNCHANGED <<checkpoint, turns, stage, active, aborted, exiting, outcome,
                 procVars, restored, restarts, history>>

\* respond: any active turn of the thread lets the answer out; without one the
\* host fails closed.
Respond(t) ==
  /\ handler[t].pc \in {"committed", "result"}
  /\ EndHandler(t)
  /\ \/ /\ active # NoTurn
        /\ Post(handler[t].pc, t, handler[t].call, handler[t].rev, handler[t].out)
        /\ UNCHANGED proc
     \/ /\ active = NoTurn
        /\ FailClosed
        /\ UNCHANGED toChild
  /\ UNCHANGED <<durable, turns, stage, active, aborted, exiting, outcome,
                 child, toHost, restored, restarts, history>>

HandlerStep(t) ==
  \/ CommitCheckpoint(t) \/ ReadCheckpoint(t) \/ AddInvocation(t)
  \/ LessonPolicy(t) \/ RefuseCall(t) \/ ClaimExecution(t) \/ Dispatch(t)
  \/ RecordOutcome(t) \/ Respond(t)

(***************************************************************************)
(* Failures.                                                               *)
(***************************************************************************)

\* A read or write of the store throws out of the handler.
StoreFails(t) ==
  /\ handler[t].pc \in {"commit", "read", "add", "start", "record", "markUnknown",
                       "markCancelled", "markDenied"}
  /\ EndHandler(t)
  /\ FailClosed
  /\ UNCHANGED <<durable, turns, stage, active, aborted, exiting, outcome,
                 child, toHost, toChild, restored, restarts, history>>

\* The utility process dies on its own.
ProcessDies ==
  /\ proc = "up"
  /\ proc' = "dying"
  /\ UNCHANGED <<durable, hostVars, child, toHost, toChild, restored, restarts, history>>

\* Mutant of ProcessExits: the exit of the process is noted, its turn is not.
ProcessExitsOnly ==
  /\ proc = "dying"
  /\ proc' = "down"
  /\ child' = NoChild
  /\ toHost' = << >>
  /\ toChild' = << >>
  /\ UNCHANGED <<durable, turns, stage, active, aborted, exiting, handler, outcome,
                 restored, restarts, history>>

\* handleExit, first part: the exit event clears the active turn.
ProcessExits ==
  /\ proc = "dying"
  /\ proc' = "down"
  /\ child' = NoChild
  /\ toHost' = << >>
  /\ toChild' = << >>
  /\ active' = NoTurn
  /\ aborted' = IF active = NoTurn THEN aborted ELSE aborted \cup {active}
  /\ exiting' = active
  /\ UNCHANGED <<durable, turns, stage, handler, outcome, restored, restarts, history>>

\* Mutant of SettleExit: a call that was executing is settled as failed.
SettleExitAsFailed ==
  LET c == checkpoint.call IN
  /\ exiting # NoTurn
  /\ journal' = [k \in Calls |-> IF k = c /\ journal[k] = "executing"
                                 THEN "failed" ELSE journal[k]]
  /\ outcome' = [outcome EXCEPT ![exiting] = "failed"]
  /\ exiting' = NoTurn
  /\ UNCHANGED <<checkpoint, turns, stage, active, aborted, handler, procVars,
                 restored, restarts, history>>

\* handleExit, second part: a call left executing is unknown; report the turn.
SettleExit ==
  LET c == checkpoint.call IN
  /\ exiting # NoTurn
  /\ journal' = [k \in Calls |-> IF k = c /\ journal[k] = "executing"
                                 THEN "unknown" ELSE journal[k]]
  /\ outcome' = [outcome EXCEPT ![exiting] = "failed"]
  /\ exiting' = NoTurn
  /\ UNCHANGED <<checkpoint, turns, stage, active, aborted, handler, procVars,
                 restored, restarts, history>>

\* The application ends and starts again: only the store survives.
Restart ==
  /\ restarts < MaxRestarts
  /\ turns > 0
  /\ restarts' = restarts + 1
  /\ restored' = TRUE
  /\ stage' = "idle"
  /\ active' = NoTurn
  /\ aborted' = {}
  /\ exiting' = NoTurn
  /\ handler' = [t \in Turns |-> Idle]
  /\ proc' = "down"
  /\ child' = NoChild
  /\ toHost' = << >>
  /\ toChild' = << >>
  /\ UNCHANGED <<durable, turns, outcome, history>>

ChildStep ==
  (\E c \in Calls : RequestTool(c)) \/ FinishRun \/ ModelFails \/ RequestTimesOut
    \/ ChildReceive
StartStep == BeginStart \/ AdmitTurn \/ RefuseTurn \/ PostStart \/ Resume
ExitStep == ProcessExits \/ SettleExit

Next ==
  \/ StartStep
  \/ Stop
  \/ ChildStep
  \/ HostReceive
  \/ \E t \in Turns : HandlerStep(t) \/ AdapterReturns(t) \/ StoreFails(t)
  \/ ProcessDies
  \/ ExitStep
  \/ Restart

Spec == Init /\ [][Next]_vars

\* What makes a turn that runs end: the utility process and the two queues are
\* served, its request timer fires, and a dead process is noticed.  Nothing is
\* assumed of the adapters, also not of the observation that start awaits before
\* it posts the turn, of the store, of the handlers that wait for one of them, or
\* of the user; and nothing has to crash.
Fairness ==
  /\ WF_vars(ChildStep) /\ WF_vars(HostReceive)
  /\ WF_vars(ExitStep)
FairSpec == Spec /\ Fairness
(***************************************************************************)
(* Properties.                                                             *)
(***************************************************************************)

\* A call reaches its adapter once at most, whatever crashes, resumes,
\* timeouts and restarts come between the checkpoint and the answer
\* (toolExecute, pendingToolResumeDisposition).
AtMostOnce == \A c \in Calls : dispatched[c] <= 1

\* A settled call keeps its recorded outcome: a late adapter, the exit handler
\* and a resumed turn that write about the same call do not overwrite each
\* other (transitionInvocation).
SettledIsFinal ==
  [][\A c \in Calls : journal[c] \in Settled => journal'[c] = journal[c]]_vars

\* When an adapter is called, the store already holds the checkpoint that names
\* the call and the journal already says executing, so a crash in the very next
\* step finds both (toolExecute, commitCheckpoint).
DurableBeforeEffect ==
  [][\A c \in Calls : dispatched'[c] # dispatched[c]
       => journal[c] = "executing" /\ checkpoint.call = c]_vars

\* What the model is told about a call is what the journal records, and it is
\* told "did not run" only of a call that did not run or only looked
\* (modelToolResult, applyPendingToolResume).
ToldTheTruth ==
  \A c \in Calls :
    /\ told[c] \in Settled => journal[c] = told[c]
    /\ told[c] = "rejected" => dispatched[c] = 0 \/ c \in ObserveCalls

\* No turn completes over an effect nobody knows the outcome of: a call that
\* changes something and is unknown or still executing ends its turn, and the
\* next turn does not get past it (docs/security.md:170, handleExit, replay).
NoCompletionOverUnknown ==
  \A t \in Turns : outcome[t] = "completed" =>
    \A c \in Calls \ ObserveCalls :
      asked[c] \in 1 .. t => journal[c] \notin {"executing", "unknown"}

\* Once a turn is aborted - stopped, ended, or its process gone - no adapter is
\* called for it, wherever its handler was (dispatchTool reads the signal).
AbortedTurnsDispatchNothing ==
  [][\A t \in Turns : t \in aborted /\ handler[t].pc # "running"
       => handler'[t].pc # "running"]_vars

\* The thread keeps the promise of ToolCallPromise: the journal is its record,
\* adapter calls are its runs, and what the model is told is its answer.
Promise ==
  INSTANCE ToolCallPromise WITH
    Harmless <- ObserveCalls,
    record <- [c \in Calls |-> CASE journal[c] \in {"none", "checkpointed"} -> "open"
                                 [] journal[c] = "executing" -> "claimed"
                                 [] OTHER -> journal[c]],
    runs <- dispatched,
    answer <- told

\* Every step of the runtime, its store and its failures is a step of the
\* promise or leaves it alone (toolExecute, handleExit, resume).
KeepsPromise == Promise!Spec

\* A turn of the active map that start is through with leaves it again: whatever
\* the model, the adapters, the store or the processes do, the thread does not
\* stay busy (request timeouts, handleExit).  Before that, a turn whose initial
\* observation never returns stays in the map.
TurnEnds ==
  \A t \in Turns : (active = t /\ stage # "prefetch") ~> (active # t)

\* Continuing a lesson step gives its thread a turn whose checkpoints are
\* accepted: the one process that writes them is not refused for its revision
\* (docs/lesson-agent-architecture-spec.md:122).
ContinuationCommits ==
  \A t \in Turns : handler[t].pc = "commit" /\ t = active
    => handler[t].rev = checkpoint.rev
===============================================================================
