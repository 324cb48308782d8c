---------------------------- MODULE AgentTurnProofs ----------------------------
(***************************************************************************)
(* Proofs about AgentTurn, for any calls, any number of turns and restarts *)
(* and for ordinary tasks as well as lessons.                              *)
(***************************************************************************)
EXTENDS AgentTurn, TLAPS

(***************************************************************************)
(* Messages.                                                               *)
(***************************************************************************)

\* Sending keeps the type of the channel to the host.
LEMMA SendType ==
  ASSUME toHost \in Seq(HostBound), NEW k, NEW t, NEW c, NEW r, NEW s,
         [kind |-> k, turn |-> t, call |-> c, rev |-> r, status |-> s] \in HostBound,
         Send(k, t, c, r, s)
  PROVE  toHost' \in Seq(HostBound)
  BY DEF Send

\* Posting keeps the type of the channel to the utility process.
LEMMA PostType ==
  ASSUME toChild \in Seq(ChildBound), NEW k, NEW t, NEW c, NEW r, NEW v,
         [kind |-> k, turn |-> t, call |-> c, rev |-> r, val |-> v] \in ChildBound,
         Post(k, t, c, r, v)
  PROVE  toChild' \in Seq(ChildBound)
  BY DEF Post

\* The message that is taken, and the rest of the channel.
LEMMA ChildTakesType ==
  ASSUME toChild \in Seq(ChildBound), NEW m, ChildTakes(m)
  PROVE  m \in ChildBound /\ toChild' \in Seq(ChildBound)
  BY DEF ChildTakes

\* The same for a message that the host takes.
LEMMA HostTakesType ==
  ASSUME toHost \in Seq(HostBound), NEW m, HostTakes(m)
  PROVE  m \in HostBound /\ toHost' \in Seq(HostBound)
  BY DEF HostTakes

(***************************************************************************)
(* Type correctness.                                                       *)
(***************************************************************************)
LEMMA TypeInit == Init => TypeOK
<1> SUFFICES ASSUME Init PROVE TypeOK
  OBVIOUS
<1>1. Idle \in HandlerState
  BY DEF Idle, HandlerState, HandlerPc, CallOrNone, Told, Settled
<1>2. NoChild \in ChildState
  BY DEF ChildState
<1>3. checkpoint \in [rev : Nat, call : CallOrNone]
  BY DEF Init, CallOrNone
<1>4. turns \in 0 .. MaxTurns /\ restarts \in 0 .. MaxRestarts
  BY BoundsAssumption DEF Init
<1>5. toHost \in Seq(HostBound) /\ toChild \in Seq(ChildBound)
  BY DEF Init
<1>6. handler \in [Turns -> HandlerState] /\ child \in ChildState
  BY <1>1, <1>2 DEF Init
<1> QED
  BY <1>3, <1>4, <1>5, <1>6 DEF Init, TypeOK, Status, Outcomes, Told

\* The host's start and resume of a turn.
LEMMA StartType == TypeOK /\ StartStep => TypeOK'
<1> SUFFICES ASSUME TypeOK, StartStep PROVE TypeOK'
  OBVIOUS
<1> USE BoundsAssumption DEF Turns, NoTurn
<1>1. CASE BeginStart
  BY <1>1 DEF BeginStart, TypeOK, durable, procVars, history
<1>2. CASE AdmitTurn
  BY <1>2 DEF AdmitTurn, TypeOK, durable, history
<1>3. CASE RefuseTurn
  BY <1>3 DEF RefuseTurn, TypeOK, durable, procVars, history, Outcomes
<1>4. CASE PostStart
  <2>1. turns \in Turns
    BY <1>4 DEF PostStart, TypeOK
  <2>2. toChild' \in Seq(ChildBound)
    <3>1. [kind |-> "start", turn |-> turns, call |-> NoCall, rev |-> 0, val |-> "none"]
            \in ChildBound
      BY <2>1 DEF ChildBound
    <3> QED
      BY <3>1, <1>4, PostType DEF PostStart, TypeOK
  <2> QED
    BY <2>2, <1>4 DEF PostStart, TypeOK, durable, history, Outcomes
<1>5. CASE Resume
  <2>1. turns + 1 \in Turns
    BY <1>5 DEF Resume, TypeOK
  <2>2. ResumeKind \in {"finish", "reject", "replay"}
    BY DEF ResumeKind
  <2>3. checkpoint.call = NoCall => ResumeKind = "finish"
    BY CallsAssumption DEF ResumeKind
  <2>4. checkpoint.call \in CallOrNone /\ checkpoint.rev \in Nat
    BY DEF TypeOK
  <2>5. checkpoint.call # NoCall => ResumeKind # "finish"
    BY CallsAssumption, <2>4 DEF ResumeKind, CallOrNone
  <2>6. [kind |-> ResumeKind, turn |-> turns + 1, call |-> checkpoint.call,
         rev |-> checkpoint.rev, val |-> "none"] \in ChildBound
    BY <2>1, <2>2, <2>3, <2>4, <2>5 DEF ChildBound, CallOrNone
  <2>7. toChild' \in Seq(ChildBound)
    BY <2>6, <1>5 DEF Resume, TypeOK
  <2>8. told' \in [Calls -> Told]
    BY <1>5 DEF Resume, TypeOK, Told
  <2>9. turns' \in 0 .. MaxTurns /\ active' \in Turns \cup {NoTurn} /\ stage' = "idle"
    BY <2>1, <1>5 DEF Resume, TypeOK
  <2> QED
    BY <2>7, <2>8, <2>9, <1>5 DEF Resume, TypeOK, durable
<1> QED
  BY <1>1, <1>2, <1>3, <1>4, <1>5 DEF StartStep

\* Stop posts at most a cancellation.
LEMMA StopType == TypeOK /\ Stop => TypeOK'
<1> SUFFICES ASSUME TypeOK, Stop PROVE TypeOK'
  OBVIOUS
<1>1. ASSUME NEW t \in Turns, Post("cancel", t, NoCall, 0, "none")
      PROVE  toChild' \in Seq(ChildBound)
  <2>1. [kind |-> "cancel", turn |-> t, call |-> NoCall, rev |-> 0, val |-> "none"]
          \in ChildBound
    BY DEF ChildBound
  <2> QED
    BY <2>1, <1>1, PostType DEF TypeOK
<1>2. active # NoTurn => active \in Turns
  BY DEF TypeOK, NoTurn
<1>3. stage = "admitting" => turns \in Turns
  BY DEF TypeOK
<1>4. toChild' \in Seq(ChildBound) /\ aborted' \subseteq Turns /\ stopped' \subseteq Turns
  BY <1>1, <1>2, <1>3 DEF Stop, UserStop, TypeOK
<1> QED
  BY <1>4 DEF Stop, TypeOK, durable

\* A turn that runs in the utility process is one of the host's.
LEMMA RunningTurn ==
  ASSUME child \in ChildState, child.pc # "none"
  PROVE  /\ child.turn \in Turns /\ child.call \in CallOrNone /\ child.rev \in Nat
         /\ child.goes \in 0 .. MaxContinuations
         /\ child.pc = "executing" => child.call \in Calls
         /\ child \in [turn : Turns, pc : {"model", "committing", "executing"},
                       call : CallOrNone, rev : Nat, goes : 0 .. MaxContinuations]
  BY DEF ChildState, NoChild, CallOrNone

\* Ending a turn sends its terminal status.
LEMMA EndTurnType ==
  ASSUME TypeOK, child.pc # "none", NEW status \in Outcomes, EndTurn(status)
  PROVE  toHost' \in Seq(HostBound) /\ child' \in ChildState
<1>1. child.turn \in Turns
  BY RunningTurn DEF TypeOK
<1>2. [kind |-> "terminal", turn |-> child.turn, call |-> NoCall, rev |-> 0,
       status |-> status] \in HostBound
  BY <1>1 DEF HostBound
<1> QED
  BY <1>2, SendType DEF EndTurn, TypeOK, ChildState

\* A protocol error is a message too.
LEMMA FatalType ==
  ASSUME TypeOK, Fatal
  PROVE  toHost' \in Seq(HostBound)
<1>1. [kind |-> "fatal", turn |-> NoTurn, call |-> NoCall, rev |-> 0, status |-> "none"]
        \in HostBound
  BY DEF HostBound
<1> QED
  BY <1>1, SendType DEF Fatal, TypeOK

\* A request of the model, its failure or its timeout.
LEMMA RequestType ==
  ASSUME TypeOK,
         (\E c \in Calls : RequestTool(c)) \/ FinishRun \/ ModelFails \/ RequestTimesOut
  PROVE  TypeOK'
<1>1. ASSUME NEW c \in CallOrNone, child.pc = "model",
             child' = [child EXCEPT !.pc = "committing", !.call = c],
             Send("commit", child.turn, c, child.rev, "none")
      PROVE  toHost' \in Seq(HostBound) /\ child' \in ChildState
  <2>1. child \in [turn : Turns, pc : {"model", "committing", "executing"},
                   call : CallOrNone, rev : Nat, goes : 0 .. MaxContinuations]
    BY <1>1, RunningTurn DEF TypeOK
  <2>2. [kind |-> "commit", turn |-> child.turn, call |-> c, rev |-> child.rev,
         status |-> "none"] \in HostBound
    BY <2>1 DEF HostBound
  <2>3. [[child EXCEPT !.pc = "committing"] EXCEPT !.call = c]
          \in [turn : Turns, pc : {"model", "committing"}, call : CallOrNone, rev : Nat,
               goes : 0 .. MaxContinuations]
    BY <2>1
  <2> QED
    BY <2>2, <2>3, <1>1, SendType DEF TypeOK, ChildState
<1>2. ASSUME NEW c \in Calls, RequestTool(c) PROVE TypeOK'
  <2>1. c \in CallOrNone
    BY DEF CallOrNone
  <2>2. toHost' \in Seq(HostBound) /\ child' \in ChildState
    BY <1>1, <1>2, <2>1 DEF RequestTool
  <2>3. child.turn \in Turns
    BY <1>2, RunningTurn DEF RequestTool, TypeOK
  <2>4. asked' \in [Calls -> Turns \cup {NoTurn}]
    BY <2>3, <1>2 DEF RequestTool, TypeOK
  <2> QED
    BY <2>2, <2>4, <1>2 DEF RequestTool, TypeOK, durable, hostVars
<1>3. CASE FinishRun
  <2>1. NoCall \in CallOrNone
    BY DEF CallOrNone
  <2>2. toHost' \in Seq(HostBound) /\ child' \in ChildState
    BY <1>1, <1>3, <2>1 DEF FinishRun
  <2> QED
    BY <2>2, <1>3 DEF FinishRun, TypeOK, durable, hostVars, history
<1>4. CASE ModelFails
  <2>1. toHost' \in Seq(HostBound) /\ child' \in ChildState
    BY <1>4, EndTurnType DEF ModelFails, Outcomes
  <2> QED
    BY <2>1, <1>4 DEF ModelFails, TypeOK, durable, hostVars, history
<1>5. CASE RequestTimesOut
  <2>1. toHost' \in Seq(HostBound) /\ child' \in ChildState
    BY <1>5, EndTurnType DEF RequestTimesOut, Outcomes
  <2> QED
    BY <2>1, <1>5 DEF RequestTimesOut, TypeOK, durable, hostVars, history
<1> QED
  BY <1>2, <1>3, <1>4, <1>5

\* Whatever message the utility process takes.
LEMMA ReceiveType ==
  ASSUME TypeOK, ChildReceive
  PROVE  TypeOK'
<1>1. PICK m : /\ ChildTakes(m)
               /\ RunTurn(m) \/ CancelTurn(m) \/ CommitConfirmed(m) \/ ToolAnswered(m)
                    \/ UnexpectedResponse(m)
  BY DEF ChildReceive
<1>2. m \in ChildBound /\ toChild' \in Seq(ChildBound)
  BY <1>1, ChildTakesType DEF TypeOK
<1>3. /\ m.turn \in Turns /\ m.call \in CallOrNone /\ m.rev \in Nat
      /\ m.kind = "replay" => m.call \in Calls
      /\ m.kind = "result" => m.call \in Calls
      /\ m.val \in Told
  BY <1>2 DEF ChildBound, CallOrNone, Told
<1>e. ASSUME NEW c \in Calls, Send("execute", m.turn, c, 0, "none")
      PROVE  toHost' \in Seq(HostBound)
  <2>1. [kind |-> "execute", turn |-> m.turn, call |-> c, rev |-> 0, status |-> "none"]
          \in HostBound
    BY <1>3 DEF HostBound
  <2> QED
    BY <2>1, <1>e, SendType DEF TypeOK
<1>4. ASSUME RunTurn(m)
      PROVE  toHost' \in Seq(HostBound) /\ child' \in ChildState /\ told' \in [Calls -> Told]
  <2>1. CASE child.pc # "none"
    BY <2>1, <1>4, FatalType DEF RunTurn, TypeOK
  <2>2. CASE child.pc = "none" /\ m.kind = "replay"
    <3>1. child' = [turn |-> m.turn, pc |-> "executing", call |-> m.call, rev |-> m.rev, goes |-> 0]
      BY <2>2, <1>4 DEF RunTurn, NoChild
    <3>2. child' \in ChildState
      BY <3>1, <2>2, <1>3 DEF ChildState, MaxContinuations
    <3> QED
      BY <3>2, <2>2, <1>3, <1>4, <1>e DEF RunTurn, TypeOK
  <2>3. CASE child.pc = "none" /\ m.kind = "finish"
    <3>1. child' = [turn |-> m.turn, pc |-> "committing", call |-> NoCall, rev |-> m.rev, goes |-> 0]
      BY <2>3, <1>4 DEF RunTurn, NoChild
    <3>2. child' \in ChildState
      BY <3>1, <2>3, <1>3 DEF ChildState, MaxContinuations, CallOrNone
    <3>3. [kind |-> "commit", turn |-> m.turn, call |-> NoCall, rev |-> m.rev,
           status |-> "none"] \in HostBound
      BY <1>3 DEF HostBound, CallOrNone
    <3> QED
      BY <3>2, <3>3, <2>3, <1>4, SendType DEF RunTurn, TypeOK
  <2>4. CASE child.pc = "none" /\ m.kind \in {"start", "reject"}
    <3>1. child' = [turn |-> m.turn, pc |-> "model", call |-> NoCall, rev |-> m.rev, goes |-> 0]
      BY <2>4, <1>4 DEF RunTurn, NoChild
    <3>2. child' \in ChildState
      BY <3>1, <2>4, <1>3 DEF ChildState, MaxContinuations, CallOrNone
    <3>3. told' \in [Calls -> Told]
      BY <2>4, <1>4 DEF RunTurn, TypeOK, Told
    <3> QED
      BY <3>2, <3>3, <2>4, <1>4 DEF RunTurn, TypeOK
  <2> QED
    BY <2>1, <2>2, <2>3, <2>4, <1>4 DEF RunTurn
<1>5. ASSUME CancelTurn(m)
      PROVE  toHost' \in Seq(HostBound) /\ child' \in ChildState /\ told' \in [Calls -> Told]
  BY <1>5, EndTurnType DEF CancelTurn, TypeOK, Outcomes
<1>6. ASSUME CommitConfirmed(m)
      PROVE  toHost' \in Seq(HostBound) /\ child' \in ChildState /\ told' \in [Calls -> Told]
  <2>1. /\ child.pc = "committing" /\ child.call = m.call
        /\ child \in [turn : Turns, pc : {"model", "committing", "executing"},
                      call : CallOrNone, rev : Nat, goes : 0 .. MaxContinuations]
    BY <1>6, RunningTurn DEF CommitConfirmed, Expected, TypeOK
  <2>2. CASE m.call # NoCall /\ child' = [child EXCEPT !.pc = "executing", !.rev = m.rev]
               /\ Send("execute", m.turn, m.call, 0, "none")
    <3>1. m.call \in Calls
      BY <2>2, <1>3 DEF CallOrNone
    <3>2. [[child EXCEPT !.pc = "executing"] EXCEPT !.rev = m.rev]
            \in [turn : Turns, pc : {"executing"}, call : Calls, rev : Nat,
                 goes : 0 .. MaxContinuations]
      BY <2>1, <3>1, <1>3
    <3> QED
      BY <3>1, <3>2, <2>2, <1>6, <1>e DEF ChildState, CommitConfirmed, TypeOK
  <2>3. CASE EndTurn("completed") \/ EndTurn("failed")
    BY <2>1, <2>3, <1>6, EndTurnType DEF CommitConfirmed, TypeOK, Outcomes
  <2>4. CASE /\ child.goes < MaxContinuations /\ UNCHANGED toHost
             /\ child' = [child EXCEPT !.pc = "model", !.rev = m.rev, !.goes = @ + 1]
    <3>1. child.goes + 1 \in 0 .. MaxContinuations
      BY <2>1, <2>4 DEF MaxContinuations
    <3>2. [[[child EXCEPT !.pc = "model"] EXCEPT !.rev = m.rev] EXCEPT !.goes = child.goes + 1]
            \in [turn : Turns, pc : {"model", "committing"}, call : CallOrNone, rev : Nat,
                 goes : 0 .. MaxContinuations]
      BY <2>1, <3>1, <1>3
    <3> QED
      BY <3>2, <2>4, <1>6 DEF ChildState, CommitConfirmed, TypeOK
  <2> QED
    BY <2>2, <2>3, <2>4, <1>6 DEF CommitConfirmed
<1>7. ASSUME ToolAnswered(m)
      PROVE  toHost' \in Seq(HostBound) /\ child' \in ChildState /\ told' \in [Calls -> Told]
  <2>1. /\ child.pc = "executing"
        /\ child \in [turn : Turns, pc : {"model", "committing", "executing"},
                      call : CallOrNone, rev : Nat, goes : 0 .. MaxContinuations]
    BY <1>7, RunningTurn DEF ToolAnswered, Expected, TypeOK
  <2>2. CASE /\ told' = [told EXCEPT ![m.call] = m.val]
             /\ child' = [child EXCEPT !.pc = "model", !.call = NoCall]
             /\ UNCHANGED toHost
    <3>1. [[child EXCEPT !.pc = "model"] EXCEPT !.call = NoCall]
            \in [turn : Turns, pc : {"model", "committing"}, call : CallOrNone, rev : Nat,
                 goes : 0 .. MaxContinuations]
      BY <2>1 DEF CallOrNone
    <3>2. told' \in [Calls -> Told]
      BY <2>2, <1>3 DEF TypeOK
    <3> QED
      BY <3>1, <3>2, <2>2 DEF ChildState, TypeOK
  <2>3. CASE (EndTurn("unknown") \/ EndTurn("failed")) /\ UNCHANGED told
    BY <2>1, <2>3, EndTurnType DEF TypeOK, Outcomes
  <2> QED
    BY <2>2, <2>3, <1>7 DEF ToolAnswered
<1>8. ASSUME UnexpectedResponse(m)
      PROVE  toHost' \in Seq(HostBound) /\ child' \in ChildState /\ told' \in [Calls -> Told]
  BY <1>8, FatalType DEF UnexpectedResponse, TypeOK
<1>9. toHost' \in Seq(HostBound) /\ child' \in ChildState /\ told' \in [Calls -> Told]
  BY <1>1, <1>4, <1>5, <1>6, <1>7, <1>8
<1> QED
  BY <1>2, <1>9 DEF ChildReceive, TypeOK, durable, hostVars

\* Each way a handler moves: its own state, and nobody else's.
LEMMA GotoFacts ==
  ASSUME handler \in [Turns -> HandlerState], NEW t \in Turns,
         NEW pc \in HandlerPc \ {"record", "result"},
         pc \notin {"idle", "commit", "committed"} => handler[t].call \in Calls,
         Goto(t, pc)
  PROVE  /\ handler' \in [Turns -> HandlerState]
         /\ handler'[t].pc = pc /\ handler'[t].call = handler[t].call
         /\ \A u \in Turns : u # t => handler'[u] = handler[u]
<1>1. [handler[t] EXCEPT !.pc = pc] \in HandlerState
  BY DEF HandlerState
<1>2. handler[t] \in [pc : HandlerPc, call : CallOrNone, rev : Nat, out : Told]
  BY DEF HandlerState
<1>3. /\ [handler[t] EXCEPT !.pc = pc].pc = pc
      /\ [handler[t] EXCEPT !.pc = pc].call = handler[t].call
  BY <1>2
<1>4. handler' = [handler EXCEPT ![t] = [handler[t] EXCEPT !.pc = pc]]
  BY DEF Goto
<1> QED
  BY <1>1, <1>3, <1>4

\* The handler moves on with the outcome of its call.
LEMMA ConcludeFacts ==
  ASSUME handler \in [Turns -> HandlerState], NEW t \in Turns,
         NEW pc \in {"record", "result"}, NEW out \in Settled,
         handler[t].call \in Calls,
         Conclude(t, pc, out)
  PROVE  /\ handler' \in [Turns -> HandlerState]
         /\ handler'[t].pc = pc /\ handler'[t].call = handler[t].call
         /\ \A u \in Turns : u # t => handler'[u] = handler[u]
<1> DEFINE h == [[handler[t] EXCEPT !.pc = pc] EXCEPT !.out = out]
<1>2. handler[t] \in [pc : HandlerPc, call : CallOrNone, rev : Nat, out : Told]
  BY DEF HandlerState
<1>3. h \in [pc : HandlerPc, call : CallOrNone, rev : Nat, out : Told]
  BY <1>2 DEF HandlerPc, Told
<1>4. h.pc = pc /\ h.call = handler[t].call /\ h.out = out
  BY <1>2
<1>5. h \in HandlerState
  BY <1>3, <1>4 DEF HandlerState
<1>6. handler' = [handler EXCEPT ![t] = h]
  BY DEF Conclude
<1> HIDE DEF h
<1> QED
  BY <1>4, <1>5, <1>6

\* A handler starts, or its checkpoint is committed.
LEMMA HandleFacts ==
  ASSUME handler \in [Turns -> HandlerState], NEW t \in Turns,
         NEW pc \in {"commit", "committed", "read"}, NEW c \in CallOrNone, NEW r \in Nat,
         pc = "read" => c \in Calls,
         Handle(t, pc, c, r)
  PROVE  /\ handler' \in [Turns -> HandlerState]
         /\ handler'[t].pc = pc /\ handler'[t].call = c
         /\ \A u \in Turns : u # t => handler'[u] = handler[u]
<1>1. [pc |-> pc, call |-> c, rev |-> r, out |-> "none"] \in HandlerState
  BY DEF HandlerState, HandlerPc, Told
<1> QED
  BY <1>1 DEF Handle

\* A turn without a handler.
LEMMA IdleType == Idle \in HandlerState
  BY DEF Idle, HandlerState, HandlerPc, CallOrNone, Told, Settled

\* A handler ends.
LEMMA EndFacts ==
  ASSUME handler \in [Turns -> HandlerState], NEW t \in Turns, EndHandler(t)
  PROVE  /\ handler' \in [Turns -> HandlerState]
         /\ handler'[t].pc = "idle"
         /\ \A u \in Turns : u # t => handler'[u] = handler[u]
  BY IdleType DEF EndHandler, Idle

\* Whatever message the host takes.
LEMMA HostType ==
  ASSUME TypeOK, HostReceive
  PROVE  TypeOK'
<1>1. PICK m : HostTakes(m) /\ Receive(m)
  BY DEF HostReceive
<1>2. m \in HostBound /\ toHost' \in Seq(HostBound)
  BY <1>1, HostTakesType DEF TypeOK
<1>3. /\ m.kind = "terminal" => m.turn \in Turns /\ m.status \in Outcomes
      /\ m.kind = "execute" => m.call \in Calls
      /\ m.call \in CallOrNone /\ m.rev \in Nat
  BY <1>2 DEF HostBound, CallOrNone
<1>5. handler' \in [Turns -> HandlerState]
  <2>1. CASE m.turn \in Turns
    BY <2>1, <1>1, <1>3, HandleFacts DEF Receive, TypeOK
  <2>2. CASE m.turn \notin Turns
    BY <2>2, <1>1 DEF Receive, Handle, TypeOK
  <2> QED
    BY <2>1, <2>2
<1>6. /\ aborted' \subseteq Turns /\ active' \in Turns \cup {NoTurn}
      /\ outcome' \in [Turns -> Outcomes] /\ proc' \in {"down", "up", "dying"}
  BY <1>1, <1>3 DEF Receive, FailClosed, TypeOK
<1> QED
  BY <1>2, <1>5, <1>6 DEF HostReceive, TypeOK, durable, history

\* Failing closed keeps the type of the process state.
LEMMA FailClosedType ==
  ASSUME TypeOK, FailClosed
  PROVE  proc' \in {"down", "up", "dying"}
  BY DEF FailClosed, TypeOK

\* Compare and set keeps the type of the journal.
LEMMA TransitionType ==
  ASSUME journal \in [Calls -> Status], NEW c \in Calls, NEW e, NEW s \in Status,
         Transition(c, e, s)
  PROVE  /\ journal' \in [Calls -> Status]
         /\ \A k \in Calls : k # c => journal'[k] = journal[k]
         /\ journal[c] = e => journal'[c] = s
         /\ journal[c] # e => journal'[c] = journal[c]
  BY DEF Transition

\* Whatever step a handler takes.
LEMMA HandlerType ==
  ASSUME TypeOK, NEW t \in Turns, HandlerStep(t) \/ AdapterReturns(t) \/ StoreFails(t)
  PROVE  TypeOK'
<1> DEFINE h == handler[t]
<1>h. h \in HandlerState /\ handler \in [Turns -> HandlerState]
  BY DEF TypeOK
<1>f. /\ h.pc \in HandlerPc /\ h.call \in CallOrNone /\ h.rev \in Nat /\ h.out \in Told
      /\ h.pc \notin {"idle", "commit", "committed"} => h.call \in Calls
      /\ h.pc \in {"record", "result"} => h.out \in Settled
  BY <1>h DEF HandlerState
<1>s. Settled \subseteq Status /\ {"executing", "checkpointed"} \subseteq Status
  BY DEF Status
<1>1. CASE CommitCheckpoint(t)
  <2>1. checkpoint' \in [rev : Nat, call : CallOrNone]
    BY <1>1, <1>f DEF CommitCheckpoint, TypeOK
  <2>2. checkpoint.rev + 1 \in Nat
    BY DEF TypeOK
  <2>3. handler' \in [Turns -> HandlerState]
    BY <1>1, <1>f, <1>h, <2>2, HandleFacts, EndFacts DEF CommitCheckpoint
  <2> QED
    BY <2>1, <2>3, <1>1, FailClosedType DEF CommitCheckpoint, TypeOK, history
<1>2. CASE ReadCheckpoint(t)
  <2>1. handler' \in [Turns -> HandlerState]
    BY <1>2, <1>f, <1>h, GotoFacts, EndFacts DEF ReadCheckpoint, HandlerPc
  <2> QED
    BY <2>1, <1>2, FailClosedType DEF ReadCheckpoint, TypeOK, durable, history
<1>3. CASE AddInvocation(t)
  <2> DEFINE record == IF journal[h.call] = "none" THEN "checkpointed" ELSE journal[h.call]
  <2>1. h.call \in Calls /\ journal[h.call] \in Status
    BY <1>3, <1>f DEF AddInvocation, TypeOK
  <2>2. record \in Status \ {"none"}
    BY <2>1 DEF Status, Settled
  <2>3. journal' \in [Calls -> Status]
    BY <1>3, <2>2 DEF AddInvocation, TypeOK
  <2>4. record \notin Settled => Branch(t, record) \in {"markUnknown", "markCancelled", "policy", "start"}
    BY <2>2 DEF Branch, Status
  <2>5. handler' \in [Turns -> HandlerState]
    <3>1. CASE record \in Settled
      BY <3>1, <1>3, <1>h, <2>1, ConcludeFacts DEF AddInvocation
    <3>2. CASE record \notin Settled
      BY <3>2, <2>4, <1>3, <1>h, <2>1, GotoFacts DEF AddInvocation, HandlerPc
    <3> QED
      BY <3>1, <3>2
  <2> QED
    BY <2>3, <2>5, <1>3 DEF AddInvocation, TypeOK, procVars, history
<1>4. CASE LessonPolicy(t)
  <2>1. handler' \in [Turns -> HandlerState]
    BY <1>4, <1>f, <1>h, GotoFacts DEF LessonPolicy, HandlerPc
  <2> QED
    BY <2>1, <1>4 DEF LessonPolicy, TypeOK, durable, procVars, history
<1>5. CASE RefuseCall(t)
  <2>1. h.call \in Calls
    BY <1>5, <1>f DEF RefuseCall
  <2>2. journal' \in [Calls -> Status]
    BY <1>5, <2>1, TransitionType DEF RefuseCall, TypeOK, Status, Settled
  <2>3. PICK out \in Settled : Conclude(t, "result", out)
    BY <1>5 DEF RefuseCall, Settled
  <2>4. handler' \in [Turns -> HandlerState]
    BY <1>h, <2>1, <2>3, ConcludeFacts
  <2> QED
    BY <2>2, <2>4, <1>5 DEF RefuseCall, TypeOK, procVars, history
<1>6. CASE ClaimExecution(t)
  <2>1. h.call \in Calls
    BY <1>6, <1>f DEF ClaimExecution
  <2>2. journal' \in [Calls -> Status]
    BY <1>6, <2>1, <1>s, TransitionType DEF ClaimExecution, TypeOK
  <2>3. handler' \in [Turns -> HandlerState]
    BY <1>6, <1>h, <2>1, GotoFacts, EndFacts DEF ClaimExecution, HandlerPc
  <2> QED
    BY <2>2, <2>3, <1>6, FailClosedType DEF ClaimExecution, TypeOK, history
<1>7. CASE Dispatch(t)
  <2>1. h.call \in Calls
    BY <1>7, <1>f DEF Dispatch
  <2>2. handler' \in [Turns -> HandlerState]
    BY <1>7, <1>h, <2>1, GotoFacts, ConcludeFacts DEF Dispatch, HandlerPc, Settled
  <2>3. dispatched' \in [Calls -> Nat]
    BY <1>7, <2>1 DEF Dispatch, TypeOK
  <2> QED
    BY <2>2, <2>3, <1>7 DEF Dispatch, TypeOK, durable, procVars
<1>8. CASE AdapterReturns(t)
  <2>1. h.call \in Calls
    BY <1>8, <1>f DEF AdapterReturns
  <2>2. handler' \in [Turns -> HandlerState]
    BY <1>8, <1>h, <2>1, ConcludeFacts DEF AdapterReturns, Receipts, Settled
  <2> QED
    BY <2>2, <1>8 DEF AdapterReturns, TypeOK, durable, procVars, history
<1>9. CASE RecordOutcome(t)
  <2>1. h.call \in Calls /\ h.out \in Settled
    BY <1>9, <1>f DEF RecordOutcome
  <2>2. journal' \in [Calls -> Status]
    BY <1>9, <2>1, <1>s, TransitionType DEF RecordOutcome, TypeOK
  <2>3. handler' \in [Turns -> HandlerState]
    BY <1>9, <1>h, <2>1, ConcludeFacts DEF RecordOutcome
  <2> QED
    BY <2>2, <2>3, <1>9 DEF RecordOutcome, TypeOK, procVars, history
<1>10. CASE Respond(t)
  <2>1. handler' \in [Turns -> HandlerState]
    BY <1>10, <1>h, EndFacts DEF Respond
  <2>2. [kind |-> h.pc, turn |-> t, call |-> h.call, rev |-> h.rev, val |-> h.out] \in ChildBound
    BY <1>10, <1>f DEF Respond, ChildBound
  <2>3. toChild' \in Seq(ChildBound)
    BY <2>2, <1>10, PostType DEF Respond, TypeOK
  <2> QED
    BY <2>1, <2>3, <1>10, FailClosedType DEF Respond, TypeOK, durable, history
<1>11. CASE StoreFails(t)
  <2>1. handler' \in [Turns -> HandlerState]
    BY <1>11, <1>h, EndFacts DEF StoreFails
  <2> QED
    BY <2>1, <1>11, FailClosedType DEF StoreFails, TypeOK, durable, history
<1> QED
  BY <1>1, <1>2, <1>3, <1>4, <1>5, <1>6, <1>7, <1>8, <1>9, <1>10, <1>11 DEF HandlerStep

\* Exits and restarts.
LEMMA FailureType ==
  ASSUME TypeOK, ProcessDies \/ ExitStep \/ Restart
  PROVE  TypeOK'
<1>c. NoChild \in ChildState /\ << >> \in Seq(HostBound) /\ << >> \in Seq(ChildBound)
  BY DEF ChildState
<1>1. CASE ProcessDies
  BY <1>1 DEF ProcessDies, TypeOK, durable, hostVars, history
<1>2. CASE ProcessExits
  <2>1. aborted' \subseteq Turns
    BY <1>2 DEF ProcessExits, TypeOK
  <2> QED
    BY <2>1, <1>2, <1>c DEF ProcessExits, TypeOK, durable, history
<1>3. CASE SettleExit
  <2>1. journal' \in [Calls -> Status]
    BY <1>3 DEF SettleExit, TypeOK, Status, Settled
  <2>2. outcome' \in [Turns -> Outcomes]
    BY <1>3 DEF SettleExit, TypeOK, Outcomes
  <2> QED
    BY <2>1, <2>2, <1>3 DEF SettleExit, TypeOK, procVars, history
<1>4. CASE Restart
  <2>1. handler' \in [Turns -> HandlerState]
    BY <1>4, IdleType DEF Restart
  <2>2. restarts' \in 0 .. MaxRestarts
    BY <1>4, BoundsAssumption DEF Restart, TypeOK
  <2> QED
    BY <2>1, <2>2, <1>4, <1>c DEF Restart, TypeOK, durable, history
<1> QED
  BY <1>1, <1>2, <1>3, <1>4 DEF ExitStep

\* Every step of the thread keeps the types.
LEMMA TypeStep == TypeOK /\ [Next]_vars => TypeOK'
<1>1. TypeOK /\ UNCHANGED vars => TypeOK'
  BY DEF TypeOK, vars, durable, hostVars, procVars, history
<1> QED
  BY <1>1, StartType, StopType, RequestType, ReceiveType, HostType, HandlerType, FailureType
  DEF Next, ChildStep

\* The thread's state, its messages and its history stay within their types.
THEOREM TypeCorrect == Spec => []TypeOK
  BY TypeInit, TypeStep, PTL DEF Spec

(***************************************************************************)
(* A call reaches its adapter once at most.                                *)
(*                                                                         *)
(* The claim of a call compares the journal but does not say who claimed   *)
(* it, so two handlers that both wait to claim one call would both         *)
(* dispatch it.  What rules that out is that a call only ever belongs to   *)
(* one turn that is still around, OneTurnPerCall; the rest of the          *)
(* invariant says what the journal holds at each step of its handler.      *)
(***************************************************************************)
Handles(t, c) == handler[t].pc # "idle" /\ handler[t].call = c
Runs(t, c) == child.turn = t /\ child.call = c
Sent(t, c) == \E i \in 1 .. Len(toHost) : toHost[i].turn = t /\ toHost[i].call = c
Posted(t, c) == \E i \in 1 .. Len(toChild) : toChild[i].turn = t /\ toChild[i].call = c
Involved(t, c) == Handles(t, c) \/ Runs(t, c) \/ Sent(t, c) \/ Posted(t, c)

OneTurnPerCall ==
  \A c \in Calls : \A t, u \in Turns : Involved(t, c) /\ Involved(u, c) => t = u

AskedFirst ==
  \A c \in Calls : checkpoint.call = c \/ (\E t \in Turns : Involved(t, c)) => asked[c] # NoTurn

\* After a restart nothing moves until the thread is resumed.
RestoredIsQuiet ==
  restored /\ ~LessonChild =>
    /\ turns > 0 /\ stage = "idle" /\ active = NoTurn /\ exiting = NoTurn /\ proc = "down"
    /\ child = NoChild /\ toHost = << >> /\ toChild = << >>
    /\ \A t \in Turns : handler[t] = Idle

BeforeClaim == {"policy", "start", "markCancelled", "markDenied"}
Unclaimed == {"none", "checkpointed"}

HandlersFollowJournal ==
  \A t \in Turns :
    /\ handler[t].pc \in BeforeClaim => journal[handler[t].call] = "checkpointed"
    /\ handler[t].pc = "dispatch"
         => dispatched[handler[t].call] = 0 /\ journal[handler[t].call] \notin Unclaimed

DispatchedIsClaimed == \A c \in Calls : dispatched[c] > 0 => journal[c] \notin Unclaimed

IInv ==
  /\ TypeOK /\ OneTurnPerCall /\ AskedFirst /\ RestoredIsQuiet
  /\ HandlersFollowJournal /\ DispatchedIsClaimed /\ AtMostOnce

(***************************************************************************)
(* Who is involved with a call after a message.                            *)
(***************************************************************************)
LEMMA SendInvolves ==
  ASSUME toHost \in Seq(HostBound), NEW k, NEW u, NEW d, NEW r, NEW s, Send(k, u, d, r, s),
         [kind |-> k, turn |-> u, call |-> d, rev |-> r, status |-> s] \in HostBound
  PROVE  \A t \in Turns, c \in Calls : Sent(t, c)' => Sent(t, c) \/ (t = u /\ c = d)
<1> DEFINE m == [kind |-> k, turn |-> u, call |-> d, rev |-> r, status |-> s]
<1>1. /\ Len(toHost') = Len(toHost) + 1
      /\ \A i \in 1 .. Len(toHost) : toHost'[i] = toHost[i]
      /\ toHost'[Len(toHost) + 1] = m
      /\ Len(toHost) \in Nat
  <2> HIDE DEF m
  <2>1. toHost' = Append(toHost, m)
    BY DEF Send, m
  <2>2. m \in HostBound
    BY DEF m
  <2> QED
    BY <2>1, <2>2
<1>2. m.turn = u /\ m.call = d
  OBVIOUS
<1> HIDE DEF m
<1> SUFFICES ASSUME NEW t \in Turns, NEW c \in Calls, Sent(t, c)'
             PROVE  Sent(t, c) \/ (t = u /\ c = d)
  OBVIOUS
<1>3. PICK i \in 1 .. Len(toHost') : toHost'[i].turn = t /\ toHost'[i].call = c
  BY DEF Sent
<1>4. CASE i = Len(toHost) + 1
  BY <1>1, <1>2, <1>3, <1>4
<1>5. CASE i # Len(toHost) + 1
  BY <1>1, <1>3, <1>5 DEF Sent
<1> QED
  BY <1>4, <1>5

\* Posting to the utility process involves the turn and call of the message.
LEMMA PostInvolves ==
  ASSUME toChild \in Seq(ChildBound), NEW m \in ChildBound,
         toChild' = Append(toChild, m) \/ toChild' = toChild
  PROVE  \A t \in Turns, c \in Calls : Posted(t, c)' => Posted(t, c) \/ (t = m.turn /\ c = m.call)
<1> SUFFICES ASSUME toChild' = Append(toChild, m)
             PROVE  \A t \in Turns, c \in Calls :
                      Posted(t, c)' => Posted(t, c) \/ (t = m.turn /\ c = m.call)
  BY DEF Posted
<1>1. /\ Len(toChild') = Len(toChild) + 1
      /\ \A i \in 1 .. Len(toChild) : toChild'[i] = toChild[i]
      /\ toChild'[Len(toChild) + 1] = m
      /\ Len(toChild) \in Nat
  OBVIOUS
<1> SUFFICES ASSUME NEW t \in Turns, NEW c \in Calls, Posted(t, c)'
             PROVE  Posted(t, c) \/ (t = m.turn /\ c = m.call)
  OBVIOUS
<1>3. PICK i \in 1 .. Len(toChild') : toChild'[i].turn = t /\ toChild'[i].call = c
  BY DEF Posted
<1>4. CASE i = Len(toChild) + 1
  BY <1>1, <1>3, <1>4
<1>5. CASE i # Len(toChild) + 1
  BY <1>1, <1>3, <1>5 DEF Posted
<1> QED
  BY <1>4, <1>5

\* A message the host takes was in its channel; nothing comes in.
LEMMA HostTakesInvolves ==
  ASSUME toHost \in Seq(HostBound), NEW m, HostTakes(m)
  PROVE  /\ Sent(m.turn, m.call)
         /\ \A t \in Turns, c \in Calls : Sent(t, c)' => Sent(t, c)
<1>1. /\ toHost # << >> /\ m = toHost[1] /\ toHost' = Tail(toHost)
      /\ Len(toHost) \in Nat \ {0} /\ Len(toHost') = Len(toHost) - 1
      /\ \A i \in 1 .. Len(toHost') : toHost'[i] = toHost[i + 1]
  BY DEF HostTakes
<1>2. Sent(m.turn, m.call)
  BY <1>1 DEF Sent
<1>3. ASSUME NEW t \in Turns, NEW c \in Calls, Sent(t, c)' PROVE Sent(t, c)
  <2>1. PICK i \in 1 .. Len(toHost') : toHost'[i].turn = t /\ toHost'[i].call = c
    BY <1>3 DEF Sent
  <2>2. i + 1 \in 1 .. Len(toHost) /\ toHost[i + 1] = toHost'[i]
    BY <1>1
  <2> QED
    BY <2>1, <2>2 DEF Sent
<1> QED
  BY <1>2, <1>3

\* A message the utility process takes was in its channel; nothing comes in.
LEMMA ChildTakesInvolves ==
  ASSUME toChild \in Seq(ChildBound), NEW m, ChildTakes(m)
  PROVE  /\ Posted(m.turn, m.call)
         /\ \A t \in Turns, c \in Calls : Posted(t, c)' => Posted(t, c)
<1>1. /\ toChild # << >> /\ m = toChild[1] /\ toChild' = Tail(toChild)
      /\ Len(toChild) \in Nat \ {0} /\ Len(toChild') = Len(toChild) - 1
      /\ \A i \in 1 .. Len(toChild') : toChild'[i] = toChild[i + 1]
  BY DEF ChildTakes
<1>2. Posted(m.turn, m.call)
  BY <1>1 DEF Posted
<1>3. ASSUME NEW t \in Turns, NEW c \in Calls, Posted(t, c)' PROVE Posted(t, c)
  <2>1. PICK i \in 1 .. Len(toChild') : toChild'[i].turn = t /\ toChild'[i].call = c
    BY <1>3 DEF Posted
  <2>2. i + 1 \in 1 .. Len(toChild) /\ toChild[i + 1] = toChild'[i]
    BY <1>1
  <2> QED
    BY <2>1, <2>2 DEF Posted
<1> QED
  BY <1>2, <1>3

\* A turn that ends names no call in its last message and runs none.
LEMMA EndTurnInvolves ==
  ASSUME TypeOK, child.pc # "none", NEW status \in Outcomes, EndTurn(status)
  PROVE  \A t \in Turns, c \in Calls :
           (Sent(t, c)' => Sent(t, c)) /\ ~Runs(t, c)'
<1>1. child.turn \in Turns
  BY RunningTurn DEF TypeOK
<1>2. [kind |-> "terminal", turn |-> child.turn, call |-> NoCall, rev |-> 0,
       status |-> status] \in HostBound
  BY <1>1 DEF HostBound
<1>3. \A t \in Turns, c \in Calls : Sent(t, c)' => Sent(t, c) \/ (t = child.turn /\ c = NoCall)
  BY <1>2, SendInvolves DEF EndTurn, TypeOK
<1> QED
  BY <1>3, CallsAssumption DEF EndTurn, Runs, NoChild

\* A protocol error names no call.
LEMMA FatalInvolves ==
  ASSUME TypeOK, Fatal
  PROVE  \A t \in Turns, c \in Calls : Sent(t, c)' => Sent(t, c)
<1>1. [kind |-> "fatal", turn |-> NoTurn, call |-> NoCall, rev |-> 0, status |-> "none"]
        \in HostBound
  BY DEF HostBound
<1>2. \A t \in Turns, c \in Calls : Sent(t, c)' => Sent(t, c) \/ (t = NoTurn /\ c = NoCall)
  BY <1>1, SendInvolves DEF Fatal, TypeOK
<1> QED
  BY <1>2, CallsAssumption

(***************************************************************************)
(* Most steps involve no turn with a call that it was not involved with.   *)
(***************************************************************************)

\* The host's steps around a turn's start, and Stop.
LEMMA StartInvolves ==
  ASSUME TypeOK, BeginStart \/ AdmitTurn \/ RefuseTurn \/ PostStart \/ Stop
  PROVE  /\ \A t \in Turns, c \in Calls : Involved(t, c)' => Involved(t, c)
         /\ UNCHANGED <<checkpoint, journal, handler, asked, dispatched>>
<1>1. /\ UNCHANGED <<checkpoint, journal, handler, asked, dispatched, child, toHost>>
      /\ UNCHANGED toChild
           \/ (\E k \in {"start", "cancel"}, t \in Turns : Post(k, t, NoCall, 0, "none"))
  <2>1. active # NoTurn => active \in Turns
    BY DEF TypeOK
  <2>2. stage # "idle" => turns \in Turns
    BY DEF TypeOK
  <2> QED
    BY <2>1, <2>2 DEF BeginStart, AdmitTurn, RefuseTurn, PostStart, Stop, UserStop, durable,
       procVars, history
<1>2. ASSUME NEW k \in {"start", "cancel"}, NEW u \in Turns, Post(k, u, NoCall, 0, "none"),
             NEW t \in Turns, NEW c \in Calls, Posted(t, c)'
      PROVE  Posted(t, c)
  <2> DEFINE m == [kind |-> k, turn |-> u, call |-> NoCall, rev |-> 0, val |-> "none"]
  <2>1. m \in ChildBound
    BY DEF ChildBound
  <2>2. toChild' = Append(toChild, m) \/ toChild' = toChild
    BY <1>2 DEF Post
  <2>3. m.call = NoCall /\ c # NoCall
    BY CallsAssumption
  <2> HIDE DEF m
  <2> QED
    BY <1>2, <2>1, <2>2, <2>3, PostInvolves DEF TypeOK
<1>3. \A t \in Turns, c \in Calls : Posted(t, c)' => Posted(t, c)
  BY <1>1, <1>2 DEF Posted
<1> QED
  BY <1>1, <1>3 DEF Involved, Handles, Runs, Sent

\* The utility process ends its run or its turn.
LEMMA ChildEndsInvolves ==
  ASSUME TypeOK, FinishRun \/ ModelFails \/ RequestTimesOut
  PROVE  /\ \A t \in Turns, c \in Calls : Involved(t, c)' => Involved(t, c)
         /\ UNCHANGED <<checkpoint, journal, handler, asked, dispatched>>
<1>1. UNCHANGED <<checkpoint, journal, handler, asked, dispatched, toChild>> /\ child.pc # "none"
  BY DEF FinishRun, ModelFails, RequestTimesOut, durable, hostVars, history
<1>2. \A t \in Turns, c \in Calls : (Sent(t, c)' => Sent(t, c)) /\ ~Runs(t, c)'
  <2>1. CASE FinishRun
    <3>1. /\ child \in [turn : Turns, pc : {"model", "committing", "executing"},
                        call : CallOrNone, rev : Nat, goes : 0 .. MaxContinuations]
      BY <1>1, RunningTurn DEF TypeOK
    <3>2. [kind |-> "commit", turn |-> child.turn, call |-> NoCall, rev |-> child.rev,
           status |-> "none"] \in HostBound
      BY <3>1 DEF HostBound, CallOrNone
    <3>3. \A t \in Turns, c \in Calls : Sent(t, c)' => Sent(t, c) \/ (t = child.turn /\ c = NoCall)
      BY <2>1, <3>2, SendInvolves DEF FinishRun, TypeOK
    <3>4. child'.call = NoCall
      BY <2>1, <3>1 DEF FinishRun
    <3> QED
      BY <3>3, <3>4, CallsAssumption DEF Runs
  <2>2. CASE ModelFails \/ RequestTimesOut
    BY <1>1, <2>2, EndTurnInvolves DEF ModelFails, RequestTimesOut, Outcomes
  <2> QED
    BY <2>1, <2>2
<1> QED
  BY <1>1, <1>2 DEF Involved, Handles, Posted

\* The utility process takes a message.
LEMMA ChildReceiveInvolves ==
  ASSUME TypeOK, ChildReceive
  PROVE  /\ \A t \in Turns, c \in Calls : Involved(t, c)' => Involved(t, c)
         /\ UNCHANGED <<checkpoint, journal, handler, asked, dispatched>>
<1>1. PICK m : /\ ChildTakes(m)
               /\ RunTurn(m) \/ CancelTurn(m) \/ CommitConfirmed(m) \/ ToolAnswered(m)
                    \/ UnexpectedResponse(m)
  BY DEF ChildReceive
<1>2. m \in ChildBound
  BY <1>1, ChildTakesType DEF TypeOK
<1>3. /\ m.turn \in Turns /\ m.call \in CallOrNone /\ m.rev \in Nat
      /\ m.kind = "replay" => m.call \in Calls
  BY <1>2 DEF ChildBound, CallOrNone
<1>4. /\ Posted(m.turn, m.call)
      /\ \A t \in Turns, c \in Calls : Posted(t, c)' => Posted(t, c)
  BY <1>1, ChildTakesInvolves DEF TypeOK
<1>5. ASSUME NEW c \in Calls, Send("execute", m.turn, c, 0, "none")
      PROVE  \A t \in Turns, d \in Calls : Sent(t, d)' => Sent(t, d) \/ (t = m.turn /\ d = c)
  <2>1. [kind |-> "execute", turn |-> m.turn, call |-> c, rev |-> 0, status |-> "none"]
          \in HostBound
    BY <1>3 DEF HostBound
  <2> QED
    BY <2>1, <1>5, SendInvolves DEF TypeOK
<1>6. ASSUME NEW t \in Turns, NEW c \in Calls, Sent(t, c)' \/ Runs(t, c)'
      PROVE  Sent(t, c) \/ Runs(t, c) \/ (t = m.turn /\ c = m.call)
  <2>n. c # NoCall
    BY CallsAssumption
  <2>1. CASE RunTurn(m)
    <3>1. CASE child.pc # "none"
      BY <3>1, <2>1, <1>6, FatalInvolves DEF RunTurn, Runs
    <3>2. CASE child.pc = "none" /\ m.kind = "replay"
      <4>1. child'.turn = m.turn /\ child'.call = m.call
        BY <3>2, <2>1 DEF RunTurn, NoChild
      <4> QED
        BY <4>1, <3>2, <2>1, <1>3, <1>5, <1>6 DEF RunTurn, Runs
    <3>3. CASE child.pc = "none" /\ m.kind = "finish"
      <4>1. child'.call = NoCall
        BY <3>3, <2>1 DEF RunTurn, NoChild
      <4>2. [kind |-> "commit", turn |-> m.turn, call |-> NoCall, rev |-> m.rev,
             status |-> "none"] \in HostBound
        BY <1>3 DEF HostBound, CallOrNone
      <4>3. Send("commit", m.turn, NoCall, m.rev, "none")
        BY <3>3, <2>1 DEF RunTurn
      <4>4. Sent(t, c)' => Sent(t, c) \/ c = NoCall
        BY <4>2, <4>3, SendInvolves DEF TypeOK
      <4> QED
        BY <4>1, <4>4, <2>n, <1>6 DEF Runs
    <3>4. CASE child.pc = "none" /\ m.kind \in {"start", "reject"}
      <4>1. child'.call = NoCall /\ toHost' = toHost
        BY <3>4, <2>1 DEF RunTurn, NoChild
      <4> QED
        BY <4>1, <2>n, <1>6 DEF Runs, Sent
    <3> QED
      BY <3>1, <3>2, <3>3, <3>4, <2>1 DEF RunTurn
  <2>2. CASE CancelTurn(m)
    <3>1. CASE child.pc = "none"
      BY <3>1, <2>2, <1>6 DEF CancelTurn, Runs, Sent, EndTurn
    <3>2. CASE child.pc # "none"
      BY <3>2, <2>2, <1>6, EndTurnInvolves DEF CancelTurn, Outcomes
    <3> QED
      BY <3>1, <3>2
  <2>3. CASE CommitConfirmed(m)
    <3>1. /\ child.turn = m.turn /\ child.call = m.call /\ child.pc # "none"
          /\ child \in [turn : Turns, pc : {"model", "committing", "executing"},
                        call : CallOrNone, rev : Nat, goes : 0 .. MaxContinuations]
      BY <2>3, RunningTurn DEF CommitConfirmed, Expected, TypeOK
    <3>2. CASE EndTurn("completed") \/ EndTurn("failed")
      BY <3>1, <3>2, <1>6, EndTurnInvolves DEF Outcomes
    <3>3. CASE m.call # NoCall /\ child' = [child EXCEPT !.pc = "executing", !.rev = m.rev]
                 /\ Send("execute", m.turn, m.call, 0, "none")
      <4>1. child'.turn = m.turn /\ child'.call = m.call
        BY <3>1, <3>3
      <4>2. m.call \in Calls
        BY <3>3, <1>3 DEF CallOrNone
      <4> QED
        BY <4>1, <4>2, <3>3, <1>5, <1>6 DEF Runs
    <3>4. CASE /\ child' = [child EXCEPT !.pc = "model", !.rev = m.rev, !.goes = @ + 1]
               /\ UNCHANGED toHost
      <4>1. child'.turn = m.turn /\ child'.call = m.call
        BY <3>1, <3>4
      <4> QED
        BY <4>1, <3>4, <1>6 DEF Runs, Sent
    <3> QED
      BY <3>2, <3>3, <3>4, <2>3 DEF CommitConfirmed
  <2>4. CASE ToolAnswered(m)
    <3>1. /\ child.pc # "none"
          /\ child \in [turn : Turns, pc : {"model", "committing", "executing"},
                        call : CallOrNone, rev : Nat, goes : 0 .. MaxContinuations]
      BY <2>4, RunningTurn DEF ToolAnswered, Expected, TypeOK
    <3>2. CASE EndTurn("unknown") \/ EndTurn("failed")
      BY <3>1, <3>2, <1>6, EndTurnInvolves DEF Outcomes
    <3>3. CASE child' = [child EXCEPT !.pc = "model", !.call = NoCall] /\ UNCHANGED toHost
      <4>1. child'.call = NoCall
        BY <3>1, <3>3
      <4> QED
        BY <4>1, <3>3, <2>n, <1>6 DEF Runs, Sent
    <3> QED
      BY <3>2, <3>3, <2>4 DEF ToolAnswered
  <2>5. CASE UnexpectedResponse(m)
    BY <2>5, <1>6, FatalInvolves DEF UnexpectedResponse, Runs
  <2> QED
    BY <1>1, <2>1, <2>2, <2>3, <2>4, <2>5
<1>7. UNCHANGED <<checkpoint, journal, handler, asked, dispatched>>
  BY DEF ChildReceive, durable, hostVars
<1> QED
  BY <1>4, <1>6, <1>7 DEF Involved, Handles

\* The host takes a message: a handler starts for the turn that sent it.
LEMMA HostReceiveInvolves ==
  ASSUME TypeOK, HostReceive
  PROVE  /\ \A t \in Turns, c \in Calls : Involved(t, c)' => Involved(t, c)
         /\ UNCHANGED <<checkpoint, journal, asked, dispatched>>
         /\ \A t \in Turns : \/ handler'[t] = handler[t]
                             \/ handler'[t].pc \in {"commit", "read"}
<1>1. PICK m : HostTakes(m) /\ Receive(m)
  BY DEF HostReceive
<1>2. m \in HostBound
  BY <1>1, HostTakesType DEF TypeOK
<1>3. m.call \in CallOrNone /\ m.rev \in Nat /\ (m.kind = "execute" => m.call \in Calls)
  BY <1>2 DEF HostBound, CallOrNone
<1>4. Sent(m.turn, m.call) /\ \A t \in Turns, c \in Calls : Sent(t, c)' => Sent(t, c)
  BY <1>1, HostTakesInvolves DEF TypeOK
<1>5. \A t \in Turns :
        \/ handler'[t] = handler[t]
        \/ t = m.turn /\ handler'[t].pc \in {"commit", "read"} /\ handler'[t].call = m.call
  <2>1. CASE m.turn \in Turns /\ (Handle(m.turn, "commit", m.call, m.rev)
                                   \/ (m.call \in Calls /\ Handle(m.turn, "read", m.call, 0)))
    BY <2>1, <1>3, HandleFacts DEF TypeOK
  <2>2. CASE m.turn \notin Turns /\ (Handle(m.turn, "commit", m.call, m.rev)
                                   \/ Handle(m.turn, "read", m.call, 0))
    BY <2>2 DEF Handle, TypeOK
  <2>3. CASE handler' = handler
    BY <2>3
  <2> QED
    BY <2>1, <2>2, <2>3, <1>1, <1>3 DEF Receive
<1>6. UNCHANGED <<checkpoint, journal, asked, dispatched, child, toChild>>
  BY DEF HostReceive, durable, history
<1> QED
  BY <1>4, <1>5, <1>6 DEF Involved, Handles, Runs, Posted

\* A step of turn t's handler: it concerns that turn and its call alone, and
\* leaves the journal as the handler's next step expects it.
LEMMA HandlerFacts ==
  ASSUME IInv, NEW t \in Turns, HandlerStep(t) \/ AdapterReturns(t) \/ StoreFails(t)
  PROVE  /\ handler[t].pc # "idle"
         /\ \A u \in Turns : u # t => handler'[u] = handler[u]
         /\ handler'[t].pc # "idle" => handler'[t].call = handler[t].call
         /\ \A k \in Calls : k # handler[t].call
              => journal'[k] = journal[k] /\ dispatched'[k] = dispatched[k]
         /\ handler[t].call \in Calls =>
              /\ journal[handler[t].call] \notin Unclaimed
                   => journal'[handler[t].call] \notin Unclaimed
              /\ dispatched'[handler[t].call] <= 1
              /\ dispatched'[handler[t].call] > 0
                   => journal'[handler[t].call] \notin Unclaimed
         /\ handler'[t].pc \in BeforeClaim => journal'[handler[t].call] = "checkpointed"
         /\ handler'[t].pc = "dispatch"
              => /\ dispatched'[handler[t].call] = 0
                 /\ journal'[handler[t].call] \notin Unclaimed
<1> DEFINE h == handler[t]
           c == handler[t].call
<1>h. h \in HandlerState /\ handler \in [Turns -> HandlerState]
  BY DEF IInv, TypeOK
<1>f. /\ h.pc \in HandlerPc /\ h.call \in CallOrNone /\ h.rev \in Nat /\ h.out \in Told
      /\ h.pc \notin {"idle", "commit", "committed"} => c \in Calls
      /\ h.pc \in {"record", "result"} => h.out \in Settled
  BY <1>h DEF HandlerState
<1>s. /\ "executing" \notin Unclaimed
      /\ \A s \in Settled : s \notin Unclaimed /\ s # "executing"
  BY DEF Unclaimed, Settled
<1>i. /\ h.pc \in BeforeClaim => journal[c] = "checkpointed"
      /\ h.pc = "dispatch" => dispatched[c] = 0 /\ journal[c] \notin Unclaimed
      /\ c \in Calls => dispatched[c] \in Nat /\ dispatched[c] <= 1
      /\ c \in Calls /\ dispatched[c] > 0 => journal[c] \notin Unclaimed
  BY DEF IInv, TypeOK, HandlersFollowJournal, DispatchedIsClaimed, AtMostOnce
<1>b. BeforeClaim = {"policy", "start", "markCancelled", "markDenied"}
  BY DEF BeforeClaim
<1>1. CASE CommitCheckpoint(t)
  <2>1. checkpoint.rev + 1 \in Nat
    BY DEF IInv, TypeOK
  <2>2. /\ \A u \in Turns : u # t => handler'[u] = handler[u]
        /\ handler'[t].pc \in {"idle", "committed"}
        /\ handler'[t].pc # "idle" => handler'[t].call = c
    BY <1>1, <1>f, <1>h, <2>1, HandleFacts, EndFacts DEF CommitCheckpoint
  <2> QED
    BY <1>1, <1>i, <1>b, <2>2 DEF CommitCheckpoint, history
<1>2. CASE ReadCheckpoint(t)
  <2>2. /\ \A u \in Turns : u # t => handler'[u] = handler[u]
        /\ handler'[t].pc \in {"idle", "add"}
        /\ handler'[t].pc # "idle" => handler'[t].call = c
    BY <1>2, <1>f, <1>h, GotoFacts, EndFacts DEF ReadCheckpoint, HandlerPc
  <2> QED
    BY <1>2, <1>i, <1>b, <2>2 DEF ReadCheckpoint, durable, history
<1>3. CASE AddInvocation(t)
  <2> DEFINE record == IF journal[c] = "none" THEN "checkpointed" ELSE journal[c]
  <2>1. c \in Calls /\ journal[c] \in Status
    BY <1>3, <1>f DEF AddInvocation, IInv, TypeOK
  <2>2. record \in Status \ {"none"}
    BY <2>1 DEF Status, Settled
  <2>3. /\ journal'[c] = record
        /\ \A k \in Calls : k # c => journal'[k] = journal[k]
        /\ dispatched' = dispatched
    BY <1>3, <2>1 DEF AddInvocation, IInv, TypeOK, history
  <2>4. record \notin Settled =>
          \/ Branch(t, record) = "markUnknown"
          \/ Branch(t, record) \in {"markCancelled", "policy", "start"} /\ record = "checkpointed"
    BY <2>2 DEF Branch, Status
  <2>5. /\ \A u \in Turns : u # t => handler'[u] = handler[u]
        /\ handler'[t].call = c
        /\ \/ handler'[t].pc \in {"result", "markUnknown"}
           \/ handler'[t].pc \in {"markCancelled", "policy", "start"} /\ record = "checkpointed"
    <3>1. CASE record \in Settled
      BY <3>1, <1>3, <1>h, <2>1, ConcludeFacts DEF AddInvocation
    <3>2. CASE record \notin Settled
      BY <3>2, <2>4, <1>3, <1>h, <2>1, GotoFacts DEF AddInvocation, HandlerPc
    <3> QED
      BY <3>1, <3>2
  <2>6. journal[c] \notin Unclaimed => record = journal[c]
    BY DEF Unclaimed
  <2> QED
    BY <1>3, <1>b, <1>i, <2>1, <2>3, <2>5, <2>6 DEF AddInvocation
<1>4. CASE LessonPolicy(t)
  <2>2. /\ \A u \in Turns : u # t => handler'[u] = handler[u]
        /\ handler'[t].pc \in {"start", "markDenied"}
        /\ handler'[t].call = c
    BY <1>4, <1>f, <1>h, GotoFacts DEF LessonPolicy, HandlerPc
  <2> QED
    BY <1>4, <1>i, <1>b, <2>2 DEF LessonPolicy, durable, history
<1>5. CASE RefuseCall(t)
  <2>1. c \in Calls
    BY <1>5, <1>f DEF RefuseCall
  <2>2. /\ \A k \in Calls : k # c => journal'[k] = journal[k]
        /\ journal'[c] = journal[c] \/ journal'[c] \in Settled
    BY <1>5, <2>1, TransitionType DEF RefuseCall, IInv, TypeOK, Status, Settled
  <2>3. PICK out \in Settled : Conclude(t, "result", out)
    BY <1>5 DEF RefuseCall, Settled
  <2>4. /\ \A u \in Turns : u # t => handler'[u] = handler[u]
        /\ handler'[t].pc = "result" /\ handler'[t].call = c
    BY <1>h, <2>1, <2>3, ConcludeFacts
  <2>5. dispatched' = dispatched /\ h.pc # "idle"
    BY <1>5 DEF RefuseCall, history
  <2> QED
    BY <1>b, <1>i, <1>s, <2>1, <2>2, <2>4, <2>5
<1>6. CASE ClaimExecution(t)
  <2>1. c \in Calls /\ journal[c] = "checkpointed" /\ h.pc = "start"
    BY <1>6, <1>f, <1>i, <1>b DEF ClaimExecution
  <2>2. /\ \A k \in Calls : k # c => journal'[k] = journal[k]
        /\ journal'[c] = "executing"
    BY <1>6, <2>1, TransitionType DEF ClaimExecution, IInv, TypeOK, Status
  <2>3. /\ \A u \in Turns : u # t => handler'[u] = handler[u]
        /\ handler'[t].pc = "dispatch" /\ handler'[t].call = c
    BY <1>6, <1>h, <2>1, <2>2, GotoFacts DEF ClaimExecution, HandlerPc
  <2>4. dispatched' = dispatched /\ dispatched[c] = 0
    BY <1>6, <1>i, <2>1 DEF ClaimExecution, history, Unclaimed
  <2> QED
    BY <1>b, <1>s, <2>1, <2>2, <2>3, <2>4
<1>7. CASE Dispatch(t)
  <2>1. c \in Calls /\ h.pc = "dispatch" /\ journal' = journal
    BY <1>7, <1>f DEF Dispatch, durable
  <2>2. /\ \A u \in Turns : u # t => handler'[u] = handler[u]
        /\ handler'[t].pc \in {"running", "record"} /\ handler'[t].call = c
    BY <1>7, <1>h, <2>1, GotoFacts, ConcludeFacts DEF Dispatch, HandlerPc, Settled
  <2>3. /\ \A k \in Calls : k # c => dispatched'[k] = dispatched[k]
        /\ dispatched'[c] \in {0, 1}
    BY <1>7, <1>i, <2>1 DEF Dispatch, IInv, TypeOK
  <2> QED
    BY <1>b, <1>i, <2>1, <2>2, <2>3
<1>8. CASE AdapterReturns(t)
  <2>1. c \in Calls
    BY <1>8, <1>f DEF AdapterReturns
  <2>2. /\ \A u \in Turns : u # t => handler'[u] = handler[u]
        /\ handler'[t].pc = "record" /\ handler'[t].call = c
    BY <1>8, <1>h, <2>1, ConcludeFacts DEF AdapterReturns, Receipts, Settled
  <2> QED
    BY <1>8, <1>b, <1>i, <2>1, <2>2 DEF AdapterReturns, durable, history
<1>9. CASE RecordOutcome(t)
  <2>1. c \in Calls /\ h.out \in Settled
    BY <1>9, <1>f DEF RecordOutcome
  <2>2. /\ \A k \in Calls : k # c => journal'[k] = journal[k]
        /\ journal'[c] = journal[c] \/ journal'[c] \in Settled
    BY <1>9, <2>1, TransitionType DEF RecordOutcome, IInv, TypeOK, Status
  <2>3. /\ \A u \in Turns : u # t => handler'[u] = handler[u]
        /\ handler'[t].pc = "result" /\ handler'[t].call = c
    BY <1>9, <1>h, <2>1, ConcludeFacts DEF RecordOutcome
  <2>4. dispatched' = dispatched /\ h.pc # "idle"
    BY <1>9 DEF RecordOutcome, history
  <2> QED
    BY <1>b, <1>i, <1>s, <2>1, <2>2, <2>3, <2>4
<1>10. CASE Respond(t) \/ StoreFails(t)
  <2>1. EndHandler(t) /\ UNCHANGED <<journal, dispatched>> /\ h.pc # "idle"
    BY <1>10 DEF Respond, StoreFails, durable, history
  <2>2. /\ \A u \in Turns : u # t => handler'[u] = handler[u]
        /\ handler'[t].pc = "idle"
    BY <1>h, <2>1, EndFacts
  <2> QED
    BY <1>b, <1>i, <2>1, <2>2
<1> QED
  BY <1>1, <1>2, <1>3, <1>4, <1>5, <1>6, <1>7, <1>8, <1>9, <1>10 DEF HandlerStep

\* A handler's answer is about its own turn and call, and a checkpoint names a
\* call that a handler had.
LEMMA HandlerInvolves ==
  ASSUME IInv, NEW t \in Turns, HandlerStep(t) \/ AdapterReturns(t) \/ StoreFails(t)
  PROVE  /\ \A u \in Turns, c \in Calls : Involved(u, c)' => Involved(u, c)
         /\ \A c \in Calls : checkpoint'.call = c => checkpoint.call = c \/ Handles(t, c)
         /\ asked' = asked
<1>t. TypeOK
  BY DEF IInv
<1>1. \A u \in Turns, c \in Calls : Handles(u, c)' => Handles(u, c)
  BY HandlerFacts DEF Handles
<1>2. UNCHANGED <<child, toHost, asked>>
  BY DEF HandlerStep, CommitCheckpoint, ReadCheckpoint, AddInvocation, LessonPolicy, RefuseCall,
     ClaimExecution, Dispatch, AdapterReturns, RecordOutcome, Respond, StoreFails, procVars, history
<1>3. ASSUME NEW u \in Turns, NEW c \in Calls, Posted(u, c)'
      PROVE  Posted(u, c) \/ Handles(u, c)
  <2>1. CASE Respond(t)
    <3> DEFINE m == [kind |-> handler[t].pc, turn |-> t, call |-> handler[t].call,
                     rev |-> handler[t].rev, val |-> handler[t].out]
    <3>1. handler[t] \in HandlerState
      BY <1>t DEF TypeOK
    <3>2. m \in ChildBound
      BY <2>1, <3>1 DEF Respond, ChildBound, HandlerState
    <3>3. toChild' = Append(toChild, m) \/ toChild' = toChild
      BY <2>1 DEF Respond, Post
    <3>4. m.turn = t /\ m.call = handler[t].call
      OBVIOUS
    <3> HIDE DEF m
    <3>5. Posted(u, c) \/ (u = t /\ c = handler[t].call)
      BY <1>t, <1>3, <3>2, <3>3, <3>4, PostInvolves DEF TypeOK
    <3> QED
      BY <3>5, <2>1 DEF Respond, Handles
  <2>2. CASE ~Respond(t)
    <3>1. toChild' = toChild
      BY <2>2 DEF HandlerStep, CommitCheckpoint, ReadCheckpoint, AddInvocation, LessonPolicy,
         RefuseCall, ClaimExecution, Dispatch, AdapterReturns, RecordOutcome, StoreFails, procVars
    <3> QED
      BY <3>1, <1>3 DEF Posted
  <2> QED
    BY <2>1, <2>2
<1>4. \A c \in Calls : checkpoint'.call = c => checkpoint.call = c \/ Handles(t, c)
  <2>1. CASE CommitCheckpoint(t)
    BY <2>1 DEF CommitCheckpoint, Handles
  <2>2. CASE ~CommitCheckpoint(t)
    <3>1. checkpoint' = checkpoint
      BY <2>2 DEF HandlerStep, ReadCheckpoint, AddInvocation, LessonPolicy, RefuseCall,
         ClaimExecution, Dispatch, AdapterReturns, RecordOutcome, Respond, StoreFails, durable
    <3> QED
      BY <3>1
  <2> QED
    BY <2>1, <2>2
<1> QED
  BY <1>1, <1>2, <1>3, <1>4 DEF Involved, Runs, Sent

\* An exit or a restart only forgets; the exit settles what was executing.
LEMMA FailureInvolves ==
  ASSUME TypeOK, ProcessDies \/ ExitStep \/ Restart
  PROVE  /\ \A t \in Turns, c \in Calls : Involved(t, c)' => Involved(t, c)
         /\ UNCHANGED <<checkpoint, asked, dispatched>>
         /\ \A t \in Turns : handler'[t] = handler[t] \/ handler'[t] = Idle
         /\ \A c \in Calls : \/ journal'[c] = journal[c]
                             \/ journal[c] = "executing" /\ journal'[c] = "unknown"
<1>1. CASE ProcessDies
  BY <1>1 DEF ProcessDies, durable, hostVars, history, Involved, Handles, Runs, Sent, Posted
<1>2. CASE ProcessExits
  <2>1. \A t \in Turns, c \in Calls : ~Runs(t, c)' /\ ~Sent(t, c)' /\ ~Posted(t, c)'
    BY <1>2, CallsAssumption DEF ProcessExits, Runs, Sent, Posted, NoChild
  <2> QED
    BY <1>2, <2>1 DEF ProcessExits, durable, history, Involved, Handles
<1>3. CASE SettleExit
  <2>1. \A c \in Calls : \/ journal'[c] = journal[c]
                         \/ journal[c] = "executing" /\ journal'[c] = "unknown"
    BY <1>3 DEF SettleExit, TypeOK
  <2> QED
    BY <1>3, <2>1 DEF SettleExit, procVars, history, Involved, Handles, Runs, Sent, Posted
<1>4. CASE Restart
  <2>1. \A t \in Turns, c \in Calls :
          ~Runs(t, c)' /\ ~Sent(t, c)' /\ ~Posted(t, c)' /\ ~Handles(t, c)'
    BY <1>4, CallsAssumption DEF Restart, Runs, Sent, Posted, Handles, Idle, NoChild
  <2> QED
    BY <1>4, <2>1 DEF Restart, durable, history, Involved
<1> QED
  BY <1>1, <1>2, <1>3, <1>4 DEF ExitStep

\* The model's request involves its turn with a call nobody had.
LEMMA RequestInvolves ==
  ASSUME TypeOK, NEW d \in Calls, RequestTool(d)
  PROVE  /\ \A t \in Turns, c \in Calls : Involved(t, c)' => Involved(t, c) \/ (t = child.turn /\ c = d)
         /\ asked[d] = NoTurn /\ asked'[d] # NoTurn
         /\ \A c \in Calls : c # d => asked'[c] = asked[c]
         /\ UNCHANGED <<checkpoint, journal, handler, dispatched>>
<1>1. /\ child.turn \in Turns
      /\ child \in [turn : Turns, pc : {"model", "committing", "executing"},
                    call : CallOrNone, rev : Nat, goes : 0 .. MaxContinuations]
  BY RunningTurn DEF RequestTool, TypeOK
<1>2. child'.turn = child.turn /\ child'.call = d
  BY <1>1 DEF RequestTool
<1>3. [kind |-> "commit", turn |-> child.turn, call |-> d, rev |-> child.rev,
       status |-> "none"] \in HostBound
  BY <1>1 DEF HostBound, CallOrNone
<1>4. \A t \in Turns, c \in Calls : Sent(t, c)' => Sent(t, c) \/ (t = child.turn /\ c = d)
  BY <1>3, SendInvolves DEF RequestTool, TypeOK
<1>5. /\ asked[d] = NoTurn /\ asked'[d] # NoTurn
      /\ \A c \in Calls : c # d => asked'[c] = asked[c]
  BY <1>1 DEF RequestTool, TypeOK, Turns, NoTurn
<1> QED
  BY <1>2, <1>4, <1>5 DEF RequestTool, durable, hostVars, Involved, Handles, Runs, Posted

\* Resuming involves the new turn, and no other, with the checkpoint's call.
LEMMA ResumeInvolves ==
  ASSUME IInv, Resume
  PROVE  /\ \A t \in Turns, c \in Calls :
              Involved(t, c)' => t = turns + 1 /\ c = checkpoint.call
         /\ UNCHANGED <<checkpoint, journal, handler, asked, dispatched>>
<1>1. /\ child = NoChild /\ toHost = << >> /\ toChild = << >>
      /\ \A t \in Turns : handler[t] = Idle
  BY DEF Resume, IInv, RestoredIsQuiet
<1>2. UNCHANGED <<checkpoint, journal, handler, asked, dispatched, child, toHost>>
  BY DEF Resume, durable
<1>3. \A t \in Turns, c \in Calls : ~Handles(t, c)' /\ ~Runs(t, c)' /\ ~Sent(t, c)'
  BY <1>1, <1>2, CallsAssumption DEF Handles, Idle, Runs, NoChild, Sent
<1>4. /\ Len(toChild') = 1
      /\ toChild'[1].turn = turns + 1 /\ toChild'[1].call = checkpoint.call
  BY <1>1 DEF Resume
<1> QED
  BY <1>2, <1>3, <1>4 DEF Involved, Posted

(***************************************************************************)
(* Every step keeps the invariant.                                         *)
(***************************************************************************)

\* At most one turn comes to be involved with a call, and only with a call that
\* was asked for.
LEMMA CallsStep ==
  ASSUME IInv, Next
  PROVE  OneTurnPerCall' /\ AskedFirst'
<1>t. TypeOK /\ OneTurnPerCall /\ AskedFirst
  BY DEF IInv
<1>1. ASSUME \A t \in Turns, c \in Calls : Involved(t, c)' => Involved(t, c),
             \A c \in Calls : checkpoint'.call = c
               => checkpoint.call = c \/ \E t \in Turns : Involved(t, c),
             asked' = asked
      PROVE  OneTurnPerCall' /\ AskedFirst'
  BY <1>t, <1>1 DEF OneTurnPerCall, AskedFirst
<1>2. CASE BeginStart \/ AdmitTurn \/ RefuseTurn \/ PostStart \/ Stop
  BY <1>t, <1>1, <1>2, StartInvolves
<1>3. CASE FinishRun \/ ModelFails \/ RequestTimesOut
  BY <1>t, <1>1, <1>3, ChildEndsInvolves
<1>4. CASE ChildReceive
  BY <1>t, <1>1, <1>4, ChildReceiveInvolves
<1>5. CASE HostReceive
  BY <1>t, <1>1, <1>5, HostReceiveInvolves
<1>6. ASSUME NEW t \in Turns, HandlerStep(t) \/ AdapterReturns(t) \/ StoreFails(t)
      PROVE  OneTurnPerCall' /\ AskedFirst'
  BY <1>1, <1>6, HandlerInvolves DEF Involved
<1>7. CASE ProcessDies \/ ExitStep \/ Restart
  BY <1>t, <1>1, <1>7, FailureInvolves
<1>8. ASSUME NEW d \in Calls, RequestTool(d)
      PROVE  OneTurnPerCall' /\ AskedFirst'
  <2>1. \A t \in Turns : ~Involved(t, d)
    BY <1>t, <1>8, RequestInvolves DEF AskedFirst
  <2>2. \A t \in Turns, c \in Calls : Involved(t, c)' => Involved(t, c) \/ (t = child.turn /\ c = d)
    BY <1>t, <1>8, RequestInvolves
  <2>3. OneTurnPerCall'
    BY <1>t, <2>1, <2>2 DEF OneTurnPerCall
  <2>4. AskedFirst'
    BY <1>t, <1>8, <2>2, RequestInvolves DEF AskedFirst
  <2> QED
    BY <2>3, <2>4
<1>9. CASE Resume
  BY <1>t, <1>9, ResumeInvolves DEF OneTurnPerCall, AskedFirst
<1> QED
  BY <1>2, <1>3, <1>4, <1>5, <1>6, <1>7, <1>8, <1>9 DEF Next, StartStep, ChildStep

\* Until the thread is resumed there is nothing that could move.
LEMMA QuietStep ==
  ASSUME IInv, Next
  PROVE  RestoredIsQuiet'
<1>1. CASE Restart
  BY <1>1 DEF Restart, RestoredIsQuiet, IInv
<1>2. CASE Resume
  BY <1>2 DEF Resume, RestoredIsQuiet
<1>3. CASE ~Restart /\ ~Resume
  <2>1. restored' = restored
    BY <1>3 DEF Next, StartStep, BeginStart, AdmitTurn, RefuseTurn, PostStart, Stop, ChildStep,
       RequestTool, FinishRun, ModelFails, RequestTimesOut, ChildReceive, HostReceive,
       HandlerStep, CommitCheckpoint, ReadCheckpoint, AddInvocation, LessonPolicy, RefuseCall,
       ClaimExecution, Dispatch, AdapterReturns, RecordOutcome, Respond, StoreFails, ProcessDies,
       ExitStep, ProcessExits, SettleExit
  <2>2. ASSUME restored, ~LessonChild PROVE FALSE
    <3>1. /\ turns > 0 /\ stage = "idle" /\ active = NoTurn /\ exiting = NoTurn /\ proc = "down"
          /\ \A t \in Turns : handler[t] = Idle
      BY <2>2 DEF IInv, RestoredIsQuiet
    <3>2. turns \in Nat /\ turns # 0
      BY <3>1 DEF IInv, TypeOK
    <3>3. ~StartStep /\ ~Stop /\ ~ChildStep /\ ~HostReceive /\ ~ProcessDies /\ ~ExitStep
      BY <1>3, <2>2, <3>1, <3>2 DEF StartStep, BeginStart, AdmitTurn, RefuseTurn, PostStart, Stop,
         UserStop, ChildStep, RequestTool, FinishRun, ModelFails, RequestTimesOut, ChildReceive,
         ChildTakes, HostReceive, HostTakes, ProcessDies, ExitStep, ProcessExits, SettleExit
    <3>4. \A t \in Turns : ~(HandlerStep(t) \/ AdapterReturns(t) \/ StoreFails(t))
      BY <3>1, HandlerFacts DEF Idle
    <3> QED
      BY <1>3, <3>3, <3>4 DEF Next
  <2> QED
    BY <2>1, <2>2 DEF RestoredIsQuiet
<1> QED
  BY <1>1, <1>2, <1>3

\* What the handlers rely on in the journal stays true, and a call is dispatched
\* from the one handler that claimed it.
LEMMA JournalStep ==
  ASSUME IInv, Next
  PROVE  HandlersFollowJournal' /\ DispatchedIsClaimed' /\ AtMostOnce'
<1>t. /\ TypeOK /\ OneTurnPerCall /\ HandlersFollowJournal /\ DispatchedIsClaimed /\ AtMostOnce
  BY DEF IInv
<1>c. \A t \in Turns : handler[t].pc \in BeforeClaim \cup {"dispatch"} => handler[t].call \in Calls
  BY <1>t DEF TypeOK, HandlerState, BeforeClaim
<1>1. ASSUME \A c \in Calls : \/ journal'[c] = journal[c]
                              \/ journal[c] = "executing" /\ journal'[c] = "unknown",
             \A t \in Turns : \/ handler'[t] = handler[t]
                              \/ handler'[t].pc \in {"idle", "commit", "read"},
             dispatched' = dispatched
      PROVE  HandlersFollowJournal' /\ DispatchedIsClaimed' /\ AtMostOnce'
  <2>1. HandlersFollowJournal'
    <3> SUFFICES ASSUME NEW t \in Turns
                 PROVE  /\ handler'[t].pc \in BeforeClaim => journal'[handler'[t].call] = "checkpointed"
                        /\ handler'[t].pc = "dispatch"
                             => /\ dispatched'[handler'[t].call] = 0
                                /\ journal'[handler'[t].call] \notin Unclaimed
      BY DEF HandlersFollowJournal
    <3>1. CASE handler'[t] = handler[t]
      BY <1>t, <1>c, <1>1, <3>1 DEF HandlersFollowJournal, Unclaimed
    <3>2. CASE handler'[t].pc \in {"idle", "commit", "read"}
      BY <3>2 DEF BeforeClaim
    <3> QED
      BY <1>1, <3>1, <3>2
  <2>2. DispatchedIsClaimed' /\ AtMostOnce'
    BY <1>t, <1>1 DEF DispatchedIsClaimed, AtMostOnce, Unclaimed
  <2> QED
    BY <2>1, <2>2
<1>2. CASE BeginStart \/ AdmitTurn \/ RefuseTurn \/ PostStart \/ Stop
  BY <1>t, <1>1, <1>2, StartInvolves
<1>3. CASE FinishRun \/ ModelFails \/ RequestTimesOut
  BY <1>t, <1>1, <1>3, ChildEndsInvolves
<1>4. CASE ChildReceive
  BY <1>t, <1>1, <1>4, ChildReceiveInvolves
<1>5. CASE HostReceive
  BY <1>t, <1>1, <1>5, HostReceiveInvolves
<1>6. ASSUME NEW t \in Turns, HandlerStep(t) \/ AdapterReturns(t) \/ StoreFails(t)
      PROVE  HandlersFollowJournal' /\ DispatchedIsClaimed' /\ AtMostOnce'
  <2> DEFINE c == handler[t].call
  <2>1. ASSUME NEW u \in Turns, u # t, handler[u].pc \in BeforeClaim \cup {"dispatch"}
        PROVE  handler[u].call \in Calls /\ handler[u].call # c
    <3>1. Handles(t, c)
      BY <1>6, HandlerFacts DEF Handles
    <3>2. Handles(u, handler[u].call)
      BY <2>1 DEF Handles, BeforeClaim
    <3> QED
      BY <1>t, <1>c, <2>1, <3>1, <3>2 DEF OneTurnPerCall, Involved
  <2>2. HandlersFollowJournal'
    <3> SUFFICES ASSUME NEW u \in Turns
                 PROVE  /\ handler'[u].pc \in BeforeClaim => journal'[handler'[u].call] = "checkpointed"
                        /\ handler'[u].pc = "dispatch"
                             => /\ dispatched'[handler'[u].call] = 0
                                /\ journal'[handler'[u].call] \notin Unclaimed
      BY DEF HandlersFollowJournal
    <3>1. CASE u = t
      <4>1. handler'[t].pc \in BeforeClaim \cup {"dispatch"} => handler'[t].call = c
        BY <1>6, HandlerFacts DEF BeforeClaim
      <4> QED
        BY <1>6, <3>1, <4>1, HandlerFacts
    <3>2. CASE u # t
      <4>1. handler'[u] = handler[u]
        BY <1>6, <3>2, HandlerFacts
      <4>2. handler[u].pc \in BeforeClaim \cup {"dispatch"}
              => /\ journal'[handler[u].call] = journal[handler[u].call]
                 /\ dispatched'[handler[u].call] = dispatched[handler[u].call]
        BY <1>6, <2>1, <3>2, HandlerFacts
      <4> QED
        BY <1>t, <4>1, <4>2 DEF HandlersFollowJournal
    <3> QED
      BY <3>1, <3>2
  <2>3. DispatchedIsClaimed' /\ AtMostOnce'
    <3> SUFFICES ASSUME NEW k \in Calls
                 PROVE  /\ dispatched'[k] > 0 => journal'[k] \notin Unclaimed
                        /\ dispatched'[k] <= 1
      BY DEF DispatchedIsClaimed, AtMostOnce
    <3>1. CASE k = c
      BY <1>6, <3>1, HandlerFacts
    <3>2. CASE k # c
      <4>1. journal'[k] = journal[k] /\ dispatched'[k] = dispatched[k]
        BY <1>6, <3>2, HandlerFacts
      <4> QED
        BY <1>t, <4>1 DEF DispatchedIsClaimed, AtMostOnce
    <3> QED
      BY <3>1, <3>2
  <2> QED
    BY <2>2, <2>3
<1>7. CASE ProcessDies \/ ExitStep \/ Restart
  BY <1>t, <1>1, <1>7, FailureInvolves DEF Idle
<1>8. ASSUME NEW d \in Calls, RequestTool(d)
      PROVE  HandlersFollowJournal' /\ DispatchedIsClaimed' /\ AtMostOnce'
  BY <1>t, <1>1, <1>8, RequestInvolves
<1>9. CASE Resume
  BY <1>t, <1>1, <1>9, ResumeInvolves
<1> QED
  BY <1>2, <1>3, <1>4, <1>5, <1>6, <1>7, <1>8, <1>9 DEF Next, StartStep, ChildStep

\* Nobody is involved with anything at first.
LEMMA InvariantInit == Init => IInv
<1> SUFFICES ASSUME Init PROVE IInv
  OBVIOUS
<1>1. \A t \in Turns, c \in Calls : ~Involved(t, c)
  <2>1. /\ child = NoChild /\ toHost = << >> /\ toChild = << >>
        /\ \A t \in Turns : handler[t] = Idle
    BY DEF Init
  <2>2. \A t \in Turns, c \in Calls : ~Handles(t, c) /\ ~Runs(t, c)
    BY <2>1, CallsAssumption DEF Handles, Runs, NoChild, Idle
  <2>3. \A t \in Turns, c \in Calls : ~Sent(t, c) /\ ~Posted(t, c)
    BY <2>1 DEF Sent, Posted
  <2> QED
    BY <2>2, <2>3 DEF Involved
<1>2. OneTurnPerCall /\ AskedFirst
  BY <1>1, CallsAssumption DEF Init, OneTurnPerCall, AskedFirst
<1>3. RestoredIsQuiet /\ HandlersFollowJournal /\ DispatchedIsClaimed /\ AtMostOnce
  BY DEF Init, RestoredIsQuiet, HandlersFollowJournal, DispatchedIsClaimed, AtMostOnce, Idle,
     BeforeClaim
<1> QED
  BY <1>2, <1>3, TypeInit DEF IInv

\* The steps of the thread keep the invariant, stuttering included.
LEMMA InvariantStep == IInv /\ [Next]_vars => IInv'
<1> SUFFICES ASSUME IInv, [Next]_vars PROVE IInv'
  OBVIOUS
<1>1. TypeOK'
  BY TypeStep DEF IInv
<1>2. CASE Next
  BY <1>1, <1>2, CallsStep, QuietStep, JournalStep DEF IInv
<1>3. CASE UNCHANGED vars
  BY <1>1, <1>3 DEF IInv, vars, durable, hostVars, procVars, history, OneTurnPerCall, AskedFirst,
     RestoredIsQuiet, HandlersFollowJournal, DispatchedIsClaimed, AtMostOnce, Involved, Handles,
     Runs, Sent, Posted
<1> QED
  BY <1>2, <1>3

\* The invariant holds in every state of the thread: a call belongs to one turn
\* that is still around, and its handler knows what the journal says of it.
THEOREM Inductive == Spec => []IInv
  BY InvariantInit, InvariantStep, PTL DEF Spec

\* A call reaches its adapter once at most, for any number of calls, turns and
\* restarts, whatever crashes and times out in between (toolExecute).
THEOREM AtMostOnceHolds == Spec => []AtMostOnce
<1>1. IInv => AtMostOnce
  BY DEF IInv
<1> QED
  BY <1>1, Inductive, PTL

(***************************************************************************)
(* What no step may do.                                                    *)
(***************************************************************************)

\* Only a call's own handler and the exit of its process write to its record,
\* and compare and set keeps a settled one.
LEMMA SettledStep ==
  ASSUME TypeOK, [Next]_vars, NEW c \in Calls, journal[c] \in Settled
  PROVE  journal'[c] = journal[c]
<1>s. journal[c] \notin {"none", "checkpointed", "executing"}
  BY DEF Settled
<1>1. ASSUME NEW t \in Turns, HandlerStep(t) \/ AdapterReturns(t) \/ StoreFails(t)
      PROVE  journal'[c] = journal[c]
  <2>1. CASE AddInvocation(t)
    BY <1>s, <2>1 DEF AddInvocation, TypeOK
  <2>2. CASE RefuseCall(t) \/ ClaimExecution(t) \/ RecordOutcome(t)
    <3>1. PICK e \in {"checkpointed", "executing"}, s \in Status \cup Told :
            Transition(handler[t].call, e, s)
      <4>1. handler[t].out \in Told
        BY DEF TypeOK, HandlerState
      <4> QED
        BY <2>2, <4>1 DEF RefuseCall, ClaimExecution, RecordOutcome, Status, Settled
    <3> QED
      BY <1>s, <3>1 DEF Transition, TypeOK
  <2>3. CASE ~(AddInvocation(t) \/ RefuseCall(t) \/ ClaimExecution(t) \/ RecordOutcome(t))
    BY <1>1, <2>3 DEF HandlerStep, CommitCheckpoint, ReadCheckpoint, LessonPolicy, Dispatch,
       AdapterReturns, Respond, StoreFails, durable
  <2> QED
    BY <2>1, <2>2, <2>3
<1>2. CASE SettleExit
  BY <1>s, <1>2 DEF SettleExit
<1>3. CASE BeginStart \/ AdmitTurn \/ RefuseTurn \/ PostStart \/ Stop
  BY <1>3, StartInvolves
<1>4. CASE FinishRun \/ ModelFails \/ RequestTimesOut \/ ChildReceive \/ HostReceive
  BY <1>4 DEF FinishRun, ModelFails, RequestTimesOut, ChildReceive, HostReceive, durable
<1>5. CASE ProcessDies \/ ProcessExits \/ Restart \/ Resume
  BY <1>5 DEF ProcessDies, ProcessExits, Restart, Resume, durable
<1>6. ASSUME NEW d \in Calls, RequestTool(d) PROVE journal'[c] = journal[c]
  BY <1>6 DEF RequestTool, durable
<1>7. CASE UNCHANGED vars
  BY <1>7 DEF vars, durable
<1> QED
  BY <1>1, <1>2, <1>3, <1>4, <1>5, <1>6, <1>7 DEF Next, StartStep, ChildStep, ExitStep

\* The recorded outcome of a settled call never changes, whichever of the
\* adapter, the exit and a resumed turn comes last (transitionInvocation).
THEOREM SettledIsFinalHolds == Spec => SettledIsFinal
<1>1. TypeOK /\ [Next]_vars =>
        [\A c \in Calls : journal[c] \in Settled => journal'[c] = journal[c]]_vars
  BY SettledStep
<1> QED
  BY <1>1, TypeCorrect, PTL DEF Spec, SettledIsFinal

\* A handler comes to run its adapter by Dispatch alone, which reads the signal.
LEMMA AbortedStep ==
  ASSUME TypeOK, [Next]_vars, NEW t \in Turns, t \in aborted, handler[t].pc # "running"
  PROVE  handler'[t].pc # "running"
<1>h. handler \in [Turns -> HandlerState]
  BY DEF TypeOK
<1>1. ASSUME NEW u \in Turns, HandlerStep(u) \/ AdapterReturns(u) \/ StoreFails(u)
      PROVE  handler'[t].pc # "running"
  <2>1. CASE u # t
    BY <1>1, <1>h, <2>1 DEF HandlerStep, CommitCheckpoint, ReadCheckpoint, AddInvocation,
       LessonPolicy, RefuseCall, ClaimExecution, Dispatch, AdapterReturns, RecordOutcome,
       Respond, StoreFails, Handle, Goto, Conclude, EndHandler
  <2>2. CASE u = t
    <3>1. handler[t].pc \in HandlerPc
            /\ handler[t] \in [pc : HandlerPc, call : CallOrNone, rev : Nat, out : Told]
      BY <1>h DEF HandlerState
    <3>2. ASSUME NEW pc, pc # "running", Goto(t, pc) PROVE handler'[t].pc # "running"
      BY <1>h, <3>1, <3>2 DEF Goto
    <3>3. ASSUME NEW pc, pc # "running", NEW o, Conclude(t, pc, o) PROVE handler'[t].pc # "running"
      BY <1>h, <3>1, <3>3 DEF Conclude
    <3>4. ASSUME EndHandler(t) PROVE handler'[t].pc # "running"
      BY <1>h, <3>4 DEF EndHandler, Idle
    <3>5. CASE CommitCheckpoint(t)
      BY <1>h, <3>4, <3>5 DEF CommitCheckpoint, Handle
    <3>6. CASE ReadCheckpoint(t) \/ LessonPolicy(t) \/ ClaimExecution(t) \/ Respond(t)
                 \/ StoreFails(t)
      BY <3>2, <3>4, <3>6 DEF ReadCheckpoint, LessonPolicy, ClaimExecution, Respond, StoreFails
    <3>7. CASE RefuseCall(t) \/ AdapterReturns(t) \/ RecordOutcome(t)
      BY <3>3, <3>7 DEF RefuseCall, AdapterReturns, RecordOutcome
    <3>8. CASE AddInvocation(t)
      <4>1. handler[t].call \in Calls
        BY <3>8, <1>h DEF AddInvocation, HandlerState
      <4>2. journal[handler[t].call] \in Status
        BY <4>1 DEF TypeOK
      <4>3. \A r \in {"checkpointed", "executing"} : Branch(t, r) # "running"
        BY DEF Branch
      <4> QED
        BY <3>2, <3>3, <3>8, <4>2, <4>3 DEF AddInvocation, Status
    <3>9. CASE Dispatch(t)
      BY <3>3, <3>9 DEF Dispatch
    <3> QED
      BY <1>1, <2>2, <3>5, <3>6, <3>7, <3>8, <3>9 DEF HandlerStep
  <2> QED
    BY <2>1, <2>2
<1>2. CASE BeginStart \/ AdmitTurn \/ RefuseTurn \/ PostStart \/ Stop
  BY <1>2, StartInvolves
<1>3. CASE FinishRun \/ ModelFails \/ RequestTimesOut \/ ChildReceive
  BY <1>3, ChildEndsInvolves, ChildReceiveInvolves
<1>4. CASE HostReceive
  BY <1>4, HostReceiveInvolves
<1>5. CASE ProcessDies \/ ExitStep \/ Restart
  BY <1>5, FailureInvolves DEF Idle
<1>6. CASE Resume \/ (\E d \in Calls : RequestTool(d))
  BY <1>6 DEF Resume, RequestTool, hostVars
<1>7. CASE UNCHANGED vars
  BY <1>7 DEF vars, hostVars
<1> QED
  BY <1>1, <1>2, <1>3, <1>4, <1>5, <1>6, <1>7 DEF Next, StartStep, ChildStep

\* No adapter is called for an aborted turn, for any number of turns
\* (dispatchTool).
THEOREM AbortedTurnsDispatchNothingHolds == Spec => AbortedTurnsDispatchNothing
<1>1. TypeOK /\ [Next]_vars =>
        [\A t \in Turns : t \in aborted /\ handler[t].pc # "running"
           => handler'[t].pc # "running"]_vars
  BY AbortedStep
<1> QED
  BY <1>1, TypeCorrect, PTL DEF Spec, AbortedTurnsDispatchNothing
===============================================================================
