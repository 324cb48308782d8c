--------------------------- MODULE AgentPromiseProofs ---------------------------
(***************************************************************************)
(* Proofs about what the model of AgentTurn is told, that AgentTurn        *)
(* implements ToolCallPromise, and that no turn completes over an unknown  *)
(* effect.  They rest on IInv of AgentTurnProofs and on a second inductive *)
(* invariant, PInv: what a turn asked of the host and has not heard of yet *)
(* is in one place only - a request, a handler, an answer or the model     *)
(* itself - so that an answer which reaches the model is the last that     *)
(* anybody has to say about its call.                                      *)
(***************************************************************************)
EXTENDS AgentTurnProofs

(***************************************************************************)
(* The invariant.                                                          *)
(***************************************************************************)
HostWire == {toHost[i] : i \in 1 .. Len(toHost)}
ChildWire == {toChild[i] : i \in 1 .. Len(toChild)}
Request == {"commit", "execute"}

\* The four places where a turn's work can be.
Handled(t) == handler[t].pc # "idle"
Modelling(t) == child.turn = t /\ child.pc = "model"
Requested(t) == \E m \in HostWire : m.turn = t /\ m.kind \in Request
Addressed(t) == \E m \in ChildWire : m.turn = t /\ m.kind # "cancel"

Around(t) ==
  Handled(t) \/ Addressed(t) \/ child.turn = t \/ (\E m \in HostWire : m.turn = t)

\* Nobody knows of a later checkpoint than the store's.
RevisionsKnown ==
  /\ child.rev <= checkpoint.rev
  /\ \A t \in Turns : handler[t].rev <= checkpoint.rev
  /\ \A m \in HostWire \cup ChildWire : m.rev <= checkpoint.rev

\* No turn is around before it is posted.
NewestIsFresh ==
  \A t \in Turns : Around(t) => t <= turns /\ (stage # "idle" => t # turns)

\* The exit of a process and the start of a turn do not overlap.
OneActive ==
  /\ stage = "admitting" => active = NoTurn /\ exiting = NoTurn
  /\ stage = "prefetch" => active \in {NoTurn, turns}
  /\ exiting # NoTurn => active = NoTurn

HandledIsActive == \A t \in Turns : Handled(t) => t = active \/ t \in aborted

\* Once the active turn has committed its call, a commit that an aborted turn
\* left behind is refused for its revision.
CheckpointIsActive ==
  \E t \in Turns, c \in Calls : t = active /\ c = checkpoint.call /\ Involved(t, c)
LateCommitsFail ==
  \A u \in Turns \ {active} :
    CheckpointIsActive /\ handler[u].pc = "commit" => handler[u].rev < checkpoint.rev

Working == {"add", "policy", "start", "markUnknown", "markCancelled", "markDenied", "dispatch"}
ApprovedIsCurrent ==
  \A t \in Turns :
    t = active /\ handler[t].pc \in Working => checkpoint.call = handler[t].call

\* A turn's work is in one place.
UniqueRequests ==
  \A i, j \in 1 .. Len(toHost) :
    toHost[i].kind \in Request /\ toHost[j].kind \in Request /\ toHost[i].turn = toHost[j].turn
      => i = j
UniqueAnswers ==
  \A i, j \in 1 .. Len(toChild) :
    toChild[i].kind # "cancel" /\ toChild[j].kind # "cancel" /\ toChild[i].turn = toChild[j].turn
      => i = j
OnePlace ==
  \A t \in Turns :
    /\ Modelling(t) => ~Handled(t) /\ ~Requested(t) /\ ~Addressed(t)
    /\ Handled(t) => ~Requested(t) /\ ~Addressed(t)
    /\ Requested(t) => ~Addressed(t)

NotRun == {"none", "checkpointed", "cancelled"}

\* What a handler and a message say of a call agrees with the journal.
HandlersKnow ==
  \A t \in Turns :
    /\ handler[t].pc = "dispatch" /\ t \notin aborted => journal[handler[t].call] = "executing"
    /\ handler[t].pc \in {"markUnknown", "running", "record"}
         => journal[handler[t].call] \notin Unclaimed
    /\ handler[t].pc = "running" => dispatched[handler[t].call] = 1
    /\ handler[t].pc = "record"
         => /\ handler[t].out # "cancelled"
            /\ handler[t].out = "unknown" \/ dispatched[handler[t].call] = 1
    /\ handler[t].pc = "result" => journal[handler[t].call] = handler[t].out
MessagesTrue ==
  \A m \in ChildWire :
    /\ m.kind = "result" => journal[m.call] = m.val
    /\ m.kind = "reject" => m.call \in ObserveCalls \/ journal[m.call] \in NotRun
CancelledDidNotRun == \A c \in Calls : journal[c] = "cancelled" => dispatched[c] = 0

\* What the model has been told about a call is the last word.
AnswersAreLast ==
  \A c \in Calls : told[c] # "none" =>
    /\ asked[c] # NoTurn
    /\ \A t \in Turns : ~Involved(t, c)
    /\ told[c] = "rejected" => c \in ObserveCalls \/ journal[c] \in NotRun
    /\ told[c] # "rejected" => journal[c] = told[c]

Order == RevisionsKnown /\ NewestIsFresh /\ OneActive /\ HandledIsActive
Current == LateCommitsFail /\ ApprovedIsCurrent
Places == UniqueRequests /\ UniqueAnswers /\ OnePlace
Known == HandlersKnow /\ MessagesTrue /\ CancelledDidNotRun
PInv == IInv /\ Order /\ Current /\ Places /\ Known /\ AnswersAreLast

(***************************************************************************)
(* The messages in flight, as sets.                                        *)
(***************************************************************************)

\* Sending adds a message; a request joins no other of its turn.
LEMMA SendWire ==
  ASSUME toHost \in Seq(HostBound), NEW k, NEW u, NEW c, NEW r, NEW s, Send(k, u, c, r, s),
         [kind |-> k, turn |-> u, call |-> c, rev |-> r, status |-> s] \in HostBound
  PROVE  /\ HostWire' = HostWire
              \cup {[kind |-> k, turn |-> u, call |-> c, rev |-> r, status |-> s]}
         /\ \A t \in Turns : Requested(t)' => Requested(t) \/ (t = u /\ k \in Request)
         /\ UniqueRequests /\ (k \in Request => ~Requested(u)) => UniqueRequests'
<1> DEFINE m == [kind |-> k, turn |-> u, call |-> c, rev |-> r, status |-> s]
<1>1. m.kind = k /\ m.turn = u /\ m \in HostBound /\ toHost' = Append(toHost, m)
  BY DEF Send
<1> HIDE DEF m
<1>2. /\ Len(toHost') = Len(toHost) + 1 /\ Len(toHost) \in Nat
      /\ \A i \in 1 .. Len(toHost) : toHost'[i] = toHost[i]
      /\ toHost'[Len(toHost) + 1] = m
  BY <1>1
<1>3. HostWire' = HostWire \cup {m}
  <2>1. HostWire' = {toHost'[i] : i \in 1 .. Len(toHost')}
    BY DEF HostWire
  <2>2. ASSUME NEW x \in HostWire PROVE x \in HostWire'
    <3>1. PICK i \in 1 .. Len(toHost) : x = toHost[i]
      BY <2>2 DEF HostWire
    <3> QED
      BY <1>2, <2>1, <3>1
  <2>3. m \in HostWire'
    BY <1>2, <2>1
  <2>4. ASSUME NEW x \in HostWire' PROVE x \in HostWire \cup {m}
    <3>1. PICK i \in 1 .. Len(toHost') : x = toHost'[i]
      BY <2>1, <2>4
    <3>2. CASE i = Len(toHost) + 1
      BY <1>2, <3>1, <3>2
    <3>3. CASE i \in 1 .. Len(toHost)
      BY <1>2, <3>1, <3>3 DEF HostWire
    <3> QED
      BY <1>2, <3>2, <3>3
  <2> QED
    BY <2>2, <2>3, <2>4
<1>4. \A t \in Turns : Requested(t)' => Requested(t) \/ (t = u /\ k \in Request)
  BY <1>1, <1>3 DEF Requested
<1>5. ASSUME UniqueRequests, k \in Request => ~Requested(u)
      PROVE  UniqueRequests'
  <2>1. ASSUME NEW i \in 1 .. Len(toHost), k \in Request, toHost[i].kind \in Request
        PROVE  toHost[i].turn # u
    BY <1>5, <2>1 DEF Requested, HostWire
  <2>2. SUFFICES ASSUME NEW i \in 1 .. Len(toHost'), NEW j \in 1 .. Len(toHost'),
                        toHost'[i].kind \in Request, toHost'[j].kind \in Request,
                        toHost'[i].turn = toHost'[j].turn
                 PROVE  i = j
    BY DEF UniqueRequests
  <2>3. CASE i \in 1 .. Len(toHost) /\ j \in 1 .. Len(toHost)
    BY <1>2, <1>5, <2>2, <2>3 DEF UniqueRequests
  <2>4. CASE i = Len(toHost) + 1 /\ j \in 1 .. Len(toHost)
    BY <1>1, <1>2, <2>1, <2>2, <2>4
  <2>5. CASE j = Len(toHost) + 1 /\ i \in 1 .. Len(toHost)
    BY <1>1, <1>2, <2>1, <2>2, <2>5
  <2> QED
    BY <1>2, <2>3, <2>4, <2>5
<1> QED
  BY <1>3, <1>4, <1>5 DEF m

\* The host takes a message, which was the only request of its turn if it is one.
LEMMA HostTakesWire ==
  ASSUME toHost \in Seq(HostBound), NEW m, HostTakes(m)
  PROVE  /\ m \in HostWire /\ HostWire' \subseteq HostWire
         /\ \A t \in Turns : Requested(t)' => Requested(t)
         /\ UniqueRequests => UniqueRequests'
         /\ UniqueRequests /\ m.kind \in Request => ~Requested(m.turn)'
<1>1. /\ m = toHost[1] /\ Len(toHost) \in Nat \ {0} /\ Len(toHost') = Len(toHost) - 1
      /\ \A i \in 1 .. Len(toHost') : toHost'[i] = toHost[i + 1]
  BY DEF HostTakes
<1>2. HostWire' = {toHost'[i] : i \in 1 .. Len(toHost')}
  BY DEF HostWire
<1>3. ASSUME NEW x \in HostWire'
      PROVE  \E i \in 2 .. Len(toHost) : x = toHost[i]
  <2>1. PICK i \in 1 .. Len(toHost') : x = toHost'[i]
    BY <1>2, <1>3
  <2> QED
    BY <1>1, <2>1
<1>4. m \in HostWire /\ HostWire' \subseteq HostWire
  BY <1>1, <1>3 DEF HostWire
<1>5. \A t \in Turns : Requested(t)' => Requested(t)
  BY <1>4 DEF Requested
<1>6. ASSUME UniqueRequests PROVE UniqueRequests'
  <2> SUFFICES ASSUME NEW i \in 1 .. Len(toHost'), NEW j \in 1 .. Len(toHost'),
                      toHost'[i].kind \in Request, toHost'[j].kind \in Request,
                      toHost'[i].turn = toHost'[j].turn
               PROVE  i = j
    BY DEF UniqueRequests
  <2>1. /\ i + 1 \in 1 .. Len(toHost) /\ j + 1 \in 1 .. Len(toHost)
        /\ toHost'[i] = toHost[i + 1] /\ toHost'[j] = toHost[j + 1]
    BY <1>1
  <2>2. i + 1 = j + 1
    BY <1>6, <2>1 DEF UniqueRequests
  <2> QED
    BY <2>2
<1>7. ASSUME UniqueRequests, m.kind \in Request, Requested(m.turn)' PROVE FALSE
  <2>1. PICK x \in HostWire' : x.turn = m.turn /\ x.kind \in Request
    BY <1>7 DEF Requested
  <2>2. PICK i \in 2 .. Len(toHost) : x = toHost[i]
    BY <1>3
  <2> QED
    BY <1>1, <1>7, <2>1, <2>2 DEF UniqueRequests
<1> QED
  BY <1>4, <1>5, <1>6, <1>7

\* Posting adds a message, or loses it.
LEMMA PostWire ==
  ASSUME toChild \in Seq(ChildBound), NEW m \in ChildBound,
         toChild' = Append(toChild, m) \/ toChild' = toChild
  PROVE  /\ ChildWire' \subseteq ChildWire \cup {m}
         /\ \A t \in Turns : Addressed(t)' => Addressed(t) \/ (t = m.turn /\ m.kind # "cancel")
         /\ UniqueAnswers /\ (m.kind # "cancel" => ~Addressed(m.turn)) => UniqueAnswers'
<1>0. CASE toChild' = toChild
  BY <1>0 DEF ChildWire, Addressed, UniqueAnswers
<1>a. CASE toChild' = Append(toChild, m)
  <2>2. /\ Len(toChild') = Len(toChild) + 1 /\ Len(toChild) \in Nat
        /\ \A i \in 1 .. Len(toChild) : toChild'[i] = toChild[i]
        /\ toChild'[Len(toChild) + 1] = m
    BY <1>a
  <2>3. ChildWire' \subseteq ChildWire \cup {m}
    <3>1. ChildWire' = {toChild'[i] : i \in 1 .. Len(toChild')}
      BY DEF ChildWire
    <3>2. ASSUME NEW x \in ChildWire' PROVE x \in ChildWire \cup {m}
      <4>1. PICK i \in 1 .. Len(toChild') : x = toChild'[i]
        BY <3>1, <3>2
      <4>2. CASE i = Len(toChild) + 1
        BY <2>2, <4>1, <4>2
      <4>3. CASE i \in 1 .. Len(toChild)
        BY <2>2, <4>1, <4>3 DEF ChildWire
      <4> QED
        BY <2>2, <4>2, <4>3
    <3> QED
      BY <3>2
  <2>4. \A t \in Turns : Addressed(t)' => Addressed(t) \/ (t = m.turn /\ m.kind # "cancel")
    BY <2>3 DEF Addressed
  <2>5. ASSUME UniqueAnswers, m.kind # "cancel" => ~Addressed(m.turn)
        PROVE  UniqueAnswers'
    <3>1. ASSUME NEW i \in 1 .. Len(toChild), m.kind # "cancel", toChild[i].kind # "cancel"
          PROVE  toChild[i].turn # m.turn
      BY <2>5, <3>1 DEF Addressed, ChildWire
    <3>2. SUFFICES ASSUME NEW i \in 1 .. Len(toChild'), NEW j \in 1 .. Len(toChild'),
                          toChild'[i].kind # "cancel", toChild'[j].kind # "cancel",
                          toChild'[i].turn = toChild'[j].turn
                   PROVE  i = j
      BY DEF UniqueAnswers
    <3>3. CASE i \in 1 .. Len(toChild) /\ j \in 1 .. Len(toChild)
      BY <2>2, <2>5, <3>2, <3>3 DEF UniqueAnswers
    <3>4. CASE i = Len(toChild) + 1 /\ j \in 1 .. Len(toChild)
      BY <2>2, <3>1, <3>2, <3>4
    <3>5. CASE j = Len(toChild) + 1 /\ i \in 1 .. Len(toChild)
      BY <2>2, <3>1, <3>2, <3>5
    <3> QED
      BY <2>2, <3>3, <3>4, <3>5
  <2> QED
    BY <2>3, <2>4, <2>5
<1> QED
  BY <1>0, <1>a

\* The utility process takes a message, the only one of its turn that is not a
\* cancellation.
LEMMA ChildTakesWire ==
  ASSUME toChild \in Seq(ChildBound), NEW m, ChildTakes(m)
  PROVE  /\ m \in ChildWire /\ ChildWire' \subseteq ChildWire
         /\ \A t \in Turns : Addressed(t)' => Addressed(t)
         /\ UniqueAnswers => UniqueAnswers'
         /\ UniqueAnswers /\ m.kind # "cancel" => ~Addressed(m.turn)'
<1>1. /\ m = toChild[1] /\ Len(toChild) \in Nat \ {0} /\ Len(toChild') = Len(toChild) - 1
      /\ \A i \in 1 .. Len(toChild') : toChild'[i] = toChild[i + 1]
  BY DEF ChildTakes
<1>2. ChildWire' = {toChild'[i] : i \in 1 .. Len(toChild')}
  BY DEF ChildWire
<1>3. ASSUME NEW x \in ChildWire'
      PROVE  \E i \in 2 .. Len(toChild) : x = toChild[i]
  <2>1. PICK i \in 1 .. Len(toChild') : x = toChild'[i]
    BY <1>2, <1>3
  <2> QED
    BY <1>1, <2>1
<1>4. m \in ChildWire /\ ChildWire' \subseteq ChildWire
  BY <1>1, <1>3 DEF ChildWire
<1>5. \A t \in Turns : Addressed(t)' => Addressed(t)
  BY <1>4 DEF Addressed
<1>6. ASSUME UniqueAnswers PROVE UniqueAnswers'
  <2> SUFFICES ASSUME NEW i \in 1 .. Len(toChild'), NEW j \in 1 .. Len(toChild'),
                      toChild'[i].kind # "cancel", toChild'[j].kind # "cancel",
                      toChild'[i].turn = toChild'[j].turn
               PROVE  i = j
    BY DEF UniqueAnswers
  <2>1. /\ i + 1 \in 1 .. Len(toChild) /\ j + 1 \in 1 .. Len(toChild)
        /\ toChild'[i] = toChild[i + 1] /\ toChild'[j] = toChild[j + 1]
    BY <1>1
  <2>2. i + 1 = j + 1
    BY <1>6, <2>1 DEF UniqueAnswers
  <2> QED
    BY <2>2
<1>7. ASSUME UniqueAnswers, m.kind # "cancel", Addressed(m.turn)' PROVE FALSE
  <2>1. PICK x \in ChildWire' : x.turn = m.turn /\ x.kind # "cancel"
    BY <1>7 DEF Addressed
  <2>2. PICK i \in 2 .. Len(toChild) : x = toChild[i]
    BY <1>3
  <2> QED
    BY <1>1, <1>7, <2>1, <2>2 DEF UniqueAnswers
<1> QED
  BY <1>4, <1>5, <1>6, <1>7

\* A message that concerns a turn and call is one in flight.
LEMMA WireInvolves ==
  /\ \A t, c : Sent(t, c) <=> \E m \in HostWire : m.turn = t /\ m.call = c
  /\ \A t, c : Posted(t, c) <=> \E m \in ChildWire : m.turn = t /\ m.call = c
  BY DEF Sent, Posted, HostWire, ChildWire

(***************************************************************************)
(* What each group of steps does to the places where work can be.          *)
(***************************************************************************)

\* Starting, refusing and stopping a turn leave the child and the handlers alone;
\* what is posted is the start of the newest turn or a cancellation.
LEMMA StartShape ==
  ASSUME TypeOK, BeginStart \/ AdmitTurn \/ RefuseTurn \/ PostStart \/ Stop
  PROVE  /\ UNCHANGED <<checkpoint, journal, handler, asked, dispatched, told, child, toHost>>
         /\ aborted \subseteq aborted'
         /\ \/ toChild' = toChild
            \/ \E m \in ChildBound :
                 /\ m.rev = 0 /\ m.call = NoCall /\ m.kind \in {"start", "cancel"}
                 /\ m.kind = "start" => m.turn = turns /\ stage = "prefetch" /\ stage' = "idle"
                 /\ toChild' = Append(toChild, m)
<1>1. /\ UNCHANGED <<checkpoint, journal, handler, asked, dispatched, told, child, toHost>>
      /\ aborted \subseteq aborted'
  BY DEF BeginStart, AdmitTurn, RefuseTurn, PostStart, Stop, UserStop, durable, procVars,
     history
<1>2. active # NoTurn => active \in Turns
  BY DEF TypeOK
<1>3. ASSUME NEW t \in Turns, NEW k \in {"start", "cancel"}
      PROVE  [kind |-> k, turn |-> t, call |-> NoCall, rev |-> 0, val |-> "none"] \in ChildBound
  BY DEF ChildBound
<1>4. CASE PostStart /\ toChild' # toChild
  <2> DEFINE m == [kind |-> "start", turn |-> turns, call |-> NoCall, rev |-> 0, val |-> "none"]
  <2>1. m \in ChildBound
    BY <1>3, <1>4 DEF PostStart, TypeOK
  <2>2. toChild' = Append(toChild, m)
    BY <1>4 DEF PostStart, Post
  <2>3. m.rev = 0 /\ m.call = NoCall /\ m.kind = "start" /\ m.turn = turns
    OBVIOUS
  <2>4. stage = "prefetch" /\ stage' = "idle"
    BY <1>4 DEF PostStart
  <2> HIDE DEF m
  <2> QED
    BY <1>1, <2>1, <2>2, <2>3, <2>4
<1>5. CASE Stop /\ toChild' # toChild
  <2> DEFINE m == [kind |-> "cancel", turn |-> active, call |-> NoCall, rev |-> 0, val |-> "none"]
  <2>1. m \in ChildBound /\ toChild' = Append(toChild, m)
    BY <1>2, <1>3, <1>5 DEF Stop, UserStop, Post
  <2>2. m.rev = 0 /\ m.call = NoCall /\ m.kind = "cancel"
    OBVIOUS
  <2> HIDE DEF m
  <2> QED
    BY <1>1, <2>1, <2>2
<1>7. ~Stop /\ ~PostStart => toChild' = toChild
  BY DEF BeginStart, AdmitTurn, RefuseTurn, procVars
<1> QED
  BY <1>1, <1>4, <1>5, <1>7

\* The turn that the utility process runs, when it runs one.
LEMMA ChildFacts ==
  ASSUME TypeOK
  PROVE  /\ child.rev \in Nat
         /\ child.pc = "none" => child = NoChild
         /\ child = NoChild => child.turn = NoTurn /\ child.call = NoCall /\ child.rev = 0
                                 /\ child.pc = "none"
         /\ child.pc # "none" =>
              /\ child \in [turn : Turns, pc : {"model", "committing", "executing"},
                            call : CallOrNone, rev : Nat, goes : 0 .. MaxContinuations]
              /\ child.turn \in Turns
  BY DEF TypeOK, ChildState, NoChild, CallOrNone

\* A request of the model moves its turn's work from the model to a request; the
\* end of a turn leaves only its terminal message.
LEMMA RequestShape ==
  ASSUME TypeOK, FinishRun \/ ModelFails \/ RequestTimesOut \/ (\E c \in Calls : RequestTool(c))
  PROVE  /\ UNCHANGED <<checkpoint, journal, handler, dispatched, told, toChild, turns, stage,
                        active, aborted, exiting>>
         /\ child.turn \in Turns
         /\ \E x \in HostBound :
              /\ x.turn = child.turn /\ x.rev <= child.rev
              /\ HostWire' = HostWire \cup {x}
              /\ \/ /\ child' = NoChild /\ x.kind = "terminal" /\ x.call = NoCall
                    /\ (UniqueRequests => UniqueRequests')
                 \/ /\ child.pc = "model" /\ child'.pc = "committing"
                    /\ child'.turn = child.turn /\ child'.rev = child.rev /\ child'.call = x.call
                    /\ x.kind = "commit"
                    /\ (UniqueRequests /\ ~Requested(child.turn) => UniqueRequests')
<1>1. /\ UNCHANGED <<checkpoint, journal, handler, dispatched, told, toChild, turns, stage,
                     active, aborted, exiting>>
      /\ child.pc # "none"
  BY DEF RequestTool, FinishRun, ModelFails, RequestTimesOut, durable, hostVars, history
<1>2. /\ child \in [turn : Turns, pc : {"model", "committing", "executing"},
                    call : CallOrNone, rev : Nat, goes : 0 .. MaxContinuations]
      /\ child.turn \in Turns
  BY <1>1, ChildFacts
<1>3. ASSUME NEW status \in Outcomes, EndTurn(status)
      PROVE  \E x \in HostBound :
               /\ x.turn = child.turn /\ x.rev <= child.rev /\ HostWire' = HostWire \cup {x}
               /\ child' = NoChild /\ x.kind = "terminal" /\ x.call = NoCall
               /\ (UniqueRequests => UniqueRequests')
  <2> DEFINE x == [kind |-> "terminal", turn |-> child.turn, call |-> NoCall, rev |-> 0,
                   status |-> status]
  <2>1. x \in HostBound
    BY <1>2 DEF HostBound
  <2>2. HostWire' = HostWire \cup {x} /\ (UniqueRequests => UniqueRequests')
    BY <1>3, <2>1, SendWire, SMTT(30) DEF EndTurn, TypeOK, Request
  <2>3. x.turn = child.turn /\ x.rev <= child.rev /\ x.kind = "terminal" /\ x.call = NoCall
    BY <1>2
  <2> HIDE DEF x
  <2> QED
    BY <1>3, <2>1, <2>2, <2>3 DEF EndTurn
<1>4. ASSUME NEW c \in CallOrNone, child.pc = "model",
             child' = [child EXCEPT !.pc = "committing", !.call = c],
             Send("commit", child.turn, c, child.rev, "none")
      PROVE  \E x \in HostBound :
               /\ x.turn = child.turn /\ x.rev <= child.rev /\ HostWire' = HostWire \cup {x}
               /\ child.pc = "model" /\ child'.pc = "committing"
               /\ child'.turn = child.turn /\ child'.rev = child.rev /\ child'.call = x.call
               /\ x.kind = "commit"
               /\ (UniqueRequests /\ ~Requested(child.turn) => UniqueRequests')
  <2> DEFINE x == [kind |-> "commit", turn |-> child.turn, call |-> c, rev |-> child.rev,
                   status |-> "none"]
  <2>1. x \in HostBound
    BY <1>2 DEF HostBound
  <2>2. /\ HostWire' = HostWire \cup {x}
        /\ UniqueRequests /\ ~Requested(child.turn) => UniqueRequests'
    BY <1>4, <2>1, SendWire DEF TypeOK
  <2>3. x.turn = child.turn /\ x.rev <= child.rev /\ x.kind = "commit" /\ x.call = c
    BY <1>2
  <2>4. /\ child'.pc = "committing" /\ child'.turn = child.turn /\ child'.rev = child.rev
        /\ child'.call = c
    BY <1>2, <1>4
  <2> HIDE DEF x
  <2> QED
    BY <1>4, <2>1, <2>2, <2>3, <2>4
<1>5. CASE ModelFails \/ RequestTimesOut
  BY <1>1, <1>2, <1>3, <1>5 DEF ModelFails, RequestTimesOut, Outcomes
<1>6. CASE FinishRun \/ (\E c \in Calls : RequestTool(c))
  <2>1. PICK c \in CallOrNone : /\ child.pc = "model"
                                /\ child' = [child EXCEPT !.pc = "committing", !.call = c]
                                /\ Send("commit", child.turn, c, child.rev, "none")
    BY <1>6 DEF FinishRun, RequestTool, CallOrNone
  <2> QED
    BY <1>1, <1>2, <1>4, <2>1
<1> QED
  BY <1>5, <1>6

\* The utility process takes a message: it ends its turn or none, goes on with
\* the model, or asks the host for the next step of the message's turn.
LEMMA ReceiveShape ==
  ASSUME TypeOK, ChildReceive
  PROVE  /\ UNCHANGED <<checkpoint, journal, handler, dispatched, asked, turns, stage, active,
                        aborted, exiting>>
         /\ \E m \in ChildWire : \E x \in HostBound :
              /\ ChildTakes(m) /\ HostWire' \subseteq HostWire \cup {x}
              /\ \/ /\ child' = child \/ child' = NoChild
                    /\ x.kind \in {"fatal", "terminal"} /\ x.turn \in {NoTurn, child.turn}
                    /\ x.rev = 0 /\ x.call = NoCall
                    /\ told' = told
                    /\ (UniqueRequests => UniqueRequests')
                 \/ /\ m.kind # "cancel"
                    /\ child.pc = "none" \/ child.turn = m.turn
                    /\ child'.pc = "model" /\ child'.turn = m.turn /\ child'.call = NoCall
                    /\ child'.rev \in {m.rev, child.rev}
                    /\ toHost' = toHost
                    /\ \/ told' = told
                       \/ m.kind = "reject" /\ told' = [told EXCEPT ![m.call] = "rejected"]
                       \/ /\ m.kind = "result" /\ told' = [told EXCEPT ![m.call] = m.val]
                          /\ m.val \in {"completed", "failed", "observe"}
                 \/ /\ m.kind # "cancel"
                    /\ child.pc = "none" \/ child.turn = m.turn
                    /\ child'.pc \in {"committing", "executing"} /\ child'.turn = m.turn
                    /\ child'.call = m.call /\ child'.rev = m.rev
                    /\ x.kind \in Request /\ x.turn = m.turn /\ x.call = m.call
                    /\ x.rev \in {0, m.rev}
                    /\ told' = told
                    /\ (UniqueRequests /\ ~Requested(m.turn) => UniqueRequests')
<1>1. PICK m : /\ ChildTakes(m)
               /\ RunTurn(m) \/ CancelTurn(m) \/ CommitConfirmed(m) \/ ToolAnswered(m)
                    \/ UnexpectedResponse(m)
  BY DEF ChildReceive
<1>2. m \in ChildBound /\ m \in ChildWire
  BY <1>1, ChildTakesType, ChildTakesWire DEF TypeOK
<1>3. /\ m.turn \in Turns /\ m.call \in CallOrNone /\ m.rev \in Nat
      /\ m.kind \in {"replay", "result", "reject"} => m.call \in Calls
  BY <1>2 DEF ChildBound, CallOrNone
<1>u. UNCHANGED <<checkpoint, journal, handler, dispatched, asked, turns, stage, active,
                  aborted, exiting>>
  BY DEF ChildReceive, durable, hostVars
<1> DEFINE Stops(x) ==
             /\ child' = child \/ child' = NoChild
             /\ x.kind \in {"fatal", "terminal"} /\ x.turn \in {NoTurn, child.turn}
             /\ x.rev = 0 /\ x.call = NoCall
             /\ told' = told
             /\ (UniqueRequests => UniqueRequests')
           Thinks ==
             /\ m.kind # "cancel"
             /\ child.pc = "none" \/ child.turn = m.turn
             /\ child'.pc = "model" /\ child'.turn = m.turn /\ child'.call = NoCall
             /\ child'.rev \in {m.rev, child.rev}
             /\ toHost' = toHost
             /\ \/ told' = told
                \/ m.kind = "reject" /\ told' = [told EXCEPT ![m.call] = "rejected"]
                \/ /\ m.kind = "result" /\ told' = [told EXCEPT ![m.call] = m.val]
                   /\ m.val \in {"completed", "failed", "observe"}
           Asks(x) ==
             /\ m.kind # "cancel"
             /\ child.pc = "none" \/ child.turn = m.turn
             /\ child'.pc \in {"committing", "executing"} /\ child'.turn = m.turn
             /\ child'.call = m.call /\ child'.rev = m.rev
             /\ x.kind \in Request /\ x.turn = m.turn /\ x.call = m.call
             /\ x.rev \in {0, m.rev}
             /\ told' = told
             /\ (UniqueRequests /\ ~Requested(m.turn) => UniqueRequests')
<1> SUFFICES \E x \in HostBound :
               HostWire' \subseteq HostWire \cup {x} /\ (Stops(x) \/ Thinks \/ Asks(x))
  BY <1>1, <1>2, <1>u
<1>f. [kind |-> "fatal", turn |-> NoTurn, call |-> NoCall, rev |-> 0, status |-> "none"]
        \in HostBound
  BY DEF HostBound
<1>4. ASSUME NEW k \in {"fatal", "terminal"}, NEW t \in {NoTurn, child.turn}, NEW s,
             [kind |-> k, turn |-> t, call |-> NoCall, rev |-> 0, status |-> s] \in HostBound,
             Send(k, t, NoCall, 0, s), child' = child \/ child' = NoChild, told' = told
      PROVE  \E x \in HostBound : HostWire' \subseteq HostWire \cup {x} /\ Stops(x)
  <2> DEFINE x == [kind |-> k, turn |-> t, call |-> NoCall, rev |-> 0, status |-> s]
  <2>1. HostWire' = HostWire \cup {x} /\ (UniqueRequests => UniqueRequests')
    BY <1>4, SendWire, SMTT(30) DEF TypeOK, Request
  <2>2. x.kind = k /\ x.turn = t /\ x.rev = 0 /\ x.call = NoCall /\ x \in HostBound
    BY <1>4
  <2> HIDE DEF x
  <2> QED
    BY <1>4, <2>1, <2>2
<1>5. ASSUME Fatal, child' = child, told' = told
      PROVE  \E x \in HostBound : HostWire' \subseteq HostWire \cup {x} /\ Stops(x)
  BY <1>4, <1>5, <1>f DEF Fatal
<1>6. ASSUME NEW s \in Outcomes, child.pc # "none", EndTurn(s), told' = told
      PROVE  \E x \in HostBound : HostWire' \subseteq HostWire \cup {x} /\ Stops(x)
  <2>1. [kind |-> "terminal", turn |-> child.turn, call |-> NoCall, rev |-> 0, status |-> s]
          \in HostBound
    BY <1>6, ChildFacts DEF HostBound
  <2> QED
    BY <1>4, <1>6, <2>1 DEF EndTurn
<1>7. ASSUME toHost' = toHost, child' = child, told' = told
      PROVE  \E x \in HostBound : HostWire' \subseteq HostWire \cup {x} /\ Stops(x)
  <2> DEFINE x == [kind |-> "fatal", turn |-> NoTurn, call |-> NoCall, rev |-> 0,
                   status |-> "none"]
  <2>1. x.kind = "fatal" /\ x.turn = NoTurn /\ x.rev = 0 /\ x.call = NoCall /\ x \in HostBound
    BY <1>f
  <2>2. HostWire' = HostWire /\ (UniqueRequests => UniqueRequests')
    BY <1>7 DEF HostWire, UniqueRequests
  <2> HIDE DEF x
  <2> QED
    BY <1>7, <2>1, <2>2
<1>8. ASSUME NEW k \in Request, NEW r \in {0, m.rev},
             [kind |-> k, turn |-> m.turn, call |-> m.call, rev |-> r, status |-> "none"] \in HostBound,
             Send(k, m.turn, m.call, r, "none"),
             m.kind # "cancel", child.pc = "none" \/ child.turn = m.turn,
             child'.pc \in {"committing", "executing"}, child'.turn = m.turn,
             child'.call = m.call, child'.rev = m.rev, told' = told
      PROVE  \E x \in HostBound : HostWire' \subseteq HostWire \cup {x} /\ Asks(x)
  <2> DEFINE x == [kind |-> k, turn |-> m.turn, call |-> m.call, rev |-> r, status |-> "none"]
  <2>1. HostWire' = HostWire \cup {x} /\ (UniqueRequests /\ ~Requested(m.turn) => UniqueRequests')
    BY <1>8, SendWire DEF TypeOK
  <2>2. x.kind = k /\ x.turn = m.turn /\ x.rev = r /\ x.call = m.call /\ x \in HostBound
    BY <1>8
  <2> HIDE DEF x
  <2> QED
    BY <1>8, <2>1, <2>2
<1>9. ASSUME Thinks
      PROVE  \E x \in HostBound : HostWire' \subseteq HostWire \cup {x} /\ Thinks
  BY <1>9, <1>f DEF HostWire
<1>e. ASSUME NEW c \in Calls
      PROVE  [kind |-> "execute", turn |-> m.turn, call |-> c, rev |-> 0, status |-> "none"]
               \in HostBound
  BY <1>3 DEF HostBound
<1>10. CASE RunTurn(m)
  <2>1. CASE child.pc # "none"
    BY <2>1, <1>5, <1>10 DEF RunTurn
  <2>2. CASE child.pc = "none" /\ m.kind = "replay"
    <3>1. child' = [turn |-> m.turn, pc |-> "executing", call |-> m.call, rev |-> m.rev, goes |-> 0]
      BY <2>2, <1>10 DEF RunTurn, NoChild
    <3>2. /\ child'.pc = "executing" /\ child'.turn = m.turn /\ child'.call = m.call
          /\ child'.rev = m.rev
      BY <3>1
    <3>3. Send("execute", m.turn, m.call, 0, "none") /\ told' = told
      BY <2>2, <1>10 DEF RunTurn
    <3>4. [kind |-> "execute", turn |-> m.turn, call |-> m.call, rev |-> 0, status |-> "none"]
            \in HostBound
      BY <2>2, <1>3, <1>e
    <3>5. \E x \in HostBound : HostWire' \subseteq HostWire \cup {x} /\ Asks(x)
      BY <2>2, <3>2, <3>3, <3>4, <1>8 DEF Request
    <3> QED
      BY <3>5
  <2>3. CASE child.pc = "none" /\ m.kind = "finish"
    <3>1. child' = [turn |-> m.turn, pc |-> "committing", call |-> NoCall, rev |-> m.rev, goes |-> 0]
      BY <2>3, <1>10 DEF RunTurn, NoChild
    <3>n. m.call = NoCall
      BY <2>3, <1>2 DEF ChildBound
    <3>2. /\ child'.pc = "committing" /\ child'.turn = m.turn /\ child'.call = m.call
          /\ child'.rev = m.rev
      BY <3>1, <3>n
    <3>3. Send("commit", m.turn, m.call, m.rev, "none") /\ told' = told
      BY <2>3, <3>n, <1>10 DEF RunTurn
    <3>4. [kind |-> "commit", turn |-> m.turn, call |-> m.call, rev |-> m.rev, status |-> "none"]
            \in HostBound
      BY <1>3 DEF HostBound
    <3>5. \E x \in HostBound : HostWire' \subseteq HostWire \cup {x} /\ Asks(x)
      BY <2>3, <3>2, <3>3, <3>4, <1>8 DEF Request
    <3> QED
      BY <3>5
  <2>4. CASE child.pc = "none" /\ m.kind \in {"start", "reject"}
    <3>1. child' = [turn |-> m.turn, pc |-> "model", call |-> NoCall, rev |-> m.rev, goes |-> 0]
      BY <2>4, <1>10 DEF RunTurn, NoChild
    <3>2. /\ child'.pc = "model" /\ child'.turn = m.turn /\ child'.call = NoCall
          /\ child'.rev = m.rev
      BY <3>1
    <3>3. toHost' = toHost
      BY <2>4, <1>10 DEF RunTurn
    <3>4. told' = told \/ (m.kind = "reject" /\ told' = [told EXCEPT ![m.call] = "rejected"])
      <4>1. told' = [c \in Calls |-> IF m.kind = "reject" /\ c = m.call THEN "rejected" ELSE told[c]]
        BY <2>4, <1>10 DEF RunTurn
      <4>2. told \in [Calls -> Told]
        BY DEF TypeOK
      <4> QED
        BY <4>1, <4>2
    <3> QED
      BY <2>4, <3>2, <3>3, <3>4, <1>9
  <2> QED
    BY <2>1, <2>2, <2>3, <2>4, <1>10 DEF RunTurn
<1>11. CASE CancelTurn(m)
  <2>1. \/ child' = child /\ toHost' = toHost /\ told' = told
        \/ child.pc # "none" /\ EndTurn("cancelled") /\ told' = told
    BY <1>11 DEF CancelTurn
  <2> QED
    BY <2>1, <1>6, <1>7 DEF Outcomes
<1>12. CASE CommitConfirmed(m)
  <2>1. /\ m.kind = "committed" /\ child.turn = m.turn /\ child.call = m.call
        /\ child.pc = "committing" /\ told' = told
        /\ child \in [turn : Turns, pc : {"model", "committing", "executing"},
                      call : CallOrNone, rev : Nat, goes : 0 .. MaxContinuations]
    BY <1>12, ChildFacts DEF CommitConfirmed, Expected
  <2>2. CASE m.call # NoCall /\ child' = [child EXCEPT !.pc = "executing", !.rev = m.rev]
               /\ Send("execute", m.turn, m.call, 0, "none")
    <3>1. m.call \in Calls
      BY <2>2, <1>3 DEF CallOrNone
    <3>2. /\ child'.pc = "executing" /\ child'.turn = m.turn /\ child'.call = m.call
          /\ child'.rev = m.rev
      BY <2>1, <2>2
    <3>3. [kind |-> "execute", turn |-> m.turn, call |-> m.call, rev |-> 0, status |-> "none"]
            \in HostBound
      BY <3>1, <1>e
    <3>4. Send("execute", m.turn, m.call, 0, "none")
      BY <2>2
    <3>5. \E x \in HostBound : HostWire' \subseteq HostWire \cup {x} /\ Asks(x)
      BY <2>1, <3>2, <3>3, <3>4, <1>8 DEF Request
    <3> QED
      BY <3>5
  <2>3. CASE EndTurn("completed") \/ EndTurn("failed")
    BY <2>1, <2>3, <1>6 DEF Outcomes
  <2>4. CASE /\ m.call = NoCall /\ toHost' = toHost
             /\ child' = [child EXCEPT !.pc = "model", !.rev = m.rev, !.goes = @ + 1]
    <3>1. /\ child'.pc = "model" /\ child'.turn = m.turn /\ child'.call = NoCall
          /\ child'.rev = m.rev
      BY <2>1, <2>4
    <3> QED
      BY <2>1, <2>4, <3>1, <1>9
  <2> QED
    BY <2>2, <2>3, <2>4, <1>12 DEF CommitConfirmed
<1>13. CASE ToolAnswered(m)
  <2>1. /\ m.kind = "result" /\ child.turn = m.turn /\ child.call = m.call
        /\ child.pc = "executing"
        /\ child \in [turn : Turns, pc : {"model", "committing", "executing"},
                      call : CallOrNone, rev : Nat, goes : 0 .. MaxContinuations]
    BY <1>13, ChildFacts DEF ToolAnswered, Expected
  <2>2. CASE /\ m.val \in {"completed", "failed", "observe"}
             /\ told' = [told EXCEPT ![m.call] = m.val]
             /\ child' = [child EXCEPT !.pc = "model", !.call = NoCall]
             /\ toHost' = toHost
    <3>1. /\ child'.pc = "model" /\ child'.turn = m.turn /\ child'.call = NoCall
          /\ child'.rev = child.rev
      BY <2>1, <2>2
    <3> QED
      BY <2>1, <2>2, <3>1, <1>9
  <2>3. CASE (EndTurn("unknown") \/ EndTurn("failed")) /\ told' = told
    BY <2>1, <2>3, <1>6 DEF Outcomes
  <2> QED
    BY <2>2, <2>3, <1>13 DEF ToolAnswered
<1>14. CASE UnexpectedResponse(m)
  BY <1>5, <1>14 DEF UnexpectedResponse
<1> QED
  BY <1>1, <1>10, <1>11, <1>12, <1>13, <1>14

\* The host takes a message: work goes from a request of the active turn to its
\* handler, or the active turn ends.
LEMMA HostShape ==
  ASSUME TypeOK, HostReceive
  PROVE  /\ UNCHANGED <<checkpoint, journal, dispatched, told, asked, turns, stage, exiting,
                        child, toChild>>
         /\ \E m \in HostWire :
              /\ HostTakes(m)
              /\ \/ /\ UNCHANGED <<active, aborted, handler>>
                 \/ /\ m.kind = "terminal" /\ m.turn = active /\ active \in Turns
                    /\ aborted' = aborted \cup {active} /\ active' = NoTurn
                    /\ handler' = handler
                 \/ /\ m.kind \in Request /\ m.turn = active /\ active \in Turns
                    /\ UNCHANGED <<active, aborted>>
                    /\ \A t \in Turns : t # active => handler'[t] = handler[t]
                    /\ handler'[active].pc \in {"commit", "read"}
                    /\ handler'[active].call = m.call /\ handler'[active].rev <= m.rev
<1>1. PICK m : HostTakes(m) /\ Receive(m)
  BY DEF HostReceive
<1>2. m \in HostBound /\ m \in HostWire
  BY <1>1, HostTakesType, HostTakesWire DEF TypeOK
<1>3. /\ m.kind \in {"commit", "execute", "terminal"} => m.turn \in Turns
      /\ m.kind = "execute" => m.call \in Calls
      /\ m.call \in CallOrNone /\ m.rev \in Nat
  BY <1>2 DEF HostBound, CallOrNone
<1>u. UNCHANGED <<checkpoint, journal, dispatched, told, asked, turns, stage, exiting,
                  child, toChild>>
  BY DEF HostReceive, durable, history
<1>4. CASE UNCHANGED <<active, aborted, handler>>
  BY <1>1, <1>2, <1>u, <1>4
<1>5. CASE m.kind = "terminal" /\ m.turn = active
  BY <1>1, <1>2, <1>3, <1>u, <1>5 DEF Receive
<1>6. ASSUME NEW pc \in {"commit", "read"}, NEW r \in {0, m.rev}, m.turn \in Turns,
             Handle(m.turn, pc, m.call, r)
      PROVE  /\ \A t \in Turns : t # m.turn => handler'[t] = handler[t]
             /\ handler'[m.turn].pc = pc
             /\ handler'[m.turn].call = m.call /\ handler'[m.turn].rev <= m.rev
  <2>1. handler'[m.turn] = [pc |-> pc, call |-> m.call, rev |-> r, out |-> "none"]
    BY <1>6 DEF Handle, TypeOK
  <2> QED
    BY <1>3, <1>6, <2>1 DEF Handle, TypeOK
<1>7. CASE m.kind \in Request /\ m.turn = active /\ UNCHANGED <<active, aborted>>
             /\ (Handle(m.turn, "commit", m.call, m.rev) \/ Handle(m.turn, "read", m.call, 0))
  BY <1>1, <1>2, <1>3, <1>u, <1>6, <1>7 DEF Request
<1> QED
  BY <1>1, <1>4, <1>5, <1>7 DEF Receive, Request

\* A handler's step concerns its turn, moves the checkpoint on or leaves it, and
\* hands its work over when it answers.
LEMMA HandlerShape ==
  ASSUME TypeOK, NEW t \in Turns, HandlerStep(t) \/ AdapterReturns(t) \/ StoreFails(t)
  PROVE  /\ UNCHANGED <<child, toHost, asked, told, turns, stage, active, aborted, exiting>>
         /\ Handled(t)
         /\ \A u \in Turns : u # t => handler'[u] = handler[u]
         /\ \/ /\ handler'[t] = Idle /\ UNCHANGED <<checkpoint, journal, dispatched>>
               /\ \/ toChild' = toChild
                  \/ \E m \in ChildBound :
                       /\ toChild' = Append(toChild, m)
                       /\ m.kind = handler[t].pc /\ m.kind \in {"committed", "result"}
                       /\ m.turn = t /\ m.call = handler[t].call
                       /\ m.rev = handler[t].rev /\ m.val = handler[t].out
            \/ /\ handler[t].pc = "commit" /\ handler'[t].pc = "committed"
               /\ handler[t].rev = checkpoint.rev
               /\ checkpoint' = [rev |-> checkpoint.rev + 1, call |-> handler[t].call]
               /\ handler'[t].call = handler[t].call /\ handler'[t].rev = checkpoint.rev + 1
               /\ UNCHANGED <<toChild, journal, dispatched>>
            \/ /\ handler'[t].pc \in HandlerPc \ {"idle", "commit", "committed", "read"}
               /\ handler[t].pc # "commit"
               /\ handler'[t].call = handler[t].call /\ handler'[t].rev = handler[t].rev
               /\ handler[t].call \in Calls
               /\ UNCHANGED <<toChild, checkpoint>>
               /\ handler[t].pc = "read" => checkpoint.call = handler[t].call
               /\ handler'[t].pc \in Working => handler[t].pc \in Working \cup {"read"}
<1> DEFINE h == handler[t]
<1>h. h \in HandlerState /\ handler \in [Turns -> HandlerState]
  BY DEF TypeOK
<1>f. /\ h \in [pc : HandlerPc, call : CallOrNone, rev : Nat, out : Told]
      /\ h.pc \notin {"idle", "commit", "committed"} => h.call \in Calls
      /\ h.pc \in {"record", "result"} => h.out \in Settled
  BY <1>h DEF HandlerState
<1>u. UNCHANGED <<child, toHost, asked, told, turns, stage, active, aborted, exiting>>
  BY DEF HandlerStep, CommitCheckpoint, ReadCheckpoint, AddInvocation, LessonPolicy,
     RefuseCall,
     ClaimExecution, Dispatch, AdapterReturns, RecordOutcome, Respond, StoreFails, procVars, history
<1>n. Handled(t)
  BY DEF Handled, HandlerStep, CommitCheckpoint, ReadCheckpoint, AddInvocation,
     LessonPolicy,
     RefuseCall, ClaimExecution, Dispatch, AdapterReturns, RecordOutcome, Respond, StoreFails
<1>o. \A u \in Turns : u # t => handler'[u] = handler[u]
  BY <1>h DEF HandlerStep, CommitCheckpoint, ReadCheckpoint, AddInvocation, LessonPolicy,
     RefuseCall, ClaimExecution, Dispatch, AdapterReturns, RecordOutcome, Respond, StoreFails,
     Handle, Goto, Conclude, EndHandler
<1>e. ASSUME EndHandler(t) PROVE handler'[t] = Idle
  BY <1>h, <1>e DEF EndHandler
<1>g. ASSUME NEW pc, Goto(t, pc)
      PROVE  handler'[t].pc = pc /\ handler'[t].call = h.call /\ handler'[t].rev = h.rev
  BY <1>h, <1>f, <1>g DEF Goto
<1>c. ASSUME NEW pc, NEW out, Conclude(t, pc, out)
      PROVE  handler'[t].pc = pc /\ handler'[t].call = h.call /\ handler'[t].rev = h.rev
  <2>1. handler'[t] = [[h EXCEPT !.pc = pc] EXCEPT !.out = out]
    BY <1>h, <1>c DEF Conclude
  <2> QED
    BY <1>f, <2>1
<1> USE DEF HandlerPc, Working
<1>1. CASE CommitCheckpoint(t)
  <2>1. CASE h.rev = checkpoint.rev
    <3>1. handler'[t] = [pc |-> "committed", call |-> h.call, rev |-> checkpoint.rev + 1,
                         out |-> "none"]
      BY <1>1, <1>h, <2>1 DEF CommitCheckpoint, Handle
    <3> QED
      BY <1>1, <1>u, <1>n, <1>o, <2>1, <3>1 DEF CommitCheckpoint, history
  <2>2. CASE h.rev # checkpoint.rev
    BY <1>1, <1>u, <1>n, <1>o, <1>e, <2>2 DEF CommitCheckpoint, history
  <2> QED
    BY <2>1, <2>2
<1>2. CASE ReadCheckpoint(t)
  BY <1>2, <1>u, <1>n, <1>o, <1>f, <1>e, <1>g DEF ReadCheckpoint, durable, history
<1>3. CASE AddInvocation(t)
  <2>1. h.call \in Calls /\ journal[h.call] \in Status
    BY <1>3, <1>f DEF AddInvocation, TypeOK
  <2>2. PICK pc \in {"result", "markUnknown", "markCancelled", "policy", "start"} :
          handler'[t].pc = pc /\ handler'[t].call = h.call /\ handler'[t].rev = h.rev
    <3>1. \A r \in {"checkpointed", "executing"} :
            Branch(t, r) \in {"markUnknown", "markCancelled", "policy", "start"}
      BY DEF Branch
    <3>2. (IF journal[h.call] = "none" THEN "checkpointed" ELSE journal[h.call])
            \in {"checkpointed", "executing"} \cup Settled
      BY <2>1 DEF Status
    <3> QED
      BY <1>3, <1>g, <1>c, <3>1, <3>2 DEF AddInvocation
  <2> QED
    BY <1>3, <1>u, <1>n, <1>o, <2>1, <2>2 DEF AddInvocation, procVars
<1>4. CASE LessonPolicy(t)
  BY <1>4, <1>u, <1>n, <1>o, <1>f, <1>g DEF LessonPolicy, durable, procVars
<1>5. CASE RefuseCall(t)
  <2>1. /\ handler'[t].pc = "result" /\ handler'[t].call = h.call /\ handler'[t].rev = h.rev
        /\ h.pc \in {"markUnknown", "markCancelled", "markDenied"}
    BY <1>5, <1>c DEF RefuseCall
  <2> QED
    BY <1>5, <1>u, <1>n, <1>o, <1>f, <2>1 DEF RefuseCall, procVars
<1>6. CASE ClaimExecution(t)
  <2>1. CASE journal'[h.call] = "executing"
    BY <1>6, <1>u, <1>n, <1>o, <1>f, <1>g, <2>1 DEF ClaimExecution
  <2>2. CASE journal'[h.call] # "executing"
    <3>1. journal' = journal
      BY <1>6, <1>f, <2>2 DEF ClaimExecution, Transition, TypeOK
    <3> QED
      BY <1>6, <1>u, <1>n, <1>o, <1>e, <2>2, <3>1 DEF ClaimExecution, history
  <2> QED
    BY <2>1, <2>2
<1>7. CASE Dispatch(t)
  BY <1>7, <1>u, <1>n, <1>o, <1>f, <1>g, <1>c DEF Dispatch, durable, procVars
<1>8. CASE AdapterReturns(t)
  BY <1>8, <1>u, <1>n, <1>o, <1>f, <1>c DEF AdapterReturns, durable, procVars
<1>9. CASE RecordOutcome(t)
  <2>1. /\ handler'[t].pc = "result" /\ handler'[t].call = h.call /\ handler'[t].rev = h.rev
        /\ h.pc = "record"
    BY <1>9, <1>c DEF RecordOutcome
  <2> QED
    BY <1>9, <1>u, <1>n, <1>o, <1>f, <2>1 DEF RecordOutcome, procVars
<1>10. CASE Respond(t)
  <2> DEFINE m == [kind |-> h.pc, turn |-> t, call |-> h.call, rev |-> h.rev, val |-> h.out]
  <2>1. m \in ChildBound /\ h.pc \in {"committed", "result"}
    BY <1>10, <1>f DEF Respond, ChildBound
  <2>2. toChild' = Append(toChild, m) \/ toChild' = toChild
    BY <1>10 DEF Respond, Post
  <2>3. m.kind = h.pc /\ m.turn = t /\ m.call = h.call /\ m.rev = h.rev /\ m.val = h.out
    OBVIOUS
  <2>4. handler'[t] = Idle /\ UNCHANGED <<checkpoint, journal, dispatched>>
    BY <1>10, <1>e DEF Respond, durable, history
  <2> HIDE DEF m
  <2> QED
    BY <1>u, <1>n, <1>o, <2>1, <2>2, <2>3, <2>4
<1>11. CASE StoreFails(t)
  BY <1>11, <1>u, <1>n, <1>o, <1>e DEF StoreFails, durable, history
<1> QED
  BY <1>1, <1>2, <1>3, <1>4, <1>5, <1>6, <1>7, <1>8, <1>9, <1>10, <1>11 DEF HandlerStep

\* A death, an exit or a restart leaves no work where there was none.
LEMMA FailureShape ==
  ASSUME TypeOK, ProcessDies \/ ExitStep \/ Restart
  PROVE  /\ UNCHANGED <<checkpoint, dispatched, told, asked, turns>>
         /\ child' = child \/ child' = NoChild
         /\ toHost' = toHost \/ toHost' = << >>
         /\ toChild' = toChild \/ toChild' = << >>
         /\ \/ /\ handler' = handler /\ stage' = stage
               /\ \/ UNCHANGED <<active, aborted>> /\ exiting' \in {exiting, NoTurn}
                  \/ /\ active' = NoTurn /\ exiting' = active
                     /\ aborted \subseteq aborted' /\ (active \in Turns => active \in aborted')
            \/ /\ \A t \in Turns : handler'[t] = Idle
               /\ stage' = "idle" /\ active' = NoTurn /\ exiting' = NoTurn
<1>1. CASE ProcessDies
  BY <1>1 DEF ProcessDies, durable, hostVars, history
<1>2. CASE ProcessExits
  BY <1>2 DEF ProcessExits, durable, history, Turns, NoTurn
<1>3. CASE SettleExit
  BY <1>3 DEF SettleExit, procVars, history
<1>4. CASE Restart
  BY <1>4 DEF Restart, durable, history
<1> QED
  BY <1>1, <1>2, <1>3, <1>4 DEF ExitStep

\* A resumed turn starts from nothing but the checkpoint.
LEMMA ResumeShape ==
  ASSUME IInv, Resume
  PROVE  /\ UNCHANGED <<checkpoint, journal, dispatched, asked, handler, aborted, exiting, child,
                        toHost, stage>>
         /\ child = NoChild /\ toHost = << >> /\ toChild = << >>
         /\ stage = "idle" /\ exiting = NoTurn /\ \A t \in Turns : handler[t] = Idle
         /\ turns' = turns + 1 /\ active' = turns + 1 /\ turns + 1 \in Turns
         /\ told' = [c \in Calls |-> IF c = checkpoint.call THEN "none" ELSE told[c]]
         /\ \E m \in ChildBound :
              /\ toChild' = << m >>
              /\ m.turn = turns + 1 /\ m.call = checkpoint.call /\ m.rev = checkpoint.rev
              /\ m.kind \in {"finish", "reject", "replay"}
              /\ m.kind = "reject" => m.call \in ObserveCalls \/ journal[m.call] \in NotRun
<1> DEFINE m == [kind |-> ResumeKind, turn |-> turns + 1, call |-> checkpoint.call,
                 rev |-> checkpoint.rev, val |-> "none"]
<1>1. /\ child = NoChild /\ toHost = << >> /\ toChild = << >> /\ exiting = NoTurn
      /\ \A t \in Turns : handler[t] = Idle
  BY DEF Resume, IInv, RestoredIsQuiet
<1>2. turns + 1 \in Turns
  BY BoundsAssumption DEF Resume, IInv, TypeOK, Turns
<1>3. ResumeKind \in {"finish", "reject", "replay"}
  BY DEF ResumeKind
<1>4. checkpoint.call \in CallOrNone /\ checkpoint.rev \in Nat
  BY DEF IInv, TypeOK
<1>5. checkpoint.call = NoCall <=> ResumeKind = "finish"
  BY CallsAssumption, <1>4 DEF ResumeKind, CallOrNone
<1>6. m \in ChildBound
  BY <1>2, <1>3, <1>4, <1>5 DEF ChildBound, CallOrNone
<1>7. toChild' = << m >>
  BY <1>1 DEF Resume
<1>8. ResumeKind = "reject" => checkpoint.call \in ObserveCalls \/ journal[checkpoint.call] \in NotRun
  BY CallsAssumption DEF ResumeKind, NotRun
<1>9. /\ m.turn = turns + 1 /\ m.call = checkpoint.call /\ m.rev = checkpoint.rev
      /\ m.kind = ResumeKind
  OBVIOUS
<1> HIDE DEF m
<1> QED
  BY <1>1, <1>2, <1>3, <1>6, <1>7, <1>8, <1>9 DEF Resume, durable

(***************************************************************************)
(* Order: revisions grow, turns start one after the other.                 *)
(***************************************************************************)

\* A revision somebody knows was the store's when he learned it.
LEMMA RevisionsStep ==
  ASSUME PInv, Next
  PROVE  RevisionsKnown'
<1>t. TypeOK /\ IInv /\ RevisionsKnown /\ checkpoint.rev \in Nat
  BY DEF PInv, IInv, Order, TypeOK
<1>n. /\ child.rev \in Nat /\ Idle.rev = 0 /\ NoChild.rev = 0
      /\ toHost \in Seq(HostBound) /\ toChild \in Seq(ChildBound)
      /\ \A m \in HostBound : m.rev \in Nat
      /\ \A m \in ChildBound : m.rev \in Nat
      /\ \A t \in Turns : handler[t].rev \in Nat
  BY <1>t, ChildFacts DEF Idle, NoChild, HostBound, ChildBound, TypeOK, HandlerState
<1>w. /\ \A m \in HostWire : m \in HostBound
      /\ \A m \in ChildWire : m \in ChildBound
  BY <1>n DEF HostWire, ChildWire
<1>1. CASE BeginStart \/ AdmitTurn \/ RefuseTurn \/ PostStart \/ Stop
  <2>1. /\ UNCHANGED <<checkpoint, handler, child, toHost>>
        /\ \A m \in ChildWire' : m \in ChildWire \/ m.rev = 0
    <3>1. CASE toChild' = toChild
      BY <1>t, <1>1, <3>1, StartShape DEF ChildWire
    <3>2. CASE toChild' # toChild
      <4>1. PICK m \in ChildBound : m.rev = 0 /\ toChild' = Append(toChild, m)
        BY <1>t, <1>1, <3>2, StartShape
      <4> QED
        BY <1>t, <1>n, <1>1, <4>1, StartShape, PostWire
    <3> QED
      BY <3>1, <3>2
  <2> QED
    BY <1>t, <1>n, <2>1 DEF RevisionsKnown, HostWire
<1>2. CASE Resume
  <2>1. PICK m \in ChildBound : toChild' = << m >> /\ m.rev = checkpoint.rev
    BY <1>t, <1>2, ResumeShape
  <2>2. \A x \in ChildWire' : x = m
    BY <2>1 DEF ChildWire
  <2>3. HostWire' = HostWire /\ UNCHANGED <<checkpoint, handler, child>>
    BY <1>t, <1>2, ResumeShape DEF HostWire
  <2> QED
    BY <1>t, <2>1, <2>2, <2>3 DEF RevisionsKnown
<1>3. CASE FinishRun \/ ModelFails \/ RequestTimesOut \/ (\E c \in Calls : RequestTool(c))
  <2>1. PICK x \in HostBound : /\ x.rev <= child.rev /\ HostWire' = HostWire \cup {x}
                               /\ child' = NoChild \/ child'.rev = child.rev
    BY <1>t, <1>3, RequestShape
  <2>2. UNCHANGED <<checkpoint, handler, toChild>>
    BY <1>t, <1>3, RequestShape
  <2> QED
    BY <1>t, <1>n, <2>1, <2>2 DEF RevisionsKnown, ChildWire
<1>4. CASE ChildReceive
  <2>1. PICK m \in ChildWire, x \in HostBound :
          /\ ChildTakes(m)
          /\ child' = child \/ child'.rev \in {0, m.rev, child.rev}
          /\ \A y \in HostWire' : y \in HostWire \/ y.rev \in {0, m.rev}
    <3>1. PICK m \in ChildWire, x \in HostBound :
            /\ ChildTakes(m) /\ HostWire' \subseteq HostWire \cup {x}
            /\ \/ child' = child \/ child' = NoChild
               \/ child'.rev \in {m.rev, child.rev}
            /\ x.rev \in {0, m.rev} \/ toHost' = toHost
      BY <1>t, <1>4, ReceiveShape
    <3>2. toHost' = toHost => HostWire' = HostWire
      BY DEF HostWire
    <3> QED
      BY <1>n, <3>1, <3>2
  <2>2. ChildWire' \subseteq ChildWire
    BY <1>n, <2>1, ChildTakesWire
  <2>3. UNCHANGED <<checkpoint, handler>>
    BY <1>t, <1>4, ReceiveShape
  <2>4. m.rev \in Nat /\ m.rev <= checkpoint.rev
    BY <1>t, <1>n, <1>w DEF RevisionsKnown
  <2>5. child'.rev <= checkpoint.rev
    BY <1>t, <2>1, <2>4 DEF RevisionsKnown
  <2>6. \A y \in HostWire' : y.rev <= checkpoint.rev
    BY <1>t, <2>1, <2>4 DEF RevisionsKnown
  <2>7. \A y \in ChildWire' : y.rev <= checkpoint.rev
    BY <1>t, <2>2 DEF RevisionsKnown
  <2>8. \A t \in Turns : handler[t].rev <= checkpoint.rev
    BY <1>t DEF RevisionsKnown
  <2> QED
    BY <2>3, <2>5, <2>6, <2>7, <2>8 DEF RevisionsKnown
<1>5. CASE HostReceive
  <2>1. PICK m \in HostWire :
          /\ HostTakes(m)
          /\ \A t \in Turns : handler'[t] = handler[t] \/ handler'[t].rev <= m.rev
    BY <1>t, <1>5, HostShape
  <2>2. HostWire' \subseteq HostWire
    BY <1>n, <2>1, HostTakesWire
  <2>3. UNCHANGED <<checkpoint, child, toChild>>
    BY <1>t, <1>5, HostShape
  <2>4. m.rev <= checkpoint.rev /\ m.rev \in Nat
    BY <1>t, <1>n, <1>w DEF RevisionsKnown
  <2>5. \A t \in Turns : handler'[t].rev \in Nat
    <3>1. TypeOK'
      BY <1>t, <1>5, HostType
    <3> QED
      BY <3>1 DEF TypeOK, HandlerState
  <2> QED
    BY <1>t, <1>n, <2>1, <2>2, <2>3, <2>4, <2>5 DEF RevisionsKnown, ChildWire
<1>6. ASSUME NEW t \in Turns, HandlerStep(t) \/ AdapterReturns(t) \/ StoreFails(t)
      PROVE  RevisionsKnown'
  <2>1. /\ UNCHANGED <<child, toHost>>
        /\ \A u \in Turns : u # t => handler'[u] = handler[u]
        /\ handler'[t] = Idle \/ handler'[t].rev \in {handler[t].rev, checkpoint'.rev}
    BY <1>t, <1>6, HandlerShape
  <2>2. checkpoint'.rev \in {checkpoint.rev, checkpoint.rev + 1}
    BY <1>t, <1>6, HandlerShape
  <2>3. \A m \in ChildWire' : m \in ChildWire \/ m.rev = handler[t].rev
    <3>1. CASE toChild' = toChild
      BY <3>1 DEF ChildWire
    <3>2. CASE toChild' # toChild
      <4>1. PICK m \in ChildBound : m.rev = handler[t].rev /\ toChild' = Append(toChild, m)
        BY <1>t, <1>6, <3>2, HandlerShape
      <4> QED
        BY <1>n, <4>1, PostWire
    <3> QED
      BY <3>1, <3>2
  <2>4. checkpoint.rev <= checkpoint'.rev /\ checkpoint'.rev \in Nat
    BY <1>t, <2>2
  <2>5. child'.rev <= checkpoint'.rev
    BY <1>t, <1>n, <2>1, <2>4 DEF RevisionsKnown
  <2>6. \A u \in Turns : handler'[u].rev <= checkpoint'.rev
    BY <1>t, <1>n, <2>1, <2>4 DEF RevisionsKnown
  <2>7. HostWire' = HostWire
    BY <2>1 DEF HostWire
  <2>8. \A m \in HostWire' : m.rev <= checkpoint'.rev
    BY <1>t, <1>n, <1>w, <2>7, <2>4 DEF RevisionsKnown
  <2>9. \A m \in ChildWire' : m.rev <= checkpoint'.rev
    BY <1>t, <1>n, <1>w, <2>3, <2>4 DEF RevisionsKnown
  <2> QED
    BY <2>5, <2>6, <2>8, <2>9 DEF RevisionsKnown
<1>7. CASE ProcessDies \/ ExitStep \/ Restart
  <2>1. /\ UNCHANGED checkpoint
        /\ child' = child \/ child' = NoChild
        /\ toHost' = toHost \/ toHost' = << >>
        /\ toChild' = toChild \/ toChild' = << >>
        /\ \A t \in Turns : handler'[t] = handler[t] \/ handler'[t] = Idle
    BY <1>t, <1>7, FailureShape
  <2>2. HostWire' \subseteq HostWire /\ ChildWire' \subseteq ChildWire
    BY <2>1 DEF HostWire, ChildWire
  <2> QED
    BY <1>t, <1>n, <2>1, <2>2 DEF RevisionsKnown
<1> QED
  BY <1>1, <1>2, <1>3, <1>4, <1>5, <1>6, <1>7 DEF Next, StartStep, ChildStep

\* A turn comes to be around by being posted only: the newest one, from its
\* prefetch or from a resume.
LEMMA AroundStep ==
  ASSUME PInv, Next, ~Resume, NEW t \in Turns, Around(t)'
  PROVE  Around(t) \/ (t = turns /\ stage = "prefetch" /\ stage' = "idle")
<1>t. TypeOK /\ toHost \in Seq(HostBound) /\ toChild \in Seq(ChildBound)
  BY DEF PInv, IInv, TypeOK
<1>n. t # NoTurn
  BY DEF Turns, NoTurn
<1>a. Around(t)' <=> \/ handler'[t].pc # "idle" \/ child'.turn = t
                     \/ (\E m \in ChildWire' : m.turn = t /\ m.kind # "cancel")
                     \/ (\E m \in HostWire' : m.turn = t)
  BY DEF Around, Handled, Addressed
<1>b. /\ NoChild.turn = NoTurn /\ Idle.pc = "idle"
      /\ handler[t].pc # "idle" => Around(t)
      /\ child.turn = t => Around(t)
      /\ \A m \in ChildWire : m.turn = t /\ m.kind # "cancel" => Around(t)
      /\ \A m \in HostWire : m.turn = t => Around(t)
  BY DEF Around, Handled, Addressed, NoChild, Idle
<1>1. CASE BeginStart \/ AdmitTurn \/ RefuseTurn \/ PostStart \/ Stop
  <2>1. UNCHANGED <<handler, child>> /\ HostWire' = HostWire
    BY <1>t, <1>1, StartShape DEF HostWire
  <2>2. CASE toChild' = toChild
    BY <1>a, <1>b, <2>1, <2>2 DEF ChildWire
  <2>3. CASE toChild' # toChild
    <3>1. PICK m \in ChildBound : /\ toChild' = Append(toChild, m)
                                  /\ m.kind \in {"start", "cancel"}
                                  /\ m.kind = "start" => m.turn = turns /\ stage = "prefetch" /\ stage' = "idle"
      BY <1>t, <1>1, <2>3, StartShape
    <3>2. ChildWire' \subseteq ChildWire \cup {m}
      BY <1>t, <3>1, PostWire
    <3> QED
      BY <1>a, <1>b, <2>1, <3>1, <3>2
  <2> QED
    BY <2>2, <2>3
<1>3. CASE FinishRun \/ ModelFails \/ RequestTimesOut \/ (\E c \in Calls : RequestTool(c))
  <2>1. PICK x \in HostBound : /\ x.turn = child.turn /\ HostWire' = HostWire \cup {x}
                               /\ child' = NoChild \/ child'.turn = child.turn
    BY <1>t, <1>3, RequestShape
  <2>2. UNCHANGED <<handler, toChild>>
    BY <1>t, <1>3, RequestShape
  <2> QED
    BY <1>a, <1>b, <1>n, <2>1, <2>2 DEF ChildWire
<1>4. CASE ChildReceive
  <2>1. PICK m \in ChildWire, x \in HostBound :
          /\ ChildTakes(m)
          /\ \/ child' = child \/ child' = NoChild
             \/ child'.turn = m.turn /\ m.kind # "cancel"
          /\ \A y \in HostWire' : \/ y \in HostWire \/ y.turn \in {NoTurn, child.turn}
                                  \/ y.turn = m.turn /\ m.kind # "cancel"
    <3>1. PICK m \in ChildWire, x \in HostBound :
            /\ ChildTakes(m) /\ HostWire' \subseteq HostWire \cup {x}
            /\ \/ /\ child' = child \/ child' = NoChild
                  /\ x.turn \in {NoTurn, child.turn}
               \/ child'.turn = m.turn /\ m.kind # "cancel" /\ (x.turn = m.turn \/ toHost' = toHost)
      BY <1>t, <1>4, ReceiveShape
    <3>2. toHost' = toHost => HostWire' = HostWire
      BY DEF HostWire
    <3> QED
      BY <3>1, <3>2
  <2>2. ChildWire' \subseteq ChildWire
    BY <1>t, <2>1, ChildTakesWire
  <2>3. UNCHANGED <<handler>>
    BY <1>t, <1>4, ReceiveShape
  <2> QED
    BY <1>a, <1>b, <1>n, <2>1, <2>2, <2>3
<1>5. CASE HostReceive
  <2>1. PICK m \in HostWire :
          HostTakes(m) /\ (handler'[t] = handler[t] \/ m.turn = t)
    BY <1>t, <1>5, HostShape
  <2>2. HostWire' \subseteq HostWire
    BY <1>t, <2>1, HostTakesWire
  <2>3. UNCHANGED <<child, toChild>>
    BY <1>t, <1>5, HostShape
  <2> QED
    BY <1>a, <1>b, <2>1, <2>2, <2>3 DEF ChildWire
<1>6. ASSUME NEW u \in Turns, HandlerStep(u) \/ AdapterReturns(u) \/ StoreFails(u)
      PROVE  Around(t)
  <2>1. /\ UNCHANGED <<child, toHost>>
        /\ Handled(u)
        /\ u # t => handler'[t] = handler[t]
    BY <1>t, <1>6, HandlerShape
  <2>3. \A m \in ChildWire' : m \in ChildWire \/ m.turn = u
    <3>1. CASE toChild' = toChild
      BY <3>1 DEF ChildWire
    <3>2. CASE toChild' # toChild
      <4>1. PICK m \in ChildBound : m.turn = u /\ toChild' = Append(toChild, m)
        BY <1>t, <1>6, <3>2, HandlerShape
      <4> QED
        BY <1>t, <4>1, PostWire
    <3> QED
      BY <3>1, <3>2
  <2> QED
    BY <1>a, <1>b, <2>1, <2>3 DEF HostWire, Handled
<1>7. CASE ProcessDies \/ ExitStep \/ Restart
  <2>1. /\ child' = child \/ child' = NoChild
        /\ toHost' = toHost \/ toHost' = << >>
        /\ toChild' = toChild \/ toChild' = << >>
        /\ handler'[t] = handler[t] \/ handler'[t] = Idle
    BY <1>t, <1>7, FailureShape
  <2>2. HostWire' \subseteq HostWire /\ ChildWire' \subseteq ChildWire
    BY <2>1 DEF HostWire, ChildWire
  <2> QED
    BY <1>a, <1>b, <1>n, <2>1, <2>2
<1> QED
  BY <1>1, <1>3, <1>4, <1>5, <1>6, <1>7 DEF Next, StartStep, ChildStep

\* The stage of the newest turn's start changes with its own steps only.
LEMMA StageStep ==
  ASSUME PInv, Next, ~Resume
  PROVE  \/ turns' = turns + 1 /\ stage = "idle" /\ stage' = "admitting" /\ BeginStart
         \/ turns' = turns /\ (stage' # "idle" => stage # "idle")
<1>t. TypeOK
  BY DEF PInv, IInv
<1>1. CASE BeginStart \/ AdmitTurn \/ RefuseTurn \/ PostStart \/ Stop
  BY <1>1 DEF BeginStart, AdmitTurn, RefuseTurn, PostStart, Stop
<1>2. CASE ChildStep \/ HostReceive
  BY <1>t, <1>2, RequestShape, ReceiveShape, HostShape DEF ChildStep
<1>3. ASSUME NEW u \in Turns, HandlerStep(u) \/ AdapterReturns(u) \/ StoreFails(u)
      PROVE  turns' = turns /\ stage' = stage
  BY <1>t, <1>3, HandlerShape
<1>4. CASE ProcessDies \/ ExitStep \/ Restart
  BY <1>t, <1>4, FailureShape
<1> QED
  BY <1>1, <1>2, <1>3, <1>4 DEF Next, StartStep

\* No turn is around before it is posted, after any step.
LEMMA FreshStep ==
  ASSUME PInv, Next
  PROVE  NewestIsFresh'
<1>t. TypeOK /\ IInv /\ NewestIsFresh /\ turns \in Nat
  BY DEF PInv, IInv, Order, TypeOK
<1>1. CASE Resume
  <2>1. PICK m \in ChildBound : toChild' = << m >> /\ m.turn = turns + 1
    BY <1>t, <1>1, ResumeShape
  <2>2. \A x \in ChildWire' : x = m
    BY <2>1 DEF ChildWire
  <2>3. /\ HostWire' = {} /\ child' = NoChild /\ stage' = "idle" /\ turns' = turns + 1
        /\ \A t \in Turns : handler'[t] = Idle
    BY <1>t, <1>1, ResumeShape DEF HostWire
  <2>4. \A t \in Turns : Around(t)' => t = turns + 1
    BY <2>1, <2>2, <2>3 DEF Around, Handled, Addressed, Idle, NoChild, Turns, NoTurn
  <2> QED
    BY <1>t, <2>3, <2>4 DEF NewestIsFresh
<1>2. CASE ~Resume
  <2>1. \A t \in Turns : Around(t)' => Around(t) \/ (t = turns /\ stage = "prefetch" /\ stage' = "idle")
    BY <1>2, AroundStep
  <2>2. \/ turns' = turns + 1 /\ stage = "idle" /\ stage' = "admitting" /\ BeginStart
        \/ turns' = turns /\ (stage' # "idle" => stage # "idle")
    BY <1>2, StageStep
  <2>3. \A t \in Turns : t \in Nat
    BY DEF Turns
  <2> QED
    BY <1>t, <2>1, <2>2, <2>3 DEF NewestIsFresh
<1> QED
  BY <1>1, <1>2

\* The exit of a process and the start of a turn exclude each other, and a turn
\* that has a handler is in the active map or has been aborted.
LEMMA ActiveStep ==
  ASSUME PInv, Next
  PROVE  OneActive' /\ HandledIsActive'
<1>t. TypeOK /\ IInv /\ NewestIsFresh /\ OneActive /\ HandledIsActive
  BY DEF PInv, IInv, Order
<1>n. Idle.pc = "idle"
  BY DEF Idle
<1>1. CASE BeginStart \/ AdmitTurn \/ RefuseTurn \/ Stop
  <2>1. OneActive'
    BY <1>t, <1>1 DEF BeginStart, AdmitTurn, RefuseTurn, Stop, OneActive
  <2>2. handler' = handler /\ aborted \subseteq aborted' /\ (active' = active \/ active = NoTurn)
    BY <1>t, <1>1 DEF BeginStart, AdmitTurn, RefuseTurn, Stop, UserStop, OneActive
  <2>3. \A t \in Turns : t # NoTurn
    BY DEF Turns, NoTurn
  <2> QED
    BY <1>t, <2>1, <2>2, <2>3 DEF HandledIsActive, Handled
<1>2. CASE PostStart
  <2>1. OneActive'
    BY <1>t, <1>2 DEF PostStart, OneActive
  <2>2. handler' = handler /\ aborted' = aborted /\ active' \in {active, NoTurn}
        /\ active \in {NoTurn, turns} /\ stage = "prefetch"
    BY <1>t, <1>2 DEF PostStart, OneActive
  <2>3. \A t \in Turns : Handled(t) => t # turns /\ t # NoTurn
    BY <1>t, <2>2 DEF NewestIsFresh, Around, Turns, NoTurn
  <2> QED
    BY <1>t, <2>1, <2>2, <2>3 DEF HandledIsActive, Handled
<1>3. CASE Resume
  BY <1>t, <1>n, <1>3, ResumeShape DEF OneActive, HandledIsActive, Handled
<1>4. CASE ChildStep
  <2>1. UNCHANGED <<handler, active, aborted, exiting, stage, turns>>
    BY <1>t, <1>4, RequestShape, ReceiveShape DEF ChildStep
  <2> QED
    BY <1>t, <2>1 DEF OneActive, HandledIsActive, Handled
<1>5. CASE HostReceive
  <2>1. UNCHANGED <<stage, turns, exiting>> /\ (active' = active \/ active' = NoTurn)
    BY <1>t, <1>5, HostShape
  <2>2. OneActive'
    BY <1>t, <2>1 DEF OneActive
  <2>3. \/ UNCHANGED <<active, aborted, handler>>
        \/ aborted' = aborted \cup {active} /\ active' = NoTurn /\ handler' = handler
        \/ /\ UNCHANGED <<active, aborted>>
           /\ \A t \in Turns : t # active => handler'[t] = handler[t]
    BY <1>t, <1>5, HostShape
  <2>4. HandledIsActive'
    BY <1>t, <2>3 DEF HandledIsActive, Handled
  <2> QED
    BY <2>2, <2>4
<1>6. ASSUME NEW u \in Turns, HandlerStep(u) \/ AdapterReturns(u) \/ StoreFails(u)
      PROVE  OneActive' /\ HandledIsActive'
  <2>1. /\ UNCHANGED <<active, aborted, exiting, stage, turns>> /\ Handled(u)
        /\ \A t \in Turns : t # u => handler'[t] = handler[t]
    BY <1>t, <1>6, HandlerShape
  <2> QED
    BY <1>t, <2>1 DEF OneActive, HandledIsActive, Handled
<1>7. CASE ProcessDies \/ ExitStep \/ Restart
  <2>1. CASE handler' = handler /\ stage' = stage /\ turns' = turns /\ UNCHANGED <<active, aborted>>
             /\ exiting' \in {exiting, NoTurn}
    BY <1>t, <2>1 DEF OneActive, HandledIsActive, Handled
  <2>2. CASE /\ handler' = handler /\ stage' = stage /\ turns' = turns
             /\ active' = NoTurn /\ exiting' = active
             /\ aborted \subseteq aborted' /\ (active \in Turns => active \in aborted')
    BY <1>t, <2>2 DEF OneActive, HandledIsActive, Handled
  <2>3. CASE /\ \A t \in Turns : handler'[t] = Idle
             /\ stage' = "idle" /\ active' = NoTurn /\ exiting' = NoTurn
    BY <1>n, <2>3 DEF OneActive, HandledIsActive, Handled
  <2> QED
    BY <1>t, <1>7, <2>1, <2>2, <2>3, FailureShape
<1> QED
  BY <1>1, <1>2, <1>3, <1>4, <1>5, <1>6, <1>7 DEF Next, StartStep

(***************************************************************************)
(* Places: every step takes a turn's work from one place to one other.     *)
(***************************************************************************)
LEMMA PlacesStep ==
  ASSUME PInv, Next
  PROVE  Places'
<1>t. /\ TypeOK /\ IInv /\ NewestIsFresh /\ UniqueRequests /\ UniqueAnswers /\ OnePlace
      /\ toHost \in Seq(HostBound) /\ toChild \in Seq(ChildBound)
  BY DEF PInv, IInv, TypeOK, Order, Places
<1>n. /\ Idle.pc = "idle" /\ NoChild.turn = NoTurn /\ \A t \in Turns : t # NoTurn
      /\ \A m \in ChildWire : m.turn \in Turns
      /\ \A t \in Turns : Handled(t)' <=> handler'[t].pc # "idle"
      /\ \A t \in Turns : Modelling(t)' <=> child'.turn = t /\ child'.pc = "model"
  BY <1>t DEF Idle, NoChild, Turns, NoTurn, ChildWire, ChildBound, Handled, Modelling
<1>1. CASE BeginStart \/ AdmitTurn \/ RefuseTurn \/ PostStart \/ Stop
  <2>1. UNCHANGED <<handler, child, toHost>>
    BY <1>t, <1>1, StartShape
  <2>2. UniqueRequests' /\ \A t \in Turns :
          /\ Handled(t)' <=> Handled(t)
          /\ Modelling(t)' <=> Modelling(t)
          /\ Requested(t)' <=> Requested(t)
    BY <1>t, <2>1 DEF Handled, Modelling, Requested, HostWire, UniqueRequests
  <2>3. CASE toChild' = toChild
    BY <1>t, <2>2, <2>3 DEF UniqueAnswers, Addressed, ChildWire, OnePlace, Places
  <2>4. CASE toChild' # toChild
    <3>1. PICK m \in ChildBound :
            /\ toChild' = Append(toChild, m) /\ m.kind \in {"start", "cancel"}
            /\ m.kind = "start" => m.turn = turns /\ stage = "prefetch"
      BY <1>t, <1>1, <2>4, StartShape
    <3>2. m.kind # "cancel" /\ m.turn \in Turns =>
            ~Addressed(m.turn) /\ ~Handled(m.turn) /\ ~Modelling(m.turn) /\ ~Requested(m.turn)
      BY <1>t, <3>1 DEF NewestIsFresh, Around, Modelling, Requested
    <3>m. m.turn \in Turns
      BY DEF ChildBound
    <3>3. /\ UniqueAnswers'
          /\ \A t \in Turns : Addressed(t)' => Addressed(t) \/ (t = m.turn /\ m.kind # "cancel")
      BY <1>t, <3>1, <3>2, <3>m, PostWire
    <3>4. OnePlace'
      BY <1>t, <2>2, <3>2, <3>3 DEF OnePlace
    <3> QED
      BY <2>2, <3>3, <3>4 DEF Places
  <2> QED
    BY <2>3, <2>4
<1>2. CASE Resume
  <2>1. PICK m \in ChildBound : toChild' = << m >>
    BY <1>t, <1>2, ResumeShape
  <2>2. /\ HostWire' = {} /\ child' = NoChild /\ toHost' = << >>
        /\ \A t \in Turns : handler'[t] = Idle
    BY <1>t, <1>2, ResumeShape DEF HostWire
  <2>3. UniqueRequests' /\ UniqueAnswers'
    BY <2>1, <2>2 DEF UniqueRequests, UniqueAnswers
  <2>4. \A t \in Turns : ~Handled(t)' /\ ~Modelling(t)' /\ ~Requested(t)'
    BY <1>n, <2>2 DEF Requested
  <2> QED
    BY <2>3, <2>4 DEF OnePlace, Places
<1>3. CASE FinishRun \/ ModelFails \/ RequestTimesOut \/ (\E c \in Calls : RequestTool(c))
  <2>1. UNCHANGED <<handler, toChild>> /\ child.turn \in Turns
    BY <1>t, <1>3, RequestShape
  <2>2. UniqueAnswers' /\ \A t \in Turns :
          /\ Handled(t)' <=> Handled(t)
          /\ Addressed(t)' <=> Addressed(t)
    BY <1>t, <2>1 DEF Handled, Addressed, ChildWire, UniqueAnswers
  <2>3. PICK x \in HostBound :
              /\ x.turn = child.turn
              /\ HostWire' = HostWire \cup {x}
              /\ \/ /\ child' = NoChild /\ x.kind = "terminal"
                    /\ (UniqueRequests => UniqueRequests')
                 \/ /\ child.pc = "model" /\ child'.pc = "committing"
                    /\ (UniqueRequests /\ ~Requested(child.turn) => UniqueRequests')
    BY <1>t, <1>3, RequestShape
  <2>4. \A t \in Turns : ~Modelling(t)'
    BY <1>n, <2>3
  <2>5. \A t \in Turns : Requested(t)' => Requested(t) \/ (t = child.turn /\ x.kind \in Request)
    BY <2>3 DEF Requested
  <2>6. x.kind \in Request => Modelling(child.turn)
    BY <2>3 DEF Modelling, Request
  <2>7. UniqueRequests'
    BY <1>t, <2>1, <2>3 DEF OnePlace, Modelling
  <2>8. OnePlace'
    BY <1>t, <2>1, <2>2, <2>4, <2>5, <2>6 DEF OnePlace
  <2> QED
    BY <2>2, <2>7, <2>8 DEF Places
<1>4. CASE ChildReceive
  <2>1. PICK m \in ChildWire, x \in HostBound :
          /\ ChildTakes(m) /\ HostWire' \subseteq HostWire \cup {x}
          /\ \/ /\ child' = child \/ child' = NoChild
                /\ x.kind \in {"fatal", "terminal"}
                /\ (UniqueRequests => UniqueRequests')
             \/ /\ m.kind # "cancel"
                /\ child'.pc = "model" /\ child'.turn = m.turn
                /\ toHost' = toHost
             \/ /\ m.kind # "cancel"
                /\ child'.pc \in {"committing", "executing"}
                /\ x.turn = m.turn
                /\ (UniqueRequests /\ ~Requested(m.turn) => UniqueRequests')
    BY <1>t, <1>4, ReceiveShape
  <2>2. /\ UniqueAnswers'
        /\ \A t \in Turns : Addressed(t)' => Addressed(t)
        /\ m.kind # "cancel" => ~Addressed(m.turn)'
    BY <1>t, <2>1, ChildTakesWire
  <2>3. \A t \in Turns : Handled(t)' <=> Handled(t)
    BY <1>t, <1>4, ReceiveShape DEF Handled
  <2>4. m.kind # "cancel" => ~Modelling(m.turn) /\ ~Handled(m.turn) /\ ~Requested(m.turn)
    BY <1>t, <1>n DEF OnePlace, Addressed
  <2>5. \A t \in Turns : Requested(t)' => Requested(t) \/ (t = x.turn /\ x.kind \in Request)
    BY <2>1 DEF Requested
  <2>6. toHost' = toHost => (UniqueRequests => UniqueRequests')
                            /\ \A t \in Turns : Requested(t)' => Requested(t)
    BY DEF UniqueRequests, Requested, HostWire
  <2>7. UniqueRequests'
    BY <1>t, <2>1, <2>4, <2>6
  <2>8. \A t \in Turns : Modelling(t)' => Modelling(t) \/ (t = m.turn /\ m.kind # "cancel" /\ toHost' = toHost)
    <3>1. child' = child => \A t \in Turns : Modelling(t)' => Modelling(t)
      BY DEF Modelling
    <3> QED
      BY <1>n, <2>1, <3>1
  <2>9. \A t \in Turns : Requested(t)' => Requested(t) \/ (t = m.turn /\ m.kind # "cancel" /\ child'.pc # "model")
    BY <2>1, <2>5, <2>6 DEF Request
  <2>10. OnePlace'
    <3> SUFFICES ASSUME NEW t \in Turns
                 PROVE  /\ Modelling(t)' => ~Handled(t)' /\ ~Requested(t)' /\ ~Addressed(t)'
                        /\ Handled(t)' => ~Requested(t)' /\ ~Addressed(t)'
                        /\ Requested(t)' => ~Addressed(t)'
      BY DEF OnePlace
    <3>1. CASE t = m.turn /\ m.kind # "cancel"
      BY <1>n, <2>2, <2>3, <2>4, <2>6, <2>8, <2>9, <3>1
    <3>2. CASE ~(t = m.turn /\ m.kind # "cancel")
      BY <1>t, <2>2, <2>3, <2>8, <2>9, <3>2 DEF OnePlace
    <3> QED
      BY <3>1, <3>2
  <2> QED
    BY <2>2, <2>7, <2>10 DEF Places
<1>5. CASE HostReceive
  <2>1. PICK m \in HostWire :
              /\ HostTakes(m)
              /\ \/ UNCHANGED handler
                 \/ /\ m.kind \in Request /\ m.turn \in Turns
                    /\ \A t \in Turns : t # m.turn => handler'[t] = handler[t]
    BY <1>t, <1>5, HostShape
  <2>2. /\ UniqueRequests'
        /\ \A t \in Turns : Requested(t)' => Requested(t)
        /\ m.kind \in Request => ~Requested(m.turn)'
    BY <1>t, <2>1, HostTakesWire
  <2>3. UNCHANGED <<child, toChild>>
    BY <1>t, <1>5, HostShape
  <2>4. UniqueAnswers' /\ \A t \in Turns : /\ Modelling(t)' <=> Modelling(t)
                                           /\ Addressed(t)' <=> Addressed(t)
    BY <1>t, <2>3 DEF Modelling, Addressed, ChildWire, UniqueAnswers
  <2>5. m.kind \in Request => Requested(m.turn)
    BY DEF Requested
  <2>6. \A t \in Turns : Handled(t)' => Handled(t) \/ (t = m.turn /\ m.kind \in Request)
    BY <2>1 DEF Handled
  <2>7. OnePlace'
    BY <1>t, <2>2, <2>4, <2>5, <2>6 DEF OnePlace
  <2> QED
    BY <2>2, <2>4, <2>7 DEF Places
<1>6. ASSUME NEW u \in Turns, HandlerStep(u) \/ AdapterReturns(u) \/ StoreFails(u)
      PROVE  Places'
  <2>1. /\ UNCHANGED <<child, toHost>> /\ Handled(u)
        /\ \A t \in Turns : t # u => handler'[t] = handler[t]
    BY <1>t, <1>6, HandlerShape
  <2>2. UniqueRequests' /\ \A t \in Turns : /\ Modelling(t)' <=> Modelling(t)
                                            /\ Requested(t)' <=> Requested(t)
                                            /\ Handled(t)' => Handled(t)
    BY <1>t, <2>1 DEF Modelling, Requested, HostWire, UniqueRequests, Handled
  <2>3. CASE toChild' = toChild
    BY <1>t, <2>2, <2>3 DEF UniqueAnswers, Addressed, ChildWire, OnePlace, Places
  <2>4. CASE toChild' # toChild
    <3>1. PICK m \in ChildBound :
            toChild' = Append(toChild, m) /\ m.turn = u /\ handler'[u] = Idle
      BY <1>t, <1>6, <2>4, HandlerShape
    <3>2. /\ UniqueAnswers'
          /\ \A t \in Turns : Addressed(t)' => Addressed(t) \/ t = u
      <4>1. ~Addressed(u)
        BY <1>t, <2>1 DEF OnePlace
      <4> QED
        BY <1>t, <3>1, <4>1, PostWire
    <3>3. ~Handled(u)'
      BY <1>n, <3>1
    <3>4. OnePlace'
      BY <1>t, <2>1, <2>2, <3>2, <3>3 DEF OnePlace
    <3> QED
      BY <2>2, <3>2, <3>4 DEF Places
  <2> QED
    BY <2>3, <2>4
<1>7. CASE ProcessDies \/ ExitStep \/ Restart
  <2>1. /\ child' = child \/ child' = NoChild
        /\ toHost' = toHost \/ toHost' = << >>
        /\ toChild' = toChild \/ toChild' = << >>
        /\ \A t \in Turns : handler'[t] = handler[t] \/ handler'[t] = Idle
    BY <1>t, <1>7, FailureShape
  <2>2. \A t \in Turns : /\ Modelling(t)' => Modelling(t)
                         /\ Handled(t)' => Handled(t)
    BY <1>n, <2>1 DEF Modelling, Handled
  <2>3. HostWire' \subseteq HostWire /\ ChildWire' \subseteq ChildWire
    BY <2>1 DEF HostWire, ChildWire
  <2>4. \A t \in Turns : /\ Requested(t)' => Requested(t)
                         /\ Addressed(t)' => Addressed(t)
    BY <2>3 DEF Requested, Addressed
  <2>5. UniqueRequests' /\ UniqueAnswers'
    BY <1>t, <2>1, SMTT(30) DEF UniqueRequests, UniqueAnswers
  <2>6. OnePlace'
    BY <1>t, <2>2, <2>4 DEF OnePlace
  <2> QED
    BY <2>5, <2>6 DEF Places
<1> QED
  BY <1>1, <1>2, <1>3, <1>4, <1>5, <1>6, <1>7 DEF Next, StartStep, ChildStep

(***************************************************************************)
(* Current: the call that is approved is the checkpoint's.                 *)
(***************************************************************************)

\* A turn that is involved with a call is around.
LEMMA InvolvedIsAround ==
  ASSUME TypeOK, NEW t \in Turns, NEW c \in Calls, Involved(t, c)
  PROVE  Around(t)
<1>1. \A m \in ChildWire : m.call = c => m.kind # "cancel"
  <2>1. \A m \in ChildWire : m \in ChildBound
    <3>1. toChild \in Seq(ChildBound)
      BY DEF TypeOK
    <3> QED
      BY <3>1 DEF ChildWire
  <2>2. \A m \in ChildBound : m.kind = "cancel" => m.call = NoCall
    BY DEF ChildBound
  <2> QED
    BY <2>1, <2>2, CallsAssumption
<1> QED
  BY <1>1, WireInvolves DEF Involved, Around, Handles, Handled, Runs, Addressed

\* A turn that works on a call has it as the checkpoint's, and nobody else can
\* commit another.
LEMMA CurrentStep ==
  ASSUME PInv, Next
  PROVE  Current'
<1>t. /\ TypeOK /\ IInv /\ NewestIsFresh /\ LateCommitsFail /\ ApprovedIsCurrent
      /\ RevisionsKnown /\ AskedFirst /\ OneActive
      /\ checkpoint.rev \in Nat /\ \A t \in Turns : handler[t].rev \in Nat
  BY DEF PInv, IInv, TypeOK, Order, Current, HandlerState
<1>n. Idle.pc = "idle" /\ "idle" \notin Working /\ \A t \in Turns : t # NoTurn
  BY DEF Idle, Working, Turns, NoTurn
<1>f. ASSUME UNCHANGED checkpoint, active' \in {active, NoTurn},
             \A t \in Turns, c \in Calls : Involved(t, c)' => Involved(t, c) \/ c # checkpoint.call,
             \A t \in Turns : \/ handler'[t] = handler[t] \/ handler'[t].pc = "idle"
                              \/ t = active /\ handler'[t].pc \in {"commit", "read"}
      PROVE  Current'
  <2>1. LateCommitsFail'
    <3> SUFFICES ASSUME NEW u \in Turns, u # active', CheckpointIsActive',
                        handler'[u].pc = "commit"
                 PROVE  handler'[u].rev < checkpoint'.rev
      BY DEF LateCommitsFail
    <3>1. PICK t \in Turns, c \in Calls :
            t = active' /\ c = checkpoint'.call /\ Involved(t, c)'
      BY DEF CheckpointIsActive
    <3>2. t = active /\ c = checkpoint.call /\ Involved(t, c)
      BY <1>n, <1>f, <3>1
    <3>3. handler'[u] = handler[u] /\ u # active
      BY <1>n, <1>f, <3>1, <3>2
    <3>4. CheckpointIsActive
      BY <3>1, <3>2 DEF CheckpointIsActive
    <3> QED
      BY <1>t, <1>f, <3>3, <3>4 DEF LateCommitsFail
  <2>2. ApprovedIsCurrent'
    BY <1>t, <1>n, <1>f DEF ApprovedIsCurrent, Working
  <2> QED
    BY <2>1, <2>2 DEF Current
<1>1. CASE BeginStart \/ RefuseTurn \/ PostStart \/ Stop
  <2>1. active' \in {active, NoTurn}
    BY <1>1 DEF BeginStart, RefuseTurn, PostStart, Stop
  <2>2. /\ UNCHANGED <<checkpoint, handler>>
        /\ \A t \in Turns, c \in Calls : Involved(t, c)' => Involved(t, c)
    BY <1>t, <1>1, StartInvolves
  <2> QED
    BY <1>f, <2>1, <2>2
<1>2. CASE AdmitTurn
  <2>1. /\ UNCHANGED <<checkpoint, handler>> /\ active' = turns /\ stage = "admitting"
        /\ \A t \in Turns, c \in Calls : Involved(t, c)' => Involved(t, c)
    BY <1>t, <1>2, StartInvolves DEF AdmitTurn
  <2>2. turns \in Turns => ~Around(turns)
    BY <1>t, <2>1 DEF NewestIsFresh
  <2>3. ASSUME CheckpointIsActive' PROVE FALSE
    <3>1. PICK t \in Turns, c \in Calls : t = active' /\ Involved(t, c)'
      BY <2>3 DEF CheckpointIsActive
    <3>2. t = turns /\ Involved(t, c)
      BY <2>1, <3>1
    <3> QED
      BY <1>t, <2>2, <3>2, InvolvedIsAround
  <2>4. turns \in Turns => handler[turns].pc = "idle"
    BY <2>2 DEF Around, Handled
  <2> QED
    BY <1>n, <2>1, <2>3, <2>4 DEF Current, LateCommitsFail, ApprovedIsCurrent
<1>3. CASE Resume
  <2>1. \A t \in Turns : handler'[t].pc = "idle"
    BY <1>t, <1>n, <1>3, ResumeShape
  <2> QED
    BY <1>n, <2>1 DEF Current, LateCommitsFail, ApprovedIsCurrent
<1>4. CASE FinishRun \/ ModelFails \/ RequestTimesOut
  BY <1>t, <1>f, <1>4, ChildEndsInvolves, RequestShape
<1>5. CASE ChildReceive
  BY <1>t, <1>f, <1>5, ChildReceiveInvolves, ReceiveShape
<1>6. ASSUME NEW d \in Calls, RequestTool(d)
      PROVE  Current'
  <2>1. checkpoint.call # d
    BY <1>t, <1>6 DEF RequestTool, AskedFirst
  <2>2. UNCHANGED <<checkpoint, active, handler>>
    BY <1>t, <1>6, RequestShape
  <2>3. \A t \in Turns, c \in Calls : Involved(t, c)' => Involved(t, c) \/ c = d
    BY <1>t, <1>6, RequestInvolves
  <2> QED
    BY <1>f, <2>1, <2>2, <2>3
<1>7. CASE HostReceive
  <2>1. UNCHANGED checkpoint /\ \A t \in Turns, c \in Calls : Involved(t, c)' => Involved(t, c)
    BY <1>t, <1>7, HostReceiveInvolves
  <2>2. /\ active' \in {active, NoTurn}
        /\ \A t \in Turns : \/ handler'[t] = handler[t]
                            \/ t = active /\ handler'[t].pc \in {"commit", "read"}
    <3>1. CASE UNCHANGED <<active, handler>>
      BY <3>1
    <3>2. CASE active' = NoTurn /\ handler' = handler
      BY <3>2
    <3>3. CASE /\ active' = active /\ \A t \in Turns : t # active => handler'[t] = handler[t]
               /\ handler'[active].pc \in {"commit", "read"}
      BY <3>3
    <3> QED
      BY <1>t, <1>7, <3>1, <3>2, <3>3, HostShape
  <2>3. /\ \A t \in Turns, c \in Calls : Involved(t, c)' => Involved(t, c) \/ c # checkpoint.call
        /\ \A t \in Turns : \/ handler'[t] = handler[t] \/ handler'[t].pc = "idle"
                            \/ t = active /\ handler'[t].pc \in {"commit", "read"}
    BY <2>1, <2>2
  <2>4. checkpoint' = checkpoint
    BY <2>1
  <2> QED
    BY <1>f, <2>2, <2>3, <2>4
<1>8. ASSUME NEW u \in Turns, HandlerStep(u) \/ AdapterReturns(u) \/ StoreFails(u)
      PROVE  Current'
  <2>1. /\ UNCHANGED active /\ \A t \in Turns : t # u => handler'[t] = handler[t]
        /\ \A t \in Turns, c \in Calls : Involved(t, c)' => Involved(t, c)
    BY <1>t, <1>8, HandlerShape, HandlerInvolves
  <2>2. CASE handler'[u] = Idle /\ UNCHANGED checkpoint
    BY <1>f, <1>n, <2>1, <2>2
  <2>3. CASE /\ handler[u].pc = "commit" /\ handler'[u].pc = "committed"
             /\ handler[u].rev = checkpoint.rev
             /\ checkpoint' = [rev |-> checkpoint.rev + 1, call |-> handler[u].call]
    <3>1. \A t \in Turns : handler[t].rev < checkpoint'.rev
      BY <1>t, <2>3 DEF RevisionsKnown
    <3>2. LateCommitsFail'
      BY <2>1, <2>3, <3>1 DEF LateCommitsFail
    <3>3. ASSUME NEW t \in Turns, t = active, handler[t].pc \in Working, t # u
          PROVE  FALSE
      <4>1. checkpoint.call = handler[t].call /\ handler[t].call \in Calls
        BY <1>t, <3>3 DEF ApprovedIsCurrent, TypeOK, HandlerState, Working
      <4>2. Handles(t, checkpoint.call)
        BY <3>3, <4>1 DEF Handles, Working
      <4>3. CheckpointIsActive
        BY <3>3, <4>1, <4>2 DEF CheckpointIsActive, Involved
      <4> QED
        BY <1>t, <2>3, <3>3, <4>3 DEF LateCommitsFail
    <3>4. ApprovedIsCurrent'
      BY <2>1, <2>3, <3>3 DEF ApprovedIsCurrent, Working
    <3> QED
      BY <3>2, <3>4 DEF Current
  <2>4. CASE /\ handler'[u].pc \in HandlerPc \ {"idle", "commit", "committed", "read"}
             /\ UNCHANGED checkpoint /\ handler'[u].call = handler[u].call
             /\ handler[u].pc = "read" => checkpoint.call = handler[u].call
             /\ handler'[u].pc \in Working => handler[u].pc \in Working \cup {"read"}
    <3>1. LateCommitsFail'
      BY <1>t, <2>1, <2>4 DEF LateCommitsFail, CheckpointIsActive
    <3>2. ApprovedIsCurrent'
      BY <1>t, <2>1, <2>4 DEF ApprovedIsCurrent
    <3> QED
      BY <3>1, <3>2 DEF Current
  <2> QED
    BY <1>t, <1>8, <2>2, <2>3, <2>4, HandlerShape
<1>9. CASE ProcessDies \/ ExitStep \/ Restart
  <2>1. UNCHANGED checkpoint /\ \A t \in Turns, c \in Calls : Involved(t, c)' => Involved(t, c)
    BY <1>t, <1>9, FailureInvolves
  <2>2. /\ active' \in {active, NoTurn}
        /\ \A t \in Turns : handler'[t] = handler[t] \/ handler'[t] = Idle
    BY <1>t, <1>9, FailureShape
  <2> QED
    BY <1>f, <1>n, <2>1, <2>2
<1> QED
  BY <1>1, <1>2, <1>3, <1>4, <1>5, <1>6, <1>7, <1>8, <1>9 DEF Next, StartStep, ChildStep

(***************************************************************************)
(* Known: handlers and messages say what the journal says.                 *)
(***************************************************************************)

\* What a handler knows after its step is what it has just read or written.
LEMMA HandlerLearns ==
  ASSUME IInv, HandlersKnow, CancelledDidNotRun,
         NEW t \in Turns, HandlerStep(t) \/ AdapterReturns(t) \/ StoreFails(t),
         NEW c, c = handler[t].call
  PROVE  /\ handler'[t].pc = "dispatch" => journal'[c] = "executing"
         /\ handler'[t].pc \in {"markUnknown", "running", "record"} => journal'[c] \notin Unclaimed
         /\ handler'[t].pc = "running" => dispatched'[c] = 1
         /\ handler'[t].pc = "record"
              => /\ handler'[t].out # "cancelled"
                 /\ handler'[t].out = "unknown" \/ dispatched'[c] = 1
         /\ handler'[t].pc = "result" => journal'[c] = handler'[t].out
         /\ c \in Calls /\ journal'[c] = "cancelled" => dispatched'[c] = 0
<1> DEFINE h == handler[t]
<1>h. h \in HandlerState /\ handler \in [Turns -> HandlerState] /\ TypeOK
  BY DEF IInv, TypeOK
<1>f. /\ h \in [pc : HandlerPc, call : CallOrNone, rev : Nat, out : Told]
      /\ h.pc \notin {"idle", "commit", "committed"} => c \in Calls
      /\ h.pc \in {"record", "result"} => h.out \in Settled
  BY <1>h DEF HandlerState
<1>i. /\ h.pc \in BeforeClaim => journal[c] = "checkpointed"
      /\ h.pc = "dispatch" => dispatched[c] = 0 /\ journal[c] \notin Unclaimed
      /\ c \in Calls /\ dispatched[c] > 0 => journal[c] \notin Unclaimed
      /\ c \in Calls => dispatched[c] \in Nat /\ journal[c] \in Status
      /\ c \in Calls /\ journal[c] = "cancelled" => dispatched[c] = 0
  BY DEF IInv, TypeOK, HandlersFollowJournal, DispatchedIsClaimed, CancelledDidNotRun
<1>k. /\ h.pc = "dispatch" /\ t \notin aborted => journal[c] = "executing"
      /\ h.pc \in {"markUnknown", "running", "record"} => journal[c] \notin Unclaimed
      /\ h.pc = "running" => dispatched[c] = 1
      /\ h.pc = "record" => h.out # "cancelled"
  BY DEF HandlersKnow
<1>e. ASSUME EndHandler(t) PROVE handler'[t].pc = "idle"
  BY <1>h, <1>e DEF EndHandler, Idle
<1>g. ASSUME NEW pc, Goto(t, pc) PROVE handler'[t].pc = pc
  BY <1>h, <1>f, <1>g DEF Goto
<1>c. ASSUME NEW pc, NEW out, Conclude(t, pc, out)
      PROVE  handler'[t].pc = pc /\ handler'[t].out = out
  <2>1. handler'[t] = [[h EXCEPT !.pc = pc] EXCEPT !.out = out]
    BY <1>h, <1>c DEF Conclude
  <2> QED
    BY <1>f, <2>1
<1>u. "executing" \notin Unclaimed /\ \A s \in Settled : s \notin Unclaimed /\ s # "executing"
  BY DEF Unclaimed, Settled
<1>s. c \in Calls /\ journal[c] \notin Unclaimed => journal[c] = "executing" \/ journal[c] \in Settled
  BY <1>i DEF Status, Unclaimed
<1>1. CASE CommitCheckpoint(t)
  <2>1. handler'[t].pc \in {"idle", "committed"}
    BY <1>1, <1>h, <1>e DEF CommitCheckpoint, Handle
  <2> QED
    BY <1>1, <1>i, <2>1 DEF CommitCheckpoint, history
<1>2. CASE ReadCheckpoint(t)
  <2>1. handler'[t].pc \in {"idle", "add"}
    BY <1>2, <1>g, <1>e DEF ReadCheckpoint
  <2> QED
    BY <1>2, <1>i, <2>1 DEF ReadCheckpoint, durable, history
<1>3. CASE AddInvocation(t)
  <2> DEFINE record == IF journal[c] = "none" THEN "checkpointed" ELSE journal[c]
  <2>1. c \in Calls /\ record \in {"checkpointed", "executing"} \cup Settled
    BY <1>3, <1>f, <1>i DEF AddInvocation, Status
  <2>2. journal'[c] = record /\ dispatched' = dispatched
    BY <1>3, <1>h, <2>1 DEF AddInvocation, TypeOK, history
  <2>3. \/ handler'[t].pc = "result" /\ handler'[t].out = record
        \/ handler'[t].pc = "markUnknown" /\ record = "executing"
        \/ handler'[t].pc \in {"markCancelled", "policy", "start"}
    <3>1. CASE record \in Settled
      BY <1>3, <1>c, <3>1 DEF AddInvocation
    <3>2. CASE record \notin Settled
      <4>1. handler'[t].pc = Branch(t, record)
        BY <1>3, <1>g, <3>2 DEF AddInvocation
      <4>2. \/ Branch(t, record) = "markUnknown" /\ record = "executing"
            \/ Branch(t, record) \in {"markCancelled", "policy", "start"}
        BY <2>1, <3>2 DEF Branch
      <4> QED
        BY <4>1, <4>2
    <3> QED
      BY <3>1, <3>2
  <2>4. record = "cancelled" => journal[c] = "cancelled"
    OBVIOUS
  <2> QED
    BY <1>i, <1>u, <2>1, <2>2, <2>3, <2>4
<1>4. CASE LessonPolicy(t)
  <2>1. handler'[t].pc \in {"start", "markDenied"}
    BY <1>4, <1>g DEF LessonPolicy
  <2> QED
    BY <1>4, <1>i, <2>1 DEF LessonPolicy, durable, history
<1>5. CASE RefuseCall(t)
  <2>1. c \in Calls /\ dispatched' = dispatched
    BY <1>5, <1>f DEF RefuseCall, history
  <2>2. handler'[t].pc = "result"
    BY <1>5, <1>c DEF RefuseCall
  <2>3. CASE h.pc = "markUnknown"
    <3>1. /\ journal[c] = "executing" => journal'[c] = "unknown"
          /\ journal[c] # "executing" => journal'[c] = journal[c]
      BY <1>5, <1>h, <2>1, <2>3, TransitionType DEF RefuseCall, TypeOK, Status, Settled
    <3>2. journal'[c] \in Settled /\ (journal'[c] = "cancelled" => journal[c] = "cancelled")
      BY <1>k, <1>s, <2>1, <2>3, <3>1 DEF Settled
    <3>3. handler'[t].out = journal'[c]
      BY <1>5, <1>c, <2>3, <3>2 DEF RefuseCall
    <3> QED
      BY <1>i, <2>1, <2>2, <3>2, <3>3
  <2>4. CASE h.pc = "markCancelled"
    <3>1. journal[c] = "checkpointed" /\ dispatched[c] = 0
      BY <1>i, <2>1, <2>4 DEF BeforeClaim, Unclaimed
    <3>2. journal'[c] = "cancelled"
      BY <1>5, <1>h, <2>1, <2>4, <3>1, TransitionType DEF RefuseCall, TypeOK, Status,
         Settled
    <3>3. handler'[t].out = "cancelled"
      BY <1>5, <1>c, <2>4, <3>2 DEF RefuseCall, Settled
    <3> QED
      BY <2>1, <2>2, <3>1, <3>2, <3>3
  <2>5. CASE h.pc = "markDenied"
    <3>1. journal[c] = "checkpointed"
      BY <1>i, <2>5 DEF BeforeClaim
    <3>2. journal'[c] = "failed"
      BY <1>5, <1>h, <2>1, <2>5, <3>1, TransitionType DEF RefuseCall, TypeOK, Status,
         Settled
    <3>3. handler'[t].out = "failed"
      BY <1>5, <1>c, <2>5 DEF RefuseCall
    <3> QED
      BY <2>1, <2>2, <3>2, <3>3
  <2> QED
    BY <1>5, <2>3, <2>4, <2>5 DEF RefuseCall
<1>6. CASE ClaimExecution(t)
  <2>1. c \in Calls /\ journal[c] = "checkpointed"
    BY <1>6, <1>f, <1>i DEF ClaimExecution, BeforeClaim
  <2>2. journal'[c] = "executing"
    BY <1>6, <1>h, <2>1, TransitionType DEF ClaimExecution, TypeOK, Status
  <2>3. handler'[t].pc = "dispatch"
    BY <1>6, <1>g, <2>2 DEF ClaimExecution
  <2> QED
    BY <2>2, <2>3
<1>7. CASE Dispatch(t)
  <2>1. c \in Calls /\ h.pc = "dispatch" /\ journal' = journal
    BY <1>7, <1>f DEF Dispatch, durable
  <2>2. CASE t \notin aborted
    <3>1. handler'[t].pc = "running" /\ dispatched'[c] = 1
      BY <1>7, <1>h, <1>i, <1>g, <2>1, <2>2 DEF Dispatch, TypeOK
    <3> QED
      BY <1>k, <1>u, <2>1, <2>2, <3>1
  <2>3. CASE t \in aborted
    <3>1. handler'[t].pc = "record" /\ handler'[t].out = "unknown" /\ dispatched' = dispatched
      BY <1>7, <1>c, <2>3 DEF Dispatch
    <3> QED
      BY <1>i, <2>1, <3>1
  <2> QED
    BY <2>2, <2>3
<1>8. CASE AdapterReturns(t)
  <2>1. handler'[t].pc = "record" /\ handler'[t].out # "cancelled"
    BY <1>8, <1>c DEF AdapterReturns, Receipts
  <2>2. h.pc = "running" /\ UNCHANGED <<journal, dispatched>>
    BY <1>8 DEF AdapterReturns, durable, history
  <2> QED
    BY <1>i, <1>k, <2>1, <2>2
<1>9. CASE RecordOutcome(t)
  <2>1. c \in Calls /\ h.pc = "record" /\ h.out \in Settled /\ dispatched' = dispatched
    BY <1>9, <1>f DEF RecordOutcome, history
  <2>2. /\ journal[c] = "executing" => journal'[c] = h.out
        /\ journal[c] # "executing" => journal'[c] = journal[c]
    <3>1. h.out \in Status /\ Transition(c, "executing", h.out)
      BY <1>9, <2>1 DEF RecordOutcome, Status
    <3> QED
      BY <1>h, <2>1, <3>1, TransitionType DEF TypeOK
  <2>3. journal'[c] \in Settled /\ (journal'[c] = "cancelled" => journal[c] = "cancelled")
    BY <1>k, <1>s, <2>1, <2>2
  <2>4. handler'[t].pc = "result" /\ handler'[t].out = journal'[c]
    BY <1>9, <1>c, <2>3 DEF RecordOutcome
  <2> QED
    BY <1>i, <2>1, <2>3, <2>4
<1>10. CASE Respond(t) \/ StoreFails(t)
  <2>1. handler'[t].pc = "idle" /\ UNCHANGED <<journal, dispatched>>
    BY <1>10, <1>e DEF Respond, StoreFails, durable, history
  <2> QED
    BY <1>i, <2>1
<1> QED
  BY <1>1, <1>2, <1>3, <1>4, <1>5, <1>6, <1>7, <1>8, <1>9, <1>10 DEF HandlerStep

\* The record of a call changes by its own handler or when its process has gone,
\* and nobody else has a message or a handler that speaks of it by then.
LEMMA KnownStep ==
  ASSUME PInv, Next
  PROVE  Known'
<1>t. /\ TypeOK /\ IInv /\ OneTurnPerCall /\ HandledIsActive /\ OneActive /\ OnePlace
      /\ HandlersKnow /\ MessagesTrue /\ CancelledDidNotRun
      /\ toHost \in Seq(HostBound) /\ toChild \in Seq(ChildBound)
  BY DEF PInv, IInv, TypeOK, Order, Places, Known
<1>n. Idle.pc = "idle" /\ \A t \in Turns : t # NoTurn
  BY DEF Idle, Turns, NoTurn
<1>w. \A m \in ChildWire : m \in ChildBound
  BY <1>t DEF ChildWire
<1>c. /\ \A t \in Turns : handler[t].pc \notin {"idle", "commit", "committed"}
           => handler[t].call \in Calls
      /\ \A t \in Turns : handler[t].pc = "result" => handler[t].out \in Settled
      /\ \A m \in ChildWire : /\ m.turn \in Turns
                              /\ m.kind \in {"result", "reject"} => m.call \in Calls
                              /\ m.kind = "result" => m.val \in Settled
  BY <1>t, <1>w DEF TypeOK, HandlerState, ChildBound
<1>s. "executing" \notin Settled /\ "executing" \notin NotRun
  BY DEF Settled, NotRun
<1>g. ASSUME \A c \in Calls : \/ journal'[c] = journal[c]
                              \/ journal[c] = "executing" /\ journal'[c] = "unknown",
             dispatched' = dispatched,
             \A t \in Turns : handler'[t] = handler[t] \/ handler'[t].pc \in {"idle", "commit", "read"},
             \A t \in Turns : handler'[t].pc = "dispatch" /\ t \notin aborted'
               => t \notin aborted /\ journal' = journal,
             \A m \in ChildWire' : m \in ChildWire \/ m.kind \notin {"result", "reject"}
      PROVE  Known'
  <2>1. HandlersKnow'
    BY <1>t, <1>c, <1>s, <1>g DEF HandlersKnow, Unclaimed
  <2>2. MessagesTrue'
    BY <1>t, <1>c, <1>s, <1>g DEF MessagesTrue
  <2>3. CancelledDidNotRun'
    BY <1>t, <1>g DEF CancelledDidNotRun
  <2> QED
    BY <2>1, <2>2, <2>3 DEF Known
<1>1. CASE BeginStart \/ AdmitTurn \/ RefuseTurn \/ PostStart \/ Stop
  <2>1. UNCHANGED <<journal, handler, dispatched>> /\ aborted \subseteq aborted'
    BY <1>t, <1>1, StartShape
  <2>2. ASSUME NEW x \in ChildWire' PROVE x \in ChildWire \/ x.kind \notin {"result", "reject"}
    <3>1. CASE toChild' = toChild
      BY <3>1 DEF ChildWire
    <3>2. CASE toChild' # toChild
      <4>1. PICK m \in ChildBound : m.kind \in {"start", "cancel"} /\ toChild' = Append(toChild, m)
        BY <1>t, <1>1, <3>2, StartShape
      <4> QED
        BY <1>t, <4>1, PostWire
    <3> QED
      BY <3>1, <3>2
  <2> QED
    BY <1>g, <2>1, <2>2
<1>2. CASE Resume
  <2>1. UNCHANGED <<journal, handler, dispatched, aborted>>
    BY <1>t, <1>2, ResumeShape
  <2>2. PICK m \in ChildBound :
          /\ toChild' = << m >> /\ m.kind # "result"
          /\ m.kind = "reject" => m.call \in ObserveCalls \/ journal[m.call] \in NotRun
    BY <1>t, <1>2, ResumeShape
  <2>3. ChildWire' = {m}
    BY <2>2 DEF ChildWire
  <2> QED
    BY <1>t, <2>1, <2>2, <2>3 DEF Known, HandlersKnow, MessagesTrue, CancelledDidNotRun
<1>3. CASE FinishRun \/ ModelFails \/ RequestTimesOut \/ (\E c \in Calls : RequestTool(c))
  <2>1. UNCHANGED <<journal, handler, dispatched, toChild, aborted>>
    BY <1>t, <1>3, RequestShape
  <2>2. ChildWire' = ChildWire
    BY <2>1 DEF ChildWire
  <2> QED
    BY <1>g, <2>1, <2>2
<1>4. CASE ChildReceive
  <2>1. UNCHANGED <<journal, handler, dispatched, aborted>>
    BY <1>t, <1>4, ReceiveShape
  <2>2. ChildWire' \subseteq ChildWire
    <3>1. PICK m \in ChildWire : ChildTakes(m)
      BY <1>t, <1>4, ReceiveShape
    <3> QED
      BY <1>t, <3>1, ChildTakesWire
  <2> QED
    BY <1>g, <2>1, <2>2
<1>5. CASE HostReceive
  <2>1. UNCHANGED <<journal, dispatched, toChild>>
    BY <1>t, <1>5, HostShape
  <2>2. /\ \A t \in Turns : handler'[t] = handler[t] \/ handler'[t].pc \in {"commit", "read"}
        /\ aborted \subseteq aborted'
    BY <1>t, <1>5, HostShape
  <2>3. ChildWire' = ChildWire
    BY <2>1 DEF ChildWire
  <2> QED
    BY <1>g, <2>1, <2>2, <2>3
<1>6. ASSUME NEW t \in Turns, HandlerStep(t) \/ AdapterReturns(t) \/ StoreFails(t)
      PROVE  Known'
  <2> DEFINE k == handler[t].call
  <2>1. /\ Handled(t) /\ aborted' = aborted
        /\ \A u \in Turns : u # t => handler'[u] = handler[u]
        /\ \A c \in Calls : c # k => journal'[c] = journal[c] /\ dispatched'[c] = dispatched[c]
        /\ handler'[t].pc # "idle" => handler'[t].call = k
    BY <1>t, <1>6, HandlerShape, HandlerFacts
  <2>2. /\ handler'[t].pc = "dispatch" => journal'[k] = "executing"
        /\ handler'[t].pc \in {"markUnknown", "running", "record"} => journal'[k] \notin Unclaimed
        /\ handler'[t].pc = "running" => dispatched'[k] = 1
        /\ handler'[t].pc = "record"
             => /\ handler'[t].out # "cancelled"
                /\ handler'[t].out = "unknown" \/ dispatched'[k] = 1
        /\ handler'[t].pc = "result" => journal'[k] = handler'[t].out
        /\ k \in Calls /\ journal'[k] = "cancelled" => dispatched'[k] = 0
    BY <1>t, <1>6, HandlerLearns
  <2>h. k \in Calls => Involved(t, k)
    BY <2>1 DEF Involved, Handles, Handled
  <2> HIDE DEF k
  <2>3. ASSUME NEW u \in Turns, u # t, handler[u].pc \notin {"idle", "commit", "committed"}
        PROVE  handler[u].call \in Calls /\ handler[u].call # k
    <3>1. Involved(u, handler[u].call) /\ handler[u].call \in Calls
      BY <1>c, <2>3 DEF Involved, Handles
    <3> QED
      BY <1>t, <2>3, <2>h, <3>1 DEF OneTurnPerCall
  <2>4. HandlersKnow'
    <3> SUFFICES ASSUME NEW u \in Turns
                 PROVE  /\ handler'[u].pc = "dispatch" /\ u \notin aborted'
                             => journal'[handler'[u].call] = "executing"
                        /\ handler'[u].pc \in {"markUnknown", "running", "record"}
                             => journal'[handler'[u].call] \notin Unclaimed
                        /\ handler'[u].pc = "running" => dispatched'[handler'[u].call] = 1
                        /\ handler'[u].pc = "record"
                             => /\ handler'[u].out # "cancelled"
                                /\ \/ handler'[u].out = "unknown"
                                   \/ dispatched'[handler'[u].call] = 1
                        /\ handler'[u].pc = "result"
                             => journal'[handler'[u].call] = handler'[u].out
      BY DEF HandlersKnow, Unclaimed
    <3>1. CASE u = t
      BY <2>1, <2>2, <3>1
    <3>2. CASE u # t
      BY <1>t, <2>1, <2>3, <3>2 DEF HandlersKnow
    <3> QED
      BY <3>1, <3>2
  <2>5. ASSUME NEW m \in ChildWire, m.kind = "result" PROVE journal'[m.call] = m.val
    BY <1>t, <1>c, <1>6, <2>5, SettledStep DEF MessagesTrue, Next
  <2>6. ASSUME NEW m \in ChildWire, m.kind = "reject" PROVE m.call # k
    <3>1. Involved(m.turn, m.call) /\ Addressed(m.turn)
      BY <2>6, WireInvolves DEF Involved, Addressed
    <3> QED
      BY <1>t, <1>c, <2>1, <2>6, <2>h, <3>1 DEF OneTurnPerCall, OnePlace
  <2>7. ASSUME NEW m \in ChildWire', m \notin ChildWire, m.kind \in {"result", "reject"}
        PROVE  m.kind = "result" /\ journal'[m.call] = m.val
    <3>1. toChild' # toChild
      BY <2>7 DEF ChildWire
    <3>2. PICK x \in ChildBound :
            /\ toChild' = Append(toChild, x) /\ journal' = journal
            /\ x.kind = handler[t].pc /\ x.kind \in {"committed", "result"}
            /\ x.call = handler[t].call /\ x.val = handler[t].out
      BY <1>t, <1>6, <3>1, HandlerShape
    <3>3. m = x
      BY <1>t, <2>7, <3>2, PostWire
    <3> QED
      BY <1>t, <2>7, <3>2, <3>3 DEF HandlersKnow
  <2>8. MessagesTrue'
    BY <1>t, <1>c, <2>1, <2>5, <2>6, <2>7 DEF MessagesTrue
  <2>9. CancelledDidNotRun'
    BY <1>t, <2>1, <2>2 DEF CancelledDidNotRun
  <2> QED
    BY <2>4, <2>8, <2>9 DEF Known
<1>7. CASE ProcessDies \/ ExitStep \/ Restart
  <2>1. /\ dispatched' = dispatched
        /\ \A c \in Calls : \/ journal'[c] = journal[c]
                            \/ journal[c] = "executing" /\ journal'[c] = "unknown"
        /\ \A t \in Turns : handler'[t] = handler[t] \/ handler'[t].pc = "idle"
    BY <1>t, <1>n, <1>7, FailureInvolves
  <2>2. ChildWire' \subseteq ChildWire
    BY <1>t, <1>7, FailureShape DEF ChildWire
  <2>3. ASSUME NEW t \in Turns, handler'[t].pc = "dispatch", t \notin aborted'
        PROVE  t \notin aborted /\ journal' = journal
    <3>1. CASE ProcessDies
      BY <2>3, <3>1 DEF ProcessDies, durable, hostVars
    <3>2. CASE ProcessExits
      BY <2>3, <3>2 DEF ProcessExits, durable
    <3>3. CASE SettleExit
      BY <1>t, <1>n, <2>3, <3>3 DEF SettleExit, HandledIsActive, Handled, OneActive
    <3>4. CASE Restart
      BY <1>n, <2>3, <3>4 DEF Restart
    <3> QED
      BY <1>7, <3>1, <3>2, <3>3, <3>4 DEF ExitStep
  <2> QED
    BY <1>g, <2>1, <2>2, <2>3
<1> QED
  BY <1>1, <1>2, <1>3, <1>4, <1>5, <1>6, <1>7 DEF Next, StartStep, ChildStep

(***************************************************************************)
(* AnswersAreLast.                                                         *)
(***************************************************************************)

\* When the model takes an answer nobody else is left with the call: the only
\* turn that had it is the model's own, and its work was in that message.
LEMMA AnswerIsLast ==
  ASSUME PInv, ChildReceive, NEW m \in ChildWire, ChildTakes(m), m.kind \in {"reject", "result"},
         child'.call = NoCall, toHost' = toHost,
         NEW t \in Turns
  PROVE  ~Involved(t, m.call)'
<1>t. /\ TypeOK /\ IInv /\ OneTurnPerCall /\ OnePlace /\ UniqueAnswers
      /\ toHost \in Seq(HostBound) /\ toChild \in Seq(ChildBound)
  BY DEF PInv, IInv, TypeOK, Places
<1>w. /\ \A x \in ChildWire : x \in ChildBound
      /\ \A x \in HostWire : x \in HostBound
  BY <1>t DEF ChildWire, HostWire
<1>m. m.turn \in Turns /\ m.call \in Calls /\ m.kind # "cancel"
  BY <1>w DEF ChildBound
<1> SUFFICES ASSUME Involved(t, m.call)' PROVE FALSE
  OBVIOUS
<1>1. t = m.turn
  <2>1. Involved(m.turn, m.call) /\ Involved(t, m.call)
    BY <1>t, <1>m, WireInvolves, ChildReceiveInvolves DEF Involved
  <2> QED
    BY <1>t, <1>m, <2>1 DEF OneTurnPerCall
<1>2. Addressed(t) /\ ~Handled(t) /\ ~Requested(t)
  BY <1>t, <1>m, <1>1 DEF OnePlace, Addressed
<1>3. ~Handles(t, m.call)'
  BY <1>t, <1>2, ChildReceiveInvolves DEF Handles, Handled
<1>4. ~Runs(t, m.call)'
  BY <1>m, CallsAssumption DEF Runs
<1>5. ~Sent(t, m.call)'
  <2>1. \A x \in HostWire : x.call = m.call => x.kind \in Request
    BY <1>m, <1>w, CallsAssumption DEF HostBound, Request
  <2>2. ~Sent(t, m.call)
    BY <1>2, <2>1, WireInvolves DEF Requested
  <2> QED
    BY <2>2 DEF Sent
<1>6. ~Posted(t, m.call)'
  <2>1. ChildWire' \subseteq ChildWire /\ ~Addressed(t)'
    BY <1>t, <1>m, <1>1, ChildTakesWire
  <2>2. \A x \in ChildWire : x.call = m.call => x.kind # "cancel"
    BY <1>m, <1>w, CallsAssumption DEF ChildBound
  <2> SUFFICES ASSUME Posted(t, m.call)' PROVE FALSE
    OBVIOUS
  <2>3. PICK i \in 1 .. Len(toChild') : toChild'[i].turn = t /\ toChild'[i].call = m.call
    BY DEF Posted
  <2>4. toChild'[i] \in ChildWire'
    BY DEF ChildWire
  <2> QED
    BY <2>1, <2>2, <2>3, <2>4 DEF Addressed
<1> QED
  BY <1>3, <1>4, <1>5, <1>6 DEF Involved

\* What the model was told stays the last word: an answered call is nobody's
\* any more, and a settled or unclaimed record changes by a handler alone.
LEMMA AnswersStep ==
  ASSUME PInv, Next
  PROVE  AnswersAreLast'
<1>t. /\ TypeOK /\ IInv /\ AskedFirst /\ AnswersAreLast /\ MessagesTrue
      /\ told \in [Calls -> Told]
      /\ toChild \in Seq(ChildBound)
  BY DEF PInv, IInv, TypeOK, Known
<1>s. /\ "executing" \notin Settled /\ "executing" \notin NotRun
      /\ \A c \in Calls : told[c] \in {"none", "rejected"} \cup Settled
  BY <1>t DEF Settled, NotRun, Told
<1>g. ASSUME NEW c \in Calls, told'[c] = told[c],
             asked[c] # NoTurn => asked'[c] # NoTurn,
             asked[c] # NoTurn => \A t \in Turns : Involved(t, c)' => Involved(t, c),
             (\A t \in Turns : ~Involved(t, c)) =>
                \/ journal'[c] = journal[c]
                \/ journal[c] = "executing" /\ journal'[c] = "unknown"
      PROVE  told'[c] # "none" =>
               /\ asked'[c] # NoTurn
               /\ \A t \in Turns : ~Involved(t, c)'
               /\ told'[c] = "rejected" => c \in ObserveCalls \/ journal'[c] \in NotRun
               /\ told'[c] # "rejected" => journal'[c] = told'[c]
  <2>1. CASE told[c] # "none"
    <3>1. /\ asked[c] # NoTurn /\ \A t \in Turns : ~Involved(t, c)
          /\ told[c] = "rejected" => c \in ObserveCalls \/ journal[c] \in NotRun
          /\ told[c] # "rejected" => journal[c] = told[c]
      BY <1>t, <2>1 DEF AnswersAreLast
    <3>2. CASE journal'[c] = journal[c]
      BY <1>g, <3>1, <3>2
    <3>3. CASE journal[c] = "executing"
      BY <1>g, <1>s, <2>1, <3>1, <3>3
    <3> QED
      BY <1>g, <3>1, <3>2, <3>3
  <2> QED
    BY <1>g, <2>1
<1>q. ASSUME \A c \in Calls : told'[c] # "none" =>
               /\ asked'[c] # NoTurn
               /\ \A t \in Turns : ~Involved(t, c)'
               /\ told'[c] = "rejected" => c \in ObserveCalls \/ journal'[c] \in NotRun
               /\ told'[c] # "rejected" => journal'[c] = told'[c]
      PROVE  AnswersAreLast'
  BY <1>q DEF AnswersAreLast, NotRun
<1>1. CASE BeginStart \/ AdmitTurn \/ RefuseTurn \/ PostStart \/ Stop
  <2>1. /\ UNCHANGED <<told, asked, journal>>
        /\ \A t \in Turns, c \in Calls : Involved(t, c)' => Involved(t, c)
    BY <1>t, <1>1, StartShape, StartInvolves
  <2> QED
    BY <1>g, <1>q, <2>1
<1>2. CASE Resume
  <2>1. /\ \A c \in Calls : told'[c] = IF c = checkpoint.call THEN "none" ELSE told[c]
        /\ UNCHANGED <<asked, journal>>
        /\ \A t \in Turns, c \in Calls : Involved(t, c)' => c = checkpoint.call
    BY <1>t, <1>2, ResumeShape, ResumeInvolves
  <2> QED
    BY <1>g, <1>q, <2>1
<1>3. CASE FinishRun \/ ModelFails \/ RequestTimesOut
  <2>1. /\ UNCHANGED <<told, asked, journal>>
        /\ \A t \in Turns, c \in Calls : Involved(t, c)' => Involved(t, c)
    BY <1>t, <1>3, RequestShape, ChildEndsInvolves
  <2> QED
    BY <1>g, <1>q, <2>1
<1>4. ASSUME NEW d \in Calls, RequestTool(d)
      PROVE  AnswersAreLast'
  <2>1. UNCHANGED <<told, journal>>
    BY <1>t, <1>4, RequestShape
  <2>2. /\ \A t \in Turns, c \in Calls : Involved(t, c)' => Involved(t, c) \/ c = d
        /\ asked[d] = NoTurn /\ \A c \in Calls : c # d => asked'[c] = asked[c]
    BY <1>t, <1>4, RequestInvolves
  <2>3. told[d] = "none"
    BY <1>t, <2>2 DEF AnswersAreLast
  <2> QED
    BY <1>g, <1>q, <2>1, <2>2, <2>3
<1>5. CASE ChildReceive
  <2>1. /\ UNCHANGED <<asked, journal>>
        /\ \A t \in Turns, c \in Calls : Involved(t, c)' => Involved(t, c)
    BY <1>t, <1>5, ChildReceiveInvolves
  <2>2. CASE told' = told
    BY <1>g, <1>q, <2>1, <2>2
  <2>3. CASE told' # told
    <3>1. PICK m \in ChildWire :
            /\ ChildTakes(m) /\ child'.call = NoCall /\ toHost' = toHost
            /\ \/ m.kind = "reject" /\ told' = [told EXCEPT ![m.call] = "rejected"]
               \/ /\ m.kind = "result" /\ told' = [told EXCEPT ![m.call] = m.val]
                  /\ m.val \in {"completed", "failed", "observe"}
      BY <1>t, <1>5, <2>3, ReceiveShape
    <3>2. m.call \in Calls /\ m.turn \in Turns
      BY <1>t, <3>1 DEF ChildWire, ChildBound
    <3>3. /\ \A c \in Calls : c # m.call => told'[c] = told[c]
          /\ told'[m.call] = "rejected" => m.call \in ObserveCalls \/ journal[m.call] \in NotRun
          /\ told'[m.call] # "rejected" => journal[m.call] = told'[m.call]
      BY <1>t, <3>1, <3>2 DEF MessagesTrue
    <3>4. \A t \in Turns : ~Involved(t, m.call)'
      BY <1>5, <3>1, AnswerIsLast
    <3>5. asked[m.call] # NoTurn
      BY <1>t, <3>2, WireInvolves DEF AskedFirst, Involved
    <3> QED
      BY <1>g, <1>q, <2>1, <3>3, <3>4, <3>5
  <2> QED
    BY <2>2, <2>3
<1>6. CASE HostReceive
  <2>1. /\ UNCHANGED <<told, asked, journal>>
        /\ \A t \in Turns, c \in Calls : Involved(t, c)' => Involved(t, c)
    BY <1>t, <1>6, HostShape, HostReceiveInvolves
  <2> QED
    BY <1>g, <1>q, <2>1
<1>7. ASSUME NEW u \in Turns, HandlerStep(u) \/ AdapterReturns(u) \/ StoreFails(u)
      PROVE  AnswersAreLast'
  <2>1. /\ UNCHANGED <<told, asked>> /\ Handled(u)
        /\ \A t \in Turns, c \in Calls : Involved(t, c)' => Involved(t, c)
    BY <1>t, <1>7, HandlerShape, HandlerInvolves
  <2>2. \A c \in Calls : ~Involved(u, c) => journal'[c] = journal[c]
    BY <1>t, <1>7, <2>1, HandlerFacts DEF Involved, Handles, Handled
  <2> QED
    BY <1>g, <1>q, <2>1, <2>2
<1>8. CASE ProcessDies \/ ExitStep \/ Restart
  <2>1. /\ UNCHANGED <<told, asked>>
        /\ \A t \in Turns, c \in Calls : Involved(t, c)' => Involved(t, c)
        /\ \A c \in Calls : \/ journal'[c] = journal[c]
                            \/ journal[c] = "executing" /\ journal'[c] = "unknown"
    BY <1>t, <1>8, FailureShape, FailureInvolves
  <2> QED
    BY <1>g, <1>q, <2>1
<1> QED
  BY <1>1, <1>2, <1>3, <1>4, <1>5, <1>6, <1>7, <1>8 DEF Next, StartStep, ChildStep

(***************************************************************************)
(* The invariant holds.                                                    *)
(***************************************************************************)
LEMMA PromiseInit == Init => PInv
<1> SUFFICES ASSUME Init PROVE PInv
  OBVIOUS
<1>1. IInv
  BY InvariantInit
<1>2. /\ child = NoChild /\ toHost = << >> /\ toChild = << >> /\ HostWire = {} /\ ChildWire = {}
      /\ \A t \in Turns : handler[t] = Idle
      /\ checkpoint.rev = 0
  BY DEF Init, HostWire, ChildWire
<1>3. Idle.pc = "idle" /\ Idle.rev = 0 /\ NoChild.rev = 0 /\ NoChild.turn = NoTurn
      /\ \A t \in Turns : t # NoTurn
  BY DEF Idle, NoChild, Turns, NoTurn
<1>4. Order
  BY <1>2, <1>3 DEF Init, Order, RevisionsKnown, NewestIsFresh, OneActive,
     HandledIsActive, Around,
     Handled, Addressed
<1>5. Current
  BY <1>2, <1>3 DEF Init, Current, LateCommitsFail, ApprovedIsCurrent, Working
<1>6. Places
  BY <1>2, <1>3 DEF Places, UniqueRequests, UniqueAnswers, OnePlace, Modelling, Handled,
     Requested,
     Addressed
<1>7. Known
  BY <1>2, <1>3 DEF Init, Known, HandlersKnow, MessagesTrue, CancelledDidNotRun
<1>8. AnswersAreLast
  BY DEF Init, AnswersAreLast
<1> QED
  BY <1>1, <1>4, <1>5, <1>6, <1>7, <1>8 DEF PInv

\* Every step keeps the invariant.
LEMMA PromiseStep == PInv /\ [Next]_vars => PInv'
<1> SUFFICES ASSUME PInv, [Next]_vars PROVE PInv'
  OBVIOUS
<1>1. IInv'
  BY InvariantStep DEF PInv
<1>2. CASE Next
  <2>1. Order'
    BY <1>2, RevisionsStep, FreshStep, ActiveStep DEF Order
  <2> QED
    BY <1>1, <1>2, <2>1, CurrentStep, PlacesStep, KnownStep, AnswersStep DEF PInv
<1>3. CASE UNCHANGED vars
  <2>1. UNCHANGED <<checkpoint, journal, turns, stage, active, aborted, exiting, handler, child,
                    toHost, toChild, asked, told, dispatched>>
    BY <1>3 DEF vars, durable, hostVars, procVars, history
  <2>2. HostWire' = HostWire /\ ChildWire' = ChildWire
    BY <2>1 DEF HostWire, ChildWire
  <2>3. Order'
    BY <2>1, <2>2 DEF PInv, Order, RevisionsKnown, NewestIsFresh, OneActive,
       HandledIsActive,
       Around, Handled, Addressed
  <2>4. \A t \in Turns, c \in Calls : Involved(t, c)' <=> Involved(t, c)
    BY <2>1 DEF Involved, Handles, Runs, Sent, Posted
  <2>5. Current'
    BY <2>1, <2>4 DEF PInv, Current, LateCommitsFail, CheckpointIsActive,
       ApprovedIsCurrent
  <2>6. Places'
    BY <2>1, <2>2 DEF PInv, Places, UniqueRequests, UniqueAnswers, OnePlace, Modelling,
       Handled,
       Requested, Addressed
  <2>7. Known'
    BY <2>1, <2>2 DEF PInv, Known, HandlersKnow, MessagesTrue, CancelledDidNotRun,
       Unclaimed
  <2>8. AnswersAreLast'
    BY <2>1, <2>4 DEF PInv, AnswersAreLast, NotRun
  <2> QED
    BY <1>1, <2>3, <2>5, <2>6, <2>7, <2>8 DEF PInv
<1> QED
  BY <1>2, <1>3

\* The second invariant holds in every state of the thread: a turn's work is in
\* one place, and an answer is the last word about its call.
THEOREM PromiseInvariant == Spec => []PInv
  BY PromiseInit, PromiseStep, PTL DEF Spec

(***************************************************************************)
(* What it says of the runtime.                                            *)
(***************************************************************************)

\* What the model is told about a call is what the journal records, and it is
\* told "did not run" only of a call that did not run or only looked
\* (modelToolResult, applyPendingToolResume).
THEOREM ToldTheTruthHolds == Spec => []ToldTheTruth
<1>1. PInv => ToldTheTruth
  <2> SUFFICES ASSUME PInv, NEW c \in Calls
               PROVE  /\ told[c] \in Settled => journal[c] = told[c]
                      /\ told[c] = "rejected" => dispatched[c] = 0 \/ c \in ObserveCalls
    BY DEF ToldTheTruth
  <2>1. /\ told[c] # "none" /\ told[c] # "rejected" => journal[c] = told[c]
        /\ told[c] = "rejected" => c \in ObserveCalls \/ journal[c] \in NotRun
    BY DEF PInv, AnswersAreLast
  <2>2. journal[c] \in NotRun => dispatched[c] = 0
    BY DEF PInv, Known, CancelledDidNotRun, NotRun, IInv, TypeOK, DispatchedIsClaimed,
       Unclaimed
  <2> QED
    BY <2>1, <2>2 DEF Settled
<1> QED
  BY <1>1, PromiseInvariant, PTL

\* An adapter is called by Dispatch alone.
LEMMA DispatchAlone ==
  ASSUME PInv, [Next]_vars, dispatched' # dispatched
  PROVE  \E t \in Turns :
           /\ Dispatch(t) /\ t \notin aborted /\ handler[t].pc = "dispatch"
           /\ handler[t].call \in Calls
           /\ dispatched' = [dispatched EXCEPT ![handler[t].call] = @ + 1]
<1>t. TypeOK /\ IInv
  BY DEF PInv, IInv
<1>1. Next
  BY DEF vars, history
<1>2. PICK t \in Turns : HandlerStep(t) \/ AdapterReturns(t) \/ StoreFails(t)
  BY <1>t, <1>1, StartShape, ResumeShape, RequestShape, ReceiveShape, HostShape,
     FailureShape
  DEF Next, StartStep, ChildStep
<1>3. Dispatch(t)
  BY <1>2 DEF HandlerStep, CommitCheckpoint, ReadCheckpoint, AddInvocation, LessonPolicy,
     RefuseCall, ClaimExecution, AdapterReturns, RecordOutcome, Respond, StoreFails, history
<1>4. handler[t].pc = "dispatch" /\ handler[t].call \in Calls
  BY <1>t, <1>3 DEF Dispatch, TypeOK, HandlerState
<1> QED
  BY <1>3, <1>4 DEF Dispatch

\* The handler that calls an adapter has its call in the journal and in the checkpoint.
LEMMA DispatchIsDurable ==
  ASSUME PInv, NEW t \in Turns, handler[t].pc = "dispatch", t \notin aborted
  PROVE  journal[handler[t].call] = "executing" /\ checkpoint.call = handler[t].call
<1>1. t = active
  BY DEF PInv, Order, HandledIsActive, Handled
<1> QED
  BY <1>1 DEF PInv, Known, HandlersKnow, Current, ApprovedIsCurrent, Working

\* When an adapter is called, the store already holds the checkpoint that names
\* the call and the journal already says executing (toolExecute, commitCheckpoint).
THEOREM DurableBeforeEffectHolds == Spec => DurableBeforeEffect
<1>1. PInv /\ [Next]_vars =>
        [\A c \in Calls : dispatched'[c] # dispatched[c]
           => journal[c] = "executing" /\ checkpoint.call = c]_vars
  <2> SUFFICES ASSUME PInv, [Next]_vars, NEW c \in Calls, dispatched'[c] # dispatched[c]
               PROVE  journal[c] = "executing" /\ checkpoint.call = c
    OBVIOUS
  <2>1. PICK t \in Turns :
          /\ t \notin aborted /\ handler[t].pc = "dispatch" /\ handler[t].call \in Calls
          /\ dispatched' = [dispatched EXCEPT ![handler[t].call] = @ + 1]
    BY DispatchAlone
  <2>2. c = handler[t].call
    BY <2>1 DEF PInv, IInv, TypeOK
  <2> QED
    BY <2>1, <2>2, DispatchIsDurable
<1> QED
  BY <1>1, PromiseInvariant, PTL DEF Spec, DurableBeforeEffect

(***************************************************************************)
(* AgentTurn implements ToolCallPromise.                                   *)
(***************************************************************************)

\* The promise's record of a call.
Record(c) == CASE journal[c] \in {"none", "checkpointed"} -> "open"
               [] journal[c] = "executing" -> "claimed"
               [] OTHER -> journal[c]

\* A call that somebody still works on has not been answered.
LEMMA InvolvedIsUnanswered ==
  ASSUME PInv, NEW t \in Turns, NEW c \in Calls, Involved(t, c)
  PROVE  told[c] = "none"
  BY DEF PInv, AnswersAreLast

\* How a handler moves the record of its call.
LEMMA JournalMoves ==
  ASSUME PInv, NEW t \in Turns, HandlerStep(t) \/ AdapterReturns(t) \/ StoreFails(t),
         journal' # journal
  PROVE  \E c \in Calls, s \in Status :
           /\ c = handler[t].call
           /\ journal' = [journal EXCEPT ![c] = s] /\ dispatched' = dispatched
           /\ \/ journal[c] = "none" /\ s = "checkpointed"
              \/ journal[c] = "checkpointed" /\ s \in {"executing", "cancelled", "failed"}
              \/ /\ journal[c] = "executing" /\ s \in {"completed", "failed", "observe", "unknown"}
                 /\ s = "unknown" \/ dispatched[c] = 1
<1> DEFINE h == handler[t]
           c == handler[t].call
<1>t. TypeOK /\ IInv /\ h \in HandlerState
  BY DEF PInv, IInv, TypeOK
<1>f. /\ h.pc \notin {"idle", "commit", "committed"} => c \in Calls
      /\ h.pc \in {"record", "result"} => h.out \in Settled
      /\ c \in Calls => journal[c] \in Status
      /\ h.pc \in BeforeClaim => journal[c] = "checkpointed"
      /\ h.pc = "record" => h.out # "cancelled" /\ (h.out = "unknown" \/ dispatched[c] = 1)
  BY <1>t DEF HandlerState, TypeOK, IInv, HandlersFollowJournal, PInv, Known, HandlersKnow
<1>1. CASE AddInvocation(t)
  <2>1. c \in Calls /\ h.pc = "add"
    BY <1>1, <1>f DEF AddInvocation
  <2>2. journal[c] = "none" /\ journal' = [journal EXCEPT ![c] = "checkpointed"]
    <3>1. CASE journal[c] = "none"
      BY <1>1, <3>1 DEF AddInvocation
    <3>2. CASE journal[c] # "none"
      <4>1. journal' = [journal EXCEPT ![c] = journal[c]]
        BY <1>1, <3>2 DEF AddInvocation
      <4> QED
        BY <1>t, <4>1 DEF TypeOK
    <3> QED
      BY <3>1, <3>2
  <2> QED
    BY <1>1, <2>1, <2>2 DEF AddInvocation, history, Status
<1>2. CASE RefuseCall(t) \/ ClaimExecution(t) \/ RecordOutcome(t)
  <2>1. c \in Calls /\ dispatched' = dispatched
    BY <1>2, <1>f DEF RefuseCall, ClaimExecution, RecordOutcome, history
  <2>2. PICK e, s : /\ Transition(c, e, s)
                    /\ \/ /\ h.pc \in BeforeClaim /\ e = "checkpointed"
                          /\ s \in {"executing", "cancelled", "failed"}
                       \/ h.pc = "markUnknown" /\ e = "executing" /\ s = "unknown"
                       \/ h.pc = "record" /\ e = "executing" /\ s = h.out
    BY <1>2 DEF RefuseCall, ClaimExecution, RecordOutcome, BeforeClaim
  <2>3. journal[c] = e /\ journal' = [journal EXCEPT ![c] = s]
    BY <2>2 DEF Transition
  <2>4. \/ journal[c] = "checkpointed" /\ s \in {"executing", "cancelled", "failed"}
        \/ /\ journal[c] = "executing" /\ s \in {"completed", "failed", "observe", "unknown"}
           /\ s = "unknown" \/ dispatched[c] = 1
    BY <1>f, <2>2, <2>3 DEF Settled
  <2>5. s \in Status
    BY <2>4 DEF Status, Settled
  <2> QED
    BY <2>1, <2>3, <2>4, <2>5
<1> QED
  BY <1>1, <1>2 DEF HandlerStep, CommitCheckpoint, ReadCheckpoint, LessonPolicy, Dispatch,
     AdapterReturns, Respond, StoreFails, durable

\* The promise's record follows the journal, one call at a time.
LEMMA RecordMoves ==
  ASSUME TypeOK, NEW c \in Calls, NEW s \in Status, journal' = [journal EXCEPT ![c] = s]
  PROVE  /\ \A k \in Calls : Record(k)' = IF k = c
                                          THEN CASE s \in {"none", "checkpointed"} -> "open"
                                                 [] s = "executing" -> "claimed"
                                                 [] OTHER -> s
                                          ELSE Record(k)
         /\ [k \in Calls |-> Record(k)]' =
              [[k \in Calls |-> Record(k)] EXCEPT ![c] = Record(c)']
<1>1. \A k \in Calls : journal'[k] = IF k = c THEN s ELSE journal[k]
  BY DEF TypeOK
<1>2. \A k \in Calls : k # c => Record(k)' = Record(k)
  BY <1>1 DEF Record
<1>3. Record(c)' = CASE s \in {"none", "checkpointed"} -> "open"
                     [] s = "executing" -> "claimed"
                     [] OTHER -> s
  BY <1>1 DEF Record
<1>4. [k \in Calls |-> Record(k)]' = [[k \in Calls |-> Record(k)] EXCEPT ![c] = Record(c)']
  <2>1. [k \in Calls |-> Record(k)]' = [k \in Calls |-> Record(k)']
    OBVIOUS
  <2> QED
    BY <1>2, <2>1
<1> QED
  BY <1>2, <1>3, <1>4

\* A claimed call is settled: unknown, or as its one adapter call came out.
LEMMA SettlePromise ==
  ASSUME NEW c \in Calls, NEW s \in {"completed", "failed", "observe", "unknown"},
         s = "unknown" \/ dispatched[c] = 1, Record(c) = "claimed", UNCHANGED <<dispatched, told>>,
         [k \in Calls |-> Record(k)]' = [[k \in Calls |-> Record(k)] EXCEPT ![c] = s]
  PROVE  Promise!Settle(c)
<1>1. \E out \in {"completed", "failed", "observe", "unknown"} :
        /\ out = "unknown" \/ dispatched[c] = 1
        /\ [k \in Calls |-> Record(k)]' = [[k \in Calls |-> Record(k)] EXCEPT ![c] = out]
  OBVIOUS
<1> QED
  BY <1>1 DEF Promise!Settle, Record

\* A handler's step claims, runs, settles or refuses its call, or leaves it.
LEMMA HandlerPromise ==
  ASSUME PInv, NEW t \in Turns, HandlerStep(t) \/ AdapterReturns(t) \/ StoreFails(t)
  PROVE  [Promise!Next]_(Promise!vars)
<1>t. TypeOK /\ IInv /\ told' = told
  BY HandlerShape DEF PInv, IInv
<1>1. CASE journal' # journal
  <2>1. PICK c \in Calls, s \in Status :
           /\ c = handler[t].call
           /\ journal' = [journal EXCEPT ![c] = s] /\ dispatched' = dispatched
           /\ \/ journal[c] = "none" /\ s = "checkpointed"
              \/ journal[c] = "checkpointed" /\ s \in {"executing", "cancelled", "failed"}
              \/ /\ journal[c] = "executing" /\ s \in {"completed", "failed", "observe", "unknown"}
                 /\ s = "unknown" \/ dispatched[c] = 1
    BY <1>1, JournalMoves
  <2>2. /\ [k \in Calls |-> Record(k)]' = [[k \in Calls |-> Record(k)] EXCEPT ![c] = Record(c)']
        /\ Record(c)' = CASE s \in {"none", "checkpointed"} -> "open"
                          [] s = "executing" -> "claimed"
                          [] OTHER -> s
    BY <1>t, <2>1, RecordMoves
  <2>3. CASE journal[c] = "none"
    <3>1. Record(c)' = "open" /\ Record(c) = "open"
      BY <2>1, <2>2, <2>3 DEF Record
    <3>2. [k \in Calls |-> Record(k)]' = [k \in Calls |-> Record(k)]
      BY <2>2, <3>1
    <3> QED
      BY <1>t, <2>1, <3>2 DEF Promise!vars, Record
  <2>4. CASE journal[c] = "checkpointed" /\ s = "executing"
    <3>1. Record(c)' = "claimed" /\ Record(c) = "open"
      BY <2>2, <2>4 DEF Record
    <3>2. Promise!Claim(c)
      BY <1>t, <2>1, <2>2, <3>1 DEF Promise!Claim, Record
    <3> QED
      BY <3>2 DEF Promise!Next
  <2>5. CASE journal[c] = "checkpointed" /\ s \in {"cancelled", "failed"}
    <3>1. Record(c)' = s /\ Record(c) = "open"
      BY <2>2, <2>5 DEF Record
    <3>2. [k \in Calls |-> Record(k)]' = [[k \in Calls |-> Record(k)] EXCEPT ![c] = s]
      BY <2>2, <3>1
    <3>3. s \in {"cancelled", "failed"}
      BY <2>5
    <3>4. Promise!Refuse(c)
      BY <1>t, <2>1, <3>1, <3>2, <3>3 DEF Promise!Refuse, Record
    <3> QED
      BY <3>4 DEF Promise!Next
  <2>6. CASE journal[c] = "executing"
    <3>1. Record(c)' = s /\ Record(c) = "claimed"
      BY <2>1, <2>2, <2>6 DEF Record
    <3>2. Promise!Settle(c)
      BY <1>t, <2>1, <2>2, <2>6, <3>1, SettlePromise
    <3> QED
      BY <3>2 DEF Promise!Next
  <2> QED
    BY <2>1, <2>3, <2>4, <2>5, <2>6
<1>2. CASE journal' = journal /\ dispatched' # dispatched
  <2>1. PICK u \in Turns :
          /\ u \notin aborted /\ handler[u].pc = "dispatch" /\ handler[u].call \in Calls
          /\ dispatched' = [dispatched EXCEPT ![handler[u].call] = @ + 1]
    BY <1>2, DispatchAlone DEF Next
  <2>2. PICK c \in Calls : c = handler[u].call
    BY <2>1
  <2>3. Record(c) = "claimed"
    BY <2>1, <2>2, DispatchIsDurable DEF Record
  <2>4. dispatched[c] = 0
    BY <1>t, <2>1, <2>2 DEF IInv, HandlersFollowJournal
  <2>5. told[c] = "none"
    BY <2>1, <2>2, InvolvedIsUnanswered DEF Involved, Handles
  <2>6. Promise!Run(c)
    BY <1>t, <1>2, <2>1, <2>2, <2>3, <2>4, <2>5 DEF Promise!Run, Record
  <2> QED
    BY <2>6 DEF Promise!Next
<1>3. CASE UNCHANGED <<journal, dispatched>>
  BY <1>t, <1>3 DEF Promise!vars
<1> QED
  BY <1>1, <1>2, <1>3

\* Every other step answers, disowns, forgets or settles a call, or leaves them all.
LEMMA StepPromise ==
  ASSUME PInv, [Next]_vars
  PROVE  [Promise!Next]_(Promise!vars)
<1>t. TypeOK /\ IInv
  BY DEF PInv, IInv
<1>u. ASSUME UNCHANGED <<journal, dispatched, told>>
      PROVE  [Promise!Next]_(Promise!vars)
  BY <1>u DEF Promise!vars
<1>1. CASE BeginStart \/ AdmitTurn \/ RefuseTurn \/ PostStart \/ Stop
  BY <1>t, <1>u, <1>1, StartShape
<1>2. CASE Resume
  <2>1. /\ UNCHANGED <<journal, dispatched>>
        /\ told' = [c \in Calls |-> IF c = checkpoint.call THEN "none" ELSE told[c]]
    BY <1>t, <1>2, ResumeShape
  <2>2. CASE checkpoint.call \in Calls
    <3>1. told' = [told EXCEPT ![checkpoint.call] = "none"]
      BY <1>t, <2>1, <2>2 DEF TypeOK
    <3>2. Promise!Forget(checkpoint.call)
      BY <2>1, <3>1 DEF Promise!Forget
    <3> QED
      BY <2>2, <3>2 DEF Promise!Next
  <2>3. CASE checkpoint.call \notin Calls
    <3>1. told' = told
      BY <1>t, <2>1, <2>3 DEF TypeOK
    <3> QED
      BY <1>u, <2>1, <3>1
  <2> QED
    BY <2>2, <2>3
<1>3. CASE FinishRun \/ ModelFails \/ RequestTimesOut \/ (\E c \in Calls : RequestTool(c))
  BY <1>t, <1>u, <1>3, RequestShape
<1>4. CASE ChildReceive
  <2>1. UNCHANGED <<journal, dispatched>>
    BY <1>t, <1>4, ReceiveShape
  <2>2. CASE told' = told
    BY <1>u, <2>1, <2>2
  <2>3. CASE told' # told
    <3>1. PICK m \in ChildWire :
            \/ m.kind = "reject" /\ told' = [told EXCEPT ![m.call] = "rejected"]
            \/ /\ m.kind = "result" /\ told' = [told EXCEPT ![m.call] = m.val]
               /\ m.val \in {"completed", "failed", "observe"}
      BY <1>t, <1>4, <2>3, ReceiveShape
    <3>2. m.call \in Calls /\ m.turn \in Turns
      <4>1. m \in ChildBound
        BY <1>t DEF TypeOK, ChildWire
      <4> QED
        BY <3>1, <4>1 DEF ChildBound
    <3>3. told[m.call] = "none"
      BY <3>2, InvolvedIsUnanswered, WireInvolves DEF Involved
    <3>4. CASE m.kind = "reject"
      <4>1. m.call \in ObserveCalls \/ journal[m.call] \in NotRun
        BY <3>4 DEF PInv, Known, MessagesTrue
      <4>2. m.call \in ObserveCalls \/ Record(m.call) \in {"open", "cancelled"}
        BY <4>1 DEF Record, NotRun
      <4>3. Promise!Disown(m.call)
        BY <2>1, <3>1, <3>2, <3>3, <3>4, <4>2 DEF Promise!Disown, Record
      <4> QED
        BY <3>2, <4>3 DEF Promise!Next
    <3>5. CASE m.kind = "result"
      <4>1. journal[m.call] = m.val
        BY <3>5 DEF PInv, Known, MessagesTrue
      <4>2. Record(m.call) = m.val /\ m.val \in {"completed", "failed", "observe"}
        BY <3>1, <3>5, <4>1 DEF Record
      <4>3. Promise!Answer(m.call)
        BY <2>1, <3>1, <3>2, <3>3, <3>5, <4>2 DEF Promise!Answer, Record
      <4> QED
        BY <3>2, <4>3 DEF Promise!Next
    <3> QED
      BY <3>1, <3>4, <3>5
  <2> QED
    BY <2>2, <2>3
<1>5. CASE HostReceive
  BY <1>t, <1>u, <1>5, HostShape
<1>6. ASSUME NEW t \in Turns, HandlerStep(t) \/ AdapterReturns(t) \/ StoreFails(t)
      PROVE  [Promise!Next]_(Promise!vars)
  BY <1>6, HandlerPromise
<1>7. CASE ProcessDies \/ ExitStep \/ Restart
  <2>1. UNCHANGED <<dispatched, told>>
    BY <1>t, <1>7, FailureShape
  <2>2. CASE journal' = journal
    BY <1>u, <2>1, <2>2
  <2>3. CASE journal' # journal
    <3>1. SettleExit
      BY <1>7, <2>3 DEF ProcessDies, ProcessExits, Restart, ExitStep, durable
    <3>2. PICK c : /\ c = checkpoint.call
                   /\ journal' = [k \in Calls |-> IF k = c /\ journal[k] = "executing"
                                                  THEN "unknown" ELSE journal[k]]
      BY <3>1 DEF SettleExit
    <3>3. /\ c \in Calls /\ journal[c] = "executing"
          /\ journal' = [journal EXCEPT ![c] = "unknown"]
      BY <1>t, <2>3, <3>2 DEF TypeOK
    <3>4. "unknown" \in Status /\ Record(c) = "claimed"
      BY <3>3 DEF Status, Settled, Record
    <3>5. [k \in Calls |-> Record(k)]' = [[k \in Calls |-> Record(k)] EXCEPT ![c] = "unknown"]
      BY <1>t, <3>3, <3>4, RecordMoves
    <3>6. Promise!Settle(c)
      BY <2>1, <3>3, <3>4, <3>5, SettlePromise
    <3> QED
      BY <3>3, <3>6 DEF Promise!Next
  <2> QED
    BY <2>2, <2>3
<1>8. CASE UNCHANGED vars
  BY <1>u, <1>8 DEF vars, durable, history
<1> QED
  BY <1>1, <1>2, <1>3, <1>4, <1>5, <1>6, <1>7, <1>8 DEF Next, StartStep, ChildStep

\* Every step of the runtime, its store and its failures is a step of the
\* promise or leaves it alone (toolExecute, handleExit, resume).
THEOREM KeepsPromiseHolds == Spec => KeepsPromise
<1>1. Init => Promise!Init
  BY DEF Init, Promise!Init
<1>2. PInv /\ [Next]_vars => [Promise!Next]_(Promise!vars)
  BY StepPromise
<1> QED
  BY <1>1, <1>2, PromiseInvariant, PTL DEF Spec, KeepsPromise, Promise!Spec

(***************************************************************************)
(* No completion over an effect nobody knows the outcome of.  This needs a *)
(* third inductive invariant, CInv: only one turn knows the store's        *)
(* revision, so that a checkpoint is committed by the turn that the last   *)
(* one was confirmed to, and only once the call which that one names is    *)
(* settled.                                                                *)
(***************************************************************************)
InDoubt(c) == c \notin ObserveCalls /\ journal[c] \in {"executing", "unknown"}

\* Somewhere in turn t is the revision of the store's checkpoint.
ChildKnows(t) == child.turn = t /\ child.rev = checkpoint.rev
HandlerKnows(t) == Handled(t) /\ handler[t].rev = checkpoint.rev
RequestKnows(t) == \E m \in HostWire : m.turn = t /\ m.kind \in Request /\ m.rev = checkpoint.rev
AnswerKnows(t) == \E m \in ChildWire : m.turn = t /\ m.kind # "cancel" /\ m.rev = checkpoint.rev
Knows(t) ==
  checkpoint.rev > 0 /\ (ChildKnows(t) \/ HandlerKnows(t) \/ RequestKnows(t) \/ AnswerKnows(t))

\* Turn t is to make the next commit, and nothing stands in its way.
MayCommit(t) ==
  \/ ChildKnows(t) /\ child.pc = "model"
  \/ handler[t].pc = "commit" /\ handler[t].rev = checkpoint.rev
  \/ \E m \in HostWire : m.turn = t /\ m.kind = "commit" /\ m.rev = checkpoint.rev
  \/ \E m \in ChildWire : m.turn = t /\ m.kind \in {"start", "reject", "finish"}
                            /\ m.rev = checkpoint.rev

\* Turn t has call c executed.
Executes(t, c) ==
  \/ handler[t].pc \notin {"idle", "commit"} /\ handler[t].call = c
  \/ child.turn = t /\ child.pc = "executing" /\ child.call = c
  \/ \E m \in HostWire : m.turn = t /\ m.kind = "execute" /\ m.call = c
  \/ \E m \in ChildWire : m.turn = t /\ m.kind \in {"committed", "replay"} /\ m.call = c

OneKnows == \A t, u \in Turns : Knows(t) /\ Knows(u) => t = u

\* What was confirmed, and what is executed, is the store's last checkpoint.
NamesCurrent ==
  /\ checkpoint.rev = 0 => checkpoint.call = NoCall
  /\ child.pc = "executing" => child.rev = checkpoint.rev /\ child.call = checkpoint.call
  /\ \A t \in Turns :
       /\ handler[t].pc = "committed" => HandlerKnows(t) /\ handler[t].call = checkpoint.call
                                           /\ handler[t].rev > 0
       /\ handler[t].pc \in HandlerPc \ {"idle", "commit", "committed", "read", "result"}
            => handler[t].call = checkpoint.call
  /\ \A m \in ChildWire : m.kind \in {"committed", "replay"}
       => m.rev = checkpoint.rev /\ m.call = checkpoint.call /\ m.rev > 0

\* Who may commit leaves no call behind that is not settled.
CommitsAreClear ==
  \A t, u \in Turns : \A c \in Calls :
    checkpoint.call = c /\ MayCommit(t) => ~Executes(u, c) /\ ~InDoubt(c)

\* A call in doubt is the one of the last checkpoint.
DoubtIsNamed == \A c \in Calls : InDoubt(c) => checkpoint.call = c

\* A turn commits the calls its own model asked for.
Commits(t, c) ==
  \/ handler[t].pc = "commit" /\ handler[t].call = c
  \/ \E m \in HostWire : m.turn = t /\ m.kind = "commit" /\ m.call = c
CommitsOwn == \A t \in Turns : \A c \in Calls : Commits(t, c) => asked[c] = t

\* After a completed turn only later ones know the checkpoint.
Finished(t) ==
  \/ outcome[t] = "completed"
  \/ \E m \in HostWire : m.turn = t /\ m.kind = "terminal" /\ m.status = "completed"
FinishedIsPast ==
  \A t \in Turns : Finished(t) =>
    /\ t <= turns /\ checkpoint.rev > 0
    /\ \A u \in Turns : Knows(u) => u > t
    /\ \A c \in Calls : checkpoint.call = c => asked[c] > t

CInv == PInv /\ OneKnows /\ NamesCurrent /\ CommitsAreClear /\ DoubtIsNamed /\ CommitsOwn
          /\ FinishedIsPast

(***************************************************************************)
(* Steps that commit nothing and resume nothing.                           *)
(***************************************************************************)
\* Nobody comes to know the checkpoint or to execute a call, and what a turn
\* comes to commit is its own.
Keeps ==
  \A t \in Turns :
    /\ Knows(t)' => Knows(t)
    /\ \A c \in Calls : Executes(t, c)' => Executes(t, c)
    /\ \A c \in Calls : Commits(t, c)' => Commits(t, c) \/ asked'[c] = t

\* Who comes to commit leaves no call behind.
KeepsClear ==
  \A t \in Turns : MayCommit(t)' => MayCommit(t) \/ checkpoint.call \notin Calls

\* A call comes in doubt only while it is executed.
KeepsDoubt ==
  \A c \in Calls : InDoubt(c)' =>
    InDoubt(c) \/ (checkpoint.call = c /\ \E t \in Turns : Executes(t, c))

\* No turn comes to be finished.
KeepsFinished == \A t \in Turns : Finished(t)' => Finished(t)

AskedStays == \A c \in Calls : asked[c] # NoTurn => asked'[c] = asked[c]

\* One turn at most goes on knowing the checkpoint.
LEMMA OneKnowsKept ==
  ASSUME OneKnows, Keeps
  PROVE  OneKnows'
  BY DEF OneKnows, Keeps

\* Commits stay over settled calls when no settled call is opened again.
LEMMA ClearKept ==
  ASSUME CommitsAreClear, checkpoint' = checkpoint, Keeps, KeepsClear, KeepsDoubt
  PROVE  CommitsAreClear'
<1> SUFFICES ASSUME NEW t \in Turns, NEW u \in Turns, NEW c \in Calls,
                    checkpoint.call = c, MayCommit(t)'
             PROVE  ~Executes(u, c)' /\ ~InDoubt(c)'
  BY DEF CommitsAreClear
<1>1. MayCommit(t)
  BY DEF KeepsClear
<1>2. \A v \in Turns : ~Executes(v, c)
  BY <1>1 DEF CommitsAreClear
<1>3. ~InDoubt(c)
  BY <1>1 DEF CommitsAreClear
<1> QED
  BY <1>2, <1>3 DEF Keeps, KeepsDoubt

\* A call in doubt stays named by whoever knows the checkpoint.
LEMMA DoubtKept ==
  ASSUME DoubtIsNamed, checkpoint' = checkpoint, KeepsDoubt
  PROVE  DoubtIsNamed'
  BY DEF DoubtIsNamed, KeepsDoubt

\* A commit under way stays one of the turn that asked for the call.
LEMMA OwnKept ==
  ASSUME CommitsOwn, Keeps, AskedStays
  PROVE  CommitsOwn'
  BY DEF CommitsOwn, Keeps, AskedStays, Turns, NoTurn

\* The same for the turns that are over.
LEMMA PastKept ==
  ASSUME FinishedIsPast, AskedFirst, TypeOK, checkpoint' = checkpoint, turns' \in Nat,
         turns <= turns', Keeps, KeepsFinished, AskedStays
  PROVE  FinishedIsPast'
<1> SUFFICES ASSUME NEW t \in Turns, Finished(t)'
             PROVE  /\ t <= turns' /\ checkpoint.rev > 0
                    /\ \A u \in Turns : Knows(u)' => u > t
                    /\ \A c \in Calls : checkpoint.call = c => asked'[c] > t
  BY DEF FinishedIsPast
<1>1. Finished(t)
  BY DEF KeepsFinished
<1>2. /\ t <= turns /\ checkpoint.rev > 0
      /\ \A u \in Turns : Knows(u) => u > t
      /\ \A c \in Calls : checkpoint.call = c => asked[c] > t
  BY <1>1 DEF FinishedIsPast
<1>3. \A c \in Calls : checkpoint.call = c => asked'[c] = asked[c]
  BY DEF AskedFirst, AskedStays
<1>4. t <= turns'
  BY <1>2 DEF TypeOK, Turns
<1> QED
  BY <1>2, <1>3, <1>4 DEF Keeps

\* The messages of the two channels.
LEMMA WireFacts ==
  ASSUME TypeOK
  PROVE  /\ \A m \in HostWire : m \in HostBound
         /\ \A m \in ChildWire : m \in ChildBound
         /\ \A m \in HostBound : m.rev \in Nat /\ m.call \in CallOrNone
         /\ \A m \in HostBound : m.kind \notin {"commit"} => m.rev = 0
         /\ \A m \in HostBound : m.kind \in {"commit", "execute", "terminal"} => m.turn \in Turns
         /\ \A m \in HostBound : m.kind \in {"commit", "execute", "terminal", "fatal"}
         /\ \A m \in ChildBound : m.rev \in Nat /\ m.call \in CallOrNone /\ m.turn \in Turns
         /\ \A m \in ChildBound : m.kind \in {"replay", "reject", "result"} => m.call \in Calls
<1>1. toHost \in Seq(HostBound) /\ toChild \in Seq(ChildBound)
  BY DEF TypeOK
<1>2. (\A m \in HostWire : m \in HostBound) /\ (\A m \in ChildWire : m \in ChildBound)
  BY <1>1 DEF HostWire, ChildWire
<1>3. /\ \A m \in HostBound : m.rev \in Nat /\ m.call \in CallOrNone
      /\ \A m \in HostBound : m.kind \notin {"commit"} => m.rev = 0
      /\ \A m \in HostBound : m.kind \in {"commit", "execute", "terminal"} => m.turn \in Turns
      /\ \A m \in HostBound : m.kind \in {"commit", "execute", "terminal", "fatal"}
  BY DEF HostBound, CallOrNone
<1>4. /\ \A m \in ChildBound : m.rev \in Nat /\ m.call \in CallOrNone /\ m.turn \in Turns
      /\ \A m \in ChildBound : m.kind \in {"replay", "reject", "result"} => m.call \in Calls
  BY DEF ChildBound, CallOrNone
<1> QED
  BY <1>2, <1>3, <1>4

\* Starting, refusing and stopping a turn.
LEMMA StartKeeps ==
  ASSUME CInv, BeginStart \/ AdmitTurn \/ RefuseTurn \/ PostStart \/ Stop
  PROVE  Keeps /\ KeepsClear /\ KeepsDoubt /\ KeepsFinished /\ NamesCurrent'
<1>t. TypeOK /\ NamesCurrent
  BY DEF CInv, PInv, IInv
<1>s. /\ UNCHANGED <<checkpoint, journal, handler, asked, child, toHost>>
      /\ \/ toChild' = toChild
         \/ \E m \in ChildBound :
              /\ m.rev = 0 /\ m.kind \in {"start", "cancel"}
              /\ toChild' = Append(toChild, m)
  BY <1>t, StartShape
<1>o. \A t \in Turns : outcome'[t] = "completed" => outcome[t] = "completed"
  BY <1>t DEF BeginStart, AdmitTurn, RefuseTurn, PostStart, Stop, TypeOK
<1>w. HostWire' = HostWire
  BY <1>s DEF HostWire
<1>f. KeepsFinished
  BY <1>o, <1>w DEF KeepsFinished, Finished
<1>d. KeepsDoubt
  BY <1>s DEF KeepsDoubt, InDoubt
<1>c. \A x \in ChildWire' : x \in ChildWire \/ (x.rev = 0 /\ x.kind \in {"start", "cancel"})
  <2>1. CASE toChild' = toChild
    BY <2>1 DEF ChildWire
  <2>2. CASE toChild' # toChild
    BY <1>s, <1>t, <2>2, PostWire DEF TypeOK
  <2> QED
    BY <2>1, <2>2
<1>k. ASSUME NEW t \in Turns
      PROVE  /\ Knows(t)' => Knows(t)
             /\ MayCommit(t)' => MayCommit(t) \/ checkpoint.rev = 0
             /\ \A c \in Calls : Executes(t, c)' => Executes(t, c)
             /\ \A c \in Calls : Commits(t, c)' => Commits(t, c)
  <2>1. Knows(t)' => Knows(t)
    BY <1>s, <1>w, <1>c DEF Knows, ChildKnows, HandlerKnows, RequestKnows, AnswerKnows, Handled
  <2>2. MayCommit(t)' => MayCommit(t) \/ checkpoint.rev = 0
    BY <1>s, <1>w, <1>c DEF MayCommit, ChildKnows
  <2>3. \A c \in Calls : Executes(t, c)' => Executes(t, c)
    BY <1>s, <1>w, <1>c DEF Executes
  <2>4. \A c \in Calls : Commits(t, c)' => Commits(t, c)
    BY <1>s, <1>w DEF Commits
  <2> QED
    BY <2>1, <2>2, <2>3, <2>4
<1>n. NamesCurrent'
  BY <1>s, <1>c, <1>t DEF NamesCurrent, HandlerKnows, Handled
<1> QED
  BY <1>f, <1>d, <1>k, <1>n, <1>t, CallsAssumption DEF Keeps, KeepsClear, NamesCurrent

\* A message sent to the host is the only new one there.
LEMMA SendAdds ==
  ASSUME TypeOK, NEW k, NEW u, NEW c, NEW r, NEW s, Send(k, u, c, r, s),
         [kind |-> k, turn |-> u, call |-> c, rev |-> r, status |-> s] \in HostBound
  PROVE  \A x \in HostWire' : x \in HostWire \/
           (x.kind = k /\ x.turn = u /\ x.call = c /\ x.rev = r /\ x.status = s)
<1> DEFINE m == [kind |-> k, turn |-> u, call |-> c, rev |-> r, status |-> s]
<1>1. HostWire' = HostWire \cup {m}
  BY SendWire DEF TypeOK
<1>2. m.kind = k /\ m.turn = u /\ m.call = c /\ m.rev = r /\ m.status = s
  OBVIOUS
<1> QED
  BY <1>1, <1>2

\* The end of a turn sends its outcome and leaves nothing in the utility process.
LEMMA EndTurnAdds ==
  ASSUME TypeOK, child.pc # "none", NEW status \in Outcomes, EndTurn(status)
  PROVE  /\ child' = NoChild
         /\ \A x \in HostWire' : x \in HostWire \/
              (x.kind = "terminal" /\ x.turn = child.turn /\ x.rev = 0 /\ x.status = status)
<1>1. child.turn \in Turns
  BY ChildFacts
<1>2. [kind |-> "terminal", turn |-> child.turn, call |-> NoCall, rev |-> 0,
       status |-> status] \in HostBound
  BY <1>1 DEF HostBound
<1> QED
  BY <1>2, SendAdds DEF EndTurn

\* Steps of the utility process that end its turn, or none, with another outcome.
LEMMA EndKeeps ==
  ASSUME CInv, UNCHANGED <<checkpoint, journal, handler, outcome>>, child' \in {child, NoChild},
         \A x \in ChildWire' : x \in ChildWire,
         \A x \in HostWire' : x \in HostWire \/
           (x.kind \in {"terminal", "fatal"} /\ x.rev = 0 /\ x.status # "completed")
  PROVE  Keeps /\ KeepsClear /\ KeepsDoubt /\ KeepsFinished /\ NamesCurrent'
<1>t. TypeOK /\ NamesCurrent
  BY DEF CInv, PInv, IInv
<1>c. /\ child' # child => child'.turn = NoTurn /\ child'.call = NoCall /\ child'.rev = 0
                             /\ child'.pc = "none"
      /\ \A t \in Turns : t # NoTurn
  BY DEF NoChild, Turns, NoTurn
<1>k. ASSUME NEW t \in Turns
      PROVE  /\ Knows(t)' => Knows(t)
             /\ MayCommit(t)' => MayCommit(t)
             /\ \A c \in Calls : Executes(t, c)' => Executes(t, c)
             /\ \A c \in Calls : Commits(t, c)' => Commits(t, c)
             /\ Finished(t)' => Finished(t)
  <2>1. Knows(t)' => Knows(t)
    BY <1>c DEF Knows, ChildKnows, HandlerKnows, RequestKnows, AnswerKnows, Handled, Request
  <2>2. MayCommit(t)' => MayCommit(t)
    BY <1>c DEF MayCommit, ChildKnows
  <2>3. \A c \in Calls : Executes(t, c)' => Executes(t, c)
    BY <1>c DEF Executes
  <2>4. \A c \in Calls : Commits(t, c)' => Commits(t, c)
    BY DEF Commits
  <2>5. Finished(t)' => Finished(t)
    BY DEF Finished
  <2> QED
    BY <2>1, <2>2, <2>3, <2>4, <2>5
<1>d. KeepsDoubt
  BY DEF KeepsDoubt, InDoubt
<1>n. NamesCurrent'
  BY <1>c, <1>t DEF NamesCurrent, HandlerKnows, Handled
<1> QED
  BY <1>k, <1>d, <1>n DEF Keeps, KeepsClear, KeepsFinished

\* A request of the model, its failure or its timeout.
LEMMA RequestKeeps ==
  ASSUME CInv, FinishRun \/ ModelFails \/ RequestTimesOut \/ (\E c \in Calls : RequestTool(c))
  PROVE  Keeps /\ KeepsClear /\ KeepsDoubt /\ KeepsFinished /\ NamesCurrent'
<1>t. TypeOK /\ NamesCurrent
  BY DEF CInv, PInv, IInv
<1>u. /\ UNCHANGED <<checkpoint, journal, handler, outcome, toChild>>
      /\ child.pc # "none"
  BY DEF RequestTool, FinishRun, ModelFails, RequestTimesOut, durable, hostVars, history
<1>w. ChildWire' = ChildWire
  BY <1>u DEF ChildWire
<1>f. /\ child \in [turn : Turns, pc : {"model", "committing", "executing"},
                    call : CallOrNone, rev : Nat, goes : 0 .. MaxContinuations]
      /\ child.turn \in Turns
  BY <1>t, <1>u, ChildFacts
<1>1. CASE ModelFails \/ RequestTimesOut
  <2>1. EndTurn("failed")
    BY <1>1 DEF ModelFails, RequestTimesOut
  <2> QED
    BY <1>t, <1>u, <1>w, <2>1, EndTurnAdds, EndKeeps DEF Outcomes
<1>2. CASE FinishRun \/ (\E c \in Calls : RequestTool(c))
  <2>1. PICK c \in CallOrNone : /\ child.pc = "model"
                                /\ child' = [child EXCEPT !.pc = "committing", !.call = c]
                                /\ Send("commit", child.turn, c, child.rev, "none")
                                /\ c \in Calls => asked' = [asked EXCEPT ![c] = child.turn]
    BY <1>2, CallsAssumption DEF FinishRun, RequestTool, CallOrNone
  <2>2. [kind |-> "commit", turn |-> child.turn, call |-> c, rev |-> child.rev, status |-> "none"]
          \in HostBound
    BY <1>f DEF HostBound
  <2>3. \A x \in HostWire' : x \in HostWire \/
          (x.kind = "commit" /\ x.turn = child.turn /\ x.call = c /\ x.rev = child.rev
             /\ x.status = "none")
    BY <1>t, <2>1, <2>2, SendAdds
  <2>4. child'.pc = "committing" /\ child'.turn = child.turn /\ child'.rev = child.rev
    BY <1>f, <2>1
  <2>5. c \in Calls => asked'[c] = child.turn
    BY <1>t, <2>1 DEF TypeOK
  <2>k. ASSUME NEW t \in Turns
        PROVE  /\ Knows(t)' => Knows(t)
               /\ MayCommit(t)' => MayCommit(t)
               /\ \A d \in Calls : Executes(t, d)' => Executes(t, d)
               /\ \A d \in Calls : Commits(t, d)' => Commits(t, d) \/ asked'[d] = t
               /\ Finished(t)' => Finished(t)
    <3>1. Knows(t)' => Knows(t)
      BY <1>u, <1>w, <2>3, <2>4
      DEF Knows, ChildKnows, HandlerKnows, RequestKnows, AnswerKnows, Handled
    <3>2. MayCommit(t)' => MayCommit(t)
      BY <1>u, <1>w, <2>1, <2>3, <2>4 DEF MayCommit, ChildKnows
    <3>3. \A d \in Calls : Executes(t, d)' => Executes(t, d)
      BY <1>u, <1>w, <2>3, <2>4 DEF Executes
    <3>4. \A d \in Calls : Commits(t, d)' => Commits(t, d) \/ asked'[d] = t
      BY <1>u, <2>3, <2>5 DEF Commits
    <3>5. Finished(t)' => Finished(t)
      BY <1>u, <2>3 DEF Finished
    <3> QED
      BY <3>1, <3>2, <3>3, <3>4, <3>5
  <2>d. KeepsDoubt
    BY <1>u DEF KeepsDoubt, InDoubt
  <2>n. NamesCurrent'
    BY <1>t, <1>u, <1>w, <2>4 DEF NamesCurrent, HandlerKnows, Handled
  <2> QED
    BY <2>k, <2>d, <2>n DEF Keeps, KeepsClear, KeepsFinished
<1> QED
  BY <1>1, <1>2

\* The host takes a message.
LEMMA HostKeeps ==
  ASSUME CInv, HostReceive
  PROVE  Keeps /\ KeepsClear /\ KeepsDoubt /\ KeepsFinished /\ NamesCurrent'
<1>t. TypeOK /\ NamesCurrent
  BY DEF CInv, PInv, IInv
<1>1. PICK m : HostTakes(m) /\ Receive(m)
  BY DEF HostReceive
<1>2. m \in HostBound /\ m \in HostWire /\ HostWire' \subseteq HostWire
  BY <1>t, <1>1, HostTakesType, HostTakesWire DEF TypeOK
<1>3. /\ m.kind \in {"commit", "execute", "terminal"} => m.turn \in Turns
      /\ m.call \in CallOrNone /\ m.rev \in Nat
  BY <1>2, <1>t, WireFacts
<1>u. UNCHANGED <<checkpoint, journal, asked, child, toChild>>
  BY DEF HostReceive, durable, history
<1>w. ChildWire' = ChildWire
  BY <1>u DEF ChildWire
<1>d. KeepsDoubt
  BY <1>u DEF KeepsDoubt, InDoubt
<1>f. ASSUME NEW t \in Turns, Finished(t)' PROVE Finished(t)
  <2>1. outcome'[t] = outcome[t] \/ (m.kind = "terminal" /\ m.turn = t /\ outcome'[t] = m.status)
    BY <1>1, <1>t DEF Receive, TypeOK
  <2> QED
    BY <1>f, <1>2, <2>1 DEF Finished
<1>h. ASSUME NEW t \in Turns
      PROVE  \/ handler'[t] = handler[t]
             \/ /\ m.kind = "commit" /\ m.turn = t /\ handler'[t].pc = "commit"
                /\ handler'[t].call = m.call /\ handler'[t].rev = m.rev
             \/ /\ m.kind = "execute" /\ m.turn = t /\ handler'[t].pc = "read"
                /\ handler'[t].call = m.call /\ handler'[t].rev = 0
  BY <1>1, <1>t DEF Receive, Handle, TypeOK
<1>k. ASSUME NEW t \in Turns
      PROVE  /\ Knows(t)' => Knows(t)
             /\ MayCommit(t)' => MayCommit(t)
             /\ \A c \in Calls : Executes(t, c)' => Executes(t, c)
             /\ \A c \in Calls : Commits(t, c)' => Commits(t, c)
  <2>1. Knows(t)' => Knows(t)
    BY <1>2, <1>3, <1>u, <1>w, <1>h
    DEF Knows, ChildKnows, HandlerKnows, RequestKnows, AnswerKnows, Handled, Request
  <2>2. MayCommit(t)' => MayCommit(t)
    BY <1>2, <1>u, <1>w, <1>h DEF MayCommit, ChildKnows
  <2>3. \A c \in Calls : Executes(t, c)' => Executes(t, c)
    BY <1>2, <1>u, <1>w, <1>h DEF Executes
  <2>4. \A c \in Calls : Commits(t, c)' => Commits(t, c)
    BY <1>2, <1>h DEF Commits
  <2> QED
    BY <2>1, <2>2, <2>3, <2>4
<1>n. NamesCurrent'
  BY <1>t, <1>u, <1>w, <1>h DEF NamesCurrent, HandlerKnows, Handled, HandlerPc
<1> QED
  BY <1>d, <1>f, <1>k, <1>n DEF Keeps, KeepsClear, KeepsFinished

\* A process dies or has gone, or the application ends.
LEMMA FailureKeeps ==
  ASSUME CInv, ProcessDies \/ ExitStep \/ Restart
  PROVE  Keeps /\ KeepsClear /\ KeepsDoubt /\ KeepsFinished /\ NamesCurrent'
<1>t. TypeOK /\ NamesCurrent
  BY DEF CInv, PInv, IInv
<1>s. /\ UNCHANGED <<checkpoint, asked>>
      /\ child' = child \/ child' = NoChild
      /\ toHost' = toHost \/ toHost' = << >>
      /\ toChild' = toChild \/ toChild' = << >>
      /\ handler' = handler \/ \A t \in Turns : handler'[t] = Idle
  BY <1>t, FailureShape
<1>w. HostWire' \subseteq HostWire /\ ChildWire' \subseteq ChildWire
  BY <1>s DEF HostWire, ChildWire
<1>c. /\ child' # child => child'.turn = NoTurn /\ child'.call = NoCall /\ child'.rev = 0
                             /\ child'.pc = "none"
      /\ \A t \in Turns : t # NoTurn
      /\ \A t \in Turns : handler'[t] = handler[t]
                            \/ (handler'[t].pc = "idle" /\ handler'[t].rev = 0)
  BY <1>s DEF NoChild, Idle, Turns, NoTurn
<1>o. \A t \in Turns : outcome'[t] = "completed" => outcome[t] = "completed"
  BY <1>t DEF ProcessDies, ExitStep, ProcessExits, SettleExit, Restart, hostVars, TypeOK
<1>d. KeepsDoubt
  <2>1. \A c \in Calls : journal'[c] # journal[c] => journal[c] = "executing"
    BY DEF ProcessDies, ExitStep, ProcessExits, SettleExit, Restart, durable
  <2> QED
    BY <2>1 DEF KeepsDoubt, InDoubt
<1>k. ASSUME NEW t \in Turns
      PROVE  /\ Knows(t)' => Knows(t)
             /\ MayCommit(t)' => MayCommit(t)
             /\ \A c \in Calls : Executes(t, c)' => Executes(t, c)
             /\ \A c \in Calls : Commits(t, c)' => Commits(t, c)
             /\ Finished(t)' => Finished(t)
  <2>1. Knows(t)' => Knows(t)
    BY <1>s, <1>w, <1>c DEF Knows, ChildKnows, HandlerKnows, RequestKnows, AnswerKnows, Handled
  <2>2. MayCommit(t)' => MayCommit(t)
    BY <1>s, <1>w, <1>c DEF MayCommit, ChildKnows
  <2>3. \A c \in Calls : Executes(t, c)' => Executes(t, c)
    BY <1>w, <1>c DEF Executes
  <2>4. \A c \in Calls : Commits(t, c)' => Commits(t, c)
    BY <1>w, <1>c DEF Commits
  <2>5. Finished(t)' => Finished(t)
    BY <1>w, <1>o DEF Finished
  <2> QED
    BY <2>1, <2>2, <2>3, <2>4, <2>5
<1>n. NamesCurrent'
  BY <1>t, <1>s, <1>w, <1>c DEF NamesCurrent, HandlerKnows, Handled, HandlerPc
<1> QED
  BY <1>d, <1>k, <1>n DEF Keeps, KeepsClear, KeepsFinished

\* A handler that moves the journal is at the call of the checkpoint.
LEMMA JournalIsNamed ==
  ASSUME CInv, NEW t \in Turns, HandlerStep(t) \/ AdapterReturns(t) \/ StoreFails(t),
         NEW c \in Calls, journal'[c] # journal[c]
  PROVE  checkpoint.call = c /\ Executes(t, c)
<1>t. TypeOK /\ PInv /\ NamesCurrent
  BY DEF CInv, PInv, IInv
<1>1. c = handler[t].call
  BY <1>t, JournalMoves DEF TypeOK
<1>2. handler[t].pc \in {"add", "markUnknown", "markCancelled", "markDenied", "start", "record"}
  BY DEF HandlerStep, CommitCheckpoint, ReadCheckpoint, AddInvocation, LessonPolicy,
     RefuseCall, ClaimExecution, Dispatch, AdapterReturns, RecordOutcome, Respond, StoreFails,
     durable
<1> QED
  BY <1>t, <1>1, <1>2 DEF NamesCurrent, HandlerPc, Executes

\* The steps of a handler but the commit.
LEMMA HandlerKeeps ==
  ASSUME CInv, NEW t \in Turns, HandlerStep(t) \/ AdapterReturns(t) \/ StoreFails(t),
         checkpoint' = checkpoint
  PROVE  Keeps /\ KeepsClear /\ KeepsDoubt /\ KeepsFinished /\ NamesCurrent'
<1>t. TypeOK /\ NamesCurrent
  BY DEF CInv, PInv, IInv
<1>s. /\ UNCHANGED <<child, toHost, asked>>
      /\ Handled(t)
      /\ \A u \in Turns : u # t => handler'[u] = handler[u]
      /\ \/ /\ handler'[t] = Idle
            /\ \/ toChild' = toChild
               \/ \E m \in ChildBound :
                    /\ toChild' = Append(toChild, m)
                    /\ m.kind = handler[t].pc /\ m.kind \in {"committed", "result"}
                    /\ m.turn = t /\ m.call = handler[t].call /\ m.rev = handler[t].rev
         \/ /\ handler'[t].pc \in HandlerPc \ {"idle", "commit", "committed", "read"}
            /\ handler[t].pc \notin {"commit", "committed"}
            /\ handler'[t].call = handler[t].call /\ handler'[t].rev = handler[t].rev
            /\ toChild' = toChild
            /\ handler[t].pc = "read" => checkpoint.call = handler[t].call
            /\ handler[t].pc = "result" => handler'[t].pc = "result"
  <2>1. checkpoint'.rev # checkpoint.rev + 1
    BY <1>t DEF TypeOK
  <2>2. handler'[t].pc \notin {"idle", "commit", "committed", "read"} =>
          handler[t].pc \notin {"committed", "result"}
    BY <1>t DEF HandlerStep, CommitCheckpoint, ReadCheckpoint, AddInvocation, LessonPolicy,
       RefuseCall, ClaimExecution, Dispatch, AdapterReturns, RecordOutcome, Respond, StoreFails,
       EndHandler, Idle, TypeOK
  <2> QED
    BY <1>t, <2>1, <2>2, HandlerShape
<1>i. Idle.pc = "idle"
  BY DEF Idle
<1>w. HostWire' = HostWire
  BY <1>s DEF HostWire
<1>c. \A x \in ChildWire' : x \in ChildWire \/
        /\ handler'[t] = Idle
        /\ x.kind = handler[t].pc /\ x.kind \in {"committed", "result"}
        /\ x.turn = t /\ x.call = handler[t].call /\ x.rev = handler[t].rev
  <2>1. CASE toChild' = toChild
    BY <2>1 DEF ChildWire
  <2>2. CASE toChild' # toChild
    <3>1. PICK m \in ChildBound :
            /\ toChild' = Append(toChild, m) /\ handler'[t] = Idle
            /\ m.kind = handler[t].pc /\ m.kind \in {"committed", "result"}
            /\ m.turn = t /\ m.call = handler[t].call /\ m.rev = handler[t].rev
      BY <1>s, <2>2
    <3>2. ChildWire' \subseteq ChildWire \cup {m}
      BY <1>t, <3>1, PostWire DEF TypeOK
    <3> QED
      BY <3>1, <3>2
  <2> QED
    BY <2>1, <2>2
<1>o. outcome' = outcome
  BY DEF HandlerStep, CommitCheckpoint, ReadCheckpoint, AddInvocation, LessonPolicy,
     RefuseCall, ClaimExecution, Dispatch, AdapterReturns, RecordOutcome, Respond, StoreFails
<1>d. KeepsDoubt
  <2> SUFFICES ASSUME NEW c \in Calls, InDoubt(c)', ~InDoubt(c)
               PROVE  checkpoint.call = c /\ \E u \in Turns : Executes(u, c)
    BY DEF KeepsDoubt
  <2>1. journal'[c] # journal[c]
    BY DEF InDoubt
  <2> QED
    BY <2>1, JournalIsNamed
<1>k. ASSUME NEW u \in Turns
      PROVE  /\ Knows(u)' => Knows(u)
             /\ MayCommit(u)' => MayCommit(u)
             /\ \A c \in Calls : Executes(u, c)' => Executes(u, c)
             /\ \A c \in Calls : Commits(u, c)' => Commits(u, c)
             /\ Finished(u)' => Finished(u)
  <2>1. Knows(u)' => Knows(u)
    BY <1>s, <1>i, <1>w, <1>c
    DEF Knows, ChildKnows, HandlerKnows, RequestKnows, AnswerKnows, Handled
  <2>2. MayCommit(u)' => MayCommit(u)
    BY <1>s, <1>i, <1>w, <1>c DEF MayCommit, ChildKnows
  <2>3. \A c \in Calls : Executes(u, c)' => Executes(u, c)
    BY <1>s, <1>i, <1>w, <1>c DEF Executes, Handled
  <2>4. \A c \in Calls : Commits(u, c)' => Commits(u, c)
    BY <1>s, <1>i, <1>w DEF Commits
  <2>5. Finished(u)' => Finished(u)
    BY <1>w, <1>o DEF Finished
  <2> QED
    BY <2>1, <2>2, <2>3, <2>4, <2>5
<1>n. NamesCurrent'
  <2>1. ASSUME NEW u \in Turns
        PROVE  /\ handler'[u].pc = "committed" => HandlerKnows(u)' /\ handler'[u].call = checkpoint.call
                                                    /\ handler'[u].rev > 0
               /\ handler'[u].pc \in HandlerPc \ {"idle", "commit", "committed", "read", "result"}
                    => handler'[u].call = checkpoint.call
    <3>1. CASE u # t
      BY <1>t, <1>s, <3>1 DEF NamesCurrent, HandlerKnows, Handled
    <3>2. CASE u = t
      <4>1. handler[t].pc \in HandlerPc
        BY <1>t DEF TypeOK, HandlerState
      <4> QED
        BY <1>t, <1>s, <1>i, <3>2, <4>1 DEF NamesCurrent, Handled
    <3> QED
      BY <3>1, <3>2
  <2>2. \A m \in ChildWire' : m.kind \in {"committed", "replay"}
          => m.rev = checkpoint.rev /\ m.call = checkpoint.call /\ m.rev > 0
    BY <1>t, <1>c DEF NamesCurrent, HandlerKnows
  <2> QED
    BY <1>t, <1>s, <2>1, <2>2 DEF NamesCurrent
<1> QED
  BY <1>d, <1>k, <1>n DEF Keeps, KeepsClear, KeepsFinished

\* What becomes of the turn in the utility process when message m is taken: it
\* ends or stays, ends as completed, executes the call of m, commits what is
\* finished, goes on with the model, or is told the result of its call.
TakesEnd ==
  /\ child' \in {child, NoChild}
  /\ \A x \in HostWire' : x \in HostWire \/
       (x.kind \in {"terminal", "fatal"} /\ x.rev = 0 /\ x.status # "completed")
TakesLast(m) ==
  /\ m.kind = "committed" /\ m.call = NoCall /\ child.turn = m.turn /\ child' = NoChild
  /\ \A x \in HostWire' : x \in HostWire \/
       (x.kind = "terminal" /\ x.turn = m.turn /\ x.rev = 0)
TakesCall(m) ==
  /\ m.kind \in {"replay", "committed"} /\ m.call \in Calls
  /\ child'.pc = "executing" /\ child'.turn = m.turn /\ child'.call = m.call
  /\ child'.rev = m.rev
  /\ \A x \in HostWire' : x \in HostWire \/
       (x.kind = "execute" /\ x.turn = m.turn /\ x.call = m.call /\ x.rev = 0)
TakesFinish(m) ==
  /\ m.kind = "finish"
  /\ child'.pc = "committing" /\ child'.turn = m.turn /\ child'.rev = m.rev
  /\ \A x \in HostWire' : x \in HostWire \/
       (x.kind = "commit" /\ x.turn = m.turn /\ x.call = NoCall /\ x.rev = m.rev)
TakesModel(m) ==
  /\ m.kind \in {"start", "reject"} \/ (m.kind = "committed" /\ m.call = NoCall)
  /\ child'.pc = "model" /\ child'.turn = m.turn /\ child'.rev = m.rev
  /\ HostWire' = HostWire
TakesResult(m) ==
  /\ m.kind = "result" /\ m.val \in {"completed", "failed", "observe"}
  /\ child.pc = "executing" /\ child.turn = m.turn /\ child.call = m.call
  /\ child'.pc = "model" /\ child'.turn = m.turn /\ child'.rev = child.rev
  /\ child'.call = NoCall /\ toHost' = toHost

\* What takes a message of the host leaves in the utility process: the forms of
\* the next request, of the answer to the call, or of the end of the turn.
LEMMA TakeShape ==
  ASSUME CInv, ChildReceive
  PROVE  \E m \in ChildWire :
    /\ ChildTakes(m)
    /\ TakesEnd \/ TakesLast(m) \/ TakesCall(m) \/ TakesFinish(m) \/ TakesModel(m)
         \/ TakesResult(m)
<1>t. TypeOK
  BY DEF CInv, PInv, IInv
<1>1. PICK m : /\ ChildTakes(m)
               /\ RunTurn(m) \/ CancelTurn(m) \/ CommitConfirmed(m) \/ ToolAnswered(m)
                    \/ UnexpectedResponse(m)
  BY DEF ChildReceive
<1>2. m \in ChildBound /\ m \in ChildWire
  BY <1>t, <1>1, ChildTakesType, ChildTakesWire DEF TypeOK
<1>3. /\ m.turn \in Turns /\ m.call \in CallOrNone /\ m.rev \in Nat
      /\ m.kind \in {"replay", "result", "reject"} => m.call \in Calls
  BY <1>2, <1>t, WireFacts
<1>4. child.pc # "none" =>
        child \in [turn : Turns, pc : {"model", "committing", "executing"},
                   call : CallOrNone, rev : Nat, goes : 0 .. MaxContinuations]
  BY <1>t, ChildFacts
<1>e. ASSUME NEW status \in Outcomes, EndTurn(status), child.pc # "none"
      PROVE  /\ child' = NoChild
             /\ \A x \in HostWire' : x \in HostWire \/
                  (x.kind = "terminal" /\ x.turn = child.turn /\ x.rev = 0 /\ x.status = status)
  BY <1>e, <1>t, EndTurnAdds
<1>f. Fatal => \A x \in HostWire' : x \in HostWire \/
                 (x.kind = "fatal" /\ x.rev = 0 /\ x.status = "none")
  <2>1. [kind |-> "fatal", turn |-> NoTurn, call |-> NoCall, rev |-> 0, status |-> "none"]
          \in HostBound
    BY DEF HostBound
  <2> QED
    BY <1>t, <2>1, SendAdds DEF Fatal
<1>s. toHost' = toHost => HostWire' = HostWire
  BY DEF HostWire
<1>x. ASSUME m.call \in Calls, Send("execute", m.turn, m.call, 0, "none")
      PROVE  \A x \in HostWire' : x \in HostWire \/
               (x.kind = "execute" /\ x.turn = m.turn /\ x.call = m.call /\ x.rev = 0)
  <2>1. [kind |-> "execute", turn |-> m.turn, call |-> m.call, rev |-> 0, status |-> "none"]
          \in HostBound
    BY <1>3, <1>x DEF HostBound
  <2> QED
    BY <1>t, <1>x, <2>1, SendAdds
<1>n. NoChild = [turn |-> NoTurn, pc |-> "none", call |-> NoCall, rev |-> 0, goes |-> 0]
  BY DEF NoChild
<1>5. CASE RunTurn(m)
  <2>1. CASE child.pc # "none"
    <3>1. Fatal /\ child' = child
      BY <1>5, <2>1 DEF RunTurn
    <3> QED
      BY <1>1, <1>2, <1>f, <3>1 DEF TakesEnd
  <2>2. CASE child.pc = "none" /\ m.kind = "replay"
    <3>1. /\ child' = [NoChild EXCEPT !.turn = m.turn, !.pc = "executing", !.call = m.call,
                                      !.rev = m.rev]
          /\ Send("execute", m.turn, m.call, 0, "none")
      BY <1>5, <2>2 DEF RunTurn
    <3>2. child' = [turn |-> m.turn, pc |-> "executing", call |-> m.call, rev |-> m.rev, goes |-> 0]
      BY <1>n, <3>1
    <3> QED
      BY <1>1, <1>2, <1>3, <1>x, <2>2, <3>1, <3>2 DEF TakesCall
  <2>3. CASE child.pc = "none" /\ m.kind = "finish"
    <3>1. /\ child' = [NoChild EXCEPT !.turn = m.turn, !.pc = "committing", !.rev = m.rev]
          /\ Send("commit", m.turn, NoCall, m.rev, "none")
      BY <1>5, <2>3 DEF RunTurn
    <3>2. child' = [turn |-> m.turn, pc |-> "committing", call |-> NoCall, rev |-> m.rev, goes |-> 0]
      BY <1>n, <3>1
    <3>3. [kind |-> "commit", turn |-> m.turn, call |-> NoCall, rev |-> m.rev, status |-> "none"]
            \in HostBound
      BY <1>3 DEF HostBound, CallOrNone
    <3>4. \A x \in HostWire' : x \in HostWire \/
            (x.kind = "commit" /\ x.turn = m.turn /\ x.call = NoCall /\ x.rev = m.rev)
      BY <1>t, <3>1, <3>3, SendAdds
    <3> QED
      BY <1>1, <1>2, <2>3, <3>2, <3>4 DEF TakesFinish
  <2>4. CASE child.pc = "none" /\ m.kind \in {"start", "reject"}
    <3>1. /\ child' = [NoChild EXCEPT !.turn = m.turn, !.pc = "model", !.rev = m.rev]
          /\ toHost' = toHost
      BY <1>5, <2>4 DEF RunTurn
    <3>2. child' = [turn |-> m.turn, pc |-> "model", call |-> NoCall, rev |-> m.rev, goes |-> 0]
      BY <1>n, <3>1
    <3> QED
      BY <1>1, <1>2, <1>s, <2>4, <3>1, <3>2 DEF TakesModel
  <2> QED
    BY <1>5, <2>1, <2>2, <2>3, <2>4 DEF RunTurn
<1>6. CASE CancelTurn(m)
  <2>1. CASE child.pc = "none"
    BY <1>1, <1>2, <1>6, <1>s, <2>1 DEF CancelTurn, TakesEnd
  <2>2. CASE child.pc # "none"
    BY <1>1, <1>2, <1>6, <1>e, <2>2 DEF CancelTurn, Outcomes, TakesEnd
  <2> QED
    BY <2>1, <2>2
<1>7. CASE CommitConfirmed(m)
  <2>1. /\ m.kind = "committed" /\ child.pc = "committing" /\ child.turn = m.turn
        /\ child.call = m.call
    BY <1>7 DEF CommitConfirmed, Expected
  <2>2. CASE m.call # NoCall
    <3>1. /\ child' = [child EXCEPT !.pc = "executing", !.rev = m.rev]
          /\ Send("execute", m.turn, m.call, 0, "none")
      BY <1>7, <2>2 DEF CommitConfirmed
    <3>2. m.call \in Calls
      BY <1>3, <2>2 DEF CallOrNone
    <3>3. /\ child'.pc = "executing" /\ child'.turn = m.turn /\ child'.call = m.call
          /\ child'.rev = m.rev
      <4>1. child' = [[child EXCEPT !.pc = "executing"] EXCEPT !.rev = m.rev]
        BY <3>1
      <4> QED
        BY <1>3, <1>4, <2>1, <4>1
    <3> QED
      BY <1>1, <1>2, <1>x, <2>1, <3>1, <3>2, <3>3 DEF TakesCall
  <2>3. CASE m.call = NoCall /\ (EndTurn("completed") \/ EndTurn("failed"))
    BY <1>1, <1>2, <1>e, <2>1, <2>3 DEF Outcomes, TakesEnd, TakesLast
  <2>4. CASE m.call = NoCall /\ child.goes < MaxContinuations /\ toHost' = toHost
             /\ child' = [child EXCEPT !.pc = "model", !.rev = m.rev, !.goes = @ + 1]
    <3>1. /\ child'.pc = "model" /\ child'.turn = m.turn /\ child'.rev = m.rev
      <4>1. child' = [[[child EXCEPT !.pc = "model"] EXCEPT !.rev = m.rev]
                        EXCEPT !.goes = child.goes + 1]
        BY <2>4
      <4>2. child.goes + 1 \in 0 .. MaxContinuations
        BY <1>4, <2>1, <2>4 DEF MaxContinuations
      <4> QED
        BY <1>3, <1>4, <2>1, <4>1, <4>2
    <3> QED
      BY <1>1, <1>2, <1>s, <2>1, <2>4, <3>1 DEF TakesModel
  <2> QED
    BY <1>7, <2>2, <2>3, <2>4 DEF CommitConfirmed
<1>8. CASE ToolAnswered(m)
  <2>1. m.kind = "result" /\ child.pc = "executing" /\ child.turn = m.turn /\ child.call = m.call
    BY <1>8 DEF ToolAnswered, Expected
  <2>2. CASE m.val \in {"completed", "failed", "observe"}
             /\ child' = [child EXCEPT !.pc = "model", !.call = NoCall] /\ toHost' = toHost
    <3>1. /\ child'.pc = "model" /\ child'.turn = m.turn /\ child'.rev = child.rev
          /\ child'.call = NoCall
      <4>1. child' = [[child EXCEPT !.pc = "model"] EXCEPT !.call = NoCall]
        BY <2>2
      <4> QED
        BY <1>4, <2>1, <4>1 DEF CallOrNone
    <3> QED
      BY <1>1, <1>2, <2>1, <2>2, <3>1 DEF TakesResult
  <2>3. CASE EndTurn("unknown") \/ EndTurn("failed")
    BY <1>1, <1>2, <1>e, <2>1, <2>3 DEF Outcomes, TakesEnd
  <2> QED
    BY <1>8, <2>2, <2>3 DEF ToolAnswered
<1>9. CASE UnexpectedResponse(m)
  BY <1>1, <1>2, <1>9, <1>f DEF UnexpectedResponse, TakesEnd
<1> QED
  BY <1>1, <1>5, <1>6, <1>7, <1>8, <1>9

\* What the utility process does with a message: it goes on knowing what the
\* message knew, and commits again only over a call that is settled.
LEMMA TakeKeeps ==
  ASSUME CInv, ChildReceive
  PROVE  Keeps /\ CommitsAreClear' /\ KeepsDoubt /\ NamesCurrent'
<1>t. /\ TypeOK /\ NamesCurrent /\ PInv /\ CommitsAreClear
      /\ toChild \in Seq(ChildBound)
  BY DEF CInv, PInv, IInv, TypeOK
<1>u. UNCHANGED <<checkpoint, journal, handler, outcome, asked>>
  BY DEF ChildReceive, durable, hostVars
<1>d. KeepsDoubt
  BY <1>u DEF KeepsDoubt, InDoubt
<1>1. PICK m \in ChildWire :
    /\ ChildTakes(m)
    /\ TakesEnd \/ TakesLast(m) \/ TakesCall(m) \/ TakesFinish(m) \/ TakesModel(m)
         \/ TakesResult(m)
  BY TakeShape
<1>2. /\ m \in ChildBound /\ m.turn \in Turns
      /\ \A x \in ChildWire' : x \in ChildWire
  BY <1>t, <1>1, ChildTakesWire, WireFacts
<1>c. /\ NoChild.turn = NoTurn /\ NoChild.pc = "none" /\ NoChild.rev = 0
      /\ \A t \in Turns : t # NoTurn
  BY DEF NoChild, Turns, NoTurn
<1>s. toHost' = toHost => HostWire' = HostWire
  BY DEF HostWire
<1>m. m.kind \in {"replay", "committed"} => m.rev = checkpoint.rev /\ m.call = checkpoint.call
  BY <1>t DEF NamesCurrent
<1>k. ASSUME NEW t \in Turns PROVE Knows(t)' => Knows(t)
  <2>1. CASE TakesEnd \/ TakesLast(m)
    BY <1>u, <1>2, <1>c, <2>1
    DEF Knows, ChildKnows, HandlerKnows, RequestKnows, AnswerKnows, Handled, Request, TakesEnd,
        TakesLast
  <2>2. CASE TakesCall(m) \/ TakesFinish(m) \/ TakesModel(m)
    BY <1>u, <1>2, <2>2
    DEF Knows, ChildKnows, HandlerKnows, RequestKnows, AnswerKnows, Handled, TakesCall,
        TakesFinish, TakesModel
  <2>3. CASE TakesResult(m)
    BY <1>u, <1>2, <1>s, <2>3
    DEF Knows, ChildKnows, HandlerKnows, RequestKnows, AnswerKnows, Handled, TakesResult
  <2> QED
    BY <1>1, <2>1, <2>2, <2>3
<1>e. ASSUME NEW t \in Turns, NEW c \in Calls, Executes(t, c)' PROVE Executes(t, c)
  BY <1>u, <1>1, <1>2, <1>c, <1>s, <1>e
  DEF Executes, TakesEnd, TakesLast, TakesCall, TakesFinish, TakesModel, TakesResult
<1>o. ASSUME NEW t \in Turns, NEW c \in Calls, Commits(t, c)' PROVE Commits(t, c)
  BY <1>u, <1>1, <1>2, <1>s, <1>o, CallsAssumption
  DEF Commits, TakesEnd, TakesLast, TakesCall, TakesFinish, TakesModel, TakesResult
<1>a. Keeps
  BY <1>k, <1>e, <1>o DEF Keeps
<1>n. NamesCurrent'
  BY <1>t, <1>u, <1>1, <1>2, <1>c, <1>m
  DEF NamesCurrent, HandlerKnows, Handled, TakesEnd, TakesLast, TakesCall, TakesFinish,
      TakesModel, TakesResult
<1>3. CASE ~TakesResult(m)
  <2>1. ASSUME NEW t \in Turns, MayCommit(t)' PROVE MayCommit(t) \/ checkpoint.call = NoCall
    <3>1. CASE TakesEnd \/ TakesLast(m) \/ TakesCall(m)
      BY <1>u, <1>2, <1>c, <2>1, <3>1 DEF MayCommit, ChildKnows, TakesEnd, TakesLast, TakesCall
    <3>2. CASE TakesFinish(m)
      BY <1>u, <1>2, <2>1, <3>2 DEF MayCommit, ChildKnows, TakesFinish
    <3>3. CASE TakesModel(m)
      BY <1>u, <1>2, <1>m, <2>1, <3>3 DEF MayCommit, ChildKnows, TakesModel
    <3> QED
      BY <1>1, <1>3, <3>1, <3>2, <3>3
  <2>2. KeepsClear
    BY <2>1, CallsAssumption DEF KeepsClear
  <2> QED
    BY <1>t, <1>u, <1>a, <1>d, <1>n, <2>2, ClearKept
<1>4. CASE TakesResult(m)
  <2>1. /\ m.call \in Calls /\ m.call = checkpoint.call /\ journal[m.call] = m.val
        /\ \A u \in Turns : ~Involved(u, m.call)'
    <3>1. m.call \in Calls
      BY <1>t, <1>2, <1>4, WireFacts DEF TakesResult
    <3>2. m.call = checkpoint.call
      BY <1>t, <1>4 DEF TakesResult, NamesCurrent
    <3>3. journal[m.call] = m.val
      BY <1>t, <1>4 DEF TakesResult, PInv, Known, MessagesTrue
    <3>4. \A u \in Turns : ~Involved(u, m.call)'
      BY <1>t, <1>1, <1>4, AnswerIsLast DEF TakesResult
    <3> QED
      BY <3>1, <3>2, <3>3, <3>4
  <2>2. ASSUME NEW u \in Turns PROVE ~Executes(u, m.call)'
    <3>1. Executes(u, m.call)' => Involved(u, m.call)'
      BY DEF Executes, Involved, Handles, Runs, Sent, Posted, HostWire, ChildWire
    <3> QED
      BY <2>1, <3>1
  <2>3. ~InDoubt(m.call)'
    BY <1>u, <1>4, <2>1 DEF InDoubt, TakesResult
  <2>4. CommitsAreClear'
    BY <1>u, <2>1, <2>2, <2>3 DEF CommitsAreClear
  <2> QED
    BY <1>a, <1>d, <1>n, <2>4
<1> QED
  BY <1>3, <1>4

(***************************************************************************)
(* The commit of a checkpoint, a resumed turn, and the end of a run.       *)
(***************************************************************************)

\* Who knows the checkpoint or has a call of it executed is not in the way of
\* the one that may commit.
LEMMA CommitIsAlone ==
  ASSUME CInv, NEW t \in Turns, handler[t].pc = "commit", handler[t].rev = checkpoint.rev
  PROVE  /\ child.pc # "executing"
         /\ \A u \in Turns : handler[u].pc \in HandlerPc
              /\ handler[u].pc \notin HandlerPc \ {"idle", "commit", "read", "result"}
         /\ \A m \in ChildWire : m.kind \notin {"committed", "replay"}
         /\ \A c \in Calls : ~InDoubt(c)
         /\ checkpoint.rev > 0 => Knows(t)
<1>t. /\ TypeOK /\ PInv /\ NamesCurrent /\ CommitsAreClear /\ OneKnows /\ DoubtIsNamed
      /\ OnePlace /\ checkpoint.rev \in Nat /\ checkpoint.call \in CallOrNone
  BY DEF CInv, PInv, IInv, Places, TypeOK
<1>c. checkpoint.call \in Calls =>
        /\ \A u \in Turns : ~Executes(u, checkpoint.call)
        /\ ~InDoubt(checkpoint.call)
  <2>1. MayCommit(t)
    BY DEF MayCommit
  <2> QED
    BY <1>t, <2>1 DEF CommitsAreClear
<1>k. checkpoint.rev > 0 => Knows(t)
  BY DEF Knows, HandlerKnows, Handled
<1>h. Handled(t) /\ ~Addressed(t)
  BY <1>t DEF Handled, OnePlace
<1>f. \A u \in Turns :
        /\ handler[u] \in HandlerState /\ handler[u].pc \in HandlerPc
        /\ handler[u].pc \notin {"idle", "commit", "committed"} => handler[u].call \in Calls
  BY <1>t DEF TypeOK, HandlerState
<1>1. child.pc # "executing"
  <2> SUFFICES ASSUME child.pc = "executing" PROVE FALSE
    OBVIOUS
  <2>1. child.turn \in Turns /\ child.call \in Calls
    BY <1>t, RunningTurn DEF TypeOK
  <2>2. Executes(child.turn, child.call) /\ child.call = checkpoint.call
    BY <1>t DEF Executes, NamesCurrent
  <2> QED
    BY <1>c, <2>1, <2>2
<1>2. ASSUME NEW u \in Turns, handler[u].pc \in HandlerPc \ {"idle", "commit", "read", "result"}
      PROVE  FALSE
  <2>1. CASE handler[u].pc = "committed" /\ handler[u].call \notin Calls
    <3>1. HandlerKnows(u) /\ handler[u].rev > 0
      BY <1>t, <2>1 DEF NamesCurrent
    <3>2. Knows(u) /\ Knows(t)
      BY <1>k, <3>1 DEF Knows, HandlerKnows
    <3> QED
      BY <1>t, <2>1, <3>2 DEF OneKnows
  <2>2. CASE handler[u].call \in Calls
    <3>1. handler[u].call = checkpoint.call
      BY <1>t, <1>2 DEF NamesCurrent
    <3>2. Executes(u, checkpoint.call)
      BY <1>2, <3>1 DEF Executes
    <3> QED
      BY <1>c, <2>2, <3>1, <3>2
  <2> QED
    BY <1>f, <1>2, <2>1, <2>2
<1>3. ASSUME NEW m \in ChildWire, m.kind \in {"committed", "replay"} PROVE FALSE
  <2>1. m.rev = checkpoint.rev /\ m.call = checkpoint.call /\ m.rev > 0
    BY <1>t, <1>3 DEF NamesCurrent
  <2>2. m.turn \in Turns
    BY <1>t, WireFacts
  <2>3. Knows(m.turn) /\ Knows(t)
    BY <1>k, <1>3, <2>1 DEF Knows, AnswerKnows
  <2>4. m.turn = t
    BY <1>t, <2>2, <2>3 DEF OneKnows
  <2> QED
    BY <1>h, <1>3, <2>4 DEF Addressed
<1> QED
  BY <1>t, <1>c, <1>k, <1>f, <1>1, <1>2, <1>3 DEF DoubtIsNamed

\* A committed checkpoint is known to its turn alone.
LEMMA CommitStep ==
  ASSUME CInv, NEW t \in Turns, CommitCheckpoint(t), checkpoint' # checkpoint
  PROVE  OneKnows' /\ NamesCurrent' /\ CommitsAreClear' /\ DoubtIsNamed' /\ CommitsOwn'
           /\ FinishedIsPast'
<1>t. /\ TypeOK /\ PInv /\ RevisionsKnown /\ CommitsOwn /\ FinishedIsPast
      /\ checkpoint.rev \in Nat /\ turns \in Nat
  BY DEF CInv, PInv, IInv, Order, TypeOK
<1>1. /\ handler[t].pc = "commit" /\ handler[t].rev = checkpoint.rev
      /\ checkpoint' = [rev |-> checkpoint.rev + 1, call |-> handler[t].call]
      /\ handler' = [handler EXCEPT ![t] = [pc |-> "committed", call |-> handler[t].call,
                                            rev |-> checkpoint.rev + 1, out |-> "none"]]
      /\ UNCHANGED <<journal, turns, outcome, child, toHost, toChild, asked>>
  BY DEF CommitCheckpoint, Handle, history
<1>2. /\ checkpoint'.rev = checkpoint.rev + 1 /\ checkpoint'.call = handler[t].call
      /\ handler'[t].pc = "committed" /\ handler'[t].call = handler[t].call
      /\ handler'[t].rev = checkpoint.rev + 1
      /\ \A u \in Turns : u # t => handler'[u] = handler[u]
  BY <1>1, <1>t DEF TypeOK
<1>w. HostWire' = HostWire /\ ChildWire' = ChildWire
  BY <1>1 DEF HostWire, ChildWire
<1>a. /\ child.pc # "executing"
      /\ \A u \in Turns : handler[u].pc \in HandlerPc
           /\ handler[u].pc \notin HandlerPc \ {"idle", "commit", "read", "result"}
      /\ \A m \in ChildWire : m.kind \notin {"committed", "replay"}
      /\ \A c \in Calls : ~InDoubt(c)
      /\ checkpoint.rev > 0 => Knows(t)
  BY <1>1, CommitIsAlone
<1>r. /\ child.rev # checkpoint.rev + 1
      /\ \A u \in Turns : handler[u].rev # checkpoint.rev + 1
      /\ \A m \in HostWire \cup ChildWire : m.rev # checkpoint.rev + 1
  <2>1. /\ child.rev \in Nat /\ \A u \in Turns : handler[u].rev \in Nat
        /\ \A m \in HostWire \cup ChildWire : m.rev \in Nat
    BY <1>t, ChildFacts, WireFacts DEF TypeOK, HandlerState
  <2> QED
    BY <1>t, <2>1 DEF RevisionsKnown
<1>k. \A u \in Turns : Knows(u)' => u = t
  BY <1>1, <1>2, <1>w, <1>r
  DEF Knows, ChildKnows, HandlerKnows, RequestKnows, AnswerKnows, Handled
<1>m. \A u \in Turns : ~MayCommit(u)'
  BY <1>1, <1>2, <1>w, <1>r DEF MayCommit, ChildKnows
<1>3. OneKnows'
  BY <1>k DEF OneKnows
<1>4. NamesCurrent'
  <2>1. ASSUME NEW u \in Turns
        PROVE  /\ handler'[u].pc = "committed" => HandlerKnows(u)'
                    /\ handler'[u].call = checkpoint'.call /\ handler'[u].rev > 0
               /\ handler'[u].pc \in HandlerPc \ {"idle", "commit", "committed", "read", "result"}
                    => handler'[u].call = checkpoint'.call
    <3>1. CASE u = t
      BY <1>t, <1>2, <3>1 DEF HandlerKnows, Handled
    <3>2. CASE u # t
      BY <1>2, <1>a, <3>2 DEF HandlerPc
    <3> QED
      BY <3>1, <3>2
  <2> QED
    BY <1>t, <1>1, <1>2, <1>w, <1>a, <2>1 DEF NamesCurrent
<1>5. CommitsAreClear'
  BY <1>m DEF CommitsAreClear
<1>6. DoubtIsNamed'
  BY <1>1, <1>a DEF DoubtIsNamed, InDoubt
<1>7. CommitsOwn'
  BY <1>t, <1>1, <1>2, <1>w DEF CommitsOwn, Commits
<1>8. FinishedIsPast'
  <2> SUFFICES ASSUME NEW u \in Turns, Finished(u)'
               PROVE  /\ u <= turns /\ checkpoint.rev + 1 > 0
                      /\ \A v \in Turns : Knows(v)' => v > u
                      /\ \A c \in Calls : handler[t].call = c => asked[c] > u
    BY <1>1, <1>2 DEF FinishedIsPast
  <2>1. u <= turns /\ checkpoint.rev > 0 /\ \A v \in Turns : Knows(v) => v > u
    BY <1>t, <1>1, <1>w DEF FinishedIsPast, Finished
  <2>2. t > u
    BY <1>a, <2>1
  <2>3. \A c \in Calls : handler[t].call = c => asked[c] = t
    BY <1>t, <1>1 DEF CommitsOwn, Commits
  <2> QED
    BY <1>t, <1>k, <2>1, <2>2, <2>3
<1> QED
  BY <1>3, <1>4, <1>5, <1>6, <1>7, <1>8

\* A resumed turn is the only one that knows the checkpoint; it may commit only
\* over a call that did not run or only looked.
LEMMA ResumeKnows ==
  ASSUME CInv, Resume
  PROVE  OneKnows' /\ NamesCurrent' /\ CommitsAreClear' /\ DoubtIsNamed' /\ CommitsOwn'
           /\ FinishedIsPast'
<1>t. /\ TypeOK /\ IInv /\ FinishedIsPast /\ DoubtIsNamed /\ NamesCurrent
      /\ checkpoint.rev \in Nat /\ turns \in Nat /\ checkpoint.call \in CallOrNone
  BY DEF CInv, PInv, IInv, TypeOK
<1>s. /\ UNCHANGED <<checkpoint, journal, asked, handler, child, toHost>>
      /\ child = NoChild /\ toHost = << >> /\ \A t \in Turns : handler[t] = Idle
      /\ turns' = turns + 1 /\ turns + 1 \in Turns
  BY <1>t, ResumeShape
<1>1. PICK m \in ChildBound :
        /\ toChild' = << m >>
        /\ m.turn = turns + 1 /\ m.call = checkpoint.call /\ m.rev = checkpoint.rev
        /\ m.kind \in {"finish", "reject", "replay"}
        /\ m.kind = "reject" => m.call \in ObserveCalls \/ journal[m.call] \in NotRun
  BY <1>t, ResumeShape
<1>f. m.kind = "finish" => checkpoint.call = NoCall
  <2>1. toChild' = Append(toChild, [kind |-> ResumeKind, turn |-> turns + 1,
                                    call |-> checkpoint.call, rev |-> checkpoint.rev,
                                    val |-> "none"])
    BY DEF Resume
  <2>2. toChild = << >>
    BY <1>t DEF Resume, IInv, RestoredIsQuiet
  <2>3. m.kind = ResumeKind
    BY <1>1, <2>1, <2>2
  <2> QED
    BY <1>t, <2>3, CallsAssumption DEF ResumeKind, CallOrNone
<1>w. HostWire' = {} /\ ChildWire' = {m}
  BY <1>s, <1>1 DEF HostWire, ChildWire
<1>c. /\ child'.turn = NoTurn /\ child'.pc = "none"
      /\ \A t \in Turns : t # NoTurn /\ handler'[t].pc = "idle"
  BY <1>s DEF NoChild, Idle, Turns, NoTurn
<1>r. checkpoint.rev > 0 /\ outcome' = outcome
  BY DEF Resume
<1>k. \A t \in Turns : Knows(t)' => t = turns + 1
  BY <1>1, <1>w, <1>c
  DEF Knows, ChildKnows, HandlerKnows, RequestKnows, AnswerKnows, Handled
<1>2. OneKnows'
  BY <1>k DEF OneKnows
<1>3. NamesCurrent'
  BY <1>t, <1>s, <1>1, <1>w, <1>c, <1>r DEF NamesCurrent
<1>4. CommitsAreClear'
  <2> SUFFICES ASSUME NEW t \in Turns, NEW u \in Turns, NEW c \in Calls,
                      checkpoint.call = c, MayCommit(t)'
               PROVE  ~Executes(u, c)' /\ ~InDoubt(c)'
    BY <1>s DEF CommitsAreClear
  <2>1. m.kind = "reject"
    BY <1>1, <1>f, <1>w, <1>c, CallsAssumption DEF MayCommit, ChildKnows
  <2>2. ~InDoubt(c)'
    BY <1>s, <1>1, <2>1 DEF InDoubt, NotRun
  <2>3. ~Executes(u, c)'
    BY <1>w, <1>c, <2>1 DEF Executes
  <2> QED
    BY <2>2, <2>3
<1>5. DoubtIsNamed'
  BY <1>t, <1>s DEF DoubtIsNamed, InDoubt
<1>6. CommitsOwn'
  BY <1>w, <1>c DEF CommitsOwn, Commits
<1>7. FinishedIsPast'
  <2> SUFFICES ASSUME NEW u \in Turns, Finished(u)'
               PROVE  /\ u <= turns + 1
                      /\ \A v \in Turns : Knows(v)' => v > u
                      /\ \A c \in Calls : checkpoint.call = c => asked[c] > u
    BY <1>s, <1>r DEF FinishedIsPast
  <2>1. Finished(u)
    BY <1>w, <1>r DEF Finished
  <2>2. u <= turns /\ \A c \in Calls : checkpoint.call = c => asked[c] > u
    BY <1>t, <2>1 DEF FinishedIsPast
  <2> QED
    BY <1>t, <1>k, <2>2 DEF Turns
<1> QED
  BY <1>2, <1>3, <1>4, <1>5, <1>6, <1>7

\* A turn that comes to be finished has nothing left that knows the checkpoint.
LEMMA TakePast ==
  ASSUME CInv, ChildReceive
  PROVE  FinishedIsPast'
<1>t. /\ TypeOK /\ NamesCurrent /\ PInv /\ OneKnows /\ FinishedIsPast /\ NewestIsFresh
      /\ AskedFirst /\ UniqueAnswers /\ OnePlace /\ checkpoint.rev \in Nat
      /\ toChild \in Seq(ChildBound) /\ turns \in Nat
  BY DEF CInv, PInv, IInv, TypeOK, Order, Places
<1>u. UNCHANGED <<checkpoint, handler, outcome, asked, turns>>
  BY DEF ChildReceive, durable, hostVars
<1>a. Keeps
  BY TakeKeeps
<1>s. AskedStays
  BY <1>u DEF AskedStays
<1>1. PICK m \in ChildWire :
    /\ ChildTakes(m)
    /\ TakesEnd \/ TakesLast(m) \/ TakesCall(m) \/ TakesFinish(m) \/ TakesModel(m)
         \/ TakesResult(m)
  BY TakeShape
<1>2. CASE KeepsFinished
  BY <1>t, <1>u, <1>a, <1>s, <1>2, PastKept
<1>3. CASE ~TakesLast(m)
  <2>1. toHost' = toHost => HostWire' = HostWire
    BY DEF HostWire
  <2>2. KeepsFinished
    BY <1>u, <1>1, <1>3, <2>1
    DEF KeepsFinished, Finished, TakesEnd, TakesCall, TakesFinish, TakesModel, TakesResult
  <2> QED
    BY <1>2, <2>2
<1>4. CASE TakesLast(m)
  <2> DEFINE v == m.turn
  <2>1. /\ m.kind = "committed" /\ m.call = NoCall /\ child.turn = v /\ child' = NoChild
        /\ \A x \in HostWire' : x \in HostWire \/
             (x.kind = "terminal" /\ x.turn = v /\ x.rev = 0)
    BY <1>4 DEF TakesLast
  <2>2. v \in Turns /\ m.rev = checkpoint.rev /\ checkpoint.call = NoCall /\ checkpoint.rev > 0
    BY <1>t, <2>1, WireFacts DEF NamesCurrent
  <2>3. Addressed(v) /\ ~Handled(v) /\ ~Requested(v) /\ ~Addressed(v)'
    BY <1>t, <1>1, <2>1, <2>2, ChildTakesWire DEF Addressed, OnePlace
  <2>4. Knows(v)
    BY <2>1, <2>2 DEF Knows, AnswerKnows
  <2>5. ~Knows(v)'
    <3>1. ~ChildKnows(v)'
      BY <2>1, <2>2 DEF ChildKnows, NoChild, Turns, NoTurn
    <3>2. ~HandlerKnows(v)'
      BY <1>u, <2>3 DEF HandlerKnows, Handled
    <3>3. ~RequestKnows(v)'
      BY <2>1, <2>3 DEF RequestKnows, Requested, Request
    <3>4. ~AnswerKnows(v)'
      BY <2>3 DEF AnswerKnows, Addressed
    <3> QED
      BY <3>1, <3>2, <3>3, <3>4 DEF Knows
  <2>6. \A u \in Turns : ~Knows(u)'
    BY <1>t, <1>a, <2>2, <2>4, <2>5 DEF Keeps, OneKnows
  <2>7. v <= turns
    BY <1>t, <2>2, <2>3 DEF NewestIsFresh, Around
  <2> HIDE DEF v
  <2>8. SUFFICES ASSUME NEW t \in Turns, Finished(t)' PROVE t <= turns
    BY <1>u, <2>2, <2>6, CallsAssumption DEF FinishedIsPast
  <2>9. Finished(t) \/ t = v
    BY <1>u, <2>1, <2>8 DEF Finished
  <2> QED
    BY <1>t, <2>7, <2>9 DEF FinishedIsPast
<1> QED
  BY <1>3, <1>4

(***************************************************************************)
(* The invariant, and what it says of the runtime.                         *)
(***************************************************************************)
\* The invariant holds at the start.
LEMMA CompletionInit == Init => CInv
<1> SUFFICES ASSUME Init PROVE CInv
  OBVIOUS
<1>1. PInv
  BY PromiseInit
<1>2. HostWire = {} /\ ChildWire = {}
  BY DEF Init, HostWire, ChildWire
<1>3. /\ checkpoint.rev = 0 /\ checkpoint.call = NoCall
      /\ child.pc = "none" /\ child.turn = NoTurn
      /\ \A t \in Turns : handler[t].pc = "idle" /\ outcome[t] = "none"
      /\ \A c \in Calls : journal[c] = "none"
  BY DEF Init, NoChild, Idle
<1>4. OneKnows /\ NamesCurrent
  BY <1>2, <1>3 DEF OneKnows, Knows, NamesCurrent
<1>5. CommitsAreClear /\ DoubtIsNamed
  BY <1>3, CallsAssumption DEF CommitsAreClear, DoubtIsNamed, InDoubt
<1>6. CommitsOwn /\ FinishedIsPast
  BY <1>2, <1>3 DEF CommitsOwn, Commits, FinishedIsPast, Finished
<1> QED
  BY <1>1, <1>4, <1>5, <1>6 DEF CInv

\* A step in which nobody comes to know, to execute or to finish anything.
LEMMA KeepsCompletion ==
  ASSUME CInv, PInv', checkpoint' = checkpoint, turns' \in Nat, turns <= turns', AskedStays,
         Keeps /\ KeepsClear /\ KeepsDoubt /\ KeepsFinished /\ NamesCurrent'
  PROVE  CInv'
<1>1. TypeOK /\ AskedFirst
  BY DEF CInv, PInv, IInv
<1>2. OneKnows' /\ CommitsAreClear' /\ DoubtIsNamed' /\ CommitsOwn' /\ FinishedIsPast'
  BY <1>1, OneKnowsKept, ClearKept, DoubtKept, OwnKept, PastKept DEF CInv
<1> QED
  BY <1>2 DEF CInv

\* Every step of the thread keeps the invariant.
LEMMA CompletionStep == CInv /\ [Next]_vars => CInv'
<1> SUFFICES ASSUME CInv, [Next]_vars PROVE CInv'
  OBVIOUS
<1>p. PInv'
  BY PromiseStep DEF CInv
<1>t. /\ TypeOK /\ turns \in Nat /\ OneKnows /\ DoubtIsNamed /\ CommitsOwn
      /\ asked \in [Calls -> Turns \cup {NoTurn}]
  BY DEF CInv, PInv, IInv, TypeOK
<1>1. CASE BeginStart \/ AdmitTurn \/ RefuseTurn \/ PostStart \/ Stop
  <2>1. checkpoint' = checkpoint /\ asked' = asked /\ turns' \in {turns, turns + 1}
    BY <1>1 DEF BeginStart, AdmitTurn, RefuseTurn, PostStart, Stop, durable, history
  <2> QED
    BY <1>1, <1>p, <1>t, <2>1, StartKeeps, KeepsCompletion DEF AskedStays
<1>2. CASE Resume
  BY <1>2, <1>p, ResumeKnows DEF CInv
<1>3. CASE FinishRun \/ ModelFails \/ RequestTimesOut \/ (\E c \in Calls : RequestTool(c))
  <2>1. checkpoint' = checkpoint /\ turns' = turns
    BY <1>3 DEF FinishRun, ModelFails, RequestTimesOut, RequestTool, durable, hostVars
  <2>2. AskedStays
    BY <1>3, <1>t DEF FinishRun, ModelFails, RequestTimesOut, RequestTool, history, AskedStays
  <2> QED
    BY <1>3, <1>p, <1>t, <2>1, <2>2, RequestKeeps, KeepsCompletion
<1>4. CASE ChildReceive
  <2>1. checkpoint' = checkpoint /\ asked' = asked
    BY <1>4 DEF ChildReceive, durable
  <2>2. OneKnows' /\ DoubtIsNamed' /\ CommitsOwn'
    BY <1>4, <1>t, <2>1, TakeKeeps, OneKnowsKept, DoubtKept, OwnKept DEF AskedStays
  <2> QED
    BY <1>4, <1>p, <2>2, TakeKeeps, TakePast DEF CInv
<1>5. CASE HostReceive
  <2>1. checkpoint' = checkpoint /\ asked' = asked /\ turns' = turns
    BY <1>5 DEF HostReceive, durable, history
  <2> QED
    BY <1>5, <1>p, <1>t, <2>1, HostKeeps, KeepsCompletion DEF AskedStays
<1>6. ASSUME NEW t \in Turns, HandlerStep(t) \/ AdapterReturns(t) \/ StoreFails(t)
      PROVE  CInv'
  <2>1. asked' = asked /\ turns' = turns
    BY <1>6, <1>t, HandlerShape
  <2>2. CASE checkpoint' = checkpoint
    BY <1>6, <1>p, <1>t, <2>1, <2>2, HandlerKeeps, KeepsCompletion DEF AskedStays
  <2>3. CASE checkpoint' # checkpoint
    <3>1. CommitCheckpoint(t)
      BY <1>6, <2>3 DEF HandlerStep, ReadCheckpoint, AddInvocation, LessonPolicy,
         RefuseCall, ClaimExecution, Dispatch, AdapterReturns, RecordOutcome, Respond, StoreFails,
         durable
    <3> QED
      BY <1>p, <2>3, <3>1, CommitStep DEF CInv
  <2> QED
    BY <2>2, <2>3
<1>7. CASE ProcessDies \/ ExitStep \/ Restart
  <2>1. checkpoint' = checkpoint /\ asked' = asked /\ turns' = turns
    BY <1>7, <1>t, FailureShape
  <2> QED
    BY <1>7, <1>p, <1>t, <2>1, FailureKeeps, KeepsCompletion DEF AskedStays
<1>8. CASE UNCHANGED vars
  <2>1. UNCHANGED <<checkpoint, journal, turns, handler, outcome, child, toHost, toChild, asked>>
    BY <1>8 DEF vars, durable, hostVars, procVars, history
  <2>2. HostWire' = HostWire /\ ChildWire' = ChildWire
    BY <2>1 DEF HostWire, ChildWire
  <2>3. KeepsDoubt /\ KeepsFinished
    BY <2>1, <2>2 DEF KeepsDoubt, InDoubt, KeepsFinished, Finished
  <2>4. Keeps
    BY <2>1, <2>2 DEF Keeps, Knows, ChildKnows, HandlerKnows, RequestKnows, AnswerKnows, Handled,
       Executes, Commits
  <2>5. KeepsClear
    BY <2>1, <2>2 DEF KeepsClear, MayCommit, ChildKnows
  <2>6. NamesCurrent'
    BY <2>1, <2>2 DEF CInv, NamesCurrent, HandlerKnows, Handled
  <2> QED
    BY <1>p, <1>t, <2>1, <2>3, <2>4, <2>5, <2>6, KeepsCompletion DEF AskedStays
<1> QED
  BY <1>1, <1>2, <1>3, <1>4, <1>5, <1>6, <1>7, <1>8 DEF Next, StartStep, ChildStep

\* The third invariant holds in every state of the thread: one turn knows the
\* checkpoint, and nobody commits over a call that is not settled.
THEOREM CompletionInvariant == Spec => []CInv
  BY CompletionInit, CompletionStep, PTL DEF Spec

\* No turn completes over an effect nobody knows the outcome of (handleExit,
\* replay, commitCheckpoint).
THEOREM NoCompletionOverUnknownHolds == Spec => []NoCompletionOverUnknown
<1>1. CInv => NoCompletionOverUnknown
  <2> SUFFICES ASSUME CInv, NEW t \in Turns, outcome[t] = "completed",
                      NEW c \in Calls \ ObserveCalls, asked[c] \in 1 .. t,
                      journal[c] \in {"executing", "unknown"}
               PROVE  FALSE
    BY DEF NoCompletionOverUnknown
  <2>1. checkpoint.call = c
    BY DEF CInv, DoubtIsNamed, InDoubt
  <2>2. asked[c] > t
    BY <2>1 DEF CInv, FinishedIsPast, Finished
  <2> QED
    BY <2>2 DEF Turns
<1> QED
  BY <1>1, CompletionInvariant, PTL
=================================================================================
