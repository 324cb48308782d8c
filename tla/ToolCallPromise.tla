--------------------------- MODULE ToolCallPromise ---------------------------
(***************************************************************************)
(* What the local runtime promises about a model's tool calls, without the *)
(* processes, messages and files that keep the promise: a call is claimed  *)
(* before its adapter is called, the adapter is called once at most and    *)
(* only between the claim and the recorded outcome, and the model learns   *)
(* of a call what was recorded - or that it did not run, which is then     *)
(* final.  AgentTurn implements this specification.                        *)
(***************************************************************************)
EXTENDS Naturals

CONSTANTS
  Calls,     \* tool call ids
  Harmless   \* the calls that only look

VARIABLES
  record,    \* the durable record of each call
  runs,      \* how often its adapter was called
  answer     \* what the model was told about it

vars == <<record, runs, answer>>

Init ==
  /\ record = [c \in Calls |-> "open"]
  /\ runs = [c \in Calls |-> 0]
  /\ answer = [c \in Calls |-> "none"]

\* One step owns the execution of a call.
Claim(c) ==
  /\ record[c] = "open"
  /\ record' = [record EXCEPT ![c] = "claimed"]
  /\ UNCHANGED <<runs, answer>>

\* The adapter is called, unless the model was told that the call did not run.
Run(c) ==
  /\ record[c] = "claimed" /\ runs[c] = 0 /\ answer[c] = "none"
  /\ runs' = [runs EXCEPT ![c] = 1]
  /\ UNCHANGED <<record, answer>>

\* An outcome that says anything but "unknown" is that of an adapter call.
Settle(c) ==
  /\ record[c] = "claimed"
  /\ \E out \in {"completed", "failed", "observe", "unknown"} :
       /\ out = "unknown" \/ runs[c] = 1
       /\ record' = [record EXCEPT ![c] = out]
  /\ UNCHANGED <<runs, answer>>

\* A call that nobody claimed is refused for good.
Refuse(c) ==
  /\ record[c] = "open"
  /\ \E out \in {"cancelled", "failed"} : record' = [record EXCEPT ![c] = out]
  /\ UNCHANGED <<runs, answer>>

\* The model is told the recorded outcome, once.
Answer(c) ==
  /\ record[c] \in {"completed", "failed", "observe"}
  /\ answer[c] = "none"
  /\ answer' = [answer EXCEPT ![c] = record[c]]
  /\ UNCHANGED <<record, runs>>

\* The model is told that the call did not run, and nobody runs it from here on.
Disown(c) ==
  /\ answer[c] = "none"
  /\ c \in Harmless \/ record[c] \in {"open", "cancelled"}
  /\ answer' = [answer EXCEPT ![c] = "rejected"]
  /\ UNCHANGED <<record, runs>>

\* The conversation is restored from a point before the answer.
Forget(c) ==
  /\ answer' = [answer EXCEPT ![c] = "none"]
  /\ UNCHANGED <<record, runs>>

Next ==
  \E c \in Calls :
    Claim(c) \/ Run(c) \/ Settle(c) \/ Refuse(c) \/ Answer(c) \/ Disown(c) \/ Forget(c)

Spec == Init /\ [][Next]_vars
===============================================================================
