----------------------------- MODULE BudgetLedger -----------------------------
(***************************************************************************)
(* The hosted API's ledger of paid provider calls (BudgetService) with the *)
(* request handlers that use it (ResponsesService.execute_at, the image,   *)
(* speech and voice handlers) and the agent turns that count a user's      *)
(* messages (POST /v1/agent-turns).                                        *)
(*                                                                         *)
(* Every ledger operation is one transaction under the user's advisory     *)
(* lock, so it is one step here, and a user's rows are all the state there *)
(* is.  A handler makes several of them, with provider calls between; it   *)
(* may be dropped with its connection or with the server at any await, and *)
(* two handlers may serve one request id.                                  *)
(*                                                                         *)
(* Simplifications: one user and one budget period; every call reserves    *)
(* the same Estimate.  A reservation does not outlive its time-to-live     *)
(* (two minutes) between reserve and mark_dispatched, which follow each    *)
(* other in every handler.                                                 *)
(***************************************************************************)
EXTENDS Naturals, FiniteSets, FiniteSetsExt

CONSTANTS
  Requests,       \* request ids the desktop sends
  Images,         \* the requests of the image lane, which need no agent turn
  Turns,          \* agent turns
  NoTurn,         \* "no agent turn"
  Handlers,       \* handlers that may serve one request id
  Estimate,       \* what a reservation holds back
  MaxCost,        \* bound: what the usage of a call may come to
  Limit,          \* what may be committed in the period
  ImageLimit,     \* image generations in the period
  MessageLimit,   \* agent turns in the period
  CallLimit,      \* provider calls of one agent turn
  Enforce         \* TRUE: cost guard mode "enforce"; FALSE: "observe"

ASSUME SetsAssumption == Images \subseteq Requests /\ NoTurn \notin Turns
ASSUME NumbersAssumption ==
  /\ Estimate \in Nat /\ MaxCost \in Nat /\ Limit \in Nat /\ ImageLimit \in Nat
  /\ MessageLimit \in Nat /\ CallLimit \in Nat
  /\ Enforce \in BOOLEAN

Committed == {"reserved", "settled", "uncertain"}

VARIABLES
  res,      \* model_budget_reservations, by request id
  turn,     \* agent_turns
  pc,       \* where each handler of a request is
  paid,     \* history: provider calls made for a request
  ran       \* history: the provider ran inference for the request

vars == <<res, turn, pc, paid, ran>>

NoReservation ==
  [status |-> "none", dispatched |-> FALSE, old |-> FALSE, amount |-> 0, turn |-> NoTurn]

Reservation(t) ==
  [status |-> "reserved", dispatched |-> FALSE, old |-> FALSE, amount |-> Estimate, turn |-> t]

Pc == {"idle", "reserved", "marked", "sent", "stream", "rejected", "usage",
       "ambiguous", "answered", "refused", "failed", "gone"}

TypeOK ==
  /\ res \in [Requests -> [status : {"none", "released"} \cup Committed,
                           dispatched : BOOLEAN, old : BOOLEAN, amount : Nat,
                           turn : Turns \cup {NoTurn}]]
  /\ turn \in [Turns -> [status : {"none", "reserved", "active", "uncertain", "released"},
                         calls : Nat]]
  /\ pc \in [Requests -> [Handlers -> Pc]]
  /\ paid \in [Requests -> Nat]
  /\ ran \in [Requests -> BOOLEAN]

Init ==
  /\ res = [r \in Requests |-> NoReservation]
  /\ turn = [t \in Turns |-> [status |-> "none", calls |-> 0]]
  /\ pc = [r \in Requests |-> [h \in Handlers |-> "idle"]]
  /\ paid = [r \in Requests |-> 0]
  /\ ran = [r \in Requests |-> FALSE]

Goto(r, h, l) == pc' = [pc EXCEPT ![r][h] = l]

CommittedRequests(rows) == {r \in Requests : rows[r].status \in Committed}
Total(rows) == MapThenSumSet(LAMBDA r : rows[r].amount, CommittedRequests(rows))

\* POST /v1/agent-turns: one message of the user's allowance.
Messages == {t \in Turns : turn[t].status \notin {"none", "released"}}

ReserveTurn(t) ==
  /\ turn[t].status = "none"
  /\ Enforce => Cardinality(Messages) < MessageLimit
  /\ turn' = [turn EXCEPT ![t].status = "reserved"]
  /\ UNCHANGED <<res, pc, paid, ran>>

(***************************************************************************)
(* reserve.                                                                *)
(***************************************************************************)

\* Mutants of Sweep: dispatched calls are released too; a status of its own.
SweepReleases ==
  [r \in Requests |-> IF res[r].status = "reserved" /\ res[r].old
                      THEN [res[r] EXCEPT !.status = "released"] ELSE res[r]]
SweepExpires ==
  [r \in Requests |-> IF res[r].status = "reserved" /\ res[r].old
                      THEN [res[r] EXCEPT !.status = "expired"] ELSE res[r]]

\* Reservations past their time-to-live: nobody will answer for them.
Sweep ==
  [r \in Requests |->
     IF res[r].status = "reserved" /\ res[r].old
     THEN [res[r] EXCEPT !.status = IF res[r].dispatched THEN "uncertain" ELSE "released"]
     ELSE res[r]]

\* Mutant of Duplicate: a released request may be repeated.
DuplicateUnlessReleased(r) == res[r].status \in Committed

Duplicate(r) == res[r].status # "none"

\* Mutant of MayReserve: the new estimate is not counted in.
MayReserveOver(r, t) ==
  /\ IF r \in Images THEN t = NoTurn
     ELSE t \in Turns /\ turn[t].status \notin {"none", "released"} /\ turn[t].calls < CallLimit
  /\ Enforce => Total(Sweep) <= Limit

\* The lane's turn, quota and money checks.
MayReserve(r, t) ==
  /\ IF r \in Images THEN t = NoTurn
     ELSE t \in Turns /\ turn[t].status \notin {"none", "released"} /\ turn[t].calls < CallLimit
  /\ r \in Images => Cardinality(CommittedRequests(Sweep) \cap Images) < ImageLimit
  /\ Enforce => Total(Sweep) + Estimate <= Limit

Reserve(r, h, t) ==
  /\ pc[r][h] = "idle"
  /\ ~Duplicate(r) /\ MayReserve(r, t)
  /\ res' = [Sweep EXCEPT ![r] = Reservation(t)]
  /\ turn' = [u \in Turns |-> IF u = t THEN [turn[u] EXCEPT !.calls = @ + 1] ELSE turn[u]]
  /\ Goto(r, h, "reserved")
  /\ UNCHANGED <<paid, ran>>

\* A duplicate or a denied request rolls the transaction back.
RefuseReserve(r, h, t) ==
  /\ pc[r][h] = "idle"
  /\ Duplicate(r) \/ ~MayReserve(r, t)
  /\ Goto(r, h, "refused")
  /\ UNCHANGED <<res, turn, paid, ran>>

(***************************************************************************)
(* From the reservation to the provider's answer.                          *)
(***************************************************************************)
MarkDispatched(r, h) ==
  /\ pc[r][h] = "reserved"
  /\ IF res[r].status = "reserved"
     THEN /\ res' = [res EXCEPT ![r].dispatched = TRUE]
          /\ turn' = [u \in Turns |-> IF u = res[r].turn /\ turn[u].status # "released"
                                      THEN [turn[u] EXCEPT !.status = "active"] ELSE turn[u]]
     ELSE UNCHANGED <<res, turn>>
  /\ Goto(r, h, "marked")
  /\ UNCHANGED <<paid, ran>>

\* The provider gets the request, and runs inference or not.
CallProvider(r, h) ==
  /\ pc[r][h] = "marked"
  /\ paid' = [paid EXCEPT ![r] = @ + 1]
  /\ \E b \in BOOLEAN : ran' = [ran EXCEPT ![r] = b]
  /\ Goto(r, h, "sent")
  /\ UNCHANGED <<res, turn>>

\* 4xx before inference; a body with usage; a timeout, 5xx or malformed body;
\* or an event stream that has begun.
ProviderAnswers(r, h) ==
  /\ pc[r][h] = "sent"
  /\ \/ ~ran[r] /\ Goto(r, h, "rejected")
     \/ ran[r] /\ Goto(r, h, "usage")
     \/ Goto(r, h, "ambiguous")
     \/ ran[r] /\ r \notin Images /\ Goto(r, h, "stream")
  /\ UNCHANGED <<res, turn, paid, ran>>

\* The stream ends with its usage or without, or its connection is dropped and
\* the guard takes over.
StreamEnds(r, h) ==
  /\ pc[r][h] = "stream"
  /\ \E l \in {"usage", "ambiguous"} : Goto(r, h, l)
  /\ UNCHANGED <<res, turn, paid, ran>>

(***************************************************************************)
(* release, mark_uncertain and settle.                                     *)
(***************************************************************************)
\* Mutant of Transition: the status is not compared.
TransitionBlindly(r, status) == [res EXCEPT ![r].status = status]

\* transition: only a reservation nobody decided is moved.
Transition(r, status) ==
  IF res[r].status = "reserved" THEN [res EXCEPT ![r].status = status] ELSE res

\* No call of the turn is left that may have cost anything.
OwesNothing(rows, t) == \A r \in Requests : rows[r].turn = t => rows[r].status \notin Committed

\* Mutant of Release: the turn goes with its rejected call.
ReleaseTurnToo(r, h) ==
  /\ pc[r][h] = "rejected"
  /\ res' = Transition(r, "released")
  /\ turn' = [u \in Turns |-> IF u = res[r].turn
                              THEN [turn[u] EXCEPT !.status = "released"] ELSE turn[u]]
  /\ Goto(r, h, "answered")
  /\ UNCHANGED <<paid, ran>>

Release(r, h) ==
  /\ pc[r][h] = "rejected"
  /\ res' = Transition(r, "released")
  /\ turn' = [u \in Turns |-> IF u = res[r].turn /\ res'[r] # res[r] /\ OwesNothing(res', u)
                              THEN [turn[u] EXCEPT !.status = "released"] ELSE turn[u]]
  /\ Goto(r, h, "answered")
  /\ UNCHANGED <<paid, ran>>

MarkUncertain(r, h) ==
  /\ pc[r][h] = "ambiguous"
  /\ res' = Transition(r, "uncertain")
  /\ turn' = [u \in Turns |-> IF u = res[r].turn /\ res'[r] # res[r] /\ turn[u].status # "released"
                              THEN [turn[u] EXCEPT !.status = "uncertain"] ELSE turn[u]]
  /\ Goto(r, h, "answered")
  /\ UNCHANGED <<paid, ran>>

\* The provider's usage replaces the estimate, whatever it comes to.
Settle(r, h) ==
  /\ pc[r][h] = "usage"
  /\ res[r].status = "reserved"
  /\ \E actual \in 0 .. MaxCost :
       res' = [res EXCEPT ![r].status = "settled", ![r].amount = actual]
  /\ turn' = [u \in Turns |-> IF u = res[r].turn /\ turn[u].status # "released"
                              THEN [turn[u] EXCEPT !.status = "active"] ELSE turn[u]]
  /\ Goto(r, h, "answered")
  /\ UNCHANGED <<paid, ran>>

\* settle refuses a reservation that is not reserved any more: the answer the
\* provider gave is lost to the user.
SettleFails(r, h) ==
  /\ pc[r][h] = "usage"
  /\ res[r].status # "reserved"
  /\ Goto(r, h, "failed")
  /\ UNCHANGED <<res, turn, paid, ran>>

(***************************************************************************)
(* What the handlers do not control.                                       *)
(***************************************************************************)

\* A handler goes away with its connection or its server.
Drop(r, h) ==
  /\ pc[r][h] \in {"reserved", "marked", "sent", "stream", "rejected", "usage", "ambiguous"}
  /\ Goto(r, h, "gone")
  /\ UNCHANGED <<res, turn, paid, ran>>

\* A reservation passes its time-to-live.
Age(r) ==
  /\ res[r].status = "reserved" /\ ~res[r].old
  /\ \A h \in Handlers : pc[r][h] # "reserved"
  /\ res' = [res EXCEPT ![r].old = TRUE]
  /\ UNCHANGED <<turn, pc, paid, ran>>

HandlerStep(r, h) ==
  \/ \E t \in Turns \cup {NoTurn} : Reserve(r, h, t) \/ RefuseReserve(r, h, t)
  \/ MarkDispatched(r, h) \/ CallProvider(r, h) \/ ProviderAnswers(r, h)
  \/ StreamEnds(r, h) \/ Release(r, h) \/ MarkUncertain(r, h) \/ Settle(r, h)
  \/ SettleFails(r, h) \/ Drop(r, h)

Next ==
  \/ \E t \in Turns : ReserveTurn(t)
  \/ \E r \in Requests, h \in Handlers : HandlerStep(r, h)
  \/ \E r \in Requests : Age(r)

Spec == Init /\ [][Next]_vars

(***************************************************************************)
(* Properties.                                                             *)
(***************************************************************************)

\* A request id is sent to the provider once at most, however often the desktop
\* repeats it (the duplicate check of reserve).
OnePaidCall == \A r \in Requests : paid[r] <= 1

\* Inference the provider ran stays committed against the budget: neither the
\* sweep of stale reservations nor a dropped handler gives its money back.
SpendIsCommitted == \A r \in Requests : ran[r] => res[r].status \in Committed

\* A message handed back to the user (a released turn) has no call left that
\* is charged or may be, also when several calls of the turn were in flight.
ReleasedTurnsOweNothing ==
  \A t \in Turns : turn[t].status = "released" => OwesNothing(res, t)

\* A ledger in which no call has cost more than its estimate.
Capped(rows) ==
  [r \in Requests |-> [rows[r] EXCEPT !.amount = IF @ < Estimate THEN @ ELSE Estimate]]

\* In enforce mode only what calls turned out to cost beyond their estimates can take
\* commitments past the limit, whatever handlers reserve and settle at the same time:
\* reserve counts the new estimate in, and settle charges the usage whatever it is.
WithinLimit == Enforce => Total(Capped(res)) <= Limit

\* A decided reservation is never decided again: the sweep, a late settlement
\* and the guard of a dropped stream may all come for the same one.
DecidedIsFinal ==
  [][\A r \in Requests : res[r].status \in {"released", "settled", "uncertain"}
       => res'[r].status = res[r].status]_vars
===============================================================================
