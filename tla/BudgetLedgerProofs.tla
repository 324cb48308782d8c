-------------------------- MODULE BudgetLedgerProofs --------------------------
(***************************************************************************)
(* Proofs about BudgetLedger, for any sets of requests, turns and handlers *)
(* and any limits.                                                         *)
(*                                                                         *)
(* The properties are not inductive as they stand: that a request is paid  *)
(* for once needs that one handler at most owns its reservation, and that  *)
(* spend stays committed needs that the sweep finds every paid reservation *)
(* marked as dispatched.  IInv adds these facts.  That the limit holds     *)
(* rests on Spending, and on what the sum over a set of requests is.       *)
(***************************************************************************)
EXTENDS BudgetLedger, FiniteSetTheorems, TLAPS

Waiting == {"idle", "refused"}

\* One handler at most got past reserve for a request.
OneOwner ==
  \A r \in Requests : \A g, h \in Handlers :
    pc[r][g] \notin Waiting /\ pc[r][h] \notin Waiting => g = h

\* A handler that got past reserve has a reservation.
OwnerHasRow ==
  \A r \in Requests : \A h \in Handlers : pc[r][h] \notin Waiting => res[r].status # "none"

\* Nothing is paid before the provider call.
UnpaidBefore ==
  \A r \in Requests :
    /\ res[r].status = "none" => paid[r] = 0 /\ ~ran[r]
    /\ \A h \in Handlers : pc[r][h] \in {"reserved", "marked"} => paid[r] = 0 /\ ~ran[r]

\* Between reserve and mark_dispatched the reservation is young.
FreshWhileReserved ==
  \A r \in Requests : \A h \in Handlers :
    pc[r][h] = "reserved" => res[r].status = "reserved" /\ ~res[r].old

\* A handler calls the provider under a dispatched, committed reservation.
MarkedIsCommitted ==
  \A r \in Requests : \A h \in Handlers :
    pc[r][h] = "marked" => res[r].dispatched /\ res[r].status \in Committed

\* A call that is about to be released ran nothing.
RejectedRanNothing ==
  \A r \in Requests : \A h \in Handlers : pc[r][h] = "rejected" => ~ran[r]

\* What ran is dispatched, so that the sweep does not release it.
SpendIsMarked ==
  \A r \in Requests : ran[r] => res[r].dispatched /\ res[r].status \in Committed

IInv ==
  /\ TypeOK /\ OneOwner /\ OwnerHasRow /\ UnpaidBefore /\ FreshWhileReserved
  /\ MarkedIsCommitted /\ RejectedRanNothing /\ SpendIsMarked
  /\ OnePaidCall /\ ReleasedTurnsOweNothing

Row == [status : {"none", "released"} \cup Committed,
        dispatched : BOOLEAN, old : BOOLEAN, amount : Nat, turn : Turns \cup {NoTurn}]
Rows == [Requests -> Row]
TurnRow == [status : {"none", "reserved", "active", "uncertain", "released"}, calls : Nat]

\* The sweep moves reserved rows only, and to uncertain if they are dispatched.
LEMMA SweepFacts ==
  ASSUME res \in Rows
  PROVE  /\ Sweep \in Rows
         /\ \A r \in Requests :
              /\ Sweep[r].turn = res[r].turn
              /\ Sweep[r].dispatched = res[r].dispatched
              /\ Sweep[r].old = res[r].old
              /\ res[r].status # "reserved" => Sweep[r] = res[r]
              /\ res[r].status = "reserved" => Sweep[r].status \in {"reserved", "released", "uncertain"}
              /\ res[r].status = "reserved" /\ ~res[r].old => Sweep[r] = res[r]
              /\ res[r].status = "reserved" /\ res[r].dispatched
                   => Sweep[r].status \in Committed
<1>1. ASSUME NEW r \in Requests
      PROVE  /\ Sweep[r] \in Row
             /\ Sweep[r].turn = res[r].turn
             /\ Sweep[r].dispatched = res[r].dispatched
             /\ Sweep[r].old = res[r].old
             /\ res[r].status # "reserved" => Sweep[r] = res[r]
             /\ res[r].status = "reserved" => Sweep[r].status \in {"reserved", "released", "uncertain"}
             /\ res[r].status = "reserved" /\ ~res[r].old => Sweep[r] = res[r]
             /\ res[r].status = "reserved" /\ res[r].dispatched
                  => Sweep[r].status \in Committed
  BY <1>1 DEF Sweep, Rows, Row, Committed
<1> QED
  BY <1>1 DEF Rows, Sweep

\* transition moves a reserved row to the given status and nothing else.
LEMMA TransitionFacts ==
  ASSUME res \in Rows, NEW r \in Requests,
         NEW status \in {"none", "released"} \cup Committed
  PROVE  /\ Transition(r, status) \in Rows
         /\ \A q \in Requests : q # r => Transition(r, status)[q] = res[q]
         /\ res[r].status # "reserved" => Transition(r, status) = res
         /\ res[r].status = "reserved" => Transition(r, status)[r].status = status
         /\ Transition(r, status)[r].turn = res[r].turn
         /\ Transition(r, status)[r].dispatched = res[r].dispatched
         /\ Transition(r, status)[r].old = res[r].old
  BY DEF Transition, Rows, Row, Committed

(***************************************************************************)
(* Type correctness.                                                       *)
(***************************************************************************)

\* Moving a handler keeps the type of pc.
LEMMA GotoFacts ==
  ASSUME pc \in [Requests -> [Handlers -> Pc]], NEW r \in Requests, NEW h \in Handlers,
         NEW l \in Pc, Goto(r, h, l)
  PROVE  /\ pc' \in [Requests -> [Handlers -> Pc]]
         /\ pc'[r][h] = l
         /\ \A q \in Requests : \A g \in Handlers :
              q # r \/ g # h => pc'[q][g] = pc[q][g]
<1>1. pc' = [pc EXCEPT ![r] = [pc[r] EXCEPT ![h] = l]]
  BY DEF Goto
<1>2. [pc[r] EXCEPT ![h] = l] \in [Handlers -> Pc]
  OBVIOUS
<1> QED
  BY <1>1, <1>2

\* Every step keeps the types.
LEMMA TypeStep == TypeOK /\ [Next]_vars => TypeOK'
<1> SUFFICES ASSUME TypeOK, [Next]_vars PROVE TypeOK'
  OBVIOUS
<1>t. res \in Rows /\ turn \in [Turns -> TurnRow]
  BY DEF TypeOK, Rows, Row, TurnRow
<1>q. ASSUME res' \in Rows, turn' \in [Turns -> TurnRow], pc' \in [Requests -> [Handlers -> Pc]],
             paid' \in [Requests -> Nat], ran' \in [Requests -> BOOLEAN]
      PROVE  TypeOK'
  BY <1>q DEF TypeOK, Rows, Row, TurnRow
<1>1. ASSUME NEW t \in Turns, ReserveTurn(t) PROVE TypeOK'
  <2>1. turn' \in [Turns -> TurnRow]
    BY <1>1, <1>t DEF ReserveTurn, TurnRow
  <2> QED
    BY <2>1, <1>1, <1>t, <1>q DEF ReserveTurn, TypeOK
<1>2. ASSUME NEW r \in Requests, NEW h \in Handlers, NEW t \in Turns \cup {NoTurn},
             Reserve(r, h, t)
      PROVE  TypeOK'
  <2>1. Sweep \in Rows
    BY <1>t, SweepFacts
  <2>2. Reservation(t) \in Row
    BY NumbersAssumption DEF Reservation, Row, Committed
  <2>3. res' \in Rows
    BY <2>1, <2>2, <1>2 DEF Reserve, Rows
  <2>4. turn' \in [Turns -> TurnRow]
    BY <1>2, <1>t DEF Reserve, TurnRow
  <2>5. pc' \in [Requests -> [Handlers -> Pc]]
    BY <1>2, GotoFacts DEF Reserve, Pc, TypeOK
  <2> QED
    BY <2>3, <2>4, <2>5, <1>2, <1>q DEF Reserve, TypeOK
<1>3. ASSUME NEW r \in Requests, NEW h \in Handlers, NEW t \in Turns \cup {NoTurn},
             RefuseReserve(r, h, t)
      PROVE  TypeOK'
  BY <1>3, <1>t, <1>q, GotoFacts DEF RefuseReserve, Pc, TypeOK
<1>4. ASSUME NEW r \in Requests, NEW h \in Handlers, MarkDispatched(r, h) PROVE TypeOK'
  <2>3. [res[r] EXCEPT !.dispatched = TRUE] \in Row
    BY <1>t DEF Rows, Row
  <2>1. res' \in Rows
    BY <2>3, <1>4, <1>t DEF MarkDispatched, Rows
  <2>2. turn' \in [Turns -> TurnRow]
    BY <1>4, <1>t DEF MarkDispatched, TurnRow
  <2> QED
    BY <2>1, <2>2, <1>4, <1>q, GotoFacts DEF MarkDispatched, Pc, TypeOK
<1>5. ASSUME NEW r \in Requests, NEW h \in Handlers, CallProvider(r, h) PROVE TypeOK'
  BY <1>5, <1>t, <1>q, GotoFacts DEF CallProvider, Pc, TypeOK
<1>6. ASSUME NEW r \in Requests, NEW h \in Handlers, ProviderAnswers(r, h) PROVE TypeOK'
  BY <1>6, <1>t, <1>q, GotoFacts DEF ProviderAnswers, Pc, TypeOK
<1>7. ASSUME NEW r \in Requests, NEW h \in Handlers, StreamEnds(r, h) PROVE TypeOK'
  BY <1>7, <1>t, <1>q, GotoFacts DEF StreamEnds, Pc, TypeOK
<1>8. ASSUME NEW r \in Requests, NEW h \in Handlers, Release(r, h) PROVE TypeOK'
  <2>1. res' \in Rows
    BY <1>8, <1>t, TransitionFacts DEF Release
  <2>2. turn' \in [Turns -> TurnRow]
    BY <1>8, <1>t DEF Release, TurnRow
  <2> QED
    BY <2>1, <2>2, <1>8, <1>q, GotoFacts DEF Release, Pc, TypeOK
<1>9. ASSUME NEW r \in Requests, NEW h \in Handlers, MarkUncertain(r, h) PROVE TypeOK'
  <2>1. res' \in Rows
    BY <1>9, <1>t, TransitionFacts DEF MarkUncertain, Committed
  <2>2. turn' \in [Turns -> TurnRow]
    BY <1>9, <1>t DEF MarkUncertain, TurnRow
  <2> QED
    BY <2>1, <2>2, <1>9, <1>q, GotoFacts DEF MarkUncertain, Pc, TypeOK
<1>10. ASSUME NEW r \in Requests, NEW h \in Handlers, Settle(r, h) PROVE TypeOK'
  <2>1. PICK actual \in 0 .. MaxCost :
          res' = [res EXCEPT ![r].status = "settled", ![r].amount = actual]
    BY <1>10 DEF Settle
  <2>2. actual \in Nat
    BY NumbersAssumption
  <2>3. [[res[r] EXCEPT !.status = "settled"] EXCEPT !.amount = actual] \in Row
    BY <2>2, <1>t DEF Rows, Row, Committed
  <2>4. res' \in Rows
    BY <2>1, <2>3, <1>t DEF Rows
  <2>5. turn' \in [Turns -> TurnRow]
    BY <1>10, <1>t DEF Settle, TurnRow
  <2> QED
    BY <2>4, <2>5, <1>10, <1>q, GotoFacts DEF Settle, Pc, TypeOK
<1>11. ASSUME NEW r \in Requests, NEW h \in Handlers, SettleFails(r, h) PROVE TypeOK'
  BY <1>11, <1>t, <1>q, GotoFacts DEF SettleFails, Pc, TypeOK
<1>12. ASSUME NEW r \in Requests, NEW h \in Handlers, Drop(r, h) PROVE TypeOK'
  BY <1>12, <1>t, <1>q, GotoFacts DEF Drop, Pc, TypeOK
<1>13. ASSUME NEW r \in Requests, Age(r) PROVE TypeOK'
  <2>2. [res[r] EXCEPT !.old = TRUE] \in Row
    BY <1>t DEF Rows, Row
  <2>1. res' \in Rows
    BY <2>2, <1>13, <1>t DEF Age, Rows
  <2> QED
    BY <2>1, <1>13, <1>t, <1>q DEF Age, TypeOK
<1>14. CASE UNCHANGED vars
  BY <1>14 DEF vars, TypeOK
<1> QED
  BY <1>1, <1>2, <1>3, <1>4, <1>5, <1>6, <1>7, <1>8, <1>9, <1>10, <1>11, <1>12, <1>13, <1>14
  DEF Next, HandlerStep

\* The empty ledger is of the right type.
LEMMA TypeInit == Init => TypeOK
  BY DEF Init, TypeOK, NoReservation, Pc, Committed

\* The ledger, the handlers and the history stay within their types.
THEOREM TypeCorrect == Spec => []TypeOK
  BY TypeInit, TypeStep, PTL DEF Spec

(***************************************************************************)
(* The inductive invariant.                                                *)
(***************************************************************************)

\* IInv without its type.
Others ==
  /\ OneOwner /\ OwnerHasRow /\ UnpaidBefore /\ FreshWhileReserved
  /\ MarkedIsCommitted /\ RejectedRanNothing /\ SpendIsMarked
  /\ OnePaidCall /\ ReleasedTurnsOweNothing

\* Nothing is reserved or called at first.
LEMMA OthersInit == Init => Others
  BY DEF Init, Others, OneOwner, OwnerHasRow, UnpaidBefore, FreshWhileReserved, MarkedIsCommitted,
         RejectedRanNothing, SpendIsMarked, OnePaidCall, ReleasedTurnsOweNothing, Waiting,
         NoReservation

\* The message reservation keeps it.
LEMMA ReserveTurnStep ==
  ASSUME TypeOK, Others, NEW t \in Turns, ReserveTurn(t)
  PROVE  Others'
<1>t. res \in Rows /\ turn \in [Turns -> TurnRow] /\ paid \in [Requests -> Nat]
      /\ ran \in [Requests -> BOOLEAN] /\ pc \in [Requests -> [Handlers -> Pc]]
  BY DEF TypeOK, Rows, Row, TurnRow
<1>o. OneOwner /\ OwnerHasRow /\ UnpaidBefore /\ FreshWhileReserved /\ MarkedIsCommitted
      /\ RejectedRanNothing /\ SpendIsMarked /\ OnePaidCall /\ ReleasedTurnsOweNothing
  BY DEF Others
<1>r. /\ UNCHANGED <<res, pc, paid, ran>>
      /\ \A u \in Turns : turn'[u].status = "released" => turn[u].status = "released"
  BY <1>t DEF ReserveTurn, TurnRow
<1>a. OneOwner'
  BY <1>t, <1>o, <1>r DEF OneOwner, Waiting, Committed
<1>b. OwnerHasRow'
  BY <1>t, <1>o, <1>r DEF OwnerHasRow, Waiting, Committed
<1>c. UnpaidBefore'
  BY <1>t, <1>o, <1>r DEF UnpaidBefore, Waiting, Committed
<1>d. FreshWhileReserved'
  BY <1>t, <1>o, <1>r DEF FreshWhileReserved, Waiting, Committed
<1>e. MarkedIsCommitted'
  BY <1>t, <1>o, <1>r DEF MarkedIsCommitted, Waiting, Committed
<1>f. RejectedRanNothing'
  BY <1>t, <1>o, <1>r DEF RejectedRanNothing, Waiting, Committed
<1>g. SpendIsMarked'
  BY <1>t, <1>o, <1>r DEF SpendIsMarked, Waiting, Committed
<1>h. OnePaidCall'
  BY <1>t, <1>o, <1>r DEF OnePaidCall, Waiting, Committed
<1>i. ReleasedTurnsOweNothing'
  BY <1>t, <1>o, <1>r DEF ReleasedTurnsOweNothing, Waiting, Committed, OwesNothing
<1> QED
  BY <1>a, <1>b, <1>c, <1>d, <1>e, <1>f, <1>g, <1>h, <1>i DEF Others

\* The reservation of a call keeps it.
LEMMA ReserveStep ==
  ASSUME TypeOK, Others, NEW r \in Requests, NEW h \in Handlers, NEW t \in Turns \cup {NoTurn}, Reserve(r, h, t)
  PROVE  Others'
<1>t. res \in Rows /\ turn \in [Turns -> TurnRow] /\ paid \in [Requests -> Nat]
      /\ ran \in [Requests -> BOOLEAN] /\ pc \in [Requests -> [Handlers -> Pc]]
  BY DEF TypeOK, Rows, Row, TurnRow
<1>o. OneOwner /\ OwnerHasRow /\ UnpaidBefore /\ FreshWhileReserved /\ MarkedIsCommitted
      /\ RejectedRanNothing /\ SpendIsMarked /\ OnePaidCall /\ ReleasedTurnsOweNothing
  BY DEF Others
<1>p. pc[r][h] = "idle" /\ pc'[r][h] = "reserved"
      /\ \A q \in Requests : \A g \in Handlers : q # r \/ g # h => pc'[q][g] = pc[q][g]
  BY <1>t, GotoFacts DEF Reserve, Pc
<1>s. /\ \A q \in Requests : q # r => res'[q] = Sweep[q]
      /\ res'[r].status = "reserved" /\ ~res'[r].old /\ res'[r].turn = t
      /\ res[r].status = "none"
      /\ UNCHANGED <<paid, ran>>
  BY <1>t, SweepFacts DEF Reserve, Duplicate, Reservation, Rows
<1>r. \A q \in Requests :
        /\ Sweep[q].turn = res[q].turn
        /\ Sweep[q].dispatched = res[q].dispatched
        /\ Sweep[q].old = res[q].old
        /\ res[q].status # "reserved" => Sweep[q] = res[q]
        /\ res[q].status = "reserved" => Sweep[q].status \in {"reserved", "released", "uncertain"}
        /\ res[q].status = "reserved" /\ ~res[q].old => Sweep[q] = res[q]
        /\ res[q].status = "reserved" /\ res[q].dispatched => Sweep[q].status \in Committed
  BY <1>t, SweepFacts
<1>u. \A u \in Turns : turn'[u].status = "released" => turn[u].status = "released" /\ u # t
  BY <1>t, SetsAssumption DEF Reserve, MayReserve, TurnRow
<1>a. OneOwner'
  BY <1>t, <1>o, <1>p, <1>r, <1>s, <1>u DEF OneOwner, OwnerHasRow, Waiting, Committed
<1>b. OwnerHasRow'
  BY <1>t, <1>o, <1>p, <1>r, <1>s, <1>u DEF OwnerHasRow, Waiting, Committed
<1>c. UnpaidBefore'
  BY <1>t, <1>o, <1>p, <1>r, <1>s, <1>u DEF UnpaidBefore, Waiting, Committed
<1>d. FreshWhileReserved'
  BY <1>t, <1>o, <1>p, <1>r, <1>s, <1>u DEF FreshWhileReserved, Waiting, Committed
<1>e. MarkedIsCommitted'
  BY <1>t, <1>o, <1>p, <1>r, <1>s, <1>u DEF MarkedIsCommitted, Waiting, Committed
<1>f. RejectedRanNothing'
  BY <1>t, <1>o, <1>p, <1>r, <1>s, <1>u DEF RejectedRanNothing, Waiting, Committed
<1>g. SpendIsMarked'
  BY <1>t, <1>o, <1>p, <1>r, <1>s, <1>u DEF SpendIsMarked, Waiting, Committed
<1>h. OnePaidCall'
  BY <1>t, <1>o, <1>p, <1>r, <1>s, <1>u DEF OnePaidCall, Waiting, Committed
<1>i. ReleasedTurnsOweNothing'
  BY <1>t, <1>o, <1>p, <1>r, <1>s, <1>u DEF ReleasedTurnsOweNothing, Waiting, Committed, OwesNothing
<1> QED
  BY <1>a, <1>b, <1>c, <1>d, <1>e, <1>f, <1>g, <1>h, <1>i DEF Others

\* A refused reservation keeps it.
LEMMA RefuseReserveStep ==
  ASSUME TypeOK, Others, NEW r \in Requests, NEW h \in Handlers, NEW t \in Turns \cup {NoTurn}, RefuseReserve(r, h, t)
  PROVE  Others'
<1>t. res \in Rows /\ turn \in [Turns -> TurnRow] /\ paid \in [Requests -> Nat]
      /\ ran \in [Requests -> BOOLEAN] /\ pc \in [Requests -> [Handlers -> Pc]]
  BY DEF TypeOK, Rows, Row, TurnRow
<1>o. OneOwner /\ OwnerHasRow /\ UnpaidBefore /\ FreshWhileReserved /\ MarkedIsCommitted
      /\ RejectedRanNothing /\ SpendIsMarked /\ OnePaidCall /\ ReleasedTurnsOweNothing
  BY DEF Others
<1>p. pc[r][h] # pc'[r][h] /\ pc'[r][h] = "refused"
      /\ \A q \in Requests : \A g \in Handlers : q # r \/ g # h => pc'[q][g] = pc[q][g]
  BY <1>t, GotoFacts DEF RefuseReserve, Pc
<1>r. UNCHANGED <<res, turn, paid, ran>>
  BY DEF RefuseReserve
<1>a. OneOwner'
  BY <1>t, <1>o, <1>p, <1>r DEF OneOwner, Waiting, Committed
<1>b. OwnerHasRow'
  BY <1>t, <1>o, <1>p, <1>r DEF OwnerHasRow, Waiting, Committed
<1>c. UnpaidBefore'
  BY <1>t, <1>o, <1>p, <1>r DEF UnpaidBefore, Waiting, Committed
<1>d. FreshWhileReserved'
  BY <1>t, <1>o, <1>p, <1>r DEF FreshWhileReserved, Waiting, Committed
<1>e. MarkedIsCommitted'
  BY <1>t, <1>o, <1>p, <1>r DEF MarkedIsCommitted, Waiting, Committed
<1>f. RejectedRanNothing'
  BY <1>t, <1>o, <1>p, <1>r DEF RejectedRanNothing, Waiting, Committed
<1>g. SpendIsMarked'
  BY <1>t, <1>o, <1>p, <1>r DEF SpendIsMarked, Waiting, Committed
<1>h. OnePaidCall'
  BY <1>t, <1>o, <1>p, <1>r DEF OnePaidCall, Waiting, Committed
<1>i. ReleasedTurnsOweNothing'
  BY <1>t, <1>o, <1>p, <1>r DEF ReleasedTurnsOweNothing, Waiting, Committed, OwesNothing
<1> QED
  BY <1>a, <1>b, <1>c, <1>d, <1>e, <1>f, <1>g, <1>h, <1>i DEF Others

\* Marking a call dispatched keeps it.
LEMMA MarkDispatchedStep ==
  ASSUME TypeOK, Others, NEW r \in Requests, NEW h \in Handlers, MarkDispatched(r, h)
  PROVE  Others'
<1>t. res \in Rows /\ turn \in [Turns -> TurnRow] /\ paid \in [Requests -> Nat]
      /\ ran \in [Requests -> BOOLEAN] /\ pc \in [Requests -> [Handlers -> Pc]]
  BY DEF TypeOK, Rows, Row, TurnRow
<1>o. OneOwner /\ OwnerHasRow /\ UnpaidBefore /\ FreshWhileReserved /\ MarkedIsCommitted
      /\ RejectedRanNothing /\ SpendIsMarked /\ OnePaidCall /\ ReleasedTurnsOweNothing
  BY DEF Others
<1>p. pc[r][h] = "reserved" /\ pc'[r][h] = "marked"
      /\ \A q \in Requests : \A g \in Handlers : q # r \/ g # h => pc'[q][g] = pc[q][g]
  BY <1>t, GotoFacts DEF MarkDispatched, Pc
<1>r. /\ \A q \in Requests : q # r => res'[q] = res[q]
      /\ res[r].status = "reserved" /\ res'[r].status = "reserved" /\ res'[r].dispatched
      /\ res'[r].turn = res[r].turn /\ res'[r].old = res[r].old
      /\ UNCHANGED <<paid, ran>>
  BY <1>t, <1>o, <1>p DEF MarkDispatched, FreshWhileReserved, Rows, Row
<1>u. \A u \in Turns : turn'[u].status = "released" => turn[u].status = "released"
  BY <1>t DEF MarkDispatched, TurnRow
<1>a. OneOwner'
  BY <1>t, <1>o, <1>p, <1>r, <1>u DEF OneOwner, Waiting, Committed
<1>b. OwnerHasRow'
  BY <1>t, <1>o, <1>p, <1>r, <1>u DEF OwnerHasRow, Waiting, Committed
<1>c. UnpaidBefore'
  BY <1>t, <1>o, <1>p, <1>r, <1>u DEF UnpaidBefore, Waiting, Committed
<1>d. FreshWhileReserved'
  BY <1>t, <1>o, <1>p, <1>r, <1>u DEF FreshWhileReserved, Waiting, Committed
<1>e. MarkedIsCommitted'
  BY <1>t, <1>o, <1>p, <1>r, <1>u DEF MarkedIsCommitted, Waiting, Committed
<1>f. RejectedRanNothing'
  BY <1>t, <1>o, <1>p, <1>r, <1>u DEF RejectedRanNothing, Waiting, Committed
<1>g. SpendIsMarked'
  BY <1>t, <1>o, <1>p, <1>r, <1>u DEF SpendIsMarked, Waiting, Committed
<1>h. OnePaidCall'
  BY <1>t, <1>o, <1>p, <1>r, <1>u DEF OnePaidCall, Waiting, Committed
<1>i. ReleasedTurnsOweNothing'
  BY <1>t, <1>o, <1>p, <1>r, <1>u DEF ReleasedTurnsOweNothing, Waiting, Committed, OwesNothing
<1> QED
  BY <1>a, <1>b, <1>c, <1>d, <1>e, <1>f, <1>g, <1>h, <1>i DEF Others

\* Calling the provider keeps it.
LEMMA CallProviderStep ==
  ASSUME TypeOK, Others, NEW r \in Requests, NEW h \in Handlers, CallProvider(r, h)
  PROVE  Others'
<1>t. res \in Rows /\ turn \in [Turns -> TurnRow] /\ paid \in [Requests -> Nat]
      /\ ran \in [Requests -> BOOLEAN] /\ pc \in [Requests -> [Handlers -> Pc]]
  BY DEF TypeOK, Rows, Row, TurnRow
<1>o. OneOwner /\ OwnerHasRow /\ UnpaidBefore /\ FreshWhileReserved /\ MarkedIsCommitted
      /\ RejectedRanNothing /\ SpendIsMarked /\ OnePaidCall /\ ReleasedTurnsOweNothing
  BY DEF Others
<1>p. pc[r][h] = "marked" /\ pc'[r][h] = "sent"
      /\ \A q \in Requests : \A g \in Handlers : q # r \/ g # h => pc'[q][g] = pc[q][g]
  BY <1>t, GotoFacts DEF CallProvider, Pc
<1>r. /\ UNCHANGED <<res, turn>>
      /\ paid'[r] = paid[r] + 1
      /\ \A q \in Requests : q # r => paid'[q] = paid[q] /\ ran'[q] = ran[q]
  BY <1>t DEF CallProvider
<1>a. OneOwner'
  BY <1>t, <1>o, <1>p, <1>r DEF OneOwner, Waiting, Committed
<1>b. OwnerHasRow'
  BY <1>t, <1>o, <1>p, <1>r DEF OwnerHasRow, Waiting, Committed
<1>c. UnpaidBefore'
  <2>1. res[r].status # "none"
    BY <1>o, <1>p DEF OwnerHasRow, Waiting
  <2>2. \A g \in Handlers : pc'[r][g] \notin {"reserved", "marked"}
    BY <1>o, <1>p DEF OneOwner, Waiting
  <2> QED
    BY <1>o, <1>r, <1>p, <2>1, <2>2 DEF UnpaidBefore
<1>d. FreshWhileReserved'
  BY <1>t, <1>o, <1>p, <1>r DEF FreshWhileReserved, Waiting, Committed
<1>e. MarkedIsCommitted'
  BY <1>t, <1>o, <1>p, <1>r DEF MarkedIsCommitted, Waiting, Committed
<1>f. RejectedRanNothing'
  BY <1>t, <1>o, <1>p, <1>r DEF RejectedRanNothing, OneOwner, Waiting, Committed
<1>g. SpendIsMarked'
  BY <1>t, <1>o, <1>p, <1>r DEF SpendIsMarked, MarkedIsCommitted, Waiting, Committed
<1>h. OnePaidCall'
  BY <1>t, <1>o, <1>p, <1>r DEF OnePaidCall, UnpaidBefore, Waiting, Committed
<1>i. ReleasedTurnsOweNothing'
  BY <1>t, <1>o, <1>p, <1>r DEF ReleasedTurnsOweNothing, Waiting, Committed, OwesNothing
<1> QED
  BY <1>a, <1>b, <1>c, <1>d, <1>e, <1>f, <1>g, <1>h, <1>i DEF Others

\* The answer of the provider keeps it.
LEMMA ProviderAnswersStep ==
  ASSUME TypeOK, Others, NEW r \in Requests, NEW h \in Handlers, ProviderAnswers(r, h)
  PROVE  Others'
<1>t. res \in Rows /\ turn \in [Turns -> TurnRow] /\ paid \in [Requests -> Nat]
      /\ ran \in [Requests -> BOOLEAN] /\ pc \in [Requests -> [Handlers -> Pc]]
  BY DEF TypeOK, Rows, Row, TurnRow
<1>o. OneOwner /\ OwnerHasRow /\ UnpaidBefore /\ FreshWhileReserved /\ MarkedIsCommitted
      /\ RejectedRanNothing /\ SpendIsMarked /\ OnePaidCall /\ ReleasedTurnsOweNothing
  BY DEF Others
<1>p. pc[r][h] \notin Waiting /\ pc'[r][h] \in {"rejected", "usage", "ambiguous", "stream"} /\ (pc'[r][h] = "rejected" => ~ran[r])
      /\ \A q \in Requests : \A g \in Handlers : q # r \/ g # h => pc'[q][g] = pc[q][g]
  BY <1>t, GotoFacts DEF ProviderAnswers, Pc, Waiting
<1>r. UNCHANGED <<res, turn, paid, ran>>
  BY DEF ProviderAnswers
<1>a. OneOwner'
  BY <1>t, <1>o, <1>p, <1>r DEF OneOwner, Waiting, Committed
<1>b. OwnerHasRow'
  BY <1>t, <1>o, <1>p, <1>r DEF OwnerHasRow, Waiting, Committed
<1>c. UnpaidBefore'
  BY <1>t, <1>o, <1>p, <1>r DEF UnpaidBefore, Waiting, Committed
<1>d. FreshWhileReserved'
  BY <1>t, <1>o, <1>p, <1>r DEF FreshWhileReserved, Waiting, Committed
<1>e. MarkedIsCommitted'
  BY <1>t, <1>o, <1>p, <1>r DEF MarkedIsCommitted, Waiting, Committed
<1>f. RejectedRanNothing'
  BY <1>t, <1>o, <1>p, <1>r DEF RejectedRanNothing, Waiting, Committed
<1>g. SpendIsMarked'
  BY <1>t, <1>o, <1>p, <1>r DEF SpendIsMarked, Waiting, Committed
<1>h. OnePaidCall'
  BY <1>t, <1>o, <1>p, <1>r DEF OnePaidCall, Waiting, Committed
<1>i. ReleasedTurnsOweNothing'
  BY <1>t, <1>o, <1>p, <1>r DEF ReleasedTurnsOweNothing, Waiting, Committed, OwesNothing
<1> QED
  BY <1>a, <1>b, <1>c, <1>d, <1>e, <1>f, <1>g, <1>h, <1>i DEF Others

\* The end of a stream keeps it.
LEMMA StreamEndsStep ==
  ASSUME TypeOK, Others, NEW r \in Requests, NEW h \in Handlers, StreamEnds(r, h)
  PROVE  Others'
<1>t. res \in Rows /\ turn \in [Turns -> TurnRow] /\ paid \in [Requests -> Nat]
      /\ ran \in [Requests -> BOOLEAN] /\ pc \in [Requests -> [Handlers -> Pc]]
  BY DEF TypeOK, Rows, Row, TurnRow
<1>o. OneOwner /\ OwnerHasRow /\ UnpaidBefore /\ FreshWhileReserved /\ MarkedIsCommitted
      /\ RejectedRanNothing /\ SpendIsMarked /\ OnePaidCall /\ ReleasedTurnsOweNothing
  BY DEF Others
<1>p. pc[r][h] \notin Waiting /\ pc'[r][h] \in {"usage", "ambiguous"}
      /\ \A q \in Requests : \A g \in Handlers : q # r \/ g # h => pc'[q][g] = pc[q][g]
  BY <1>t, GotoFacts DEF StreamEnds, Pc, Waiting
<1>r. UNCHANGED <<res, turn, paid, ran>>
  BY DEF StreamEnds
<1>a. OneOwner'
  BY <1>t, <1>o, <1>p, <1>r DEF OneOwner, Waiting, Committed
<1>b. OwnerHasRow'
  BY <1>t, <1>o, <1>p, <1>r DEF OwnerHasRow, Waiting, Committed
<1>c. UnpaidBefore'
  BY <1>t, <1>o, <1>p, <1>r DEF UnpaidBefore, Waiting, Committed
<1>d. FreshWhileReserved'
  BY <1>t, <1>o, <1>p, <1>r DEF FreshWhileReserved, Waiting, Committed
<1>e. MarkedIsCommitted'
  BY <1>t, <1>o, <1>p, <1>r DEF MarkedIsCommitted, Waiting, Committed
<1>f. RejectedRanNothing'
  BY <1>t, <1>o, <1>p, <1>r DEF RejectedRanNothing, Waiting, Committed
<1>g. SpendIsMarked'
  BY <1>t, <1>o, <1>p, <1>r DEF SpendIsMarked, Waiting, Committed
<1>h. OnePaidCall'
  BY <1>t, <1>o, <1>p, <1>r DEF OnePaidCall, Waiting, Committed
<1>i. ReleasedTurnsOweNothing'
  BY <1>t, <1>o, <1>p, <1>r DEF ReleasedTurnsOweNothing, Waiting, Committed, OwesNothing
<1> QED
  BY <1>a, <1>b, <1>c, <1>d, <1>e, <1>f, <1>g, <1>h, <1>i DEF Others

\* A settlement that fails keeps it.
LEMMA SettleFailsStep ==
  ASSUME TypeOK, Others, NEW r \in Requests, NEW h \in Handlers, SettleFails(r, h)
  PROVE  Others'
<1>t. res \in Rows /\ turn \in [Turns -> TurnRow] /\ paid \in [Requests -> Nat]
      /\ ran \in [Requests -> BOOLEAN] /\ pc \in [Requests -> [Handlers -> Pc]]
  BY DEF TypeOK, Rows, Row, TurnRow
<1>o. OneOwner /\ OwnerHasRow /\ UnpaidBefore /\ FreshWhileReserved /\ MarkedIsCommitted
      /\ RejectedRanNothing /\ SpendIsMarked /\ OnePaidCall /\ ReleasedTurnsOweNothing
  BY DEF Others
<1>p. pc[r][h] \notin Waiting /\ pc'[r][h] \in {"failed"}
      /\ \A q \in Requests : \A g \in Handlers : q # r \/ g # h => pc'[q][g] = pc[q][g]
  BY <1>t, GotoFacts DEF SettleFails, Pc, Waiting
<1>r. UNCHANGED <<res, turn, paid, ran>>
  BY DEF SettleFails
<1>a. OneOwner'
  BY <1>t, <1>o, <1>p, <1>r DEF OneOwner, Waiting, Committed
<1>b. OwnerHasRow'
  BY <1>t, <1>o, <1>p, <1>r DEF OwnerHasRow, Waiting, Committed
<1>c. UnpaidBefore'
  BY <1>t, <1>o, <1>p, <1>r DEF UnpaidBefore, Waiting, Committed
<1>d. FreshWhileReserved'
  BY <1>t, <1>o, <1>p, <1>r DEF FreshWhileReserved, Waiting, Committed
<1>e. MarkedIsCommitted'
  BY <1>t, <1>o, <1>p, <1>r DEF MarkedIsCommitted, Waiting, Committed
<1>f. RejectedRanNothing'
  BY <1>t, <1>o, <1>p, <1>r DEF RejectedRanNothing, Waiting, Committed
<1>g. SpendIsMarked'
  BY <1>t, <1>o, <1>p, <1>r DEF SpendIsMarked, Waiting, Committed
<1>h. OnePaidCall'
  BY <1>t, <1>o, <1>p, <1>r DEF OnePaidCall, Waiting, Committed
<1>i. ReleasedTurnsOweNothing'
  BY <1>t, <1>o, <1>p, <1>r DEF ReleasedTurnsOweNothing, Waiting, Committed, OwesNothing
<1> QED
  BY <1>a, <1>b, <1>c, <1>d, <1>e, <1>f, <1>g, <1>h, <1>i DEF Others

\* A handler that is dropped keeps it.
LEMMA DropStep ==
  ASSUME TypeOK, Others, NEW r \in Requests, NEW h \in Handlers, Drop(r, h)
  PROVE  Others'
<1>t. res \in Rows /\ turn \in [Turns -> TurnRow] /\ paid \in [Requests -> Nat]
      /\ ran \in [Requests -> BOOLEAN] /\ pc \in [Requests -> [Handlers -> Pc]]
  BY DEF TypeOK, Rows, Row, TurnRow
<1>o. OneOwner /\ OwnerHasRow /\ UnpaidBefore /\ FreshWhileReserved /\ MarkedIsCommitted
      /\ RejectedRanNothing /\ SpendIsMarked /\ OnePaidCall /\ ReleasedTurnsOweNothing
  BY DEF Others
<1>p. pc[r][h] \notin Waiting /\ pc'[r][h] \in {"gone"}
      /\ \A q \in Requests : \A g \in Handlers : q # r \/ g # h => pc'[q][g] = pc[q][g]
  BY <1>t, GotoFacts DEF Drop, Pc, Waiting
<1>r. UNCHANGED <<res, turn, paid, ran>>
  BY DEF Drop
<1>a. OneOwner'
  BY <1>t, <1>o, <1>p, <1>r DEF OneOwner, Waiting, Committed
<1>b. OwnerHasRow'
  BY <1>t, <1>o, <1>p, <1>r DEF OwnerHasRow, Waiting, Committed
<1>c. UnpaidBefore'
  BY <1>t, <1>o, <1>p, <1>r DEF UnpaidBefore, Waiting, Committed
<1>d. FreshWhileReserved'
  BY <1>t, <1>o, <1>p, <1>r DEF FreshWhileReserved, Waiting, Committed
<1>e. MarkedIsCommitted'
  BY <1>t, <1>o, <1>p, <1>r DEF MarkedIsCommitted, Waiting, Committed
<1>f. RejectedRanNothing'
  BY <1>t, <1>o, <1>p, <1>r DEF RejectedRanNothing, Waiting, Committed
<1>g. SpendIsMarked'
  BY <1>t, <1>o, <1>p, <1>r DEF SpendIsMarked, Waiting, Committed
<1>h. OnePaidCall'
  BY <1>t, <1>o, <1>p, <1>r DEF OnePaidCall, Waiting, Committed
<1>i. ReleasedTurnsOweNothing'
  BY <1>t, <1>o, <1>p, <1>r DEF ReleasedTurnsOweNothing, Waiting, Committed, OwesNothing
<1> QED
  BY <1>a, <1>b, <1>c, <1>d, <1>e, <1>f, <1>g, <1>h, <1>i DEF Others

\* A release keeps it.
LEMMA ReleaseStep ==
  ASSUME TypeOK, Others, NEW r \in Requests, NEW h \in Handlers, Release(r, h)
  PROVE  Others'
<1>t. res \in Rows /\ turn \in [Turns -> TurnRow] /\ paid \in [Requests -> Nat]
      /\ ran \in [Requests -> BOOLEAN] /\ pc \in [Requests -> [Handlers -> Pc]]
  BY DEF TypeOK, Rows, Row, TurnRow
<1>o. OneOwner /\ OwnerHasRow /\ UnpaidBefore /\ FreshWhileReserved /\ MarkedIsCommitted
      /\ RejectedRanNothing /\ SpendIsMarked /\ OnePaidCall /\ ReleasedTurnsOweNothing
  BY DEF Others
<1>p. pc[r][h] = "rejected" /\ pc'[r][h] = "answered"
      /\ \A q \in Requests : \A g \in Handlers : q # r \/ g # h => pc'[q][g] = pc[q][g]
  BY <1>t, GotoFacts DEF Release, Pc
<1>r. /\ \A q \in Requests : q # r => res'[q] = res[q]
      /\ res[r].status # "reserved" => res'[r] = res[r]
      /\ res[r].status = "reserved" => res'[r].status = "released"
      /\ res'[r].turn = res[r].turn /\ res'[r].old = res[r].old
      /\ res'[r].dispatched = res[r].dispatched
      /\ UNCHANGED <<paid, ran>>
  BY <1>t, TransitionFacts DEF Release, Committed
<1>u. \A u \in Turns : turn'[u].status = "released"
        => turn[u].status = "released" \/ OwesNothing(res', u)
  BY <1>t DEF Release, TurnRow
<1>a. OneOwner'
  BY <1>t, <1>o, <1>p, <1>r, <1>u DEF OneOwner, Waiting, Committed
<1>b. OwnerHasRow'
  BY <1>t, <1>o, <1>p, <1>r, <1>u DEF OwnerHasRow, Waiting, Committed
<1>c. UnpaidBefore'
  BY <1>t, <1>o, <1>p, <1>r, <1>u DEF UnpaidBefore, Waiting, Committed
<1>d. FreshWhileReserved'
  BY <1>t, <1>o, <1>p, <1>r, <1>u DEF FreshWhileReserved, OneOwner, Waiting, Committed
<1>e. MarkedIsCommitted'
  BY <1>t, <1>o, <1>p, <1>r, <1>u DEF MarkedIsCommitted, OneOwner, Waiting, Committed
<1>f. RejectedRanNothing'
  BY <1>t, <1>o, <1>p, <1>r, <1>u DEF RejectedRanNothing, Waiting, Committed
<1>g. SpendIsMarked'
  BY <1>t, <1>o, <1>p, <1>r, <1>u DEF SpendIsMarked, RejectedRanNothing, Waiting, Committed
<1>h. OnePaidCall'
  BY <1>t, <1>o, <1>p, <1>r, <1>u DEF OnePaidCall, Waiting, Committed
<1>i. ReleasedTurnsOweNothing'
  BY <1>t, <1>o, <1>p, <1>r, <1>u DEF ReleasedTurnsOweNothing, Waiting, Committed, OwesNothing
<1> QED
  BY <1>a, <1>b, <1>c, <1>d, <1>e, <1>f, <1>g, <1>h, <1>i DEF Others

\* The sweep of dispatched calls keeps it.
LEMMA MarkUncertainStep ==
  ASSUME TypeOK, Others, NEW r \in Requests, NEW h \in Handlers, MarkUncertain(r, h)
  PROVE  Others'
<1>t. res \in Rows /\ turn \in [Turns -> TurnRow] /\ paid \in [Requests -> Nat]
      /\ ran \in [Requests -> BOOLEAN] /\ pc \in [Requests -> [Handlers -> Pc]]
  BY DEF TypeOK, Rows, Row, TurnRow
<1>o. OneOwner /\ OwnerHasRow /\ UnpaidBefore /\ FreshWhileReserved /\ MarkedIsCommitted
      /\ RejectedRanNothing /\ SpendIsMarked /\ OnePaidCall /\ ReleasedTurnsOweNothing
  BY DEF Others
<1>p. pc[r][h] = "ambiguous" /\ pc'[r][h] = "answered"
      /\ \A q \in Requests : \A g \in Handlers : q # r \/ g # h => pc'[q][g] = pc[q][g]
  BY <1>t, GotoFacts DEF MarkUncertain, Pc
<1>r. /\ \A q \in Requests : q # r => res'[q] = res[q]
      /\ res[r].status # "reserved" => res'[r] = res[r]
      /\ res[r].status = "reserved" => res'[r].status = "uncertain"
      /\ res'[r].turn = res[r].turn /\ res'[r].old = res[r].old
      /\ res'[r].dispatched = res[r].dispatched
      /\ UNCHANGED <<paid, ran>>
  BY <1>t, TransitionFacts DEF MarkUncertain, Committed
<1>u. \A u \in Turns : turn'[u].status = "released"
        => turn[u].status = "released" \/ OwesNothing(res', u)
  BY <1>t DEF MarkUncertain, TurnRow
<1>a. OneOwner'
  BY <1>t, <1>o, <1>p, <1>r, <1>u DEF OneOwner, Waiting, Committed
<1>b. OwnerHasRow'
  BY <1>t, <1>o, <1>p, <1>r, <1>u DEF OwnerHasRow, Waiting, Committed
<1>c. UnpaidBefore'
  BY <1>t, <1>o, <1>p, <1>r, <1>u DEF UnpaidBefore, Waiting, Committed
<1>d. FreshWhileReserved'
  BY <1>t, <1>o, <1>p, <1>r, <1>u DEF FreshWhileReserved, OneOwner, Waiting, Committed
<1>e. MarkedIsCommitted'
  BY <1>t, <1>o, <1>p, <1>r, <1>u DEF MarkedIsCommitted, OneOwner, Waiting, Committed
<1>f. RejectedRanNothing'
  BY <1>t, <1>o, <1>p, <1>r, <1>u DEF RejectedRanNothing, Waiting, Committed
<1>g. SpendIsMarked'
  BY <1>t, <1>o, <1>p, <1>r, <1>u DEF SpendIsMarked, Waiting, Committed
<1>h. OnePaidCall'
  BY <1>t, <1>o, <1>p, <1>r, <1>u DEF OnePaidCall, Waiting, Committed
<1>i. ReleasedTurnsOweNothing'
  BY <1>t, <1>o, <1>p, <1>r, <1>u DEF ReleasedTurnsOweNothing, Waiting, Committed, OwesNothing
<1> QED
  BY <1>a, <1>b, <1>c, <1>d, <1>e, <1>f, <1>g, <1>h, <1>i DEF Others

\* A settlement keeps it.
LEMMA SettleStep ==
  ASSUME TypeOK, Others, NEW r \in Requests, NEW h \in Handlers, Settle(r, h)
  PROVE  Others'
<1>t. res \in Rows /\ turn \in [Turns -> TurnRow] /\ paid \in [Requests -> Nat]
      /\ ran \in [Requests -> BOOLEAN] /\ pc \in [Requests -> [Handlers -> Pc]]
  BY DEF TypeOK, Rows, Row, TurnRow
<1>o. OneOwner /\ OwnerHasRow /\ UnpaidBefore /\ FreshWhileReserved /\ MarkedIsCommitted
      /\ RejectedRanNothing /\ SpendIsMarked /\ OnePaidCall /\ ReleasedTurnsOweNothing
  BY DEF Others
<1>p. pc[r][h] = "usage" /\ pc'[r][h] = "answered"
      /\ \A q \in Requests : \A g \in Handlers : q # r \/ g # h => pc'[q][g] = pc[q][g]
  BY <1>t, GotoFacts DEF Settle, Pc
<1>1. PICK actual \in 0 .. MaxCost :
        res' = [res EXCEPT ![r].status = "settled", ![r].amount = actual]
  BY DEF Settle
<1>r. /\ \A q \in Requests : q # r => res'[q] = res[q]
      /\ res[r].status = "reserved" /\ res'[r].status = "settled"
      /\ res'[r].turn = res[r].turn /\ res'[r].old = res[r].old
      /\ res'[r].dispatched = res[r].dispatched
      /\ UNCHANGED <<paid, ran>>
  BY <1>t, <1>1 DEF Settle, Rows, Row
<1>u. \A u \in Turns : turn'[u].status = "released" => turn[u].status = "released"
  BY <1>t DEF Settle, TurnRow
<1>a. OneOwner'
  BY <1>t, <1>o, <1>p, <1>r, <1>u DEF OneOwner, Waiting, Committed
<1>b. OwnerHasRow'
  BY <1>t, <1>o, <1>p, <1>r, <1>u DEF OwnerHasRow, Waiting, Committed
<1>c. UnpaidBefore'
  BY <1>t, <1>o, <1>p, <1>r, <1>u DEF UnpaidBefore, Waiting, Committed
<1>d. FreshWhileReserved'
  BY <1>t, <1>o, <1>p, <1>r, <1>u DEF FreshWhileReserved, OneOwner, Waiting, Committed
<1>e. MarkedIsCommitted'
  BY <1>t, <1>o, <1>p, <1>r, <1>u DEF MarkedIsCommitted, OneOwner, Waiting, Committed
<1>f. RejectedRanNothing'
  BY <1>t, <1>o, <1>p, <1>r, <1>u DEF RejectedRanNothing, Waiting, Committed
<1>g. SpendIsMarked'
  BY <1>t, <1>o, <1>p, <1>r, <1>u DEF SpendIsMarked, Waiting, Committed
<1>h. OnePaidCall'
  BY <1>t, <1>o, <1>p, <1>r, <1>u DEF OnePaidCall, Waiting, Committed
<1>i. ReleasedTurnsOweNothing'
  BY <1>t, <1>o, <1>p, <1>r, <1>u DEF ReleasedTurnsOweNothing, Waiting, Committed, OwesNothing
<1> QED
  BY <1>a, <1>b, <1>c, <1>d, <1>e, <1>f, <1>g, <1>h, <1>i DEF Others

\* The passing of time keeps it.
LEMMA AgeStep ==
  ASSUME TypeOK, Others, NEW r \in Requests, Age(r)
  PROVE  Others'
<1>t. res \in Rows /\ turn \in [Turns -> TurnRow] /\ paid \in [Requests -> Nat]
      /\ ran \in [Requests -> BOOLEAN] /\ pc \in [Requests -> [Handlers -> Pc]]
  BY DEF TypeOK, Rows, Row, TurnRow
<1>o. OneOwner /\ OwnerHasRow /\ UnpaidBefore /\ FreshWhileReserved /\ MarkedIsCommitted
      /\ RejectedRanNothing /\ SpendIsMarked /\ OnePaidCall /\ ReleasedTurnsOweNothing
  BY DEF Others
<1>r. /\ UNCHANGED <<turn, pc, paid, ran>>
      /\ \A h \in Handlers : pc[r][h] # "reserved"
      /\ \A q \in Requests : q # r => res'[q] = res[q]
      /\ res'[r].status = res[r].status /\ res'[r].turn = res[r].turn
      /\ res'[r].dispatched = res[r].dispatched
  BY <1>t DEF Age, Rows, Row
<1>a. OneOwner'
  BY <1>t, <1>o, <1>r DEF OneOwner, Waiting, Committed
<1>b. OwnerHasRow'
  BY <1>t, <1>o, <1>r DEF OwnerHasRow, Waiting, Committed
<1>c. UnpaidBefore'
  BY <1>t, <1>o, <1>r DEF UnpaidBefore, Waiting, Committed
<1>d. FreshWhileReserved'
  BY <1>t, <1>o, <1>r DEF FreshWhileReserved, Waiting, Committed
<1>e. MarkedIsCommitted'
  BY <1>t, <1>o, <1>r DEF MarkedIsCommitted, Waiting, Committed
<1>f. RejectedRanNothing'
  BY <1>t, <1>o, <1>r DEF RejectedRanNothing, Waiting, Committed
<1>g. SpendIsMarked'
  BY <1>t, <1>o, <1>r DEF SpendIsMarked, Waiting, Committed
<1>h. OnePaidCall'
  BY <1>t, <1>o, <1>r DEF OnePaidCall, Waiting, Committed
<1>i. ReleasedTurnsOweNothing'
  BY <1>t, <1>o, <1>r DEF ReleasedTurnsOweNothing, Waiting, Committed, OwesNothing
<1> QED
  BY <1>a, <1>b, <1>c, <1>d, <1>e, <1>f, <1>g, <1>h, <1>i DEF Others

\* Every step keeps the rest of the invariant.
LEMMA OthersStep == TypeOK /\ Others /\ [Next]_vars => Others'
<1> SUFFICES ASSUME TypeOK, Others, [Next]_vars PROVE Others'
  OBVIOUS
<1>1. CASE UNCHANGED vars
  BY <1>1 DEF vars, Others, OneOwner, OwnerHasRow, UnpaidBefore, FreshWhileReserved, MarkedIsCommitted, RejectedRanNothing, SpendIsMarked, OnePaidCall, ReleasedTurnsOweNothing, OwesNothing
<1>2. CASE Next
  BY <1>2, ReserveTurnStep, ReserveStep, RefuseReserveStep, MarkDispatchedStep, CallProviderStep, ProviderAnswersStep, StreamEndsStep, ReleaseStep, MarkUncertainStep, SettleStep, SettleFailsStep, DropStep, AgeStep DEF Next, HandlerStep
<1> QED
  BY <1>1, <1>2

\* The invariant holds in every state of the ledger: what the handlers know of
\* their reservation is what its row says (budget.rs).
THEOREM Inductive == Spec => []IInv
<1>1. Init => TypeOK /\ Others
  BY TypeInit, OthersInit
<1>2. TypeOK /\ Others /\ [Next]_vars => (TypeOK /\ Others)'
  BY TypeStep, OthersStep
<1>3. TypeOK /\ Others => IInv
  BY DEF Others, IInv
<1> QED
  BY <1>1, <1>2, <1>3, PTL DEF Spec

\* However often the desktop repeats a request, its provider is called once at most.
THEOREM OnePaidCallHolds == Spec => []OnePaidCall
<1>1. IInv => OnePaidCall
  BY DEF IInv
<1> QED
  BY <1>1, Inductive, PTL

\* Inference the provider ran stays committed against the budget.
THEOREM SpendIsCommittedHolds == Spec => []SpendIsCommitted
<1>1. IInv => SpendIsCommitted
  BY DEF IInv, SpendIsMarked, SpendIsCommitted
<1> QED
  BY <1>1, Inductive, PTL

\* A message handed back to the user has no call that is charged or may be.
THEOREM ReleasedTurnsOweNothingHolds == Spec => []ReleasedTurnsOweNothing
<1>1. IInv => ReleasedTurnsOweNothing
  BY DEF IInv
<1> QED
  BY <1>1, Inductive, PTL

(***************************************************************************)
(* Decisions are final.                                                    *)
(***************************************************************************)
DecidedStays ==
  \A r \in Requests : res[r].status \in {"released", "settled", "uncertain"}
    => res'[r].status = res[r].status

\* No step undoes a settlement or a release.
LEMMA DecidedStep == TypeOK /\ [Next]_vars => DecidedStays
<1> SUFFICES ASSUME TypeOK, [Next]_vars PROVE DecidedStays
  OBVIOUS
<1>t. res \in Rows
  BY DEF TypeOK, Rows, Row
<1>1. ASSUME UNCHANGED res PROVE DecidedStays
  BY <1>1 DEF DecidedStays
<1>2. ASSUME NEW r \in Requests, NEW h \in Handlers, NEW t \in Turns \cup {NoTurn},
             Reserve(r, h, t)
      PROVE  DecidedStays
  <2>1. \A q \in Requests : q # r => res'[q] = Sweep[q]
    BY <1>2, <1>t, SweepFacts DEF Reserve, Rows
  <2>2. res[r].status = "none"
    BY <1>2 DEF Reserve, Duplicate
  <2>3. \A q \in Requests : res[q].status # "reserved" => Sweep[q] = res[q]
    BY <1>t, SweepFacts
  <2> QED
    BY <2>1, <2>2, <2>3 DEF DecidedStays
<1>3. ASSUME NEW r \in Requests, NEW h \in Handlers, MarkDispatched(r, h) PROVE DecidedStays
  <2>1. \A q \in Requests : res'[q].status = res[q].status
    BY <1>3, <1>t DEF MarkDispatched, Rows, Row
  <2> QED
    BY <2>1 DEF DecidedStays
<1>4. ASSUME NEW r \in Requests, NEW status \in {"released", "uncertain"},
             res' = Transition(r, status)
      PROVE  DecidedStays
  <2>1. /\ \A q \in Requests : q # r => res'[q] = res[q]
        /\ res[r].status # "reserved" => res'[r] = res[r]
    BY <1>4, <1>t, TransitionFacts DEF Committed
  <2> QED
    BY <2>1 DEF DecidedStays
<1>5. ASSUME NEW r \in Requests, NEW h \in Handlers, Settle(r, h) PROVE DecidedStays
  <2>1. PICK actual \in 0 .. MaxCost :
          res' = [res EXCEPT ![r].status = "settled", ![r].amount = actual]
    BY <1>5 DEF Settle
  <2>2. res[r].status = "reserved" /\ \A q \in Requests : q # r => res'[q] = res[q]
    BY <1>5, <2>1, <1>t DEF Settle, Rows
  <2> QED
    BY <2>2 DEF DecidedStays
<1>6. ASSUME NEW r \in Requests, Age(r) PROVE DecidedStays
  <2>1. \A q \in Requests : res'[q].status = res[q].status
    BY <1>6, <1>t DEF Age, Rows, Row
  <2> QED
    BY <2>1 DEF DecidedStays
<1>7. ASSUME NEW r \in Requests, NEW h \in Handlers, HandlerStep(r, h) PROVE DecidedStays
  BY <1>7, <1>1, <1>2, <1>3, <1>4, <1>5
  DEF HandlerStep, RefuseReserve, CallProvider, ProviderAnswers, StreamEnds, Release,
      MarkUncertain, SettleFails, Drop
<1>8. ASSUME NEW t \in Turns, ReserveTurn(t) PROVE DecidedStays
  BY <1>8, <1>1 DEF ReserveTurn
<1>9. CASE UNCHANGED vars
  BY <1>9, <1>1 DEF vars
<1> QED
  BY <1>6, <1>7, <1>8, <1>9 DEF Next

\* The sweep, a late settlement and a dropped stream never decide a
\* reservation that is decided already.
THEOREM DecidedIsFinalHolds == Spec => DecidedIsFinal
<1>1. TypeOK /\ [Next]_vars
        => [\A r \in Requests : res[r].status \in {"released", "settled", "uncertain"}
              => res'[r].status = res[r].status]_vars
  BY DecidedStep DEF DecidedStays
<1> QED
  BY <1>1, TypeCorrect, PTL DEF Spec, DecidedIsFinal

(***************************************************************************)
(* The total.  The fold of Total is the recursive function Sums.  What is  *)
(* committed is also a set of units, as many of them for each request as   *)
(* its amount, and the total is their number: a smallest set of requests   *)
(* whose sum is not the number of its units cannot exist.                  *)
(***************************************************************************)
Pick(S) == CHOOSE r \in S : TRUE
Sums(rows, S) ==
  CHOOSE f :
    f = [T \in SUBSET S |-> IF T = {} THEN 0 ELSE rows[Pick(T)].amount + f[T \ {Pick(T)}]]

\* The most that one request can have committed.
Most == IF MaxCost < Estimate THEN Estimate ELSE MaxCost

\* What some requests have committed.
Units(rows, S) == {p \in S \X (1 .. Most) : p[2] <= rows[p[1]].amount}
Count(rows, S) == Cardinality(Units(rows, S))
Amounts(rows, S) == \A r \in S : rows[r].amount \in 0 .. Most

\* Neither the estimate nor the usage is more.
LEMMA MostFacts == Most \in Nat /\ Estimate \in 0 .. Most /\ \A a \in 0 .. MaxCost : a \in 0 .. Most
  BY NumbersAssumption DEF Most

\* As many units of one request.
LEMMA UpTo ==
  ASSUME NEW r, NEW a \in Nat
  PROVE  IsFiniteSet({r} \X (1 .. a)) /\ Cardinality({r} \X (1 .. a)) = a
<1>1. IsFiniteSet(1 .. a) /\ Cardinality(1 .. a) = IF 1 > a THEN 0 ELSE a - 1 + 1
  BY FS_Interval
<1>2. Cardinality(1 .. a) = a
  BY <1>1
<1>3. IsFiniteSet({r}) /\ Cardinality({r}) = 1
  BY FS_Singleton
<1>4. Cardinality({r} \X (1 .. a)) = 1 * a
  BY <1>1, <1>2, <1>3, FS_Product
<1> QED
  BY <1>1, <1>3, <1>4, FS_Product

\* The units of a finite set, and those of one of its requests.
LEMMA UnitsFacts ==
  ASSUME NEW rows, NEW S, IsFiniteSet(S), Amounts(rows, S)
  PROVE  /\ IsFiniteSet(Units(rows, S)) /\ Count(rows, S) \in Nat
         /\ S = {} => Count(rows, S) = 0
         /\ \A r \in S : Count(rows, S) = rows[r].amount + Count(rows, S \ {r})
<1>0. Most \in Nat
  BY MostFacts
<1>1. \A T : IsFiniteSet(T) => IsFiniteSet(Units(rows, T)) /\ Count(rows, T) \in Nat
  <2> SUFFICES ASSUME NEW T, IsFiniteSet(T)
               PROVE  IsFiniteSet(Units(rows, T)) /\ Count(rows, T) \in Nat
    OBVIOUS
  <2>1. IsFiniteSet(1 .. Most)
    BY <1>0, FS_Interval
  <2>2. IsFiniteSet(T \X (1 .. Most))
    BY <2>1, FS_Product
  <2>3. IsFiniteSet(Units(rows, T))
    BY <2>2, FS_Subset DEF Units
  <2> QED
    BY <2>3, FS_CardinalityType DEF Count
<1>2. S = {} => Count(rows, S) = 0
  <2>1. S = {} => Units(rows, S) = {}
    BY DEF Units
  <2> QED
    BY <2>1, FS_EmptySet DEF Count
<1>3. ASSUME NEW r \in S
      PROVE  Count(rows, S) = rows[r].amount + Count(rows, S \ {r})
  <2> DEFINE T == S \ {r}
             a == rows[r].amount
             B == {r} \X (1 .. a)
  <2>1. a \in Nat /\ a <= Most
    BY <1>0, <1>3 DEF Amounts
  <2>2. IsFiniteSet(T)
    BY <1>3, FS_RemoveElement
  <2>5. IsFiniteSet(B) /\ Cardinality(B) = a
    <3> HIDE DEF a
    <3>1. IsFiniteSet({r} \X (1 .. a)) /\ Cardinality({r} \X (1 .. a)) = a
      BY <2>1, UpTo
    <3> QED
      BY <3>1
  <2>6. IsFiniteSet(Units(rows, T)) /\ Count(rows, T) \in Nat
    BY <1>1, <2>2
  <2>7. Units(rows, S) = Units(rows, T) \cup B /\ Units(rows, T) \cap B = {}
    <3>1. \A p : p \in Units(rows, S) <=> p \in Units(rows, T) \/ p \in B
      BY <1>0, <1>3, <2>1 DEF Units
    <3>2. \A p : ~(p \in Units(rows, T) /\ p \in B)
      BY DEF Units
    <3> QED
      BY <3>1, <3>2
  <2>8. Count(rows, S) = Count(rows, T) + Cardinality(B) - 0
    <3>1. Cardinality(Units(rows, T) \cap B) = 0
      BY <2>7, FS_EmptySet
    <3> QED
      BY <2>5, <2>6, <2>7, <3>1, FS_Union DEF Count
  <2> QED
    BY <2>1, <2>5, <2>6, <2>8
<1> QED
  BY <1>1, <1>2, <1>3

\* One of a set that is not empty.
LEMMA PickOne ==
  ASSUME NEW S, S # {}
  PROVE  Pick(S) \in S
  BY DEF Pick

\* The number of units satisfies the equation of Sums, and nothing else does.
LEMMA SumsCount ==
  ASSUME NEW rows, NEW S, IsFiniteSet(S), Amounts(rows, S)
  PROVE  Sums(rows, S)[S] = Count(rows, S)
<1> DEFINE g == [T \in SUBSET S |-> Count(rows, T)]
           f == Sums(rows, S)
<1>1. \A T \in SUBSET S : IsFiniteSet(T) /\ Amounts(rows, T)
  BY FS_Subset DEF Amounts
<1>2. \A T \in SUBSET S : /\ Count(rows, T) \in Nat /\ (T = {} => Count(rows, T) = 0)
                          /\ T # {} => /\ T \ {Pick(T)} \in SUBSET S
                                       /\ Count(rows, T) = rows[Pick(T)].amount
                                                            + Count(rows, T \ {Pick(T)})
  BY <1>1, UnitsFacts, PickOne
<1>3. g = [T \in SUBSET S |-> IF T = {} THEN 0 ELSE rows[Pick(T)].amount + g[T \ {Pick(T)}]]
  <2>1. \A T \in SUBSET S :
          Count(rows, T) = IF T = {} THEN 0 ELSE rows[Pick(T)].amount + g[T \ {Pick(T)}]
    BY <1>2
  <2> QED
    BY <2>1
<1>4. f = [T \in SUBSET S |-> IF T = {} THEN 0 ELSE rows[Pick(T)].amount + f[T \ {Pick(T)}]]
  <2> HIDE DEF g
  <2> QED
    BY <1>3 DEF Sums
<1> HIDE DEF f, g
<1>5. \A T \in SUBSET S : f[T] = IF T = {} THEN 0 ELSE rows[Pick(T)].amount + f[T \ {Pick(T)}]
  BY <1>4
<1> DEFINE R == StrictSubsetOrdering(S)
           Bad == {T \in SUBSET S : f[T] # Count(rows, T)}
<1>6. ASSUME Bad # {}
      PROVE  FALSE
  <2>1. IsWellFoundedOn(R, FiniteSubsetsOf(S)) /\ Bad \subseteq FiniteSubsetsOf(S)
    BY <1>1, FS_StrictSubsetOrderingWellFounded DEF FiniteSubsetsOf
  <2> HIDE DEF Bad, R
  <2>2. PICK T \in Bad : \A U \in Bad : ~ (<<U, T>> \in R)
    BY <1>6, <2>1, WFMin
  <2>3. T \in SUBSET S /\ f[T] # Count(rows, T)
    BY <2>2 DEF Bad
  <2>4. T # {}
    BY <1>2, <1>5, <2>3
  <2> DEFINE U == T \ {Pick(T)}
  <2>5. U \in SUBSET S /\ U \subseteq T /\ U # T
    BY <2>3, <2>4, PickOne
  <2>6. f[T] = rows[Pick(T)].amount + f[U] /\ Count(rows, T) = rows[Pick(T)].amount + Count(rows, U)
    BY <1>2, <1>5, <2>3, <2>4
  <2>7. U \in Bad
    BY <2>3, <2>5, <2>6 DEF Bad
  <2>8. <<U, T>> \in R
    BY <2>3, <2>5 DEF R, StrictSubsetOrdering
  <2> QED
    BY <2>2, <2>7, <2>8
<1>7. f[S] = Count(rows, S)
  BY <1>6 DEF Bad
<1> QED
  BY <1>7 DEF f

\* The ledger's total is the number of units.
LEMMA TotalCount ==
  ASSUME NEW rows, IsFiniteSet(CommittedRequests(rows)), Amounts(rows, CommittedRequests(rows))
  PROVE  Total(rows) = Count(rows, CommittedRequests(rows))
<1>1. Total(rows) = Sums(rows, CommittedRequests(rows))[CommittedRequests(rows)]
  BY DEF Total, MapThenSumSet, MapThenFoldSet, Sums, Pick
<1> QED
  BY <1>1, SumsCount

\* Rows of which no more is committed.
LEMMA TotalShrinks ==
  ASSUME NEW rows, NEW now, IsFiniteSet(CommittedRequests(rows)), Amounts(rows, CommittedRequests(rows)),
         \A r \in CommittedRequests(now) :
           r \in CommittedRequests(rows) /\ now[r].amount \in 0 .. rows[r].amount
  PROVE  /\ IsFiniteSet(CommittedRequests(now)) /\ Amounts(now, CommittedRequests(now))
         /\ Total(now) \in Nat /\ Total(rows) \in Nat /\ Total(now) <= Total(rows)
<1> DEFINE S == CommittedRequests(rows)
           T == CommittedRequests(now)
<1>0. Most \in Nat
  BY MostFacts
<1> HIDE DEF S, T
<1>1. T \subseteq S /\ IsFiniteSet(T)
  BY FS_Subset DEF S, T
<1>2. Amounts(now, T)
  BY <1>0 DEF Amounts, S, T
<1>3. Units(now, T) \subseteq Units(rows, S)
  <2> SUFFICES ASSUME NEW p \in Units(now, T)
               PROVE  p \in Units(rows, S)
    OBVIOUS
  <2>1. p \in T \X (1 .. Most) /\ p[2] <= now[p[1]].amount
    BY DEF Units
  <2>2. p[1] \in T /\ p[2] \in Nat
    BY <2>1
  <2>3. now[p[1]].amount \in 0 .. rows[p[1]].amount /\ rows[p[1]].amount \in 0 .. Most
    BY <2>2 DEF S, T, Amounts
  <2> QED
    BY <1>0, <1>1, <2>1, <2>2, <2>3 DEF Units
<1>4. IsFiniteSet(Units(rows, S)) /\ Count(rows, S) \in Nat /\ Count(now, T) \in Nat
  BY <1>1, <1>2, UnitsFacts DEF S
<1>5. Count(now, T) <= Count(rows, S)
  BY <1>3, <1>4, FS_Subset DEF Count
<1>6. Total(rows) = Count(rows, S) /\ Total(now) = Count(now, T)
  BY <1>1, <1>2, TotalCount DEF S, T
<1> QED
  BY <1>1, <1>2, <1>4, <1>5, <1>6 DEF T

\* One request more, with the estimate.
LEMMA TotalGrows ==
  ASSUME NEW rows, NEW now, NEW r, r \notin CommittedRequests(rows),
         IsFiniteSet(CommittedRequests(rows)), Amounts(rows, CommittedRequests(rows)),
         CommittedRequests(now) = CommittedRequests(rows) \cup {r}, now[r].amount = Estimate,
         \A q \in CommittedRequests(rows) : now[q].amount = rows[q].amount
  PROVE  /\ IsFiniteSet(CommittedRequests(now)) /\ Amounts(now, CommittedRequests(now))
         /\ Total(now) = Total(rows) + Estimate
<1> DEFINE S == CommittedRequests(rows)
           T == CommittedRequests(now)
<1>0. Most \in Nat /\ Estimate \in 0 .. Most
  BY MostFacts
<1>1. r \notin S /\ T = S \cup {r} /\ T \ {r} = S
  OBVIOUS
<1> HIDE DEF S, T
<1>2. IsFiniteSet(T)
  BY <1>1, FS_AddElement DEF S
<1>3. Amounts(now, T)
  <2> SUFFICES ASSUME NEW q \in T PROVE now[q].amount \in 0 .. Most
    BY DEF Amounts
  <2>1. CASE q = r
    BY <1>0, <2>1
  <2>2. CASE q \in S
    BY <2>2 DEF Amounts, S
  <2> QED
    BY <1>1, <2>1, <2>2
<1>4. Units(now, S) = Units(rows, S)
  <2>1. \A p \in S \X (1 .. Most) : now[p[1]].amount = rows[p[1]].amount
    BY DEF S
  <2> QED
    BY <2>1 DEF Units
<1>5. Count(now, T) = Estimate + Count(rows, S)
  <2>1. Count(now, T) = now[r].amount + Count(now, T \ {r})
    BY <1>1, <1>2, <1>3, UnitsFacts
  <2> QED
    BY <1>1, <1>4, <2>1 DEF Count
<1>6. Total(rows) = Count(rows, S) /\ Total(now) = Count(now, T)
  BY <1>2, <1>3, TotalCount DEF S, T
<1>7. Count(rows, S) \in Nat
  BY UnitsFacts DEF S
<1> QED
  BY <1>0, <1>2, <1>3, <1>5, <1>6, <1>7 DEF T

(***************************************************************************)
(* The limit.  Spending is its inductive strengthening: a settlement keeps *)
(* the capped total only if the reservation held back the estimate.        *)
(***************************************************************************)
\* Until it is decided, a reservation holds back the whole estimate.
EstimateHeld == \A r \in Requests : res[r].status = "reserved" => res[r].amount = Estimate

Spending ==
  /\ EstimateHeld
  /\ IsFiniteSet(CommittedRequests(res)) /\ Amounts(res, CommittedRequests(res))
  /\ WithinLimit

\* The capped ledger has the same requests, and no amount of it is more.
LEMMA CappedFacts ==
  ASSUME NEW rows \in Rows
  PROVE  /\ CommittedRequests(Capped(rows)) = CommittedRequests(rows)
         /\ \A r \in Requests : /\ Capped(rows)[r].amount \in 0 .. rows[r].amount
                                /\ Capped(rows)[r].amount \in 0 .. Estimate
                                /\ Capped(rows)[r].amount =
                                     IF rows[r].amount < Estimate THEN rows[r].amount ELSE Estimate
<1>0. Estimate \in Nat
  BY NumbersAssumption
<1>1. \A r \in Requests :
        /\ Capped(rows)[r].status = rows[r].status
        /\ Capped(rows)[r].amount = IF rows[r].amount < Estimate THEN rows[r].amount ELSE Estimate
        /\ rows[r].amount \in Nat
  BY DEF Capped, Rows, Row
<1>2. CommittedRequests(Capped(rows)) = CommittedRequests(rows)
  BY <1>1 DEF CommittedRequests
<1> QED
  BY <1>0, <1>1, <1>2

\* Its total is not more either.
LEMMA CappedTotal ==
  ASSUME NEW rows \in Rows, IsFiniteSet(CommittedRequests(rows)),
         Amounts(rows, CommittedRequests(rows))
  PROVE  /\ IsFiniteSet(CommittedRequests(Capped(rows)))
         /\ Amounts(Capped(rows), CommittedRequests(Capped(rows)))
         /\ Total(Capped(rows)) \in Nat /\ Total(rows) \in Nat /\ Total(Capped(rows)) <= Total(rows)
<1> DEFINE now == Capped(rows)
<1>1. \A r \in CommittedRequests(now) :
        r \in CommittedRequests(rows) /\ now[r].amount \in 0 .. rows[r].amount
  BY CappedFacts DEF CommittedRequests
<1> HIDE DEF now
<1>2. /\ IsFiniteSet(CommittedRequests(now)) /\ Amounts(now, CommittedRequests(now))
      /\ Total(now) \in Nat /\ Total(rows) \in Nat /\ Total(now) <= Total(rows)
  BY <1>1, TotalShrinks
<1> QED
  BY <1>2 DEF now

\* Nothing is committed at first.
LEMMA SpendingInit == Init => Spending
<1> SUFFICES ASSUME Init PROVE Spending
  OBVIOUS
<1>0. Limit \in Nat
  BY NumbersAssumption
<1> DEFINE rows == Capped(res)
<1>1. CommittedRequests(res) = {} /\ CommittedRequests(rows) = {}
  BY DEF Init, NoReservation, CommittedRequests, Committed, Capped
<1> HIDE DEF rows
<1>2. IsFiniteSet({}) /\ Amounts(res, {}) /\ Amounts(rows, {})
  BY FS_EmptySet DEF Amounts
<1>3. Total(rows) = Count(rows, {})
  BY <1>1, <1>2, TotalCount
<1>4. Count(rows, {}) = 0
  BY <1>2, UnitsFacts
<1>5. EstimateHeld
  BY DEF Init, NoReservation, EstimateHeld
<1> QED
  BY <1>0, <1>1, <1>2, <1>3, <1>4, <1>5 DEF Spending, WithinLimit, rows

\* A step that commits nothing more, overruns apart.
LEMMA SpendingShrinks ==
  ASSUME TypeOK, Spending, res' \in Rows,
         \A r \in Requests : res'[r].status = "reserved"
           => res[r].status = "reserved" /\ res'[r].amount = res[r].amount,
         \A r \in CommittedRequests(res') :
           /\ r \in CommittedRequests(res) /\ res'[r].amount \in 0 .. Most
           /\ Capped(res')[r].amount \in 0 .. Capped(res)[r].amount
  PROVE  Spending'
<1> DEFINE rows == Capped(res)
           now == Capped(res')
<1>0. Limit \in Nat
  BY NumbersAssumption
<1>1. IsFiniteSet(CommittedRequests(res')) /\ Amounts(res', CommittedRequests(res'))
  <2>1. CommittedRequests(res') \subseteq CommittedRequests(res)
    OBVIOUS
  <2>2. IsFiniteSet(CommittedRequests(res'))
    BY <2>1, FS_Subset DEF Spending
  <2> QED
    BY <2>2 DEF Amounts
<1>2. /\ IsFiniteSet(CommittedRequests(rows)) /\ Amounts(rows, CommittedRequests(rows))
      /\ CommittedRequests(rows) = CommittedRequests(res)
  <2>1. res \in Rows
    BY DEF TypeOK, Rows, Row
  <2> QED
    BY <2>1, CappedTotal, CappedFacts DEF Spending
<1>3. \A r \in CommittedRequests(now) :
        r \in CommittedRequests(rows) /\ now[r].amount \in 0 .. rows[r].amount
  BY <1>2, CappedFacts
<1> HIDE DEF rows, now
<1>4. Total(now) \in Nat /\ Total(rows) \in Nat /\ Total(now) <= Total(rows)
  BY <1>2, <1>3, TotalShrinks
<1>5. Enforce => Total(now) <= Limit
  BY <1>0, <1>4 DEF Spending, WithinLimit, rows
<1>6. EstimateHeld'
  BY DEF EstimateHeld, Spending
<1> QED
  BY <1>1, <1>5, <1>6 DEF Spending, WithinLimit, now

\* The reservation is admitted against what the sweep leaves.
LEMMA SpendingReserve ==
  ASSUME TypeOK, Spending, NEW r \in Requests, NEW h \in Handlers,
         NEW t \in Turns \cup {NoTurn}, Reserve(r, h, t), res' \in Rows
  PROVE  Spending'
<1> DEFINE rows == Sweep
           old == Capped(rows)
           now == Capped(res')
<1>t. res \in Rows /\ Estimate \in Nat /\ Limit \in Nat
  BY NumbersAssumption DEF TypeOK, Rows, Row
<1>1. res[r].status = "none" /\ (Enforce => Total(rows) + Estimate <= Limit)
  BY DEF Reserve, Duplicate, MayReserve
<1>2. /\ res' = [rows EXCEPT ![r] = Reservation(t)] /\ rows \in Rows
      /\ rows[r] = res[r]
  BY <1>1, <1>t, SweepFacts DEF Reserve
<1>3. \A q \in Requests : /\ rows[q].amount = res[q].amount
                          /\ rows[q].status \in Committed => res[q].status \in Committed
                          /\ rows[q].status = "reserved" => res[q].status = "reserved"
  <2>1. \A q \in Requests : rows[q].amount = res[q].amount
    BY <1>t DEF Sweep, Rows, Row
  <2>2. \A q \in Requests : rows[q].status \in Committed => res[q].status \in Committed
    BY <1>t, SweepFacts DEF Committed
  <2>3. \A q \in Requests : rows[q].status = "reserved" => res[q].status = "reserved"
    BY <1>t DEF Sweep, Rows, Row
  <2> QED
    BY <2>1, <2>2, <2>3
<1> HIDE DEF rows
<1>4. IsFiniteSet(CommittedRequests(rows)) /\ Amounts(rows, CommittedRequests(rows))
  <2>1. CommittedRequests(rows) \subseteq CommittedRequests(res)
    BY <1>3 DEF CommittedRequests
  <2>2. IsFiniteSet(CommittedRequests(rows))
    BY <2>1, FS_Subset DEF Spending
  <2>3. \A q \in CommittedRequests(rows) : rows[q].amount \in 0 .. Most
    BY <1>3, <2>1 DEF Spending, Amounts, CommittedRequests
  <2> QED
    BY <2>2, <2>3 DEF Amounts
<1>5. r \notin CommittedRequests(rows)
  BY <1>1, <1>2 DEF CommittedRequests, Committed
<1>6. /\ res'[r] = Reservation(t)
      /\ \A q \in Requests : q # r => res'[q] = rows[q]
  BY <1>2 DEF Rows
<1>7. CommittedRequests(res') = CommittedRequests(rows) \cup {r}
  BY <1>6 DEF CommittedRequests, Committed, Reservation
<1>8. /\ res'[r].amount = Estimate
      /\ \A q \in CommittedRequests(rows) : res'[q].amount = rows[q].amount
  BY <1>5, <1>6 DEF Reservation, CommittedRequests
<1>9. IsFiniteSet(CommittedRequests(res')) /\ Amounts(res', CommittedRequests(res'))
  BY <1>4, <1>5, <1>7, <1>8, TotalGrows
<1>10. /\ IsFiniteSet(CommittedRequests(old)) /\ Amounts(old, CommittedRequests(old))
       /\ CommittedRequests(old) = CommittedRequests(rows)
       /\ Total(old) \in Nat /\ Total(rows) \in Nat /\ Total(old) <= Total(rows)
  BY <1>2, <1>4, CappedTotal, CappedFacts
<1>11. CommittedRequests(now) = CommittedRequests(rows) \cup {r}
  BY <1>7, CappedFacts
<1>12. /\ now[r].amount = Estimate
       /\ \A q \in CommittedRequests(rows) : now[q].amount = old[q].amount
  <2>1. now[r].amount = Estimate
    BY <1>t, <1>8, CappedFacts
  <2>2. \A q \in CommittedRequests(rows) : q \in Requests /\ now[q].amount = old[q].amount
    BY <1>5, <1>6 DEF CommittedRequests, Capped
  <2> QED
    BY <2>1, <2>2
<1> HIDE DEF old, now
<1>13. Total(now) = Total(old) + Estimate
  BY <1>5, <1>10, <1>11, <1>12, TotalGrows
<1>14. Enforce => Total(now) <= Limit
  BY <1>t, <1>1, <1>10, <1>13
<1>15. EstimateHeld'
  <2>1. \A q \in Requests : rows[q].status = "reserved" => rows[q].amount = Estimate
    BY <1>3 DEF EstimateHeld, Spending
  <2> QED
    BY <1>6, <2>1 DEF EstimateHeld, Reservation
<1> QED
  BY <1>9, <1>14, <1>15 DEF Spending, WithinLimit, now

\* Every step stays within the limit.
LEMMA SpendingStep == TypeOK /\ Spending /\ [Next]_vars => Spending'
<1> SUFFICES ASSUME TypeOK, Spending, [Next]_vars PROVE Spending'
  OBVIOUS
<1>t. res \in Rows /\ \A q \in Requests : res[q].amount \in Nat
  BY DEF TypeOK, Rows, Row
<1>n. res' \in Rows
  BY TypeStep DEF TypeOK, Rows, Row
<1>1. ASSUME \A q \in Requests : /\ res'[q].status \in Committed => res[q].status \in Committed
                                 /\ res'[q].status = "reserved" => res[q].status = "reserved"
                                 /\ res'[q].amount = res[q].amount
      PROVE  Spending'
  <2>1. \A q \in CommittedRequests(res') :
          q \in CommittedRequests(res) /\ res'[q].amount \in 0 .. Most
    BY <1>1 DEF Spending, Amounts, CommittedRequests
  <2>2. \A q \in Requests : Capped(res')[q].amount \in 0 .. Capped(res)[q].amount
    <3>1. \A q \in Requests : /\ Capped(res')[q].amount = Capped(res)[q].amount
                              /\ Capped(res)[q].amount \in Nat
      BY <1>1, <1>n, <1>t, NumbersAssumption, CappedFacts
    <3> QED
      BY <3>1
  <2>3. CommittedRequests(res) \subseteq Requests
    BY DEF CommittedRequests
  <2> QED
    BY <1>1, <1>n, <2>1, <2>2, <2>3, SpendingShrinks
<1>2. ASSUME UNCHANGED res PROVE Spending'
  BY <1>1, <1>2
<1>3. ASSUME NEW r \in Requests, NEW h \in Handlers, MarkDispatched(r, h) PROVE Spending'
  <2>1. \A q \in Requests : res'[q].status = res[q].status /\ res'[q].amount = res[q].amount
    BY <1>3, <1>t DEF MarkDispatched, Rows, Row
  <2> QED
    BY <1>1, <2>1
<1>4. ASSUME NEW r \in Requests, NEW status \in {"released", "uncertain"},
             res' = Transition(r, status)
      PROVE  Spending'
  <2>1. \A q \in Requests : /\ res'[q].status \in Committed => res[q].status \in Committed
                            /\ res'[q].status = "reserved" => res[q].status = "reserved"
                            /\ res'[q].amount = res[q].amount
    BY <1>4, <1>t DEF Transition, Rows, Row, Committed
  <2> QED
    BY <1>1, <2>1
<1>5. ASSUME NEW r \in Requests, NEW h \in Handlers, Settle(r, h) PROVE Spending'
  <2>1. PICK actual \in 0 .. MaxCost :
          res' = [res EXCEPT ![r].status = "settled", ![r].amount = actual]
    BY <1>5 DEF Settle
  <2>2. res[r].status = "reserved" /\ r \in CommittedRequests(res)
    BY <1>5 DEF Settle, CommittedRequests, Committed
  <2>3. /\ res'[r].amount = actual
        /\ \A q \in Requests : q # r => res'[q] = res[q]
    BY <2>1, <1>t DEF Rows, Row
  \* The estimate was held back: within it nothing is added.
  <2>4. res[r].amount = Estimate
    BY <2>2 DEF Spending, EstimateHeld
  <2>5. res'[r].status = "settled"
    BY <2>1, <1>t DEF Rows, Row
  <2>6. \A q \in Requests : res'[q].status = "reserved"
          => res[q].status = "reserved" /\ res'[q].amount = res[q].amount
    BY <2>3, <2>5
  <2>7. \A q \in CommittedRequests(res') :
          q \in CommittedRequests(res) /\ q \in Requests /\ res'[q].amount \in 0 .. Most
    BY <2>2, <2>3, MostFacts DEF CommittedRequests, Spending, Amounts
  <2>8. \A q \in Requests : Capped(res')[q].amount \in 0 .. Capped(res)[q].amount
    <3>0. Estimate \in Nat
      BY NumbersAssumption
    <3>1. Capped(res)[r].amount = Estimate /\ Capped(res')[r].amount \in 0 .. Estimate
      BY <1>t, <1>n, <2>4, <3>0, CappedFacts
    <3>2. \A q \in Requests : q # r => /\ Capped(res')[q].amount = Capped(res)[q].amount
                                       /\ Capped(res)[q].amount \in Nat
      BY <1>n, <1>t, <2>3, <3>0, CappedFacts
    <3> QED
      BY <3>0, <3>1, <3>2
  <2> QED
    BY <1>n, <2>6, <2>7, <2>8, SpendingShrinks
<1>6. ASSUME NEW r \in Requests, Age(r) PROVE Spending'
  <2>1. \A q \in Requests : res'[q].status = res[q].status /\ res'[q].amount = res[q].amount
    BY <1>6, <1>t DEF Age, Rows, Row
  <2> QED
    BY <1>1, <2>1
<1>7. ASSUME NEW r \in Requests, NEW h \in Handlers, HandlerStep(r, h) PROVE Spending'
  BY <1>7, <1>n, <1>2, <1>3, <1>4, <1>5, SpendingReserve
  DEF HandlerStep, RefuseReserve, CallProvider, ProviderAnswers, StreamEnds, Release,
      MarkUncertain, SettleFails, Drop
<1>8. ASSUME NEW t \in Turns, ReserveTurn(t) PROVE Spending'
  BY <1>8, <1>2 DEF ReserveTurn
<1>9. CASE UNCHANGED vars
  BY <1>9, <1>2 DEF vars
<1> QED
  BY <1>6, <1>7, <1>8, <1>9 DEF Next

\* In enforce mode commitments pass the limit by overruns only: every reservation is
\* admitted with the whole estimate counted in, and no later step adds to it within
\* the estimate.
THEOREM WithinLimitHolds == Spec => []WithinLimit
<1>1. Spending => WithinLimit
  BY DEF Spending
<1> QED
  BY <1>1, SpendingInit, SpendingStep, TypeCorrect, PTL DEF Spec
===============================================================================
