---------------------------- MODULE MCBudgetLedger ----------------------------
(***************************************************************************)
(* Instances of BudgetLedger for TLC: a few requests of one user, of which *)
(* some are image generations, and limits that the requests reach.         *)
(***************************************************************************)
EXTENDS BudgetLedger, TLC

\* Requests of one lane, handlers and turns are interchangeable.
Symmetry ==
  {messages @@ images @@ handlers @@ turns :
     messages \in Permutations(Requests \ Images), images \in Permutations(Images),
     handlers \in Permutations(Handlers), turns \in Permutations(Turns)}
===============================================================================
