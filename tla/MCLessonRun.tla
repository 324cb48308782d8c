----------------------------- MODULE MCLessonRun -----------------------------
(* Values for TLC: a lesson whose first step has its own application and    *)
(* whose last step opens the material, and a lesson of one explanation.     *)
EXTENDS LessonRun

MCTaught == <<"teach", "open">>
MCExplained == <<"explain">>
=============================================================================
