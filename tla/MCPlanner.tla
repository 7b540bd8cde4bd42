------------------------------ MODULE MCPlanner ------------------------------
(* Planner's TLC run: a type declared twice, and types that sort otherwise   *)
(* than they are declared.                                                   *)
EXTENDS Planner

MCDutyName == <<2, 1, 2>>
=============================================================================
