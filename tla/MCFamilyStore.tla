---------------------------- MODULE MCFamilyStore ----------------------------
(* FamilyStore's TLC runs: member 1 is in the embedded roster, 2 is not.     *)
EXTENDS FamilyStore

MCDefaults == <<1, Absent>>
=============================================================================
