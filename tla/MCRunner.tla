------------------------------- MODULE MCRunner -------------------------------
(* Model values for the jobs of Runner's TLC runs.                           *)
EXTENDS Runner

CONSTANTS a, h, q
=============================================================================
