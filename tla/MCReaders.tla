------------------------------ MODULE MCReaders ------------------------------
(* Model values for the nights of Readers.                                   *)
EXTENDS Readers

CONSTANTS n1, n2
=============================================================================
