---------------------------- MODULE MCGitCheckout ----------------------------
(* Model values for the runs, branches and staged files of GitCheckout.      *)
EXTENDS GitCheckout

CONSTANTS r1, r2, r3, r4, main, work, draft
=============================================================================
