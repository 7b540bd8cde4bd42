----------------------------- MODULE NoteLanding -----------------------------
(***************************************************************************)
(* What gitops.Orchestrator.Open promises the runner that calls it: GitHub *)
(* gets a run's branch before its pull request, each once and only while   *)
(* the call is under way; a call that reports success has taken the note   *)
(* as far as the orchestrator is configured to, and one that reports an    *)
(* error may have stopped anywhere.  Runner.Land is this contract taken in *)
(* one step; GitCheckout.tla is shown to implement it.                     *)
(***************************************************************************)
CONSTANTS
    Run,        \* the runs whose note is landed
    Target      \* how far: "none", "branch" or "pr"

VARIABLES
    held,       \* what GitHub holds of a run: "none", its "branch", its "pr"
    report      \* what Open returned: "none" yet, "ok" or "error"

LandingInit ==
    /\ held = [r \in Run |-> "none"]
    /\ report = [r \in Run |-> "none"]

PushBranch(r) ==
    /\ Target \in {"branch", "pr"}
    /\ held[r] = "none"
    /\ held' = [held EXCEPT ![r] = "branch"]

OpenPR(r) ==
    /\ Target = "pr"
    /\ held[r] = "branch"
    /\ held' = [held EXCEPT ![r] = "pr"]

(* An error may be all the caller learns of a step that took place.        *)
Report(r, answer) == report' = [report EXCEPT ![r] = answer]

LandStep(r) ==
    /\ report[r] = "none"
    /\ \/ (PushBranch(r) \/ OpenPR(r)) /\ (UNCHANGED report \/ Report(r, "error"))
       \/ PushBranch(r) /\ Target = "branch" /\ Report(r, "ok")
       \/ OpenPR(r) /\ Report(r, "ok")
       \/ held[r] = Target /\ UNCHANGED held /\ Report(r, "ok")
       \/ UNCHANGED held /\ Report(r, "error")

LandingNext == \E r \in Run : LandStep(r)

LandingSpec == LandingInit /\ [][LandingNext]_<<held, report>>
=============================================================================
