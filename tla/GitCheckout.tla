----------------------------- MODULE GitCheckout -----------------------------
(***************************************************************************)
(* internal/gitops: Orchestrator.Open, one git or gh command at a time, in *)
(* the daemon's only checkout (--repo-root).  Nothing locks the checkout:  *)
(* a night lands its runs one after another, but every POST /runs lands    *)
(* its own, so Opens interleave between any two commands.                  *)
(*                                                                         *)
(* Contents are sets of items over what the base branch holds: the note a  *)
(* run writes (named by the run; its path holds the run's id) and what the *)
(* checkout's owner had staged before.  Providers work in the same         *)
(* checkout; the files they change are in none of these contents until     *)
(* somebody stages them.  git's own effects (external) are modelled as     *)
(* Open uses them.  A command may fail without an effect, and one its      *)
(* context ends may have taken effect although Open sees an error.  A      *)
(* restart of the daemon is every Open under way failing.                  *)
(***************************************************************************)
EXTENDS Naturals

CONSTANTS
    Loop,       \* runs landed by a night, one at a time
    Direct,     \* runs landed by POST /runs, each by its own handler
    Kept,       \* branches that are not night-family's: base and the owner's
    Base,       \* the base branch
    Drafts,     \* what the owner of the checkout had staged
    Editors,    \* runs whose provider changes files of the checkout
    GitMode     \* "commit" (SkipPush), "branch" (SkipPR) or "pr"

Run == Loop \cup Direct
Branch == Run \cup Kept
Item == Run \cup Drafts

ASSUME GitAssumption ==
    /\ Base \in Kept
    /\ Loop \cap Direct = {}
    /\ Run \cap Kept = {}
    /\ Run \cap Drafts = {}
    /\ Editors \subseteq Run
    /\ GitMode \in {"commit", "branch", "pr"}

VARIABLES
    head,       \* the branch the checkout is on
    tree,       \* each branch's content over base; {} for one that does not exist
    index,      \* the index's content over base
    loose,      \* runs whose provider's changes are in the working tree only
    pushed,     \* run branches GitHub has
    remote,     \* their content there
    prs,        \* run branches that have a pull request
    pc,         \* the command each run's Open is at
    shared      \* history: runs whose Open was under way beside another

checkout == <<head, tree, index, loose>>
github == <<pushed, remote, prs>>
vars == <<checkout, github, pc, shared>>

Command == {"checkout", "add", "commit", "rev-parse", "push", "pr create"}

TypeOK ==
    /\ head \in Branch
    /\ tree \in [Branch -> SUBSET Item]
    /\ index \in SUBSET Item
    /\ loose \in SUBSET Editors
    /\ pushed \in SUBSET Run
    /\ remote \in [Run -> SUBSET Item]
    /\ prs \in SUBSET Run
    /\ pc \in [Run -> Command \cup {"idle", "landed", "failed"}]
    /\ shared \in SUBSET Run

Init ==
    /\ head \in Kept
    /\ tree = [b \in Branch |-> {}]
    /\ index \in SUBSET Drafts
    /\ loose = {}
    /\ pushed = {}
    /\ remote = [r \in Run |-> {}]
    /\ prs = {}
    /\ pc = [r \in Run |-> "idle"]
    /\ shared = {}

-------------------------------------------------------------------------------
Goto(r, label) == pc' = [pc EXCEPT ![r] = label]

(* The command did its work and r goes on; or its context ended it then.     *)
Done(r, label) == Goto(r, label) \/ Goto(r, "failed")

(* Seeded bugs, each standing in for the definition it names.                *)

(* For Checkout: the branch is cut from HEAD, base left out of the command.  *)
CheckoutFromHead(r) ==
    /\ pc[r] = "checkout"
    /\ head' = r
    /\ tree' = [tree EXCEPT ![r] = tree[head]]
    /\ Done(r, "add")
    /\ UNCHANGED <<index, loose, github, shared>>

(* For Fail: a checkout that failed does not stop Open. *)
CarryOn(r) ==
    /\ pc[r] \in Command
    /\ Goto(r, IF pc[r] = "checkout" THEN "add" ELSE "failed")
    /\ UNCHANGED <<checkout, github, shared>>

(* For Add: the note is written but not added. *)
WriteOnly(r) ==
    /\ pc[r] = "add"
    /\ Done(r, "commit")
    /\ UNCHANGED <<checkout, github, shared>>

(* For Fail: a push that failed is taken for a skipped one. *)
PushNotNeeded(r) ==
    /\ pc[r] \in Command
    /\ Goto(r, IF pc[r] = "push" THEN "landed" ELSE "failed")
    /\ UNCHANGED <<checkout, github, shared>>

-------------------------------------------------------------------------------
UnderWay == {s \in Run : pc[s] \in Command}

(* Open is called once per run, when the run has succeeded; the runs of the  *)
(* night's loop one after another.  Its provider has left what it changed.   *)
Start(r) ==
    /\ pc[r] = "idle"
    /\ r \in Loop => \A s \in Loop : pc[s] \notin Command
    /\ Goto(r, "checkout")
    /\ shared' = shared \cup (IF UnderWay = {} THEN {} ELSE UnderWay \cup {r})
    /\ loose' = loose \cup ({r} \cap Editors)
    /\ UNCHANGED <<head, tree, index, github>>

(* git checkout -B <branch> <base>: files committed on the branch that is    *)
(* left are removed, what is staged or only changed comes along.             *)
Checkout(r) ==
    /\ pc[r] = "checkout"
    /\ head' = r
    /\ tree' = [tree EXCEPT ![r] = {}]
    /\ index' = index \ tree[head]
    /\ Done(r, "add")
    /\ UNCHANGED <<loose, github, shared>>

(* The note is written and added by its path. *)
Add(r) ==
    /\ pc[r] = "add"
    /\ index' = index \cup {r}
    /\ Done(r, "commit")
    /\ UNCHANGED <<head, tree, loose, github, shared>>

(* git commit records the index on the branch the checkout is on, and fails  *)
(* when that changes nothing.                                                *)
Commit(r) ==
    /\ pc[r] = "commit"
    /\ index # tree[head]
    /\ tree' = [tree EXCEPT ![head] = index]
    /\ Done(r, "rev-parse")
    /\ UNCHANGED <<head, index, loose, github, shared>>

AfterCommit == IF GitMode = "commit" THEN "landed" ELSE "push"

RevParse(r) ==
    /\ pc[r] = "rev-parse"
    /\ Goto(r, AfterCommit)
    /\ UNCHANGED <<checkout, github, shared>>

(* git push -u origin <branch>: the branch by its name, wherever HEAD is. *)
Push(r) ==
    /\ pc[r] = "push"
    /\ pushed' = pushed \cup {r}
    /\ remote' = [remote EXCEPT ![r] = tree[r]]
    /\ Done(r, IF GitMode = "branch" THEN "landed" ELSE "pr create")
    /\ UNCHANGED <<checkout, prs, shared>>

(* gh pr create refuses a branch without a commit over base. *)
CreatePR(r) ==
    /\ pc[r] = "pr create"
    /\ remote[r] # {}
    /\ prs' = prs \cup {r}
    /\ Done(r, "landed")
    /\ UNCHANGED <<checkout, pushed, remote, shared>>

(* A command fails and Open returns its error, leaving the checkout as it is.*)
Fail(r) ==
    /\ pc[r] \in Command
    /\ Goto(r, "failed")
    /\ UNCHANGED <<checkout, github, shared>>

OpenStep(r) ==
    \/ Checkout(r) \/ Add(r) \/ Commit(r) \/ RevParse(r)
    \/ Push(r) \/ CreatePR(r) \/ Fail(r)

(* Every run has been landed or has failed to. *)
Rest ==
    /\ \A r \in Run : pc[r] \in {"landed", "failed"}
    /\ UNCHANGED vars

Next == (\E r \in Run : Start(r) \/ OpenStep(r)) \/ Rest

Spec == Init /\ [][Next]_vars

-------------------------------------------------------------------------------
(* Properties.                                                               *)

(* However Opens interleave and fail, only branches under the prefix are     *)
(* committed to: base, and the branch the owner was on, keep their content   *)
(* (gitops.go:117-122).                                                      *)
KeptBranchesUntouched == \A b \in Kept : tree[b] = {}

(* No note, and nothing of the owner's, is ever in two pull requests: what   *)
(* one run's branch took, a later checkout does not carry on                 *)
(* (gitops.go:122, 152).                                                     *)
NotesLandOnce == \A r, s \in Run : r # s => remote[r] \cap remote[s] = {}

(* A run whose Open was never under way beside another, as is every run of a  *)
(* night without POST /runs, has its own note in its pull request, whatever  *)
(* failed or overlapped before (gitops.go:127-168).                          *)
PRHoldsItsNote == \A r \in prs \ shared : r \in remote[r]

(* And any other run's note in it was left staged by an Open that failed,    *)
(* and that run has no pull request (gitops.go:122, 152-154).                *)
StraysComeFromFailures ==
    \A r \in pushed \ shared : \A n \in (remote[r] \cap Run) \ {r} :
        pc[n] = "failed" /\ n \notin prs

(* Open keeps the promise Runner.Land relies on. *)
Held(r) == IF r \in prs THEN "pr" ELSE IF r \in pushed THEN "branch" ELSE "none"

Answer(r) == IF pc[r] = "landed" THEN "ok" ELSE
             IF pc[r] = "failed" THEN "error" ELSE "none"

Landing == INSTANCE NoteLanding WITH
    Target <- IF GitMode = "commit" THEN "none" ELSE GitMode,
    held <- [r \in Run |-> Held(r)],
    report <- [r \in Run |-> Answer(r)]

LandingImplemented == Landing!LandingSpec

(* STATUS.md:32-33 has each run that succeeded "commit the note (and any     *)
(* file edits Claude made)", and claude.go:20-22 leaves it to gitops to pick *)
(* them up: once a run has landed, what its provider changed is no longer in *)
(* the working tree alone.                                                   *)
EditsLand == \A r \in Run : pc[r] = "landed" => r \notin loose
=============================================================================
