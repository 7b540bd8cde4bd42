-------------------------- MODULE GitCheckoutProofs --------------------------
(***************************************************************************)
(* Proofs about GitCheckout.  CheckoutInv holds under any interleaving of  *)
(* Opens: it keeps the contents of the branches apart, from each other and *)
(* from what is staged.  AloneInv adds what is true of a run whose Open    *)
(* was never under way beside another, whatever the others did before.     *)
(***************************************************************************)
EXTENDS GitCheckout, TLAPS

(* No item is on two branches, nor staged beside a branch other than HEAD's. *)
Apart ==
    /\ \A b, c \in Branch : b # c => tree[b] \cap tree[c] = {}
    /\ \A b \in Branch : b # head => index \cap tree[b] = {}
    /\ tree[head] \subseteq index

(* Before it is added, a note is nowhere. *)
Fresh ==
    \A r \in Run : pc[r] \in {"idle", "checkout", "add"} =>
        r \notin index /\ \A b \in Branch : r \notin tree[b]

(* GitHub has a part of what the run's branch has, and nothing too early.    *)
Mirrored ==
    \A r \in Run : /\ remote[r] \subseteq tree[r]
                   /\ r \notin pushed => remote[r] = {} /\ r \notin prs
                   /\ pc[r] \in {"idle", "checkout", "add", "commit", "rev-parse", "push"}
                          => r \notin pushed
                   /\ pc[r] = "pr create" => r \in pushed \ prs

(* Once an Open has left its checkout behind, HEAD is a run's branch. *)
OnRunBranch == \A r \in Run : pc[r] \in {"add", "commit"} => head \in Run

(* Open goes on to GitHub only as far as it is configured to. *)
Configured ==
    \A r \in Run : /\ pc[r] = "push" => GitMode \in {"branch", "pr"}
                   /\ pc[r] = "pr create" => GitMode = "pr"

CheckoutInv ==
    TypeOK /\ Apart /\ Fresh /\ Mirrored /\ OnRunBranch /\ Configured /\ KeptBranchesUntouched

(* Nothing else is under way beside a run that is not shared, and HEAD is on *)
(* its branch once it has checked it out.                                    *)
OneByOne ==
    \A r \in UnderWay \ shared : /\ UnderWay = {r}
                                 /\ pc[r] # "checkout" => head = r

(* Where its note is once it is added. *)
Own ==
    /\ \A r \in Run \ shared : /\ pc[r] \in {"add", "commit"} => tree[r] = {}
                               /\ pc[r] = "commit" => r \in index
                               /\ pc[r] \in {"rev-parse", "push"} => r \in tree[r]
    /\ \A r \in pushed \ shared : r \in remote[r]

(* A run whose Open failed and left its note to others. *)
Lost(n) == pc[n] = "failed" /\ n \notin prs

(* What is staged and not committed is the note of a run about to commit it, *)
(* or of one that failed before it was pushed.                               *)
Staged ==
    \A n \in (index \cap Run) \ tree[head] : n \notin pushed /\ pc[n] \in {"commit", "failed"}

(* A note beside a lone run's own belongs to an Open that failed. *)
Strays ==
    \A r \in Run \ shared :
        /\ pc[r] \in {"rev-parse", "push"} => \A n \in (tree[r] \cap Run) \ {r} : Lost(n)
        /\ \A n \in (remote[r] \cap Run) \ {r} : Lost(n)

AloneInv == CheckoutInv /\ OneByOne /\ Own /\ Staged /\ Strays

-------------------------------------------------------------------------------
(* What the branches hold after each of the three commands that change the   *)
(* checkout.                                                                 *)

LEMMA CheckoutInit == Init => CheckoutInv
  BY GitAssumption
  DEF Init, CheckoutInv, TypeOK, Apart, Fresh, Mirrored, OnRunBranch, Configured,
      KeptBranchesUntouched, Branch, Item, Command, Run

LEMMA CheckoutKeeps ==
  ASSUME CheckoutInv, NEW r \in Run, Checkout(r)
  PROVE  CheckoutInv'
<1> USE DEF CheckoutInv, Checkout, Done, Goto, github
<1>1. TypeOK' /\ Configured'
  BY GitAssumption DEF Configured, TypeOK, Branch, Item, Command
<1>2. Apart'
  BY DEF TypeOK, Apart, Branch
<1>3. Fresh'
  BY DEF TypeOK, Fresh, Branch
<1>4. Mirrored'
  BY DEF TypeOK, Mirrored, Branch
<1>5. OnRunBranch'
  BY DEF TypeOK, OnRunBranch
<1>6. KeptBranchesUntouched'
  BY GitAssumption DEF TypeOK, KeptBranchesUntouched, Branch
<1> QED
  BY <1>1, <1>2, <1>3, <1>4, <1>5, <1>6

LEMMA AddKeeps ==
  ASSUME CheckoutInv, NEW r \in Run, Add(r)
  PROVE  CheckoutInv'
<1> USE DEF CheckoutInv, Add, Done, Goto, github
<1>1. TypeOK' /\ Configured'
  BY GitAssumption DEF Configured, TypeOK, Item, Command
<1>2. Apart'
  BY DEF TypeOK, Apart, Fresh
<1>3. Fresh'
  BY DEF TypeOK, Fresh
<1>4. Mirrored' /\ OnRunBranch' /\ KeptBranchesUntouched'
  BY DEF TypeOK, Mirrored, OnRunBranch, KeptBranchesUntouched
<1> QED
  BY <1>1, <1>2, <1>3, <1>4

LEMMA CommitKeeps ==
  ASSUME CheckoutInv, NEW r \in Run, Commit(r)
  PROVE  CheckoutInv'
<1> USE DEF CheckoutInv, Commit, Done, Goto, github
<1>1. TypeOK' /\ Configured'
  BY GitAssumption DEF Configured, TypeOK, Command
<1>2. Apart'
  BY DEF TypeOK, Apart
<1>3. Fresh'
  BY DEF TypeOK, Fresh
<1>4. Mirrored'
  <2>1. \A s \in Run : tree[s] \subseteq tree'[s]
    BY DEF TypeOK, Apart, Branch
  <2>2. pc'[r] \in {"rev-parse", "failed"} /\ \A s \in Run \ {r} : pc'[s] = pc[s]
    BY DEF TypeOK
  <2> QED
    BY <2>1, <2>2 DEF TypeOK, Mirrored
<1>5. OnRunBranch' /\ KeptBranchesUntouched'
  BY GitAssumption DEF TypeOK, OnRunBranch, KeptBranchesUntouched, Branch
<1> QED
  BY <1>1, <1>2, <1>3, <1>4, <1>5

(* The other steps leave the checkout alone. *)
LEMMA GitHubKeeps ==
  ASSUME CheckoutInv, NEW r \in Run,
         Start(r) \/ RevParse(r) \/ Push(r) \/ CreatePR(r) \/ Fail(r)
  PROVE  CheckoutInv'
<1> USE DEF CheckoutInv, Start, RevParse, Push, CreatePR, Fail, AfterCommit, Done, Goto,
            checkout, github
<1>1. TypeOK' /\ Configured'
  BY GitAssumption DEF Configured, TypeOK, Command, Branch, UnderWay
<1>2. UNCHANGED <<head, tree, index>> /\ Apart' /\ KeptBranchesUntouched'
  BY DEF Apart, KeptBranchesUntouched
<1>3. Fresh' /\ OnRunBranch'
  BY DEF TypeOK, Fresh, OnRunBranch, Command
<1>4. Mirrored'
  BY DEF TypeOK, Mirrored, Command
<1> QED
  BY <1>1, <1>2, <1>3, <1>4

LEMMA CheckoutInductive == CheckoutInv /\ [Next]_vars => CheckoutInv'
<1> SUFFICES ASSUME CheckoutInv, [Next]_vars PROVE CheckoutInv'
  OBVIOUS
<1>1. CASE UNCHANGED vars
  BY <1>1 DEF vars, checkout, github, CheckoutInv, TypeOK, Apart, Fresh, Mirrored,
              OnRunBranch, Configured, KeptBranchesUntouched
<1>2. ASSUME NEW r \in Run, Start(r) \/ OpenStep(r)
      PROVE  CheckoutInv'
  BY <1>2, CheckoutKeeps, AddKeeps, CommitKeeps, GitHubKeeps DEF OpenStep
<1> QED
  BY <1>1, <1>2 DEF Next, Rest

LEMMA CheckoutInvariant == Spec => []CheckoutInv
  BY CheckoutInit, CheckoutInductive, PTL DEF Spec

(* The branches that are not night-family's keep their content, whoever      *)
(* lands notes and whatever fails (gitops.go:117-122).                       *)
THEOREM KeptBranchesSafe == Spec => []KeptBranchesUntouched
  BY CheckoutInvariant, PTL DEF CheckoutInv

(* No item is in two pull requests (gitops.go:122, 152).                     *)
THEOREM NotesLandAtMostOnce == Spec => []NotesLandOnce
<1>1. CheckoutInv => NotesLandOnce
  BY DEF CheckoutInv, Apart, Mirrored, NotesLandOnce, Branch
<1> QED
  BY <1>1, CheckoutInvariant, PTL

-------------------------------------------------------------------------------
(* Open implements NoteLanding.                                              *)

HeldMap == [r \in Run |-> Held(r)]
AnswerMap == [r \in Run |-> Answer(r)]

(* A step of run r moves r's entries of the two maps and no other's.         *)
LEMMA MapsMove ==
  ASSUME CheckoutInv, NEW r \in Run, Start(r) \/ OpenStep(r)
  PROVE  /\ HeldMap' = [HeldMap EXCEPT ![r] = Held(r)']
         /\ AnswerMap' = [AnswerMap EXCEPT ![r] = Answer(r)']
         /\ HeldMap[r] = Held(r) /\ AnswerMap[r] = Answer(r)
<1>1. \A s \in Run \ {r} : /\ s \in prs' <=> s \in prs
                           /\ s \in pushed' <=> s \in pushed
                           /\ pc'[s] = pc[s]
  BY DEF CheckoutInv, TypeOK, OpenStep, Start, Checkout, Add, Commit, RevParse, Push,
         CreatePR, Fail, Done, Goto, github
<1>2. \A s \in Run \ {r} : Held(s)' = Held(s) /\ Answer(s)' = Answer(s)
  BY <1>1 DEF Held, Answer
<1> QED
  BY <1>2 DEF HeldMap, AnswerMap

LEMMA LandingInitially == Init => Landing!LandingInit
  BY DEF Init, Landing!LandingInit, Held, Answer

(* Every step of an Open is a step of NoteLanding, or none of its business.  *)
LEMMA StepLands ==
  ASSUME CheckoutInv, NEW r \in Run, Start(r) \/ OpenStep(r)
  PROVE  [Landing!LandingNext]_<<HeldMap, AnswerMap>>
<1> DEFINE h == Held(r)
           a == Answer(r)
           target == IF GitMode = "commit" THEN "none" ELSE GitMode
<1>1. /\ HeldMap' = [HeldMap EXCEPT ![r] = h']
      /\ AnswerMap' = [AnswerMap EXCEPT ![r] = a']
      /\ HeldMap[r] = h /\ AnswerMap[r] = a
  BY MapsMove
<1>2. (h' = h => HeldMap' = HeldMap) /\ (a' = a => AnswerMap' = AnswerMap)
  BY <1>1 DEF HeldMap, AnswerMap
<1>3. /\ pc \in [Run -> Command \cup {"idle", "landed", "failed"}]
      /\ r \in prs => r \in pushed
  BY DEF CheckoutInv, TypeOK, Mirrored
<1>4. CASE Start(r)
  <2>1. h' = h /\ a' = a
    BY <1>3, <1>4 DEF Start, Goto, Held, Answer, github
  <2> QED
    BY <1>2, <2>1
<1>5. CASE OpenStep(r)
  <2>1. a = "none" /\ a' \in {"none", "ok", "error"}
    BY <1>3, <1>5
    DEF OpenStep, Checkout, Add, Commit, RevParse, Push, CreatePR, Fail, Command, Answer
  <2>2. \/ h' = h /\ a' \in {"none", "error"}
        \/ h' = h /\ h = target /\ a' = "ok"
        \/ /\ target # "none" /\ h = "none" /\ h' = "branch"
           /\ a' = "ok" => target = "branch"
        \/ target = "pr" /\ h = "branch" /\ h' = "pr" /\ a' \in {"ok", "error"}
    <3>1. CASE Checkout(r) \/ Add(r) \/ Commit(r) \/ Fail(r)
      BY <1>3, <3>1 DEF Checkout, Add, Commit, Fail, Done, Goto, Held, Answer, github
    <3>2. CASE RevParse(r)
      BY <1>3, <3>2
      DEF CheckoutInv, Mirrored, RevParse, AfterCommit, Goto, Held, Answer, github
    <3>3. CASE Push(r)
      BY <1>3, <3>3, GitAssumption
      DEF CheckoutInv, Mirrored, Configured, Push, Done, Goto, Held, Answer
    <3>4. CASE CreatePR(r)
      BY <1>3, <3>4
      DEF CheckoutInv, Mirrored, Configured, CreatePR, Done, Goto, Held, Answer
    <3> QED
      BY <1>5, <3>1, <3>2, <3>3, <3>4 DEF OpenStep
  <2>3. target \in {"none", "branch", "pr"}
    BY GitAssumption
  <2>4. CASE h' = h /\ a' = "none"
    BY <1>2, <2>1, <2>4
  <2>5. CASE ~(h' = h /\ a' = "none")
    <3>1. /\ a' = "none" => UNCHANGED AnswerMap
          /\ h' = h => UNCHANGED HeldMap
      BY <1>2, <2>1
    <3>2. \/ h' = h /\ a' = "error"
          \/ h' = h /\ h = target /\ a' = "ok"
          \/ target \in {"branch", "pr"} /\ h = "none" /\ h' = "branch" /\ a' \in {"none", "error"}
          \/ target = "branch" /\ h = "none" /\ h' = "branch" /\ a' = "ok"
          \/ target = "pr" /\ h = "branch" /\ h' = "pr" /\ a' \in {"ok", "error"}
      BY <2>1, <2>2, <2>3, <2>5
    <3> HIDE DEF h, a, target
    <3>3. /\ h' = h /\ a' = "error" => Landing!LandStep(r)
          /\ h' = h /\ h = target /\ a' = "ok" => Landing!LandStep(r)
      BY <1>1, <2>1, <3>1 DEF HeldMap, AnswerMap, Landing!LandStep, Landing!Report, target
    <3>4. h = "none" /\ h' = "branch" /\ target \in {"branch", "pr"} => Landing!PushBranch(r)
      BY <1>1 DEF HeldMap, Landing!PushBranch, target
    <3>5. h = "branch" /\ h' = "pr" /\ target = "pr" => Landing!OpenPR(r)
      BY <1>1 DEF HeldMap, Landing!OpenPR, target
    <3>6. \/ a' = "none" /\ UNCHANGED AnswerMap
          \/ a' = "ok" /\ Landing!Report(r, "ok")
          \/ a' = "error" /\ Landing!Report(r, "error")
      BY <1>1, <2>1, <3>1 DEF AnswerMap, Landing!Report
    <3>7. Landing!LandStep(r)
      BY <1>1, <2>1, <3>2, <3>3, <3>4, <3>5, <3>6
      DEF AnswerMap, Landing!LandStep, target
    <3> QED
      BY <3>7 DEF Landing!LandingNext
  <2> QED
    BY <2>4, <2>5
<1> QED
  BY <1>4, <1>5

LEMMA LandingMoves ==
  ASSUME CheckoutInv, [Next]_vars
  PROVE  [Landing!LandingNext]_<<HeldMap, AnswerMap>>
<1>1. CASE UNCHANGED vars
  BY <1>1 DEF vars, github, HeldMap, AnswerMap, Held, Answer
<1> QED
  BY <1>1, StepLands DEF Next, Rest

(* Open keeps the promise Runner.Land relies on (gitops.go:110-194).         *)
THEOREM LandingRefinement == Spec => LandingImplemented
<1>1. CheckoutInv /\ [Next]_vars => [Landing!LandingNext]_<<HeldMap, AnswerMap>>
  BY LandingMoves
<1>2. HeldMap = [r \in Run |-> Held(r)] /\ AnswerMap = [r \in Run |-> Answer(r)]
  BY DEF HeldMap, AnswerMap
<1> QED
  BY <1>1, LandingInitially, CheckoutInvariant, PTL
  DEF Spec, LandingImplemented, Landing!LandingSpec, HeldMap, AnswerMap

-------------------------------------------------------------------------------
(* What the contract comes to for a caller that looks only once Open has     *)
(* returned.  These follow from NoteLanding alone.                           *)

Goal == IF GitMode = "commit" THEN "none" ELSE GitMode

(* As far as Runner's Land lets a note get: Runner's Reach, for Run r.       *)
Within(r) == Held(r) \in {"none", Goal} \cup (IF Goal = "pr" THEN {"branch"} ELSE {})

LandsAsRunnerTakesIt == \A r \in Run : Within(r) /\ (Answer(r) = "ok" => Held(r) = Goal)

(* Nothing of a run's landing moves before its Open or after it.             *)
LandsInTheCall ==
    [][\A r \in Run : Answer(r) # "none" => Held(r)' = Held(r) /\ Answer(r)' = Answer(r)]_vars

LEMMA ContractMaps ==
  ASSUME [Landing!LandingNext]_<<HeldMap, AnswerMap>>, NEW r \in Run
  PROVE  \/ Held(r)' = Held(r) /\ Answer(r)' = Answer(r)
         \/ /\ Answer(r) = "none"
            /\ \/ Held(r)' = Held(r) /\ Answer(r)' = "error"
               \/ Held(r)' = Held(r) /\ Held(r) = Goal /\ Answer(r)' = "ok"
               \/ /\ Goal \in {"branch", "pr"} /\ Held(r)' = "branch"
                  /\ Answer(r)' = "ok" => Goal = "branch"
               \/ Goal = "pr" /\ Held(r)' = "pr"
<1>1. /\ HeldMap[r] = Held(r) /\ AnswerMap[r] = Answer(r)
      /\ HeldMap'[r] = Held(r)' /\ AnswerMap'[r] = Answer(r)'
  BY DEF HeldMap, AnswerMap
<1>2. CASE UNCHANGED <<HeldMap, AnswerMap>>
  BY <1>1, <1>2
<1>3. ASSUME NEW s \in Run, Landing!LandStep(s)
      PROVE  \/ HeldMap'[r] = HeldMap[r] /\ AnswerMap'[r] = AnswerMap[r]
             \/ /\ AnswerMap[r] = "none"
                /\ \/ HeldMap'[r] = HeldMap[r] /\ AnswerMap'[r] = "error"
                   \/ HeldMap'[r] = HeldMap[r] /\ HeldMap[r] = Goal /\ AnswerMap'[r] = "ok"
                   \/ /\ Goal \in {"branch", "pr"} /\ HeldMap'[r] = "branch"
                      /\ AnswerMap'[r] = "ok" => Goal = "branch"
                   \/ Goal = "pr" /\ HeldMap'[r] = "pr"
  BY <1>3 DEF Landing!LandStep, Landing!PushBranch, Landing!OpenPR, Landing!Report,
              HeldMap, AnswerMap, Goal
<1> QED
  BY <1>1, <1>2, <1>3 DEF Landing!LandingNext


(* A caller that looks once Open has returned finds what Runner's Land says: *)
(* GitHub holds all that was asked for if it reported success, any part of   *)
(* it if not (gitops.go:110-194, runner.go:149-153).                         *)
THEOREM OpensLandAsTaken == Spec => []LandsAsRunnerTakesIt
<1>1. Init => LandsAsRunnerTakesIt
  BY DEF Init, LandsAsRunnerTakesIt, Within, Held, Answer
<1>2. CheckoutInv /\ LandsAsRunnerTakesIt /\ [Next]_vars => LandsAsRunnerTakesIt'
  <2> SUFFICES ASSUME CheckoutInv, LandsAsRunnerTakesIt, [Next]_vars, NEW r \in Run
               PROVE  Within(r)' /\ (Answer(r)' = "ok" => Held(r)' = Goal)
    BY DEF LandsAsRunnerTakesIt, Goal
  <2>1. Within(r) /\ (Answer(r) = "ok" => Held(r) = Goal)
    BY DEF LandsAsRunnerTakesIt
  <2>2. Within(r)' <=> Held(r)' \in {"none", Goal} \cup (IF Goal = "pr" THEN {"branch"} ELSE {})
    BY DEF Within, Goal
  <2> QED
    BY <2>1, <2>2, LandingMoves, ContractMaps DEF Within
<1> QED
  BY <1>1, <1>2, CheckoutInvariant, PTL DEF Spec

(* And it stays like that: after its Open nothing is done for a run.         *)
THEOREM OpensLandInTheCall == Spec => LandsInTheCall
<1>1. CheckoutInv /\ [Next]_vars =>
      [\A r \in Run : Answer(r) # "none" => Held(r)' = Held(r) /\ Answer(r)' = Answer(r)]_vars
  BY LandingMoves, ContractMaps
<1> QED
  BY <1>1, CheckoutInvariant, PTL DEF Spec, LandsInTheCall

-------------------------------------------------------------------------------
(* Runs that are alone in the checkout.                                      *)

LEMMA AloneInit == Init => AloneInv
  BY CheckoutInit, GitAssumption
  DEF Init, AloneInv, OneByOne, Own, Staged, Strays, UnderWay, Command, Branch, Run

(* What every step does to the run it is of, to the others and to shared.    *)
LEMMA StepFacts ==
  ASSUME CheckoutInv, NEW r \in Run, Start(r) \/ OpenStep(r)
  PROVE  /\ \A s \in Run \ {r} : pc'[s] = pc[s]
         /\ pc[r] \notin {"landed", "failed"}
         /\ pc' \in [Run -> Command \cup {"idle", "landed", "failed"}]
         /\ shared \subseteq shared'
         /\ pc[r] = "idle" <=> Start(r)
         /\ pc[r] # "idle" => shared' = shared
BY DEF CheckoutInv, TypeOK, Start, OpenStep, Checkout, Add, Commit, RevParse, Push, CreatePR,
       Fail, AfterCommit, Done, Goto, Command

(* A run stays lost. *)
LEMMA LostForGood ==
  ASSUME CheckoutInv, NEW r \in Run, Start(r) \/ OpenStep(r), NEW n \in Run, Lost(n)
  PROVE  Lost(n)'
<1>1. n # r /\ pc'[n] = "failed"
  BY StepFacts DEF Lost
<1>2. prs' \subseteq prs \cup {r}
  BY DEF Start, OpenStep, Checkout, Add, Commit, RevParse, Push, CreatePR, Fail, github
<1> QED
  BY <1>1, <1>2 DEF Lost

LEMMA OneByOneKeeps ==
  ASSUME CheckoutInv, OneByOne, NEW r \in Run, Start(r) \/ OpenStep(r)
  PROVE  OneByOne'
<1> SUFFICES ASSUME NEW s \in Run, s \in UnderWay', s \notin shared'
             PROVE  UnderWay' = {s} /\ (pc'[s] # "checkout" => head' = s)
  BY DEF OneByOne, UnderWay
<1>t. /\ pc \in [Run -> Command \cup {"idle", "landed", "failed"}]
      /\ shared \subseteq Run
  BY DEF CheckoutInv, TypeOK
<1>1. CASE Start(r)
  <2>1. /\ shared' = shared \cup (IF UnderWay = {} THEN {} ELSE UnderWay \cup {r})
        /\ head' = head
        /\ UnderWay' = UnderWay \cup {r}
        /\ pc'[r] = "checkout"
    BY <1>1, <1>t DEF Start, Goto, UnderWay, Command, checkout
  <2> QED
    BY <2>1
<1>2. CASE OpenStep(r)
  <2>1. /\ pc[r] \in Command /\ r \in UnderWay /\ shared' = shared
        /\ UnderWay' \subseteq UnderWay
        /\ \A q \in Run \ {r} : pc'[q] = pc[q]
    BY <1>2, <1>t, StepFacts
    DEF OpenStep, Checkout, Add, Commit, RevParse, Push, CreatePR, Fail, Command, UnderWay
  <2>2. s = r /\ UnderWay' = {r} /\ (pc[r] # "checkout" => head = r)
    BY <2>1 DEF OneByOne
  <2>3. CASE Checkout(r)
    BY <2>2, <2>3 DEF Checkout
  <2>4. CASE ~Checkout(r)
    <3>1. CASE Fail(r)
      BY <1>t, <3>1, <2>2 DEF Fail, Goto, UnderWay, Command
    <3>2. CASE ~Fail(r)
      BY <1>2, <2>2, <2>4, <3>2
      DEF OpenStep, Add, Commit, RevParse, Push, CreatePR, checkout
    <3> QED
      BY <3>1, <3>2
  <2> QED
    BY <2>3, <2>4
<1> QED
  BY <1>1, <1>2

LEMMA StagedKeeps ==
  ASSUME CheckoutInv, Staged, NEW r \in Run, Start(r) \/ OpenStep(r)
  PROVE  Staged'
<1>t. /\ pc \in [Run -> Command \cup {"idle", "landed", "failed"}]
      /\ tree \in [Branch -> SUBSET Item]
      /\ head \in Branch /\ Run \subseteq Branch
  BY DEF CheckoutInv, TypeOK, Branch
<1>f. /\ \A s \in Run \ {r} : pc'[s] = pc[s]
      /\ pc' \in [Run -> Command \cup {"idle", "landed", "failed"}]
  BY StepFacts
<1>1. CASE Checkout(r)
  <2>1. /\ head' = r /\ index' = index \ tree[head] /\ pushed' = pushed
        /\ pc[r] = "checkout" /\ tree'[r] = {}
    BY <1>1, <1>t DEF Checkout, github
  <2> QED
    BY <1>f, <2>1 DEF Staged
<1>2. CASE Add(r)
  <2>1. /\ head' = head /\ tree' = tree /\ index' = index \cup {r} /\ pushed' = pushed
        /\ pc[r] = "add" /\ pc'[r] \in {"commit", "failed"}
    BY <1>2, <1>t DEF Add, Done, Goto, github
  <2>2. r \notin pushed
    BY <2>1 DEF CheckoutInv, Mirrored
  <2> QED
    BY <1>f, <2>1, <2>2 DEF Staged
<1>3. CASE Commit(r)
  <2>1. index' \ tree'[head'] = {}
    BY <1>3, <1>t DEF Commit
  <2> QED
    BY <2>1 DEF Staged
<1>4. CASE Start(r) \/ RevParse(r) \/ CreatePR(r) \/ Fail(r)
  <2>1. /\ UNCHANGED <<head, tree, index, pushed>>
        /\ pc[r] \notin {"commit", "failed"} \/ pc'[r] = "failed"
    BY <1>4, <1>t DEF Start, RevParse, CreatePR, Fail, Goto, checkout, github, Command
  <2> QED
    BY <1>f, <2>1 DEF Staged, checkout
<1>5. CASE Push(r)
  <2>1. /\ UNCHANGED checkout /\ pushed' = pushed \cup {r} /\ pc[r] = "push"
    BY <1>5 DEF Push, checkout
  <2> QED
    BY <1>f, <2>1 DEF Staged, checkout
<1> QED
  BY <1>1, <1>2, <1>3, <1>4, <1>5 DEF OpenStep

LEMMA OwnKeeps ==
  ASSUME CheckoutInv, OneByOne, Own, NEW r \in Run, Start(r) \/ OpenStep(r)
  PROVE  Own'
<1>t. /\ pc \in [Run -> Command \cup {"idle", "landed", "failed"}]
      /\ tree \in [Branch -> SUBSET Item] /\ remote \in [Run -> SUBSET Item]
      /\ head \in Branch /\ Run \subseteq Branch
      /\ pushed \subseteq Run /\ shared \subseteq shared'
  BY StepFacts DEF CheckoutInv, TypeOK, Branch
<1>f. /\ \A s \in Run \ {r} : pc'[s] = pc[s]
      /\ pc[r] # "idle" => shared' = shared
  BY StepFacts
<1>o. ASSUME pc[r] \in Command, NEW s \in Run \ shared, s # r
      PROVE  pc[s] \notin Command
  BY <1>o DEF OneByOne, UnderWay
<1>h. ASSUME r \notin shared, pc[r] \in Command \ {"checkout"}
      PROVE  head = r
  BY <1>h DEF OneByOne, UnderWay
<1>1. CASE Start(r)
  <2>1. /\ UNCHANGED <<head, tree, index, github>> /\ pc'[r] = "checkout"
    BY <1>1, <1>t DEF Start, Goto
  <2> QED
    BY <1>t, <1>f, <2>1 DEF Own, checkout, github
<1>2. CASE Checkout(r)
  <2>1. /\ pc[r] = "checkout" /\ pc'[r] \in {"add", "failed"} /\ UNCHANGED github
        /\ tree' = [tree EXCEPT ![r] = {}]
    BY <1>2, <1>t DEF Checkout, Done, Goto
  <2> QED
    BY <1>t, <1>f, <1>o, <2>1 DEF Own, github, Command
<1>3. CASE Add(r)
  <2>1. /\ pc[r] = "add" /\ pc'[r] \in {"commit", "failed"} /\ UNCHANGED <<tree, github>>
        /\ index' = index \cup {r}
    BY <1>3, <1>t DEF Add, Done, Goto
  <2> QED
    BY <1>t, <1>f, <1>o, <2>1 DEF Own, github, Command
<1>4. CASE Commit(r)
  <2>1. /\ pc[r] = "commit" /\ pc'[r] \in {"rev-parse", "failed"} /\ UNCHANGED <<index, github>>
        /\ tree' = [tree EXCEPT ![head] = index]
    BY <1>4, <1>t DEF Commit, Done, Goto
  <2> QED
    BY <1>t, <1>f, <1>o, <1>h, <2>1 DEF Own, github, Command
<1>5. CASE RevParse(r)
  <2>1. /\ pc[r] = "rev-parse" /\ pc'[r] \in {"landed", "push"}
        /\ UNCHANGED <<checkout, github>>
    BY <1>5, <1>t DEF RevParse, AfterCommit, Goto
  <2> QED
    BY <1>t, <1>f, <2>1 DEF Own, checkout, github
<1>6. CASE Push(r)
  <2>1. /\ pc[r] = "push" /\ pc'[r] \in {"landed", "pr create", "failed"}
        /\ UNCHANGED checkout /\ pushed' = pushed \cup {r}
        /\ remote' = [remote EXCEPT ![r] = tree[r]]
    BY <1>6, <1>t DEF Push, Done, Goto
  <2> QED
    BY <1>t, <1>f, <2>1 DEF Own, checkout, Command
<1>7. CASE CreatePR(r) \/ Fail(r)
  <2>1. /\ pc[r] \in Command /\ pc'[r] \in {"landed", "failed"}
        /\ UNCHANGED <<checkout, pushed, remote>>
    BY <1>7, <1>t DEF CreatePR, Fail, Done, Goto, Command, checkout, github
  <2> QED
    BY <1>t, <1>f, <2>1 DEF Own, checkout
<1> QED
  BY <1>1, <1>2, <1>3, <1>4, <1>5, <1>6, <1>7 DEF OpenStep

(* A lone run's commit takes along only what failed Opens left staged. *)
LEMMA StraysKeep ==
  ASSUME AloneInv, NEW r \in Run, Start(r) \/ OpenStep(r)
  PROVE  Strays'
<1>i. CheckoutInv /\ OneByOne /\ Own /\ Staged /\ Strays
  BY DEF AloneInv
<1>t. /\ pc \in [Run -> Command \cup {"idle", "landed", "failed"}]
      /\ tree \in [Branch -> SUBSET Item] /\ remote \in [Run -> SUBSET Item]
      /\ head \in Branch /\ Run \subseteq Branch
      /\ shared \subseteq shared'
  BY <1>i, StepFacts DEF CheckoutInv, TypeOK, Branch
<1>f. /\ \A s \in Run \ {r} : pc'[s] = pc[s]
      /\ pc[r] # "idle" => shared' = shared
      /\ \A n \in Run : Lost(n) => Lost(n)'
  BY <1>i, StepFacts, LostForGood
<1>o. ASSUME pc[r] \in Command, NEW s \in Run \ shared, s # r
      PROVE  pc[s] \notin Command
  BY <1>i, <1>o DEF OneByOne, UnderWay
<1>1. CASE Start(r) \/ RevParse(r) \/ CreatePR(r) \/ Fail(r)
  <2>1. /\ UNCHANGED <<tree, remote>>
        /\ pc'[r] \in {"rev-parse", "push"} => pc[r] = "rev-parse"
    BY <1>1, <1>t DEF Start, RevParse, AfterCommit, CreatePR, Fail, Done, Goto, checkout, github
  <2> QED
    BY <1>i, <1>t, <1>f, <2>1 DEF Strays
<1>2. CASE Checkout(r) \/ Add(r)
  <2>1. /\ pc[r] \in Command /\ pc'[r] \in {"add", "commit", "failed"} /\ UNCHANGED remote
        /\ \A b \in Branch \ {r} : tree'[b] = tree[b]
    BY <1>2, <1>t DEF Checkout, Add, Done, Goto, Command, github
  <2> QED
    BY <1>i, <1>t, <1>f, <1>o, <2>1 DEF Strays, Command
<1>3. CASE Commit(r)
  <2>1. /\ pc[r] = "commit" /\ pc'[r] \in {"rev-parse", "failed"} /\ UNCHANGED <<remote, prs>>
        /\ tree' = [tree EXCEPT ![head] = index]
    BY <1>3, <1>t DEF Commit, Done, Goto, github
  <2>2. ASSUME r \notin shared, NEW n \in (tree'[r] \cap Run) \ {r}
        PROVE  Lost(n)'
    <3>1. head = r /\ UnderWay = {r}
      BY <1>i, <2>1, <2>2 DEF OneByOne, UnderWay, Command
    <3>2. n \in index /\ n \notin tree[head]
      BY <1>i, <1>t, <2>1, <2>2, <3>1 DEF Own
    <3>3. n \notin pushed /\ pc[n] = "failed"
      BY <1>i, <2>2, <3>1, <3>2 DEF Staged, UnderWay, Command
    <3>4. Lost(n)
      BY <1>i, <2>2, <3>3 DEF CheckoutInv, Mirrored, Lost
    <3> QED
      BY <1>f, <2>2, <3>4
  <2> QED
    BY <1>i, <1>t, <1>f, <1>o, <2>1, <2>2 DEF Strays, Command
<1>4. CASE Push(r)
  <2>1. /\ pc[r] = "push" /\ pc'[r] \in {"landed", "pr create", "failed"} /\ UNCHANGED tree
        /\ remote' = [remote EXCEPT ![r] = tree[r]]
    BY <1>4, <1>t DEF Push, Done, Goto, checkout
  <2> QED
    BY <1>i, <1>t, <1>f, <2>1 DEF Strays, Command
<1> QED
  BY <1>1, <1>2, <1>3, <1>4 DEF OpenStep

LEMMA AloneInductive == AloneInv /\ [Next]_vars => AloneInv'
<1> SUFFICES ASSUME AloneInv, [Next]_vars PROVE AloneInv'
  OBVIOUS
<1>i. CheckoutInv /\ CheckoutInv'
  BY CheckoutInductive DEF AloneInv
<1>1. CASE UNCHANGED vars
  BY <1>1, <1>i DEF vars, checkout, github, AloneInv, OneByOne, Own, Staged, Strays, Lost, UnderWay
<1>2. ASSUME NEW r \in Run, Start(r) \/ OpenStep(r)
      PROVE  OneByOne' /\ Own' /\ Staged' /\ Strays'
  BY <1>2, OneByOneKeeps, OwnKeeps, StagedKeeps, StraysKeep DEF AloneInv
<1> QED
  BY <1>i, <1>1, <1>2 DEF Next, Rest, AloneInv

LEMMA AloneInvariant == Spec => []AloneInv
  BY AloneInit, AloneInductive, PTL DEF Spec

(* A run whose Open was never under way beside another has its own note in   *)
(* its pull request (gitops.go:127-168).                                     *)
THEOREM PRsHoldTheirNotes == Spec => []PRHoldsItsNote
<1>1. AloneInv => PRHoldsItsNote
  BY DEF AloneInv, CheckoutInv, TypeOK, Mirrored, Own, PRHoldsItsNote
<1> QED
  BY <1>1, AloneInvariant, PTL

(* And every other run's note in it was left behind by an Open that failed   *)
(* (gitops.go:122, 152-154).                                                 *)
THEOREM StraysAreFailures == Spec => []StraysComeFromFailures
<1>1. AloneInv => StraysComeFromFailures
  BY DEF AloneInv, CheckoutInv, TypeOK, Strays, Lost, StraysComeFromFailures
<1> QED
  BY <1>1, AloneInvariant, PTL
=============================================================================
