-------------------------------- MODULE Runner --------------------------------
(***************************************************************************)
(* internal/runner: the night orchestrator and the dispatch of one run,    *)
(* against the SQLite tables, the provider and the git orchestrator.       *)
(*                                                                         *)
(* A job is one call into the runner: a night started by the scheduler     *)
(* loop, a night started by POST /nights/trigger, or one POST /runs.  The  *)
(* jobs run concurrently (one goroutine each); the daemon may die and come *)
(* back at any step.  A storage call runs under its job's context: it      *)
(* fails once the context is done, may be cut short by the deadline after  *)
(* its row was written, and may fail for a reason of its own (a fault).    *)
(***************************************************************************)
EXTENDS Naturals, FiniteSets

CONSTANTS
    AutoNights,     \* nights of the scheduler loop (no deadline)
    HttpNights,     \* nights of POST /nights/trigger (10 minutes)
    HttpRuns,       \* runs of POST /runs (2 minutes)
    MaxSlots,       \* bound: slots of a night's plan
    GitMode,        \* --open-prs and SkipPush/SkipPR: how far a note is landed
    PRLimit,        \* pull requests the digest reads, of all nights
    MaxFaults,      \* bound: failing storage or GitHub answers per job
    MaxCrashes      \* bound: restarts of the daemon

ASSUME RunnerAssumption ==
    /\ MaxSlots \in Nat \ {0}
    /\ PRLimit \in Nat \ {0}
    /\ MaxFaults \in Nat
    /\ MaxCrashes \in Nat
    /\ GitMode \in {"off", "commit", "branch", "pr"}
    /\ AutoNights \cap HttpNights = {}
    /\ (AutoNights \cup HttpNights) \cap HttpRuns = {}

Night == AutoNights \cup HttpNights
Job == Night \cup HttpRuns
RunId == Job \X (1..MaxSlots)

(* Seeded bug for Timed: POST /nights/trigger without its WithTimeout. *)
TriggerUntimed == HttpRuns

(* Jobs whose context carries a deadline. *)
Timed == HttpNights \cup HttpRuns

VARIABLES
    nights,         \* nights table: "absent", "open" (finished_at NULL), "finished"
    status,         \* runs.status, or "absent"
    landed,         \* runs.branch and runs.pr_url: "none", "branch" or "pr"
    prs,            \* runs that have a row in the prs table
    newer,          \* rows of prs opened after a run's own, counted to PRLimit
    snapshots,      \* nights that have a row in budget_snapshots
    remote,         \* what GitHub holds of a run: nothing, its branch, its PR
    pc,             \* where each job's goroutine is
    slots,          \* slots of the job's plan
    slot,           \* slots taken so far; the current run is <<j, slot[j]>>
    ctx,            \* the job's context
    outcome,        \* the status Dispatch computed from the provider's answer
    dispatched,     \* the runs Dispatch returned without an error
    body,           \* the rendered digest
    posted,         \* where the digest went
    faults,         \* faults each job met
    crashes         \* restarts so far

ledger == <<nights, status, landed, prs, newer>>
progress == <<slots, slot, outcome, dispatched>>
digest == <<body, posted>>
vars == <<ledger, snapshots, remote, pc, progress, ctx, digest, faults, crashes>>

Terminal == {"succeeded", "failed"}
Landing == {"none", "branch", "pr"}

(* Inside Dispatch; the jobs of HttpRuns go through nothing else. *)
Dispatching == {"insert", "mark", "provider", "terminal",
                "land", "annotate", "recordpr", "reload"}
Working == Dispatching \cup
           {"insertnight", "snapshot", "loop", "finish",
            "render", "renderprs", "file", "notify"}
Label == Working \cup {"idle", "done", "dead"}

RunOf(j) == <<j, slot[j]>>

TypeOK ==
    /\ nights \in [Night -> {"absent", "open", "finished"}]
    /\ status \in [RunId -> {"absent", "queued", "running"} \cup Terminal]
    /\ landed \in [RunId -> Landing]
    /\ prs \in SUBSET RunId
    /\ newer \in [RunId -> 0..PRLimit]
    /\ snapshots \in SUBSET Night
    /\ remote \in [RunId -> Landing]
    /\ pc \in [Job -> Label]
    /\ slots \in [Job -> 0..MaxSlots]
    /\ slot \in [Job -> 0..MaxSlots]
    /\ ctx \in [Job -> {"live", "done"}]
    /\ outcome \in [Job -> Terminal]
    /\ dispatched \in [Job -> SUBSET RunId]
    /\ body \in [Night -> [runs : SUBSET RunId, prs : SUBSET RunId]]
    /\ posted \in [Night -> SUBSET {"file", "slack", "cut"}]
    /\ faults \in [Job -> 0..MaxFaults]
    /\ crashes \in 0..MaxCrashes
    /\ \A j \in Job : pc[j] \in Dispatching => RunOf(j) \in RunId

Init ==
    /\ nights = [n \in Night |-> "absent"]
    /\ status = [r \in RunId |-> "absent"]
    /\ landed = [r \in RunId |-> "none"]
    /\ prs = {}
    /\ newer = [r \in RunId |-> 0]
    /\ snapshots = {}
    /\ remote = [r \in RunId |-> "none"]
    /\ pc = [j \in Job |-> "idle"]
    /\ slots = [j \in Job |-> 0]
    /\ slot = [j \in Job |-> 0]
    /\ ctx = [j \in Job |-> "live"]
    /\ outcome = [j \in Job |-> "failed"]
    /\ dispatched = [j \in Job |-> {}]
    /\ body = [n \in Night |-> [runs |-> {}, prs |-> {}]]
    /\ posted = [n \in Night |-> {}]
    /\ faults = [j \in Job |-> 0]
    /\ crashes = 0

-------------------------------------------------------------------------------
(* How a call of job j ends.  Each fixes pc, ctx and faults; the action says *)
(* what the call did to the tables.                                          *)

Goto(j, label) == pc' = [pc EXCEPT ![j] = label]

(* The call did its work: it reports so and j goes on at ok, or the deadline *)
(* passes before the answer and j takes its error path.                      *)
Took(j, ok, err) ==
    /\ ctx[j] = "live"
    /\ \/ Goto(j, ok) /\ UNCHANGED ctx
       \/ /\ j \in Timed
          /\ ctx' = [ctx EXCEPT ![j] = "done"]
          /\ Goto(j, err)
    /\ UNCHANGED faults

(* The call did nothing and reports an error. *)
Errored(j) ==
    /\ \/ ctx[j] = "done" /\ UNCHANGED faults
       \/ /\ ctx[j] = "live"
          /\ faults[j] < MaxFaults
          /\ faults' = [faults EXCEPT ![j] = @ + 1]
    /\ UNCHANGED ctx

Failed(j, err) == Errored(j) /\ Goto(j, err)

(* Where Dispatch returns to: the night's loop, or the HTTP handler. *)
Back(j) == IF j \in HttpRuns THEN "done" ELSE "loop"

-------------------------------------------------------------------------------
(* Seeded bugs: each stands in for the definition its comment names when a   *)
(* property is shown to be able to fail.                                     *)

(* For HasSlot: an off-by-one in the loop's bound. *)
OneSlotMore(j) == slot[j] <= slots[j]

(* For ProviderRun: Dispatch returns on a provider error, as it does on its  *)
(* other errors, instead of recording the run failed.                        *)
ReturnOnProviderError(j) ==
    /\ pc[j] = "provider"
    /\ \E s \in Terminal :
          /\ outcome' = [outcome EXCEPT ![j] = s]
          /\ Goto(j, IF s = "failed" THEN Back(j) ELSE "terminal")
    /\ UNCHANGED <<ledger, snapshots, remote, slots, slot, dispatched,
                   ctx, digest, faults, crashes>>

(* For ProviderRun: an answer that failed is asked for again.                *)
AskAgain(j) ==
    /\ pc[j] = "provider"
    /\ \E s \in Terminal :
          /\ outcome' = [outcome EXCEPT ![j] = s]
          /\ Goto(j, IF s = "failed" THEN "provider" ELSE "terminal")
    /\ UNCHANGED <<ledger, snapshots, remote, slots, slot, dispatched,
                   ctx, digest, faults, crashes>>

(* For FinishNight: the night is finished under a context of its own.        *)
FinishDetached(j) ==
    /\ pc[j] = "finish"
    /\ nights' = [nights EXCEPT ![j] = "finished"]
    /\ Goto(j, "render")
    /\ UNCHANGED <<status, landed, prs, newer, snapshots, remote, progress,
                   ctx, digest, faults, crashes>>

(* For AfterTerminal: failed runs are landed too. *)
LandAnyway(j) == IF GitMode # "off" THEN "land" ELSE "reload"

(* For Reload: the night keeps only the runs that succeeded. *)
KeepSucceeded(j) ==
    /\ pc[j] = "reload"
    /\ dispatched' = IF outcome[j] = "succeeded"
                     THEN [dispatched EXCEPT ![j] = @ \cup {RunOf(j)}]
                     ELSE dispatched
    /\ Goto(j, Back(j))
    /\ UNCHANGED <<ledger, snapshots, remote, slots, slot, outcome,
                   ctx, digest, faults, crashes>>

-------------------------------------------------------------------------------
(* Starting a job.  The loop goroutine runs one night at a time.             *)

LoopFree == \A i \in AutoNights : pc[i] \in {"idle", "done", "dead"}

(* Plan, then filterSlots; a dry run takes no slot.  A plan that cannot be   *)
(* computed ends the call before anything is stored.                         *)
PlanNight(j) ==
    /\ pc[j] = "idle"
    /\ j \in AutoNights => LoopFree
    /\ \/ Goto(j, "done") /\ UNCHANGED slots
       \/ \E n \in 0..MaxSlots : /\ slots' = [slots EXCEPT ![j] = n]
                                 /\ Goto(j, "insertnight")
    /\ UNCHANGED <<ledger, snapshots, remote, slot, outcome, dispatched,
                   ctx, digest, faults, crashes>>

CreateRun(j) ==
    /\ pc[j] = "idle"
    /\ slots' = [slots EXCEPT ![j] = 1]
    /\ slot' = [slot EXCEPT ![j] = 1]
    /\ Goto(j, "insert")
    /\ UNCHANGED <<ledger, snapshots, remote, outcome, dispatched,
                   ctx, digest, faults, crashes>>

-------------------------------------------------------------------------------
(* TriggerNight up to and around the dispatch loop.                          *)

InsertNight(j) ==
    /\ pc[j] = "insertnight"
    /\ \/ /\ Took(j, "snapshot", "done")
          /\ nights' = [nights EXCEPT ![j] = "open"]
       \/ Failed(j, "done") /\ UNCHANGED nights
    /\ UNCHANGED <<status, landed, prs, newer, snapshots, remote, progress,
                   digest, crashes>>

RecordSnapshot(j) ==
    /\ pc[j] = "snapshot"
    /\ \/ Took(j, "loop", "loop") /\ snapshots' = snapshots \cup {j}
       \/ Failed(j, "loop") /\ UNCHANGED snapshots
    /\ UNCHANGED <<ledger, remote, progress, digest, crashes>>

(* The plan has a slot the loop has not taken. *)
HasSlot(j) == slot[j] < slots[j]

(* The head of the dispatch loop: the next slot, or finish when there is     *)
(* none left or the context is done.                                         *)
CheckSlot(j) ==
    /\ pc[j] = "loop"
    /\ IF HasSlot(j) /\ ctx[j] = "live"
       THEN slot' = [slot EXCEPT ![j] = @ + 1] /\ Goto(j, "insert")
       ELSE Goto(j, "finish") /\ UNCHANGED slot
    /\ UNCHANGED <<ledger, snapshots, remote, slots, outcome, dispatched,
                   ctx, digest, faults, crashes>>

-------------------------------------------------------------------------------
(* Dispatch.                                                                 *)

(* The member may have been removed since the plan was made. *)
InsertRun(j) ==
    /\ pc[j] = "insert"
    /\ \/ Goto(j, Back(j)) /\ UNCHANGED <<status, ctx, faults>>
       \/ /\ Took(j, "mark", Back(j))
          /\ status' = [status EXCEPT ![RunOf(j)] = "queued"]
       \/ Failed(j, Back(j)) /\ UNCHANGED status
    /\ UNCHANGED <<nights, landed, prs, newer, snapshots, remote, progress,
                   digest, crashes>>

MarkRunning(j) ==
    /\ pc[j] = "mark"
    /\ \/ /\ Took(j, "provider", Back(j))
          /\ status' = [status EXCEPT ![RunOf(j)] = "running"]
       \/ Failed(j, Back(j)) /\ UNCHANGED status
    /\ UNCHANGED <<nights, landed, prs, newer, snapshots, remote, progress,
                   digest, crashes>>

(* The provider's subprocess ends, or its context or own timeout ends it. *)
ProviderRun(j) ==
    /\ pc[j] = "provider"
    /\ \E s \in Terminal : outcome' = [outcome EXCEPT ![j] = s]
    /\ Goto(j, "terminal")
    /\ UNCHANGED <<ledger, snapshots, remote, slots, slot, dispatched,
                   ctx, digest, faults, crashes>>

(* Only a succeeded run is landed, and only with an orchestrator. *)
AfterTerminal(j) ==
    IF outcome[j] = "succeeded" /\ GitMode # "off" THEN "land" ELSE "reload"

MarkTerminal(j) ==
    /\ pc[j] = "terminal"
    /\ \/ /\ Took(j, AfterTerminal(j), Back(j))
          /\ status' = [status EXCEPT ![RunOf(j)] = outcome[j]]
       \/ Failed(j, Back(j)) /\ UNCHANGED status
    /\ UNCHANGED <<nights, landed, prs, newer, snapshots, remote, progress,
                   digest, crashes>>

(* How far Orchestrator.Open takes a note when every command succeeds, and   *)
(* how far it may have got when one fails.                                   *)
Target == IF GitMode = "pr" THEN "pr"
          ELSE IF GitMode = "branch" THEN "branch" ELSE "none"
Reach == {"none", Target} \cup (IF Target = "pr" THEN {"branch"} ELSE {})

(* An error from Open is logged and dropped.  gh may fail after GitHub has   *)
(* created the pull request: a fault, or the context ending the command.     *)
Land(j) ==
    /\ pc[j] = "land"
    /\ \/ /\ ctx[j] = "live"
          /\ remote' = [remote EXCEPT ![RunOf(j)] = Target]
          /\ Goto(j, "annotate")
          /\ UNCHANGED <<ctx, faults>>
       \/ \E w \in Reach :
             /\ remote' = [remote EXCEPT ![RunOf(j)] = w]
             /\ IF w = "pr" THEN Errored(j) ELSE UNCHANGED <<ctx, faults>>
             /\ Goto(j, "reload")
    /\ UNCHANGED <<ledger, snapshots, progress, digest, crashes>>

(* updateBranchPR; its error is dropped. *)
Annotate(j) ==
    LET next == IF GitMode = "pr" THEN "recordpr" ELSE "reload"
        column == IF GitMode = "pr" THEN "pr" ELSE "branch"
    IN  /\ pc[j] = "annotate"
        /\ \/ /\ Took(j, next, next)
              /\ landed' = [landed EXCEPT ![RunOf(j)] = column]
           \/ Failed(j, next) /\ UNCHANGED landed
        /\ UNCHANGED <<nights, status, prs, newer, snapshots, remote, progress,
                       digest, crashes>>

(* InsertPR; its error is dropped.  opened_at is the time of the call.       *)
RecordPR(j) ==
    /\ pc[j] = "recordpr"
    /\ \/ /\ Took(j, "reload", "reload")
          /\ prs' = prs \cup {RunOf(j)}
          /\ newer' = [r \in RunId |-> IF r \in prs /\ newer[r] < PRLimit
                                      THEN newer[r] + 1 ELSE newer[r]]
       \/ Failed(j, "reload") /\ UNCHANGED <<prs, newer>>
    /\ UNCHANGED <<nights, status, landed, snapshots, remote, progress,
                   digest, crashes>>

(* GetRun; the night's loop keeps the run only when the read succeeds. *)
Reload(j) ==
    /\ pc[j] = "reload"
    /\ \/ /\ ctx[j] = "live"
          /\ dispatched' = [dispatched EXCEPT ![j] = @ \cup {RunOf(j)}]
          /\ Goto(j, Back(j))
          /\ UNCHANGED <<ctx, faults>>
       \/ Failed(j, Back(j)) /\ UNCHANGED dispatched
    /\ UNCHANGED <<ledger, snapshots, remote, slots, slot, outcome,
                   digest, crashes>>

-------------------------------------------------------------------------------
(* The end of TriggerNight.                                                  *)

(* FinishNight; its error is dropped. *)
FinishNight(j) ==
    /\ pc[j] = "finish"
    /\ \/ /\ Took(j, "render", "render")
          /\ nights' = [nights EXCEPT ![j] = "finished"]
       \/ Failed(j, "render") /\ UNCHANGED nights
    /\ UNCHANGED <<status, landed, prs, newer, snapshots, remote, progress,
                   digest, crashes>>

(* renderDigest reads the night; without it there is no digest.              *)
RenderNight(j) ==
    /\ pc[j] = "render"
    /\ \/ /\ ctx[j] = "live"
          /\ Goto(j, "renderprs")
          /\ UNCHANGED <<ctx, faults>>
       \/ Failed(j, "done")
    /\ UNCHANGED <<ledger, snapshots, remote, progress, digest, crashes>>

(* ListPRs: the newest PRLimit of all nights. *)
Newest == {r \in prs : newer[r] < PRLimit}

(* Then it lists the pull requests and keeps those of its runs; an error     *)
(* leaves the list empty.                                                    *)
RenderPRs(j) ==
    /\ pc[j] = "renderprs"
    /\ \/ /\ ctx[j] = "live"
          /\ body' = [body EXCEPT ![j] = [runs |-> dispatched[j],
                                          prs |-> Newest \cap dispatched[j]]]
          /\ UNCHANGED <<ctx, faults>>
       \/ /\ Errored(j)
          /\ body' = [body EXCEPT ![j] = [runs |-> dispatched[j], prs |-> {}]]
    /\ Goto(j, "file")
    /\ UNCHANGED <<ledger, snapshots, remote, progress, posted, crashes>>

(* The digest file, then the Slack message; both are best-effort, and either *)
(* may be switched off.  The file is the whole digest.                       *)
WriteDigest(j) ==
    /\ pc[j] = "file"
    /\ posted' \in {posted, [posted EXCEPT ![j] = @ \cup {"file"}]}
    /\ Goto(j, "notify")
    /\ UNCHANGED <<ledger, snapshots, remote, progress, body,
                   ctx, faults, crashes>>

(* The message has the number of runs for its title, and the digest's first  *)
(* 3000 bytes: all of it ("slack") or, when runs make it longer, a part      *)
(* marked as truncated ("cut").                                              *)
Messages(n) == {"slack"} \cup (IF body[n].runs # {} THEN {"cut"} ELSE {})

Notify(j) ==
    /\ pc[j] = "notify"
    /\ \/ UNCHANGED posted
       \/ /\ ctx[j] = "live"
          /\ \E message \in Messages(j) :
                posted' = [posted EXCEPT ![j] = @ \cup {message}]
    /\ Goto(j, "done")
    /\ UNCHANGED <<ledger, snapshots, remote, progress, body,
                   ctx, faults, crashes>>

-------------------------------------------------------------------------------
(* The environment.                                                          *)

(* The deadline of an HTTP job passes.                                       *)
ExpireCtx(j) ==
    /\ pc[j] \in Working
    /\ ctx[j] = "live"
    /\ ctx' = [ctx EXCEPT ![j] = "done"]
    /\ UNCHANGED <<ledger, snapshots, remote, pc, progress, digest,
                   faults, crashes>>

(* The daemon stops (a signal, os.Exit, a crash) and is started again: its   *)
(* goroutines are gone, the database and GitHub keep what they have, and a   *)
(* git or gh command under way may still finish.                             *)
Crash ==
    LET cut == {RunOf(j) : j \in {i \in Job : pc[i] = "land"}}
    IN  /\ crashes < MaxCrashes
        /\ crashes' = crashes + 1
        /\ \E j \in Job : pc[j] \in Working
        /\ pc' = [j \in Job |-> IF pc[j] \in Working THEN "dead" ELSE pc[j]]
        /\ \E w \in [cut -> Reach] :
              remote' = [r \in RunId |-> IF r \in cut THEN w[r] ELSE remote[r]]
        /\ UNCHANGED <<ledger, snapshots, progress, ctx, digest, faults>>

(* Every job is over. *)
Rest ==
    /\ \A j \in Job : pc[j] \in {"done", "dead"}
    /\ UNCHANGED vars

NightStep(j) ==
    \/ InsertNight(j) \/ RecordSnapshot(j) \/ CheckSlot(j) \/ FinishNight(j)
    \/ RenderNight(j) \/ RenderPRs(j) \/ WriteDigest(j) \/ Notify(j)

DispatchStep(j) ==
    \/ InsertRun(j) \/ MarkRunning(j) \/ ProviderRun(j) \/ MarkTerminal(j)
    \/ Land(j) \/ Annotate(j) \/ RecordPR(j) \/ Reload(j)

Next ==
    \/ \E j \in Night : PlanNight(j) \/ NightStep(j)
    \/ \E j \in HttpRuns : CreateRun(j)
    \/ \E j \in Job : DispatchStep(j)
    \/ \E j \in Timed : ExpireCtx(j)
    \/ Crash
    \/ Rest

Spec == Init /\ [][Next]_vars

(* What the Go runtime and the subprocess contexts guarantee: a goroutine    *)
(* keeps going, a deadline fires, and a command ends once its context is     *)
(* done.  Nothing ends a git or gh command whose context has no deadline.    *)
Progress(j) ==
    /\ pc[j] = "land" => ctx[j] = "done"
    /\ DispatchStep(j) \/ (j \in Night /\ NightStep(j))

FairSpec ==
    /\ Spec
    /\ \A j \in Job : WF_vars(Progress(j))
    /\ \A j \in Timed : WF_vars(ExpireCtx(j))

-------------------------------------------------------------------------------
(* Properties.                                                               *)

(* Job j may have lost a call: its context ended or a call failed.           *)
Lossy(j) == ctx[j] = "done" \/ faults[j] > 0

(* Dispatch still has the job's run k in hand, or died with it. *)
InHand(j, k) == k = slot[j] /\ pc[j] \in Dispatching \cup {"dead"}

Abandoned(j) == {k \in 1..MaxSlots : /\ status[<<j, k>>] \in {"queued", "running"}
                                     /\ ~InHand(j, k)}

(* A run row that nobody will ever settle costs one failed call each, and    *)
(* the end of a context costs at most one run however many slots the night   *)
(* had left (night.go:79-100, runner.go:89-140).                             *)
LossBounded ==
    \A j \in Job :
        Cardinality(Abandoned(j)) <= faults[j] + (IF ctx[j] = "done" THEN 1 ELSE 0)

(* A night whose row says finished, and whose calls did not fail, has no run *)
(* left queued or running: deadline and restart cannot leave a finished      *)
(* night with a live run behind it (night.go:102-105).                       *)
FinishedNightSettled ==
    \A n \in Night : nights[n] = "finished" /\ faults[n] = 0 =>
        \A k \in 1..MaxSlots : status[<<n, k>>] \in {"absent"} \cup Terminal

(* Every pull request on GitHub belongs to a run stored succeeded, and is    *)
(* listed in the prs table unless its job is still about to do so, died, or  *)
(* lost a call; every listed one exists (runner.go:149-153, 203-219).        *)
PRsTraceable ==
    \A j \in Job, k \in 1..MaxSlots : LET r == <<j, k>> IN
        /\ remote[r] # "none" => status[r] = "succeeded"
        /\ r \in prs => remote[r] = "pr"
        /\ remote[r] = "pr" => \/ r \in prs
                                \/ /\ k = slot[j]
                                   /\ pc[j] \in {"annotate", "recordpr", "dead"}
                                \/ Lossy(j)

RowsOf(n) == {r \in RunId : r[1] = n /\ status[r] # "absent"}
OpenedFor(n) == {r \in RunId : r[1] = n /\ remote[r] = "pr"}

(* The digest that was rendered lists every run row of the night, all of     *)
(* them settled, and every pull request GitHub has for it, but for those     *)
(* that PRLimit others were opened after.                                    *)
Complete(n) ==
    /\ body[n].runs = RowsOf(n)
    /\ \A r \in body[n].runs : status[r] \in Terminal
    /\ body[n].prs \subseteq OpenedFor(n)
    /\ \A r \in OpenedFor(n) \ body[n].prs : newer[r] = PRLimit

(* A digest in its file, or one that Slack got untruncated, of a night that  *)
(* lost no call is complete; the title of a truncated one still has the      *)
(* right number of runs (night.go:109-124, 138-156, slack.go:47-58).         *)
DigestComplete ==
    \A n \in Night : ~Lossy(n) \/ (faults[n] = 0 /\ posted[n] \cap {"slack", "cut"} # {}) =>
        /\ posted[n] \cap {"file", "slack"} # {} => Complete(n)
        /\ "cut" \in posted[n] => Cardinality(body[n].runs) = Cardinality(RowsOf(n))

(* The tables as readers see them implement RunLedger. *)
Ledger == INSTANCE RunLedger WITH Single <- HttpRuns

LedgerImplemented == Ledger!LedgerSpec

(* The calls a job has still to make, at most: those of a slot come to nine,  *)
(* and what follows them to five.                                            *)
Rank == [insertnight |-> 8, snapshot |-> 7,
         insert |-> 14, mark |-> 13, provider |-> 12, terminal |-> 11, land |-> 10,
         annotate |-> 9, recordpr |-> 8, reload |-> 7, loop |-> 6,
         finish |-> 5, render |-> 4, renderprs |-> 3, file |-> 2, notify |-> 1, done |-> 0]

Left(j) == 9 * (slots[j] - slot[j]) + Rank[pc[j]]

(* Whatever its calls answer, a job never goes round: each step of it leaves *)
(* fewer to come.  There is no retry, and so only a call that hangs can keep *)
(* a request from its answer (night.go:41-126, runner.go:69-156).            *)
JobsRunOut ==
    [][\A j \in Job : NightStep(j) \/ DispatchStep(j) => 0 <= Left(j)' /\ Left(j)' < Left(j)]_vars

(* A request that started a night or a run is answered, whatever git, the    *)
(* provider and the database do: its deadline bounds every wait.  A job runs *)
(* once, so it never came back if from some time on one is always at work.   *)
HttpJobReturns ==
    []<>(\A j \in HttpNights \cup HttpRuns : pc[j] \in {"idle", "done", "dead"})

(* runner.go:4-5 and 66-68 say that every transition is recorded and that    *)
(* Dispatch records the terminal state: when the daemon does not die, a run  *)
(* whose provider has ended leaves MarkTerminal with its outcome stored.     *)
TerminalStateRecorded ==
    [][\A j \in Job : pc[j] = "terminal" /\ pc'[j] \notin {"terminal", "dead"} =>
          status'[RunOf(j)] = outcome[j]]_vars
=============================================================================
