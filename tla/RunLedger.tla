------------------------------ MODULE RunLedger ------------------------------
(***************************************************************************)
(* What the database promises its readers (the dashboard, GET /nights,     *)
(* GET /runs, GET /prs) about the rows the runner writes.  A job is one    *)
(* call of Runner.TriggerNight or one POST /runs; its runs are numbered in *)
(* the order it creates them.                                              *)
(*                                                                         *)
(*  - a run only moves queued -> running -> succeeded | failed             *)
(*    (internal/runner/runner.go:4-5);                                     *)
(*  - a night works on one run at a time: once a later run of the same     *)
(*    night exists, the earlier one's rows are final;                      *)
(*  - once a night's finished_at is set, nothing that belongs to it moves; *)
(*  - a pull request is recorded only for a run already stored succeeded.  *)
(*                                                                         *)
(* Runner.tla is shown to implement this specification.                    *)
(***************************************************************************)
EXTENDS Naturals

CONSTANTS
    Night,      \* jobs that own a row of the nights table
    Single,     \* jobs that dispatch one run and own no night
    MaxSlots    \* bound on the runs of one job

Job == Night \cup Single
RunId == Job \X (1..MaxSlots)

VARIABLES
    nights,     \* the nights table: "absent", "open" (finished_at NULL), "finished"
    status,     \* runs.status, "absent" for a row that does not exist
    landed,     \* runs.branch and runs.pr_url: "none", "branch" or "pr"
    prs         \* the runs that have a row in the prs table

ledger == <<nights, status, landed, prs>>

Terminal == {"succeeded", "failed"}

LedgerInit ==
    /\ nights = [n \in Night |-> "absent"]
    /\ status = [r \in RunId |-> "absent"]
    /\ landed = [r \in RunId |-> "none"]
    /\ prs = {}

(* The rows of job j may still move: it has no night, or its night is open. *)
Open(j) == j \in Night => nights[j] = "open"

(* r is the run its job created last. *)
Newest(r) ==
    \A k \in 1..MaxSlots : k > r[2] => status[<<r[1], k>>] = "absent"

Current(r) == Open(r[1]) /\ Newest(r)

OpenNight(n) ==
    /\ nights[n] = "absent"
    /\ nights' = [nights EXCEPT ![n] = "open"]
    /\ UNCHANGED <<status, landed, prs>>

CloseNight(n) ==
    /\ nights[n] = "open"
    /\ nights' = [nights EXCEPT ![n] = "finished"]
    /\ UNCHANGED <<status, landed, prs>>

QueueRun(r) ==
    /\ Current(r)
    /\ status[r] = "absent"
    /\ status' = [status EXCEPT ![r] = "queued"]
    /\ UNCHANGED <<nights, landed, prs>>

StartRun(r) ==
    /\ Current(r)
    /\ status[r] = "queued"
    /\ status' = [status EXCEPT ![r] = "running"]
    /\ UNCHANGED <<nights, landed, prs>>

SettleRun(r) ==
    /\ Current(r)
    /\ status[r] = "running"
    /\ \E s \in Terminal : status' = [status EXCEPT ![r] = s]
    /\ UNCHANGED <<nights, landed, prs>>

AnnotateRun(r) ==
    /\ Current(r)
    /\ status[r] = "succeeded"
    /\ landed[r] = "none"
    /\ \E b \in {"branch", "pr"} : landed' = [landed EXCEPT ![r] = b]
    /\ UNCHANGED <<nights, status, prs>>

RecordPR(r) ==
    /\ Current(r)
    /\ status[r] = "succeeded"
    /\ r \notin prs
    /\ prs' = prs \cup {r}
    /\ UNCHANGED <<nights, status, landed>>

LedgerNext ==
    \/ \E n \in Night : OpenNight(n) \/ CloseNight(n)
    \/ \E r \in RunId : \/ QueueRun(r) \/ StartRun(r) \/ SettleRun(r)
                        \/ AnnotateRun(r) \/ RecordPR(r)

LedgerSpec == LedgerInit /\ [][LedgerNext]_ledger
=============================================================================
