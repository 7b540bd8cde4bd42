------------------------------- MODULE Readers -------------------------------
(***************************************************************************)
(* What is read out of the tables while jobs write them: DB.Stats behind   *)
(* GET /stats, /metrics and the dashboard, five queries without a          *)
(* transaction, and the digest of a night rendered on demand for           *)
(* GET /nights/{id}/digest and the page /digests/{id}, three queries.      *)
(*                                                                         *)
(* The writers are RunLedger, which Runner implements.  There is one       *)
(* client, and it asks for one of the two: requests do not change what     *)
(* others read.  The rows of concurrent jobs are ordered (started_at,      *)
(* opened_at) as inserted.                                                 *)
(***************************************************************************)
EXTENDS RunLedger, FiniteSets

CONSTANT Limit  \* rows a list query returns at most (500 for a digest)

ASSUME ReadersAssumption ==
    /\ IsFiniteSet(Night) /\ IsFiniteSet(Single)
    /\ MaxSlots \in Nat
    /\ Limit \in Nat \ {0}

VARIABLES
    runsAfter,  \* rows of runs started after each run
    prsAfter,   \* rows of prs opened after each run's pull request
    client,     \* what the client asks for, again and again
    pc,         \* the query the request under way is at, or "idle"
    counts,     \* what Stats has counted so far
    stats,      \* the last Stats answered
    page,       \* what the digest's handler has read so far
    digest      \* the last digest answered

order == <<runsAfter, prsAfter>>
reader == <<client, pc, counts, stats, page, digest>>
vars == <<ledger, order, reader>>

RowStatus == {"queued", "running"} \cup Terminal
Rows == {r \in RunId : status[r] # "absent"}
Having(s) == {r \in RunId : status[r] = s}
NightRows == {n \in Night : nights[n] # "absent"}

Counts == [nights : Nat, runs : Nat, prs : Nat, byStatus : [RowStatus -> Nat], byState : Nat]
NoCounts == [nights |-> 0, runs |-> 0, prs |-> 0,
             byStatus |-> [s \in RowStatus |-> 0], byState |-> 0]

(* A run as a digest shows it: its status and its pull request's link.       *)
Shown(r) == <<r, status[r], landed[r]>>

Page == [kind : {"api", "page"}, night : Night \cup {"none"}, over : BOOLEAN,
         rows : SUBSET (RunId \X RowStatus \X {"none", "branch", "pr"}), prs : SUBSET RunId]
NoPage == [kind |-> "api", night |-> "none", over |-> FALSE, rows |-> {}, prs |-> {}]

Query == {"nights", "runs", "prs", "byStatus", "byState"}

Init ==
    /\ LedgerInit
    /\ runsAfter = [r \in RunId |-> 0] /\ prsAfter = [r \in RunId |-> 0]
    /\ client \in {"stats", "digest"}
    /\ pc = "idle"
    /\ counts = NoCounts /\ stats = NoCounts
    /\ page = NoPage /\ digest = NoPage

-------------------------------------------------------------------------------
(* Seeded bugs, each standing in for the definition it names.                *)

(* For Following: the pull requests are counted after the runs by status. *)
PRsLast(q) ==
    CASE q = "nights" -> "runs" [] q = "runs" -> "byStatus"
      [] q = "byStatus" -> "prs" [] q = "prs" -> "byState"

(* For QueryFailed: an error leaves its count at zero and Stats goes on. *)
CountAsZero ==
    /\ pc \in Query
    /\ pc' = CASE pc = "nights" -> "runs" [] pc = "runs" -> "prs"
               [] pc = "prs" -> "byStatus" [] pc = "byStatus" -> "byState"
               [] pc = "byState" -> "idle"
    /\ UNCHANGED <<ledger, order, client, counts, stats, page, digest>>

(* For DropsError: the handler of the API drops the error too. *)
DropsAnyError(kind) == kind \in {"api", "page"}

-------------------------------------------------------------------------------
(* The writers, and the order of the rows they insert.                       *)

Older(after, rows, grown) ==
    [r \in RunId |-> IF r \in rows /\ grown # rows THEN after[r] + 1 ELSE after[r]]

Write ==
    /\ LedgerNext
    /\ runsAfter' = Older(runsAfter, Rows, Rows')
    /\ prsAfter' = Older(prsAfter, prs, prs')
    /\ UNCHANGED reader

-------------------------------------------------------------------------------
(* Stats: one count after the other.                                         *)

AskStats ==
    /\ client = "stats" /\ pc = "idle"
    /\ pc' = "nights"
    /\ UNCHANGED <<ledger, order, client, counts, stats, page, digest>>

Following(q) ==
    CASE q = "nights" -> "runs" [] q = "runs" -> "prs"
      [] q = "prs" -> "byStatus" [] q = "byStatus" -> "byState"

CountNights ==
    /\ pc = "nights"
    /\ pc' = Following(pc)
    /\ counts' = [counts EXCEPT !.nights = Cardinality(NightRows)]
    /\ UNCHANGED <<ledger, order, client, stats, page, digest>>

CountRuns ==
    /\ pc = "runs"
    /\ pc' = Following(pc)
    /\ counts' = [counts EXCEPT !.runs = Cardinality(Rows)]
    /\ UNCHANGED <<ledger, order, client, stats, page, digest>>

CountPRs ==
    /\ pc = "prs"
    /\ pc' = Following(pc)
    /\ counts' = [counts EXCEPT !.prs = Cardinality(prs)]
    /\ UNCHANGED <<ledger, order, client, stats, page, digest>>

(* Cut short by its deadline the loop over the rows ends without an error;   *)
(* the next query then fails.                                                *)
CountByStatus ==
    /\ pc = "byStatus"
    /\ pc' = Following(pc)
    /\ counts' = [counts EXCEPT !.byStatus = [s \in RowStatus |-> Cardinality(Having(s))]]
    /\ UNCHANGED <<ledger, order, client, stats, page, digest>>

(* Every row of prs says "open".  There is no next query: cut short, the     *)
(* loop leaves the map empty and Stats succeeds.                             *)
CountByState ==
    /\ pc = "byState"
    /\ pc' = "idle"
    /\ \E n \in {0, Cardinality(prs)} : stats' = [counts EXCEPT !.byState = n]
    /\ counts' = NoCounts
    /\ UNCHANGED <<ledger, order, client, page, digest>>

(* A query fails, or the request's deadline passes: nothing is answered.     *)
QueryFailed ==
    /\ pc \in Query
    /\ pc' = "idle"
    /\ counts' = NoCounts
    /\ UNCHANGED <<ledger, order, client, stats, page, digest>>

-------------------------------------------------------------------------------
(* The digest of a night, for the API and for the page.                      *)

AskDigest(n, kind) ==
    /\ client = "digest" /\ pc = "idle"
    /\ pc' = "get night"
    /\ page' = [NoPage EXCEPT !.kind = kind, !.night = n]
    /\ UNCHANGED <<ledger, order, client, counts, stats, digest>>

(* A night that is not found, or not read, is answered with a problem.       *)
GetNight ==
    /\ pc = "get night"
    /\ \/ /\ nights[page.night] # "absent"
          /\ page' = [page EXCEPT !.over = (nights[page.night] = "finished")]
          /\ pc' = "list runs"
       \/ pc' = "idle" /\ page' = NoPage
    /\ UNCHANGED <<ledger, order, client, counts, stats, digest>>

NewestRuns == {r \in Rows : runsAfter[r] < Limit}

(* The rows of a night among the newest k of all nights and jobs. *)
Listed(n, k) == {r \in Rows : runsAfter[r] < k /\ r[1] = n}

(* The page drops the error of ListRuns, and shows the rows it came with. *)
DropsError(kind) == kind = "page"

ListRuns ==
    /\ pc = "list runs"
    /\ \/ /\ \E k \in 0..Limit :
                /\ k = Limit \/ DropsError(page.kind)
                /\ page' = [page EXCEPT !.rows = {Shown(r) : r \in Listed(page.night, k)}]
          /\ pc' = "list prs"
       \/ ~DropsError(page.kind) /\ pc' = "idle" /\ page' = NoPage
    /\ UNCHANGED <<ledger, order, client, counts, stats, digest>>

Render(opened) == [page EXCEPT !.prs = opened \cap {row[1] : row \in page.rows}]

(* Both handlers drop the error of ListPRs, and use the rows it came with. *)
ListPRs ==
    /\ pc = "list prs"
    /\ pc' = "idle"
    /\ \E k \in 0..Limit : digest' = Render({r \in prs : prsAfter[r] < k})
    /\ page' = NoPage
    /\ UNCHANGED <<ledger, order, client, counts, stats>>

Next ==
    \/ Write
    \/ AskStats \/ CountNights \/ CountRuns \/ CountPRs \/ CountByStatus \/ CountByState
    \/ QueryFailed
    \/ \E n \in Night, kind \in {"api", "page"} : AskDigest(n, kind)
    \/ GetNight \/ ListRuns \/ ListPRs

Spec == Init /\ [][Next]_vars

-------------------------------------------------------------------------------
(* Properties.                                                               *)

TypeOK ==
    /\ nights \in [Night -> {"absent", "open", "finished"}]
    /\ status \in [RunId -> {"absent"} \cup RowStatus]
    /\ landed \in [RunId -> {"none", "branch", "pr"}]
    /\ prs \in SUBSET RunId
    /\ runsAfter \in [RunId -> Nat] /\ prsAfter \in [RunId -> Nat]
    /\ client \in {"stats", "digest"}
    /\ pc \in Query \cup {"idle", "get night", "list runs", "list prs"}
    /\ counts \in Counts /\ stats \in Counts
    /\ page \in Page /\ digest \in Page
    /\ pc \in {"get night", "list runs", "list prs"} => page.night \in Night

(* The five queries are no snapshot, but their order makes them err on one   *)
(* side only: the runs by status are no fewer than the runs, and those       *)
(* succeeded no fewer than the pull requests (stats.go:23-46).               *)
StatsOneSided ==
    LET by == stats.byStatus IN
    /\ stats.runs <= by["queued"] + by["running"] + by["succeeded"] + by["failed"]
    /\ stats.prs <= by["succeeded"]

(* What /metrics exports as counters of nights, runs and pull requests, and  *)
(* of settled runs, never goes down from one answer to a later one, failed   *)
(* and cut requests in between or not (stats.go:18-60, metrics.go:27-70).    *)
CountersGrow ==
    [][/\ stats'.nights >= stats.nights
       /\ stats'.runs >= stats.runs
       /\ stats'.prs >= stats.prs
       /\ \A s \in Terminal : stats'.byStatus[s] >= stats.byStatus[s]]_stats

(* A digest that says its night is over is final: what it shows is what the  *)
(* tables say from then on, each pull request beside a succeeded run, and    *)
(* the API's lacks a run only once Limit newer ones exist (digest.go:24-68). *)
OverIsFinal ==
    digest.over =>
        /\ \A row \in digest.rows : row = Shown(row[1])
        /\ \A r \in digest.prs : r \in prs /\ status[r] = "succeeded" /\ Shown(r) \in digest.rows
        /\ digest.kind = "api" =>
               \A r \in NewestRuns : r[1] = digest.night => Shown(r) \in digest.rows
=============================================================================
