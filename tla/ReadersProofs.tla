---------------------------- MODULE ReadersProofs ----------------------------
(***************************************************************************)
(* Proofs about Readers, for any nights, jobs, slots and limit.  Inv says  *)
(* that what a request has counted or copied is never ahead of the tables, *)
(* that later queries are not behind earlier ones, and that the copies of  *)
(* a finished night are what the tables still say.                         *)
(***************************************************************************)
EXTENDS Readers, FiniteSetTheorems, TLAPS

(* A pull request is recorded for a succeeded run, and stays so. *)
PRsSucceeded == prs \subseteq Having("succeeded")

(* The tables hold at least what was counted. *)
Within(c) ==
    /\ c.nights <= Cardinality(NightRows)
    /\ c.runs <= Cardinality(Rows)
    /\ c.prs <= Cardinality(prs)
    /\ \A s \in Terminal : c.byStatus[s] <= Cardinality(Having(s))

(* The request under way has counted at least what the last one answered. *)
Ahead ==
    /\ pc \in {"runs", "prs", "byStatus", "byState"} => counts.nights >= stats.nights
    /\ pc \in {"prs", "byStatus", "byState"} => counts.runs >= stats.runs
    /\ pc \in {"byStatus", "byState"} => counts.prs >= stats.prs
    /\ pc = "byState" => \A s \in Terminal : counts.byStatus[s] >= stats.byStatus[s]

OneSided(c) ==
    /\ c.runs <= c.byStatus["queued"] + c.byStatus["running"]
                 + c.byStatus["succeeded"] + c.byStatus["failed"]
    /\ c.prs <= c.byStatus["succeeded"]

CountInv ==
    /\ Within(counts) /\ Within(stats)
    /\ Ahead
    /\ pc = "byState" => OneSided(counts)
    /\ OneSided(stats)

(* What a page says of a night that is over is what the tables say. *)
Faithful(d) ==
    d.over =>
        /\ d.night \in Night /\ nights[d.night] = "finished"
        /\ \A row \in d.rows : row = Shown(row[1]) /\ row[1] \in RunId /\ row[1][1] = d.night

Complete(d) ==
    d.over /\ d.kind = "api" => \A r \in NewestRuns : r[1] = d.night => Shown(r) \in d.rows

PRsShown(d) == d.over => \A r \in d.prs : r \in prs /\ Shown(r) \in d.rows

(* Before the runs are listed the page shows none. *)
Blank == pc \in {"get night", "list runs"} => page.rows = {}

DigestInv ==
    /\ Blank
    /\ Faithful(page) /\ (pc = "list prs" => Complete(page))
    /\ Faithful(digest) /\ Complete(digest) /\ PRsShown(digest)

Inv == TypeOK /\ PRsSucceeded /\ CountInv /\ DigestInv

-------------------------------------------------------------------------------
(* Sizes of the tables.                                                      *)

LEMMA Finite == IsFiniteSet(RunId) /\ IsFiniteSet(Night)
<1>1. IsFiniteSet(Job)
  BY ReadersAssumption, FS_Union DEF ReadersAssumption, Job
<1>2. IsFiniteSet(1..MaxSlots)
  BY ReadersAssumption, FS_Interval DEF ReadersAssumption
<1> QED
  BY <1>1, <1>2, ReadersAssumption, FS_Product DEF ReadersAssumption, RunId

(* The size of a part of the runs. *)
LEMMA Size ==
  ASSUME NEW S, S \subseteq RunId \/ S \subseteq Night
  PROVE  IsFiniteSet(S) /\ Cardinality(S) \in Nat
BY Finite, FS_Subset, FS_CardinalityType

LEMMA SizeGrows ==
  ASSUME NEW S, NEW T, S \subseteq T, T \subseteq RunId \/ T \subseteq Night
  PROVE  Cardinality(S) <= Cardinality(T)
BY Size, FS_Subset

LEMMA SizeOfUnion ==
  ASSUME NEW S \in SUBSET RunId, NEW T \in SUBSET RunId
  PROVE  Cardinality(S \cup T) <= Cardinality(S) + Cardinality(T)
<1>1. Cardinality(S \cup T) = Cardinality(S) + Cardinality(T) - Cardinality(S \cap T)
  BY Size, FS_Union
<1>2. /\ Cardinality(S) \in Nat /\ Cardinality(T) \in Nat
      /\ Cardinality(S \cap T) \in Nat
  BY Size
<1> QED
  BY <1>1, <1>2

(* No row has a status that is not counted. *)
LEMMA RowsByStatus ==
  ASSUME TypeOK
  PROVE  Cardinality(Rows) <= Cardinality(Having("queued")) + Cardinality(Having("running"))
                              + Cardinality(Having("succeeded")) + Cardinality(Having("failed"))
<1> DEFINE q == Having("queued")
           w == Having("running")
           s == Having("succeeded")
           f == Having("failed")
<1>0. q \in SUBSET RunId /\ w \in SUBSET RunId /\ s \in SUBSET RunId /\ f \in SUBSET RunId
  BY DEF Having
<1>1. Rows = ((q \cup w) \cup s) \cup f
  BY DEF TypeOK, Rows, Having, RowStatus, Terminal
<1> HIDE DEF q, w, s, f
<1>2. /\ Cardinality(q \cup w) <= Cardinality(q) + Cardinality(w)
      /\ Cardinality((q \cup w) \cup s) <= Cardinality(q \cup w) + Cardinality(s)
      /\ Cardinality(((q \cup w) \cup s) \cup f)
             <= Cardinality((q \cup w) \cup s) + Cardinality(f)
  BY <1>0, SizeOfUnion
<1>3. /\ Cardinality(q) \in Nat /\ Cardinality(w) \in Nat
      /\ Cardinality(s) \in Nat /\ Cardinality(f) \in Nat
      /\ Cardinality(q \cup w) \in Nat /\ Cardinality((q \cup w) \cup s) \in Nat
      /\ Cardinality(((q \cup w) \cup s) \cup f) \in Nat
  BY <1>0, Size
<1>4. Cardinality(Rows) <= Cardinality(q) + Cardinality(w) + Cardinality(s) + Cardinality(f)
  BY <1>1, <1>2, <1>3
<1> QED
  BY <1>4 DEF q, w, s, f

-------------------------------------------------------------------------------
(* What the writers do to the tables.                                        *)

LEMMA OlderFacts ==
  ASSUME NEW after \in [RunId -> Nat], NEW rows, NEW grown
  PROVE  /\ Older(after, rows, grown) \in [RunId -> Nat]
         /\ \A r \in RunId : after[r] <= Older(after, rows, grown)[r]
<1>1. CASE grown = rows
  BY <1>1 DEF Older
<1>2. CASE grown # rows
  BY <1>2 DEF Older
<1> QED
  BY <1>1, <1>2

LEMMA WriteTypes ==
  ASSUME TypeOK, Write
  PROVE  TypeOK'
<1>1. /\ nights' \in [Night -> {"absent", "open", "finished"}]
      /\ status' \in [RunId -> {"absent"} \cup RowStatus]
      /\ landed' \in [RunId -> {"none", "branch", "pr"}]
      /\ prs' \in SUBSET RunId
  BY DEF TypeOK, Write, LedgerNext, OpenNight, CloseNight, QueueRun, StartRun, SettleRun,
         AnnotateRun, RecordPR, RowStatus, Terminal
<1>2. runsAfter' \in [RunId -> Nat] /\ prsAfter' \in [RunId -> Nat]
  BY OlderFacts DEF TypeOK, Write
<1> QED
  BY <1>1, <1>2 DEF TypeOK, Write, reader

(* Rows are never removed, and a settled run stays as it is. *)
LEMMA WriteGrows ==
  ASSUME TypeOK, PRsSucceeded, Write
  PROVE  /\ NightRows \subseteq NightRows'
         /\ Rows \subseteq Rows'
         /\ prs \subseteq prs'
         /\ \A s \in Terminal : Having(s) \subseteq Having(s)'
         /\ PRsSucceeded'
BY DEF TypeOK, PRsSucceeded, Write, LedgerNext, OpenNight, CloseNight, QueueRun, StartRun,
       SettleRun, AnnotateRun, RecordPR, RowStatus, Terminal, NightRows, Rows, Having

(* Nothing of a finished night moves (RunLedger). *)
LEMMA WriteSpares ==
  ASSUME TypeOK, Write, NEW n \in Night, nights[n] = "finished"
  PROVE  /\ nights'[n] = "finished"
         /\ \A r \in RunId : r[1] = n => Shown(r)' = Shown(r)
         /\ \A r \in NewestRuns' : r[1] = n => r \in NewestRuns
<1>1. nights'[n] = "finished"
  BY DEF TypeOK, Write, LedgerNext, OpenNight, CloseNight, QueueRun, StartRun, SettleRun,
         AnnotateRun, RecordPR
<1>2. \A r \in RunId : r[1] = n => status'[r] = status[r] /\ landed'[r] = landed[r]
  BY DEF TypeOK, Write, LedgerNext, OpenNight, CloseNight, QueueRun, StartRun, SettleRun,
         AnnotateRun, RecordPR, Current, Open
<1>3. ASSUME NEW r \in NewestRuns', r[1] = n
      PROVE  r \in NewestRuns
  <2>1. r \in RunId /\ status'[r] # "absent" /\ runsAfter'[r] < Limit
    BY <1>3 DEF NewestRuns, Rows
  <2>2. runsAfter[r] <= runsAfter'[r]
    BY <2>1, OlderFacts DEF TypeOK, Write
  <2>t. runsAfter[r] \in Nat /\ runsAfter'[r] \in Nat /\ Limit \in Nat
    BY <2>1, WriteTypes, ReadersAssumption DEF TypeOK, ReadersAssumption
  <2>3. runsAfter[r] < Limit
    BY <2>1, <2>2, <2>t
  <2> QED
    BY <1>2, <1>3, <2>1, <2>3 DEF NewestRuns, Rows
<1> QED
  BY <1>1, <1>2, <1>3 DEF Shown

(* So the counts stay within the tables, and the copies stay true. *)
LEMMA WriteKeepsWithin ==
  ASSUME TypeOK, PRsSucceeded, Write, NEW c \in Counts, Within(c)
  PROVE  Within(c)'
<1>1. /\ Cardinality(NightRows) <= Cardinality(NightRows')
      /\ Cardinality(Rows) <= Cardinality(Rows')
      /\ Cardinality(prs) <= Cardinality(prs')
      /\ \A s \in Terminal : Cardinality(Having(s)) <= Cardinality(Having(s)')
  <2>1. /\ NightRows' \subseteq Night /\ Rows' \subseteq RunId /\ prs' \subseteq RunId
        /\ \A s \in Terminal : Having(s)' \subseteq RunId
    BY WriteTypes DEF TypeOK, NightRows, Rows, Having
  <2> QED
    BY <2>1, WriteGrows, SizeGrows
<1>2. /\ Cardinality(NightRows) \in Nat /\ Cardinality(NightRows') \in Nat
      /\ Cardinality(Rows) \in Nat /\ Cardinality(Rows') \in Nat
      /\ Cardinality(prs) \in Nat /\ Cardinality(prs') \in Nat
      /\ \A s \in Terminal : Cardinality(Having(s)) \in Nat /\ Cardinality(Having(s)') \in Nat
  BY Size, WriteTypes DEF TypeOK, NightRows, Rows, Having
<1>3. /\ c.nights \in Nat /\ c.runs \in Nat /\ c.prs \in Nat
      /\ \A s \in Terminal : c.byStatus[s] \in Nat
  BY DEF Counts, RowStatus
<1> QED
  BY <1>1, <1>2, <1>3 DEF Within

LEMMA WriteKeepsPage ==
  ASSUME TypeOK, Write, NEW d \in Page, Faithful(d)
  PROVE  /\ Faithful(d)'
         /\ Complete(d) => Complete(d)'
         /\ PRsShown(d) => PRsShown(d)'
<1> SUFFICES ASSUME d.over
             PROVE  /\ Faithful(d)'
                    /\ Complete(d) => Complete(d)'
                    /\ PRsShown(d) => PRsShown(d)'
  BY DEF Faithful, Complete, PRsShown
<1>1. d.night \in Night /\ nights[d.night] = "finished"
  BY DEF Faithful
<1>2. /\ nights'[d.night] = "finished"
      /\ \A r \in RunId : r[1] = d.night => Shown(r)' = Shown(r)
      /\ \A r \in NewestRuns' : r[1] = d.night => r \in NewestRuns
  BY <1>1, WriteSpares
<1>3. Faithful(d)'
  BY <1>1, <1>2 DEF Faithful
<1>4. Complete(d) => Complete(d)'
  BY <1>2 DEF Complete, NewestRuns, Rows
<1>5. ASSUME PRsShown(d)
      PROVE  PRsShown(d)'
  <2>1. prs \subseteq prs'
    BY DEF Write, LedgerNext, OpenNight, CloseNight, QueueRun, StartRun, SettleRun,
           AnnotateRun, RecordPR
  <2>2. ASSUME NEW r \in d.prs PROVE r \in prs' /\ Shown(r)' \in d.rows
    <3>1. r \in prs /\ Shown(r) \in d.rows
      BY <1>5, <2>2 DEF PRsShown
    <3>2. Shown(r)[1] = r
      BY DEF Shown
    <3>3. r \in RunId /\ r[1] = d.night
      BY <3>1, <3>2 DEF Faithful
    <3> QED
      BY <1>2, <2>1, <3>1, <3>3
  <2> QED
    BY <2>2 DEF PRsShown
<1> QED
  BY <1>3, <1>4, <1>5

-------------------------------------------------------------------------------
(* The invariant.                                                            *)

LEMMA InvInit == Init => Inv
<1> SUFFICES ASSUME Init PROVE Inv
  OBVIOUS
<1>1. TypeOK
  BY DEF Init, LedgerInit, TypeOK, RowStatus, Terminal, Counts, NoCounts, Page, NoPage, Query
<1>2. PRsSucceeded
  BY DEF Init, LedgerInit, PRsSucceeded
<1>3. /\ Cardinality(NightRows) \in Nat /\ Cardinality(Rows) \in Nat /\ Cardinality(prs) \in Nat
      /\ \A s \in Terminal : Cardinality(Having(s)) \in Nat
  BY <1>1, Size DEF TypeOK, NightRows, Rows, Having
<1>4. CountInv
  <2>1. Within(counts) /\ Within(stats)
    BY <1>3 DEF Init, Within, NoCounts, RowStatus
  <2>2. Ahead /\ OneSided(stats) /\ pc # "byState"
    BY DEF Init, Ahead, OneSided, NoCounts, RowStatus, Terminal
  <2> QED
    BY <2>1, <2>2 DEF CountInv
<1>5. DigestInv
  BY DEF Init, DigestInv, Blank, Faithful, Complete, PRsShown, NoPage
<1> QED
  BY <1>1, <1>2, <1>4, <1>5 DEF Inv

LEMMA WriteKeeps ==
  ASSUME Inv, Write
  PROVE  Inv'
<1>i. TypeOK /\ PRsSucceeded /\ CountInv /\ DigestInv
  BY DEF Inv
<1>u. UNCHANGED reader
  BY DEF Write
<1>1. TypeOK' /\ PRsSucceeded'
  BY <1>i, WriteTypes, WriteGrows
<1>2. CountInv'
  <2>1. PICK c \in Counts, d \in Counts : c = counts /\ d = stats
    BY <1>i DEF TypeOK
  <2>2. Within(c)' /\ Within(d)'
    BY <1>i, <2>1, WriteKeepsWithin DEF CountInv
  <2>3. Within(counts)' /\ Within(stats)'
    BY <1>u, <2>1, <2>2 DEF Within, reader
  <2> QED
    BY <1>i, <1>u, <2>3 DEF CountInv, Ahead, OneSided, reader
<1>3. DigestInv'
  <2>1. PICK c \in Page, d \in Page : c = page /\ d = digest
    BY <1>i DEF TypeOK
  <2>2. /\ Faithful(c) /\ (pc = "list prs" => Complete(c))
        /\ Faithful(d) /\ Complete(d) /\ PRsShown(d)
    BY <1>i, <2>1 DEF DigestInv
  <2>3. /\ Faithful(c)' /\ (pc = "list prs" => Complete(c)')
        /\ Faithful(d)' /\ Complete(d)' /\ PRsShown(d)'
    BY <1>i, <2>2, WriteKeepsPage
  <2>4. pc' = pc /\ page' = c /\ digest' = d
    BY <1>u, <2>1 DEF reader
  <2>5. Blank'
    BY <1>i, <1>u DEF DigestInv, Blank, reader
  <2>6. Faithful(page)' /\ (pc = "list prs" => Complete(page)')
    BY <2>3, <2>4 DEF Faithful, Complete
  <2>7. Faithful(digest)' /\ Complete(digest)' /\ PRsShown(digest)'
    BY <2>3, <2>4 DEF Faithful, Complete, PRsShown
  <2> QED
    BY <2>4, <2>5, <2>6, <2>7 DEF DigestInv
<1> QED
  BY <1>1, <1>2, <1>3 DEF Inv

(* The reading steps leave the tables as they are.                           *)
LEMMA TablesStay ==
  ASSUME PRsSucceeded, UNCHANGED <<ledger, order>>
  PROVE  /\ PRsSucceeded' /\ NightRows' = NightRows /\ Rows' = Rows
         /\ \A s \in RowStatus : Having(s)' = Having(s)
         /\ \A r \in RunId : Shown(r)' = Shown(r)
         /\ NewestRuns' = NewestRuns
BY DEF ledger, order, PRsSucceeded, NightRows, Rows, Having, Shown, NewestRuns

LEMMA CountKeeps ==
  ASSUME Inv, AskStats \/ CountNights \/ CountRuns \/ CountPRs \/ CountByStatus
              \/ CountByState \/ QueryFailed
  PROVE  Inv'
<1> USE DEF ledger, order
<1>i. TypeOK /\ PRsSucceeded /\ CountInv /\ DigestInv
  BY DEF Inv
<1>u. UNCHANGED <<ledger, order, client, page, digest>>
  BY DEF AskStats, CountNights, CountRuns, CountPRs, CountByStatus, CountByState, QueryFailed
<1>p. /\ pc \in Query \cup {"idle"} /\ pc' \in Query \cup {"idle"}
  BY DEF AskStats, CountNights, CountRuns, CountPRs, CountByStatus, CountByState, QueryFailed,
         Following, Query
<1>z. /\ Cardinality(NightRows) \in Nat /\ Cardinality(Rows) \in Nat /\ Cardinality(prs) \in Nat
      /\ \A s \in RowStatus : Cardinality(Having(s)) \in Nat
  BY <1>i, Size DEF TypeOK, NightRows, Rows, Having
<1>t. /\ counts \in Counts /\ stats \in Counts /\ NoCounts \in Counts
  BY <1>i DEF TypeOK, Counts, NoCounts
<1>1. counts' \in Counts /\ stats' \in Counts
  BY <1>z, <1>t DEF AskStats, CountNights, CountRuns, CountPRs, CountByStatus, CountByState,
                   QueryFailed, Counts
<1>2. TypeOK'
  BY <1>i, <1>u, <1>p, <1>1 DEF TypeOK, Query
<1>3. DigestInv' /\ PRsSucceeded'
  BY <1>i, <1>u, <1>p
  DEF DigestInv, Blank, Faithful, Complete, PRsShown, Shown, NewestRuns, Rows, Query,
      PRsSucceeded, Having
<1>4. CountInv'
  <2>s. UNCHANGED <<NightRows, Rows, prs>> /\ \A s \in RowStatus : Having(s)' = Having(s)
    BY <1>u, <1>i, TablesStay
  <2>z. Within(NoCounts)
    <3>1. /\ NoCounts.nights = 0 /\ NoCounts.runs = 0 /\ NoCounts.prs = 0
          /\ \A s \in Terminal : s \in RowStatus /\ NoCounts.byStatus[s] = 0
      BY DEF NoCounts, RowStatus
    <3> QED
      BY <1>z, <3>1 DEF Within
  <2>n. \A c \in Counts : /\ c.nights \in Nat /\ c.runs \in Nat /\ c.prs \in Nat
                          /\ \A s \in RowStatus : c.byStatus[s] \in Nat
    BY DEF Counts
  <2>1. CASE AskStats \/ QueryFailed
    BY <1>i, <2>1, <2>s, <2>z DEF AskStats, QueryFailed, CountInv, Within, Ahead, OneSided, RowStatus
  <2>2. CASE CountNights
    <3>1. /\ stats' = stats /\ pc' = "runs"
          /\ counts' = [counts EXCEPT !.nights = Cardinality(NightRows)]
      BY <2>2 DEF CountNights, Following
    <3>2. /\ counts'.nights = Cardinality(NightRows) /\ counts'.byStatus = counts.byStatus
          /\ counts'.runs = counts.runs /\ counts'.prs = counts.prs
      BY <1>t, <3>1 DEF Counts
    <3>3. Within(counts)' /\ Within(stats)'
      BY <1>i, <1>z, <2>s, <3>1, <3>2 DEF CountInv, Within, RowStatus
    <3>4. Ahead' /\ OneSided(stats)'
      BY <1>i, <3>1, <3>2 DEF CountInv, Within, Ahead, OneSided
    <3> QED
      BY <3>1, <3>3, <3>4 DEF CountInv
  <2>3. CASE CountRuns
    <3>1. /\ stats' = stats /\ pc = "runs" /\ pc' = "prs"
          /\ counts' = [counts EXCEPT !.runs = Cardinality(Rows)]
      BY <2>3 DEF CountRuns, Following
    <3>2. /\ counts'.runs = Cardinality(Rows) /\ counts'.byStatus = counts.byStatus
          /\ counts'.nights = counts.nights /\ counts'.prs = counts.prs
      BY <1>t, <3>1 DEF Counts
    <3>3. Within(counts)' /\ Within(stats)'
      BY <1>i, <1>z, <2>s, <3>1, <3>2 DEF CountInv, Within, RowStatus
    <3>4. Ahead' /\ OneSided(stats)'
      BY <1>i, <3>1, <3>2 DEF CountInv, Within, Ahead, OneSided
    <3> QED
      BY <3>1, <3>3, <3>4 DEF CountInv
  <2>4. CASE CountPRs
    <3>1. /\ stats' = stats /\ pc = "prs" /\ pc' = "byStatus"
          /\ counts' = [counts EXCEPT !.prs = Cardinality(prs)]
      BY <2>4 DEF CountPRs, Following
    <3>2. /\ counts'.prs = Cardinality(prs) /\ counts'.byStatus = counts.byStatus
          /\ counts'.nights = counts.nights /\ counts'.runs = counts.runs
      BY <1>t, <3>1 DEF Counts
    <3>3. Within(counts)' /\ Within(stats)'
      BY <1>i, <1>z, <2>s, <3>1, <3>2 DEF CountInv, Within, RowStatus
    <3>4. Ahead' /\ OneSided(stats)'
      BY <1>i, <3>1, <3>2 DEF CountInv, Within, Ahead, OneSided
    <3> QED
      BY <3>1, <3>3, <3>4 DEF CountInv
  <2>5. CASE CountByStatus
    <3>1. /\ stats' = stats /\ pc = "byStatus" /\ pc' = "byState"
          /\ counts' = [counts EXCEPT !.byStatus = [s \in RowStatus |-> Cardinality(Having(s))]]
      BY <2>5 DEF CountByStatus, Following
    <3>2. /\ counts'.nights = counts.nights /\ counts'.runs = counts.runs
          /\ counts'.prs = counts.prs
          /\ \A s \in RowStatus : counts'.byStatus[s] = Cardinality(Having(s))
      BY <1>t, <3>1 DEF Counts
    <3>3. Within(counts)' /\ Within(stats)' /\ Ahead'
      BY <1>i, <1>z, <2>s, <3>1, <3>2 DEF CountInv, Within, Ahead, RowStatus
    <3>4. OneSided(counts)'
      <4>1. counts.prs <= Cardinality(prs) /\ Cardinality(prs) <= Cardinality(Having("succeeded"))
        BY <1>i, SizeGrows DEF CountInv, Within, PRsSucceeded, Having
      <4>2. counts.runs <= Cardinality(Rows)
        BY <1>i DEF CountInv, Within
      <4>3. {"queued", "running", "succeeded", "failed"} \subseteq RowStatus
        BY DEF RowStatus, Terminal
      <4> QED
        BY <1>i, <1>z, <1>t, <2>n, <3>2, <4>1, <4>2, <4>3, RowsByStatus DEF OneSided
    <3> QED
      BY <1>i, <3>1, <3>3, <3>4 DEF CountInv, OneSided
  <2>6. CASE CountByState
    <3>1. /\ pc = "byState" /\ pc' = "idle" /\ counts' = NoCounts
          /\ \E n \in {0, Cardinality(prs)} : stats' = [counts EXCEPT !.byState = n]
      BY <2>6 DEF CountByState
    <3>2. /\ stats'.nights = counts.nights /\ stats'.runs = counts.runs
          /\ stats'.prs = counts.prs /\ stats'.byStatus = counts.byStatus
      BY <1>t, <3>1 DEF Counts
    <3>3. Within(stats)' /\ Within(counts)'
      BY <1>i, <2>s, <2>z, <3>1, <3>2 DEF CountInv, Within, RowStatus
    <3>4. OneSided(stats)' /\ Ahead'
      BY <1>i, <3>1, <3>2 DEF CountInv, OneSided, Ahead
    <3> QED
      BY <3>1, <3>3, <3>4 DEF CountInv
  <2> QED
    BY <2>1, <2>2, <2>3, <2>4, <2>5, <2>6
<1> QED
  BY <1>2, <1>3, <1>4 DEF Inv

LEMMA CopiesStay ==
  ASSUME TypeOK, UNCHANGED <<ledger, order>>, NEW d \in Page
  PROVE  /\ Faithful(d) => Faithful(d)'
         /\ Complete(d) => Complete(d)'
         /\ PRsShown(d) => PRsShown(d)'
BY DEF ledger, order, Faithful, Complete, PRsShown, Shown, NewestRuns, Rows

LEMMA DigestKeeps ==
  ASSUME Inv, \/ \E n \in Night, kind \in {"api", "page"} : AskDigest(n, kind)
              \/ GetNight \/ ListRuns \/ ListPRs
  PROVE  Inv'
<1>i. TypeOK /\ PRsSucceeded /\ CountInv /\ DigestInv
  BY DEF Inv
<1>u. /\ UNCHANGED <<ledger, order, client, counts, stats>>
      /\ pc \notin Query /\ pc' \notin Query
  BY DEF AskDigest, GetNight, ListRuns, ListPRs, Query
<1>s. /\ PRsSucceeded' /\ NightRows' = NightRows /\ Rows' = Rows
      /\ \A s \in RowStatus : Having(s)' = Having(s)
      /\ \A r \in RunId : Shown(r)' = Shown(r)
      /\ NewestRuns' = NewestRuns
  BY <1>i, <1>u, TablesStay
<1>t. /\ nights' = nights /\ status' = status /\ landed' = landed /\ prs' = prs
      /\ NewestRuns \subseteq RunId
      /\ \A r \in NewestRuns : Shown(r) \in RunId \X RowStatus \X {"none", "branch", "pr"}
  BY <1>i, <1>u DEF ledger, TypeOK, NewestRuns, Rows, Shown
<1>d. ASSUME digest' = digest
      PROVE  Faithful(digest)' /\ Complete(digest)' /\ PRsShown(digest)'
  <2>1. PICK d \in Page : d = digest
    BY <1>i DEF TypeOK
  <2>2. Faithful(d)' /\ Complete(d)' /\ PRsShown(d)'
    BY <1>i, <1>u, <2>1, CopiesStay DEF DigestInv
  <2> QED
    BY <1>d, <2>1, <2>2 DEF Faithful, Complete, PRsShown
<1>1. CountInv'
  BY <1>i, <1>u, <1>s DEF CountInv, Within, Ahead, OneSided, Query, RowStatus, ledger
<1>n. NoPage \in Page /\ ~NoPage.over /\ Faithful(NoPage)
  BY DEF NoPage, Page, Faithful
<1>2. ASSUME NEW n \in Night, NEW kind \in {"api", "page"}, AskDigest(n, kind)
      PROVE  TypeOK' /\ DigestInv'
  <2>1. /\ page' \in Page /\ ~page'.over /\ page'.night = n /\ page'.rows = {}
        /\ digest' = digest /\ pc' = "get night"
    BY <1>2 DEF AskDigest, NoPage, Page
  <2>2. TypeOK'
    BY <1>i, <1>u, <2>1 DEF TypeOK, ledger, order
  <2> QED
    BY <1>d, <2>1, <2>2 DEF DigestInv, Blank, Faithful
<1>3. ASSUME GetNight PROVE TypeOK' /\ DigestInv'
  <2>1. /\ pc = "get night" /\ digest' = digest /\ page \in Page /\ page.night \in Night
        /\ \/ /\ page' = [page EXCEPT !.over = (nights[page.night] = "finished")]
              /\ pc' = "list runs"
           \/ pc' = "idle" /\ page' = NoPage
    BY <1>i, <1>3 DEF GetNight, TypeOK
  <2>2. CASE pc' = "list runs"
    <3>1. /\ page' = [page EXCEPT !.over = (nights[page.night] = "finished")]
          /\ page' \in Page /\ page'.night = page.night /\ page'.rows = page.rows
          /\ page'.over => nights[page.night] = "finished"
      BY <2>1, <2>2 DEF Page
    <3>2. TypeOK'
      BY <1>i, <1>u, <2>1, <2>2, <3>1 DEF TypeOK, ledger, order
    <3>3. page.rows = {}
      BY <1>i, <2>1 DEF DigestInv, Blank
    <3>4. Faithful(page)' /\ Blank'
      BY <1>t, <2>1, <3>1, <3>3 DEF Faithful, Blank
    <3> QED
      BY <1>d, <2>1, <2>2, <3>2, <3>4 DEF DigestInv
  <2>3. CASE pc' = "idle" /\ page' = NoPage
    <3>1. TypeOK'
      BY <1>i, <1>u, <1>n, <2>1, <2>3 DEF TypeOK, ledger, order
    <3> QED
      BY <1>d, <1>n, <2>1, <2>3, <3>1 DEF DigestInv, Blank, Faithful
  <2> QED
    BY <2>1, <2>2, <2>3
<1>4. ASSUME ListRuns PROVE TypeOK' /\ DigestInv'
  <2>0. pc = "list runs" /\ digest' = digest /\ page \in Page /\ page.night \in Night
    BY <1>i, <1>4 DEF ListRuns, TypeOK
  <2>1. ASSUME NEW k \in 0..Limit, k = Limit \/ DropsError(page.kind), pc' = "list prs",
               page' = [page EXCEPT !.rows = {Shown(r) : r \in Listed(page.night, k)}]
        PROVE  TypeOK' /\ DigestInv'
    <3> DEFINE found == {Shown(r) : r \in Listed(page.night, k)}
    <3>0. \A r \in Listed(page.night, k) :
              r \in RunId /\ r[1] = page.night
              /\ Shown(r) \in RunId \X RowStatus \X {"none", "branch", "pr"}
      BY <1>i DEF Listed, Rows, TypeOK, Shown
    <3>1. found \subseteq RunId \X RowStatus \X {"none", "branch", "pr"}
      BY <3>0
    <3>2. /\ page' \in Page /\ page'.night = page.night /\ page'.over = page.over
          /\ page'.kind = page.kind /\ page'.rows = found
      BY <2>0, <2>1, <3>1 DEF Page
    <3>3. TypeOK'
      BY <1>i, <1>u, <2>0, <2>1, <3>2 DEF TypeOK, ledger, order
    <3>4. \A row \in found : row = Shown(row[1]) /\ row[1] \in RunId /\ row[1][1] = page.night
      BY <3>0 DEF Shown
    <3>5. k = Limit => \A r \in NewestRuns : r[1] = page.night => Shown(r) \in found
      BY DEF Listed, NewestRuns
    <3>6. page.kind = "api" => k = Limit
      BY <2>1 DEF DropsError
    <3> HIDE DEF found
    <3>7. Faithful(page)' /\ Complete(page)'
      BY <1>i, <1>t, <1>s, <2>0, <3>2, <3>4, <3>5, <3>6 DEF DigestInv, Faithful, Complete
    <3> QED
      BY <1>d, <2>0, <2>1, <3>3, <3>7 DEF DigestInv, Blank
  <2>2. CASE pc' = "idle" /\ page' = NoPage
    <3>1. TypeOK'
      BY <1>i, <1>u, <1>n, <2>0, <2>2 DEF TypeOK, ledger, order
    <3> QED
      BY <1>d, <1>n, <2>0, <2>2, <3>1 DEF DigestInv, Blank, Faithful
  <2> QED
    BY <1>4, <2>1, <2>2 DEF ListRuns
<1>5. ASSUME ListPRs PROVE TypeOK' /\ DigestInv'
  <2>0. pc = "list prs" /\ pc' = "idle" /\ page' = NoPage /\ page \in Page
    BY <1>i, <1>5 DEF ListPRs, TypeOK
  <2>1. PICK k \in 0..Limit : digest' = Render({r \in prs : prsAfter[r] < k})
    BY <1>5 DEF ListPRs
  <2> DEFINE opened == {r \in prs : prsAfter[r] < k}
  <2>2. opened \subseteq prs
    OBVIOUS
  <2>3. /\ digest' \in Page /\ digest'.night = page.night /\ digest'.over = page.over
        /\ digest'.rows = page.rows /\ digest'.kind = page.kind
        /\ digest'.prs = opened \cap {row[1] : row \in page.rows}
    <3>1. opened \cap {row[1] : row \in page.rows} \subseteq RunId
      BY <1>i, <2>2 DEF TypeOK
    <3> QED
      BY <2>0, <2>1, <3>1 DEF Page, Render
  <2> HIDE DEF opened
  <2>4. TypeOK'
    BY <1>i, <1>u, <1>n, <2>0, <2>3 DEF TypeOK, ledger, order
  <2>5. Faithful(digest)' /\ Complete(digest)'
    <3>1. PICK d \in Page : d = page
      BY <2>0
    <3>2. Faithful(d)' /\ Complete(d)'
      BY <1>i, <1>u, <2>0, <3>1, CopiesStay DEF DigestInv
    <3>3. /\ digest'.night = d.night /\ digest'.over = d.over
          /\ digest'.rows = d.rows /\ digest'.kind = d.kind
      BY <2>3, <3>1
    <3>4. Faithful(digest)'
      BY <3>2, <3>3 DEF Faithful
    <3>5. Complete(digest)'
      BY <3>2, <3>3 DEF Complete
    <3> QED
      BY <3>4, <3>5
  <2>6. PRsShown(digest)'
    <3> SUFFICES ASSUME page.over, NEW r \in digest'.prs
                 PROVE  r \in prs' /\ Shown(r)' \in digest'.rows
      BY <2>3 DEF PRsShown
    <3>1. r \in prs /\ \E row \in page.rows : row[1] = r
      BY <2>2, <2>3
    <3>2. r \in RunId /\ Shown(r) \in page.rows
      BY <1>i, <3>1 DEF DigestInv, Faithful
    <3> QED
      BY <1>t, <1>s, <2>3, <3>1, <3>2
  <2>7. Faithful(page)' /\ Blank' /\ pc' # "list prs"
    BY <2>0 DEF Faithful, Blank, NoPage
  <2> QED
    BY <2>4, <2>5, <2>6, <2>7 DEF DigestInv
<1>6. TypeOK'
  BY <1>2, <1>3, <1>4, <1>5
<1>7. DigestInv'
  BY <1>2, <1>3, <1>4, <1>5
<1> QED
  BY <1>1, <1>6, <1>7, <1>s DEF Inv

LEMMA InvInductive == Inv /\ [Next]_vars => Inv'
<1> SUFFICES ASSUME Inv, [Next]_vars PROVE Inv'
  OBVIOUS
<1>1. CASE Write
  BY <1>1, WriteKeeps
<1>2. CASE AskStats \/ CountNights \/ CountRuns \/ CountPRs \/ CountByStatus
           \/ CountByState \/ QueryFailed
  BY <1>2, CountKeeps
<1>3. CASE \/ \E n \in Night, kind \in {"api", "page"} : AskDigest(n, kind)
           \/ GetNight \/ ListRuns \/ ListPRs
  BY <1>3, DigestKeeps
<1>4. CASE UNCHANGED vars
  <2>1. TypeOK' /\ PRsSucceeded'
    BY <1>4 DEF vars, ledger, order, reader, Inv, TypeOK, PRsSucceeded, Having
  <2>2. CountInv'
    BY <1>4 DEF vars, ledger, order, reader, Inv, CountInv, Within, Ahead, OneSided,
                NightRows, Rows, Having
  <2>3. DigestInv'
    BY <1>4 DEF vars, ledger, order, reader, Inv, DigestInv, Blank, Faithful, Complete,
                PRsShown, Shown, NewestRuns, Rows
  <2> QED
    BY <2>1, <2>2, <2>3 DEF Inv
<1> QED
  BY <1>1, <1>2, <1>3, <1>4 DEF Next

LEMMA InvInvariant == Spec => []Inv
BY InvInit, InvInductive, PTL DEF Spec

-------------------------------------------------------------------------------
(* Theorems.                                                                 *)

(* Every variable has its type: no reader meets a row the tables could not   *)
(* hold, and a digest's handler always has a night to ask for.               *)
THEOREM ReadersTyping == Spec => []TypeOK
<1>1. Inv => TypeOK
  BY DEF Inv
<1> QED
  BY <1>1, InvInvariant, PTL

(* However the five queries of Stats fall between the writes of the jobs, no *)
(* run and no pull request it counts is missing from its counts by status    *)
(* (stats.go:18-46).                                                         *)
THEOREM StatsNeverShort == Spec => []StatsOneSided
<1>1. Inv => StatsOneSided
  BY DEF Inv, CountInv, OneSided, StatsOneSided
<1> QED
  BY <1>1, InvInvariant, PTL

(* What /metrics exports as counters never falls from one answer to the      *)
(* next, whatever requests fail or are cut in between (stats.go:18-60).      *)
THEOREM CountersNeverFall == Spec => CountersGrow
<1> DEFINE Grows ==
      /\ stats'.nights >= stats.nights
      /\ stats'.runs >= stats.runs
      /\ stats'.prs >= stats.prs
      /\ \A s \in Terminal : stats'.byStatus[s] >= stats.byStatus[s]
<1>1. ASSUME Inv, [Next]_vars PROVE [Grows]_stats
  <2>i. TypeOK /\ Ahead
    BY <1>1 DEF Inv, CountInv
  <2>1. CASE CountByState
    <3>1. /\ pc = "byState"
          /\ \E n \in {0, Cardinality(prs)} : stats' = [counts EXCEPT !.byState = n]
      BY <2>1 DEF CountByState
    <3>2. /\ stats'.nights = counts.nights /\ stats'.runs = counts.runs
          /\ stats'.prs = counts.prs /\ stats'.byStatus = counts.byStatus
      BY <2>i, <3>1 DEF TypeOK, Counts
    <3> QED
      BY <2>i, <3>1, <3>2 DEF Ahead
  <2>2. CASE ~CountByState
    <3>1. stats' = stats
      BY <1>1, <2>2 DEF Next, vars, reader, Write, AskStats, CountNights, CountRuns, CountPRs,
                        CountByStatus, QueryFailed, AskDigest, GetNight, ListRuns, ListPRs
    <3> QED
      BY <3>1
  <2> QED
    BY <2>1, <2>2
<1> QED
  BY <1>1, InvInvariant, PTL DEF Spec, CountersGrow

(* A digest of a night that was over when it was read is final: the reads    *)
(* after that one cannot have mixed in anything that moves later             *)
(* (server/digest.go:24-68).                                                 *)
THEOREM FinalDigests == Spec => []OverIsFinal
<1>1. ASSUME Inv PROVE OverIsFinal
  <2>i. /\ PRsSucceeded
        /\ Faithful(digest) /\ Complete(digest) /\ PRsShown(digest)
    BY <1>1 DEF Inv, DigestInv
  <2> SUFFICES ASSUME digest.over
               PROVE  /\ \A row \in digest.rows : row = Shown(row[1])
                      /\ \A r \in digest.prs :
                             r \in prs /\ status[r] = "succeeded" /\ Shown(r) \in digest.rows
                      /\ digest.kind = "api" =>
                             \A r \in NewestRuns : r[1] = digest.night => Shown(r) \in digest.rows
    BY DEF OverIsFinal
  <2>1. \A row \in digest.rows : row = Shown(row[1])
    BY <2>i DEF Faithful
  <2>2. \A r \in digest.prs : r \in prs /\ status[r] = "succeeded" /\ Shown(r) \in digest.rows
    BY <2>i DEF PRsShown, PRsSucceeded, Having
  <2>3. digest.kind = "api" =>
            \A r \in NewestRuns : r[1] = digest.night => Shown(r) \in digest.rows
    BY <2>i DEF Complete
  <2> QED
    BY <2>1, <2>2, <2>3
<1> QED
  BY <1>1, InvInvariant, PTL
=============================================================================
