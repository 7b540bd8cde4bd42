--------------------------- MODULE RunnerLossProofs ---------------------------
(***************************************************************************)
(* What a lost call, a deadline or a restart can leave behind: proofs of   *)
(* the remaining safety properties of Runner.tla, on top of CoreInv.       *)
(***************************************************************************)
EXTENDS RunnerProofs, FiniteSetTheorems

(* Whatever has been left behind is accounted for by a loss. *)
Loss(j) ==
    /\ \A k \in 1..MaxSlots :
          /\ status[<<j, k>>] \in {"queued", "running"} => InHand(j, k) \/ Lossy(j)
          /\ <<j, k>> \in prs => remote[<<j, k>>] = "pr"
          /\ remote[<<j, k>>] = "pr" =>
                \/ <<j, k>> \in prs
                \/ (k = slot[j] /\ pc[j] \in {"annotate", "recordpr", "dead"})
                \/ Lossy(j)
    /\ j \in Night /\ nights[j] = "finished" /\ faults[j] = 0 =>
          \A k \in 1..MaxSlots : status[<<j, k>>] \in {"absent"} \cup Terminal

(* What was posted for night j. *)
Sent(j) == "slack" \in posted[j] \/ "cut" \in posted[j]

(* A digest rendered without a loss is complete, and nothing is dispatched   *)
(* any more once it is on its way.                                           *)
Digests(j) ==
    /\ \A r \in dispatched[j] : r[1] = j /\ status[r] \in Terminal
    /\ j \in Night =>
          /\ ~Lossy(j) => \A k \in 1..MaxSlots :
                status[<<j, k>>] # "absent" => <<j, k>> \in dispatched[j] \/ InHand(j, k)
          /\ pc[j] \in {"file", "notify"} /\ ~Lossy(j) => Complete(j)
          /\ "file" \in posted[j] => pc[j] \in {"notify", "done", "dead"}
          /\ "file" \in posted[j] /\ ~Lossy(j) => Complete(j)
          /\ Sent(j) /\ faults[j] = 0 => Complete(j)

LossInv == CoreInv /\ \A j \in Job : Loss(j)
IInv == LossInv /\ \A j \in Job : Digests(j)

-------------------------------------------------------------------------------
(* Losses.                                                                   *)

LEMMA SameLoss ==
  ASSUME NEW j \in Job, Loss(j), Same(j)
  PROVE  Loss(j)'
BY DEF Same, Loss, InHand, Lossy

LEMMA OwnLoss ==
  ASSUME LossInv, CoreInv', NEW j \in Job, JobStep(j)
  PROVE  Loss(j)'
<1> USE DEF ledger, progress, digest, LossInv, CoreInv
<1>a. NightRow(j) /\ Rows(j) /\ Hand(j) /\ Loss(j) /\ TypeOK
  OBVIOUS
<1>b. NightRow(j)' /\ Rows(j)' /\ Hand(j)' /\ TypeOK'
  OBVIOUS
<1>0. \A k \in 1..MaxSlots : <<j, k>> \in RunId
  BY DEF RunId
<1> USE DEF Goto, TypeOK, NightRow, Rows, Hand, Loss, InHand, Lossy, Dispatching, Terminal, RunOf, RunId
<1>1. CASE j \in Night /\ PlanNight(j)
  BY <1>1, <1>a, <1>0 DEF PlanNight
<1>2. CASE j \in HttpRuns /\ CreateRun(j)
  BY <1>2, <1>a, <1>0, RunnerAssumption DEF CreateRun, RunnerAssumption, Night
<1>3. CASE j \in Timed /\ ExpireCtx(j)
  BY <1>3, <1>a DEF ExpireCtx
<1>4. CASE j \in Night /\ NightStep(j)
  <2>1. CASE InsertNight(j)
    BY <2>1, <1>4, <1>a, <1>0 DEF InsertNight, Took, Failed, Errored
  <2>2. CASE RecordSnapshot(j)
    BY <2>2, <1>4, <1>a, <1>0 DEF RecordSnapshot, Took, Failed, Errored
  <2>3. CASE CheckSlot(j)
    BY <2>3, <1>4, <1>a, <1>0 DEF CheckSlot, Took, Failed, Errored, HasSlot
  <2>4. CASE FinishNight(j)
    BY <2>4, <1>4, <1>a, <1>0 DEF FinishNight, Took, Failed, Errored
  <2>5. CASE RenderNight(j)
    BY <2>5, <1>4, <1>a, <1>0 DEF RenderNight, Took, Failed, Errored
  <2>6. CASE RenderPRs(j)
    BY <2>6, <1>4, <1>a, <1>0 DEF RenderPRs, Took, Failed, Errored
  <2>7. CASE WriteDigest(j)
    BY <2>7, <1>4, <1>a, <1>0 DEF WriteDigest, Took, Failed, Errored
  <2>8. CASE Notify(j)
    BY <2>8, <1>4, <1>a, <1>0 DEF Notify, Messages, Took, Failed, Errored
  <2> QED
    BY <1>4, <2>1, <2>2, <2>3, <2>4, <2>5, <2>6, <2>7, <2>8 DEF NightStep
<1>5. CASE DispatchStep(j)
  <2>1. CASE InsertRun(j)
    BY <2>1, <1>a, <1>0, BackFacts DEF InsertRun, Took, Failed, Errored
  <2>2. CASE MarkRunning(j)
    BY <2>2, <1>a, <1>0, BackFacts DEF MarkRunning, Took, Failed, Errored
  <2>3. CASE ProviderRun(j)
    BY <2>3, <1>a, <1>0, BackFacts DEF ProviderRun, Took, Failed, Errored
  <2>4. CASE MarkTerminal(j)
    BY <2>4, <1>a, <1>0, BackFacts DEF MarkTerminal, Took, Failed, Errored, AfterTerminal
  <2>5. CASE Land(j)
    <3>1. CASE ctx[j] = "live" /\ remote' = [remote EXCEPT ![RunOf(j)] = Target]
               /\ Goto(j, "annotate") /\ UNCHANGED <<ctx, faults>>
      BY <2>5, <3>1, <1>a, <1>0 DEF Land, Target
    <3>2. ASSUME NEW w \in Reach,
                 remote' = [remote EXCEPT ![RunOf(j)] = w],
                 IF w = "pr" THEN Errored(j) ELSE UNCHANGED <<ctx, faults>>,
                 Goto(j, "reload")
          PROVE  Loss(j)'
      <4>1. CASE w = "pr"
        <5>1. Lossy(j)'
          BY <3>2, <4>1, <1>a, ErroredFacts
        <5>2. UNCHANGED <<nights, status, prs, slot>> /\ pc'[j] = "reload"
          BY <2>5, <3>2, <1>a DEF Land
        <5>3. \A k \in 1..MaxSlots : <<j, k>> \in prs => remote'[<<j, k>>] = "pr"
          BY <3>2, <4>1, <1>a, <1>0
        <5>4. j \in Night => nights'[j] = "open"
          BY <2>5, <5>2, <1>a DEF Land
        <5> QED
          BY <5>1, <5>2, <5>3, <5>4
      <4>2. CASE w # "pr"
        BY <2>5, <3>2, <4>2, <1>a, <1>0 DEF Land
      <4> QED
        BY <4>1, <4>2
    <3> QED
      BY <2>5, <3>1, <3>2 DEF Land
  <2>6. CASE Annotate(j)
    <3>1. /\ pc'[j] = IF GitMode = "pr" THEN "recordpr" ELSE "reload"
          /\ remote[RunOf(j)] = "pr" => GitMode = "pr"
      BY <2>6, <1>a DEF Annotate, Took, Failed, Target
    <3>2. Lossy(j) => Lossy(j)'
      BY <2>6, <1>a DEF Annotate, Took, Failed, Errored
    <3> QED
      BY <2>6, <3>1, <3>2, <1>a, <1>0 DEF Annotate, Took, Failed, Errored
  <2>7. CASE RecordPR(j)
    BY <2>7, <1>a, <1>0, BackFacts DEF RecordPR, Took, Failed, Errored
  <2>8. CASE Reload(j)
    <3>1. /\ UNCHANGED <<nights, status, prs, remote, slot>>
          /\ pc[j] = "reload" /\ status[RunOf(j)] \in Terminal
      BY <2>8, <1>a DEF Reload
    <3>2. (Lossy(j) => Lossy(j)') /\ (faults'[j] = 0 => faults[j] = 0)
      BY <2>8, <1>a DEF Reload, Failed, Errored
    <3>3. j \in Night => nights'[j] = "open"
      BY <3>1, <1>a
    <3> QED
      BY <3>1, <3>2, <3>3, <1>a
  <2> QED
    BY <1>5, <2>1, <2>2, <2>3, <2>4, <2>5, <2>6, <2>7, <2>8 DEF DispatchStep
<1> QED
  BY <1>1, <1>2, <1>3, <1>4, <1>5 DEF JobStep

(* What a restart changes of job j. *)
LEMMA CrashFacts ==
  ASSUME CoreInv, Crash, NEW j \in Job
  PROVE  /\ pc'[j] = IF pc[j] \in Working THEN "dead" ELSE pc[j]
         /\ UNCHANGED <<ledger, slot, ctx, faults, dispatched, body, posted>>
         /\ \A k \in 1..MaxSlots : remote'[<<j, k>>] # remote[<<j, k>>] =>
               /\ pc[j] = "land"
               /\ k = slot[j]
<1>1. pc'[j] = IF pc[j] \in Working THEN "dead" ELSE pc[j]
  BY DEF Crash
<1>2. UNCHANGED <<ledger, slot, ctx, faults, dispatched, body, posted>>
  BY DEF Crash, progress, digest
<1>3. ASSUME NEW k \in 1..MaxSlots, remote'[<<j, k>>] # remote[<<j, k>>]
      PROVE  pc[j] = "land" /\ k = slot[j]
  <2>1. <<j, k>> \in RunId
    BY DEF RunId
  <2>2. <<j, k>> \in {RunOf(i) : i \in {m \in Job : pc[m] = "land"}}
    BY <1>3, <2>1 DEF Crash, CoreInv, TypeOK
  <2>3. PICK i \in Job : pc[i] = "land" /\ <<j, k>> = RunOf(i)
    BY <2>2
  <2> QED
    BY <2>3 DEF RunOf
<1> QED
  BY <1>1, <1>2, <1>3

LEMMA CrashLoss ==
  ASSUME LossInv, Crash, NEW j \in Job
  PROVE  Loss(j)'
<1> USE DEF LossInv
<1>1. /\ pc'[j] = IF pc[j] \in Working THEN "dead" ELSE pc[j]
      /\ UNCHANGED <<nights, status, prs, slot, ctx, faults>>
  BY CrashFacts DEF ledger
<1>2. \A k \in 1..MaxSlots : remote'[<<j, k>>] # remote[<<j, k>>] =>
         pc[j] = "land" /\ k = slot[j] /\ <<j, k>> \notin prs
  BY CrashFacts DEF CoreInv, Hand, RunOf
<1>3. \A k \in 1..MaxSlots : InHand(j, k) => InHand(j, k)'
  BY <1>1 DEF InHand, Working, Dispatching
<1>4. pc[j] \in {"annotate", "recordpr", "land", "dead"} => pc'[j] = "dead"
  BY <1>1 DEF Working, Dispatching
<1> QED
  BY <1>1, <1>2, <1>3, <1>4 DEF Loss, Lossy

LEMMA NextLoss == LossInv /\ [Next]_vars => LossInv'
<1> SUFFICES ASSUME LossInv, [Next]_vars PROVE LossInv'
  OBVIOUS
<1>1. CoreInv'
  BY NextCore DEF LossInv
<1> SUFFICES ASSUME NEW j \in Job PROVE Loss(j)'
  BY <1>1 DEF LossInv
<1>2. CASE \E i \in Job : JobStep(i)
  <2> PICK i \in Job : JobStep(i)
    BY <1>2
  <2>1. CASE j = i
    BY <2>1, <1>1, OwnLoss
  <2>2. CASE j # i
    BY <2>2, OthersSame, SameLoss DEF LossInv, CoreInv
  <2> QED
    BY <2>1, <2>2
<1>3. CASE Crash
  BY <1>3, CrashLoss
<1>4. CASE Rest \/ UNCHANGED vars
  BY <1>4 DEF Rest, vars, ledger, progress, LossInv, Loss, InHand, Lossy
<1> QED
  BY <1>2, <1>3, <1>4 DEF Next, JobStep, Job, Night, Timed

LEMMA LossInvariant == Spec => []LossInv
<1>1. Init => LossInv
  <2> SUFFICES ASSUME Init, NEW j \in Job PROVE Loss(j)
    BY InitCore DEF LossInv
  <2>1. \A k \in 1..MaxSlots : <<j, k>> \in RunId
    BY DEF RunId
  <2> QED
    BY <2>1 DEF Init, Loss
<1> QED
  BY <1>1, NextLoss, PTL DEF Spec

(* A night stored finished, none of whose calls failed, has no run left      *)
(* queued or running, whatever deadlines and restarts did (night.go:79-105). *)
THEOREM FinishedNightsAreSettled == Spec => []FinishedNightSettled
<1>1. LossInv => FinishedNightSettled
  BY DEF LossInv, Loss, FinishedNightSettled, Job
<1> QED
  BY <1>1, LossInvariant, PTL

(* Pull requests on GitHub and rows of the prs table agree up to a loss, and *)
(* only succeeded runs have one (runner.go:149-153, 203-219).                *)
THEOREM PRsAreTraceable == Spec => []PRsTraceable
<1>1. LossInv => PRsTraceable
  BY DEF LossInv, CoreInv, Loss, Rows, PRsTraceable
<1> QED
  BY <1>1, LossInvariant, PTL

-------------------------------------------------------------------------------
(* Digests.                                                                  *)

LEMMA SameDigests ==
  ASSUME TypeOK, NEW j \in Job, Digests(j), Same(j)
  PROVE  Digests(j)'
<1>1. ASSUME NEW r \in RunId, r[1] = j
      PROVE  /\ status'[r] = status[r]
             /\ remote'[r] = remote[r]
             /\ newer[r] = PRLimit => newer'[r] = PRLimit
  <2>1. r[2] \in 1..MaxSlots /\ r = <<j, r[2]>>
    BY <1>1 DEF RunId
  <2> QED
    BY <2>1 DEF Same
<1>2. \A r \in dispatched[j] : r \in RunId
  BY DEF TypeOK
<1>3. j \in Night => (Complete(j) => Complete(j)')
  <2> SUFFICES ASSUME j \in Night, Complete(j) PROVE Complete(j)'
    OBVIOUS
  <2>1. body'[j] = body[j]
    BY DEF Same
  <2>2. RowsOf(j)' = RowsOf(j)
    BY <1>1 DEF RowsOf
  <2>3. OpenedFor(j)' = OpenedFor(j)
    BY <1>1 DEF OpenedFor
  <2>4. \A r \in OpenedFor(j) \ body[j].prs : newer'[r] = PRLimit
    BY <1>1 DEF Complete, OpenedFor
  <2>5. \A r \in body[j].runs : status'[r] = status[r]
    BY <1>1 DEF Complete, RowsOf
  <2> QED
    BY <2>1, <2>2, <2>3, <2>4, <2>5 DEF Complete
<1> QED
  BY <1>1, <1>2, <1>3 DEF Digests, Sent, Same, Lossy, InHand

LEMMA OwnDigests ==
  ASSUME IInv, LossInv', NEW j \in Job, JobStep(j)
  PROVE  Digests(j)'
<1> USE DEF ledger, progress, digest
<1>a. NightRow(j) /\ Rows(j) /\ Hand(j) /\ Loss(j) /\ Digests(j) /\ TypeOK
  BY DEF IInv, LossInv, CoreInv
<1>b. NightRow(j)' /\ TypeOK'
  BY DEF LossInv, CoreInv
<1>0. \A k \in 1..MaxSlots : <<j, k>> \in RunId
  BY DEF RunId
<1>c. UNCHANGED <<status, remote, body, newer>> /\ Complete(j) => Complete(j)'
  BY DEF Complete, RowsOf, OpenedFor
<1> USE DEF Goto, TypeOK, NightRow, Rows, Hand, Digests, Sent, InHand, Lossy, Dispatching, Terminal, RunOf
<1>1. CASE j \in Night /\ PlanNight(j)
  BY <1>1, <1>a, <1>0, <1>b, <1>c DEF PlanNight
<1>2. CASE j \in HttpRuns /\ CreateRun(j)
  BY <1>2, <1>a, <1>0, <1>b, RunnerAssumption DEF CreateRun, RunnerAssumption, Night
<1>3. CASE j \in Timed /\ ExpireCtx(j)
  BY <1>3, <1>a, <1>c DEF ExpireCtx
<1>4. CASE j \in Night /\ NightStep(j)
  <2>1. CASE InsertNight(j)
    BY <2>1, <1>4, <1>a, <1>0, <1>b, <1>c DEF InsertNight, Took, Failed, Errored
  <2>2. CASE RecordSnapshot(j)
    BY <2>2, <1>4, <1>a, <1>0, <1>b, <1>c DEF RecordSnapshot, Took, Failed, Errored
  <2>3. CASE CheckSlot(j)
    BY <2>3, <1>4, <1>a, <1>0, <1>b, <1>c DEF CheckSlot, Took, Failed, Errored, HasSlot
  <2>4. CASE FinishNight(j)
    BY <2>4, <1>4, <1>a, <1>0, <1>b, <1>c DEF FinishNight, Took, Failed, Errored
  <2>5. CASE RenderNight(j)
    BY <2>5, <1>4, <1>a, <1>0, <1>b, <1>c DEF RenderNight, Took, Failed, Errored
  <2>6. CASE RenderPRs(j)
    <3>1. posted' = posted /\ ~Sent(j) /\ "file" \notin posted[j] /\ pc'[j] = "file"
      BY <2>6, <1>4, <1>a DEF RenderPRs
    <3>2. ASSUME ~Lossy(j)' PROVE Complete(j)'
      <4>1. /\ ~Lossy(j)
            /\ body'[j] = [runs |-> dispatched[j], prs |-> Newest \cap dispatched[j]]
            /\ UNCHANGED <<status, remote, newer, prs, dispatched>>
        BY <2>6, <3>2, <1>4, <1>a, <1>b DEF RenderPRs, Errored
      <4>2. dispatched[j] = RowsOf(j)
        <5>1. ASSUME NEW x \in RunId, x[1] = j, status[x] # "absent" PROVE x \in dispatched[j]
          <6>1. x[2] \in 1..MaxSlots /\ x = <<j, x[2]>>
            BY <5>1 DEF RunId
          <6> QED
            BY <2>6, <5>1, <6>1, <4>1, <1>4, <1>a DEF RenderPRs
        <5> QED
          BY <5>1, <1>a DEF RowsOf
      <4>3. ASSUME NEW x \in OpenedFor(j) PROVE x \in prs \cap dispatched[j]
        <5>1. x \in RunId /\ x[1] = j /\ remote[x] = "pr"
          BY <4>3 DEF OpenedFor
        <5>2. x[2] \in 1..MaxSlots /\ x = <<j, x[2]>>
          BY <5>1 DEF RunId
        <5>3. status[x] # "absent"
          BY <5>1, <5>2, <1>a
        <5>4. x \in prs
          BY <2>6, <5>1, <5>2, <4>1, <1>a DEF RenderPRs, Loss
        <5> QED
          BY <5>1, <5>3, <5>4, <4>2 DEF RowsOf
      <4>4. ASSUME NEW x \in Newest \cap dispatched[j] PROVE x \in OpenedFor(j)
        <5>1. /\ x \in prs /\ x \in RunId /\ x[1] = j
              /\ x[2] \in 1..MaxSlots /\ x = <<j, x[2]>>
          BY <4>4, <1>a DEF RunId, Newest
        <5> QED
          BY <5>1, <1>a DEF Loss, OpenedFor
      <4>5. \A x \in OpenedFor(j) \ (Newest \cap dispatched[j]) : newer[x] = PRLimit
        <5>1. \A x \in prs : newer[x] \in 0..PRLimit
          BY <1>a
        <5> QED
          BY <4>3, <5>1, RunnerAssumption DEF Newest, RunnerAssumption
      <4>6. RowsOf(j)' = RowsOf(j) /\ OpenedFor(j)' = OpenedFor(j)
        BY <4>1 DEF RowsOf, OpenedFor
      <4>7. \A x \in dispatched[j] : status[x] \in Terminal
        BY <1>a
      <4> QED
        BY <4>1, <4>2, <4>4, <4>5, <4>6, <4>7 DEF Complete
    <3>3. ~Lossy(j)' => ~Lossy(j)
      BY <2>6, <1>a DEF RenderPRs, Errored
    <3> QED
      BY <2>6, <3>1, <3>2, <3>3, <1>4, <1>a DEF RenderPRs
  <2>7. CASE WriteDigest(j)
    <3>1. /\ pc[j] = "file" /\ pc'[j] = "notify"
          /\ UNCHANGED <<status, remote, newer, body, ctx, faults, slot, dispatched>>
          /\ posted'[j] \in {posted[j], posted[j] \cup {"file"}}
      BY <2>7, <1>4, <1>a DEF WriteDigest
    <3>2. ~Sent(j)' /\ (Lossy(j)' <=> Lossy(j))
      BY <3>1, <1>4, <1>a
    <3>3. ~Lossy(j) => Complete(j)'
      BY <3>1, <1>4, <1>a, <1>c
    <3> QED
      BY <3>1, <3>2, <3>3, <1>4, <1>a
  <2>8. CASE Notify(j)
    <3>1. /\ pc[j] = "notify" /\ pc'[j] = "done"
          /\ UNCHANGED <<status, remote, newer, body, ctx, faults, slot, dispatched>>
          /\ "file" \in posted'[j] <=> "file" \in posted[j]
      BY <2>8, <1>4, <1>a DEF Notify, Messages
    <3>2. Sent(j)' => ctx[j] = "live"
      BY <2>8, <1>4, <1>a DEF Notify
    <3>3. ~Lossy(j) => Complete(j)'
      BY <3>1, <1>4, <1>a, <1>c
    <3>4. Sent(j)' /\ faults'[j] = 0 => Complete(j)'
      BY <3>1, <3>2, <3>3
    <3> QED
      BY <3>1, <3>3, <3>4, <1>4, <1>a
  <2> QED
    BY <1>4, <2>1, <2>2, <2>3, <2>4, <2>5, <2>6, <2>7, <2>8 DEF NightStep
<1>5. CASE DispatchStep(j)
  <2>0. ASSUME DispatchStep(j), posted' = posted,
               \A x \in dispatched'[j] : x[1] = j /\ status'[x] \in Terminal,
               j \in Night /\ ~Lossy(j)' => \A k \in 1..MaxSlots :
                  status'[<<j, k>>] # "absent" =>
                     <<j, k>> \in dispatched'[j] \/ InHand(j, k)'
        PROVE  Digests(j)'
    <3>1. pc[j] \in Dispatching
      BY <2>0 DEF DispatchStep, InsertRun, MarkRunning, ProviderRun, MarkTerminal,
                  Land, Annotate, RecordPR, Reload
    <3>2. j \in Night => ~Sent(j)' /\ "file" \notin posted'[j]
      BY <2>0, <3>1, <1>a
    <3>3. pc'[j] \notin {"file", "notify"}
      BY <2>0, <1>a, BackFacts DEF DispatchStep, InsertRun, MarkRunning, ProviderRun,
                  MarkTerminal, AfterTerminal, Land, Annotate, RecordPR, Reload, Took, Failed
    <3> QED
      BY <2>0, <3>2, <3>3
  <2>1. CASE InsertRun(j)
    <3>1. \A x \in dispatched[j] : x \in RunId /\ x # RunOf(j) /\ status'[x] = status[x]
      BY <2>1, <1>a DEF InsertRun
    <3>2. \A x \in dispatched'[j] : x[1] = j /\ status'[x] \in Terminal
      BY <2>1, <3>1, <1>a DEF InsertRun
    <3>3. ASSUME j \in Night, ~Lossy(j)', NEW k \in 1..MaxSlots, status'[<<j, k>>] # "absent"
          PROVE  <<j, k>> \in dispatched'[j] \/ InHand(j, k)'
      <4>1. k # slot[j] => <<j, k>> \in dispatched'[j]
        BY <2>1, <3>3, <1>a, <1>0 DEF InsertRun, Took, Failed, Errored
      <4>2. k = slot[j] => InHand(j, k)'
        BY <2>1, <3>3, <1>a, <1>b, <1>0 DEF InsertRun, Took, Failed, Errored
      <4> QED
        BY <4>1, <4>2
    <3> QED
      BY <2>0, <2>1, <3>2, <3>3, <1>5 DEF InsertRun
  <2>2. CASE MarkRunning(j)
    <3>1. \A x \in dispatched[j] : x \in RunId /\ x # RunOf(j) /\ status'[x] = status[x]
      BY <2>2, <1>a DEF MarkRunning
    <3>2. \A x \in dispatched'[j] : x[1] = j /\ status'[x] \in Terminal
      BY <2>2, <3>1, <1>a DEF MarkRunning
    <3>3. ASSUME j \in Night, ~Lossy(j)', NEW k \in 1..MaxSlots, status'[<<j, k>>] # "absent"
          PROVE  <<j, k>> \in dispatched'[j] \/ InHand(j, k)'
      <4>1. k # slot[j] => <<j, k>> \in dispatched'[j]
        BY <2>2, <3>3, <1>a, <1>0 DEF MarkRunning, Took, Failed, Errored
      <4>2. k = slot[j] => InHand(j, k)'
        BY <2>2, <3>3, <1>a, <1>b, <1>0 DEF MarkRunning, Took, Failed, Errored
      <4> QED
        BY <4>1, <4>2
    <3> QED
      BY <2>0, <2>2, <3>2, <3>3, <1>5 DEF MarkRunning
  <2>3. CASE ProviderRun(j)
    BY <2>3, <1>a, <1>0, <1>b, <1>c, BackFacts DEF ProviderRun, Took, Failed, Errored
  <2>4. CASE MarkTerminal(j)
    <3>1. \A x \in dispatched[j] : x \in RunId /\ x # RunOf(j) /\ status'[x] = status[x]
      BY <2>4, <1>a DEF MarkTerminal
    <3>2. \A x \in dispatched'[j] : x[1] = j /\ status'[x] \in Terminal
      BY <2>4, <3>1, <1>a DEF MarkTerminal
    <3>3. ASSUME j \in Night, ~Lossy(j)', NEW k \in 1..MaxSlots, status'[<<j, k>>] # "absent"
          PROVE  <<j, k>> \in dispatched'[j] \/ InHand(j, k)'
      <4>1. k # slot[j] => <<j, k>> \in dispatched'[j]
        BY <2>4, <3>3, <1>a, <1>0 DEF MarkTerminal, Took, Failed, Errored
      <4>2. k = slot[j] => InHand(j, k)'
        BY <2>4, <3>3, <1>a, <1>b, <1>0 DEF MarkTerminal, Took, Failed, Errored, AfterTerminal
      <4> QED
        BY <4>1, <4>2
    <3> QED
      BY <2>0, <2>4, <3>2, <3>3, <1>5 DEF MarkTerminal
  <2>5. CASE Land(j)
    BY <2>5, <1>a, <1>0, <1>b, <1>c, BackFacts DEF Land, Took, Failed, Errored, Target, Reach
  <2>6. CASE Annotate(j)
    BY <2>6, <1>a, <1>0, <1>b, <1>c, BackFacts DEF Annotate, Took, Failed, Errored
  <2>7. CASE RecordPR(j)
    BY <2>7, <1>a, <1>0, <1>b, <1>c, BackFacts DEF RecordPR, Took, Failed, Errored
  <2>8. CASE Reload(j)
    <3>0. dispatched'[j] \in {dispatched[j], dispatched[j] \cup {RunOf(j)}}
      BY <2>8, <1>a DEF Reload
    <3>1. \A x \in dispatched'[j] : x[1] = j /\ status'[x] \in Terminal
      <4>1. RunOf(j)[1] = j /\ status[RunOf(j)] \in Terminal /\ status' = status
        BY <2>8, <1>a DEF Reload
      <4>2. \A x \in dispatched[j] : x[1] = j /\ status[x] \in Terminal
        BY <1>a
      <4> HIDE DEF TypeOK, Digests, Rows, Hand, NightRow, Terminal, RunOf
      <4> QED
        BY <3>0, <4>1, <4>2
    <3>2. ASSUME j \in Night, ~Lossy(j)', NEW k \in 1..MaxSlots, status'[<<j, k>>] # "absent"
          PROVE  <<j, k>> \in dispatched'[j]
      <4>1. dispatched' = [dispatched EXCEPT ![j] = @ \cup {RunOf(j)}]
        BY <2>8, <3>2, <1>a, <1>b DEF Reload, Failed, Errored
      <4>2. ~Lossy(j)
        BY <2>8, <3>2, <1>a DEF Reload, Failed, Errored
      <4> QED
        BY <2>8, <3>2, <4>1, <4>2, <1>a DEF Reload
    <3> QED
      BY <2>0, <2>8, <3>1, <3>2, <1>5 DEF Reload
  <2> QED
    BY <1>5, <2>1, <2>2, <2>3, <2>4, <2>5, <2>6, <2>7, <2>8 DEF DispatchStep
<1> QED
  BY <1>1, <1>2, <1>3, <1>4, <1>5 DEF JobStep

LEMMA CrashDigests ==
  ASSUME IInv, Crash, NEW j \in Job
  PROVE  Digests(j)'
<1> USE DEF IInv, LossInv, CoreInv
<1>1. /\ pc'[j] = IF pc[j] \in Working THEN "dead" ELSE pc[j]
      /\ UNCHANGED <<nights, status, newer, slot, ctx, faults, dispatched, body, posted>>
  BY CrashFacts DEF ledger
<1>2. \A k \in 1..MaxSlots : InHand(j, k) => InHand(j, k)'
  BY <1>1 DEF InHand, Working, Dispatching
<1>3. pc'[j] \notin {"file", "notify"}
  BY <1>1 DEF Working
<1>4. j \in Night /\ (Sent(j) \/ "file" \in posted[j]) /\ Complete(j) => Complete(j)'
  <2> SUFFICES ASSUME j \in Night, Sent(j) \/ "file" \in posted[j], Complete(j)
               PROVE  Complete(j)'
    OBVIOUS
  <2>0. pc[j] # "land"
    BY DEF NightRow, Sent, Digests
  <2>1. ASSUME NEW x \in RunId, x[1] = j PROVE remote'[x] = remote[x]
    <3>1. x[2] \in 1..MaxSlots /\ x = <<j, x[2]>>
      BY <2>1 DEF RunId
    <3> QED
      BY <2>0, <3>1, CrashFacts
  <2>2. OpenedFor(j)' = OpenedFor(j) /\ RowsOf(j)' = RowsOf(j)
    BY <1>1, <2>1 DEF OpenedFor, RowsOf
  <2> QED
    BY <1>1, <2>2 DEF Complete
<1> QED
  BY <1>1, <1>2, <1>3, <1>4 DEF Digests, Sent, Lossy

LEMMA NextIInv == IInv /\ [Next]_vars => IInv'
<1> SUFFICES ASSUME IInv, [Next]_vars PROVE IInv'
  OBVIOUS
<1>1. LossInv'
  BY NextLoss DEF IInv
<1> SUFFICES ASSUME NEW j \in Job PROVE Digests(j)'
  BY <1>1 DEF IInv
<1>2. CASE \E i \in Job : JobStep(i)
  <2> PICK i \in Job : JobStep(i)
    BY <1>2
  <2>1. CASE j = i
    BY <2>1, <1>1, OwnDigests
  <2>2. CASE j # i
    BY <2>2, OthersSame, SameDigests DEF IInv, LossInv, CoreInv
  <2> QED
    BY <2>1, <2>2
<1>3. CASE Crash
  BY <1>3, CrashDigests
<1>4. CASE Rest \/ UNCHANGED vars
  BY <1>4 DEF Rest, vars, ledger, progress, digest, IInv, Digests, Sent, Complete, RowsOf, OpenedFor,
              InHand, Lossy
<1> QED
  BY <1>2, <1>3, <1>4 DEF Next, JobStep, Job, Night, Timed

LEMMA Inductive == Spec => []IInv
<1>1. Init => IInv
  <2> SUFFICES ASSUME Init PROVE IInv
    OBVIOUS
  <2>1. \A j \in Job, k \in 1..MaxSlots : <<j, k>> \in RunId
    BY DEF RunId
  <2>2. ASSUME NEW j \in Job PROVE Loss(j) /\ Digests(j)
    BY <2>1 DEF Init, Loss, Digests, Sent
  <2> QED
    BY <2>2, InitCore DEF IInv, LossInv
<1> QED
  BY <1>1, NextIInv, PTL DEF Spec

(* What was posted of a night that lost no call is the truth as far as it    *)
(* goes: a file or an untruncated message lists every run row, settled, and  *)
(* every pull request but those PRLimit others were opened after; the title  *)
(* of a truncated message counts the runs right (night.go:109-156,           *)
(* slack.go:47-58).                                                          *)
THEOREM DigestsAreComplete == Spec => []DigestComplete
<1>1. IInv => DigestComplete
  <2> SUFFICES ASSUME IInv, NEW n \in Night,
                      ~Lossy(n) \/ (faults[n] = 0 /\ posted[n] \cap {"slack", "cut"} # {})
               PROVE  /\ posted[n] \cap {"file", "slack"} # {} => Complete(n)
                      /\ "cut" \in posted[n] => Cardinality(body[n].runs) = Cardinality(RowsOf(n))
    BY DEF DigestComplete
  <2>1. Digests(n)
    BY DEF IInv, Job
  <2>2. Sent(n) \/ "file" \in posted[n] => Complete(n)
    BY <2>1 DEF Digests, Sent, Lossy, IInv, LossInv, CoreInv, TypeOK, Job
  <2> QED
    BY <2>2 DEF Sent, Complete
<1> QED
  BY <1>1, Inductive, PTL

-------------------------------------------------------------------------------
(* How many runs can be left behind.                                         *)

(* The one run the end of a context may cost: none while Dispatch holds it,  *)
(* because the loop starts no run once its context is done.                  *)
Slack(j) == IF ctx[j] = "done" /\ pc[j] \notin Dispatching THEN 1 ELSE 0

Bound(j) == Cardinality(Abandoned(j)) <= faults[j] + Slack(j)

BoundInv == CoreInv /\ \A j \in Job : Bound(j)

LEMMA AbandonedFinite ==
  ASSUME NEW j \in Job
  PROVE  /\ IsFiniteSet(Abandoned(j)) /\ Cardinality(Abandoned(j)) \in Nat
         /\ IsFiniteSet(Abandoned(j)') /\ Cardinality(Abandoned(j)') \in Nat
<1>1. IsFiniteSet(1..MaxSlots)
  BY FS_Interval, RunnerAssumption DEF RunnerAssumption
<1>2. Abandoned(j) \in SUBSET (1..MaxSlots) /\ Abandoned(j)' \in SUBSET (1..MaxSlots)
  BY DEF Abandoned
<1>3. IsFiniteSet(Abandoned(j)) /\ IsFiniteSet(Abandoned(j)')
  BY <1>1, <1>2, FS_Subset
<1> QED
  BY <1>3, FS_CardinalityType

(* A step that abandons nothing new keeps the bound.                         *)
LEMMA NothingAbandoned ==
  ASSUME TypeOK, TypeOK', NEW j \in Job, Bound(j),
         Abandoned(j)' \subseteq Abandoned(j),
         faults'[j] + Slack(j)' >= faults[j] + Slack(j)
  PROVE  Bound(j)'
<1>1. Cardinality(Abandoned(j)') <= Cardinality(Abandoned(j))
  BY AbandonedFinite, FS_Subset
<1>2. faults[j] \in Nat /\ faults'[j] \in Nat /\ Slack(j) \in 0..1 /\ Slack(j)' \in 0..1
  BY DEF TypeOK, Slack
<1>3. Cardinality(Abandoned(j)') <= faults'[j] + Slack(j)'
  BY <1>1, <1>2, AbandonedFinite DEF Bound
<1> QED
  BY <1>3 DEF Bound

(* A step that abandons the run in hand pays for it.                         *)
LEMMA OneAbandoned ==
  ASSUME TypeOK, TypeOK', NEW j \in Job, Bound(j), NEW k,
         Abandoned(j)' \subseteq Abandoned(j) \cup {k},
         faults'[j] + Slack(j)' >= faults[j] + Slack(j) + 1
  PROVE  Bound(j)'
<1>1. Cardinality(Abandoned(j)') <= Cardinality(Abandoned(j)) + 1
  <2>1. /\ IsFiniteSet(Abandoned(j) \cup {k})
        /\ Cardinality(Abandoned(j) \cup {k}) <= Cardinality(Abandoned(j)) + 1
    BY AbandonedFinite, FS_AddElement
  <2>2. Cardinality(Abandoned(j) \cup {k}) \in Nat
    BY <2>1, FS_CardinalityType
  <2>3. Cardinality(Abandoned(j)') <= Cardinality(Abandoned(j) \cup {k})
    BY <2>1, FS_Subset
  <2> QED
    BY <2>1, <2>2, <2>3, AbandonedFinite
<1>2. faults[j] \in Nat /\ faults'[j] \in Nat /\ Slack(j) \in 0..1 /\ Slack(j)' \in 0..1
  BY DEF TypeOK, Slack
<1>3. Cardinality(Abandoned(j)') <= faults'[j] + Slack(j)'
  BY <1>1, <1>2, AbandonedFinite DEF Bound
<1> QED
  BY <1>3 DEF Bound

LEMMA SameBound ==
  ASSUME NEW j \in Job, Bound(j), Same(j)
  PROVE  Bound(j)'
<1>1. Abandoned(j)' = Abandoned(j)
  BY DEF Abandoned, InHand, Same
<1>2. faults'[j] = faults[j] /\ Slack(j)' = Slack(j)
  BY DEF Slack, Same
<1> QED
  BY <1>1, <1>2 DEF Bound

(* Outside Dispatch nothing is abandoned, and a run is only begun under a    *)
(* live context.                                                             *)
LEMMA OutsideBound ==
  ASSUME BoundInv, CoreInv', NEW j \in Job, JobStep(j), pc[j] \notin Dispatching
  PROVE  Bound(j)'
<1> USE DEF ledger, progress, digest
<1>0. TypeOK /\ TypeOK' /\ Rows(j) /\ Rows(j)' /\ Bound(j)
  BY DEF BoundInv, CoreInv
<1>1. UNCHANGED status /\ (slot'[j] = slot[j] \/ pc[j] \in {"loop", "idle"})
  BY DEF JobStep, PlanNight, CreateRun, ExpireCtx, NightStep, DispatchStep,
         InsertNight, RecordSnapshot, CheckSlot, FinishNight, RenderNight, RenderPRs,
         WriteDigest, Notify, Dispatching, InsertRun, MarkRunning, ProviderRun,
         MarkTerminal, Land, Annotate, RecordPR, Reload
<1>2. pc[j] # "dead"
  BY DEF JobStep, PlanNight, CreateRun, ExpireCtx, NightStep, DispatchStep,
         InsertNight, RecordSnapshot, CheckSlot, FinishNight, RenderNight, RenderPRs,
         WriteDigest, Notify, Dispatching, InsertRun, MarkRunning, ProviderRun,
         MarkTerminal, Land, Annotate, RecordPR, Reload, Working
<1>3. Abandoned(j)' \subseteq Abandoned(j)
  BY <1>1, <1>2 DEF Abandoned, InHand
<1>4. faults'[j] \in Nat /\ faults[j] \in Nat /\ faults'[j] >= faults[j]
  <2>1. UNCHANGED faults \/ Errored(j)
    BY DEF JobStep, PlanNight, CreateRun, ExpireCtx, NightStep, DispatchStep,
         InsertNight, RecordSnapshot, CheckSlot, FinishNight, RenderNight, RenderPRs,
         WriteDigest, Notify, Dispatching, InsertRun, MarkRunning, ProviderRun,
         MarkTerminal, Land, Annotate, RecordPR, Reload, Took, Failed
  <2> QED
    BY <1>0, <2>1, ErroredFacts DEF TypeOK
<1>5. Slack(j)' >= Slack(j)
  <2>0. ctx[j] = "done" => ctx'[j] = "done"
    BY <1>0
    DEF JobStep, PlanNight, CreateRun, ExpireCtx, NightStep, DispatchStep,
         InsertNight, RecordSnapshot, CheckSlot, FinishNight, RenderNight, RenderPRs,
         WriteDigest, Notify, Dispatching, InsertRun, MarkRunning, ProviderRun,
         MarkTerminal, Land, Annotate, RecordPR, Reload, Took, Failed, Errored, TypeOK
  <2>1. CASE pc'[j] \in Dispatching
    <3>1. ctx[j] = "live"
      BY <2>1, <1>0
      DEF JobStep, PlanNight, CreateRun, ExpireCtx, NightStep, DispatchStep,
         InsertNight, RecordSnapshot, CheckSlot, FinishNight, RenderNight, RenderPRs,
         WriteDigest, Notify, Dispatching, InsertRun, MarkRunning, ProviderRun,
         MarkTerminal, Land, Annotate, RecordPR, Reload, Took, Failed, Goto, TypeOK, Rows
    <3> QED
      BY <3>1 DEF Slack
  <2>2. CASE pc'[j] \notin Dispatching
    BY <2>0, <2>2 DEF Slack
  <2> QED
    BY <2>1, <2>2
<1> QED
  BY <1>0, <1>3, <1>4, <1>5, NothingAbandoned DEF Slack

(* Inside Dispatch only the run in hand can be abandoned, and only by a call *)
(* that failed or lost its answer.                                           *)
LEMMA InsideBound ==
  ASSUME BoundInv, CoreInv', NEW j \in Job, JobStep(j), pc[j] \in Dispatching
  PROVE  Bound(j)'
<1> USE DEF ledger, progress, digest
<1>0. TypeOK /\ TypeOK' /\ Hand(j) /\ Bound(j) /\ Slack(j) = 0
  BY DEF BoundInv, CoreInv, Slack
<1>n. faults[j] \in Nat /\ faults'[j] \in Nat /\ Slack(j)' \in 0..1
  BY <1>0 DEF TypeOK, Slack
<1>1. CASE j \in Timed /\ ExpireCtx(j)
  <2>1. Abandoned(j)' = Abandoned(j)
    BY <1>1 DEF ExpireCtx, Abandoned, InHand
  <2>2. faults'[j] = faults[j]
    BY <1>1 DEF ExpireCtx
  <2> QED
    BY <1>0, <1>n, <2>1, <2>2, NothingAbandoned
<1>2. CASE DispatchStep(j)
  <2>1. /\ slot'[j] = slot[j]
        /\ \A k \in 1..MaxSlots : k # slot[j] => status'[<<j, k>>] = status[<<j, k>>]
    BY <1>0, <1>2 DEF DispatchStep, InsertRun, MarkRunning, ProviderRun, MarkTerminal,
       Land, Annotate, RecordPR, Reload, RunOf, RunId, TypeOK
  <2>2. Abandoned(j)' \subseteq Abandoned(j) \cup {slot[j]}
    BY <2>1 DEF Abandoned, InHand
  <2>3. CASE pc'[j] \in Dispatching \/ status'[RunOf(j)] \notin {"queued", "running"}
    <3>1. Abandoned(j)' \subseteq Abandoned(j)
      BY <2>1, <2>2, <2>3 DEF Abandoned, InHand, RunOf
    <3>2. faults'[j] >= faults[j]
      <4>1. UNCHANGED faults \/ Errored(j)
        BY <1>2 DEF DispatchStep, InsertRun, MarkRunning, ProviderRun, MarkTerminal,
           Land, Annotate, RecordPR, Reload, Took, Failed
      <4> QED
        BY <1>0, <1>n, <4>1, ErroredFacts
    <3> QED
      BY <1>0, <1>n, <3>1, <3>2, NothingAbandoned
  <2>4. CASE pc'[j] \notin Dispatching /\ status'[RunOf(j)] \in {"queued", "running"}
    <3>1. \/ InsertRun(j) /\ (Took(j, "mark", Back(j)) \/ Failed(j, Back(j)))
          \/ MarkRunning(j)
          \/ MarkTerminal(j) /\ (Took(j, AfterTerminal(j), Back(j)) \/ Failed(j, Back(j)))
      BY <1>0, <1>2, <2>4
      DEF DispatchStep, InsertRun, ProviderRun, MarkTerminal, Land, Annotate, RecordPR,
          Reload, Hand, Terminal, Dispatching, Goto, TypeOK
    <3>2. faults'[j] + Slack(j)' >= faults[j] + 1
      <4>1. ASSUME NEW ok \in Label, ok \in Dispatching, Took(j, ok, Back(j))
            PROVE  faults'[j] = faults[j] /\ ctx'[j] = "done"
        BY <1>0, <2>4, <4>1, TookFacts, BackFacts
      <4>2. ASSUME Failed(j, Back(j))
            PROVE  \/ ctx'[j] = "done" /\ faults'[j] = faults[j]
                   \/ faults'[j] = faults[j] + 1
        BY <1>0, <4>2, FailedFacts, BackFacts
      <4>3. {"mark", "provider", AfterTerminal(j)} \subseteq Dispatching
        BY DEF AfterTerminal, Dispatching
      <4>4. Dispatching \subseteq Label
        BY DEF Label, Working
      <4> QED
        BY <1>n, <2>4, <3>1, <4>1, <4>2, <4>3, <4>4 DEF MarkRunning, Slack
    <3> QED
      BY <1>0, <1>n, <2>2, <3>2, OneAbandoned
  <2> QED
    BY <2>3, <2>4
<1> QED
  BY <1>1, <1>2
  DEF JobStep, NightStep, PlanNight, CreateRun, InsertNight, RecordSnapshot, CheckSlot,
      FinishNight, RenderNight, RenderPRs, WriteDigest, Notify, Dispatching

LEMMA CrashBound ==
  ASSUME BoundInv, CoreInv', Crash, NEW j \in Job
  PROVE  Bound(j)'
<1>1. /\ pc'[j] = IF pc[j] \in Working THEN "dead" ELSE pc[j]
      /\ UNCHANGED <<status, slot, ctx, faults>>
  BY CrashFacts DEF ledger, BoundInv
<1>2. Abandoned(j)' \subseteq Abandoned(j)
  BY <1>1 DEF Abandoned, InHand, Working, Dispatching
<1>3. faults'[j] = faults[j] /\ faults[j] \in Nat /\ Slack(j)' >= Slack(j)
  BY <1>1 DEF Slack, Working, Dispatching, BoundInv, CoreInv, TypeOK
<1> QED
  BY <1>2, <1>3, NothingAbandoned DEF BoundInv, CoreInv, Slack

(* A job leaves behind at most one live run per failed call, and one more if *)
(* its context ended, however long its plan (night.go:79-100,                *)
(* runner.go:89-140).                                                        *)
THEOREM LossesAreBounded == Spec => []LossBounded
<1>1. Init => BoundInv
  <2> SUFFICES ASSUME Init, NEW j \in Job PROVE Bound(j)
    BY InitCore DEF BoundInv
  <2>1. Abandoned(j) = {}
    BY DEF Init, Abandoned, RunId
  <2> QED
    BY <2>1, FS_EmptySet DEF Init, Bound, Slack
<1>2. BoundInv /\ [Next]_vars => BoundInv'
  <2> SUFFICES ASSUME BoundInv, [Next]_vars PROVE BoundInv'
    OBVIOUS
  <2>1. CoreInv'
    BY NextCore DEF BoundInv
  <2> SUFFICES ASSUME NEW j \in Job PROVE Bound(j)'
    BY <2>1 DEF BoundInv
  <2>2. CASE \E i \in Job : JobStep(i)
    <3> PICK i \in Job : JobStep(i)
      BY <2>2
    <3>1. CASE j = i
      BY <2>1, <3>1, OutsideBound, InsideBound
    <3>2. CASE j # i
      BY <3>2, OthersSame, SameBound DEF BoundInv, CoreInv
    <3> QED
      BY <3>1, <3>2
  <2>3. CASE Crash
    BY <2>1, <2>3, CrashBound
  <2>4. CASE Rest \/ UNCHANGED vars
    BY <2>4 DEF Rest, vars, ledger, progress, BoundInv, Bound, Abandoned, InHand, Slack
  <2> QED
    BY <2>2, <2>3, <2>4 DEF Next, JobStep, Job, Night, Timed
<1>3. BoundInv => LossBounded
  <2> SUFFICES ASSUME BoundInv, NEW j \in Job
               PROVE  Cardinality(Abandoned(j)) <= faults[j] + (IF ctx[j] = "done" THEN 1 ELSE 0)
    BY DEF LossBounded
  <2> QED
    BY AbandonedFinite DEF BoundInv, Bound, Slack, CoreInv, TypeOK
<1> QED
  BY <1>1, <1>2, <1>3, PTL DEF Spec
====
