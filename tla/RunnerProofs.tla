----------------------------- MODULE RunnerProofs -----------------------------
(***************************************************************************)
(* Machine-checked proofs about Runner.tla, for any sets of jobs and any   *)
(* value of the bounds.                                                    *)
(***************************************************************************)
EXTENDS Runner, TLAPS

-------------------------------------------------------------------------------
(* How a call of a job may end.                                              *)

LEMMA TookFacts ==
  ASSUME TypeOK, NEW j \in Job, NEW ok \in Label, NEW err \in Label,
         Took(j, ok, err)
  PROVE  /\ pc' \in [Job -> Label]
         /\ ctx' \in [Job -> {"live", "done"}]
         /\ faults' = faults
         /\ ctx[j] = "live"
         /\ \/ pc'[j] = ok /\ ctx'[j] = "live"
            \/ pc'[j] = err /\ ctx'[j] = "done"
         /\ \A i \in Job \ {j} : pc'[i] = pc[i] /\ ctx'[i] = ctx[i]
<1>1. CASE pc' = [pc EXCEPT ![j] = ok] /\ UNCHANGED ctx
  BY <1>1 DEF TypeOK, Took
<1>2. CASE ctx' = [ctx EXCEPT ![j] = "done"] /\ pc' = [pc EXCEPT ![j] = err]
  BY <1>2 DEF TypeOK, Took
<1> QED
  BY <1>1, <1>2 DEF Took, Goto

LEMMA ErroredFacts ==
  ASSUME TypeOK, NEW j \in Job, Errored(j)
  PROVE  /\ ctx' = ctx
         /\ faults' \in [Job -> 0..MaxFaults]
         /\ \/ ctx[j] = "done" /\ faults' = faults
            \/ faults'[j] = faults[j] + 1
         /\ \A i \in Job \ {j} : faults'[i] = faults[i]
<1>1. CASE ctx[j] = "done" /\ UNCHANGED faults
  BY <1>1 DEF TypeOK, Errored
<1>2. CASE faults[j] < MaxFaults /\ faults' = [faults EXCEPT ![j] = @ + 1]
  <2>1. faults[j] + 1 \in 0..MaxFaults
    BY <1>2, RunnerAssumption DEF TypeOK, RunnerAssumption
  <2> QED
    BY <1>2, <2>1 DEF TypeOK, Errored
<1> QED
  BY <1>1, <1>2 DEF Errored

LEMMA FailedFacts ==
  ASSUME TypeOK, NEW j \in Job, NEW err \in Label, Failed(j, err)
  PROVE  /\ pc' \in [Job -> Label]
         /\ pc'[j] = err
         /\ \A i \in Job \ {j} : pc'[i] = pc[i]
         /\ ctx' = ctx
         /\ faults' \in [Job -> 0..MaxFaults]
         /\ \/ ctx[j] = "done" /\ faults' = faults
            \/ faults'[j] = faults[j] + 1
         /\ \A i \in Job \ {j} : faults'[i] = faults[i]
BY ErroredFacts DEF TypeOK, Failed, Goto

LEMMA BackFacts ==
  ASSUME NEW j \in Job
  PROVE  /\ Back(j) \in {"loop", "done"}
         /\ Back(j) \in Label
         /\ Back(j) \notin Dispatching \cup {"dead"}
         /\ j \in Night => Back(j) = "loop"
BY RunnerAssumption DEF RunnerAssumption, Back, Label, Working, Dispatching, Night

-------------------------------------------------------------------------------
(* Types.                                                                    *)

(* Neither outcome of a call leaves the types. *)
LEMMA CallTypes ==
  ASSUME TypeOK, NEW j \in Job, NEW ok \in Label, NEW err \in Label,
         Took(j, ok, err) \/ Failed(j, err),
         slot' = slot,
         RunOf(j) \in RunId \/ (ok \notin Dispatching /\ err \notin Dispatching)
  PROVE  /\ pc' \in [Job -> Label]
         /\ ctx' \in [Job -> {"live", "done"}]
         /\ faults' \in [Job -> 0..MaxFaults]
         /\ \A i \in Job : pc'[i] \in Dispatching => RunOf(i)' \in RunId
<1>1. CASE Took(j, ok, err)
  <2>1. /\ pc' \in [Job -> Label]
        /\ ctx' \in [Job -> {"live", "done"}]
        /\ faults' = faults
        /\ pc'[j] \in {ok, err}
        /\ \A i \in Job \ {j} : pc'[i] = pc[i]
    BY <1>1, TookFacts
  <2>2. faults' \in [Job -> 0..MaxFaults]
    BY <2>1 DEF TypeOK
  <2>3. ASSUME NEW i \in Job, pc'[i] \in Dispatching PROVE RunOf(i)' \in RunId
    <3>1. CASE i = j
      BY <2>1, <2>3, <3>1 DEF TypeOK, RunOf
    <3>2. CASE i # j
      BY <2>1, <2>3, <3>2 DEF TypeOK, RunOf
    <3> QED
      BY <3>1, <3>2
  <2> QED
    BY <2>1, <2>2, <2>3
<1>2. CASE Failed(j, err)
  <2>1. /\ pc' \in [Job -> Label] /\ ctx' = ctx
        /\ faults' \in [Job -> 0..MaxFaults]
        /\ pc'[j] = err
        /\ \A i \in Job \ {j} : pc'[i] = pc[i]
    BY <1>2, FailedFacts
  <2>2. ctx \in [Job -> {"live", "done"}]
    BY DEF TypeOK
  <2>3. ASSUME NEW i \in Job, pc'[i] \in Dispatching PROVE RunOf(i)' \in RunId
    <3>1. CASE i = j
      BY <2>1, <2>3, <3>1 DEF TypeOK, RunOf
    <3>2. CASE i # j
      BY <2>1, <2>3, <3>2 DEF TypeOK, RunOf
    <3> QED
      BY <3>1, <3>2
  <2> QED
    BY <2>1, <2>2, <2>3
<1> QED
  BY <1>1, <1>2

(* Every step keeps every variable in its type; in particular the loop never *)
(* takes a slot past the plan (night.go:79-100).                             *)
LEMMA NextTypeOK == TypeOK /\ [Next]_vars => TypeOK'
<1> SUFFICES ASSUME TypeOK, [Next]_vars PROVE TypeOK'
  OBVIOUS
<1> USE DEF ledger, progress, digest
<1>0. Night \subseteq Job /\ HttpRuns \subseteq Job /\ Timed \subseteq Job
  BY DEF Job, Night, Timed
<1>1. ASSUME NEW j \in Night, PlanNight(j) PROVE TypeOK'
  <2>1. pc' \in [Job -> Label]
    BY <1>0, <1>1 DEF TypeOK, PlanNight, Goto, Label, Working
  <2>0. slots' \in [Job -> 0..MaxSlots]
    BY <1>0, <1>1 DEF TypeOK, PlanNight
  <2>2. \A i \in Job : pc'[i] \in Dispatching => RunOf(i)' \in RunId
    BY <1>0, <1>1 DEF TypeOK, PlanNight, Goto, Dispatching, RunOf
  <2> QED
    BY <1>1, <2>0, <2>1, <2>2 DEF TypeOK, PlanNight
<1>2. ASSUME NEW j \in HttpRuns, CreateRun(j) PROVE TypeOK'
  <2>1. 1 \in 0..MaxSlots /\ 1 \in 1..MaxSlots
    BY RunnerAssumption DEF RunnerAssumption
  <2>2. /\ pc' \in [Job -> Label]
        /\ slots' \in [Job -> 0..MaxSlots]
        /\ slot' \in [Job -> 0..MaxSlots]
    BY <1>0, <1>2, <2>1 DEF TypeOK, CreateRun, Goto, Label, Working, Dispatching
  <2>3. \A i \in Job : pc'[i] \in Dispatching => RunOf(i)' \in RunId
    BY <1>0, <1>2, <2>1 DEF TypeOK, CreateRun, Goto, RunOf, RunId
  <2> QED
    BY <1>2, <2>2, <2>3 DEF TypeOK, CreateRun
<1>3. ASSUME NEW j \in Night, NightStep(j) PROVE TypeOK'
  <2> j \in Job
    BY <1>0
  <2>1. CASE InsertNight(j)
    <3>1. /\ pc' \in [Job -> Label]
          /\ ctx' \in [Job -> {"live", "done"}]
          /\ faults' \in [Job -> 0..MaxFaults]
          /\ \A i \in Job : pc'[i] \in Dispatching => RunOf(i)' \in RunId
      BY <2>1, CallTypes DEF InsertNight, Label, Working, Dispatching
    <3>2. nights' \in [Night -> {"absent", "open", "finished"}]
      BY <2>1 DEF InsertNight, TypeOK
    <3> QED
      BY <2>1, <3>1, <3>2 DEF InsertNight, TypeOK
  <2>2. CASE RecordSnapshot(j)
    <3>1. /\ pc' \in [Job -> Label]
          /\ ctx' \in [Job -> {"live", "done"}]
          /\ faults' \in [Job -> 0..MaxFaults]
          /\ \A i \in Job : pc'[i] \in Dispatching => RunOf(i)' \in RunId
      BY <2>2, CallTypes DEF RecordSnapshot, Label, Working, Dispatching
    <3> QED
      BY <2>2, <3>1 DEF RecordSnapshot, TypeOK
  <2>3. CASE CheckSlot(j)
    <3>1. CASE HasSlot(j) /\ ctx[j] = "live"
      <4>1. slot[j] + 1 \in 1..MaxSlots
        BY <3>1, RunnerAssumption DEF HasSlot, TypeOK, RunnerAssumption
      <4>2. /\ slot' = [slot EXCEPT ![j] = slot[j] + 1]
            /\ pc' = [pc EXCEPT ![j] = "insert"]
        BY <2>3, <3>1 DEF CheckSlot, Goto
      <4>3. /\ slot' \in [Job -> 0..MaxSlots]
            /\ pc' \in [Job -> Label]
        BY <4>1, <4>2 DEF TypeOK, Label, Working, Dispatching
      <4>4. \A i \in Job : pc'[i] \in Dispatching => RunOf(i)' \in RunId
        BY <4>1, <4>2 DEF TypeOK, RunOf, RunId
      <4> QED
        BY <2>3, <4>3, <4>4 DEF CheckSlot, TypeOK
    <3>2. CASE ~(HasSlot(j) /\ ctx[j] = "live")
      <4>1. pc' \in [Job -> Label]
        BY <2>3, <3>2 DEF CheckSlot, Goto, TypeOK, Label, Working
      <4>2. \A i \in Job : pc'[i] \in Dispatching => RunOf(i)' \in RunId
        BY <2>3, <3>2 DEF CheckSlot, Goto, TypeOK, RunOf, Dispatching
      <4> QED
        BY <2>3, <3>2, <4>1, <4>2 DEF CheckSlot, TypeOK
    <3> QED
      BY <3>1, <3>2
  <2>4. CASE FinishNight(j)
    <3>1. /\ pc' \in [Job -> Label]
          /\ ctx' \in [Job -> {"live", "done"}]
          /\ faults' \in [Job -> 0..MaxFaults]
          /\ \A i \in Job : pc'[i] \in Dispatching => RunOf(i)' \in RunId
      BY <2>4, CallTypes DEF FinishNight, Label, Working, Dispatching
    <3>2. nights' \in [Night -> {"absent", "open", "finished"}]
      BY <2>4 DEF FinishNight, TypeOK
    <3> QED
      BY <2>4, <3>1, <3>2 DEF FinishNight, TypeOK
  <2>5. CASE RenderNight(j)
    <3>1. pc' \in [Job -> Label] /\ ctx' = ctx /\ faults' \in [Job -> 0..MaxFaults]
      BY <2>5, FailedFacts DEF RenderNight, Goto, TypeOK, Label, Working
    <3>2. \A i \in Job : pc'[i] \in Dispatching => RunOf(i)' \in RunId
      BY <2>5 DEF RenderNight, Failed, Goto, TypeOK, RunOf, Dispatching
    <3> QED
      BY <2>5, <3>1, <3>2 DEF RenderNight, TypeOK
  <2>6. CASE RenderPRs(j)
    <3>1. pc' \in [Job -> Label] /\ ctx' = ctx /\ faults' \in [Job -> 0..MaxFaults]
      BY <2>6, ErroredFacts DEF RenderPRs, Goto, TypeOK, Label, Working
    <3>2. \A i \in Job : pc'[i] \in Dispatching => RunOf(i)' \in RunId
      BY <2>6 DEF RenderPRs, Goto, TypeOK, RunOf, Dispatching
    <3>3. body' \in [Night -> [runs : SUBSET RunId, prs : SUBSET RunId]]
      BY <2>6 DEF RenderPRs, TypeOK
    <3> QED
      BY <2>6, <3>1, <3>2, <3>3 DEF RenderPRs, TypeOK
  <2>7. CASE WriteDigest(j)
    <3>1. pc' \in [Job -> Label]
      BY <2>7 DEF WriteDigest, Goto, TypeOK, Label, Working
    <3>3. posted' \in [Night -> SUBSET {"file", "slack", "cut"}]
      BY <2>7 DEF WriteDigest, TypeOK
    <3>2. \A i \in Job : pc'[i] \in Dispatching => RunOf(i)' \in RunId
      BY <2>7 DEF WriteDigest, Goto, TypeOK, RunOf, Dispatching
    <3> QED
      BY <2>7, <3>1, <3>2, <3>3 DEF WriteDigest, TypeOK
  <2>8. CASE Notify(j)
    <3>1. pc' \in [Job -> Label]
      BY <2>8 DEF Notify, Messages, Goto, TypeOK, Label
    <3>3. posted' \in [Night -> SUBSET {"file", "slack", "cut"}]
      BY <2>8 DEF Notify, Messages, TypeOK
    <3>2. \A i \in Job : pc'[i] \in Dispatching => RunOf(i)' \in RunId
      BY <2>8 DEF Notify, Messages, Goto, TypeOK, RunOf, Dispatching
    <3> QED
      BY <2>8, <3>1, <3>2, <3>3 DEF Notify, Messages, TypeOK
  <2> QED
    BY <1>3, <2>1, <2>2, <2>3, <2>4, <2>5, <2>6, <2>7, <2>8 DEF NightStep
<1>4. ASSUME NEW j \in Job, DispatchStep(j) PROVE TypeOK'
  <2>0. RunOf(j) \in RunId
    BY <1>4 DEF TypeOK, Dispatching, DispatchStep, InsertRun, MarkRunning, ProviderRun,
                MarkTerminal, Land, Annotate, RecordPR, Reload
  <2>1. CASE InsertRun(j)
    <3>0. CASE Goto(j, Back(j)) /\ UNCHANGED <<status, ctx, faults>>
      <4>1. pc' \in [Job -> Label] /\ pc'[j] \notin Dispatching
        BY <3>0, BackFacts DEF Goto, TypeOK
      <4>2. \A i \in Job : pc'[i] \in Dispatching => RunOf(i)' \in RunId
        BY <2>1, <3>0, <4>1 DEF InsertRun, Goto, TypeOK, RunOf
      <4> QED
        BY <2>1, <3>0, <4>1, <4>2 DEF InsertRun, TypeOK
    <3>1. CASE Took(j, "mark", Back(j)) \/ Failed(j, Back(j))
      <4>1. /\ pc' \in [Job -> Label]
            /\ ctx' \in [Job -> {"live", "done"}]
            /\ faults' \in [Job -> 0..MaxFaults]
            /\ \A i \in Job : pc'[i] \in Dispatching => RunOf(i)' \in RunId
        BY <2>0, <2>1, <3>1, CallTypes, BackFacts DEF InsertRun, Label, Working, Dispatching
      <4>2. status' \in [RunId -> {"absent", "queued", "running"} \cup Terminal]
        BY <2>1 DEF InsertRun, TypeOK
      <4> QED
        BY <2>1, <4>1, <4>2 DEF InsertRun, TypeOK
    <3> QED
      BY <2>1, <3>0, <3>1 DEF InsertRun
  <2>2. CASE MarkRunning(j)
    <3>1. /\ pc' \in [Job -> Label]
          /\ ctx' \in [Job -> {"live", "done"}]
          /\ faults' \in [Job -> 0..MaxFaults]
          /\ \A i \in Job : pc'[i] \in Dispatching => RunOf(i)' \in RunId
      BY <2>2, <2>0, CallTypes, BackFacts DEF MarkRunning, Label, Working, Dispatching
    <3>2. status' \in [RunId -> {"absent", "queued", "running"} \cup Terminal]
      BY <2>2, <2>0 DEF MarkRunning, TypeOK
    <3> QED
      BY <2>2, <3>1, <3>2 DEF MarkRunning, TypeOK
  <2>3. CASE ProviderRun(j)
    <3>1. pc' \in [Job -> Label] /\ outcome' \in [Job -> Terminal]
      BY <2>3 DEF ProviderRun, Goto, TypeOK, Label, Working, Dispatching
    <3>2. \A i \in Job : pc'[i] \in Dispatching => RunOf(i)' \in RunId
      BY <2>0, <2>3 DEF ProviderRun, Goto, TypeOK, RunOf
    <3> QED
      BY <2>3, <3>1, <3>2 DEF ProviderRun, TypeOK
  <2>4. CASE MarkTerminal(j)
    <3>1. /\ pc' \in [Job -> Label]
          /\ ctx' \in [Job -> {"live", "done"}]
          /\ faults' \in [Job -> 0..MaxFaults]
          /\ \A i \in Job : pc'[i] \in Dispatching => RunOf(i)' \in RunId
      BY <2>4, <2>0, CallTypes, BackFacts DEF MarkTerminal, Label, Working, Dispatching, AfterTerminal
    <3>2. status' \in [RunId -> {"absent", "queued", "running"} \cup Terminal]
      BY <2>4, <2>0 DEF MarkTerminal, TypeOK
    <3> QED
      BY <2>4, <3>1, <3>2 DEF MarkTerminal, TypeOK
  <2>5. CASE Land(j)
    <3>1. pc' \in [Job -> Label] /\ ctx' = ctx /\ faults' \in [Job -> 0..MaxFaults]
      BY <2>5, ErroredFacts DEF Land, Goto, TypeOK, Label, Working, Dispatching
    <3>2. \A i \in Job : pc'[i] \in Dispatching => RunOf(i)' \in RunId
      BY <2>0, <2>5 DEF Land, Goto, TypeOK, RunOf
    <3>3. remote' \in [RunId -> Landing]
      BY <2>5 DEF Land, TypeOK, Target, Reach, Landing
    <3> QED
      BY <2>5, <3>1, <3>2, <3>3 DEF Land, TypeOK
  <2>6. CASE Annotate(j)
    <3>1. /\ pc' \in [Job -> Label]
          /\ ctx' \in [Job -> {"live", "done"}]
          /\ faults' \in [Job -> 0..MaxFaults]
          /\ \A i \in Job : pc'[i] \in Dispatching => RunOf(i)' \in RunId
      BY <2>6, <2>0, CallTypes DEF Annotate, Label, Working, Dispatching
    <3>2. landed' \in [RunId -> Landing]
      BY <2>6, <2>0 DEF Annotate, TypeOK, Landing
    <3> QED
      BY <2>6, <3>1, <3>2 DEF Annotate, TypeOK
  <2>7. CASE RecordPR(j)
    <3>1. /\ pc' \in [Job -> Label]
          /\ ctx' \in [Job -> {"live", "done"}]
          /\ faults' \in [Job -> 0..MaxFaults]
          /\ \A i \in Job : pc'[i] \in Dispatching => RunOf(i)' \in RunId
      BY <2>7, <2>0, CallTypes DEF RecordPR, Label, Working, Dispatching
    <3>2. prs' \in SUBSET RunId
      BY <2>7, <2>0 DEF RecordPR, TypeOK
    <3>3. newer' \in [RunId -> 0..PRLimit]
      BY <2>7, RunnerAssumption DEF RecordPR, RunnerAssumption, TypeOK
    <3> QED
      BY <2>7, <3>1, <3>2, <3>3 DEF RecordPR, TypeOK
  <2>8. CASE Reload(j)
    <3>1. pc' \in [Job -> Label] /\ ctx' = ctx /\ faults' \in [Job -> 0..MaxFaults]
      BY <2>8, FailedFacts, BackFacts DEF Reload, Goto, TypeOK
    <3>2. \A i \in Job : pc'[i] \in Dispatching => RunOf(i)' \in RunId
      BY <2>0, <2>8 DEF Reload, Failed, Goto, TypeOK, RunOf
    <3>3. dispatched' \in [Job -> SUBSET RunId]
      BY <2>0, <2>8 DEF Reload, TypeOK
    <3> QED
      BY <2>8, <3>1, <3>2, <3>3 DEF Reload, TypeOK
  <2> QED
    BY <1>4, <2>1, <2>2, <2>3, <2>4, <2>5, <2>6, <2>7, <2>8 DEF DispatchStep
<1>5. ASSUME NEW j \in Timed, ExpireCtx(j) PROVE TypeOK'
  BY <1>0, <1>5 DEF TypeOK, ExpireCtx, RunOf
<1>6. CASE Crash
  <2>1. pc' \in [Job -> Label]
    BY <1>6 DEF Crash, TypeOK, Label
  <2>2. \A i \in Job : pc'[i] \in Dispatching => RunOf(i)' \in RunId
    BY <1>6 DEF Crash, TypeOK, Working, Dispatching, RunOf
  <2>3. remote' \in [RunId -> Landing]
    <3> DEFINE cut == {RunOf(j) : j \in {i \in Job : pc[i] = "land"}}
    <3>1. PICK w \in [cut -> Reach] :
             remote' = [r \in RunId |-> IF r \in cut THEN w[r] ELSE remote[r]]
      BY <1>6 DEF Crash
    <3>2. Reach \subseteq Landing
      BY DEF Reach, Target, Landing
    <3> HIDE DEF cut
    <3> QED
      BY <3>1, <3>2 DEF TypeOK
  <2>4. crashes' \in 0..MaxCrashes
    BY <1>6, RunnerAssumption DEF Crash, TypeOK, RunnerAssumption
  <2> QED
    BY <1>6, <2>1, <2>2, <2>3, <2>4 DEF Crash, TypeOK
<1>7. CASE Rest \/ UNCHANGED vars
  BY <1>7 DEF Rest, vars, TypeOK, RunOf
<1> QED
  BY <1>1, <1>2, <1>3, <1>4, <1>5, <1>6, <1>7 DEF Next

THEOREM Typing == Spec => []TypeOK
<1>1. Init => TypeOK
  BY RunnerAssumption
  DEF RunnerAssumption, Init, TypeOK, Terminal, Landing, Label, Working, Dispatching
<1> QED
  BY <1>1, NextTypeOK, PTL DEF Spec

-------------------------------------------------------------------------------
(* A step of one job is invisible to the others.                             *)

(* Nothing of job j changes. *)
Same(j) ==
    /\ pc'[j] = pc[j] /\ slot'[j] = slot[j] /\ slots'[j] = slots[j]
    /\ ctx'[j] = ctx[j] /\ faults'[j] = faults[j]
    /\ outcome'[j] = outcome[j] /\ dispatched'[j] = dispatched[j]
    /\ \A k \in 1..MaxSlots :
          /\ status'[<<j, k>>] = status[<<j, k>>]
          /\ landed'[<<j, k>>] = landed[<<j, k>>]
          /\ remote'[<<j, k>>] = remote[<<j, k>>]
          /\ <<j, k>> \in prs' <=> <<j, k>> \in prs
          /\ newer[<<j, k>>] = PRLimit => newer'[<<j, k>>] = PRLimit
    /\ j \in Night => /\ nights'[j] = nights[j]
                      /\ body'[j] = body[j]
                      /\ posted'[j] = posted[j]

JobStep(j) ==
    \/ j \in Night /\ (PlanNight(j) \/ NightStep(j))
    \/ j \in HttpRuns /\ CreateRun(j)
    \/ DispatchStep(j)
    \/ j \in Timed /\ ExpireCtx(j)

(* A step of one job leaves every other job alone. *)
LEMMA OthersSame ==
  ASSUME TypeOK, NEW i \in Job, JobStep(i), NEW j \in Job, j # i
  PROVE  Same(j)
<1> USE DEF ledger, progress, digest, Same
<1>0. \A k \in 1..MaxSlots : <<j, k>> \in RunId /\ <<j, k>> # RunOf(i)
  BY DEF RunId, RunOf
<1>1. CASE i \in Night /\ PlanNight(i)
  BY <1>1 DEF PlanNight, Goto, TypeOK
<1>2. CASE i \in HttpRuns /\ CreateRun(i)
  BY <1>2 DEF CreateRun, Goto, TypeOK
<1>3. CASE i \in Timed /\ ExpireCtx(i)
  BY <1>3 DEF ExpireCtx, TypeOK
<1>4. CASE i \in Night /\ NightStep(i)
  <2>1. CASE InsertNight(i)
    BY <2>1, <1>4 DEF InsertNight, Took, Failed, Errored, Goto, TypeOK
  <2>2. CASE RecordSnapshot(i)
    BY <2>2 DEF RecordSnapshot, Took, Failed, Errored, Goto, TypeOK
  <2>3. CASE CheckSlot(i)
    BY <2>3 DEF CheckSlot, Goto, TypeOK
  <2>4. CASE FinishNight(i)
    BY <2>4, <1>4 DEF FinishNight, Took, Failed, Errored, Goto, TypeOK
  <2>5. CASE RenderNight(i)
    BY <2>5 DEF RenderNight, Failed, Errored, Goto, TypeOK
  <2>6. CASE RenderPRs(i)
    BY <2>6, <1>4 DEF RenderPRs, Errored, Goto, TypeOK
  <2>7. CASE WriteDigest(i)
    BY <2>7, <1>4 DEF WriteDigest, Goto, TypeOK
  <2>8. CASE Notify(i)
    BY <2>8, <1>4 DEF Notify, Messages, Goto, TypeOK
  <2> QED
    BY <1>4, <2>1, <2>2, <2>3, <2>4, <2>5, <2>6, <2>7, <2>8 DEF NightStep
<1>5. CASE DispatchStep(i)
  <2>1. CASE InsertRun(i)
    BY <2>1, <1>0 DEF InsertRun, Took, Failed, Errored, Goto, TypeOK
  <2>2. CASE MarkRunning(i)
    BY <2>2, <1>0 DEF MarkRunning, Took, Failed, Errored, Goto, TypeOK
  <2>3. CASE ProviderRun(i)
    BY <2>3 DEF ProviderRun, Goto, TypeOK
  <2>4. CASE MarkTerminal(i)
    BY <2>4, <1>0 DEF MarkTerminal, Took, Failed, Errored, Goto, TypeOK
  <2>5. CASE Land(i)
    BY <2>5, <1>0 DEF Land, Errored, Goto, TypeOK
  <2>6. CASE Annotate(i)
    BY <2>6, <1>0 DEF Annotate, Took, Failed, Errored, Goto, TypeOK
  <2>7. CASE RecordPR(i)
    BY <2>7, <1>0 DEF RecordPR, Took, Failed, Errored, Goto, TypeOK
  <2>8. CASE Reload(i)
    BY <2>8 DEF Reload, Failed, Errored, Goto, TypeOK
  <2> QED
    BY <1>5, <2>1, <2>2, <2>3, <2>4, <2>5, <2>6, <2>7, <2>8 DEF DispatchStep
<1> QED
  BY <1>1, <1>2, <1>3, <1>4, <1>5 DEF JobStep

(* What the row of night j says while its goroutine is at each point. *)
NightRow(j) ==
    j \in Night =>
        /\ pc[j] \in {"idle", "insertnight"} => nights[j] = "absent"
        /\ pc[j] \in Dispatching \cup {"snapshot", "loop", "finish"} => nights[j] = "open"
        /\ "slack" \in posted[j] \/ "cut" \in posted[j] => pc[j] = "done"

(* Run rows exist up to the slot taken last; only a succeeded run has been    *)
(* landed in any way.                                                         *)
Rows(j) ==
    /\ pc[j] = "idle" => slot[j] = 0 /\ ctx[j] = "live"
    /\ \A k \in 1..MaxSlots :
          /\ status[<<j, k>>] # "absent" => k <= slot[j]
          /\ status[<<j, k>>] # "succeeded" =>
                /\ landed[<<j, k>>] = "none"
                /\ <<j, k>> \notin prs
                /\ remote[<<j, k>>] = "none"

(* The run in hand is in the state Dispatch has brought it to. *)
Hand(j) ==
    LET r == RunOf(j)
    IN  /\ pc[j] = "insert" => status[r] = "absent"
        /\ pc[j] = "mark" => status[r] = "queued"
        /\ pc[j] \in {"provider", "terminal"} => status[r] = "running"
        /\ pc[j] \in {"land", "annotate", "recordpr"} => status[r] = "succeeded"
        /\ pc[j] = "reload" => status[r] \in Terminal
        /\ pc[j] \in {"land", "annotate"} => landed[r] = "none"
        /\ pc[j] \in {"land", "annotate", "recordpr"} => r \notin prs
        /\ pc[j] = "annotate" => remote[r] = Target
        /\ pc[j] = "recordpr" => remote[r] = "pr" /\ GitMode = "pr"

CoreInv == TypeOK /\ \A j \in Job : NightRow(j) /\ Rows(j) /\ Hand(j)


-------------------------------------------------------------------------------
(* The invariant behind the refinement: where each goroutine is, and what    *)
(* the tables hold for it.                                                   *)

LEMMA SameCore ==
  ASSUME TypeOK, NEW j \in Job, NightRow(j), Rows(j), Hand(j), Same(j)
  PROVE  NightRow(j)' /\ Rows(j)' /\ Hand(j)'
<1>1. NightRow(j)' /\ Rows(j)'
  BY DEF Same, NightRow, Rows
<1>2. CASE pc[j] \in Dispatching
  <2>1. slot[j] \in 1..MaxSlots
    BY <1>2 DEF TypeOK, RunOf, RunId
  <2> QED
    BY <1>1, <2>1 DEF Same, Hand, RunOf
<1>3. CASE pc[j] \notin Dispatching
  BY <1>1, <1>3 DEF Same, Hand, Dispatching
<1> QED
  BY <1>2, <1>3

LEMMA OwnCore ==
  ASSUME CoreInv, TypeOK', NEW j \in Job, JobStep(j)
  PROVE  NightRow(j)' /\ Rows(j)' /\ Hand(j)'
<1> USE DEF ledger, progress, digest, CoreInv
<1>a. NightRow(j) /\ Rows(j) /\ Hand(j) /\ TypeOK
  OBVIOUS
<1>0. \A k \in 1..MaxSlots : <<j, k>> \in RunId
  BY DEF RunId
<1> USE DEF Goto, TypeOK, NightRow, Rows, Hand, Dispatching, Terminal, RunOf, RunId
<1>1. CASE j \in Night /\ PlanNight(j)
  BY <1>1, <1>a, <1>0 DEF PlanNight
<1>2. CASE j \in HttpRuns /\ CreateRun(j)
  BY <1>2, <1>a, <1>0, RunnerAssumption DEF CreateRun, RunnerAssumption, Night
<1>3. CASE j \in Timed /\ ExpireCtx(j)
  BY <1>3, <1>a DEF ExpireCtx, Working
<1>4. CASE j \in Night /\ NightStep(j)
  <2>1. CASE InsertNight(j)
    BY <2>1, <1>4, <1>a, <1>0 DEF InsertNight, Took, Failed, Errored
  <2>2. CASE RecordSnapshot(j)
    BY <2>2, <1>4, <1>a, <1>0 DEF RecordSnapshot, Took, Failed, Errored
  <2>3. CASE CheckSlot(j)
    BY <2>3, <1>4, <1>a, <1>0 DEF CheckSlot, Took, Failed, Errored, HasSlot
  <2>4. CASE FinishNight(j)
    BY <2>4, <1>4, <1>a, <1>0 DEF FinishNight, Took, Failed, Errored
  <2>5. CASE RenderNight(j)
    BY <2>5, <1>4, <1>a, <1>0 DEF RenderNight, Took, Failed, Errored
  <2>6. CASE RenderPRs(j)
    BY <2>6, <1>4, <1>a, <1>0 DEF RenderPRs, Took, Failed, Errored
  <2>7. CASE WriteDigest(j)
    BY <2>7, <1>4, <1>a, <1>0 DEF WriteDigest, Took, Failed, Errored
  <2>8. CASE Notify(j)
    BY <2>8, <1>4, <1>a, <1>0 DEF Notify, Messages, Took, Failed, Errored
  <2> QED
    BY <1>4, <2>1, <2>2, <2>3, <2>4, <2>5, <2>6, <2>7, <2>8 DEF NightStep
<1>5. CASE DispatchStep(j)
  <2>1. CASE InsertRun(j)
    <3>0. NightRow(j)'
      BY <2>1, <1>a, BackFacts DEF InsertRun, Took, Failed, Errored
    <3>1. CASE Goto(j, Back(j)) /\ UNCHANGED <<status, ctx, faults>>
      <4>1. pc'[j] \in {"loop", "done"}
        BY <3>1, <1>a, BackFacts
      <4>2. Rows(j)'
        BY <2>1, <3>1, <4>1, <1>a DEF InsertRun
      <4>3. Hand(j)'
        BY <4>1
      <4> QED
        BY <3>0, <4>2, <4>3
    <3>2. CASE Took(j, "mark", Back(j)) /\ status' = [status EXCEPT ![RunOf(j)] = "queued"]
      <4>1. pc'[j] \in {"mark", "loop", "done"}
        BY <3>2, <1>a, BackFacts DEF Took
      <4>2. status'[RunOf(j)] = "queued"
        BY <2>1, <3>2, <1>a DEF InsertRun
      <4>3. Rows(j)'
        BY <2>1, <3>2, <4>1, <1>a, <1>0 DEF InsertRun
      <4>4. Hand(j)'
        BY <2>1, <4>1, <4>2 DEF InsertRun
      <4> QED
        BY <3>0, <4>3, <4>4
    <3>3. CASE Failed(j, Back(j)) /\ UNCHANGED status
      <4>1. pc'[j] \in {"loop", "done"}
        BY <3>3, <1>a, BackFacts DEF Failed
      <4>2. Rows(j)'
        BY <2>1, <3>3, <4>1, <1>a DEF InsertRun
      <4>3. Hand(j)'
        BY <4>1
      <4> QED
        BY <3>0, <4>2, <4>3
    <3> QED
      BY <2>1, <3>1, <3>2, <3>3 DEF InsertRun
  <2>2. CASE MarkRunning(j)
    <3>0. NightRow(j)'
      BY <2>2, <1>a, BackFacts DEF MarkRunning, Took, Failed, Errored
    <3>2. CASE Took(j, "provider", Back(j)) /\ status' = [status EXCEPT ![RunOf(j)] = "running"]
      <4>1. pc'[j] \in {"provider", "loop", "done"}
        BY <3>2, <1>a, BackFacts DEF Took
      <4>2. status'[RunOf(j)] = "running"
        BY <2>2, <3>2, <1>a DEF MarkRunning
      <4>3. Rows(j)'
        BY <2>2, <3>2, <4>1, <1>a, <1>0 DEF MarkRunning
      <4>4. Hand(j)'
        BY <2>2, <4>1, <4>2 DEF MarkRunning
      <4> QED
        BY <3>0, <4>3, <4>4
    <3>3. CASE Failed(j, Back(j)) /\ UNCHANGED status
      <4>1. pc'[j] \in {"loop", "done"}
        BY <3>3, <1>a, BackFacts DEF Failed
      <4>2. Rows(j)'
        BY <2>2, <3>3, <4>1, <1>a DEF MarkRunning
      <4>3. Hand(j)'
        BY <4>1
      <4> QED
        BY <3>0, <4>2, <4>3
    <3> QED
      BY <2>2, <3>2, <3>3 DEF MarkRunning
  <2>3. CASE ProviderRun(j)
    BY <2>3, <1>a, <1>0, BackFacts DEF ProviderRun, Took, Failed, Errored
  <2>4. CASE MarkTerminal(j)
    BY <2>4, <1>a, <1>0, BackFacts DEF MarkTerminal, Took, Failed, Errored, AfterTerminal
  <2>5. CASE Land(j)
    BY <2>5, <1>a, <1>0, BackFacts DEF Land, Took, Failed, Errored, Target, Reach
  <2>6. CASE Annotate(j)
    <3>1. pc'[j] = IF GitMode = "pr" THEN "recordpr" ELSE "reload"
      BY <2>6, <1>a DEF Annotate, Took, Failed
    <3>2. NightRow(j)'
      BY <2>6, <3>1, <1>a DEF Annotate
    <3>3. Rows(j)'
      BY <2>6, <3>1, <1>a, <1>0 DEF Annotate
    <3>4. Hand(j)'
      BY <2>6, <3>1, <1>a, <1>0 DEF Annotate, Target
    <3> QED
      BY <3>2, <3>3, <3>4
  <2>7. CASE RecordPR(j)
    BY <2>7, <1>a, <1>0, BackFacts DEF RecordPR, Took, Failed, Errored
  <2>8. CASE Reload(j)
    BY <2>8, <1>a, <1>0, BackFacts DEF Reload, Took, Failed, Errored
  <2> QED
    BY <1>5, <2>1, <2>2, <2>3, <2>4, <2>5, <2>6, <2>7, <2>8 DEF DispatchStep
<1> QED
  BY <1>1, <1>2, <1>3, <1>4, <1>5 DEF JobStep

LEMMA CrashCore == CoreInv /\ Crash => \A j \in Job : NightRow(j)' /\ Rows(j)' /\ Hand(j)'
<1> SUFFICES ASSUME CoreInv, Crash, NEW j \in Job
             PROVE  NightRow(j)' /\ Rows(j)' /\ Hand(j)'
  OBVIOUS
<1> USE DEF CoreInv
<1>1. /\ pc'[j] = IF pc[j] \in Working THEN "dead" ELSE pc[j]
      /\ pc'[j] \notin Dispatching
      /\ UNCHANGED <<nights, status, landed, prs, posted, slot, ctx>>
  <2>1. pc'[j] = IF pc[j] \in Working THEN "dead" ELSE pc[j]
    BY DEF Crash
  <2>2. pc'[j] \notin Dispatching
    BY <2>1 DEF Working, Dispatching
  <2>3. UNCHANGED <<nights, status, landed, prs, posted, slot, ctx>>
    BY DEF Crash, ledger, progress, digest
  <2> QED
    BY <2>1, <2>2, <2>3
<1>2. \A k \in 1..MaxSlots : remote'[<<j, k>>] # remote[<<j, k>>] => status[<<j, k>>] = "succeeded"
  <2> SUFFICES ASSUME NEW k \in 1..MaxSlots, remote'[<<j, k>>] # remote[<<j, k>>]
               PROVE  status[<<j, k>>] = "succeeded"
    OBVIOUS
  <2>1. <<j, k>> \in RunId
    BY DEF RunId
  <2>2. <<j, k>> \in {RunOf(i) : i \in {m \in Job : pc[m] = "land"}}
    BY <2>1 DEF Crash, TypeOK
  <2>3. PICK i \in Job : pc[i] = "land" /\ <<j, k>> = RunOf(i)
    BY <2>2
  <2> QED
    BY <2>3 DEF Hand
<1>3. NightRow(j)'
  BY <1>1 DEF NightRow, Working, Dispatching
<1>4. Rows(j)'
  BY <1>1, <1>2 DEF Rows, Working
<1>5. Hand(j)'
  BY <1>1 DEF Hand, Dispatching
<1> QED
  BY <1>3, <1>4, <1>5

LEMMA NextCore == CoreInv /\ [Next]_vars => CoreInv'
<1> SUFFICES ASSUME CoreInv, [Next]_vars PROVE CoreInv'
  OBVIOUS
<1>1. TypeOK'
  BY NextTypeOK DEF CoreInv
<1>2. CASE \E i \in Job : JobStep(i)
  <2> PICK i \in Job : JobStep(i)
    BY <1>2
  <2> SUFFICES ASSUME NEW j \in Job PROVE NightRow(j)' /\ Rows(j)' /\ Hand(j)'
    BY <1>1 DEF CoreInv
  <2>1. CASE j = i
    BY <2>1, <1>1, OwnCore
  <2>2. CASE j # i
    BY <2>2, OthersSame, SameCore DEF CoreInv
  <2> QED
    BY <2>1, <2>2
<1>3. CASE Crash
  BY <1>1, <1>3, CrashCore DEF CoreInv
<1>4. CASE Rest \/ UNCHANGED vars
  <2>1. UNCHANGED vars
    BY <1>4 DEF Rest
  <2> QED
    BY <1>1, <2>1
    DEF vars, ledger, progress, digest, CoreInv, NightRow, Rows, Hand, RunOf
<1> QED
  BY <1>2, <1>3, <1>4 DEF Next, JobStep, Job, Night, Timed

LEMMA InitCore == Init => CoreInv
<1> SUFFICES ASSUME Init PROVE CoreInv
  OBVIOUS
<1>1. TypeOK
  BY RunnerAssumption
  DEF RunnerAssumption, Init, TypeOK, Terminal, Landing, Label, Working, Dispatching
<1>2. ASSUME NEW j \in Job PROVE NightRow(j) /\ Rows(j) /\ Hand(j)
  <2>1. \A k \in 1..MaxSlots : <<j, k>> \in RunId
    BY DEF RunId
  <2> QED
    BY <2>1 DEF Init, NightRow, Rows, Hand, Dispatching
<1> QED
  BY <1>1, <1>2 DEF CoreInv

LEMMA Core == Spec => []CoreInv
BY InitCore, NextCore, PTL DEF Spec

-------------------------------------------------------------------------------
(* The tables implement RunLedger.                                           *)

LEMMA LedgerInitially == Init => Ledger!LedgerInit
BY DEF Init, Ledger!LedgerInit, Ledger!RunId, Ledger!Job, RunId, Job

LEMMA LedgerStep ==
  ASSUME CoreInv, NEW j \in Job, JobStep(j)
  PROVE  [Ledger!LedgerNext]_(Ledger!ledger)
<1> DEFINE r == RunOf(j)
<1> USE DEF ledger, progress, digest
<1>1. ASSUME pc[j] \in Dispatching
      PROVE  /\ r \in RunId /\ r \in Ledger!RunId
             /\ Ledger!Current(r)
  <2>1. r \in RunId /\ r \in Ledger!RunId
    BY <1>1 DEF CoreInv, TypeOK, Ledger!RunId, Ledger!Job, RunId, Job
  <2>2. Ledger!Open(r[1])
    BY <1>1 DEF CoreInv, NightRow, Ledger!Open, RunOf
  <2>3. Ledger!Newest(r)
    BY <1>1 DEF CoreInv, TypeOK, Rows, Ledger!Newest, RunOf
  <2> QED
    BY <2>1, <2>2, <2>3 DEF Ledger!Current
<1>2. CASE UNCHANGED ledger
  BY <1>2 DEF Ledger!ledger
<1>3. CASE j \in Night /\ InsertNight(j) /\ ~UNCHANGED ledger
  BY <1>3 DEF InsertNight, CoreInv, NightRow, Ledger!LedgerNext, Ledger!OpenNight
<1>4. CASE j \in Night /\ FinishNight(j) /\ ~UNCHANGED ledger
  BY <1>4 DEF FinishNight, CoreInv, NightRow, Ledger!LedgerNext, Ledger!CloseNight
<1>5. CASE InsertRun(j) /\ ~UNCHANGED ledger
  <2>1. Ledger!QueueRun(r)
    BY <1>1, <1>5 DEF InsertRun, CoreInv, Hand, Ledger!QueueRun, Dispatching
  <2> QED
    BY <1>1, <1>5, <2>1 DEF InsertRun, Dispatching, Ledger!LedgerNext
<1>6. CASE MarkRunning(j) /\ ~UNCHANGED ledger
  <2>1. Ledger!StartRun(r)
    BY <1>1, <1>6 DEF MarkRunning, CoreInv, Hand, Ledger!StartRun, Dispatching
  <2> QED
    BY <1>1, <1>6, <2>1 DEF MarkRunning, Dispatching, Ledger!LedgerNext
<1>7. CASE MarkTerminal(j) /\ ~UNCHANGED ledger
  <2>1. Ledger!SettleRun(r)
    BY <1>1, <1>7 DEF MarkTerminal, CoreInv, TypeOK, Hand, Ledger!SettleRun,
                      Ledger!Terminal, Terminal, Dispatching
  <2> QED
    BY <1>1, <1>7, <2>1 DEF MarkTerminal, Dispatching, Ledger!LedgerNext
<1>8. CASE Annotate(j) /\ ~UNCHANGED ledger
  <2>1. Ledger!AnnotateRun(r)
    BY <1>1, <1>8 DEF Annotate, CoreInv, Hand, Ledger!AnnotateRun, Dispatching
  <2> QED
    BY <1>1, <1>8, <2>1 DEF Annotate, Dispatching, Ledger!LedgerNext
<1>9. CASE RecordPR(j) /\ ~UNCHANGED ledger
  <2>1. Ledger!RecordPR(r)
    BY <1>1, <1>9 DEF RecordPR, CoreInv, Hand, Ledger!RecordPR, Dispatching
  <2> QED
    BY <1>1, <1>9, <2>1 DEF RecordPR, Dispatching, Ledger!LedgerNext
<1> QED
  BY <1>2, <1>3, <1>4, <1>5, <1>6, <1>7, <1>8, <1>9
  DEF JobStep, NightStep, DispatchStep, PlanNight, CreateRun, ExpireCtx, RecordSnapshot,
      CheckSlot, RenderNight, RenderPRs, WriteDigest, Notify, ProviderRun, Land, Reload

(* For every set of jobs and every bound, the tables as readers see them     *)
(* behave as RunLedger promises (runner.go:69-219, night.go:41-105).         *)
THEOREM LedgerRefinement == Spec => LedgerImplemented
<1>1. CoreInv /\ [Next]_vars => [Ledger!LedgerNext]_(Ledger!ledger)
  <2> SUFFICES ASSUME CoreInv, [Next]_vars PROVE [Ledger!LedgerNext]_(Ledger!ledger)
    OBVIOUS
  <2>1. CASE \E j \in Job : JobStep(j)
    BY <2>1, LedgerStep
  <2>2. CASE Crash \/ Rest \/ UNCHANGED vars
    BY <2>2 DEF Crash, Rest, vars, ledger, Ledger!ledger
  <2> QED
    BY <2>1, <2>2 DEF Next, JobStep, Job, Night, Timed
<1> QED
  BY <1>1, LedgerInitially, Core, PTL DEF Spec, LedgerImplemented, Ledger!LedgerSpec

-------------------------------------------------------------------------------
(* A job runs out of calls.                                                  *)

(* No more slots are taken than the plan has, and none before the loop.      *)
Within == \A j \in Job : slot[j] <= slots[j]

LEMMA WithinStep ==
  ASSUME CoreInv, Within, [Next]_vars
  PROVE  Within'
<1>1. ASSUME NEW i \in Job, JobStep(i), NEW j \in Job PROVE (slot[j] <= slots[j])'
  <2>1. CASE j # i
    BY <1>1, <2>1, OthersSame DEF CoreInv, Same, Within
  <2>2. CASE j = i
    <3> USE DEF progress, CoreInv, TypeOK, Within
    <3>1. CASE j \in Night /\ PlanNight(j)
      BY <1>1, <3>1 DEF PlanNight, Rows
    <3>2. CASE j \in HttpRuns /\ CreateRun(j)
      BY <1>1, <3>2 DEF CreateRun
    <3>3. CASE CheckSlot(j)
      BY <1>1, <3>3 DEF CheckSlot, HasSlot
    <3>4. CASE UNCHANGED <<slots, slot>>
      BY <1>1, <3>4
    <3> QED
      BY <1>1, <2>2, <3>1, <3>2, <3>3, <3>4
      DEF JobStep, NightStep, DispatchStep, InsertNight, RecordSnapshot, FinishNight,
          RenderNight, RenderPRs, WriteDigest, Notify, InsertRun, MarkRunning, ProviderRun,
          MarkTerminal, Land, Annotate, RecordPR, Reload, ExpireCtx
  <2> QED
    BY <2>1, <2>2
<1>2. CASE \E j \in Job : JobStep(j)
  BY <1>1, <1>2 DEF Within
<1>3. CASE Crash \/ Rest \/ UNCHANGED vars
  BY <1>3 DEF Crash, Rest, vars, progress, Within
<1> QED
  BY <1>2, <1>3 DEF Next, JobStep, Job, Night, Timed

(* Within a slot a job only goes on, and a new slot is one less to come.     *)
LEMMA StepLeavesLess ==
  ASSUME CoreInv, Within, NEW j \in Job, NightStep(j) \/ DispatchStep(j)
  PROVE  0 <= Left(j)' /\ Left(j)' < Left(j)
<1> USE DEF Goto, Took, Failed, Errored, Left, Rank
<1>0. /\ pc \in [Job -> Label]
      /\ slot[j] \in Nat /\ slots[j] \in Nat /\ slot[j] <= slots[j]
  BY DEF CoreInv, TypeOK, Within
<1>1. CASE CheckSlot(j)
  <2>1. CASE HasSlot(j) /\ ctx[j] = "live"
    <3>1. /\ pc[j] = "loop" /\ pc'[j] = "insert" /\ slots'[j] = slots[j]
          /\ slot'[j] = slot[j] + 1 /\ slot[j] < slots[j]
      BY <1>0, <1>1, <2>1 DEF CheckSlot, HasSlot, CoreInv, TypeOK
    <3> QED
      BY <1>0, <3>1
  <2>2. CASE ~(HasSlot(j) /\ ctx[j] = "live")
    <3>1. pc[j] = "loop" /\ pc'[j] = "finish" /\ slots'[j] = slots[j] /\ slot'[j] = slot[j]
      BY <1>0, <1>1, <2>2 DEF CheckSlot
    <3> QED
      BY <1>0, <3>1
  <2> QED
    BY <2>1, <2>2
<1>2. CASE NightStep(j) /\ ~CheckSlot(j)
  <2>1. slots'[j] = slots[j] /\ slot'[j] = slot[j]
    BY <1>2 DEF NightStep, InsertNight, RecordSnapshot, FinishNight, RenderNight, RenderPRs,
                WriteDigest, Notify, progress
  <2>2. \/ pc[j] = "insertnight" /\ pc'[j] \in {"snapshot", "done"}
        \/ pc[j] = "snapshot" /\ pc'[j] = "loop"
        \/ pc[j] = "finish" /\ pc'[j] = "render"
        \/ pc[j] = "render" /\ pc'[j] \in {"renderprs", "done"}
        \/ pc[j] = "renderprs" /\ pc'[j] = "file"
        \/ pc[j] = "file" /\ pc'[j] = "notify"
        \/ pc[j] = "notify" /\ pc'[j] = "done"
    <3>1. CASE InsertNight(j)
      BY <1>0, <3>1 DEF InsertNight
    <3>2. CASE RecordSnapshot(j) \/ FinishNight(j)
      BY <1>0, <3>2 DEF RecordSnapshot, FinishNight
    <3>3. CASE RenderNight(j) \/ RenderPRs(j)
      BY <1>0, <3>3 DEF RenderNight, RenderPRs
    <3>4. CASE WriteDigest(j) \/ Notify(j)
      BY <1>0, <3>4 DEF WriteDigest, Notify
    <3> QED
      BY <1>2, <3>1, <3>2, <3>3, <3>4 DEF NightStep
  <2> QED
    BY <1>0, <2>1, <2>2
<1>3. CASE DispatchStep(j)
  <2>1. slots'[j] = slots[j] /\ slot'[j] = slot[j]
    BY <1>3 DEF DispatchStep, InsertRun, MarkRunning, ProviderRun, MarkTerminal, Land,
                Annotate, RecordPR, Reload, progress
  <2>2. Back(j) \in {"done", "loop"}
    BY DEF Back
  <2>3. AfterTerminal(j) \in {"land", "reload"}
    BY DEF AfterTerminal
  <2>4. \/ pc[j] = "insert" /\ pc'[j] \in {"mark", "done", "loop"}
        \/ pc[j] = "mark" /\ pc'[j] \in {"provider", "done", "loop"}
        \/ pc[j] = "provider" /\ pc'[j] = "terminal"
        \/ pc[j] = "terminal" /\ pc'[j] \in {"land", "reload", "done", "loop"}
        \/ pc[j] = "land" /\ pc'[j] \in {"annotate", "reload"}
        \/ pc[j] = "annotate" /\ pc'[j] \in {"recordpr", "reload"}
        \/ pc[j] = "recordpr" /\ pc'[j] = "reload"
        \/ pc[j] = "reload" /\ pc'[j] \in {"done", "loop"}
    BY <1>0, <1>3, <2>2, <2>3
    DEF DispatchStep, InsertRun, MarkRunning, ProviderRun, MarkTerminal, Land, Annotate,
        RecordPR, Reload
  <2> QED
    BY <1>0, <2>1, <2>4
<1> QED
  BY <1>1, <1>2, <1>3

(* For every plan: a job makes at most nine calls a slot and eight besides,  *)
(* however they end (night.go:41-126, runner.go:69-156).                     *)
THEOREM JobsEnd == Spec => JobsRunOut
<1>1. Init => Within
  BY DEF Init, Within
<1>2. CoreInv /\ Within /\ [Next]_vars => Within'
  BY WithinStep
<1>3. CoreInv /\ Within /\ [Next]_vars =>
      [\A j \in Job : NightStep(j) \/ DispatchStep(j) => 0 <= Left(j)' /\ Left(j)' < Left(j)]_vars
  BY StepLeavesLess
<1> QED
  BY <1>1, <1>2, <1>3, Core, PTL DEF Spec, JobsRunOut

-------------------------------------------------------------------------------
(* What SchedulerLoop takes from here: the loop's nights come one after      *)
(* another, and one that TriggerNight refuses can be asked for again.        *)

LoopNights(j) ==
    /\ pc[j] = "insertnight" => slot[j] = 0
    /\ pc[j] \in Working => \A i \in AutoNights \ {j} : pc[i] \notin Working

LoopInv == \A j \in AutoNights : LoopNights(j)

(* A night refused: TriggerNight has returned an error.                      *)
Refused(j) == pc[j] \in {"idle", "insertnight"} /\ pc'[j] = "done"

Unwritten(j) == nights[j] = "absent" /\ \A k \in 1..MaxSlots : status[<<j, k>>] = "absent"

RefusedUnwritten == [][\A j \in AutoNights : Refused(j) => Unwritten(j)']_vars

OneNightOfTheLoop == \A i, j \in AutoNights : pc[i] \in Working /\ pc[j] \in Working => i = j

LEMMA LoopStep ==
  ASSUME CoreInv, LoopInv, [Next]_vars
  PROVE  LoopInv'
<1>0. /\ pc \in [Job -> Label]
      /\ AutoNights \subseteq Job /\ AutoNights \cap HttpRuns = {} /\ AutoNights \cap Timed = {}
  BY RunnerAssumption DEF CoreInv, TypeOK, Job, Night, Timed, RunnerAssumption
<1>1. ASSUME NEW i \in Job, JobStep(i), NEW j \in AutoNights PROVE LoopNights(j)'
  <2>1. \A k \in Job \ {i} : pc'[k] = pc[k] /\ slot'[k] = slot[k]
    BY <1>1, OthersSame DEF CoreInv, Same
  <2>2. i \in AutoNights /\ pc[i] \notin Working /\ pc'[i] \in Working =>
            /\ slot'[i] = 0
            /\ \A k \in AutoNights : pc[k] \notin Working
    <3> SUFFICES ASSUME i \in AutoNights, pc[i] \notin Working, pc'[i] \in Working
                 PROVE  slot'[i] = 0 /\ \A k \in AutoNights : pc[k] \notin Working
      OBVIOUS
    <3>1. PlanNight(i)
      BY <1>0, <1>1
      DEF JobStep, NightStep, DispatchStep, InsertNight, RecordSnapshot, CheckSlot, FinishNight,
          RenderNight, RenderPRs, WriteDigest, Notify, InsertRun, MarkRunning, ProviderRun,
          MarkTerminal, Land, Annotate, RecordPR, Reload, Working, Dispatching
    <3> QED
      BY <1>0, <3>1 DEF PlanNight, LoopFree, Working, Dispatching, CoreInv, Rows
  <2>3. i \in AutoNights /\ pc'[i] = "insertnight" => slot'[i] = 0
    <3> SUFFICES ASSUME i \in AutoNights, pc'[i] = "insertnight" PROVE slot'[i] = 0
      OBVIOUS
    <3>1. PlanNight(i)
      BY <1>0, <1>1
      DEF JobStep, NightStep, DispatchStep, InsertNight, RecordSnapshot, CheckSlot, FinishNight,
          RenderNight, RenderPRs, WriteDigest, Notify, InsertRun, MarkRunning, ProviderRun,
          MarkTerminal, Land, Annotate, RecordPR, Reload, Back, AfterTerminal,
          Goto, Took, Failed
    <3> QED
      BY <1>0, <3>1 DEF PlanNight, CoreInv, Rows
  <2> QED
    BY <1>0, <2>1, <2>2, <2>3 DEF LoopInv, LoopNights
<1>2. CASE \E j \in Job : JobStep(j)
  BY <1>1, <1>2 DEF LoopInv
<1>3. CASE Crash
  BY <1>0, <1>3 DEF Crash, LoopInv, LoopNights, Working, Dispatching, progress
<1>4. CASE Rest \/ UNCHANGED vars
  BY <1>4 DEF Rest, vars, progress, LoopInv, LoopNights
<1> QED
  BY <1>2, <1>3, <1>4 DEF Next, JobStep, Job, Night, Timed

LEMMA LoopInvHolds == Spec => []LoopInv
<1>1. Init => LoopInv
  BY RunnerAssumption
  DEF RunnerAssumption, Init, LoopInv, LoopNights, Job, Night, Working, Dispatching
<1>2. CoreInv /\ LoopInv /\ [Next]_vars => LoopInv'
  BY LoopStep
<1> QED
  BY <1>1, <1>2, Core, PTL DEF Spec

LEMMA RefusedStep ==
  ASSUME CoreInv, LoopInv, [Next]_vars, NEW j \in AutoNights, Refused(j)
  PROVE  Unwritten(j)'
<1>0. /\ pc \in [Job -> Label] /\ j \in Job /\ j \in Night /\ j \notin Timed /\ j \notin HttpRuns
      /\ \A k \in 1..MaxSlots : <<j, k>> \in RunId
  BY RunnerAssumption DEF CoreInv, TypeOK, Job, Night, Timed, RunId, RunnerAssumption
<1>1. Unwritten(j)
  <2>1. slot[j] = 0 /\ nights[j] = "absent"
    BY <1>0 DEF CoreInv, NightRow, Rows, LoopInv, LoopNights, Refused
  <2> QED
    BY <1>0, <2>1 DEF CoreInv, Rows, TypeOK, Unwritten
<1>2. ASSUME NEW i \in Job, JobStep(i) PROVE Unwritten(j)'
  <2>1. CASE i # j
    BY <1>0, <1>2, <2>1, OthersSame DEF Refused, CoreInv, Same
  <2>2. CASE i = j
    <3>1. PlanNight(j) \/ InsertNight(j)
      BY <1>0, <1>2, <2>2
      DEF Refused, JobStep, NightStep, DispatchStep, RecordSnapshot, CheckSlot, FinishNight,
          RenderNight, RenderPRs, WriteDigest, Notify, InsertRun, MarkRunning, ProviderRun,
          MarkTerminal, Land, Annotate, RecordPR, Reload
    <3>2. UNCHANGED <<nights, status>>
      <4>1. CASE PlanNight(j)
        BY <4>1 DEF PlanNight, ledger
      <4>2. CASE InsertNight(j)
        BY <1>0, <4>2 DEF InsertNight, Took, Goto, Refused
      <4> QED
        BY <3>1, <4>1, <4>2
    <3> QED
      BY <1>1, <3>2 DEF Unwritten
  <2> QED
    BY <2>1, <2>2
<1>3. CASE \E i \in Job : JobStep(i)
  BY <1>2, <1>3
<1>4. CASE Crash \/ Rest \/ UNCHANGED vars
  BY <1>1, <1>4 DEF Crash, Rest, vars, ledger, Unwritten
<1> QED
  BY <1>3, <1>4 DEF Next, JobStep, Job, Night, Timed

(* An automatic night that TriggerNight refuses has left no row, of itself   *)
(* or of a run, so that the loop may fire again at its next tick; its        *)
(* context has no deadline that could hide a row it wrote (night.go:41-64,   *)
(* loop.go:111-115).  A triggered night can leave its row behind.            *)
THEOREM RefusedNightsLeaveNothing == Spec => RefusedUnwritten
<1>1. CoreInv /\ LoopInv /\ [Next]_vars => [\A j \in AutoNights : Refused(j) => Unwritten(j)']_vars
  BY RefusedStep
<1> QED
  BY <1>1, Core, LoopInvHolds, PTL DEF Spec, RefusedUnwritten

(* The loop has one night under way at most (loop.go:79-92).                 *)
THEOREM LoopNightsInTurn == Spec => []OneNightOfTheLoop
<1>1. LoopInv => OneNightOfTheLoop
  BY DEF LoopInv, LoopNights, OneNightOfTheLoop
<1> QED
  BY <1>1, LoopInvHolds, PTL
===============================================================================
