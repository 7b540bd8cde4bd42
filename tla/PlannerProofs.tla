---------------------------- MODULE PlannerProofs ----------------------------
(***************************************************************************)
(* What Planner's run checks for two members of three duties, for every    *)
(* family, budget and filter.  The budget pass is the point: that nothing  *)
(* dropped would still have fitted at the end, and that priority is only   *)
(* ever traded for cost, need what is known of the slots it has not        *)
(* reached yet (InOrder).                                                  *)
(***************************************************************************)
EXTENDS Planner, FiniteSetTheorems, TLAPS

(* Every duty is in one place, until a filter takes slots out of the plan.   *)
Accounted ==
    /\ todo \cup slots \cup capped \cup dropped \subseteq roster.duties
    /\ pc # "filtered" => roster.duties \subseteq todo \cup slots \cup capped \cup dropped
    /\ todo \cap slots = {} /\ todo \cap capped = {} /\ todo \cap dropped = {}
    /\ slots \cap capped = {} /\ slots \cap dropped = {} /\ capped \cap dropped = {}

(* Where each loop stands.                                                   *)
Phases ==
    /\ pc = "collect" => dropped = {} /\ reserved = 0
    /\ pc \in {"done", "filtered"} => todo = {}
    /\ budget = 0 => dropped = {}

(* The budget pass has dealt with the slots before those it still has.       *)
InOrder == pc = "fit" => \A d \in slots \cup dropped, e \in todo : DispatchOrder(d, e)

PlanInv == TypeOK /\ Accounted /\ Phases /\ BudgetUsedUp /\ InOrder /\ PriorityYieldsToCost

(* The duties of m in a set, and their number.                               *)
Of(set, m) == {d \in set : d[1] = m}
Count(set, m) == Cardinality(Of(set, m))

(* The duties that are in the plan so far: the budget pass has still to look *)
(* at those in todo.                                                         *)
Counted == IF pc = "collect" THEN slots ELSE todo \cup slots

(* The counts are of those, and what the budget drops it drops after the cap *)
(* has been kept.                                                            *)
Counts ==
    pc # "filtered" => \A m \in Members :
        /\ perMember[m] = Count(Counted, m)
        /\ roster.cap[m] > 0 => Count(Counted \cup dropped, m) <= roster.cap[m]
        /\ \A d \in capped :
              d[1] = m => roster.cap[m] > 0 /\ Count(Counted \cup dropped, m) = roster.cap[m]

-------------------------------------------------------------------------------
LEMMA RosterParts ==
    ASSUME roster \in Roster
    PROVE  /\ roster.duties \subseteq Duty
           /\ roster.cap \in [Members -> Caps]
           /\ roster.memberTier \in [Members -> Tiers]
           /\ roster.dutyTier \in [Names -> Tiers]
           /\ roster.rank \in [roster.duties -> Ranks]
  <1>1. PICK declared \in SUBSET Duty : roster \in Rosters(declared)
    BY DEF Roster
  <1> QED
    BY <1>1 DEF Rosters

LEMMA TokensNat ==
    ASSUME roster \in Roster, NEW d \in roster.duties
    PROVE  Tokens(d) \in Nat /\ Tokens(d) > 0
  <1>1. d[1] \in Members /\ DutyName[d[2]] \in Names
    BY RosterParts, PlannerAssumption DEF Duty, Names
  <1>2. roster.memberTier[d[1]] \in Tiers /\ roster.dutyTier[DutyName[d[2]]] \in Tiers
    BY <1>1, RosterParts
  <1> QED
    BY <1>2, PlannerAssumption DEF Tokens, TokenEstimate

(* The order of dispatch is never both ways.                                 *)
LEMMA OneWay ==
    ASSUME roster \in Roster, NEW d \in roster.duties, NEW e \in roster.duties,
           DispatchOrder(d, e)
    PROVE  ~ DispatchOrder(e, d)
  <1>1. Members \subseteq Nat /\ Ranks \subseteq Nat
    BY PlannerAssumption
  <1>2. \A f \in Duty : f[1] \in Members /\ f[2] \in 1..MaxDuties
    BY DEF Duty
  <1>3. \A k \in 1..MaxDuties : k \in Nat /\ DutyName[k] \in Nat
    BY PlannerAssumption
  <1>4. \A f \in roster.duties : f \in Duty /\ roster.rank[f] \in Ranks
    BY RosterParts
  <1>5. \A f \in roster.duties :
           f[1] \in Nat /\ f[2] \in Nat /\ DutyName[f[2]] \in Nat /\ roster.rank[f] \in Nat
    BY <1>1, <1>2, <1>3, <1>4
  <1> QED
    BY <1>5, SMTT(60) DEF DispatchOrder

-------------------------------------------------------------------------------
LEMMA InitPlan == Init => PlanInv
  <1> SUFFICES ASSUME Init PROVE PlanInv
    OBVIOUS
  <1> USE DEF Init
  <1>1. TypeOK
    BY RosterParts DEF TypeOK
  <1>2. Accounted /\ Phases
    BY DEF Accounted, Phases
  <1>3. BudgetUsedUp /\ InOrder /\ PriorityYieldsToCost
    BY PlannerAssumption DEF BudgetUsedUp, InOrder, PriorityYieldsToCost
  <1> QED
    BY <1>1, <1>2, <1>3 DEF PlanInv

LEMMA CollectPlan ==
    ASSUME PlanInv, NEW d \in Duty, Collect(d)
    PROVE  PlanInv'
  <1> USE DEF PlanInv, Collect
  <1>1. /\ d \in todo /\ d \in roster.duties /\ todo' = todo \ {d}
        /\ roster' = roster /\ budget' = budget /\ pc = "collect" /\ pc' = pc
        /\ dropped' = dropped /\ reserved' = reserved
    BY DEF NextDuty, Leave, Accounted
  <1>2. \/ capped' = capped \cup {d} /\ slots' = slots /\ perMember' = perMember
        \/ /\ capped' = capped /\ slots' = slots \cup {d}
           /\ perMember' = [perMember EXCEPT ![d[1]] = @ + 1]
    OBVIOUS
  <1>3. TypeOK'
    <2>1. perMember' \in [Members -> Nat]
      BY <1>2 DEF TypeOK
    <2> QED
      BY <1>1, <1>2, <2>1 DEF TypeOK
  <1>4. Accounted'
    BY <1>1, <1>2 DEF Accounted
  <1>5. Phases' /\ InOrder'
    BY <1>1 DEF Phases, InOrder
  <1>6. BudgetUsedUp' /\ PriorityYieldsToCost'
    BY <1>1 DEF Phases, BudgetUsedUp, PriorityYieldsToCost
  <1> QED
    BY <1>3, <1>4, <1>5, <1>6

LEMMA SortPlan ==
    ASSUME PlanInv, Sort
    PROVE  PlanInv'
  <1> USE DEF PlanInv, Sort
  <1>1. TypeOK' /\ Accounted' /\ Phases'
    BY DEF TypeOK, Accounted, Phases
  <1>2. slots' = {} /\ dropped' = {} /\ reserved' = 0 /\ budget' = budget
    BY DEF Phases
  <1>3. BudgetUsedUp' /\ InOrder' /\ PriorityYieldsToCost'
    BY <1>2 DEF TypeOK, BudgetUsedUp, InOrder, PriorityYieldsToCost
  <1> QED
    BY <1>1, <1>3

(* The step the others are for.  A slot that is kept is cheaper than each    *)
(* that was dropped, since those no longer fit; one that is dropped comes    *)
(* after each that was kept.                                                 *)
LEMMA FitPlan ==
    ASSUME PlanInv, NEW d \in Duty, Fit(d)
    PROVE  PlanInv'
  <1> USE DEF PlanInv
  <1>1. /\ d \in todo /\ d \in roster.duties /\ todo' = todo \ {d}
        /\ \A e \in todo \ {d} : DispatchOrder(d, e)
        /\ roster' = roster /\ budget' = budget /\ pc = "fit" /\ pc' = pc /\ capped' = capped
    BY DEF Fit, NextSlot, Accounted
  <1>2. roster \in Roster /\ budget \in Nat /\ reserved \in Nat
    BY PlannerAssumption DEF TypeOK
  <1>3. slots \subseteq roster.duties /\ dropped \subseteq roster.duties
    BY DEF Accounted
  <1>4. \A e : Tokens(e)' = Tokens(e)
    BY <1>1 DEF Tokens
  <1>5. \A e, f : DispatchOrder(e, f)' = DispatchOrder(e, f)
    BY <1>1 DEF DispatchOrder
  <1>6. Tokens(d) \in Nat /\ Tokens(d) > 0 /\ \A e \in dropped \cup slots : Tokens(e) \in Nat
    BY <1>1, <1>2, <1>3, TokensNat
  <1>7. CASE Fits(d)
    <2>1. /\ slots' = slots \cup {d} /\ reserved' = reserved + Tokens(d)
          /\ dropped' = dropped /\ perMember' = perMember
      BY <1>7 DEF Fit
    <2>2. TypeOK'
      BY <1>1, <1>2, <1>6, <2>1 DEF TypeOK
    <2>3. Accounted' /\ Phases'
      BY <1>1, <2>1 DEF Accounted, Phases
    <2>4. InOrder'
      BY <1>1, <1>5, <2>1 DEF InOrder
    <2>5. BudgetUsedUp'
      BY <1>1, <1>2, <1>4, <1>6, <1>7, <2>1 DEF BudgetUsedUp, Fits
    <2>6. PriorityYieldsToCost'
      <3>1. \A e \in dropped : Tokens(d) < Tokens(e)
        <4> SUFFICES ASSUME NEW e \in dropped PROVE Tokens(d) < Tokens(e)
          OBVIOUS
        <4>1. budget > 0
          BY <1>2 DEF Phases
        <4>2. reserved + Tokens(e) > budget /\ reserved + Tokens(d) <= budget
          BY <4>1, <1>7 DEF BudgetUsedUp, Fits
        <4> QED
          BY <4>2, <1>2, <1>6
      <3> QED
        BY <3>1, <1>4, <1>5, <2>1 DEF PriorityYieldsToCost
    <2> QED
      BY <2>2, <2>3, <2>4, <2>5, <2>6
  <1>8. CASE ~ Fits(d)
    <2>1. /\ dropped' = dropped \cup {d} /\ perMember' = Uncount(d)
          /\ slots' = slots /\ reserved' = reserved
      BY <1>8 DEF Fit
    <2>2. perMember' \in [Members -> Nat]
      BY <2>1 DEF TypeOK, Uncount, Duty
    <2>3. TypeOK'
      BY <1>1, <2>1, <2>2 DEF TypeOK
    <2>4. Accounted'
      BY <1>1, <2>1 DEF Accounted
    <2>5. Phases'
      BY <1>1, <1>8, <2>1 DEF Phases, Fits
    <2>6. InOrder'
      BY <1>1, <1>5, <2>1 DEF InOrder
    <2>7. BudgetUsedUp'
      BY <1>1, <1>2, <1>4, <1>6, <1>8, <2>1 DEF BudgetUsedUp, Fits
    <2>8. \A s \in slots : ~ DispatchOrder(d, s)
      <3> SUFFICES ASSUME NEW s \in slots PROVE ~ DispatchOrder(d, s)
        OBVIOUS
      <3>1. DispatchOrder(s, d) /\ s \in roster.duties
        BY <1>1, <1>3 DEF InOrder
      <3> QED
        BY <3>1, <1>1, <1>2, OneWay
    <2>9. PriorityYieldsToCost'
      BY <1>4, <1>5, <2>1, <2>8 DEF PriorityYieldsToCost
    <2> QED
      BY <2>3, <2>4, <2>5, <2>6, <2>7, <2>9
  <1> QED
    BY <1>7, <1>8

LEMMA ReturnPlan ==
    ASSUME PlanInv, Return
    PROVE  PlanInv'
  <1> USE DEF PlanInv, Return
  <1>1. TypeOK' /\ Accounted' /\ Phases' /\ InOrder'
    BY DEF TypeOK, Accounted, Phases, InOrder
  <1>2. BudgetUsedUp' /\ PriorityYieldsToCost'
    BY DEF BudgetUsedUp, PriorityYieldsToCost, Tokens, DispatchOrder
  <1> QED
    BY <1>1, <1>2

LEMMA FilterPlan ==
    ASSUME PlanInv, Filter
    PROVE  PlanInv'
  <1> USE DEF PlanInv
  <1>1. /\ slots' \subseteq slots /\ pc = "done" /\ pc' = "filtered"
        /\ UNCHANGED <<roster, budget, todo, capped, dropped, perMember, reserved>>
    BY DEF Filter
  <1>2. TypeOK' /\ Accounted' /\ Phases' /\ InOrder'
    BY <1>1 DEF TypeOK, Accounted, Phases, InOrder
  <1>3. BudgetUsedUp' /\ PriorityYieldsToCost'
    BY <1>1 DEF BudgetUsedUp, PriorityYieldsToCost, Tokens, DispatchOrder
  <1> QED
    BY <1>2, <1>3

LEMMA NextPlan == PlanInv /\ [Next]_vars => PlanInv'
  <1> SUFFICES ASSUME PlanInv, [Next]_vars PROVE PlanInv'
    OBVIOUS
  <1>1. CASE \E d \in Duty : Collect(d)
    BY <1>1, CollectPlan
  <1>2. CASE \E d \in Duty : Fit(d)
    BY <1>2, FitPlan
  <1>3. CASE Sort
    BY <1>3, SortPlan
  <1>4. CASE Return
    BY <1>4, ReturnPlan
  <1>5. CASE Filter
    BY <1>5, FilterPlan
  <1>6. CASE UNCHANGED vars
    BY <1>6 DEF vars, PlanInv, TypeOK, Accounted, Phases, BudgetUsedUp, InOrder,
                PriorityYieldsToCost, Tokens, DispatchOrder
  <1> QED
    BY <1>1, <1>2, <1>3, <1>4, <1>5, <1>6 DEF Next, Rest

LEMMA PlanHolds == Spec => []PlanInv
  <1> QED
    BY InitPlan, NextPlan, PTL DEF Spec

-------------------------------------------------------------------------------
(* Counting.                                                                 *)

LEMMA OfFinite ==
    ASSUME NEW set \in SUBSET Duty, NEW m
    PROVE  IsFiniteSet(Of(set, m)) /\ Count(set, m) \in Nat
  <1>1. IsFiniteSet(Duty)
    <2>1. IsFiniteSet(1..MaxDuties)
      BY PlannerAssumption, FS_Interval
    <2> QED
      BY <2>1, PlannerAssumption, FS_Product DEF Duty
  <1>2. Of(set, m) \subseteq Duty
    BY DEF Of
  <1> QED
    BY <1>1, <1>2, FS_Subset, FS_CardinalityType DEF Count

LEMMA CountAdd ==
    ASSUME NEW set \in SUBSET Duty, NEW d \in Duty \ set, NEW m
    PROVE  Count(set \cup {d}, m) = IF d[1] = m THEN Count(set, m) + 1 ELSE Count(set, m)
  <1>1. CASE d[1] = m
    <2>1. Of(set \cup {d}, m) = Of(set, m) \cup {d} /\ d \notin Of(set, m)
      BY <1>1 DEF Of
    <2> QED
      BY <1>1, <2>1, OfFinite, FS_AddElement DEF Count
  <1>2. CASE d[1] # m
    <2>1. Of(set \cup {d}, m) = Of(set, m)
      BY <1>2 DEF Of
    <2> QED
      BY <1>2, <2>1 DEF Count
  <1> QED
    BY <1>1, <1>2

LEMMA InitCounts == Init => Counts
  <1> SUFFICES ASSUME Init PROVE Counts
    OBVIOUS
  <1>1. \A m : Count({}, m) = 0
    BY FS_EmptySet DEF Count, Of
  <1>2. roster.cap \in [Members -> Nat]
    BY RosterParts, PlannerAssumption DEF Init
  <1>3. pc = "collect" /\ Counted = {} /\ Counted \cup dropped = {} /\ capped = {}
        /\ \A m \in Members : perMember[m] = 0
    BY DEF Init, Counted
  <1>4. \A m \in Members : 0 <= roster.cap[m]
    BY <1>2
  <1> QED
    BY <1>1, <1>3, <1>4 DEF Counts

(* A duty that is taken is counted, and its member was under its cap; one    *)
(* that is not leaves its member at it.                                      *)
LEMMA CollectCounts ==
    ASSUME PlanInv, Counts, NEW d \in Duty, Collect(d)
    PROVE  Counts'
  <1>1. /\ pc = "collect" /\ pc' = pc /\ dropped = {} /\ dropped' = {} /\ roster' = roster
        /\ d \in todo /\ d \notin slots /\ slots \in SUBSET Duty /\ capped \in SUBSET Duty
    BY DEF PlanInv, TypeOK, Phases, Accounted, Collect, NextDuty
  <1>2. /\ roster.cap \in [Members -> Nat] /\ perMember \in [Members -> Nat] /\ d[1] \in Members
    BY RosterParts, PlannerAssumption DEF PlanInv, TypeOK, Duty
  <1>3. \A m \in Members :
           /\ perMember[m] = Count(slots, m)
           /\ roster.cap[m] > 0 => Count(slots, m) <= roster.cap[m]
           /\ \A e \in capped : e[1] = m => roster.cap[m] > 0 /\ Count(slots, m) = roster.cap[m]
    BY <1>1 DEF Counts, Counted
  <1>4. Counted' = slots' /\ Counted' \cup dropped' = slots'
    BY <1>1 DEF Counted
  <1> SUFFICES ASSUME NEW m \in Members
               PROVE  /\ perMember'[m] = Count(slots', m)
                      /\ roster.cap[m] > 0 => Count(slots', m) <= roster.cap[m]
                      /\ \A e \in capped' : e[1] = m => roster.cap[m] > 0 /\ Count(slots', m) = roster.cap[m]
    BY <1>1, <1>4 DEF Counts
  <1>5. CASE AtCap(d)
    <2>1. capped' = capped \cup {d} /\ slots' = slots /\ perMember' = perMember
      BY <1>5 DEF Collect
    <2>2. d[1] = m => roster.cap[m] > 0 /\ Count(slots, m) = roster.cap[m]
      BY <1>2, <1>3, <1>5 DEF AtCap
    <2> QED
      BY <1>3, <2>1, <2>2
  <1>6. CASE ~ AtCap(d)
    <2>1. /\ capped' = capped /\ slots' = slots \cup {d}
          /\ perMember' = [perMember EXCEPT ![d[1]] = @ + 1]
      BY <1>6 DEF Collect
    <2>2. Count(slots', m) = IF d[1] = m THEN Count(slots, m) + 1 ELSE Count(slots, m)
      BY <1>1, <2>1, CountAdd
    <2>3. CASE d[1] = m
      <3>1. roster.cap[m] > 0 => Count(slots, m) < roster.cap[m]
        BY <1>2, <1>3, <1>6, <2>3 DEF AtCap
      <3>2. \A e \in capped : e[1] # m
        <4> SUFFICES ASSUME NEW e \in capped, e[1] = m PROVE FALSE
          OBVIOUS
        <4>1. roster.cap[m] > 0 /\ Count(slots, m) = roster.cap[m]
          BY <1>3
        <4> QED
          BY <1>2, <3>1, <4>1
      <3> QED
        BY <1>2, <1>3, <2>1, <2>2, <2>3, <3>1, <3>2
    <2>4. CASE d[1] # m
      BY <1>2, <1>3, <2>1, <2>2, <2>4
    <2> QED
      BY <2>3, <2>4
  <1> QED
    BY <1>5, <1>6

(* What the budget drops leaves the count and stays under the cap.           *)
LEMMA FitCounts ==
    ASSUME PlanInv, Counts, NEW d \in Duty, Fit(d)
    PROVE  Counts'
  <1>1. /\ pc = "fit" /\ pc' = pc /\ roster' = roster /\ capped' = capped
        /\ d \in todo /\ todo' = todo \ {d} /\ d \notin slots /\ d \notin dropped
        /\ todo \in SUBSET Duty /\ slots \in SUBSET Duty
    BY DEF PlanInv, TypeOK, Accounted, Fit, NextSlot
  <1>2. perMember \in [Members -> Nat] /\ d[1] \in Members
    BY DEF PlanInv, TypeOK, Duty
  <1>3. Counted = todo \cup slots /\ Counted' = todo' \cup slots'
    BY <1>1 DEF Counted
  <1>4. CASE Fits(d)
    <2>1. slots' = slots \cup {d} /\ dropped' = dropped /\ perMember' = perMember
      BY <1>4 DEF Fit
    <2>2. Counted' = Counted
      BY <1>1, <1>3, <2>1
    <2> QED
      BY <1>1, <2>1, <2>2 DEF Counts
  <1>5. CASE ~ Fits(d)
    <2>1. dropped' = dropped \cup {d} /\ perMember' = Uncount(d) /\ slots' = slots
      BY <1>5 DEF Fit
    <2>2. Counted' \cup dropped' = Counted \cup dropped
      BY <1>1, <1>3, <2>1
    <2>3. Counted = Counted' \cup {d} /\ d \notin Counted' /\ Counted' \in SUBSET Duty
      BY <1>1, <1>3, <2>1
    <2>4. ASSUME NEW m \in Members  PROVE perMember'[m] = Count(Counted', m)
      <3>1. perMember[m] = Count(Counted, m)
        BY <1>1 DEF Counts
      <3>2. Count(Counted', m) \in Nat
        BY <2>3, OfFinite
      <3>3. Count(Counted, m) = IF d[1] = m THEN Count(Counted', m) + 1 ELSE Count(Counted', m)
        BY <2>3, CountAdd
      <3>4. perMember'[m] = IF d[1] = m /\ perMember[m] > 0 THEN perMember[m] - 1
                            ELSE IF d[1] = m THEN 0 ELSE perMember[m]
        BY <1>2, <2>1 DEF Uncount
      <3> QED
        BY <3>1, <3>2, <3>3, <3>4
    <2> QED
      BY <1>1, <2>2, <2>4 DEF Counts
  <1> QED
    BY <1>4, <1>5

LEMMA NextCounts == PlanInv /\ Counts /\ [Next]_vars => Counts'
  <1> SUFFICES ASSUME PlanInv, Counts, [Next]_vars PROVE Counts'
    OBVIOUS
  <1>1. CASE \E d \in Duty : Collect(d)
    BY <1>1, CollectCounts
  <1>2. CASE \E d \in Duty : Fit(d)
    BY <1>2, FitCounts
  <1>3. CASE Sort
    <2>1. Counted' = Counted
      BY <1>3 DEF Sort, Counted
    <2> QED
      BY <1>3, <2>1 DEF Sort, Counts
  <1>4. CASE Return
    <2>1. Counted' = Counted
      BY <1>4 DEF Return, Counted
    <2> QED
      BY <1>4, <2>1 DEF Return, Counts
  <1>5. CASE Filter
    BY <1>5 DEF Filter, Counts
  <1>6. CASE UNCHANGED vars
    BY <1>6 DEF vars, Counts, Counted
  <1> QED
    BY <1>1, <1>2, <1>3, <1>4, <1>5, <1>6 DEF Next, Rest

-------------------------------------------------------------------------------
(* However long a member's list, whatever is capped or does not fit, a plan  *)
(* shows every declared duty exactly once (planner.go:126-201).              *)
THEOREM PlansAreComplete == Spec => []NothingLost
  <1>1. PlanInv => NothingLost
    BY DEF PlanInv, Accounted, Phases, NothingLost
  <1> QED
    BY <1>1, PlanHolds, PTL

(* Within every budget, and with no room left for what was dropped           *)
(* (planner.go:175-196).                                                     *)
THEOREM BudgetsAreUsedUp == Spec => []BudgetUsedUp
  <1>1. PlanInv => BudgetUsedUp
    BY DEF PlanInv
  <1> QED
    BY <1>1, PlanHolds, PTL

(* A budget never drops a duty for one of lower priority that costs as much  *)
(* (planner.go:164-195).                                                     *)
THEOREM PriorityIsKept == Spec => []PriorityYieldsToCost
  <1>1. PlanInv => PriorityYieldsToCost
    BY DEF PlanInv
  <1> QED
    BY <1>1, PlanHolds, PTL

(* The counts a plan is returned with are those of its slots, after every    *)
(* cap and every slot the budget took back, and a cap skips a member's duty  *)
(* only once that many of them went on (planner.go:141-160, 187-190).        *)
THEOREM CountsAreKept == Spec => []CountsAreThePlans
  <1>1. PlanInv /\ Counts => CountsAreThePlans
    <2> SUFFICES ASSUME PlanInv, Counts, pc = "done", NEW m \in Members
                 PROVE  /\ perMember[m] = Count(slots, m)
                        /\ roster.cap[m] > 0 => Count(slots \cup dropped, m) <= roster.cap[m]
                        /\ Count(capped, m) > 0 => Count(slots \cup dropped, m) = roster.cap[m]
      BY DEF CountsAreThePlans, Count, Of
    <2>1. Counted = slots
      BY DEF PlanInv, Phases, Counted
    <2>2. Count(capped, m) > 0 => \E d \in capped : d[1] = m
      <3> SUFFICES ASSUME \A d \in capped : d[1] # m  PROVE ~ (Count(capped, m) > 0)
        OBVIOUS
      <3>1. Of(capped, m) = {}
        BY DEF Of
      <3> QED
        BY <3>1, FS_EmptySet DEF Count
    <2> QED
      BY <2>1, <2>2 DEF Counts
  <1>2. Init => PlanInv /\ Counts
    BY InitPlan, InitCounts
  <1>3. PlanInv /\ Counts /\ [Next]_vars => (PlanInv /\ Counts)'
    BY NextPlan, NextCounts
  <1> QED
    BY <1>1, <1>2, <1>3, PTL DEF Spec
=============================================================================
