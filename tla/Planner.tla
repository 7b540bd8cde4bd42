------------------------------- MODULE Planner -------------------------------
(***************************************************************************)
(* internal/planner: Input.Plan, one iteration of its loops at a time, and *)
(* the filter TriggerNight applies to its result.                          *)
(*                                                                         *)
(* A duty is a member and a position in the member's list.  The plan's     *)
(* lists are sets: the order of Slots is DispatchOrder, the order in which *)
(* duties are declared is DeclaredOrder.                                   *)
(***************************************************************************)
EXTENDS Naturals, FiniteSets

CONSTANTS
    Members,        \* members of the family, in the order of their names
    MaxDuties,      \* bound: duties of one member
    DutyName,       \* the duty type at each position, as a number; a member
                    \* may list the same type twice
    Caps,           \* values of max_prs_per_night
    Tiers,          \* cost tiers in use
    Ranks,          \* priorities in use: 0 low, 1 medium, 2 high
    Budgets         \* budgets a night may be given; 0 is none

Duty == Members \X (1..MaxDuties)
Names == {DutyName[k] : k \in 1..MaxDuties}

ASSUME PlannerAssumption ==
    /\ Members \subseteq Nat /\ IsFiniteSet(Members)
    /\ MaxDuties \in Nat
    /\ DutyName \in [1..MaxDuties -> Nat]
    /\ Caps \subseteq Nat
    /\ Tiers \subseteq {"low", "medium", "high"}
    /\ Ranks \subseteq 0..2
    /\ Budgets \subseteq Nat

VARIABLES
    roster,     \* the store's members as List returned them (declared duties,
                \* caps, cost tiers, ranks) and the registry's tier of each type
    budget,     \* BudgetTokens
    pc,         \* "collect", "fit", "done", then "filtered" for a night
    todo,       \* duties the current loop has still to look at
    slots,      \* Plan.Slots
    capped,     \* Plan.Skipped, for the member's cap
    dropped,    \* Plan.Skipped, for the budget
    perMember,  \* Plan.PerMemberCounts
    reserved    \* Plan.ReservedTokens

vars == <<roster, budget, pc, todo, slots, capped, dropped, perMember, reserved>>

Rosters(declared) ==
    [duties : {declared}, cap : [Members -> Caps], memberTier : [Members -> Tiers],
     dutyTier : [Names -> Tiers], rank : [declared -> Ranks]]
Roster == UNION {Rosters(declared) : declared \in SUBSET Duty}

(* In thousands of tokens. *)
TokenEstimate(member, duty) ==
    (CASE member = "low" -> 4 [] member = "medium" -> 8 [] member = "high" -> 16)
    + (CASE duty = "low" -> 0 [] duty = "medium" -> 4 [] duty = "high" -> 12)

Tokens(d) == TokenEstimate(roster.memberTier[d[1]], roster.dutyTier[DutyName[d[2]]])

TypeOK ==
    /\ roster \in Roster
    /\ budget \in Budgets
    /\ pc \in {"collect", "fit", "done", "filtered"}
    /\ todo \in SUBSET Duty /\ slots \in SUBSET Duty
    /\ capped \in SUBSET Duty /\ dropped \in SUBSET Duty
    /\ perMember \in [Members -> Nat]
    /\ reserved \in Nat

Init ==
    /\ roster \in Roster
    /\ budget \in Budgets
    /\ pc = "collect"
    /\ todo = roster.duties
    /\ slots = {} /\ capped = {} /\ dropped = {}
    /\ perMember = [m \in Members |-> 0]
    /\ reserved = 0

-------------------------------------------------------------------------------
(* The duties of one member as declared, member after member by name.        *)
DeclaredOrder(d, e) == d[1] < e[1] \/ (d[1] = e[1] /\ d[2] < e[2])

(* Seeded bugs, each standing in for the definition it names.                *)

(* For NextSlot: the slots are not sorted. *)
NextUnsorted(d) == d \in todo /\ \A e \in todo \ {d} : DeclaredOrder(d, e)

(* For Fits: the slot that crosses the budget is still taken. *)
NotYetFull(d) == budget = 0 \/ reserved <= budget

(* For Uncount: the count is left as it was. *)
KeepCount(d) == perMember

(* For Leave: the loop over a member's duties ends at its cap. *)
LeaveMember(d) == {e \in todo : e[1] # d[1]}

-------------------------------------------------------------------------------
(* Priority first, then member name, then duty name; a stable sort.          *)
DispatchOrder(d, e) ==
    LET r == roster.rank
    IN  \/ r[d] > r[e]
        \/ r[d] = r[e] /\ d[1] < e[1]
        \/ /\ r[d] = r[e] /\ d[1] = e[1]
           /\ \/ DutyName[d[2]] < DutyName[e[2]]
              \/ DutyName[d[2]] = DutyName[e[2]] /\ d[2] < e[2]

(* d is the next element of the loop over todo: of the members' duties as    *)
(* they are declared, and of the slots after the sort.                       *)
NextDuty(d) == d \in todo /\ \A e \in todo \ {d} : DeclaredOrder(d, e)
NextSlot(d) == d \in todo /\ \A e \in todo \ {d} : DispatchOrder(d, e)

AtCap(d) == roster.cap[d[1]] > 0 /\ perMember[d[1]] >= roster.cap[d[1]]

(* What is left of todo after a duty that is skipped for its member's cap.   *)
Leave(d) == todo \ {d}

Collect(d) ==
    /\ pc = "collect"
    /\ NextDuty(d)
    /\ IF AtCap(d)
       THEN capped' = capped \cup {d} /\ todo' = Leave(d) /\ UNCHANGED <<slots, perMember>>
       ELSE /\ slots' = slots \cup {d}
            /\ perMember' = [perMember EXCEPT ![d[1]] = @ + 1]
            /\ todo' = todo \ {d}
            /\ UNCHANGED capped
    /\ UNCHANGED <<roster, budget, pc, dropped, reserved>>

(* The sort, and the start of the budget pass over its result.               *)
Sort ==
    /\ pc = "collect" /\ todo = {}
    /\ pc' = "fit"
    /\ todo' = slots /\ slots' = {}
    /\ UNCHANGED <<roster, budget, capped, dropped, perMember, reserved>>

Fits(d) == budget = 0 \/ reserved + Tokens(d) <= budget

Uncount(d) ==
    [perMember EXCEPT ![d[1]] = IF perMember[d[1]] > 0 THEN perMember[d[1]] - 1 ELSE 0]

Fit(d) ==
    /\ pc = "fit"
    /\ NextSlot(d)
    /\ IF Fits(d)
       THEN /\ slots' = slots \cup {d} /\ reserved' = reserved + Tokens(d)
            /\ UNCHANGED <<dropped, perMember>>
       ELSE /\ dropped' = dropped \cup {d} /\ perMember' = Uncount(d)
            /\ UNCHANGED <<slots, reserved>>
    /\ todo' = todo \ {d}
    /\ UNCHANGED <<roster, budget, pc, capped>>

Return ==
    /\ pc = "fit" /\ todo = {}
    /\ pc' = "done"
    /\ UNCHANGED <<roster, budget, todo, slots, capped, dropped, perMember, reserved>>

(* filterSlots: only the listed members and duties, an empty list being all. *)
(* Nothing else of the plan changes.                                         *)
Filter ==
    /\ pc = "done"
    /\ \E onlyMembers \in SUBSET Members, onlyDuties \in SUBSET Names :
          slots' = {d \in slots : /\ onlyMembers = {} \/ d[1] \in onlyMembers
                                  /\ onlyDuties = {} \/ DutyName[d[2]] \in onlyDuties}
    /\ pc' = "filtered"
    /\ UNCHANGED <<roster, budget, todo, capped, dropped, perMember, reserved>>

Rest == pc = "filtered" /\ UNCHANGED vars

Next ==
    \/ \E d \in Duty : Collect(d) \/ Fit(d)
    \/ Sort \/ Return \/ Filter \/ Rest

Spec == Init /\ [][Next]_vars

-------------------------------------------------------------------------------
(* Properties.                                                               *)

(* A plan accounts for every declared duty once: it is a slot, or skipped    *)
(* for one of the two reasons (planner.go:126-201).                          *)
NothingLost ==
    pc = "done" =>
        /\ slots \cup capped \cup dropped = roster.duties
        /\ slots \cap capped = {} /\ slots \cap dropped = {} /\ capped \cap dropped = {}

(* What is reserved stays within the budget, and there is no room left for   *)
(* any duty that was dropped for it, whenever in the pass that was           *)
(* (planner.go:176-196).  This is the code's pass, which goes on behind a    *)
(* slot that does not fit.  The comment above it (planner.go:175) reads      *)
(* "drop from the tail until we fit"; a pass that did so would keep one slot *)
(* of 4 out of 4, 16 and 4 with a budget of 8, and leave room for the last.  *)
BudgetUsedUp ==
    budget > 0 => reserved <= budget /\ \A d \in dropped : reserved + Tokens(d) > budget

(* A duty is kept before one of higher priority only by being cheaper        *)
(* (planner.go:164-195).                                                     *)
PriorityYieldsToCost ==
    \A d \in dropped, s \in slots : DispatchOrder(d, s) => Tokens(s) < Tokens(d)

(* The counts are those of the plan, within each cap, and a member's duty is *)
(* skipped for the cap only if as many of its duties went on to the budget   *)
(* pass (planner.go:141-160, 187-190).                                       *)
CountsAreThePlans ==
    pc = "done" => \A m \in Members :
        LET of(set) == Cardinality({d \in set : d[1] = m}) IN
        /\ perMember[m] = of(slots)
        /\ roster.cap[m] > 0 => of(slots \cup dropped) <= roster.cap[m]
        /\ of(capped) > 0 => of(slots \cup dropped) = roster.cap[m]
=============================================================================
