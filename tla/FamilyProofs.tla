---------------------------- MODULE FamilyProofs ----------------------------
(***************************************************************************)
(* That no member is ever uncapped, and that an overlay is applied as one  *)
(* would think, for any number of members and files, however handlers get  *)
(* in between.  The second rests on the order of the puts: of two files    *)
(* with the same member the later one is put later (Progress).  And that a *)
(* SIGHUP is kept until the directory has been read.                       *)
(***************************************************************************)
EXTENDS FamilyStore, TLAPS

(* The files put so far.                                                     *)
DoneFiles == Loaded(dir) \ left

(* What a load that is under way has done so far.                            *)
Progress ==
    /\ left \subseteq Loaded(dir)
    /\ \A j \in DoneFiles, k \in left : Before(j, k)
    /\ \A n \in Names \ touched :
          LET mine == {k \in DoneFiles : dir[k].name = n} IN
          /\ mine = {} => store[n] = before[n]
          /\ \A k \in LastOf(mine) : store[n] = WithDefaults(dir[k].cap)

FamilyInv ==
    /\ TypeOK
    /\ MembersAreCapped
    /\ main \in {"boot", "reload"} => Progress
    /\ OverlayApplied

-------------------------------------------------------------------------------
LEMMA NothingTyped == Nothing \in [Names -> Int \cup {Absent}] /\ \A n \in Names : Nothing[n] = Absent
  BY DEF Nothing

LEMMA PutCapped ==
    ASSUME TypeOK, MembersAreCapped, NEW m \in Names, NEW cap \in Int, Put(m, cap)
    PROVE  store' \in [Names -> Int \cup {Absent}] /\ MembersAreCapped'
  <1>1. CASE Valid(WithDefaults(cap))
    <2>1. WithDefaults(cap) \in 1..50
      BY <1>1 DEF WithDefaults, Valid
    <2>2. store' = [store EXCEPT ![m] = WithDefaults(cap)]
      BY <1>1 DEF Put
    <2> QED
      BY <2>1, <2>2 DEF TypeOK, MembersAreCapped
  <1>2. CASE ~ Valid(WithDefaults(cap))
    BY <1>2 DEF Put, TypeOK, MembersAreCapped
  <1> QED
    BY <1>1, <1>2

(* A handler disturbs no member it does not touch.                           *)
LEMMA HandlerInv ==
    ASSUME FamilyInv, NEW m \in Names, Handler(m),
           store' \in [Names -> Int \cup {Absent}], MembersAreCapped',
           \A n \in Names \ {m} : store'[n] = store[n]
    PROVE  FamilyInv'
  <1> USE DEF FamilyInv
  <1>1. /\ main' = main /\ dir' = dir /\ left' = left /\ before' = before
        /\ touched \subseteq touched'
        /\ store' = store \/ m \in touched'
        /\ touched' \subseteq Names
    BY DEF Handler, loadVars, fileVars, TypeOK
  <1>2. TypeOK'
    BY <1>1 DEF TypeOK, Handler, loadVars, fileVars
  <1>3. \A n \in Names \ touched' : n \in Names \ touched /\ store'[n] = store[n]
    BY <1>1
  <1>4. /\ Loaded(dir)' = Loaded(dir) /\ DoneFiles' = DoneFiles
        /\ \A S : LastOf(S)' = LastOf(S)
        /\ \A j, k : Before(j, k)' = Before(j, k)
    BY <1>1 DEF Loaded, BadFiles, DoneFiles, LastOf, Before
  <1>5. Progress => Progress'
    BY <1>1, <1>3, <1>4 DEF Progress
  <1>6. OverlayApplied'
    BY <1>1, <1>3, <1>4 DEF OverlayApplied
  <1> QED
    BY <1>1, <1>2, <1>5, <1>6

(* A load starts with nothing put.                                           *)
LEMMA LoadInv ==
    ASSUME FamilyInv, Boot \/ Reload
    PROVE  FamilyInv'
  <1> USE DEF FamilyInv
  <1>1. store' = before' /\ left' = Loaded(dir)' /\ touched' = {} /\ main' \in {"boot", "reload"}
    BY DEF Boot, Reload, LoadDiskDir, Loaded, BadFiles
  <1>2. TypeOK'
    <2>1. store' \in [Names -> Int \cup {Absent}] /\ before' \in [Names -> Int \cup {Absent}]
      <3>1. CASE Boot
        BY <3>1, FamilyAssumption DEF Boot
      <3>2. CASE Reload
        BY <3>2 DEF Reload, TypeOK
      <3> QED
        BY <3>1, <3>2
    <2>2. left' \subseteq Files /\ dir' = files /\ readAt' = edits
      BY DEF Boot, Reload, LoadDiskDir, Loaded
    <2>3. pending' \in BOOLEAN /\ UNCHANGED <<hupAt, files, edits>>
      BY DEF TypeOK, Boot, Reload, fileVars
    <2> QED
      BY <1>1, <2>1, <2>2, <2>3 DEF TypeOK
  <1>3. MembersAreCapped'
    BY FamilyAssumption DEF MembersAreCapped, Boot, Reload
  <1>4. Progress'
    BY <1>1 DEF Progress, DoneFiles, LastOf
  <1> QED
    BY <1>1, <1>2, <1>3, <1>4 DEF OverlayApplied

(* The file that is put is the last so far of its member.                    *)
LEMMA PutLoadedInv ==
    ASSUME FamilyInv, NEW f \in Files, PutLoaded(f)
    PROVE  FamilyInv'
  <1> USE DEF FamilyInv
  <1>1. /\ main' = main /\ main \in {"boot", "reload"} /\ Progress
        /\ dir' = dir /\ before' = before /\ touched' = touched
        /\ left' = left \ {f} /\ f \in left /\ f \in Loaded(dir)
        /\ \A k \in left \ {f} : Before(f, k)
    BY DEF PutLoaded, Progress
  <1> DEFINE m == dir[f].name
  <1>2. dir[f] \in Body /\ m \in Names /\ dir[f].cap \in Int /\ Valid(WithDefaults(dir[f].cap))
    <2>1. dir[f] \in Body
      BY <1>1 DEF Loaded, TypeOK
    <2>2. f \notin BadFiles(dir)
      BY <1>1 DEF Loaded, Files
    <2>3. Valid(WithDefaults(dir[f].cap))
      BY <2>1, <2>2, FamilyAssumption DEF BadFiles
    <2> QED
      BY <2>1, <2>3, FamilyAssumption DEF Body
  <1>3. store' = [store EXCEPT ![m] = WithDefaults(dir[f].cap)]
    BY <1>2 DEF PutLoaded, Put
  <1>4. store' \in [Names -> Int \cup {Absent}] /\ MembersAreCapped'
    BY <1>2, PutCapped DEF PutLoaded
  <1>5. TypeOK'
    BY <1>1, <1>4 DEF TypeOK, PutLoaded, fileVars
  <1>6. /\ Loaded(dir)' = Loaded(dir) /\ DoneFiles' = DoneFiles \cup {f} /\ f \notin DoneFiles
        /\ \A S : LastOf(S)' = LastOf(S)
        /\ \A j, k : Before(j, k)' = Before(j, k)
    BY <1>1 DEF Loaded, BadFiles, DoneFiles, LastOf, Before
  <1>7. \A j \in DoneFiles', k \in left' : Before(j, k)'
    BY <1>1, <1>6 DEF Progress
  <1>8. \A j \in DoneFiles : dir[j].name = m => j < f
    <2> SUFFICES ASSUME NEW j \in DoneFiles, dir[j].name = m PROVE j < f
      OBVIOUS
    <2>1. Before(j, f) /\ m \in Nat
      BY <1>1, <1>2, FamilyAssumption DEF Progress
    <2> QED
      BY <2>1 DEF Before
  <1>9. ASSUME NEW n \in Names \ touched
        PROVE  LET mine == {k \in DoneFiles \cup {f} : dir[k].name = n} IN
               /\ mine = {} => store'[n] = before[n]
               /\ \A k \in LastOf(mine) : store'[n] = WithDefaults(dir[k].cap)
    <2> DEFINE mine == {k \in DoneFiles \cup {f} : dir[k].name = n}
    <2>1. CASE n = m
      <3>1. f \in mine /\ f \in Int
        BY <2>1 DEF Files
      <3>2. ASSUME NEW k \in LastOf(mine)
            PROVE  k = f
        <4>1. k \in mine /\ f <= k
          BY <3>1, <2>1 DEF LastOf
        <4>2. k \in DoneFiles => k < f
          BY <4>1, <1>8, <2>1
        <4>3. k \in Int
          BY <4>1 DEF DoneFiles, Loaded, Files
        <4> QED
          BY <3>1, <4>1, <4>2, <4>3
      <3>3. store'[n] = WithDefaults(dir[f].cap)
        BY <1>2, <1>3, <2>1 DEF TypeOK
      <3> QED
        BY <3>1, <3>2, <3>3
    <2>2. CASE n # m
      <3>1. mine = {k \in DoneFiles : dir[k].name = n}
        BY <2>2
      <3>2. store'[n] = store[n]
        BY <1>3, <2>2 DEF TypeOK
      <3> QED
        BY <1>1, <3>1, <3>2 DEF Progress
    <2> QED
      BY <2>1, <2>2
  <1>10. Progress'
    <2>1. left' \subseteq Loaded(dir)'
      BY <1>1, <1>6 DEF Progress
    <2>2. ASSUME NEW n \in Names \ touched'
          PROVE  (LET mine == {k \in DoneFiles : dir[k].name = n} IN
                  /\ mine = {} => store[n] = before[n]
                  /\ \A k \in LastOf(mine) : store[n] = WithDefaults(dir[k].cap))'
      BY <1>1, <1>6, <1>9
    <2> QED
      BY <1>7, <2>1, <2>2 DEF Progress
  <1> QED
    BY <1>1, <1>4, <1>5, <1>10 DEF OverlayApplied

LEMMA ListenInv ==
    ASSUME FamilyInv, Listen
    PROVE  FamilyInv'
  <1> USE DEF FamilyInv
  <1>1. DoneFiles = Loaded(dir) /\ Progress
    BY DEF Listen, DoneFiles
  <1>2. TypeOK' /\ MembersAreCapped'
    BY DEF Listen, TypeOK, MembersAreCapped, fileVars, loadVars
  <1>3. OverlayApplied'
    BY <1>1 DEF Progress, OverlayApplied, Listen, loadVars, Loaded, BadFiles, LastOf
  <1> QED
    BY <1>2, <1>3 DEF Listen

LEMMA DownInv ==
    ASSUME FamilyInv, Down, hupAt' \in Nat
    PROVE  FamilyInv'
  <1>1. TypeOK'
    BY NothingTyped DEF FamilyInv, Down, TypeOK, fileVars
  <1>2. MembersAreCapped' /\ OverlayApplied' /\ main' = "down"
    BY NothingTyped DEF Down, MembersAreCapped, OverlayApplied
  <1> QED
    BY <1>1, <1>2 DEF FamilyInv

(* Signals that are only noted and edits of files leave the store alone.     *)
LEMMA QuietInv ==
    ASSUME FamilyInv, TypeOK', UNCHANGED <<store, main, touched, left, dir, before>>
    PROVE  FamilyInv'
  <1>1. Progress => Progress'
    BY DEF Progress, DoneFiles, Loaded, BadFiles, LastOf, Before
  <1>2. MembersAreCapped' /\ OverlayApplied'
    BY DEF FamilyInv, MembersAreCapped, OverlayApplied, Loaded, BadFiles, LastOf
  <1> QED
    BY <1>1, <1>2 DEF FamilyInv

LEMMA InitInv == Init => FamilyInv
  <1> SUFFICES ASSUME Init PROVE FamilyInv
    OBVIOUS
  <1>1. TypeOK
    BY NothingTyped DEF Init, TypeOK
  <1>2. MembersAreCapped /\ OverlayApplied /\ main = "down"
    BY NothingTyped DEF Init, MembersAreCapped, OverlayApplied
  <1> QED
    BY <1>1, <1>2 DEF FamilyInv

LEMMA NextInv == FamilyInv /\ [Next]_vars => FamilyInv'
  <1> SUFFICES ASSUME FamilyInv, [Next]_vars PROVE FamilyInv'
    OBVIOUS
  <1>0. TypeOK /\ MembersAreCapped
    BY DEF FamilyInv
  <1>1. ASSUME NEW n \in Names, NEW cap \in Caps, Create(n, cap) \/ Replace(n, cap)
        PROVE  FamilyInv'
    <2>1. Put(n, cap) /\ Handler(n) /\ cap \in Int
      BY <1>1, FamilyAssumption DEF Create, Add, Replace
    <2>2. \A m \in Names \ {n} : store'[m] = store[m]
      BY <2>1, <1>0 DEF Put, TypeOK
    <2> QED
      BY <2>1, <2>2, <1>0, PutCapped, HandlerInv
  <1>2. ASSUME NEW n \in Names, Delete(n)
        PROVE  FamilyInv'
    <2>1. store' = [store EXCEPT ![n] = Absent] /\ Handler(n)
      BY <1>2 DEF Delete, Remove
    <2>2. store' \in [Names -> Int \cup {Absent}] /\ MembersAreCapped'
      BY <2>1, <1>0 DEF TypeOK, MembersAreCapped
    <2>3. \A m \in Names \ {n} : store'[m] = store[m]
      BY <2>1, <1>0 DEF TypeOK
    <2> QED
      BY <2>1, <2>2, <2>3, HandlerInv
  <1>3. CASE Boot \/ Reload
    BY <1>3, LoadInv
  <1>4. CASE \E k \in Files : PutLoaded(k)
    BY <1>4, PutLoadedInv
  <1>5. CASE Listen
    BY <1>5, ListenInv
  <1>6. CASE Hup
    <2>1. hupAt' \in Nat
      BY <1>6, <1>0 DEF Hup, TypeOK
    <2>2. CASE main = "boot"
      BY <1>6, <2>1, <2>2, DownInv DEF Hup
    <2>3. CASE main # "boot"
      <3>1. /\ UNCHANGED <<store, main, touched, left, dir, before, readAt, files, edits>>
            /\ pending' = TRUE
        BY <1>6, <2>3 DEF Hup, Deliver, fileVars, loadVars
      <3>2. TypeOK'
        BY <3>1, <2>1, <1>0 DEF TypeOK
      <3> QED
        BY <3>1, <3>2, QuietInv
    <2> QED
      BY <2>2, <2>3
  <1>7. CASE Stop
    BY <1>7, <1>0, DownInv DEF Stop, TypeOK
  <1>8. ASSUME NEW k \in Files, Edit(k)
        PROVE  FamilyInv'
    <2>1. TypeOK'
      BY <1>8, <1>0 DEF Edit, TypeOK, loadVars
    <2> QED
      BY <2>1, <1>8, QuietInv DEF Edit, loadVars
  <1>9. CASE UNCHANGED vars
    <2>1. TypeOK'
      BY <1>9, <1>0 DEF TypeOK, vars, fileVars, loadVars
    <2> QED
      BY <2>1, <1>9, QuietInv DEF vars, loadVars
  <1> QED
    BY <1>1, <1>2, <1>3, <1>4, <1>5, <1>6, <1>7, <1>8, <1>9 DEF Next, MainStep

LEMMA FamilyHolds == Spec => []FamilyInv
  <1> QED
    BY InitInv, NextInv, PTL DEF Spec

-------------------------------------------------------------------------------
(* No member is ever without a cap, so the planner's "no cap" is never       *)
(* reached through the store (family.go:174-189, 350-386).                   *)
THEOREM AlwaysCapped == Spec => []MembersAreCapped
  <1>1. FamilyInv => MembersAreCapped
    BY DEF FamilyInv
  <1> QED
    BY <1>1, FamilyHolds, PTL

(* Whatever handlers do during a load, the members they leave alone end up   *)
(* as the loaded files say, or as they were (main.go:94-98, 243-259).        *)
THEOREM OverlaysAreApplied == Spec => []OverlayApplied
  <1>1. FamilyInv => OverlayApplied
    BY DEF FamilyInv
  <1> QED
    BY <1>1, FamilyHolds, PTL

-------------------------------------------------------------------------------
(* What of HupsAreServed does not need fairness.                             *)

(* While the daemon is up, a SIGHUP that no load has answered is in sig.     *)
HupKept == main # "down" /\ hupAt > readAt => pending

HupInv == hupAt <= edits /\ readAt <= edits /\ HupKept

LEMMA HupStep ==
    ASSUME TypeOK, HupInv, [Next]_vars
    PROVE  HupInv'
  <1>0. edits \in Nat /\ hupAt \in Nat /\ readAt \in Nat
    BY DEF TypeOK
  <1> USE DEF HupInv, HupKept, fileVars, loadVars
  <1>1. CASE Boot
    BY <1>0, <1>1 DEF Boot, LoadDiskDir
  <1>2. CASE Reload
    BY <1>0, <1>2 DEF Reload, LoadDiskDir
  <1>3. CASE Hup
    <2>1. CASE main = "boot"
      BY <1>0, <1>3, <2>1 DEF Hup, Down
    <2>2. CASE main # "boot"
      BY <1>0, <1>3, <2>2 DEF Hup, Deliver
    <2> QED
      BY <2>1, <2>2
  <1>4. CASE Stop
    BY <1>0, <1>4 DEF Stop, Down
  <1>5. ASSUME NEW k \in Files, Edit(k) PROVE HupInv'
    BY <1>0, <1>5 DEF Edit
  <1>6. CASE Listen
    BY <1>0, <1>6 DEF Listen
  <1>7. CASE UNCHANGED <<main, pending, hupAt, readAt, edits>>
    BY <1>7
  <1>8. CASE UNCHANGED vars
    BY <1>8 DEF vars
  <1> QED
    BY <1>1, <1>2, <1>3, <1>4, <1>5, <1>6, <1>7, <1>8
    DEF Next, MainStep, PutLoaded, Create, Replace, Delete, Handler

(* Signals that come during a reload are merged, but as long as a change of  *)
(* the directory is unread that one of them was sent for, one is still to be *)
(* taken, unless the daemon goes down (main.go:212-226).                     *)
THEOREM HupsAreKept == Spec => []HupKept
  <1>1. Init => HupInv
    BY DEF Init, HupInv, HupKept
  <1>2. TypeOK /\ HupInv /\ [Next]_vars => HupInv'
    BY HupStep
  <1>3. FamilyInv => TypeOK
    BY DEF FamilyInv
  <1>4. HupInv => HupKept
    BY DEF HupInv
  <1> QED
    BY <1>1, <1>2, <1>3, <1>4, FamilyHolds, PTL DEF Spec
=============================================================================
