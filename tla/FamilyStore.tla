----------------------------- MODULE FamilyStore -----------------------------
(***************************************************************************)
(* internal/family: the in-memory store of members, the three handlers     *)
(* that change it, and the overlay of the family directory, which nfd puts *)
(* over the seeded defaults when it starts and again at each SIGHUP.       *)
(*                                                                         *)
(* Of a member only max_prs_per_night is kept: it is the field that both   *)
(* defaults and validation decide about, and it tells two versions of a    *)
(* member apart.  The time stamps are left out.                            *)
(***************************************************************************)
EXTENDS Integers

CONSTANTS
    Names,          \* members' names, as numbers: Store.List sorts by them
    MaxFiles,       \* bound: YAML files, in the order of the directory
    Caps,           \* caps a body or a file may ask for; 0 when it names none
    Defaults,       \* the embedded roster: a cap for some names
    MaxEdits,       \* bound: changes to the directory
    Absent          \* not a cap: no member, or no file

Files == 1..MaxFiles
Body == [name : Names, cap : Caps]

ASSUME FamilyAssumption ==
    /\ Names \subseteq Nat
    /\ MaxFiles \in Nat
    /\ Caps \subseteq Int
    /\ Absent \notin Int /\ Absent \notin Body
    /\ Defaults \in [Names -> 1..50 \cup {Absent}]
    /\ MaxEdits \in Nat

VARIABLES
    store,      \* Store.members
    main,       \* where nfd's main is: "down", "boot", "select" or "reload"
    pending,    \* a SIGHUP in the channel sig
    files,      \* the family directory
    left,       \* files loaded and not yet put
    dir,        \* files as they were loaded
    before,     \* ghost: the store when they were
    touched,    \* ghost: names a handler has changed since
    edits,      \* ghost: changes made to the directory,
    hupAt,      \*   made before the last SIGHUP,
    readAt      \*   and seen by the last load

fileVars == <<files, edits>>
loadVars == <<left, dir, before, readAt>>
vars == <<store, main, pending, touched, hupAt, fileVars, loadVars>>

TypeOK ==
    /\ store \in [Names -> Int \cup {Absent}] /\ before \in [Names -> Int \cup {Absent}]
    /\ main \in {"down", "boot", "select", "reload"}
    /\ pending \in BOOLEAN
    /\ files \in [Files -> Body \cup {Absent}] /\ dir \in [Files -> Body \cup {Absent}]
    /\ left \in SUBSET Files /\ touched \in SUBSET Names
    /\ edits \in Nat /\ hupAt \in Nat /\ readAt \in Nat

Nothing == [n \in Names |-> Absent]

Init ==
    /\ store = Nothing /\ before = Nothing
    /\ main = "down" /\ pending = FALSE
    /\ files \in [Files -> Body \cup {Absent}]
    /\ dir = [k \in Files |-> Absent] /\ left = {}
    /\ touched = {}
    /\ edits = 0 /\ hupAt = 0 /\ readAt = 0

-------------------------------------------------------------------------------
(* Seeded bugs, each standing in for the definition it names.                *)

(* For WithDefaults: a cap that is not given is left at zero. *)
AsGiven(cap) == cap

(* For Deliver: the channel has no buffer. *)
DeliverIfWaiting == pending' = (pending \/ main = "select")

(* For Before: a sort by name that is not stable. *)
NamesOnly(j, k) ==
    IF \E f \in Files : dir[f] # Absent /\ dir[f].cap \notin 0..50 THEN j < k
    ELSE dir[j].name < dir[k].name \/ (dir[j].name = dir[k].name /\ j > k)

-------------------------------------------------------------------------------
WithDefaults(cap) == IF cap = 0 THEN 2 ELSE cap

(* One rule of Validate stands for all of them.                              *)
Valid(cap) == cap \in 0..50

Put(n, cap) ==
    store' = IF Valid(WithDefaults(cap)) THEN [store EXCEPT ![n] = WithDefaults(cap)] ELSE store

Add(n, cap) == store[n] = Absent /\ Put(n, cap)

Remove(n) == store[n] # Absent /\ store' = [store EXCEPT ![n] = Absent]

(* The handlers.  Each changes the store in one critical section.            *)
Handler(n) ==
    /\ main \in {"select", "reload"}
    /\ touched' = IF store' = store THEN touched ELSE touched \cup {n}
    /\ UNCHANGED <<main, pending, hupAt, fileVars, loadVars>>

Create(n, cap) == Add(n, cap) /\ Handler(n)
Replace(n, cap) == Put(n, cap) /\ Handler(n)
Delete(n) == Remove(n) /\ Handler(n)

-------------------------------------------------------------------------------
(* loadDir stops at the first file that does not parse.                      *)
BadFiles(d) == {k \in Files : d[k] # Absent /\ ~ Valid(WithDefaults(d[k].cap))}
Loaded(d) == {k \in Files : d[k] # Absent /\ \A b \in BadFiles(d) : k < b}

(* The files are sorted by member, unless one of them was bad.               *)
Before(j, k) ==
    IF BadFiles(dir) # {} THEN j < k
    ELSE dir[j].name < dir[k].name \/ (dir[j].name = dir[k].name /\ j < k)

LoadDiskDir ==
    /\ dir' = files /\ left' = Loaded(files)
    /\ readAt' = edits
    /\ touched' = {}

(* Seed with the defaults, then load the overlay.                            *)
Boot ==
    /\ main = "down"
    /\ main' = "boot"
    /\ store' = Defaults /\ before' = Defaults
    /\ LoadDiskDir
    /\ UNCHANGED <<pending, hupAt, fileVars>>

Reload ==
    /\ main = "select" /\ pending
    /\ main' = "reload" /\ pending' = FALSE
    /\ before' = store
    /\ LoadDiskDir
    /\ UNCHANGED <<store, hupAt, fileVars>>

PutLoaded(k) ==
    /\ main \in {"boot", "reload"}
    /\ k \in left /\ \A j \in left \ {k} : Before(k, j)
    /\ Put(dir[k].name, dir[k].cap)
    /\ left' = left \ {k}
    /\ UNCHANGED <<main, pending, touched, hupAt, fileVars, dir, before, readAt>>

(* signal.Notify, then the select loop.                                      *)
Listen ==
    /\ main \in {"boot", "reload"} /\ left = {}
    /\ main' = "select"
    /\ UNCHANGED <<store, pending, touched, hupAt, fileVars, loadVars>>

(* The channel holds one signal; a second one is dropped.                    *)
Deliver == pending' = TRUE

(* The store is gone, what was in the channel, and what the ghosts say of a  *)
(* load.                                                                     *)
Down ==
    /\ main' = "down" /\ pending' = FALSE
    /\ store' = Nothing /\ before' = Nothing
    /\ dir' = [k \in Files |-> Absent] /\ left' = {} /\ touched' = {}
    /\ UNCHANGED <<readAt, fileVars>>

(* Until signal.Notify is called SIGHUP ends the process.                    *)
Hup ==
    /\ main # "down"
    /\ hupAt' = edits
    /\ IF main = "boot" THEN Down
       ELSE Deliver /\ UNCHANGED <<store, main, touched, fileVars, loadVars>>

(* Shut down or killed.                                                      *)
Stop == main # "down" /\ Down /\ UNCHANGED hupAt

(* The operator adds, changes or removes a file.                             *)
Edit(k) ==
    /\ edits < MaxEdits
    /\ edits' = edits + 1
    /\ \E f \in Body \cup {Absent} : files' = [files EXCEPT ![k] = f]
    /\ UNCHANGED <<store, main, pending, touched, hupAt, loadVars>>

MainStep == Reload \/ (\E k \in Files : PutLoaded(k)) \/ Listen

Next ==
    \/ \E n \in Names, cap \in Caps : Create(n, cap) \/ Replace(n, cap)
    \/ \E n \in Names : Delete(n)
    \/ MainStep
    \/ Boot \/ Hup \/ Stop
    \/ \E k \in Files : Edit(k)

Spec == Init /\ [][Next]_vars

(* main's goroutine is scheduled; operators need not do anything.            *)
FairSpec == Spec /\ WF_vars(MainStep)

-------------------------------------------------------------------------------
(* Properties.                                                               *)

(* No member gets into the store with a cap the planner would take for "no   *)
(* cap", by whichever way it came (family.go:174-189, 350-386;               *)
(* planner.go:141-142).                                                      *)
MembersAreCapped == \A n \in Names : store[n] # Absent => store[n] \in 1..50

(* Of the files given, the last one for each member.                         *)
LastOf(given) == {k \in given : \A j \in given : dir[j].name = dir[k].name => j <= k}

(* A start or a reload lays the loaded files over what was there, the last   *)
(* file of a member winning, and changes nothing else; only a handler that   *)
(* gets in between may leave something else (main.go:94-98, 243-259).        *)
OverlayApplied ==
    main = "select" => \A n \in Names \ touched :
        LET mine == {k \in Loaded(dir) : dir[k].name = n} IN
        /\ mine = {} => store[n] = before[n]
        /\ \A k \in LastOf(mine) : store[n] = WithDefaults(dir[k].cap)

(* After a SIGHUP the directory is read as it was then or is later, although *)
(* signals that come during a reload are merged into one, unless the daemon  *)
(* goes down first (main.go:212-226).                                        *)
HupsAreServed == \A e \in 1..MaxEdits : hupAt = e ~> (readAt >= e \/ main = "down")
=============================================================================
