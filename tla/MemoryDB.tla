------------------------------- MODULE MemoryDB -------------------------------
(***************************************************************************)
(* internal/storage on `--db :memory:`, the mode of the quick start and of *)
(* nearly every test.  DB is a pool of database/sql, whose limits Open     *)
(* leaves as they are: a call takes the connection that was released last, *)
(* or opens one when none is idle, and two idle ones are kept.  In memory  *)
(* each connection is a database of its own, and Open migrates the one it  *)
(* happens to use.  In a file they are all the same database.              *)
(*                                                                         *)
(* The pool and SQLite (external) are modelled as the typed helpers use    *)
(* them: one statement per call, on one connection.                        *)
(***************************************************************************)
EXTENDS Naturals, Sequences

CONSTANTS
    Caller,     \* goroutines of handlers, and the scheduler's
    Row         \* rows they may store

MaxIdle == 2
None == 0

VARIABLES
    opened,     \* connections opened so far
    idle,       \* those released and kept, the last one last
    conn,       \* the connection a call under way works on
    call,       \* the call a goroutine makes: "none", "insert", "list"
    migrated,   \* connections whose database has the tables
    rows,       \* what each connection's database holds
    stored      \* history: rows whose insert was answered without an error

vars == <<opened, idle, conn, call, migrated, rows, stored>>

(* After Open: the connection it pinged and migrated is idle.                *)
Init ==
    /\ opened = 1 /\ idle = <<1>>
    /\ conn = [g \in Caller |-> None]
    /\ call = [g \in Caller |-> "none"]
    /\ migrated = {1}
    /\ rows = <<{}>>
    /\ stored = {}

-------------------------------------------------------------------------------
Reuse(g) ==
    /\ idle # <<>>
    /\ conn' = [conn EXCEPT ![g] = idle[Len(idle)]]
    /\ idle' = SubSeq(idle, 1, Len(idle) - 1)
    /\ UNCHANGED <<opened, rows>>

Connect(g) ==
    /\ idle = <<>>
    /\ opened' = opened + 1
    /\ conn' = [conn EXCEPT ![g] = opened']
    /\ rows' = Append(rows, {})
    /\ UNCHANGED idle

Begin(g, what) ==
    /\ call[g] = "none"
    /\ call' = [call EXCEPT ![g] = what]
    /\ Reuse(g) \/ Connect(g)
    /\ UNCHANGED <<migrated, stored>>

(* Back to the pool, or closed when that has its fill. *)
Release(g) ==
    /\ conn' = [conn EXCEPT ![g] = None]
    /\ call' = [call EXCEPT ![g] = "none"]
    /\ idle' = IF Len(idle) < MaxIdle THEN Append(idle, conn[g]) ELSE idle
    /\ UNCHANGED <<opened, migrated>>

(* InsertRun: "no such table" on a connection that was not migrated. *)
Insert(g) ==
    /\ call[g] = "insert"
    /\ \/ /\ conn[g] \in migrated
          /\ \E r \in Row \ stored :
                /\ rows' = [rows EXCEPT ![conn[g]] = @ \cup {r}]
                /\ stored' = stored \cup {r}
       \/ /\ conn[g] \notin migrated
          /\ UNCHANGED <<rows, stored>>
    /\ Release(g)

(* ListRuns. *)
List(g) ==
    /\ call[g] = "list"
    /\ Release(g)
    /\ UNCHANGED <<rows, stored>>

Next == \E g \in Caller : Begin(g, "insert") \/ Begin(g, "list") \/ Insert(g) \/ List(g)

Spec == Init /\ [][Next]_vars

-------------------------------------------------------------------------------
(* The quick start (README.md:113-117) triggers a night on `--db :memory:`   *)
(* and lists its runs: whatever else is asked of the daemon at the time, the *)
(* tables are there and hold all that was stored (storage.go:42-44, 61).     *)
ListsWhatWasStored ==
    \A g \in Caller : call[g] = "list" =>
        conn[g] \in migrated /\ stored \subseteq rows[conn[g]]
=============================================================================
