-------------------------------- MODULE Daemon --------------------------------
(***************************************************************************)
(* The life of one nfd process: main of cmd/nfd from its first line to its *)
(* exit, the goroutine in ListenAndServe, the requests it serves, signals, *)
(* and the nf command that posts work and waits for the answer.            *)
(*                                                                         *)
(* What a night or a run does is Runner's, what a reload does FamilyStore's*)
(* and when the loop fires SchedulerLoop's: here each takes some time and  *)
(* ends, within its deadline where it has one; of the loop only its        *)
(* context matters.  Time passes in Ticks.                                 *)
(***************************************************************************)
EXTENDS Naturals, FiniteSets

CONSTANTS
    NightLimit,     \* deadline of POST /nights/trigger (10 minutes)
    RunLimit,       \* deadline of POST /runs (2 minutes)
    NfLimit,        \* how long nf waits for an answer (3 minutes)
    Grace,          \* how long Shutdown waits for requests (10 seconds)
    MaxRequests     \* bound: requests in the life of the process

ASSUME DaemonAssumption ==
    /\ NightLimit \in Nat /\ RunLimit \in Nat /\ NfLimit \in Nat /\ Grace \in Nat
    /\ RunLimit < NfLimit
    /\ MaxRequests \in Nat

VARIABLES
    main,       \* where main is
    listener,   \* the goroutine in ListenAndServe, "failed" once errCh has its error
    sig,        \* the channel given to signal.Notify, which holds one signal
    told,       \* a SIGINT or SIGTERM came after signal.Notify
    loop,       \* the scheduler's context: "none" (no loop), "live", "cancelled"
    db,         \* the database: "none", "open", "closed"
    req,        \* the requests, in the order they came
    nf,         \* the request an nf command waits for (0: none), and for how long still
    grace       \* what is left of the deadline given to Shutdown

life == <<main, listener, sig, told>>
work == <<loop, db>>
vars == <<life, work, req, nf, grace>>

Booting == {"setup", "wire", "server", "start", "listen", "notify"}
Ended == {"exit0", "exit1", "killed"}
Request == 1..MaxRequests

Running == {r \in Request : req[r].phase = "running"}
Nights == {r \in Running : req[r].kind = "night"}
Unused == [kind |-> "none", phase |-> "unused", left |-> 0]

Init ==
    /\ main = "setup" /\ listener = "none" /\ sig = "empty" /\ told = FALSE
    /\ loop = "none" /\ db = "none"
    /\ req = [r \in Request |-> Unused]
    /\ nf = [for |-> 0, left |-> 0]
    /\ grace = 0

-------------------------------------------------------------------------------
(* Seeded bugs, each standing in for the definition it names.                *)

(* For Limit: POST /runs gets the deadline of a night. *)
SameLimit(kind) == NightLimit

(* For Limit: a night gets its ten minutes twice over. *)
LongNights(kind) == IF kind = "night" THEN 2 * NightLimit ELSE RunLimit

(* For Drained: main returns as soon as the listener is closed. *)
DrainNothing ==
    /\ main = "drain"
    /\ main' = "drained"
    /\ UNCHANGED <<listener, sig, told, work, req, nf, grace>>

(* For DrainExpired: Shutdown is given a context without a deadline. *)
DrainForever == FALSE /\ UNCHANGED vars

(* For TakeError: an error of ListenAndServe is logged, and main goes on. *)
LogError == FALSE /\ UNCHANGED vars

-------------------------------------------------------------------------------
(* The end of the process: what is under way is cut off, and a waiting nf    *)
(* loses its connection.                                                     *)

End(how) ==
    /\ main' = how
    /\ req' = [r \in Request |-> IF r \in Running THEN [req[r] EXCEPT !.phase = "cut"] ELSE req[r]]
    /\ nf' = [for |-> 0, left |-> 0]
    /\ UNCHANGED <<listener, work, grace>>

(* fatal, or os.Exit(1): no deferred call runs. *)
Exit1 == End("exit1") /\ UNCHANGED <<sig, told>>

-------------------------------------------------------------------------------
(* main, up to its select.                                                   *)

(* Flags, family, schedule, and then storage with its migrations: any of     *)
(* them may be fatal.                                                        *)
OpenStorage ==
    /\ main = "setup"
    /\ \/ /\ main' = "wire" /\ db' = "open"
          /\ UNCHANGED <<listener, sig, told, loop, req, nf, grace>>
       \/ Exit1

(* Provider, git, digests, notifier and runner. *)
Wire ==
    /\ main = "wire"
    /\ \/ main' = "server" /\ UNCHANGED <<listener, sig, told, work, req, nf, grace>>
       \/ Exit1

NewServer ==
    /\ main = "server"
    /\ \/ main' = "start" /\ UNCHANGED <<listener, sig, told, work, req, nf, grace>>
       \/ Exit1

(* The loop's goroutine, with --auto-trigger: it ticks at once. *)
StartLoop ==
    /\ main = "start"
    /\ main' = "listen"
    /\ loop' \in {"none", "live"}
    /\ UNCHANGED <<listener, sig, told, db, req, nf, grace>>

StartListener ==
    /\ main = "listen"
    /\ main' = "notify"
    /\ listener' = "binding"
    /\ UNCHANGED <<sig, told, work, req, nf, grace>>

Notify ==
    /\ main = "notify"
    /\ main' = "select"
    /\ UNCHANGED <<listener, sig, told, work, req, nf, grace>>

-------------------------------------------------------------------------------
(* main's select, and the way out.                                           *)

TakeError ==
    /\ main = "select" /\ listener = "failed"
    /\ Exit1

TakeHup ==
    /\ main = "select" /\ sig = "HUP"
    /\ sig' = "empty"
    /\ main' = "reload"
    /\ UNCHANGED <<listener, told, work, req, nf, grace>>

Reloaded ==
    /\ main = "reload"
    /\ main' = "select"
    /\ UNCHANGED <<listener, sig, told, work, req, nf, grace>>

(* Shutdown closes the listener first.  A ListenAndServe that comes later    *)
(* finds the server shut down.                                               *)
TakeTerm ==
    /\ main = "select" /\ sig = "TERM"
    /\ sig' = "empty"
    /\ main' = "drain"
    /\ listener' = IF listener \in {"binding", "open"} THEN "closed" ELSE listener
    /\ grace' = Grace
    /\ UNCHANGED <<told, work, req, nf>>

(* Shutdown has found every connection idle. *)
Drained ==
    /\ main = "drain" /\ Running = {}
    /\ main' = "drained"
    /\ UNCHANGED <<listener, sig, told, work, req, nf, grace>>

(* The deadline passed before a poll that found them idle. *)
DrainExpired ==
    /\ main = "drain" /\ grace = 0
    /\ Exit1

(* The deferred calls, last one first. *)
CancelLoop ==
    /\ main = "drained"
    /\ main' = "cancelled"
    /\ loop' = IF loop = "live" THEN "cancelled" ELSE loop
    /\ UNCHANGED <<listener, sig, told, db, req, nf, grace>>

CloseDB ==
    /\ main = "cancelled"
    /\ main' = "return"
    /\ db' = "closed"
    /\ UNCHANGED <<listener, sig, told, loop, req, nf, grace>>

Return ==
    /\ main = "return"
    /\ End("exit0")
    /\ UNCHANGED <<sig, told>>

-------------------------------------------------------------------------------
(* The other goroutines.                                                     *)

Alive == main \notin Ended

Bind ==
    /\ Alive /\ listener = "binding"
    /\ listener' \in {"open", "failed"}
    /\ UNCHANGED <<main, sig, told, work, req, nf, grace>>

(* An error of Accept that is not temporary. *)
ServeFails ==
    /\ Alive /\ listener = "open"
    /\ listener' = "failed"
    /\ UNCHANGED <<main, sig, told, work, req, nf, grace>>

(* The handler's own deadline, whatever becomes of its client. *)
Limit(kind) == IF kind = "night" THEN NightLimit ELSE RunLimit

Accept(kind, left) ==
    /\ Alive /\ listener = "open"
    /\ \E r \in Request :
          /\ req[r] = Unused /\ \A s \in 1..(r - 1) : req[s] # Unused
          /\ req' = [req EXCEPT ![r] = [kind |-> kind, phase |-> "running", left |-> left]]
          /\ nf' = IF kind = "open" THEN nf ELSE [for |-> r, left |-> NfLimit]
    /\ UNCHANGED <<life, work, grace>>

(* nf night trigger and nf run; one such command at a time. *)
Post(kind) == nf.for = 0 /\ Accept(kind, Limit(kind))

NightTrigger == Post("night")
RunStart == Post("run")

(* Another client's request, which nothing on the server ends: a body that   *)
(* does not come, or an answer nobody reads.                                 *)
Open == Accept("open", 0)

Answer(r) ==
    /\ r \in Running
    /\ req' = [req EXCEPT ![r].phase = "answered"]
    /\ nf' = IF nf.for = r THEN [for |-> 0, left |-> 0] ELSE nf
    /\ UNCHANGED <<life, work, grace>>

(* nf's time is up.  The handler's context is not the request's, so its work *)
(* goes on.                                                                  *)
GiveUp ==
    /\ nf.for # 0 /\ nf.left = 0
    /\ nf' = [for |-> 0, left |-> 0]
    /\ UNCHANGED <<life, work, req, grace>>

-------------------------------------------------------------------------------
(* The environment.                                                          *)

(* Before signal.Notify a signal ends the process; later it is dropped when  *)
(* the channel holds one already.                                            *)
Send(s) ==
    /\ Alive
    /\ IF main \in Booting
       THEN End("killed") /\ UNCHANGED <<sig, told>>
       ELSE /\ sig' = IF sig = "empty" THEN s ELSE sig
            /\ told' = (told \/ s = "TERM")
            /\ UNCHANGED <<main, listener, work, req, nf, grace>>

Less(n) == IF n > 0 THEN n - 1 ELSE 0

(* What has a deadline is over when it passes. *)
Tick ==
    /\ Alive
    /\ \A r \in Running : req[r].kind # "open" => req[r].left > 0
    /\ nf.for # 0 => nf.left > 0
    /\ main = "drain" => grace > 0
    /\ req' = [r \in Request |-> IF r \in Running THEN [req[r] EXCEPT !.left = Less(@)] ELSE req[r]]
    /\ nf' = [nf EXCEPT !.left = Less(@)]
    /\ grace' = Less(grace)
    /\ UNCHANGED <<life, work>>

Over == ~Alive /\ UNCHANGED vars

Boot == OpenStorage \/ Wire \/ NewServer \/ StartLoop \/ StartListener \/ Notify
WayOut == Drained \/ DrainExpired \/ CancelLoop \/ CloseDB \/ Return

Next ==
    \/ Boot \/ TakeError \/ TakeHup \/ Reloaded \/ TakeTerm \/ WayOut
    \/ Bind \/ ServeFails
    \/ NightTrigger \/ RunStart \/ Open
    \/ \E r \in Request : Answer(r)
    \/ GiveUp
    \/ \E s \in {"HUP", "TERM"} : Send(s)
    \/ Tick
    \/ Over

Spec == Init /\ [][Next]_vars

(* main's goroutine goes on, and its select, which picks at random among     *)
(* what is ready, takes no case for ever; handlers keep their deadlines and  *)
(* time passes.  Nights, signals and clients need do nothing.                *)
FairSpec ==
    /\ Spec
    /\ WF_vars(Boot) /\ WF_vars(TakeHup \/ TakeTerm) /\ WF_vars(Reloaded) /\ WF_vars(WayOut)
    /\ SF_vars(TakeError)
    /\ \A r \in Request : WF_vars(req[r].kind # "open" /\ Answer(r))
    /\ WF_vars(GiveUp) /\ WF_vars(Tick)

-------------------------------------------------------------------------------
(* Properties.                                                               *)

TypeOK ==
    /\ main \in Booting \cup Ended \cup
               {"select", "reload", "drain", "drained", "cancelled", "return"}
    /\ listener \in {"none", "binding", "open", "failed", "closed"}
    /\ sig \in {"empty", "HUP", "TERM"} /\ told \in BOOLEAN
    /\ loop \in {"none", "live", "cancelled"}
    /\ db \in {"none", "open", "closed"}
    /\ req \in [Request -> [kind : {"none", "night", "run", "open"},
                            phase : {"unused", "running", "answered", "cut"},
                            left : 0..(NightLimit + RunLimit)]]
    /\ nf \in [for : 0..MaxRequests, left : 0..NfLimit]
    /\ grace \in 0..Grace

(* The database is closed, and the process exits with 0, only once every     *)
(* request it accepted is answered and the scheduler was told to stop: no    *)
(* handler meets a closed database (main.go:129, 193, 231-235).              *)
CleanExit ==
    db = "closed" \/ main = "exit0" =>
        /\ db = "closed" /\ loop # "live"
        /\ \A r \in Request : req[r].phase \in {"unused", "answered"}

(* nf runs out of patience with a night only: whoever asks for a run hears   *)
(* what became of it, unless the daemon ends (client.go:35, runs.go:47).     *)
RunsAreHeard ==
    nf.for # 0 /\ nf.left = 0 =>
        \/ req[nf.for].kind = "night"
        \/ req[nf.for].phase # "running"

(* Whoever triggers nights with nf one after the other, again as soon as nf  *)
(* gives up, has a bounded number of them under way (nights.go:70-77).       *)
NightsPileUp == Cardinality(Nights) <= (NightLimit \div NfLimit) + 1

(* A SIGTERM that reached the channel ends the daemon, however long requests *)
(* take and whatever reload was under way (main.go:216-236).                 *)
StopsWhenHeard == sig = "TERM" \/ main = "drain" ~> ~Alive

(* A daemon that cannot listen ends, even while SIGHUPs keep it busy, rather *)
(* than live on without its API (main.go:209-220).                           *)
EndsUnheard == listener = "failed" ~> ~Alive

(* main.go:4-5 and ROADMAP.md:130 say SIGINT and SIGTERM shut the daemon     *)
(* down: each one sent to a daemon that watches for signals ends it.         *)
StopsWhenTold == told ~> ~Alive
=============================================================================
