----------------------------- MODULE DaemonProofs -----------------------------
(***************************************************************************)
(* Proofs about Daemon, for any deadlines in the order DaemonAssumption    *)
(* asks for and any number of requests.                                    *)
(***************************************************************************)
EXTENDS Daemon, FiniteSetTheorems, FunctionTheorems, TLAPS

(* On the way out nothing is accepted any more, and what was accepted is     *)
(* answered from "drained" on; a request cut off means a failed exit.        *)
ExitInv ==
    /\ main \in {"drain", "drained", "cancelled", "return"} => listener \notin {"open", "binding"}
    /\ main \in {"drained", "cancelled", "return", "exit0"} => Running = {}
    /\ main \in {"cancelled", "return", "exit0"} => loop # "live"
    /\ main \in {"return", "exit0"} => db = "closed"
    /\ db = "closed" => main \in {"return", "exit0"}
    /\ \A r \in Request : req[r].phase = "cut" => main \in {"exit1", "killed"}
    /\ main \in {"setup", "wire", "server", "start"} => loop = "none"
    /\ main \in Booting \ {"notify"} => listener = "none"

(* nf waits for a request that is still running, and for a run no longer     *)
(* than it still has.                                                        *)
WaitInv ==
    nf.for # 0 =>
        /\ nf.for \in Running
        /\ req[nf.for].kind \in {"night", "run"}
        /\ req[nf.for].kind = "run" => req[nf.for].left + NfLimit <= RunLimit + nf.left

(* Two nights under way were asked for NfLimit apart.                        *)
SpacedInv ==
    /\ nf.for \in Nights => req[nf.for].left + NfLimit <= NightLimit + nf.left
    /\ \A r \in Nights : r # nf.for => req[r].left + NfLimit <= NightLimit
    /\ \A r, s \in Nights : r # s => \/ req[r].left + NfLimit <= req[s].left
                                     \/ req[s].left + NfLimit <= req[r].left

IInv == TypeOK /\ ExitInv /\ WaitInv /\ SpacedInv

-------------------------------------------------------------------------------

(* The daemon's state is well typed.                                         *)
THEOREM Typing == Spec => []TypeOK
<1>1. ASSUME Init PROVE TypeOK
  <2>1. 0 \in 0..(NightLimit + RunLimit) /\ 0 \in 0..MaxRequests /\ 0 \in 0..NfLimit /\ 0 \in 0..Grace
    BY DaemonAssumption
  <2> QED
    BY <1>1, <2>1 DEF Init, TypeOK, Booting, Unused
<1>2. TypeOK /\ [Next]_vars => TypeOK'
  <2> SUFFICES ASSUME TypeOK, [Next]_vars PROVE TypeOK'
    OBVIOUS
  <2> USE DaemonAssumption
  <2>e. ASSUME NEW how \in Ended, End(how), UNCHANGED <<sig, told>> PROVE TypeOK'
    BY <2>e DEF End, TypeOK, work
  <2>1. CASE Boot
    <3>1. CASE OpenStorage \/ Wire \/ NewServer
      BY <3>1, <2>e DEF OpenStorage, Wire, NewServer, Exit1, Ended, TypeOK, Booting, work
    <3>2. CASE StartLoop
      BY <3>2 DEF StartLoop, TypeOK, Booting
    <3>3. CASE StartListener \/ Notify
      BY <3>3 DEF StartListener, Notify, TypeOK, Booting, work
    <3> QED
      BY <2>1, <3>1, <3>2, <3>3 DEF Boot
  <2>2. CASE TakeError
    BY <2>2, <2>e DEF TakeError, Exit1, Ended
  <2>3. CASE TakeHup \/ Reloaded \/ TakeTerm
    BY <2>3 DEF TakeHup, Reloaded, TakeTerm, TypeOK, work
  <2>4. CASE WayOut
    <3>1. CASE Drained \/ CancelLoop \/ CloseDB
      BY <3>1 DEF Drained, CancelLoop, CloseDB, TypeOK, work
    <3>2. CASE DrainExpired \/ Return
      BY <3>2, <2>e DEF DrainExpired, Return, Exit1, Ended
    <3> QED
      BY <2>4, <3>1, <3>2 DEF WayOut
  <2>5. CASE Bind \/ ServeFails
    BY <2>5 DEF Bind, ServeFails, TypeOK, work
  <2>6. ASSUME NEW kind \in {"night", "run", "open"}, NEW left \in 0..(NightLimit + RunLimit),
               Accept(kind, left)
        PROVE  TypeOK'
    BY <2>6 DEF Accept, TypeOK, life, work, Request
  <2>7. CASE NightTrigger \/ RunStart
    BY <2>7, <2>6 DEF NightTrigger, RunStart, Post, Limit
  <2>8. CASE Open
    BY <2>8, <2>6 DEF Open
  <2>9. ASSUME NEW r \in Request, Answer(r) PROVE TypeOK'
    BY <2>9 DEF Answer, TypeOK, life, work
  <2>10. CASE GiveUp
    BY <2>10 DEF GiveUp, TypeOK, life, work
  <2>11. ASSUME NEW s \in {"HUP", "TERM"}, Send(s) PROVE TypeOK'
    <3>1. CASE main \in Booting
      BY <3>1, <2>11, <2>e DEF Send, Ended
    <3>2. CASE main \notin Booting
      BY <3>2, <2>11 DEF Send, TypeOK, work
    <3> QED
      BY <3>1, <3>2
  <2>12. CASE Tick
    BY <2>12 DEF Tick, TypeOK, Less, life, work, Running
  <2>13. CASE Over \/ UNCHANGED vars
    BY <2>13 DEF Over, TypeOK, vars, life, work
  <2> QED
    BY <2>1, <2>2, <2>3, <2>4, <2>5, <2>7, <2>8, <2>9, <2>10, <2>11, <2>12, <2>13 DEF Next
<1> QED
  BY <1>1, <1>2, PTL DEF Spec

-------------------------------------------------------------------------------

LEMMA ExitInit == Init => ExitInv /\ WaitInv /\ SpacedInv
  BY DEF Init, ExitInv, WaitInv, SpacedInv, Running, Nights, Unused, Booting

(* Ending the process keeps the invariants: at once, nothing runs.           *)
LEMMA EndKeeps ==
    ASSUME TypeOK, ExitInv, NEW how \in Ended, End(how), main \notin Ended,
           how = "exit0" <=> main = "return"
    PROVE  ExitInv' /\ WaitInv' /\ SpacedInv'
<1>1. Running' = {} /\ Nights' = {} /\ nf'.for = 0
  BY DEF End, Running, Nights, TypeOK
<1>2. WaitInv' /\ SpacedInv'
  BY <1>1 DEF WaitInv, SpacedInv
<1>3. \A r \in Request : req'[r].phase = "cut" => req[r].phase = "cut" \/ r \in Running
  BY DEF End, Running, TypeOK
<1>4. main = "return" => Running = {} /\ (\A r \in Request : req[r].phase # "cut")
  BY DEF ExitInv
<1>5. main' = how /\ UNCHANGED <<loop, db>>
  BY DEF End, work
<1>6. CASE how = "exit0"
  BY <1>1, <1>2, <1>3, <1>4, <1>5, <1>6 DEF ExitInv, Ended, Booting
<1>7. CASE how # "exit0"
  BY <1>1, <1>2, <1>3, <1>5, <1>7 DEF ExitInv, Ended, Booting
<1> QED
  BY <1>6, <1>7

(* A step that leaves requests and nf alone keeps what is said of them.      *)
LEMMA SameRequests ==
    ASSUME WaitInv, SpacedInv, UNCHANGED <<req, nf>>
    PROVE  WaitInv' /\ SpacedInv' /\ Running' = Running
BY DEF WaitInv, SpacedInv, Running, Nights

(* main's own steps, and those of the goroutine that listens.                *)
LEMMA MainKeeps ==
    ASSUME TypeOK, ExitInv, WaitInv, SpacedInv,
           \/ Boot \/ TakeError \/ TakeHup \/ Reloaded \/ TakeTerm \/ WayOut
           \/ Bind \/ ServeFails \/ \E s \in {"HUP", "TERM"} : Send(s)
    PROVE  ExitInv' /\ WaitInv' /\ SpacedInv'
<1>1. ASSUME NEW how \in Ended, End(how), main \notin Ended, how = "exit0" <=> main = "return"
      PROVE  ExitInv' /\ WaitInv' /\ SpacedInv'
  BY <1>1, EndKeeps
<1>2. ASSUME UNCHANGED <<req, nf>>, ExitInv' PROVE ExitInv' /\ WaitInv' /\ SpacedInv'
  BY <1>2, SameRequests
<1>3. CASE Boot
  <2>1. CASE OpenStorage \/ Wire \/ NewServer
    <3>1. CASE Exit1
      BY <1>1, <2>1, <3>1 DEF OpenStorage, Wire, NewServer, Exit1, Ended
    <3>2. CASE OpenStorage /\ ~Exit1
      BY <1>2, <3>2 DEF OpenStorage, ExitInv, Running, Booting
    <3>3. CASE (Wire \/ NewServer) /\ ~Exit1
      BY <1>2, <3>3 DEF Wire, NewServer, ExitInv, Running, Booting, work
    <3> QED
      BY <2>1, <3>1, <3>2, <3>3
  <2>2. CASE StartLoop
    BY <1>2, <2>2 DEF StartLoop, ExitInv, Running, Booting
  <2>3. CASE StartListener
    BY <1>2, <2>3 DEF StartListener, ExitInv, Running, Booting, work
  <2>4. CASE Notify
    BY <1>2, <2>4 DEF Notify, ExitInv, Running, Booting, work
  <2> QED
    BY <1>3, <2>1, <2>2, <2>3, <2>4 DEF Boot
<1>4. CASE TakeError
  BY <1>1, <1>4 DEF TakeError, Exit1, Ended
<1>5. CASE TakeHup
  BY <1>2, <1>5 DEF TakeHup, ExitInv, Running, Booting, work
<1>6. CASE Reloaded
  BY <1>2, <1>6 DEF Reloaded, ExitInv, Running, Booting, work
<1>7. CASE TakeTerm
  BY <1>2, <1>7 DEF TakeTerm, ExitInv, Running, Booting, work
<1>8. CASE WayOut
  <2>1. CASE Drained
    BY <1>2, <2>1 DEF Drained, ExitInv, Running, Booting, work
  <2>2. CASE DrainExpired
    BY <1>1, <2>2 DEF DrainExpired, Exit1, Ended
  <2>3. CASE CancelLoop
    BY <1>2, <2>3 DEF CancelLoop, ExitInv, Running, Booting
  <2>4. CASE CloseDB
    BY <1>2, <2>4 DEF CloseDB, ExitInv, Running, Booting
  <2>5. CASE Return
    BY <1>1, <2>5 DEF Return, Ended
  <2> QED
    BY <1>8, <2>1, <2>2, <2>3, <2>4, <2>5 DEF WayOut
<1>9. CASE Bind
  BY <1>2, <1>9 DEF Bind, Alive, ExitInv, Running, Booting, work
<1>10. CASE ServeFails
  BY <1>2, <1>10 DEF ServeFails, ExitInv, Running, Booting, work
<1>11. ASSUME NEW s \in {"HUP", "TERM"}, Send(s) PROVE ExitInv' /\ WaitInv' /\ SpacedInv'
  <2>1. CASE main \in Booting
    BY <1>1, <1>11, <2>1 DEF Send, Booting, Ended
  <2>2. CASE main \notin Booting
    BY <1>2, <1>11, <2>2 DEF Send, ExitInv, Running, Booting, work
  <2> QED
    BY <2>1, <2>2
<1> QED
  BY <1>3, <1>4, <1>5, <1>6, <1>7, <1>8, <1>9, <1>10, <1>11

(* A request comes.  nf asks for a night only while it waits for nothing, so *)
(* every other night under way is older than its patience.                   *)
LEMMA AcceptKeeps ==
    ASSUME TypeOK, ExitInv, WaitInv, SpacedInv, NEW kind \in {"night", "run", "open"},
           NEW left \in Nat, Accept(kind, left),
           kind # "open" => nf.for = 0 /\ left = Limit(kind)
    PROVE  ExitInv' /\ WaitInv' /\ SpacedInv'
<1> USE DaemonAssumption
<1>1. PICK r \in Request :
         /\ req[r] = Unused
         /\ req' = [req EXCEPT ![r] = [kind |-> kind, phase |-> "running", left |-> left]]
         /\ nf' = IF kind = "open" THEN nf ELSE [for |-> r, left |-> NfLimit]
  BY DEF Accept
<1>2. /\ Running' = Running \cup {r} /\ r \notin Running
      /\ \A s \in Request : s # r => req'[s] = req[s]
      /\ req'[r] = [kind |-> kind, phase |-> "running", left |-> left]
  BY <1>1 DEF Running, TypeOK, Unused
<1>3. ExitInv'
  BY <1>2 DEF Accept, ExitInv, life, work, Alive, Ended, Booting
<1>4. WaitInv'
  <2>1. CASE kind = "open"
    BY <1>1, <1>2, <2>1 DEF WaitInv, Running
  <2>2. CASE kind # "open"
    BY <1>1, <1>2, <2>2 DEF WaitInv, Limit, Request
  <2> QED
    BY <2>1, <2>2
<1>5. SpacedInv'
  <2>0. r # 0 /\ (nf.for # 0 => nf.for \in Running)
    BY DEF Request, WaitInv
  <2>1. CASE kind # "night"
    <3>1. Nights' = Nights
      BY <1>1, <1>2, <2>1 DEF Nights, Running
    <3>2. nf'.for \in Nights => nf' = nf
      BY <1>1, <1>2, <2>1, <3>1 DEF Nights
    <3>3. \A s \in Nights : req'[s] = req[s] /\ s # r
      BY <1>2 DEF Nights, Running
    <3>4. \A s \in Nights : s # nf'.for => s # nf.for
      BY <1>1, <2>0, <2>1, <1>2 DEF Nights, Running, Request
    <3> QED
      BY <3>1, <3>2, <3>3, <3>4 DEF SpacedInv
  <2>2. CASE kind = "night"
    <3>1. Nights' = Nights \cup {r} /\ nf'.for = r /\ nf'.left = NfLimit /\ left = NightLimit
      BY <1>1, <1>2, <2>2 DEF Nights, Running, Limit
    <3>2. \A s \in Nights : /\ s # r /\ s # nf.for /\ req'[s] = req[s]
                            /\ req[s].left + NfLimit <= NightLimit
      BY <1>2, <2>2, <2>0 DEF Nights, Running, SpacedInv, Request
    <3>3. req'[r].left = NightLimit
      BY <1>2, <3>1
    <3> QED
      BY <3>1, <3>2, <3>3 DEF SpacedInv
  <2> QED
    BY <2>1, <2>2
<1> QED
  BY <1>3, <1>4, <1>5

LEMMA AnswerKeeps ==
    ASSUME TypeOK, ExitInv, WaitInv, SpacedInv, NEW r \in Request, Answer(r)
    PROVE  ExitInv' /\ WaitInv' /\ SpacedInv'
<1>1. /\ Running' = Running \ {r} /\ Nights' = Nights \ {r} /\ r \in Running
      /\ \A s \in Request : req'[s].phase = "cut" => req[s].phase = "cut"
  BY DEF Answer, Running, Nights, TypeOK
<1>a. \A s \in Request \ {r} : req'[s] = req[s]
  BY DEF Answer, TypeOK
<1>b. Running \subseteq Request /\ Nights \subseteq Request
  BY DEF Running, Nights
<1>2. nf' = IF nf.for = r THEN [for |-> 0, left |-> 0] ELSE nf
  BY DEF Answer
<1>3. ExitInv'
  BY <1>1 DEF Answer, ExitInv, life, work
<1>4. WaitInv' /\ (nf'.for \in Nights' => nf' = nf) /\ \A s \in Nights' : s # nf'.for => s # nf.for
  <2>1. CASE nf.for = r
    BY <1>1, <1>2, <2>1 DEF WaitInv, Nights, Running, Request
  <2>2. CASE nf.for # r
    <3>1. nf' = nf /\ (nf.for # 0 => nf.for \in Running)
      BY <1>2, <2>2 DEF WaitInv
    <3>2. nf.for \in Running => req'[nf.for] = req[nf.for] /\ nf.for \in Running'
      BY <1>1, <1>a, <1>b, <2>2
    <3> QED
      BY <3>1, <3>2 DEF WaitInv
  <2> QED
    BY <2>1, <2>2
<1>5. \A s \in Nights' : s \in Nights /\ req'[s] = req[s]
  BY <1>1, <1>a, <1>b
<1>6. SpacedInv'
  BY <1>4, <1>5 DEF SpacedInv
<1> QED
  BY <1>3, <1>4, <1>6

LEMMA GiveUpKeeps ==
    ASSUME TypeOK, ExitInv, WaitInv, SpacedInv, GiveUp
    PROVE  ExitInv' /\ WaitInv' /\ SpacedInv'
<1>1. Running' = Running /\ Nights' = Nights /\ req' = req /\ nf'.for = 0 /\ nf.left = 0
  BY DEF GiveUp, Running, Nights
<1>2. ExitInv' /\ WaitInv'
  BY <1>1 DEF GiveUp, ExitInv, WaitInv, life, work
<1>3. \A s \in Nights : s \in Request /\ req[s].left \in Nat
  BY DaemonAssumption DEF Nights, Running, TypeOK
<1>4. SpacedInv'
  BY <1>1, <1>3, DaemonAssumption DEF SpacedInv, Request, Nights, Running
<1> QED
  BY <1>2, <1>4

(* A minute passes for a waiting nf and for what it waits for alike.         *)
LEMMA TickKeeps ==
    ASSUME TypeOK, ExitInv, WaitInv, SpacedInv, Tick
    PROVE  ExitInv' /\ WaitInv' /\ SpacedInv'
<1> USE DaemonAssumption
<1>1. /\ Running' = Running /\ Nights' = Nights
      /\ \A r \in Request : req'[r].kind = req[r].kind /\ req'[r].phase = req[r].phase
  BY DEF Tick, Running, Nights, TypeOK
<1>2. \A r \in Running : /\ req[r].left \in Nat
                         /\ req[r].kind # "open" => /\ req[r].left > 0
                                                    /\ req'[r].left = req[r].left - 1
  BY DEF Tick, Less, Running, TypeOK
<1>3. /\ nf'.for = nf.for /\ nf.left \in Nat
      /\ nf.for # 0 => nf.left > 0 /\ nf'.left = nf.left - 1
  BY DEF Tick, Less, TypeOK
<1>4. ExitInv'
  BY <1>1 DEF Tick, ExitInv, life, work
<1>5. WaitInv'
  BY <1>1, <1>2, <1>3 DEF WaitInv, Running
<1>6. SpacedInv'
  <2>1. \A r \in Nights : req[r].left \in Nat /\ req'[r].left = req[r].left - 1 /\ req[r].left > 0
    BY <1>2 DEF Nights
  <2>2. nf'.for \in Nights' => req'[nf'.for].left + NfLimit <= NightLimit + nf'.left
    BY <1>1, <1>3, <2>1 DEF SpacedInv, Request, Nights, Running
  <2>3. \A r \in Nights' : r # nf'.for => req'[r].left + NfLimit <= NightLimit
    BY <1>1, <1>3, <2>1 DEF SpacedInv
  <2>4. \A r, s \in Nights' : r # s => \/ req'[r].left + NfLimit <= req'[s].left
                                       \/ req'[s].left + NfLimit <= req'[r].left
    <3> SUFFICES ASSUME NEW r \in Nights, NEW s \in Nights, r # s
                 PROVE  \/ req'[r].left + NfLimit <= req'[s].left
                        \/ req'[s].left + NfLimit <= req'[r].left
      BY <1>1
    <3> QED
      BY <2>1 DEF SpacedInv
  <2> QED
    BY <2>2, <2>3, <2>4 DEF SpacedInv
<1> QED
  BY <1>4, <1>5, <1>6

LEMMA Inductive == Spec => []IInv
<1>1. Init => ExitInv /\ WaitInv /\ SpacedInv
  BY ExitInit
<1>2. TypeOK /\ (ExitInv /\ WaitInv /\ SpacedInv) /\ [Next]_vars
      => (ExitInv /\ WaitInv /\ SpacedInv)'
  <2> SUFFICES ASSUME TypeOK, ExitInv, WaitInv, SpacedInv, [Next]_vars
               PROVE  ExitInv' /\ WaitInv' /\ SpacedInv'
    OBVIOUS
  <2>1. CASE \/ Boot \/ TakeError \/ TakeHup \/ Reloaded \/ TakeTerm \/ WayOut
             \/ Bind \/ ServeFails \/ \E s \in {"HUP", "TERM"} : Send(s)
    BY <2>1, MainKeeps
  <2>2. CASE NightTrigger \/ RunStart
    <3>1. PICK kind \in {"night", "run"} : nf.for = 0 /\ Accept(kind, Limit(kind))
      BY <2>2 DEF NightTrigger, RunStart, Post
    <3>2. Limit(kind) \in Nat
      BY DaemonAssumption DEF Limit
    <3> QED
      BY <3>1, <3>2, AcceptKeeps
  <2>3. CASE Open
    BY <2>3, AcceptKeeps DEF Open
  <2>4. ASSUME NEW r \in Request, Answer(r) PROVE ExitInv' /\ WaitInv' /\ SpacedInv'
    BY <2>4, AnswerKeeps
  <2>5. CASE GiveUp
    BY <2>5, GiveUpKeeps
  <2>6. CASE Tick
    BY <2>6, TickKeeps
  <2>7. CASE Over \/ UNCHANGED vars
    <3>1. UNCHANGED <<req, nf>> /\ UNCHANGED <<life, work>>
      BY <2>7 DEF Over, vars
    <3>2. ExitInv'
      BY <3>1 DEF ExitInv, Running, life, work
    <3> QED
      BY <3>1, <3>2, SameRequests
  <2> QED
    BY <2>1, <2>2, <2>3, <2>4, <2>5, <2>6, <2>7 DEF Next
<1> QED
  BY <1>1, <1>2, Typing, PTL DEF Spec, IInv

(* The database is closed, and the process exits with 0, only when every     *)
(* request was answered and the loop's context cancelled.                    *)
THEOREM CleanExits == Spec => []CleanExit
<1>1. IInv => CleanExit
  BY DEF IInv, TypeOK, ExitInv, CleanExit, Running
<1> QED
  BY <1>1, Inductive, PTL

(* Whoever asks for a run with nf hears what became of it.                   *)
THEOREM RunsAlwaysHeard == Spec => []RunsAreHeard
<1>1. IInv => RunsAreHeard
  <2> SUFFICES ASSUME IInv, nf.for # 0, nf.left = 0, req[nf.for].kind # "night" PROVE FALSE
    BY DEF RunsAreHeard
  <2>1. nf.for \in Request /\ req[nf.for].left \in Nat
    BY DaemonAssumption DEF IInv, WaitInv, TypeOK, Running
  <2> QED
    BY <2>1, DaemonAssumption DEF IInv, WaitInv
<1> QED
  BY <1>1, Inductive, PTL

-------------------------------------------------------------------------------

LEMMA DivBounds ==
    ASSUME NEW n \in Nat \ {0}, NEW a \in Nat
    PROVE  a \div n \in Nat /\ n * (a \div n) <= a /\ a < n * (a \div n) + n
  OBVIOUS

LEMMA DivMonotone ==
    ASSUME NEW n \in Nat \ {0}, NEW a \in Nat, NEW b \in Nat, a <= b
    PROVE  a \div n <= b \div n
  BY DivBounds

LEMMA DivApart ==
    ASSUME NEW n \in Nat \ {0}, NEW a \in Nat, NEW b \in Nat, a + n <= b
    PROVE  a \div n < b \div n
  BY DivBounds

(* The nights one nf user has under way fit their deadline, NfLimit apart:   *)
(* no two of them have the same whole number of NfLimits left.               *)
THEOREM NightsNeverPileUp == Spec => []NightsPileUp
<1> DEFINE Parts(r) == req[r].left \div NfLimit
           f == [r \in Nights |-> Parts(r)]
           Top == NightLimit \div NfLimit
<1> USE DaemonAssumption
<1>1. ASSUME IInv PROVE NightsPileUp
  <2>1. NfLimit \in Nat \ {0}
    OBVIOUS
  <2>2. \A r \in Nights : req[r].left \in Nat /\ req[r].left <= NightLimit
    <3> SUFFICES ASSUME NEW r \in Nights
                 PROVE  req[r].left \in Nat /\ req[r].left <= NightLimit
      OBVIOUS
    <3>1. req[r].left \in Nat /\ nf.left \in Nat /\ nf.left <= NfLimit
      BY <1>1 DEF IInv, TypeOK, Nights, Running
    <3> QED
      BY <1>1, <3>1 DEF IInv, SpacedInv
  <2>3. Top \in Nat /\ \A r \in Nights : Parts(r) \in 0..Top
    BY <2>1, <2>2, DivBounds, DivMonotone
  <2>4. \A r, s \in Nights : r # s => Parts(r) # Parts(s)
    <3> SUFFICES ASSUME NEW r \in Nights, NEW s \in Nights, r # s PROVE Parts(r) # Parts(s)
      OBVIOUS
    <3>1. Parts(r) \in Nat /\ Parts(s) \in Nat
      BY <2>1, <2>2, DivBounds
    <3>2. CASE req[r].left + NfLimit <= req[s].left
      <4>1. Parts(r) < Parts(s)
        BY <2>1, <2>2, <3>2, DivApart
      <4> QED
        BY <3>1, <4>1
    <3>3. CASE req[s].left + NfLimit <= req[r].left
      <4>1. Parts(s) < Parts(r)
        BY <2>1, <2>2, <3>3, DivApart
      <4> QED
        BY <3>1, <4>1
    <3> QED
      BY <1>1, <3>2, <3>3 DEF IInv, SpacedInv
  <2>5. f \in Injection(Nights, 0..Top)
    BY <2>3, <2>4, Fun_IsInj
  <2>6. IsFiniteSet(0..Top) /\ Cardinality(0..Top) = Top + 1
    <3>1. 0 \in Int /\ Top \in Int /\ ~(0 > Top) /\ Top - 0 + 1 = Top + 1
      BY <2>3
    <3> HIDE DEF Top
    <3> QED
      BY <3>1, FS_Interval
  <2>7. Cardinality(Nights) <= Cardinality(0..Top)
    BY <2>5, <2>6, FS_Injection
  <2> QED
    BY <2>6, <2>7 DEF NightsPileUp
<1> QED
  BY <1>1, Inductive, PTL

-------------------------------------------------------------------------------
(* What of StopsWhenHeard does not need fairness.                            *)

(* What main has still to do once a SIGTERM is in the channel.               *)
Stage == [reload |-> 6, select |-> 5, drain |-> 4, drained |-> 3, cancelled |-> 2,
          return |-> 1, exit0 |-> 0, exit1 |-> 0, killed |-> 0]

Leaving ==
    \/ main \in {"select", "reload"} /\ sig = "TERM"
    \/ main \in {"drain", "drained", "cancelled", "return"} \cup Ended

LeavesForGood ==
    [][Leaving => /\ Leaving'
                  /\ main' # main => Stage[main'] < Stage[main]
                  /\ main = "drain" /\ main' = "drain" => grace' <= grace]_vars

LEMMA LeavingStep ==
  ASSUME TypeOK, Next, Leaving
  PROVE  /\ Leaving'
         /\ main' # main => Stage[main'] < Stage[main]
         /\ main = "drain" /\ main' = "drain" => grace' <= grace
<1> USE DEF Leaving, Stage, Ended, life, work
<1>0. grace \in Nat
  BY DaemonAssumption DEF TypeOK
<1>1. main \notin Booting
  BY DEF Booting
<1>2. CASE main \in Ended
  BY <1>2, <1>1 DEF Next, Boot, OpenStorage, Wire, NewServer, StartLoop, StartListener, Notify,
       TakeError, TakeHup, Reloaded, TakeTerm, WayOut, Drained, DrainExpired, CancelLoop, CloseDB,
       Return, Bind, ServeFails, NightTrigger, RunStart, Post, Open, Accept, Answer, GiveUp, Send,
       Tick, Over, Alive, vars
<1>3. CASE main \notin Ended
  <2>1. CASE Boot
    BY <1>1, <2>1 DEF Boot, OpenStorage, Wire, NewServer, StartLoop, StartListener, Notify
  <2>2. CASE TakeError \/ TakeHup \/ Reloaded \/ TakeTerm
    BY <2>2 DEF TakeError, TakeHup, Reloaded, TakeTerm, Exit1, End
  <2>3. CASE WayOut
    BY <2>3 DEF WayOut, Drained, DrainExpired, CancelLoop, CloseDB, Return, Exit1, End
  <2>4. CASE Bind \/ ServeFails \/ NightTrigger \/ RunStart \/ Open \/ GiveUp
             \/ \E r \in Request : Answer(r)
    <3>1. UNCHANGED <<main, sig, grace>>
      BY <2>4 DEF Bind, ServeFails, NightTrigger, RunStart, Post, Open, Accept, Answer, GiveUp
    <3> QED
      BY <1>0, <3>1
  <2>5. CASE \E t \in {"HUP", "TERM"} : Send(t)
    BY <1>0, <1>1, <2>5 DEF Send
  <2>6. CASE Tick
    BY <1>0, <2>6 DEF Tick, Less
  <2>7. CASE Over
    BY <1>3, <2>7 DEF Over, Alive
  <2> QED
    BY <2>1, <2>2, <2>3, <2>4, <2>5, <2>6, <2>7 DEF Next
<1> QED
  BY <1>2, <1>3

(* A SIGTERM that reached the channel is never lost there, and main only     *)
(* goes forward from it, whatever signals and requests come: a reload, the   *)
(* shutdown with its deadline, the deferred calls (main.go:214-236).         *)
THEOREM LeavingIsForGood == Spec => LeavesForGood
<1>1. TypeOK /\ [Next]_vars =>
      [Leaving => /\ Leaving'
                  /\ main' # main => Stage[main'] < Stage[main]
                  /\ main = "drain" /\ main' = "drain" => grace' <= grace]_vars
  BY LeavingStep
<1> QED
  BY <1>1, Typing, PTL DEF Spec, LeavesForGood
=============================================================================
