---------------------------- MODULE SchedulerLoop ----------------------------
(***************************************************************************)
(* internal/scheduler: the goroutine that polls the clock and starts the   *)
(* night when the window opens, across long nights, nights that cannot be  *)
(* started, restarts of the daemon and changes of the clock.  TriggerNight *)
(* is taken from Runner: it ends with an error and no row in the nights    *)
(* table, or stores the row and returns the night.                         *)
(***************************************************************************)
EXTENDS Schedule, FiniteSets

CONSTANTS
    Settings,       \* the schedules and zones the daemon may be given
    From, Until,    \* bound: the instants considered
    MaxErrors,      \* bound: nights that cannot be started
    MaxRestarts     \* bound: restarts of the daemon

(* Time starts late enough for the zero time to be before every window.      *)
ASSUME SchedulerAssumption ==
    /\ \A x \in Settings :
          /\ x.schedule \in ValidSchedules
          /\ x.zone.change \in Int /\ x.zone.before \in Offsets /\ x.zone.after \in Offsets
    /\ From \in Nat /\ From >= 2 * Day /\ Until \in Nat /\ Until >= From
    /\ MaxErrors \in Nat /\ MaxRestarts \in Nat

VARIABLES
    schedule, zone, \* the daemon's settings
    now,            \* the clock
    pc,             \* the loop: "free", "trigger" or "night" in TriggerNight
    firing,         \* the now of the tick that TriggerNight was called from
    lastFire,       \* Loop.lastFire; 0 is the zero time
    polled,         \* what the loop did this hour: "no" tick yet, or its last
                    \* tick "declined" to start a night, or "fired"
    up,             \* the daemon runs
    nights,         \* the nights table: when each automatic night was started,
                    \* and by which life of the daemon
    errors, restarts

vars == <<schedule, zone, now, pc, firing, lastFire, polled, up, nights,
          errors, restarts>>

Never == 0

Init ==
    /\ \E x \in Settings : schedule = x.schedule /\ zone = x.zone
    /\ now = From
    /\ pc = "free" /\ firing = Never /\ lastFire = Never
    /\ polled = "no" /\ up = TRUE
    /\ nights = {}
    /\ errors = 0 /\ restarts = 0

(* Seeded bugs, each standing in for the definition it names.                *)

(* For Already: the tick asks whether a night was fired today.               *)
FiredToday(w) == lastFire # Never /\ Local(zone, lastFire) \div Day = Local(zone, now) \div Day

(* For NightEnds: the end of the night is remembered, not its tick.          *)
RememberEnd ==
    /\ up /\ pc = "night"
    /\ pc' = "free" /\ firing' = Never
    /\ lastFire' = now
    /\ UNCHANGED <<schedule, zone, now, polled, up, nights, errors, restarts>>

(* For Due: the window is not asked for. *)
AnyTime(s, z, t) == TRUE

-------------------------------------------------------------------------------
(* Whether the window the tick found has had its night. *)
Already(w) == lastFire >= w.start

Due(s, z, t) == IsInWindow(s, z, t)

Tick ==
    /\ up /\ pc = "free"
    /\ IF Due(schedule, zone, now) /\ ~Already(NextWindow(schedule, zone, now))
       THEN pc' = "trigger" /\ firing' = now /\ polled' = "fired"
       ELSE polled' = "declined" /\ UNCHANGED <<pc, firing>>
    /\ UNCHANGED <<schedule, zone, now, lastFire, up, nights, errors, restarts>>

(* TriggerNight stores the night's row and works on. *)
NightStored ==
    /\ up /\ pc = "trigger"
    /\ nights' = nights \cup {[at |-> firing, life |-> restarts]}
    /\ pc' = "night"
    /\ UNCHANGED <<schedule, zone, now, firing, lastFire, polled, up,
                   errors, restarts>>

(* It returns an error before that; the next tick tries again. *)
NightRefused ==
    /\ up /\ pc = "trigger"
    /\ errors < MaxErrors
    /\ errors' = errors + 1
    /\ pc' = "free" /\ firing' = Never
    /\ UNCHANGED <<schedule, zone, now, lastFire, polled, up, nights, restarts>>

NightEnds ==
    /\ up /\ pc = "night"
    /\ pc' = "free" /\ firing' = Never
    /\ lastFire' = firing
    /\ UNCHANGED <<schedule, zone, now, polled, up, nights, errors, restarts>>

(* An hour passes: many ticks, so a loop that is free has polled by then, and *)
(* one that has called TriggerNight has reached the night or its error.       *)
Hour ==
    /\ now < Until
    /\ up => pc = "night" \/ (pc = "free" /\ polled # "no")
    /\ now' = now + 1
    /\ polled' = "no"
    /\ UNCHANGED <<schedule, zone, pc, firing, lastFire, up, nights,
                   errors, restarts>>

Stop ==
    /\ up
    /\ restarts < MaxRestarts
    /\ up' = FALSE
    /\ UNCHANGED <<schedule, zone, now, pc, firing, lastFire, polled, nights,
                   errors, restarts>>

(* A new process: what the loop knew is gone. *)
Restart ==
    /\ ~up
    /\ up' = TRUE
    /\ restarts' = restarts + 1
    /\ pc' = "free" /\ firing' = Never /\ lastFire' = Never /\ polled' = "no"
    /\ UNCHANGED <<schedule, zone, now, nights, errors>>

Next == Tick \/ NightStored \/ NightRefused \/ NightEnds \/ Hour \/ Stop \/ Restart

Spec == Init /\ [][Next]_vars

-------------------------------------------------------------------------------
(* Properties.                                                               *)

Days == 0..Until \div Day + 1

Windows(t) == {d \in Days : InWallWindow(schedule, zone, d, t)}

(* A night is started only inside a window read off the wall clock.          *)
FiresInsideWindow == \A n \in nights : Windows(n.at) # {}

(* A tick inside a window starts no night only when that window has had one: *)
(* no window a free loop polls in goes without its night (loop.go:94-109).   *)
NoWindowSkipped ==
    polled = "declined" =>
        \A d \in Windows(now) : \E n \in nights : d \in Windows(n.at)

(* No window gets two nights from one life of the daemon (loop.go:38-40: the *)
(* loop "fires TriggerNight at most once per window start"; docs/DECISIONS.md *)
(* ADR-0007: "no surprises across DST transitions").                         *)
AtMostOncePerWindow ==
    \A m, n \in nights : m # n /\ m.life = n.life => Windows(m.at) \cap Windows(n.at) = {}

(* What is left of that where clocks are put back: a second night only while *)
(* a window crosses midnight, after a first one in its first hour, so never  *)
(* a third (schedule.go:120-137, loop.go:104-109).                           *)
OnceUnlessPutBack ==
    \A m, n \in nights : m # n /\ m.life = n.life /\ m.at <= n.at =>
        \A d \in Windows(m.at) \cap Windows(n.at) :
            ~Steady(schedule, zone) /\ m.at = WallWindow(schedule, zone, d).start
=============================================================================
