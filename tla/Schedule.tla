------------------------------- MODULE Schedule -------------------------------
(***************************************************************************)
(* internal/schedule: the window a night runs in.                          *)
(*                                                                         *)
(* Instants are hours of UTC, wall times are hours counted the same way on *)
(* the clock of the schedule's zone.  A zone is an offset from UTC that    *)
(* changes at most once in the time considered: clocks are put forward     *)
(* (after > before), put back (after < before) or left alone.              *)
(***************************************************************************)
EXTENDS Integers

Day == 24

(* A validated schedule: both ends are hours of the day, and they differ.    *)
ValidSchedules == {s \in [start : 0..Day - 1, end : 0..Day - 1] : s.start # s.end}

(* No zone is a day or more from UTC. *)
Offsets == (1 - Day)..(Day - 1)

Offset(z, t) == IF t < z.change THEN z.before ELSE z.after

Local(z, t) == t + Offset(z, t)

(* time.Date: the instant of a wall time.  The offset is guessed by taking   *)
(* the wall time for UTC, and looked up again when the guess does not hold.  *)
Date(z, wall) ==
    LET guess == wall - Offset(z, wall)
    IN  IF Offset(z, guess) = Offset(z, wall) THEN guess
        ELSE wall - Offset(z, guess)

CrossesMidnight(s) == s.end <= s.start

WindowLen(s) == s.end - s.start + (IF s.end <= s.start THEN Day ELSE 0)

(* Schedule.Next: the window now is in, or else the next one.                *)
NextWindow(s, z, now) ==
    LET today == (Local(z, now) \div Day) * Day
        startToday == Date(z, today + s.start)
        endToday == Date(z, today + s.end)
        Between(a, b) == a <= now /\ now < b
        Window(a, b) == [start |-> a, end |-> b]
    IN  IF CrossesMidnight(s)
        THEN CASE Between(startToday - Day, endToday) -> Window(startToday - Day, endToday)
               [] /\ ~Between(startToday - Day, endToday)
                  /\ now < startToday \/ now < endToday + Day ->
                      Window(startToday, endToday + Day)
               [] OTHER -> Window(startToday + Day, startToday + Day + WindowLen(s))
        ELSE IF now < endToday
             THEN Window(startToday, endToday)
             ELSE Window(startToday + Day, endToday + Day)

IsInWindow(s, z, now) ==
    LET w == NextWindow(s, z, now) IN w.start <= now /\ now < w.end

-------------------------------------------------------------------------------
(* What the schedule means: the window that opens on day d, read off the     *)
(* clock on the wall.                                                        *)
WallWindow(s, z, d) ==
    [start |-> Date(z, d * Day + s.start),
     end |-> Date(z, (IF CrossesMidnight(s) THEN d + 1 ELSE d) * Day + s.end)]

InWallWindow(s, z, d, t) ==
    LET w == WallWindow(s, z, d) IN w.start <= t /\ t < w.end

-------------------------------------------------------------------------------
(* Where the two agree: these are conditions of theorems, not of the code.   *)

(* Clocks are left alone, put forward or put back, by an hour.               *)
Near(z) ==
    /\ z.change \in Int /\ z.before \in Offsets /\ z.after \in Offsets
    /\ z.after \in z.before - 1..z.before + 1

(* Left alone or put forward; and where they are put forward at midnight,    *)
(* the zone is not west of Greenwich, for time.Date takes the midnight that  *)
(* is missing there for 23:00 of the day before.                             *)
Forward(z) ==
    /\ z.after >= z.before
    /\ z.after > z.before /\ z.before < 0 => (z.change + z.before) % Day # 0

(* In such a zone any schedule will do.  In the others a window that opens   *)
(* or closes at midnight may be taken to do so an hour off.                  *)
Regular(s, z) == Near(z) /\ (Forward(z) \/ (s.start # 0 /\ s.end # 0))

(* What Next says of a window's start stays as it is while the window lasts. *)
Steady(s, z) == z.after >= z.before \/ ~CrossesMidnight(s)
=============================================================================
