--------------------------- MODULE SchedulerProofs ---------------------------
(***************************************************************************)
(* The scheduler, for every schedule and every zone they are Regular in,   *)
(* its clocks left alone, put forward or put back.  First what             *)
(* Schedule.Next says of an instant, against the windows read off the wall *)
(* clock; then the loop, which remembers an instant and compares it with   *)
(* what Next says later.                                                   *)
(***************************************************************************)
EXTENDS SchedulerLoop, TLAPS

(* The theorems' condition on the settings the daemon may be given.          *)
AllRegular == \A x \in Settings : Regular(x.schedule, x.zone)

(* The nights this life of the daemon has stored, but for the one in hand.   *)
Earlier == {n \in nights : n.life = restarts /\ ~(pc = "night" /\ n.at = firing)}

TypeOK ==
    /\ \E x \in Settings : schedule = x.schedule /\ zone = x.zone
    /\ now \in From..Until
    /\ pc \in {"free", "trigger", "night"}
    /\ firing \in Int /\ lastFire \in Int
    /\ polled \in {"no", "declined", "fired"}
    /\ up \in BOOLEAN
    /\ nights \subseteq [at : From..Until, life : Nat]
    /\ errors \in Nat /\ restarts \in Nat

(* Every night was started when it was due.                                  *)
NightsDue ==
    \A n \in nights : n.at <= now /\ n.life <= restarts /\ Due(schedule, zone, n.at)

(* lastFire is a night's, and no earlier than those of its life.             *)
LastFireKnown ==
    /\ lastFire # Never => \E n \in nights : n.at = lastFire
    /\ \A n \in Earlier : n.at <= lastFire

(* The tick in hand was due, in a window that opens after the nights before. *)
TickDue ==
    pc # "free" =>
        /\ firing \in From..now
        /\ Due(schedule, zone, firing)
        /\ \A n \in Earlier : n.at < NextWindow(schedule, zone, firing).start
        /\ pc = "night" => \E n \in nights : n.at = firing

LoopInv == TypeOK /\ NightsDue /\ LastFireKnown /\ TickDue /\ NoWindowSkipped

-------------------------------------------------------------------------------
(* Wall times.                                                               *)

LEMMA DayOf ==
    ASSUME NEW n \in Int
    PROVE  /\ n \div Day \in Int
           /\ (n \div Day) * Day <= n /\ n < (n \div Day) * Day + Day
  BY DEF Day

LEMMA NearInt ==
    ASSUME NEW z, Near(z)
    PROVE  /\ z.change \in Int /\ z.before \in Int /\ z.after \in Int
           /\ z.after = z.before \/ z.after = z.before + 1 \/ z.after = z.before - 1
  <1>1. z.change \in Int /\ z.before \in Int /\ z.after \in Int
    BY DEF Near, Offsets, Day
  <1>2. z.before - 1 <= z.after /\ z.after <= z.before + 1
    BY <1>1 DEF Near
  <1> QED
    BY <1>1, <1>2

(* time.Date: by the offset before the change or by the one after it, and by *)
(* either only for a wall time the change skips or repeats.                  *)
LEMMA DateIs ==
    ASSUME NEW z, Near(z), NEW w \in Int
    PROVE  /\ Date(z, w) \in Int
           /\ Date(z, w) = w - z.before \/ Date(z, w) = w - z.after
           /\ w < z.change + z.before /\ w < z.change + z.after => Date(z, w) = w - z.before
           /\ w >= z.change + z.before /\ w >= z.change + z.after => Date(z, w) = w - z.after
  BY NearInt DEF Date, Offset

(* A later wall time is no earlier instant.                                  *)
LEMMA DateMonotone ==
    ASSUME NEW z, Near(z), NEW v \in Int, NEW w \in Int, v <= w
    PROVE  Date(z, v) <= Date(z, w)
  <1>1. z.change \in Int /\ z.before \in Int /\ z.after \in Int
        /\ (z.after = z.before \/ z.after = z.before + 1 \/ z.after = z.before - 1)
    BY NearInt
  <1>2. /\ Date(z, v) \in Int
        /\ Date(z, v) = v - z.before \/ Date(z, v) = v - z.after
        /\ v < z.change + z.before /\ v < z.change + z.after => Date(z, v) = v - z.before
        /\ v >= z.change + z.before /\ v >= z.change + z.after => Date(z, v) = v - z.after
    BY DateIs
  <1>3. /\ Date(z, w) \in Int
        /\ Date(z, w) = w - z.before \/ Date(z, w) = w - z.after
        /\ w < z.change + z.before /\ w < z.change + z.after => Date(z, w) = w - z.before
        /\ w >= z.change + z.before /\ w >= z.change + z.after => Date(z, w) = w - z.after
    BY DateIs
  <1> QED
    BY <1>1, <1>2, <1>3

(* A wall time against what the clock shows: an hour off at the most, and    *)
(* about midnight not at all where clocks are put forward as above.          *)
LEMMA DateInstant ==
    ASSUME NEW z, Near(z), NEW w \in Int, NEW t \in Int
    PROVE  /\ Local(z, t) \in Int
           /\ w < Local(z, t) => Date(z, w) <= t
           /\ w > Local(z, t) + 1 => Date(z, w) > t
           /\ Forward(z) /\ w > Local(z, t) /\ w % Day = 0 => Date(z, w) > t
  <1>1. z.change \in Int /\ z.before \in Int /\ z.after \in Int
        /\ (z.after = z.before \/ z.after = z.before + 1 \/ z.after = z.before - 1)
    BY NearInt
  <1>2. /\ Date(z, w) \in Int
        /\ Date(z, w) = w - z.before \/ Date(z, w) = w - z.after
        /\ w < z.change + z.before /\ w < z.change + z.after => Date(z, w) = w - z.before
        /\ w >= z.change + z.before /\ w >= z.change + z.after => Date(z, w) = w - z.after
    BY DateIs
  <1>3. Local(z, t) \in Int
    BY <1>1 DEF Local, Offset
  <1>4. w < Local(z, t) => Date(z, w) <= t
    BY <1>1, <1>2 DEF Local, Offset
  <1>5. w > Local(z, t) + 1 => Date(z, w) > t
    BY <1>1, <1>2 DEF Local, Offset
  <1>6. ASSUME Forward(z), w > Local(z, t), w % Day = 0  PROVE Date(z, w) > t
    <2>1. CASE z.after = z.before
      BY <1>1, <1>2, <1>6, <2>1 DEF Local, Offset
    <2>2. CASE z.after = z.before + 1 /\ z.before >= 0
      <3>1. w = z.change + z.before => Date(z, w) = z.change
        BY <1>1, <1>2, <2>2 DEF Date, Offset
      <3> QED
        BY <1>1, <1>2, <1>6, <2>2, <3>1 DEF Local, Offset
    <2>3. CASE z.after = z.before + 1 /\ z.before < 0
      <3>1. w # z.change + z.before
        BY <1>1, <1>6, <2>3 DEF Forward
      <3> QED
        BY <1>1, <1>2, <1>6, <2>3, <3>1 DEF Local, Offset
    <2> QED
      BY <1>1, <1>6, <2>1, <2>2, <2>3 DEF Forward
  <1> QED
    BY <1>3, <1>4, <1>5, <1>6

(* The same wall time a day later is 24 hours later, or an hour more or less *)
(* where clocks are put back or forward; and 24 hours after an earlier one.  *)
LEMMA DateNextDay ==
    ASSUME NEW z, Near(z), NEW w \in Int, NEW u \in Int, u = w + Day
    PROVE  /\ z.after >= z.before => Date(z, u) <= Date(z, w) + Day
           /\ Date(z, u) <= Date(z, w) + Day + 1
           /\ \A v \in Int : v < w => Date(z, v) <= Date(z, u) - Day
  <1>1. z.change \in Int /\ z.before \in Int /\ z.after \in Int
        /\ (z.after = z.before \/ z.after = z.before + 1 \/ z.after = z.before - 1)
    BY NearInt
  <1>2. /\ Date(z, w) \in Int
        /\ Date(z, w) = w - z.before \/ Date(z, w) = w - z.after
        /\ w < z.change + z.before /\ w < z.change + z.after => Date(z, w) = w - z.before
        /\ w >= z.change + z.before /\ w >= z.change + z.after => Date(z, w) = w - z.after
    BY DateIs
  <1>3. /\ Date(z, u) \in Int
        /\ Date(z, u) = u - z.before \/ Date(z, u) = u - z.after
        /\ u < z.change + z.before /\ u < z.change + z.after => Date(z, u) = u - z.before
        /\ u >= z.change + z.before /\ u >= z.change + z.after => Date(z, u) = u - z.after
    BY DateIs
  <1>4. /\ z.after >= z.before => Date(z, u) <= Date(z, w) + Day
        /\ Date(z, u) <= Date(z, w) + Day + 1
    BY <1>1, <1>2, <1>3 DEF Day
  <1>5. ASSUME NEW v \in Int, v < w  PROVE Date(z, v) <= Date(z, u) - Day
    <2>1. Date(z, v) \in Int /\ (Date(z, v) = v - z.before \/ Date(z, v) = v - z.after)
      BY DateIs
    <2> QED
      BY <1>1, <1>3, <1>5, <2>1 DEF Day
  <1> QED
    BY <1>4, <1>5

-------------------------------------------------------------------------------
(* The windows read off the wall clock.                                      *)

LEMMA Hours ==
    ASSUME NEW s \in ValidSchedules
    PROVE  /\ s.start \in Int /\ s.end \in Int
           /\ 0 <= s.start /\ s.start < Day /\ 0 <= s.end /\ s.end < Day
           /\ s.start \in 0..Day - 1 /\ s.end \in 0..Day - 1
           /\ CrossesMidnight(s) <=> s.end < s.start
  BY DEF ValidSchedules, CrossesMidnight, Day

LEMMA WallTimes ==
    ASSUME NEW s \in ValidSchedules, NEW z, Near(z), NEW d \in Int
    PROVE  /\ WallWindow(s, z, d).start = Date(z, d * Day + s.start)
           /\ CrossesMidnight(s) => WallWindow(s, z, d).end = Date(z, (d + 1) * Day + s.end)
           /\ ~CrossesMidnight(s) => WallWindow(s, z, d).end = Date(z, d * Day + s.end)
           /\ WallWindow(s, z, d).start \in Int /\ WallWindow(s, z, d).end \in Int
  <1>1. s.start \in 0..Day - 1 /\ s.end \in 0..Day - 1
    BY Hours
  <1>2. d * Day + s.start \in Int /\ d * Day + s.end \in Int /\ (d + 1) * Day + s.end \in Int
    BY <1>1 DEF Day
  <1> QED
    BY <1>1, <1>2, DateIs DEF WallWindow

(* They come one after another.                                              *)
LEMMA WallOrder ==
    ASSUME NEW s \in ValidSchedules, NEW z, Near(z), NEW d \in Int, NEW e \in Int, d < e
    PROVE  /\ WallWindow(s, z, d).end <= WallWindow(s, z, e).start
           /\ WallWindow(s, z, d).end <= WallWindow(s, z, e).end
  <1>1. s.start \in 0..Day - 1 /\ s.end \in 0..Day - 1
    BY Hours
  <1>2. CASE CrossesMidnight(s)
    <2>1. s.end <= s.start
      BY <1>2 DEF CrossesMidnight
    <2>2. (d + 1) * Day + s.end <= e * Day + s.start
          /\ (d + 1) * Day + s.end <= (e + 1) * Day + s.end
      BY <1>1, <2>1 DEF Day
    <2>3. (d + 1) * Day + s.end \in Int /\ e * Day + s.start \in Int /\ (e + 1) * Day + s.end \in Int
      BY <1>1 DEF Day
    <2> QED
      BY <1>2, <2>2, <2>3, WallTimes, DateMonotone
  <1>3. CASE ~CrossesMidnight(s)
    <2>2. d * Day + s.end <= e * Day + s.start /\ d * Day + s.end <= e * Day + s.end
      BY <1>1 DEF Day
    <2>3. d * Day + s.end \in Int /\ e * Day + s.start \in Int /\ e * Day + s.end \in Int
      BY <1>1 DEF Day
    <2> QED
      BY <1>3, <2>2, <2>3, WallTimes, DateMonotone
  <1> QED
    BY <1>2, <1>3

-------------------------------------------------------------------------------
(* The wall times of the day t is in, and of the days beside it.             *)

LEMMA Today ==
    ASSUME NEW s \in ValidSchedules, NEW z, Regular(s, z), NEW t \in Int,
           NEW D, D = Local(z, t) \div Day
    PROVE  /\ D \in Int /\ Local(z, t) \in Int
           /\ D * Day <= Local(z, t) /\ Local(z, t) < D * Day + Day
           /\ Date(z, D * Day + s.start) \in Int /\ Date(z, D * Day + s.end) \in Int
           /\ Date(z, (D - 1) * Day + s.start) <= t
           /\ Date(z, (D + 1) * Day + s.start) > t
           /\ Date(z, (D + 1) * Day + s.end) > t
           /\ Date(z, D * Day + s.start) - Day <= t
           /\ t < Date(z, D * Day + s.start) + Day
           /\ t < Date(z, D * Day + s.end) + Day
  <1>0. Near(z)
    BY DEF Regular
  <1>1. Local(z, t) \in Int
    BY <1>0, DateInstant
  <1>2. D \in Int /\ D * Day <= Local(z, t) /\ Local(z, t) < D * Day + Day
    BY <1>1, DayOf
  <1>3. s.start \in Int /\ 0 <= s.start /\ s.start < Day
    BY Hours
  <1>4. Date(z, (D - 1) * Day + s.start) <= t
    <2>1. (D - 1) * Day + s.start < Local(z, t) /\ (D - 1) * Day + s.start \in Int
      BY <1>1, <1>2, <1>3 DEF Day
    <2> QED
      BY <1>0, <2>1, DateInstant
  <1>5. ASSUME NEW h \in Int, 0 <= h, h < Day, h = 0 => Forward(z)
        PROVE  /\ Date(z, D * Day + h) \in Int
               /\ Date(z, (D + 1) * Day + h) > t
               /\ Date(z, D * Day + h) - Day <= t
               /\ t < Date(z, D * Day + h) + Day
    <2>1. PICK w \in Int : w = D * Day + h
      BY <1>2 DEF Day
    <2>2. PICK u \in Int : u = w + Day
      BY DEF Day
    <2>3. u = (D + 1) * Day + h
      BY <1>2, <2>1, <2>2 DEF Day
    <2>4. z.before \in Int /\ z.after \in Int
          /\ (z.after = z.before \/ z.after = z.before + 1 \/ z.after = z.before - 1)
      BY <1>0, NearInt
    <2>5. Date(z, w) \in Int /\ (Date(z, w) = w - z.before \/ Date(z, w) = w - z.after)
      BY <1>0, DateIs
    <2>6. Local(z, t) = t + z.before \/ Local(z, t) = t + z.after
      BY DEF Local, Offset
    <2>7. Date(z, w) - Day <= t
      BY <1>2, <1>5, <2>1, <2>4, <2>5, <2>6 DEF Day
    <2>8. Date(z, u) > t
      <3>1. CASE h = 0
        <4>1. u > Local(z, t) /\ u % Day = 0
          BY <1>1, <1>2, <2>3, <3>1 DEF Day
        <4> QED
          BY <1>0, <1>5, <3>1, <4>1, DateInstant
      <3>2. CASE h > 0
        <4>1. u > Local(z, t) + 1
          BY <1>1, <1>2, <2>3, <3>2 DEF Day
        <4> QED
          BY <1>0, <4>1, DateInstant
      <3> QED
        BY <1>5, <3>1, <3>2
    <2>9. t < Date(z, w) + Day
      <3>1. CASE h = 0
        <4>1. Date(z, u) <= Date(z, w) + Day /\ Date(z, u) \in Int
          BY <1>0, <1>5, <2>2, <3>1, DateIs, DateNextDay DEF Forward
        <4> QED
          BY <2>5, <2>8, <4>1 DEF Day
      <3>2. CASE h > 0
        BY <1>2, <2>1, <2>4, <2>5, <2>6, <3>2 DEF Day
      <3> QED
        BY <1>5, <3>1, <3>2
    <2> QED
      BY <2>1, <2>3, <2>5, <2>7, <2>8, <2>9
  <1>6. s.start = 0 \/ s.end = 0 => Forward(z)
    BY DEF Regular
  <1> QED
    BY <1>1, <1>2, <1>4, <1>5, <1>6, Hours

(* An instant is in the window of its day or of the day before.              *)
LEMMA WallDay ==
    ASSUME NEW s \in ValidSchedules, NEW z, Regular(s, z), NEW d \in Int, NEW t \in Int,
           InWallWindow(s, z, d, t)
    PROVE  d = Local(z, t) \div Day \/ (d = Local(z, t) \div Day - 1 /\ CrossesMidnight(s))
  <1> DEFINE D == Local(z, t) \div Day
  <1>0. Near(z)
    BY DEF Regular
  <1>1. /\ D \in Int /\ Local(z, t) \in Int /\ D * Day <= Local(z, t)
        /\ Date(z, (D + 1) * Day + s.start) > t
    BY Today
  <1>2. s.start \in Int /\ s.end \in Int /\ 0 <= s.start /\ s.end < Day
    BY Hours
  <1>3. d <= D
    <2>1. SUFFICES ASSUME d >= D + 1 PROVE FALSE
      BY <1>1
    <2>2. /\ (D + 1) * Day + s.start <= d * Day + s.start
          /\ (D + 1) * Day + s.start \in Int /\ d * Day + s.start \in Int
      <3> HIDE DEF D
      <3> QED
        BY <1>1, <1>2, <2>1 DEF Day
    <2>3. Date(z, (D + 1) * Day + s.start) <= WallWindow(s, z, d).start
      BY <1>0, <2>2, DateMonotone, WallTimes
    <2> QED
      BY <1>0, <1>1, <2>2, <2>3, DateIs, WallTimes DEF InWallWindow
  <1>4. ASSUME d < D, ~CrossesMidnight(s) \/ d < D - 1  PROVE FALSE
    <2> HIDE DEF D
    <2>1. CASE CrossesMidnight(s)
      <3>1. (d + 1) * Day + s.end < Local(z, t) /\ (d + 1) * Day + s.end \in Int
        BY <1>1, <1>2, <1>4, <2>1 DEF Day
      <3>2. Date(z, (d + 1) * Day + s.end) <= t
        BY <1>0, <3>1, DateInstant
      <3> QED
        BY <1>0, <2>1, <3>2, WallTimes DEF InWallWindow
    <2>2. CASE ~CrossesMidnight(s)
      <3>1. d * Day + s.end < Local(z, t) /\ d * Day + s.end \in Int
        BY <1>1, <1>2, <1>4, <2>2 DEF Day
      <3>2. Date(z, d * Day + s.end) <= t
        BY <1>0, <3>1, DateInstant
      <3> QED
        BY <1>0, <2>2, <3>2, WallTimes DEF InWallWindow
    <2> QED
      BY <2>1, <2>2
  <1> QED
    BY <1>1, <1>3, <1>4

-------------------------------------------------------------------------------
(* What Schedule.Next says, against those windows.                           *)

(* Inside a window read off the wall clock, Next says so, with a start no    *)
(* earlier than the end of the window before; and no later than the start of *)
(* the window itself, or an hour later on a night the clocks are put back.   *)
LEMMA WallIsDue ==
    ASSUME NEW s \in ValidSchedules, NEW z, Regular(s, z), NEW d \in Int, NEW t \in Int,
           InWallWindow(s, z, d, t)
    PROVE  /\ IsInWindow(s, z, t)
           /\ WallWindow(s, z, d - 1).end <= NextWindow(s, z, t).start
           /\ Steady(s, z) => NextWindow(s, z, t).start <= WallWindow(s, z, d).start
           /\ NextWindow(s, z, t).start <= WallWindow(s, z, d).start + 1
  <1> DEFINE D == Local(z, t) \div Day
             open == Date(z, D * Day + s.start)
             close == Date(z, D * Day + s.end)
  <1>0. Near(z)
    BY DEF Regular
  <1>1. /\ D \in Int /\ open \in Int /\ close \in Int
        /\ open - Day <= t /\ t < close + Day
    BY Today
  <1>2. d = D \/ (d = D - 1 /\ CrossesMidnight(s))
    BY WallDay
  <1>3. WallWindow(s, z, d).start <= t /\ t < WallWindow(s, z, d).end
    BY DEF InWallWindow
  <1>4. WallWindow(s, z, d - 1).end <= WallWindow(s, z, d).start
    BY <1>0, WallOrder
  <1>5. CASE ~CrossesMidnight(s)
    <2>1. WallWindow(s, z, d).start = open /\ WallWindow(s, z, d).end = close
      BY <1>0, <1>1, <1>2, <1>5, WallTimes
    <2>2. NextWindow(s, z, t) = [start |-> open, end |-> close]
      BY <1>3, <1>5, <2>1 DEF NextWindow
    <2> HIDE DEF open, close
    <2> QED
      BY <1>1, <1>3, <1>4, <2>1, <2>2 DEF IsInWindow
  <1>6. CASE CrossesMidnight(s) /\ d = D
    <2>1. WallWindow(s, z, d).start = open
      BY <1>0, <1>1, <1>6, WallTimes
    <2>2. close <= open
      <3>0. s.end < s.start /\ s.end \in Int /\ s.start \in Int
        BY <1>6, Hours
      <3>1. D * Day + s.end <= D * Day + s.start /\ D * Day + s.end \in Int /\ D * Day + s.start \in Int
        <4> HIDE DEF D
        <4> QED
          BY <1>1, <3>0 DEF Day
      <3> QED
        BY <1>0, <3>1, DateMonotone
    <2>3. t < close + Day /\ ~(t < close)
      <3> HIDE DEF open, close
      <3> QED
        BY <1>1, <1>3, <2>1, <2>2 DEF Day
    <2>4. NextWindow(s, z, t) = [start |-> open, end |-> close + Day]
      BY <1>6, <2>3 DEF NextWindow
    <2> HIDE DEF open, close
    <2> QED
      BY <1>1, <1>3, <1>4, <2>1, <2>3, <2>4 DEF IsInWindow
  <1>7. CASE CrossesMidnight(s) /\ d = D - 1
    <2>1. (D - 1) + 1 = D /\ D - 1 \in Int /\ (d - 1) + 1 = D - 1 /\ d - 1 \in Int
      BY <1>1, <1>7
    <2>2. /\ WallWindow(s, z, d).start = Date(z, (D - 1) * Day + s.start)
          /\ WallWindow(s, z, d).start \in Int
          /\ WallWindow(s, z, d).end = close
          /\ WallWindow(s, z, d - 1).end = Date(z, (D - 1) * Day + s.end)
      BY <1>0, <1>7, <2>1, WallTimes
    <2>3. NextWindow(s, z, t) = [start |-> open - Day, end |-> close]
      BY <1>1, <1>3, <1>7, <2>2 DEF NextWindow
    <2>4. PICK v, w, u \in Int :
             /\ v = (D - 1) * Day + s.end /\ w = (D - 1) * Day + s.start /\ u = D * Day + s.start
             /\ v < w /\ u = w + Day
      <3>1. s.end < s.start /\ s.end \in Int /\ s.start \in Int
        BY <1>7, Hours
      <3> HIDE DEF D
      <3> QED
        BY <1>1, <3>1 DEF Day
    <2>5. /\ Date(z, v) <= Date(z, u) - Day
          /\ z.after >= z.before => Date(z, u) <= Date(z, w) + Day
          /\ Date(z, u) <= Date(z, w) + Day + 1
      BY <1>0, <2>4, DateNextDay
    <2>6. WallWindow(s, z, d - 1).end <= open - Day
      BY <2>2, <2>4, <2>5
    <2>7. /\ Steady(s, z) => open - Day <= WallWindow(s, z, d).start
          /\ open - Day <= WallWindow(s, z, d).start + 1
      <3>1. /\ z.after >= z.before => open <= WallWindow(s, z, d).start + Day
            /\ open <= WallWindow(s, z, d).start + Day + 1
        BY <2>2, <2>4, <2>5
      <3> HIDE DEF open
      <3> QED
        BY <1>1, <1>7, <2>2, <3>1 DEF Steady, Day
    <2> HIDE DEF open, close
    <2> QED
      BY <1>1, <1>3, <2>2, <2>3, <2>6, <2>7 DEF IsInWindow
  <1> QED
    BY <1>2, <1>5, <1>6, <1>7

(* What Next takes for a window is one, and it starts after the zero time.   *)
LEMMA DueIsWall ==
    ASSUME NEW s \in ValidSchedules, NEW z, Regular(s, z), NEW t \in Int, t >= 2 * Day,
           IsInWindow(s, z, t)
    PROVE  /\ NextWindow(s, z, t).start \in Int /\ NextWindow(s, z, t).start > 0
           /\ \E d \in {Local(z, t) \div Day - 1, Local(z, t) \div Day} : InWallWindow(s, z, d, t)
  <1> DEFINE D == Local(z, t) \div Day
             open == Date(z, D * Day + s.start)
             close == Date(z, D * Day + s.end)
  <1>0. Near(z)
    BY DEF Regular
  <1>1. /\ D \in Int /\ open \in Int /\ close \in Int
        /\ Local(z, t) \in Int /\ Local(z, t) < D * Day + Day
        /\ Date(z, (D - 1) * Day + s.start) <= t
        /\ Date(z, (D + 1) * Day + s.end) > t
        /\ t < open + Day
    BY Today
  <1>2. NextWindow(s, z, t).start <= t /\ t < NextWindow(s, z, t).end
    BY DEF IsInWindow
  <1>3. s.start \in Int /\ 0 <= s.start
    BY Hours
  <1>4. open >= s.start + Day
    <2>1. PICK u \in Int : u = D * Day + s.start
      BY <1>1, <1>3 DEF Day
    <2>2. Date(z, u) = u - z.before \/ Date(z, u) = u - z.after
      BY <1>0, DateIs
    <2>3. Local(z, t) = t + z.before \/ Local(z, t) = t + z.after
      BY DEF Local, Offset
    <2>4. z.before \in Int /\ z.after \in Int
          /\ (z.after = z.before \/ z.after = z.before + 1 \/ z.after = z.before - 1)
      BY <1>0, NearInt
    <2>5. open = Date(z, u)
      BY <2>1
    <2> HIDE DEF D, open
    <2> QED
      BY <1>1, <1>3, <2>1, <2>2, <2>3, <2>4, <2>5 DEF Day
  <1>5. CASE ~CrossesMidnight(s)
    <2>1. NextWindow(s, z, t) = [start |-> open, end |-> close]
      <3>1. \/ NextWindow(s, z, t) = [start |-> open, end |-> close]
            \/ NextWindow(s, z, t) = [start |-> open + Day, end |-> close + Day]
        BY <1>5 DEF NextWindow
      <3> HIDE DEF open, close
      <3> QED
        BY <1>1, <1>2, <3>1 DEF Day
    <2>2. InWallWindow(s, z, D, t)
      BY <1>0, <1>1, <1>2, <1>5, <2>1, WallTimes DEF InWallWindow
    <2> QED
      BY <1>1, <1>3, <1>4, <2>1, <2>2 DEF Day
  <1>6. CASE CrossesMidnight(s) /\ NextWindow(s, z, t) = [start |-> open - Day, end |-> close]
    <2>1. (D - 1) + 1 = D /\ D - 1 \in Int
      BY <1>1
    <2>2. InWallWindow(s, z, D - 1, t)
      BY <1>0, <1>1, <1>2, <1>6, <2>1, WallTimes DEF InWallWindow
    <2>3. s.start > 0
      BY <1>6, Hours
    <2>4. open - Day > 0
      <3> HIDE DEF open
      <3> QED
        BY <1>1, <1>3, <1>4, <2>3 DEF Day
    <2> QED
      BY <1>1, <1>6, <2>2, <2>4 DEF Day
  <1>7. CASE CrossesMidnight(s) /\ NextWindow(s, z, t) = [start |-> open, end |-> close + Day]
    <2>1. InWallWindow(s, z, D, t)
      BY <1>0, <1>1, <1>2, <1>7, WallTimes DEF InWallWindow
    <2> QED
      BY <1>1, <1>3, <1>4, <1>7, <2>1 DEF Day
  <1>8. CASE CrossesMidnight(s) /\ NextWindow(s, z, t).start = open + Day
    <2> HIDE DEF open
    <2> QED
      BY <1>1, <1>2, <1>8 DEF Day
  <1> QED
    BY <1>5, <1>6, <1>7, <1>8 DEF NextWindow

-------------------------------------------------------------------------------
(* The windows of the instants considered.                                   *)

LEMMA SettingsKnown ==
    ASSUME TypeOK, AllRegular
    PROVE  /\ schedule \in ValidSchedules /\ Regular(schedule, zone) /\ Near(zone)
           /\ From \in Nat /\ From >= 2 * Day /\ Until \in Nat /\ now \in Int
           /\ zone.before \in Offsets /\ zone.after \in Offsets
  BY SchedulerAssumption DEF TypeOK, AllRegular, Regular

LEMMA DueInWindow ==
    ASSUME TypeOK, AllRegular, NEW t \in From..Until, Due(schedule, zone, t)
    PROVE  Windows(t) # {}
  <1> DEFINE D == Local(zone, t) \div Day
  <1>1. t \in Int /\ t >= 2 * Day /\ t <= Until /\ Until \in Nat
    BY SettingsKnown DEF Day
  <1>2. PICK d \in {D - 1, D} : InWallWindow(schedule, zone, d, t)
    BY <1>1, SettingsKnown, DueIsWall DEF Due
  <1>3. Local(zone, t) \in Int /\ D \in Int /\ D * Day <= Local(zone, t) /\ Local(zone, t) < D * Day + Day
    BY <1>1, SettingsKnown, Today
  <1>4. Local(zone, t) > t - Day /\ Local(zone, t) < t + Day
    BY <1>1, SettingsKnown DEF Local, Offset, Offsets, Day
  <1>5. Until \div Day \in Int /\ Until < (Until \div Day) * Day + Day
    BY <1>1, DayOf
  <1>6. d \in 0..Until \div Day + 1
    <2> HIDE DEF D
    <2>1. D >= 1 /\ D <= Until \div Day + 1 /\ d \in Int
      BY <1>1, <1>2, <1>3, <1>4, <1>5 DEF Day
    <2> QED
      BY <1>2, <1>3, <1>5, <2>1
  <1> QED
    BY <1>2, <1>6 DEF Windows, Days

LEMMA WindowsDue ==
    ASSUME TypeOK, AllRegular, NEW t \in From..Until, NEW d \in Windows(t)
    PROVE  /\ d \in Int /\ t \in Int
           /\ InWallWindow(schedule, zone, d, t)
           /\ Due(schedule, zone, t)
           /\ WallWindow(schedule, zone, d - 1).end <= NextWindow(schedule, zone, t).start
           /\ Steady(schedule, zone) =>
                 NextWindow(schedule, zone, t).start <= WallWindow(schedule, zone, d).start
           /\ NextWindow(schedule, zone, t).start <= WallWindow(schedule, zone, d).start + 1
  <1>1. d \in Int /\ InWallWindow(schedule, zone, d, t) /\ t \in Int
    <2>1. Until \div Day \in Int
      BY DayOf, SettingsKnown
    <2> QED
      BY <2>1, SettingsKnown DEF Windows, Days
  <1> QED
    BY <1>1, SettingsKnown, WallIsDue DEF Due

(* What two nights share when the window that Next gave for the later one    *)
(* opens after the earlier.                                                  *)
LEMMA Shared ==
    ASSUME TypeOK, AllRegular, NEW t \in From..Until, NEW u \in From..Until,
           Due(schedule, zone, u), t < NextWindow(schedule, zone, u).start,
           NEW d \in Windows(t), d \in Windows(u)
    PROVE  ~Steady(schedule, zone) /\ t = WallWindow(schedule, zone, d).start
  <1>1. /\ d \in Int /\ InWallWindow(schedule, zone, d, t) /\ t \in Int /\ u \in Int
        /\ Steady(schedule, zone) =>
              NextWindow(schedule, zone, u).start <= WallWindow(schedule, zone, d).start
        /\ NextWindow(schedule, zone, u).start <= WallWindow(schedule, zone, d).start + 1
    BY WindowsDue
  <1>2. NextWindow(schedule, zone, u).start \in Int
    BY SettingsKnown, DueIsWall DEF Due, Day
  <1>3. WallWindow(schedule, zone, d).start \in Int
    BY <1>1, SettingsKnown, WallTimes
  <1> QED
    BY <1>1, <1>2, <1>3 DEF InWallWindow

(* A night no earlier than what Next says now is in every window now is in.  *)
LEMMA SameWindow ==
    ASSUME TypeOK, AllRegular, NEW d \in Windows(now), NEW t \in From..now,
           Due(schedule, zone, t), NextWindow(schedule, zone, now).start <= t
    PROVE  d \in Windows(t)
  <1>1. now \in From..Until /\ t \in From..Until /\ t \in Int
    BY SettingsKnown DEF TypeOK
  <1>2. /\ d \in Int /\ now \in Int /\ InWallWindow(schedule, zone, d, now)
        /\ Due(schedule, zone, now)
        /\ WallWindow(schedule, zone, d - 1).end <= NextWindow(schedule, zone, now).start
    BY <1>1, WindowsDue
  <1>3. NextWindow(schedule, zone, now).start \in Int
    BY <1>1, <1>2, SettingsKnown, DueIsWall DEF Due, Day
  <1>4. PICK e : e \in Windows(t)
    BY <1>1, DueInWindow
  <1>5. e \in Int /\ InWallWindow(schedule, zone, e, t)
    BY <1>1, <1>4, WindowsDue
  <1>6. \A f \in {d - 1, d, e} : /\ WallWindow(schedule, zone, f).start \in Int
                                 /\ WallWindow(schedule, zone, f).end \in Int
    BY <1>2, <1>5, SettingsKnown, WallTimes
  <1>7. ~(e > d)
    <2> SUFFICES ASSUME d < e  PROVE FALSE
      BY <1>2, <1>5
    <2>1. WallWindow(schedule, zone, d).end <= WallWindow(schedule, zone, e).start
      BY <1>2, <1>5, SettingsKnown, WallOrder
    <2> QED
      BY <1>1, <1>2, <1>5, <1>6, <2>1 DEF InWallWindow
  <1>8. ~(e < d)
    <2> SUFFICES ASSUME e < d  PROVE FALSE
      BY <1>2, <1>5
    <2>1. WallWindow(schedule, zone, e).end <= WallWindow(schedule, zone, d - 1).end
      <3>1. e = d - 1 \/ e < d - 1
        BY <1>2, <1>5
      <3>2. d - 1 \in Int
        BY <1>2
      <3>3. e < d - 1 => WallWindow(schedule, zone, e).end <= WallWindow(schedule, zone, d - 1).end
        BY <1>5, <3>2, SettingsKnown, WallOrder
      <3> QED
        BY <1>6, <3>1, <3>3
    <2> QED
      BY <1>1, <1>2, <1>3, <1>5, <1>6, <2>1 DEF InWallWindow
  <1> QED
    BY <1>2, <1>4, <1>5, <1>7, <1>8

-------------------------------------------------------------------------------
(* The loop.                                                                 *)

LEMMA Fixed ==
    ASSUME [Next]_vars
    PROVE  /\ schedule' = schedule /\ zone' = zone
           /\ \A t : Windows(t)' = Windows(t)
  <1>1. schedule' = schedule /\ zone' = zone
    BY DEF Next, vars, Tick, NightStored, NightRefused, NightEnds, Hour, Stop, Restart
  <1> QED
    BY <1>1 DEF Windows

LEMMA TickStep ==
    ASSUME LoopInv, AllRegular, Tick
    PROVE  LoopInv'
  <1>1. TypeOK /\ NightsDue /\ LastFireKnown /\ TickDue /\ NoWindowSkipped
    BY DEF LoopInv
  <1>2. [Next]_vars /\ nights' = nights /\ restarts' = restarts /\ now' = now /\ pc = "free"
        /\ schedule' = schedule /\ zone' = zone /\ lastFire' = lastFire
    BY DEF Next, Tick
  <1>3. From \in Nat /\ Until \in Nat /\ now \in Int /\ now \in From..now
    BY SchedulerAssumption DEF TypeOK, LoopInv
  <1>4. TypeOK'
    BY <1>1, <1>3 DEF TypeOK, Tick
  <1>5. NightsDue'
    BY <1>1, <1>2 DEF NightsDue
  <1>6. Earlier' \subseteq Earlier
    BY <1>2 DEF Earlier
  <1>7. LastFireKnown'
    BY <1>1, <1>2, <1>6 DEF LastFireKnown
  <1>8. CASE Due(schedule, zone, now) /\ ~Already(NextWindow(schedule, zone, now))
    <2>1. pc' = "trigger" /\ firing' = now /\ polled' = "fired"
      BY <1>8 DEF Tick
    <2>2. ASSUME NEW n \in Earlier  PROVE n.at < NextWindow(schedule, zone, now).start
      <3>1. n.at <= lastFire /\ n.at \in Int /\ lastFire \in Int
        BY <1>1, <1>3 DEF LastFireKnown, TypeOK, Earlier
      <3>2. NextWindow(schedule, zone, now).start \in Int /\ lastFire < NextWindow(schedule, zone, now).start
        <4>1. NextWindow(schedule, zone, now).start \in Int
          BY <1>1, <1>3, <1>8, SettingsKnown, DueIsWall DEF Due, TypeOK, Day
        <4> QED
          BY <1>8, <3>1, <4>1 DEF Already
      <3> QED
        BY <3>1, <3>2
    <2>3. TickDue'
      BY <1>2, <1>3, <1>6, <1>8, <2>1, <2>2 DEF TickDue
    <2>4. NoWindowSkipped'
      BY <2>1 DEF NoWindowSkipped
    <2> QED
      BY <1>2, <1>4, <1>5, <1>7, <2>3, <2>4 DEF LoopInv
  <1>9. CASE ~(Due(schedule, zone, now) /\ ~Already(NextWindow(schedule, zone, now)))
    <2>1. pc' = pc /\ firing' = firing
      BY <1>9 DEF Tick
    <2>2. TickDue'
      BY <1>2, <2>1 DEF TickDue
    <2>3. ASSUME NEW d \in Windows(now)  PROVE \E n \in nights : d \in Windows(n.at)
      <3>1. now \in From..Until
        BY <1>1 DEF TypeOK
      <3>2. Due(schedule, zone, now)
        BY <1>1, <2>3, <3>1, WindowsDue
      <3>3. NextWindow(schedule, zone, now).start \in Int /\ NextWindow(schedule, zone, now).start > 0
        BY <1>1, <1>3, <3>1, <3>2, SettingsKnown, DueIsWall DEF Due, Day
      <3>4. lastFire >= NextWindow(schedule, zone, now).start
        BY <1>9, <3>2 DEF Already
      <3>5. PICK n \in nights : n.at = lastFire
        BY <1>1, <3>3, <3>4 DEF LastFireKnown, Never, TypeOK
      <3>6. n.at \in From..now /\ Due(schedule, zone, n.at)
        BY <1>1, <1>3 DEF NightsDue, TypeOK
      <3> QED
        BY <1>1, <3>4, <3>5, <3>6, SameWindow
    <2>4. NoWindowSkipped'
      BY <1>2, <2>3, Fixed DEF NoWindowSkipped
    <2> QED
      BY <1>2, <1>4, <1>5, <1>7, <2>2, <2>4 DEF LoopInv
  <1> QED
    BY <1>8, <1>9

LEMMA NightStoredStep ==
    ASSUME LoopInv, AllRegular, NightStored
    PROVE  LoopInv'
  <1> DEFINE new == [at |-> firing, life |-> restarts]
  <1>1. TypeOK /\ NightsDue /\ LastFireKnown /\ TickDue /\ NoWindowSkipped
    BY DEF LoopInv
  <1>2. /\ [Next]_vars /\ pc = "trigger" /\ pc' = "night" /\ nights' = nights \cup {new}
        /\ UNCHANGED <<schedule, zone, now, firing, lastFire, polled, up, errors, restarts>>
    BY DEF Next, NightStored
  <1>3. From \in Nat /\ Until \in Nat /\ now \in Int
    BY <1>1, SchedulerAssumption DEF TypeOK
  <1>4. /\ firing \in From..now /\ firing \in From..Until /\ Due(schedule, zone, firing)
        /\ \A n \in Earlier : n.at < NextWindow(schedule, zone, firing).start
    BY <1>1, <1>2, <1>3 DEF TickDue, TypeOK
  <1>5. \A n \in nights : n.life = restarts => n \in Earlier
    BY <1>2 DEF Earlier
  <1>6. Earlier' \subseteq Earlier
    BY <1>2, <1>5 DEF Earlier
  <1>7. TypeOK'
    <2>1. new \in [at : From..Until, life : Nat]
      BY <1>1, <1>4 DEF TypeOK
    <2> QED
      BY <1>1, <1>2, <2>1 DEF TypeOK
  <1>8. NightsDue'
    BY <1>1, <1>2, <1>3, <1>4 DEF NightsDue, TypeOK
  <1>9. LastFireKnown'
    BY <1>1, <1>2, <1>6 DEF LastFireKnown
  <1>10. TickDue'
    <2>1. new \in nights' /\ new.at = firing'
      BY <1>2
    <2> QED
      BY <1>2, <1>4, <1>6, <2>1 DEF TickDue
  <1>11. NoWindowSkipped'
    BY <1>1, <1>2, Fixed DEF NoWindowSkipped
  <1> QED
    BY <1>7, <1>8, <1>9, <1>10, <1>11 DEF LoopInv

LEMMA NightEndsStep ==
    ASSUME LoopInv, AllRegular, NightEnds
    PROVE  LoopInv'
  <1>1. TypeOK /\ NightsDue /\ LastFireKnown /\ TickDue /\ NoWindowSkipped
    BY DEF LoopInv
  <1>2. /\ [Next]_vars /\ pc = "night" /\ pc' = "free" /\ firing' = Never /\ lastFire' = firing
        /\ UNCHANGED <<schedule, zone, now, polled, up, nights, errors, restarts>>
    BY DEF Next, NightEnds
  <1>3. From \in Nat /\ Until \in Nat /\ now \in Int
    BY <1>1, SchedulerAssumption DEF TypeOK
  <1>4. /\ firing \in From..now /\ Due(schedule, zone, firing)
        /\ \A n \in Earlier : n.at < NextWindow(schedule, zone, firing).start
        /\ \E n \in nights : n.at = firing
    BY <1>1, <1>2 DEF TickDue
  <1>5. TypeOK'
    BY <1>1, <1>2, <1>3 DEF TypeOK, Never
  <1>6. NightsDue'
    BY <1>1, <1>2 DEF NightsDue
  <1>7. ASSUME NEW n \in Earlier'  PROVE n.at <= firing
    <2>1. n \in nights /\ n.at \in Int /\ firing \in Int
      BY <1>1, <1>2, <1>3, <1>7 DEF Earlier, TypeOK
    <2>2. CASE n.at = firing
      BY <2>1, <2>2
    <2>3. CASE n \in Earlier
      <3>1. n.at < NextWindow(schedule, zone, firing).start
        BY <1>4, <2>3
      <3>2. /\ NextWindow(schedule, zone, firing).start \in Int
            /\ NextWindow(schedule, zone, firing).start <= firing
        BY <1>1, <1>4, <2>1, SettingsKnown, DueIsWall DEF Due, IsInWindow, Day
      <3> QED
        BY <2>1, <3>1, <3>2
    <2> QED
      BY <1>2, <1>7, <2>1, <2>2, <2>3 DEF Earlier
  <1>8. LastFireKnown'
    BY <1>2, <1>4, <1>7 DEF LastFireKnown
  <1>9. TickDue'
    BY <1>2 DEF TickDue
  <1>10. NoWindowSkipped'
    BY <1>1, <1>2, Fixed DEF NoWindowSkipped
  <1> QED
    BY <1>2, <1>5, <1>6, <1>8, <1>9, <1>10 DEF LoopInv

LEMMA QuietStep ==
    ASSUME LoopInv, NightRefused \/ Hour \/ Stop \/ UNCHANGED vars
    PROVE  LoopInv'
  <1>1. TypeOK /\ NightsDue /\ LastFireKnown /\ TickDue /\ NoWindowSkipped
    BY DEF LoopInv
  <1>2. /\ [Next]_vars
        /\ UNCHANGED <<schedule, zone, lastFire, nights, restarts>>
        /\ pc' # "free" => pc' = pc /\ firing' = firing
        /\ pc = "night" => pc' = pc /\ firing' = firing
        /\ polled' # "no" => polled' = polled /\ now' = now
        /\ now' = now \/ (now < Until /\ now' = now + 1)
    BY DEF Next, vars, NightRefused, Hour, Stop
  <1>3. From \in Nat /\ Until \in Nat /\ now \in Int /\ now' \in Int /\ now <= now'
    BY <1>1, <1>2, SchedulerAssumption DEF TypeOK
  <1>4. TypeOK'
    <2>1. CASE NightRefused
      BY <1>1, <2>1 DEF TypeOK, NightRefused, Never
    <2>2. CASE Hour
      BY <1>1, <1>3, <2>2 DEF TypeOK, Hour
    <2>3. CASE Stop
      BY <1>1, <2>3 DEF TypeOK, Stop
    <2>4. CASE UNCHANGED vars
      BY <1>1, <2>4 DEF TypeOK, vars
    <2> QED
      BY <2>1, <2>2, <2>3, <2>4
  <1>5. NightsDue'
    BY <1>1, <1>2, <1>3 DEF NightsDue, TypeOK
  <1>6. Earlier' \subseteq Earlier
    BY <1>2 DEF Earlier
  <1>7. LastFireKnown'
    BY <1>1, <1>2, <1>6 DEF LastFireKnown
  <1>8. TickDue'
    BY <1>1, <1>2, <1>3, <1>6 DEF TickDue
  <1>9. NoWindowSkipped'
    <2>1. CASE polled' = "no"
      BY <2>1 DEF NoWindowSkipped
    <2>2. CASE polled' # "no"
      BY <1>1, <1>2, <2>2, Fixed DEF NoWindowSkipped
    <2> QED
      BY <2>1, <2>2
  <1> QED
    BY <1>2, <1>4, <1>5, <1>7, <1>8, <1>9 DEF LoopInv

(* A new process has stored no night yet.                                    *)
LEMMA RestartStep ==
    ASSUME LoopInv, Restart
    PROVE  LoopInv'
  <1>1. TypeOK /\ NightsDue
    BY DEF LoopInv
  <1>2. /\ [Next]_vars /\ restarts' = restarts + 1 /\ pc' = "free" /\ lastFire' = Never
        /\ firing' = Never /\ polled' = "no" /\ up' = TRUE
        /\ UNCHANGED <<schedule, zone, now, nights, errors>>
    BY DEF Next, Restart
  <1>3. TypeOK'
    BY <1>1, <1>2 DEF TypeOK, Never
  <1>4. \A n \in nights : n.life \in Nat /\ n.life <= restarts /\ restarts \in Nat
    BY <1>1 DEF TypeOK, NightsDue
  <1>5. NightsDue'
    BY <1>1, <1>2, <1>4 DEF NightsDue
  <1>6. Earlier' = {}
    BY <1>2, <1>4 DEF Earlier
  <1>7. LastFireKnown' /\ TickDue' /\ NoWindowSkipped'
    BY <1>2, <1>6 DEF LastFireKnown, TickDue, NoWindowSkipped
  <1> QED
    BY <1>2, <1>3, <1>5, <1>7 DEF LoopInv

LEMMA LoopInvHolds ==
    ASSUME AllRegular
    PROVE  Spec => []LoopInv
  <1>1. Init => LoopInv
    <2> SUFFICES ASSUME Init PROVE LoopInv
      OBVIOUS
    <2>1. From \in Nat /\ Until \in Nat /\ From <= Until
      BY SchedulerAssumption
    <2>2. TypeOK
      BY <2>1 DEF Init, TypeOK, Never
    <2> QED
      BY <2>2 DEF Init, LoopInv, NightsDue, LastFireKnown, TickDue, Earlier, NoWindowSkipped
  <1>2. LoopInv /\ [Next]_vars => LoopInv'
    BY TickStep, NightStoredStep, NightEndsStep, QuietStep, RestartStep DEF Next
  <1> QED
    BY <1>1, <1>2, PTL DEF Spec

(* A night is stored in a window that opens after the nights before it.      *)
LEMMA OnceStep ==
    ASSUME LoopInv, AllRegular, OnceUnlessPutBack, [Next]_vars
    PROVE  OnceUnlessPutBack'
  <1>1. TypeOK /\ TickDue
    BY DEF LoopInv
  <1>2. \A d : (WallWindow(schedule, zone, d).start)' = WallWindow(schedule, zone, d).start
        /\ Steady(schedule, zone)' = Steady(schedule, zone)
    BY Fixed
  <1>3. CASE nights' = nights
    BY <1>2, <1>3, Fixed DEF OnceUnlessPutBack
  <1>4. CASE NightStored
    <2> DEFINE new == [at |-> firing, life |-> restarts]
    <2>1. pc = "trigger" /\ nights' = nights \cup {new}
      BY <1>4 DEF NightStored
    <2>2. /\ firing \in From..Until /\ firing \in Int /\ Due(schedule, zone, firing)
          /\ \A n \in Earlier : n.at < NextWindow(schedule, zone, firing).start
      BY <1>1, <2>1, SettingsKnown DEF TickDue, TypeOK
    <2>3. ASSUME NEW n \in nights, n.life = restarts
          PROVE  n.at \in From..Until /\ n.at \in Int /\ n.at < NextWindow(schedule, zone, firing).start
      BY <1>1, <2>1, <2>2, <2>3, SettingsKnown DEF Earlier, TypeOK
    <2>4. NextWindow(schedule, zone, firing).start \in Int
          /\ NextWindow(schedule, zone, firing).start <= firing
      BY <1>1, <2>2, SettingsKnown, DueIsWall DEF Due, IsInWindow, Day
    <2> SUFFICES ASSUME NEW m \in nights', NEW n \in nights', m # n, m.life = n.life, m.at <= n.at,
                        NEW d \in Windows(m.at), d \in Windows(n.at)
                 PROVE  ~Steady(schedule, zone) /\ m.at = WallWindow(schedule, zone, d).start
      BY <1>2, Fixed DEF OnceUnlessPutBack
    <2>5. CASE m \in nights /\ n \in nights
      BY <2>5 DEF OnceUnlessPutBack
    <2>6. CASE m = new /\ n \in nights
      BY <2>2, <2>3, <2>4, <2>6
    <2>7. CASE n = new /\ m \in nights
      BY <1>1, <2>2, <2>3, <2>7, Shared
    <2> QED
      BY <2>1, <2>5, <2>6, <2>7
  <1> QED
    BY <1>3, <1>4 DEF Next, vars, Tick, NightRefused, NightEnds, Hour, Stop, Restart

-------------------------------------------------------------------------------
(* What the loop promises, for every schedule, any number of nights that     *)
(* cannot be started and of restarts, and however long the nights.           *)

(* A night is started only inside a window read off the wall clock, in every *)
(* zone, unless a window opens or closes at midnight in one where the clocks *)
(* are put back, or are put forward at midnight west of Greenwich.           *)
THEOREM FiresInside ==
    ASSUME AllRegular
    PROVE  Spec => []FiresInsideWindow
  <1>1. LoopInv => FiresInsideWindow
    <2> SUFFICES ASSUME LoopInv, NEW n \in nights PROVE Windows(n.at) # {}
      BY DEF FiresInsideWindow
    <2>1. TypeOK /\ n.at \in From..Until /\ Due(schedule, zone, n.at)
      BY DEF LoopInv, TypeOK, NightsDue
    <2> QED
      BY <2>1, DueInWindow
  <1> QED
    BY <1>1, LoopInvHolds, PTL

(* There, too, a tick inside a window starts no night only when that window  *)
(* has had one (loop.go:94-109), though lastFire is compared with a start    *)
(* that Next may put elsewhere than it did for the tick that fired.          *)
THEOREM SkipsNone ==
    ASSUME AllRegular
    PROVE  Spec => []NoWindowSkipped
  <1>1. LoopInv => NoWindowSkipped
    BY DEF LoopInv
  <1> QED
    BY <1>1, LoopInvHolds, PTL

(* No window gets two nights from one life of the daemon (loop.go:38-40), or *)
(* else the clocks are put back, the window crosses midnight, and its first  *)
(* night was in its first hour.                                              *)
THEOREM FiresOnce ==
    ASSUME AllRegular
    PROVE  Spec => []OnceUnlessPutBack
  <1>1. Init => OnceUnlessPutBack
    BY DEF Init, OnceUnlessPutBack
  <1>2. LoopInv /\ OnceUnlessPutBack /\ [Next]_vars => OnceUnlessPutBack'
    BY OnceStep
  <1> QED
    BY <1>1, <1>2, LoopInvHolds, PTL DEF Spec

(* So where the clocks are never put back while a window that crosses        *)
(* midnight is open, the loop keeps its word (loop.go:38-40).                *)
THEOREM FiresOnceSteadily ==
    ASSUME AllRegular, \A x \in Settings : Steady(x.schedule, x.zone)
    PROVE  Spec => []AtMostOncePerWindow
  <1>1. LoopInv /\ OnceUnlessPutBack => AtMostOncePerWindow
    <2> SUFFICES ASSUME LoopInv, OnceUnlessPutBack,
                        NEW m \in nights, NEW n \in nights, m # n, m.life = n.life
                 PROVE  Windows(m.at) \cap Windows(n.at) = {}
      BY DEF AtMostOncePerWindow
    <2>1. TypeOK
      BY DEF LoopInv
    <2>2. m.at \in Nat /\ n.at \in Nat
      BY <2>1, SettingsKnown DEF TypeOK
    <2>3. m.at <= n.at \/ n.at <= m.at
      BY <2>2
    <2>4. Steady(schedule, zone)
      BY <2>1 DEF TypeOK
    <2> QED
      BY <2>3, <2>4 DEF OnceUnlessPutBack
  <1> QED
    BY <1>1, FiresOnce, LoopInvHolds, PTL
=============================================================================
