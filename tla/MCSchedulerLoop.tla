--------------------------- MODULE MCSchedulerLoop ---------------------------
(* Schedules and zones for SchedulerLoop's TLC runs.                         *)
EXTENDS SchedulerLoop

(* The default; by day; all but an hour; and from midnight and up to it. *)
MCDefault == {[start |-> 22, end |-> 5]}
MCOffMidnight == MCDefault \cup {[start |-> 9, end |-> 17], [start |-> 5, end |-> 4]}
MCAtMidnight == {[start |-> 0, end |-> 6], [start |-> 23, end |-> 0]}

(* Berlin, on the nights the clocks change (01:00 UTC of day 3) and others,  *)
(* and New York on the night they are put forward (07:00 UTC).               *)
MCForward == {[change |-> 73, before |-> 1, after |-> 2],
              [change |-> 73, before |-> 1, after |-> 1],
              [change |-> 79, before |-> -5, after |-> -4]}
MCBack == {[change |-> 73, before |-> 2, after |-> 1]}

MCSettings == [schedule : MCOffMidnight \cup MCAtMidnight, zone : MCForward]
              \cup [schedule : MCOffMidnight, zone : MCBack]
MCPutBack == [schedule : MCDefault, zone : MCBack]

(* The theorems about the scheduler speak of these settings. *)
ASSUME MCRegular == \A x \in MCSettings : Regular(x.schedule, x.zone)
=============================================================================
