-------------------------- MODULE MCParentalTime --------------------------
(* Three-minute days, zones on both sides of UTC, one whose clocks are put  *)
(* forward and one whose clocks are put back.                              *)
EXTENDS ParentalTime

MCZones ==
    {[before |-> 2, after |-> 2, at |-> 0],
     [before |-> -2, after |-> -2, at |-> 0],
     [before |-> -1, after |-> 0, at |-> 13],
     [before |-> 1, after |-> 0, at |-> 13]}

MCWeekdays == {{0}, {3, 6}}
MCDurations == {1, 2}
===========================================================================
