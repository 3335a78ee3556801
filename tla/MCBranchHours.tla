---------------------------- MODULE MCBranchHours ----------------------------
(* A week of three days of eight units.  The clocks go forward at the       *)
(* beginning of day 3, which has no midnight, or back at the end of day 2,  *)
(* as they do in Cairo.                                                     *)
EXTENDS BranchHours

MCZones == {
  [before |-> 2, after |-> 2, at |-> 0],
  [before |-> 2, after |-> 3, at |-> 22],
  [before |-> 3, after |-> 2, at |-> 21] }

DayTime   == [open |-> 2, close |-> 6]
Night     == [open |-> 6, close |-> 2]
AllDay    == [open |-> 0, close |-> 8]
Till24    == [open |-> 5, close |-> 8]
NoTime    == [open |-> 3, close |-> 3]

MCWeeks == [0 .. 2 -> {Null, DayTime, Night, AllDay}]
             \cup {Null, [w \in 0 .. 2 |-> NoTime], [w \in 0 .. 2 |-> Till24]}

Dated == [date : {2, 3}, hours : {Null, DayTime, Night}]

MCLists == {<<>>} \cup {<<x>> : x \in Dated} \cup (Dated \X Dated)
             \cup {<<[date |-> 3, hours |-> NoTime]>>}
=============================================================================
