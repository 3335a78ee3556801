---------------------------- MODULE MCFrontDesk ----------------------------
(* Small instances of FrontDesk. *)
EXTENDS FrontDesk, TLC

CONSTANTS month, dayPass, b1, b2, s1, s2

(* A month of one tick with unlimited visits on two days, and a walk-in. *)
MCTerms ==
  [p \in Plans |->
     IF p = dayPass
     THEN [kind |-> "DAY_PASS", durationDays |-> 1, sessions |-> 1,
           maxVisitsPerDay |-> 1]
     ELSE [kind |-> "MEMBERSHIP", durationDays |-> 1, sessions |-> Null,
           maxVisitsPerDay |-> 1]]

MCPrice == [p \in Plans |-> IF p = dayPass THEN 2 ELSE 3]

AlwaysOpen == [b \in Branches |-> 0 .. Day - 1]

(* Half of three is rounded up to two. *)
GateOn == {[required |-> TRUE, percent |-> 50]}

OneGrace == {[freezeEnabled |-> TRUE, maxFreezeDays |-> 1,
              maxFreezeDaysPerYear |-> 2, graceEnabled |-> TRUE, graceDays |-> 1]}

Alike == Permutations(Subs) \cup Permutations(Branches)
=============================================================================
