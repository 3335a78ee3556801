---------------------------- MODULE MCDeskViews ----------------------------
(* A small instance of DeskViews. *)
EXTENDS DeskViews, TLC

CONSTANTS pack, dayPass, b1, s1, s2

(* A pack of one session and a walk-in, both of one day. *)
MCTerms ==
  [p \in Plans |->
     [kind |-> IF p = dayPass THEN "DAY_PASS" ELSE "MEMBERSHIP",
      durationDays |-> 1, sessions |-> 1, maxVisitsPerDay |-> 1]]

MCPrice == [p \in Plans |-> IF p = dayPass THEN 2 ELSE 3]

AlwaysOpen == [b \in Branches |-> 0 .. Day - 1]

NoGate == {[required |-> FALSE, percent |-> 50]}

OneGrace == {[freezeEnabled |-> TRUE, maxFreezeDays |-> 1,
              maxFreezeDaysPerYear |-> 2, graceEnabled |-> TRUE, graceDays |-> 1]}

Alike == Permutations(Subs)
=============================================================================
