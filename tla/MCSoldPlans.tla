---------------------------- MODULE MCSoldPlans ----------------------------
(* Small instances of SoldPlans. *)
EXTENDS SoldPlans

CONSTANTS month, pack, dayPass

(* A time plan, a pack of one session and two visits a day, a walk-in. *)
MCTerms(p) ==
  CASE p = month   -> [kind |-> "MEMBERSHIP", durationDays |-> 2,
                       sessions |-> Null, maxVisitsPerDay |-> 1]
    [] p = pack    -> [kind |-> "MEMBERSHIP", durationDays |-> 2,
                       sessions |-> 1, maxVisitsPerDay |-> 2]
    [] p = dayPass -> [kind |-> "DAY_PASS", durationDays |-> 1,
                       sessions |-> 1, maxVisitsPerDay |-> 1]

BookTerms  == [p \in {month, pack} |-> MCTerms(p)]
ShelfTerms == [p \in {pack, dayPass} |-> [MCTerms(p) EXCEPT !.durationDays = 1]]

Policy(freeze, perYear, grace) ==
  [freezeEnabled |-> freeze, maxFreezeDays |-> 2,
   maxFreezeDaysPerYear |-> perYear,
   graceEnabled |-> grace > 0, graceDays |-> grace]

OnePolicy   == {Policy(TRUE, 2, 1)}
TwoPolicies == {Policy(TRUE, 3, 1), Policy(FALSE, 3, 2)}
=============================================================================
