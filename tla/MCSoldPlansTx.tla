--------------------------- MODULE MCSoldPlansTx ---------------------------
(* Small instances of SoldPlansTx. *)
EXTENDS SoldPlansTx, TLC

CONSTANTS month, pack, t1, t2

(* A time plan with one visit a day and a pack of one session. *)
MonthTerms == [p \in {month} |->
  [kind |-> "MEMBERSHIP", durationDays |-> 1,
   sessions |-> Null, maxVisitsPerDay |-> 1]]

PackTerms == [p \in {pack} |->
  [kind |-> "MEMBERSHIP", durationDays |-> 1,
   sessions |-> 1, maxVisitsPerDay |-> 2]]

(* A pack of two days, which a freeze granted on its second day outlasts.    *)
TwoDayTerms == [p \in {pack} |-> [PackTerms[p] EXCEPT !.durationDays = 2]]

(* The connections are alike. *)
Alike == Permutations(Sessions)

MCPolicy == [freezeEnabled |-> TRUE, maxFreezeDays |-> 1,
             maxFreezeDaysPerYear |-> 2,
             graceEnabled |-> TRUE, graceDays |-> 1]

LongFreezes == [MCPolicy EXCEPT !.maxFreezeDays = 2, !.maxFreezeDaysPerYear = 4]

MCPolicyOnly    == {MCPolicy}
LongFreezesOnly == {LongFreezes}
=============================================================================
