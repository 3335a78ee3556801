------------------------------- MODULE MCTill -------------------------------
(* A small instance of Till. *)
EXTENDS Till, TLC

CONSTANTS month, b1

(* A month that costs three, sold at one branch that never closes. *)
MCTerms ==
  [p \in Plans |-> [kind |-> "MEMBERSHIP", durationDays |-> 1, sessions |-> Null,
                    maxVisitsPerDay |-> 1]]

MCPrice == [p \in Plans |-> 3]

AlwaysOpen == [b \in Branches |-> 0 .. Day - 1]

NoGate == {[required |-> FALSE, percent |-> 50]}

OnePolicy == {[freezeEnabled |-> TRUE, maxFreezeDays |-> 1,
               maxFreezeDaysPerYear |-> 2, graceEnabled |-> TRUE, graceDays |-> 1]}
=============================================================================
