------------------------------ MODULE PaidTime ------------------------------
(***************************************************************************)
(* What a member is promised for a sold plan, with no table behind it: an  *)
(* amount of paid time that only runs down while the plan is running, by   *)
(* exactly the time that passes, and stands still while it is paused.      *)
(* When it is used up the plan is over; nothing gives time back except a   *)
(* new sale.  SoldPlans implements this specification.                     *)
(***************************************************************************)
EXTENDS Integers

CONSTANT Subs        \* the sold plans

VARIABLES
  mode,              \* what each sold plan is doing
  remaining          \* its paid time still to run

promise == <<mode, remaining>>

Mode == {"unsold", "running", "paused", "over", "cancelled"}

PromiseOK ==
  /\ mode \in [Subs -> Mode]
  /\ remaining \in [Subs -> Nat]

Init ==
  /\ mode = [s \in Subs |-> "unsold"]
  /\ remaining = [s \in Subs |-> 0]

Become(s, m) == mode' = [mode EXCEPT ![s] = m]

(* The amount sold is up to the plan. *)
Sell(s) ==
  /\ mode[s] = "unsold"
  /\ Become(s, "running")
  /\ remaining'[s] \in Nat \ {0}
  /\ remaining' = [remaining EXCEPT ![s] = remaining'[s]]

Pause(s)  == mode[s] = "running" /\ Become(s, "paused") /\ UNCHANGED remaining

Resume(s) == mode[s] = "paused" /\ Become(s, "running") /\ UNCHANGED remaining

Cancel(s) ==
  /\ mode[s] \in {"running", "paused", "over"}
  /\ Become(s, "cancelled")
  /\ remaining' = [remaining EXCEPT ![s] = 0]

(* One tick of the clock, for one plan. *)
Runs(s) ==
  /\ mode[s] = "running"
  /\ remaining'[s] = remaining[s] - 1
  /\ mode'[s] = IF remaining[s] = 1 THEN "over" ELSE "running"

Stands(s) ==
  /\ mode[s] # "running"
  /\ remaining'[s] = remaining[s]
  /\ \/ mode'[s] = mode[s]
     \/ mode[s] = "paused" /\ mode'[s] = "running"

Pass ==
  /\ mode' = [s \in Subs |-> mode'[s]]
  /\ remaining' = [s \in Subs |-> remaining'[s]]
  /\ \A s \in Subs : Runs(s) \/ Stands(s)

Next ==
  \/ Pass
  \/ \E s \in Subs : Sell(s) \/ Pause(s) \/ Resume(s) \/ Cancel(s)

Spec == Init /\ [][Next]_promise
=============================================================================
