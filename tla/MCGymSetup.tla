----------------------------- MODULE MCGymSetup -----------------------------
(* Small instances of GymSetup. *)
EXTENDS GymSetup

CONSTANTS b1, b2

(* Each body names some of the fields; no field is left out by all of them. *)
MCStaffPatches ==
  {[status |-> "ACTIVE"], [status |-> "ARCHIVED"], [branch |-> b2],
   [role |-> "ADMIN"], [role |-> "ADMIN", branch |-> Null],
   [role |-> "BRANCH_STAFF", branch |-> b1]}

MCPlanPatches ==
  {[everywhere |-> TRUE], [everywhere |-> FALSE], [listed |-> {}],
   [listed |-> {b1, b2}], [everywhere |-> FALSE, listed |-> {b2}],
   [kind |-> "DAY_PASS"], [kind |-> "MEMBERSHIP"], [sessions |-> 8],
   [sessions |-> Null]}

MCSettingsPatches ==
  {[on |-> TRUE], [on |-> FALSE], [amount |-> 0], [amount |-> 1],
   [on |-> TRUE, amount |-> 1]}

NoPatches == {}
=============================================================================
