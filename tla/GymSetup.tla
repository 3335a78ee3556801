------------------------------ MODULE GymSetup ------------------------------
(***************************************************************************)
(* How owners and admins set a gym up: its branches, the staff that work   *)
(* at them, its plans and its settings, and the rules that tie them        *)
(* together.  The services check a request against what they read in       *)
(* transactions of their own and write it in a later one; a request is     *)
(* therefore a process (Clients) that begins, checks and writes, and with  *)
(* one client they run one after the other.  A request that is refused     *)
(* writes nothing and leaves its client idle.                              *)
(*                                                                         *)
(* Names, hours, prices and passwords are left out, and so is the owner,   *)
(* whose row no request may change.  An admin may do less than the owner,  *)
(* so who is asking never limits what can be asked.  What a change of      *)
(* staff does to their sessions is not modelled here.                      *)
(***************************************************************************)
EXTENDS Naturals, FiniteSets

CONSTANTS
  Clients,          \* the requests served at once
  Branches, Staff, Plans,  \* ids of the three tables
  Switches,         \* the settings that are a switch with an amount
  StaffPatches,     \* the bodies of PATCH /staff/:id
  PlanPatches,      \* the bodies of PATCH /plans/:id
  SettingsPatches,  \* the bodies of PATCH /settings
  PackSizes,        \* the packs a new plan may have (bound)
  Null

Roles    == {"ADMIN", "BRANCH_STAFF"}
Row      == [role : Roles, branch : Branches \cup {Null},
             status : {"ACTIVE", "ARCHIVED"}]
Plan     == [everywhere : BOOLEAN, listed : SUBSET Branches,
             kind : {"MEMBERSHIP", "DAY_PASS"},
             sessions : (Nat \ {0}) \cup {Null}]
NewPlan  == [everywhere : BOOLEAN, listed : SUBSET Branches,
             kind : {"MEMBERSHIP", "DAY_PASS"}, sessions : PackSizes \cup {Null}]

(* A body names some of the fields of a row; the others stay as they are. *)
Has(patch, field) == field \in DOMAIN patch

Patched(patch, row) ==
  [f \in DOMAIN row |-> IF Has(patch, f) THEN patch[f] ELSE row[f]]

ASSUME GymSetupAssumption ==
  /\ IsFiniteSet(Branches) /\ Branches # {} /\ Null \notin Branches
  /\ IsFiniteSet(Staff) /\ Null \notin Row /\ Null \notin Plan
  /\ PackSizes \subseteq Nat \ {0}
  /\ \A patch \in StaffPatches :
       /\ Has(patch, "role") => patch.role \in Roles
       /\ Has(patch, "branch") => patch.branch \in Branches \cup {Null}
       /\ Has(patch, "status") => patch.status \in {"ACTIVE", "ARCHIVED"}
  /\ \A patch \in PlanPatches :
       /\ Has(patch, "everywhere") => patch.everywhere \in BOOLEAN
       /\ Has(patch, "listed") => patch.listed \in SUBSET Branches
       /\ Has(patch, "kind") => patch.kind \in {"MEMBERSHIP", "DAY_PASS"}
       /\ Has(patch, "sessions") => patch.sessions \in (Nat \ {0}) \cup {Null}
  /\ \A patch \in SettingsPatches :
       /\ Has(patch, "on") => patch.on \in BOOLEAN
       /\ Has(patch, "amount") => patch.amount \in Nat

VARIABLES
  branchStatus,  \* branches.status; "NONE" before the branch is created
  staff,         \* the staff table; Null before the row is created
  plan,          \* plans and their plan_branches; Null before creation
  settings,      \* each switch and its amount
  req            \* the request each client is serving

vars == <<branchStatus, staff, plan, settings, req>>

Idle == [op |-> "idle"]

TypeOK ==
  /\ branchStatus \in [Branches -> {"NONE", "ACTIVE", "ARCHIVED"}]
  /\ staff \in [Staff -> Row \cup {Null}]
  /\ plan \in [Plans -> Plan \cup {Null}]
  /\ settings \in [Switches -> [on : BOOLEAN, amount : Nat]]
  /\ \A c \in Clients :
       req[c].op \in {"idle", "archive", "hire", "staff", "plan", "settings"}

(* A gym is created with its first branch, its settings off and its owner. *)
Init ==
  /\ \E first \in Branches :
       branchStatus = [b \in Branches |-> IF b = first THEN "ACTIVE" ELSE "NONE"]
  /\ staff = [i \in Staff |-> Null]
  /\ plan = [p \in Plans |-> Null]
  /\ settings = [w \in Switches |-> [on |-> FALSE, amount |-> 0]]
  /\ req = [c \in Clients |-> Idle]

IsServed(b) == branchStatus[b] = "ACTIVE"

IsFree(c) == req[c] = Idle

Begin(c, request) ==
  /\ IsFree(c)
  /\ req' = [req EXCEPT ![c] = request]
  /\ UNCHANGED <<branchStatus, staff, plan, settings>>

-----------------------------------------------------------------------------
(* Branches *)

OpenBranch(b) ==
  /\ branchStatus[b] = "NONE"
  /\ branchStatus' = [branchStatus EXCEPT ![b] = "ACTIVE"]
  /\ UNCHANGED <<staff, plan, settings, req>>

Reopen(b) ==
  /\ branchStatus[b] = "ARCHIVED"
  /\ branchStatus' = [branchStatus EXCEPT ![b] = "ACTIVE"]
  /\ UNCHANGED <<staff, plan, settings, req>>

(* A request that reads the branch as archived already counts nothing; Null *)
(* stands for a count that has not come back yet.                           *)
BeginArchive(c, b) ==
  /\ branchStatus[b] # "NONE"
  /\ Begin(c, [op |-> "archive", branch |-> b, again |-> ~IsServed(b),
               active |-> Null, desk |-> Null])

Served == {b \in Branches : IsServed(b)}

DeskOf(b) ==
  {i \in Staff : /\ staff[i] # Null
                 /\ staff[i].role = "BRANCH_STAFF" /\ staff[i].branch = b
                 /\ staff[i].status = "ACTIVE"}

(* The two counts are transactions of their own and run side by side. *)
CountActive(c) ==
  /\ req[c].op = "archive" /\ ~req[c].again /\ req[c].active = Null
  /\ req' = [req EXCEPT ![c].active = Cardinality(Served)]
  /\ UNCHANGED <<branchStatus, staff, plan, settings>>

CountActiveStaff(c) ==
  /\ req[c].op = "archive" /\ ~req[c].again /\ req[c].desk = Null
  /\ req' = [req EXCEPT ![c].desk = Cardinality(DeskOf(req[c].branch))]
  /\ UNCHANGED <<branchStatus, staff, plan, settings>>

(* Mutation: the last active branch may go. *)
MayArchiveTheLast(seen) == ~seen.again => seen.desk = 0

MayArchive(seen) == ~seen.again => seen.active > 1 /\ seen.desk = 0

Archive(c) ==
  /\ req[c].op = "archive"
  /\ ~req[c].again => req[c].active # Null /\ req[c].desk # Null
  /\ branchStatus' = IF MayArchive(req[c])
                     THEN [branchStatus EXCEPT ![req[c].branch] = "ARCHIVED"]
                     ELSE branchStatus
  /\ req' = [req EXCEPT ![c] = Idle]
  /\ UNCHANGED <<staff, plan, settings>>

-----------------------------------------------------------------------------
(* Staff *)

(* Mutation: only desk staff are looked at. *)
MayAssignAdminAnywhere(row) == row.role = "BRANCH_STAFF" => row.branch # Null

MayAssign(row) ==
  IF row.role = "ADMIN" THEN row.branch = Null ELSE row.branch # Null

(* requireActiveBranch, when the request names a branch. *)
NamesServedBranch(patch) ==
  Has(patch, "branch") => \A b \in {patch.branch} \ {Null} : IsServed(b)

(* POST /staff: the branch is looked up and the row inserted in one         *)
(* transaction, which holds no lock on the branch in between; an id stands  *)
(* for an email, and the second of two hires is refused.                    *)
BeginHire(c, i, row) ==
  /\ staff[i] = Null /\ row.status = "ACTIVE"
  /\ MayAssign(row) /\ NamesServedBranch(row)
  /\ Begin(c, [op |-> "hire", id |-> i, row |-> row])

Hire(c) ==
  /\ req[c].op = "hire"
  /\ staff' = [staff EXCEPT ![req[c].id] = IF @ = Null THEN req[c].row ELSE @]
  /\ req' = [req EXCEPT ![c] = Idle]
  /\ UNCHANGED <<branchStatus, plan, settings>>

(* PATCH /staff/:id checks the row it has read with the patch applied. *)
BeginPatchStaff(c, i, patch) ==
  /\ staff[i] # Null
  /\ MayAssign(Patched(patch, staff[i]))
  /\ Begin(c, [op |-> "staff", id |-> i, patch |-> patch, checked |-> FALSE])

CheckDesk(c) ==
  /\ req[c].op = "staff" /\ ~req[c].checked
  /\ req' = [req EXCEPT ![c] = IF NamesServedBranch(req[c].patch)
                               THEN [req[c] EXCEPT !.checked = TRUE] ELSE Idle]
  /\ UNCHANGED <<branchStatus, staff, plan, settings>>

PatchStaff(c) ==
  /\ req[c].op = "staff" /\ req[c].checked
  /\ staff' = [staff EXCEPT ![req[c].id] = Patched(req[c].patch, @)]
  /\ req' = [req EXCEPT ![c] = Idle]
  /\ UNCHANGED <<branchStatus, plan, settings>>

-----------------------------------------------------------------------------
(* Plans *)

(* Mutation: a pack that is left out has no session. *)
TermsOfNone(row) ==
  IF row.kind = "DAY_PASS" THEN [row EXCEPT !.sessions = 1]
  ELSE [row EXCEPT !.sessions = IF @ = Null THEN 0 ELSE @]

(* resolvePlanTerms for a plan that is being created. *)
TermsOf(row) ==
  IF row.kind = "DAY_PASS" THEN [row EXCEPT !.sessions = 1] ELSE row

MayBeTerms(row) == row.kind = "DAY_PASS" => row.sessions \in {Null, 1}

(* POST /plans in one transaction; a selected plan lists served branches. *)
CreatePlan(p, row) ==
  /\ plan[p] = Null
  /\ row.everywhere <=> row.listed = {}
  /\ \A b \in row.listed : IsServed(b)
  /\ MayBeTerms(row)
  /\ plan' = [plan EXCEPT ![p] = TermsOf(row)]
  /\ UNCHANGED <<branchStatus, staff, settings, req>>

(* Mutation: switching to selected branches asks for none. *)
MayScopeToNone(patch, row) ==
  IF Patched(patch, row).everywhere
  THEN Has(patch, "listed") => patch.listed = {}
  ELSE Has(patch, "listed") => patch.listed # {}

(* assertBranchScope against the row the service has read. *)
MayScope(patch, row) ==
  IF Patched(patch, row).everywhere
  THEN Has(patch, "listed") => patch.listed = {}
  ELSE /\ Has(patch, "listed") => patch.listed # {}
       /\ row.everywhere => Has(patch, "listed")

WithOneVisit(patch) ==
  [f \in DOMAIN patch \cup {"sessions"} |-> IF f = "sessions" THEN 1 ELSE patch[f]]

(* Mutation: the terms are forced on a change of kind only. *)
ForcedOnChange(patch, row) ==
  IF Has(patch, "kind") /\ patch.kind = "DAY_PASS"
  THEN WithOneVisit(patch) ELSE patch

(* The terms of a day pass are written whatever the body says of them. *)
Forced(patch, row) ==
  IF Patched(patch, row).kind = "DAY_PASS" THEN WithOneVisit(patch) ELSE patch

AsksForDayPass(patch, row) ==
  Patched(patch, row).kind = "DAY_PASS" /\ Has(patch, "sessions") =>
    patch.sessions \in {Null, 1}

BeginPatchPlan(c, p, patch) ==
  /\ plan[p] # Null
  /\ MayScope(patch, plan[p]) /\ AsksForDayPass(patch, plan[p])
  /\ Begin(c, [op |-> "plan", id |-> p, patch |-> Forced(patch, plan[p]),
               checked |-> FALSE])

(* The repository reads the row once more and the branches that are listed. *)
ScopeStands(patch, row) ==
  LET lists == Has(patch, "listed") /\ patch.listed # {}
  IN  lists => /\ ~Patched(patch, row).everywhere
               /\ \A b \in patch.listed : IsServed(b)

CheckScope(c) ==
  /\ req[c].op = "plan" /\ ~req[c].checked
  /\ req' = [req EXCEPT ![c] = IF ScopeStands(req[c].patch, plan[req[c].id])
                               THEN [req[c] EXCEPT !.checked = TRUE] ELSE Idle]
  /\ UNCHANGED <<branchStatus, staff, plan, settings>>

(* allBranches: true empties the list; an empty list is not written. *)
Listed(patch, row) ==
  IF Has(patch, "everywhere") /\ patch.everywhere THEN {}
  ELSE IF Has(patch, "listed") /\ patch.listed # {} THEN patch.listed
  ELSE row.listed

Rewritten(patch, row) ==
  [Patched(patch, row) EXCEPT !.listed = Listed(patch, row)]

PatchPlan(c) ==
  /\ req[c].op = "plan" /\ req[c].checked
  /\ plan' = [plan EXCEPT ![req[c].id] = Rewritten(req[c].patch, @)]
  /\ req' = [req EXCEPT ![c] = Idle]
  /\ UNCHANGED <<branchStatus, staff, settings>>

-----------------------------------------------------------------------------
(* Settings *)

(* Mutation: the amount is looked at only when the body names it. *)
IsUsableIfNamed(patch, row) ==
  Has(patch, "amount") /\ Patched(patch, row).on => patch.amount > 0

(* A switch that is on has an amount of one at least. *)
IsUsable(patch, row) == Patched(patch, row).on => Patched(patch, row).amount > 0

BeginPatchSettings(c, w, patch) ==
  /\ IsUsable(patch, settings[w])
  /\ Begin(c, [op |-> "settings", id |-> w, patch |-> patch])

PatchSettings(c) ==
  /\ req[c].op = "settings"
  /\ settings' = [settings EXCEPT ![req[c].id] = Patched(req[c].patch, @)]
  /\ req' = [req EXCEPT ![c] = Idle]
  /\ UNCHANGED <<branchStatus, staff, plan>>

-----------------------------------------------------------------------------

Next ==
  \/ \E b \in Branches : OpenBranch(b) \/ Reopen(b)
  \/ \E p \in Plans, row \in NewPlan : CreatePlan(p, row)
  \/ \E c \in Clients :
       \/ \E b \in Branches : BeginArchive(c, b)
       \/ CountActive(c) \/ CountActiveStaff(c) \/ Archive(c)
       \/ \E i \in Staff, row \in Row : BeginHire(c, i, row)
       \/ Hire(c)
       \/ \E i \in Staff, patch \in StaffPatches : BeginPatchStaff(c, i, patch)
       \/ CheckDesk(c) \/ PatchStaff(c)
       \/ \E p \in Plans, patch \in PlanPatches : BeginPatchPlan(c, p, patch)
       \/ CheckScope(c) \/ PatchPlan(c)
       \/ \E w \in Switches, patch \in SettingsPatches :
            BeginPatchSettings(c, w, patch)
       \/ PatchSettings(c)

Spec == Init /\ [][Next]_vars

-----------------------------------------------------------------------------
(* What must never go wrong *)

(* Whatever is archived and reopened, the gym keeps a branch that is open.   *)
(* "The last active location is BRANCH_LAST_ACTIVE."                         *)
OneBranchServes == Served # {}

(* Through promotions, demotions and moves, desk staff have a branch and     *)
(* admins have none, whichever fields a request names.                       *)
RolesMatchBranches ==
  \A i \in Staff : staff[i] # Null =>
    (staff[i].role = "BRANCH_STAFF" <=> staff[i].branch # Null)

(* After any sequence of edits that name some of its fields, a plan is for   *)
(* every branch exactly when it lists none.                                  *)
PlansAreForSomewhere ==
  \A p \in Plans : plan[p] # Null => (plan[p].everywhere <=> plan[p].listed = {})

(* A day pass is one visit, however the plan became one and whatever else    *)
(* was edited since.                                                         *)
DayPassIsOneVisit ==
  \A p \in Plans : plan[p] # Null =>
    (plan[p].kind = "DAY_PASS" => plan[p].sessions = 1)

(* A setting that is switched on has its amount, though the switch and the   *)
(* amount are edited apart.                                                  *)
SwitchesHaveAmounts ==
  \A w \in Switches : settings[w].on => settings[w].amount > 0

=============================================================================
