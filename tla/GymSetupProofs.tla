--------------------------- MODULE GymSetupProofs ---------------------------
(***************************************************************************)
(* When the requests that set a gym up do not overlap, its rules hold for  *)
(* every gym and every set of requests.  A rule is not inductive alone: it *)
(* is kept together with what the request under way has checked, which     *)
(* still holds when it writes because no other request runs between.       *)
(***************************************************************************)
EXTENDS GymSetup, FiniteSetTheorems, TLAPS

(* No two requests are served at once. *)
Serial == \A c, d \in Clients : c = d

StaffPatched == [op : {"staff"}, id : Staff, patch : StaffPatches, checked : BOOLEAN]
PlanPatched  == [op : {"plan"}, id : Plans, checked : BOOLEAN,
                 patch : PlanPatches \cup {WithOneVisit(patch) : patch \in PlanPatches}]
Archiving    == [op : {"archive"}, branch : Branches, again : BOOLEAN,
                 active : Nat \cup {Null}, desk : Nat \cup {Null}]
Hiring       == [op : {"hire"}, id : Staff, row : Row]
Setting      == [op : {"settings"}, id : Switches, patch : SettingsPatches]

Request == {Idle} \cup Archiving \cup Hiring \cup StaffPatched \cup PlanPatched \cup Setting

Typed ==
  /\ branchStatus \in [Branches -> {"NONE", "ACTIVE", "ARCHIVED"}]
  /\ staff \in [Staff -> Row \cup {Null}]
  /\ plan \in [Plans -> Plan \cup {Null}]
  /\ settings \in [Switches -> [on : BOOLEAN, amount : Nat]]
  /\ req \in [Clients -> Request]

(* Rows are never deleted, so what a request has read is still there. *)
RowsExist ==
  \A c \in Clients :
    /\ req[c].op = "staff" => staff[req[c].id] # Null
    /\ req[c].op = "plan" => plan[req[c].id] # Null

(* What a request under way has made sure of. *)
LeavesABranch(r) ==
  r.op = "archive" /\ (r.again \/ (r.active # Null /\ r.active > 1)) =>
    Served \ {r.branch} # {}

KeepsRoles(r) ==
  /\ r.op = "hire" => MayAssign(r.row)
  /\ r.op = "staff" => MayAssign(Patched(r.patch, staff[r.id]))

KeepsPlans(r) ==
  r.op = "plan" =>
    /\ MayScope(r.patch, plan[r.id])
    /\ Patched(r.patch, plan[r.id]).kind = "DAY_PASS" =>
         Patched(r.patch, plan[r.id]).sessions = 1

KeepsSettings(r) == r.op = "settings" => IsUsable(r.patch, settings[r.id])

BranchesKept == OneBranchServes /\ \A c \in Clients : LeavesABranch(req[c])

RolesKept == RolesMatchBranches /\ \A c \in Clients : KeepsRoles(req[c])

PlansKept ==
  PlansAreForSomewhere /\ DayPassIsOneVisit /\ \A c \in Clients : KeepsPlans(req[c])

SettingsKept == SwitchesHaveAmounts /\ \A c \in Clients : KeepsSettings(req[c])

SetupInv == Typed /\ RowsExist /\ BranchesKept /\ RolesKept /\ PlansKept /\ SettingsKept

-----------------------------------------------------------------------------
(* The types *)

LEMMA RequestKinds ==
  ASSUME NEW r \in Request
  PROVE  /\ r.op = "archive" => r \in Archiving
         /\ r.op = "hire" => r \in Hiring
         /\ r.op = "staff" => r \in StaffPatched
         /\ r.op = "plan" => r \in PlanPatched
         /\ r.op = "settings" => r \in Setting
  BY DEF Request, Idle, Archiving, Hiring, StaffPatched, PlanPatched, Setting

LEMMA PatchedRow ==
  ASSUME NEW patch \in StaffPatches, NEW row \in Row
  PROVE  Patched(patch, row) \in Row
  BY GymSetupAssumption DEF Patched, Has, Row

LEMMA PatchedSetting ==
  ASSUME NEW patch \in SettingsPatches, NEW row \in [on : BOOLEAN, amount : Nat]
  PROVE  Patched(patch, row) \in [on : BOOLEAN, amount : Nat]
  BY GymSetupAssumption DEF Patched, Has

(* What the body of a plan request may name, its forced terms included. *)
LEMMA PlanBody ==
  ASSUME NEW patch \in PlanPatches \cup {WithOneVisit(q) : q \in PlanPatches}
  PROVE  /\ Has(patch, "everywhere") => patch.everywhere \in BOOLEAN
         /\ Has(patch, "listed") => patch.listed \in SUBSET Branches
         /\ Has(patch, "kind") => patch.kind \in {"MEMBERSHIP", "DAY_PASS"}
         /\ Has(patch, "sessions") => patch.sessions \in (Nat \ {0}) \cup {Null}
<1>1. CASE patch \in PlanPatches
  BY <1>1, GymSetupAssumption
<1>2. CASE \E q \in PlanPatches : patch = WithOneVisit(q)
  <2>1. PICK q \in PlanPatches : patch = WithOneVisit(q)
    BY <1>2
  <2>2. /\ Has(patch, "everywhere") => Has(q, "everywhere") /\ patch.everywhere = q.everywhere
        /\ Has(patch, "listed") => Has(q, "listed") /\ patch.listed = q.listed
        /\ Has(patch, "kind") => Has(q, "kind") /\ patch.kind = q.kind
        /\ Has(patch, "sessions") => patch.sessions = 1
    BY <2>1 DEF WithOneVisit, Has
  <2> QED
    BY <2>2, GymSetupAssumption
<1> QED
  BY <1>1, <1>2

LEMMA RewrittenPlan ==
  ASSUME NEW patch \in PlanPatches \cup {WithOneVisit(q) : q \in PlanPatches},
         NEW row \in Plan
  PROVE  /\ Patched(patch, row) \in Plan
         /\ Rewritten(patch, row) \in Plan
         /\ Rewritten(patch, row).everywhere = Patched(patch, row).everywhere
         /\ Rewritten(patch, row).kind = Patched(patch, row).kind
         /\ Rewritten(patch, row).sessions = Patched(patch, row).sessions
         /\ Rewritten(patch, row).listed = Listed(patch, row)
<1>1. Patched(patch, row) \in Plan
  BY PlanBody DEF Patched, Plan, Has
<1>2. Listed(patch, row) \in SUBSET Branches
  BY PlanBody DEF Listed, Plan
<1> QED
  BY <1>1, <1>2 DEF Rewritten, Plan

LEMMA CreatedPlan ==
  ASSUME NEW row \in NewPlan
  PROVE  /\ TermsOf(row) \in Plan
         /\ TermsOf(row).everywhere = row.everywhere
         /\ TermsOf(row).listed = row.listed
         /\ TermsOf(row).kind = row.kind
         /\ row.kind = "DAY_PASS" => TermsOf(row).sessions = 1
  BY GymSetupAssumption DEF TermsOf, NewPlan, Plan

LEMMA TypedInit == Init => Typed /\ RowsExist
  BY DEF Init, Typed, RowsExist, Request, Idle

(* One step per action; what an action leaves alone keeps its type. *)
LEMMA TypedStep == Typed /\ RowsExist /\ [Next]_vars => Typed'
<1> SUFFICES ASSUME Typed, RowsExist, [Next]_vars
             PROVE  Typed'
  OBVIOUS
<1> USE DEF Typed
<1>1. ASSUME NEW c \in Clients, NEW r \in Request, req' = [req EXCEPT ![c] = r]
      PROVE  req' \in [Clients -> Request]
  BY <1>1
<1>2. Idle \in Request
  BY DEF Request
<1>3. ASSUME NEW b \in Branches, OpenBranch(b) \/ Reopen(b)
      PROVE  Typed'
  BY <1>3 DEF OpenBranch, Reopen
<1>4. ASSUME NEW p \in Plans, NEW row \in NewPlan, CreatePlan(p, row)
      PROVE  Typed'
  BY <1>4, CreatedPlan DEF CreatePlan
<1>5. ASSUME NEW c \in Clients, NEW b \in Branches, BeginArchive(c, b)
      PROVE  Typed'
  <2>1. [op |-> "archive", branch |-> b, again |-> ~IsServed(b),
         active |-> Null, desk |-> Null] \in Archiving
    BY DEF Archiving
  <2> QED
    BY <1>1, <1>5, <2>1 DEF BeginArchive, Begin, Request
<1>6. ASSUME NEW c \in Clients, CountActive(c)
      PROVE  Typed'
  <2>1. req[c] \in Archiving
    BY <1>6, RequestKinds DEF CountActive
  <2>2. Cardinality(Served) \in Nat
    BY GymSetupAssumption, FS_Subset, FS_CardinalityType DEF Served
  <2>3. [req[c] EXCEPT !.active = Cardinality(Served)] \in Archiving
    BY <2>1, <2>2 DEF Archiving
  <2> QED
    BY <1>1, <1>6, <2>3 DEF CountActive, Request
<1>7. ASSUME NEW c \in Clients, CountActiveStaff(c)
      PROVE  Typed'
  <2>1. req[c] \in Archiving
    BY <1>7, RequestKinds DEF CountActiveStaff
  <2>2. Cardinality(DeskOf(req[c].branch)) \in Nat
    BY GymSetupAssumption, FS_Subset, FS_CardinalityType DEF DeskOf
  <2>3. [req[c] EXCEPT !.desk = Cardinality(DeskOf(req[c].branch))] \in Archiving
    BY <2>1, <2>2 DEF Archiving
  <2> QED
    BY <1>1, <1>7, <2>3 DEF CountActiveStaff, Request
<1>8. ASSUME NEW c \in Clients, Archive(c)
      PROVE  Typed'
  <2>1. req[c].branch \in Branches
    BY <1>8, RequestKinds DEF Archive, Archiving
  <2> QED
    BY <1>1, <1>2, <1>8, <2>1 DEF Archive
<1>9. ASSUME NEW c \in Clients, NEW i \in Staff, NEW row \in Row, BeginHire(c, i, row)
      PROVE  Typed'
  <2>1. [op |-> "hire", id |-> i, row |-> row] \in Hiring
    BY DEF Hiring
  <2> QED
    BY <1>1, <1>9, <2>1 DEF BeginHire, Begin, Request
<1>10. ASSUME NEW c \in Clients, Hire(c)
       PROVE  Typed'
  <2>1. req[c] \in Hiring
    BY <1>10, RequestKinds DEF Hire
  <2> QED
    BY <1>1, <1>2, <1>10, <2>1 DEF Hire, Hiring
<1>11. ASSUME NEW c \in Clients, NEW i \in Staff, NEW patch \in StaffPatches,
              BeginPatchStaff(c, i, patch)
       PROVE  Typed'
  <2>1. [op |-> "staff", id |-> i, patch |-> patch, checked |-> FALSE] \in StaffPatched
    BY DEF StaffPatched
  <2> QED
    BY <1>1, <1>11, <2>1 DEF BeginPatchStaff, Begin, Request
<1>12. ASSUME NEW c \in Clients, CheckDesk(c)
       PROVE  Typed'
  <2>1. req[c] \in StaffPatched
    BY <1>12, RequestKinds DEF CheckDesk
  <2>2. [req[c] EXCEPT !.checked = TRUE] \in StaffPatched
    BY <2>1 DEF StaffPatched
  <2> QED
    BY <1>1, <1>2, <1>12, <2>2 DEF CheckDesk, Request
<1>13. ASSUME NEW c \in Clients, PatchStaff(c)
       PROVE  Typed'
  <2>1. req[c] \in StaffPatched
    BY <1>13, RequestKinds DEF PatchStaff
  <2> QED
    BY <1>1, <1>2, <1>13, <2>1, PatchedRow DEF PatchStaff, StaffPatched, RowsExist
<1>14. ASSUME NEW c \in Clients, NEW p \in Plans, NEW patch \in PlanPatches,
              BeginPatchPlan(c, p, patch)
       PROVE  Typed'
  <2>1. [op |-> "plan", id |-> p, patch |-> Forced(patch, plan[p]), checked |-> FALSE]
          \in PlanPatched
    BY DEF PlanPatched, Forced
  <2> QED
    BY <1>1, <1>14, <2>1 DEF BeginPatchPlan, Begin, Request
<1>15. ASSUME NEW c \in Clients, CheckScope(c)
       PROVE  Typed'
  <2>1. req[c] \in PlanPatched
    BY <1>15, RequestKinds DEF CheckScope
  <2>2. [req[c] EXCEPT !.checked = TRUE] \in PlanPatched
    BY <2>1 DEF PlanPatched
  <2> QED
    BY <1>1, <1>2, <1>15, <2>2 DEF CheckScope, Request
<1>16. ASSUME NEW c \in Clients, PatchPlan(c)
       PROVE  Typed'
  <2>1. req[c] \in PlanPatched
    BY <1>16, RequestKinds DEF PatchPlan
  <2>2. req[c].id \in Plans /\ plan[req[c].id] \in Plan
    BY <1>16, <2>1 DEF PatchPlan, PlanPatched, RowsExist
  <2>3. Rewritten(req[c].patch, plan[req[c].id]) \in Plan
    BY <2>1, <2>2, RewrittenPlan DEF PlanPatched
  <2> QED
    BY <1>1, <1>2, <1>16, <2>2, <2>3 DEF PatchPlan
<1>17. ASSUME NEW c \in Clients, NEW w \in Switches, NEW patch \in SettingsPatches,
              BeginPatchSettings(c, w, patch)
       PROVE  Typed'
  <2>1. [op |-> "settings", id |-> w, patch |-> patch] \in Setting
    BY DEF Setting
  <2> QED
    BY <1>1, <1>17, <2>1 DEF BeginPatchSettings, Begin, Request
<1>18. ASSUME NEW c \in Clients, PatchSettings(c)
       PROVE  Typed'
  <2>1. req[c] \in Setting
    BY <1>18, RequestKinds DEF PatchSettings
  <2> QED
    BY <1>1, <1>2, <1>18, <2>1, PatchedSetting DEF PatchSettings, Setting
<1>19. CASE UNCHANGED vars
  BY <1>19 DEF vars
<1> QED
  BY <1>3, <1>4, <1>5, <1>6, <1>7, <1>8, <1>9, <1>10, <1>11, <1>12, <1>13, <1>14,
     <1>15, <1>16, <1>17, <1>18, <1>19 DEF Next

(* Requests of other kinds say nothing of rows; rows stay once they exist. *)
LEMMA RowsExistStep == Typed /\ RowsExist /\ [Next]_vars => RowsExist'
<1> SUFFICES ASSUME Typed, RowsExist, [Next]_vars
             PROVE  RowsExist'
  OBVIOUS
<1> USE DEF Typed
<1>1. ASSUME \A i \in Staff : staff[i] # Null => staff'[i] # Null,
             \A p \in Plans : plan[p] # Null => plan'[p] # Null,
             NEW c \in Clients, NEW r, req' = [req EXCEPT ![c] = r],
             r.op = "staff" => r.id \in Staff /\ staff[r.id] # Null,
             r.op = "plan" => r.id \in Plans /\ plan[r.id] # Null
      PROVE  RowsExist'
  <2> SUFFICES ASSUME NEW d \in Clients
               PROVE  /\ req'[d].op = "staff" => staff'[req'[d].id] # Null
                      /\ req'[d].op = "plan" => plan'[req'[d].id] # Null
    BY DEF RowsExist
  <2>1. CASE d = c
    BY <1>1, <2>1
  <2>2. CASE d # c
    <3>1. req'[d] = req[d]
      BY <1>1, <2>2
    <3>2. /\ req[d].op = "staff" => req[d].id \in Staff
          /\ req[d].op = "plan" => req[d].id \in Plans
      BY RequestKinds DEF StaffPatched, PlanPatched
    <3> QED
      BY <1>1, <3>1, <3>2 DEF RowsExist
  <2> QED
    BY <2>1, <2>2
<1>2. Idle.op = "idle"
  BY DEF Idle
<1>3. \A c \in Clients :
        /\ req[c].op = "staff" => req[c].id \in Staff /\ staff[req[c].id] # Null
        /\ req[c].op = "plan" => req[c].id \in Plans /\ plan[req[c].id] # Null
  BY RequestKinds DEF RowsExist, StaffPatched, PlanPatched
<1>4. ASSUME NEW b \in Branches, OpenBranch(b) \/ Reopen(b)
      PROVE  RowsExist'
  BY <1>4 DEF OpenBranch, Reopen, RowsExist
<1>5. ASSUME NEW p \in Plans, NEW row \in NewPlan, CreatePlan(p, row)
      PROVE  RowsExist'
  <2>1. TermsOf(row) # Null
    BY CreatedPlan, GymSetupAssumption
  <2> QED
    BY <1>3, <1>5, <2>1 DEF CreatePlan, RowsExist
<1>6. ASSUME NEW c \in Clients, NEW b \in Branches, BeginArchive(c, b)
      PROVE  RowsExist'
  <2> DEFINE r == [op |-> "archive", branch |-> b, again |-> ~IsServed(b),
                   active |-> Null, desk |-> Null]
  <2>1. req' = [req EXCEPT ![c] = r]
    BY <1>6 DEF BeginArchive, Begin
  <2>2. r.op = "archive"
    OBVIOUS
  <2> HIDE DEF r
  <2> QED
    BY <1>1, <1>6, <2>1, <2>2 DEF BeginArchive, Begin
<1>7. ASSUME NEW c \in Clients, CountActive(c) \/ CountActiveStaff(c)
      PROVE  RowsExist'
  <2>1. req[c] \in Archiving
    BY <1>7, RequestKinds DEF CountActive, CountActiveStaff
  <2>2. PICK r : req' = [req EXCEPT ![c] = r] /\ r.op = "archive"
    BY <1>7, <2>1 DEF CountActive, CountActiveStaff, Archiving
  <2> QED
    BY <1>1, <1>7, <2>2 DEF CountActive, CountActiveStaff
<1>8. ASSUME NEW c \in Clients, Archive(c) \/ PatchSettings(c)
      PROVE  RowsExist'
  BY <1>1, <1>2, <1>8 DEF Archive, PatchSettings
<1>9. ASSUME NEW c \in Clients, NEW i \in Staff, NEW row \in Row, BeginHire(c, i, row)
      PROVE  RowsExist'
  BY <1>1, <1>9 DEF BeginHire, Begin
<1>10. ASSUME NEW c \in Clients, Hire(c)
       PROVE  RowsExist'
  <2>1. req[c] \in Hiring
    BY <1>10, RequestKinds DEF Hire
  <2>2. \A i \in Staff : staff[i] # Null => staff'[i] # Null
    BY <1>10, <2>1 DEF Hire, Hiring
  <2> QED
    BY <1>1, <1>2, <1>10, <2>2 DEF Hire
<1>11. ASSUME NEW c \in Clients, NEW i \in Staff, NEW patch \in StaffPatches,
              BeginPatchStaff(c, i, patch)
       PROVE  RowsExist'
  BY <1>1, <1>11 DEF BeginPatchStaff, Begin
<1>12. ASSUME NEW c \in Clients, CheckDesk(c) \/ CheckScope(c)
       PROVE  RowsExist'
  <2>1. PICK r : /\ req' = [req EXCEPT ![c] = r]
                 /\ r = Idle \/ r = [req[c] EXCEPT !.checked = TRUE]
    BY <1>12 DEF CheckDesk, CheckScope
  <2>2. r = Idle \/ (r.op = req[c].op /\ r.id = req[c].id)
    BY <1>12, <2>1, RequestKinds DEF CheckDesk, CheckScope, StaffPatched, PlanPatched
  <2> QED
    BY <1>1, <1>2, <1>3, <1>12, <2>1, <2>2 DEF CheckDesk, CheckScope
<1>13. ASSUME NEW c \in Clients, PatchStaff(c)
       PROVE  RowsExist'
  <2>1. req[c] \in StaffPatched /\ staff[req[c].id] \in Row
    BY <1>3, <1>13, RequestKinds DEF PatchStaff
  <2>2. Patched(req[c].patch, staff[req[c].id]) # Null
    BY <2>1, PatchedRow, GymSetupAssumption DEF StaffPatched
  <2>3. \A i \in Staff : staff[i] # Null => staff'[i] # Null
    BY <1>13, <2>2 DEF PatchStaff
  <2> QED
    BY <1>1, <1>2, <1>13, <2>3 DEF PatchStaff
<1>14. ASSUME NEW c \in Clients, NEW p \in Plans, NEW patch \in PlanPatches,
              BeginPatchPlan(c, p, patch)
       PROVE  RowsExist'
  BY <1>1, <1>14 DEF BeginPatchPlan, Begin
<1>15. ASSUME NEW c \in Clients, PatchPlan(c)
       PROVE  RowsExist'
  <2>1. req[c] \in PlanPatched /\ plan[req[c].id] \in Plan
    BY <1>3, <1>15, RequestKinds DEF PatchPlan
  <2>2. Rewritten(req[c].patch, plan[req[c].id]) # Null
    BY <2>1, RewrittenPlan, GymSetupAssumption DEF PlanPatched
  <2>3. \A p \in Plans : plan[p] # Null => plan'[p] # Null
    BY <1>15, <2>2 DEF PatchPlan
  <2> QED
    BY <1>1, <1>2, <1>15, <2>3 DEF PatchPlan
<1>16. ASSUME NEW c \in Clients, NEW w \in Switches, NEW patch \in SettingsPatches,
              BeginPatchSettings(c, w, patch)
       PROVE  RowsExist'
  BY <1>1, <1>16 DEF BeginPatchSettings, Begin
<1>17. CASE UNCHANGED vars
  BY <1>17 DEF vars, RowsExist
<1> QED
  BY <1>4, <1>5, <1>6, <1>7, <1>8, <1>9, <1>10, <1>11, <1>12, <1>13, <1>14, <1>15,
     <1>16, <1>17 DEF Next

-----------------------------------------------------------------------------
(* One request at a time *)

(* The only client is the one that acts. *)
LEMMA OnlyRequest ==
  ASSUME Serial, Typed, NEW c \in Clients, NEW d \in Clients,
         NEW r, req' = [req EXCEPT ![c] = r]
  PROVE  c = d /\ req'[d] = r
  BY DEF Serial, Typed

(* The kinds of request that an action leaves under way. *)
LEMMA KindAfter ==
  ASSUME Serial, Typed, NEW c \in Clients, NEW d \in Clients
  PROVE  /\ (\E b \in Branches : BeginArchive(c, b)) \/ CountActive(c)
            \/ CountActiveStaff(c) => req'[d].op = "archive"
         /\ (\E i \in Staff, row \in Row : BeginHire(c, i, row)) => req'[d].op = "hire"
         /\ Hire(c) \/ Archive(c) \/ PatchStaff(c) \/ PatchPlan(c) \/ PatchSettings(c) =>
              req'[d].op = "idle"
         /\ (\E i \in Staff, patch \in StaffPatches : BeginPatchStaff(c, i, patch)) =>
              req'[d].op = "staff"
         /\ (\E p \in Plans, patch \in PlanPatches : BeginPatchPlan(c, p, patch)) =>
              req'[d].op = "plan"
         /\ CheckDesk(c) => \/ req'[d].op = "idle"
                            \/ /\ req'[d].op = "staff" /\ req[d].op = "staff"
                               /\ req'[d].id = req[d].id /\ req'[d].patch = req[d].patch
         /\ CheckScope(c) => \/ req'[d].op = "idle"
                             \/ /\ req'[d].op = "plan" /\ req[d].op = "plan"
                                /\ req'[d].id = req[d].id /\ req'[d].patch = req[d].patch
         /\ (\E w \in Switches, patch \in SettingsPatches :
               BeginPatchSettings(c, w, patch)) => req'[d].op = "settings"
<1>1. c = d
  BY DEF Serial
<1>2. CountActive(c) \/ CountActiveStaff(c) => req[d] \in Archiving
  BY <1>1, RequestKinds DEF Typed, CountActive, CountActiveStaff
<1>3. CountActive(c) \/ CountActiveStaff(c) => req'[d].op = "archive"
  <2>0. d \in DOMAIN req
    BY DEF Typed
  <2>1. CountActive(c) => req'[d] = [req[d] EXCEPT !.active = Cardinality(Served)]
    BY <1>1, <2>0 DEF CountActive
  <2>2. CountActiveStaff(c) =>
          req'[d] = [req[d] EXCEPT !.desk = Cardinality(DeskOf(req[d].branch))]
    BY <1>1, <2>0 DEF CountActiveStaff
  <2> QED
    BY <1>2, <2>1, <2>2 DEF Archiving
<1>4. CheckDesk(c) => req[d] \in StaffPatched
  BY <1>1, RequestKinds DEF Typed, CheckDesk
<1>5. CheckScope(c) => req[d] \in PlanPatched
  BY <1>1, RequestKinds DEF Typed, CheckScope
<1>6. CheckDesk(c) => \/ req'[d].op = "idle"
                      \/ /\ req'[d].op = "staff" /\ req[d].op = "staff"
                         /\ req'[d].id = req[d].id /\ req'[d].patch = req[d].patch
  <2>1. CheckDesk(c) => req'[d] \in {Idle, [req[d] EXCEPT !.checked = TRUE]}
    BY <1>1, OnlyRequest DEF CheckDesk
  <2> QED
    BY <1>4, <2>1 DEF StaffPatched, Idle
<1>7. CheckScope(c) => \/ req'[d].op = "idle"
                       \/ /\ req'[d].op = "plan" /\ req[d].op = "plan"
                          /\ req'[d].id = req[d].id /\ req'[d].patch = req[d].patch
  <2>1. CheckScope(c) => req'[d] \in {Idle, [req[d] EXCEPT !.checked = TRUE]}
    BY <1>1, OnlyRequest DEF CheckScope
  <2> QED
    BY <1>5, <2>1 DEF PlanPatched, Idle
<1>8. \A b \in Branches : BeginArchive(c, b) => req'[d].op = "archive"
  <2> TAKE b \in Branches
  <2>1. [op |-> "archive", branch |-> b, again |-> ~IsServed(b),
         active |-> Null, desk |-> Null].op = "archive"
    OBVIOUS
  <2> QED
    BY <1>1, <2>1, OnlyRequest DEF BeginArchive, Begin
<1>9. Hire(c) \/ Archive(c) \/ PatchStaff(c) \/ PatchPlan(c) \/ PatchSettings(c) =>
        req'[d].op = "idle"
  <2>1. Hire(c) \/ Archive(c) \/ PatchStaff(c) \/ PatchPlan(c) \/ PatchSettings(c) =>
          req' = [req EXCEPT ![c] = Idle]
    BY DEF Hire, Archive, PatchStaff, PatchPlan, PatchSettings
  <2> QED
    BY <2>1, OnlyRequest DEF Idle
<1>10. ASSUME NEW i \in Staff, NEW row \in Row, BeginHire(c, i, row)
       PROVE  req'[d].op = "hire"
  <2> DEFINE r == [op |-> "hire", id |-> i, row |-> row]
  <2>1. Begin(c, r)
    BY <1>10 DEF BeginHire
  <2>2. r.op = "hire"
    OBVIOUS
  <2> HIDE DEF r
  <2> QED
    BY <2>1, <2>2, OnlyRequest DEF Begin
<1>11. ASSUME NEW i \in Staff, NEW patch \in StaffPatches, BeginPatchStaff(c, i, patch)
       PROVE  req'[d].op = "staff"
  <2> DEFINE r == [op |-> "staff", id |-> i, patch |-> patch, checked |-> FALSE]
  <2>1. Begin(c, r)
    BY <1>11 DEF BeginPatchStaff
  <2>2. r.op = "staff"
    OBVIOUS
  <2> HIDE DEF r
  <2> QED
    BY <2>1, <2>2, OnlyRequest DEF Begin
<1>12. ASSUME NEW p \in Plans, NEW patch \in PlanPatches, BeginPatchPlan(c, p, patch)
       PROVE  req'[d].op = "plan"
  <2> DEFINE r == [op |-> "plan", id |-> p, patch |-> Forced(patch, plan[p]),
                   checked |-> FALSE]
  <2>1. Begin(c, r)
    BY <1>12 DEF BeginPatchPlan
  <2>2. r.op = "plan"
    OBVIOUS
  <2> HIDE DEF r
  <2> QED
    BY <2>1, <2>2, OnlyRequest DEF Begin
<1>13. ASSUME NEW w \in Switches, NEW patch \in SettingsPatches,
              BeginPatchSettings(c, w, patch)
       PROVE  req'[d].op = "settings"
  <2> DEFINE r == [op |-> "settings", id |-> w, patch |-> patch]
  <2>1. Begin(c, r)
    BY <1>13 DEF BeginPatchSettings
  <2>2. r.op = "settings"
    OBVIOUS
  <2> HIDE DEF r
  <2> QED
    BY <2>1, <2>2, OnlyRequest DEF Begin
<1> QED
  BY <1>3, <1>6, <1>7, <1>8, <1>9, <1>10, <1>11, <1>12, <1>13

-----------------------------------------------------------------------------
(* A branch stays open *)

(* A set of two or more has a member besides any one that is taken away. *)
LEMMA OneBesides ==
  ASSUME NEW S, NEW b, IsFiniteSet(S), Cardinality(S) > 1
  PROVE  S \ {b} # {}
<1> SUFFICES ASSUME S \subseteq {b}
             PROVE  FALSE
  OBVIOUS
<1>1. Cardinality(S) <= Cardinality({b})
  BY FS_Subset, FS_Singleton
<1>2. Cardinality({b}) = 1 /\ Cardinality(S) \in Nat
  BY FS_Singleton, FS_CardinalityType
<1> QED
  BY <1>1, <1>2

LEMMA BranchesStep ==
  ASSUME Serial, Typed, BranchesKept, [Next]_vars
  PROVE  BranchesKept'
<1> USE DEF Typed, BranchesKept, OneBranchServes
<1>1. ASSUME UNCHANGED branchStatus,
             \A d \in Clients : req'[d].op # "archive" \/ req'[d] = req[d]
      PROVE  BranchesKept'
  BY <1>1 DEF LeavesABranch, Served, IsServed
<1>2. ASSUME NEW b \in Branches, OpenBranch(b) \/ Reopen(b)
      PROVE  BranchesKept'
  <2>1. Served \subseteq Served'
    BY <1>2 DEF OpenBranch, Reopen, Served, IsServed
  <2> QED
    BY <1>2, <2>1 DEF OpenBranch, Reopen, LeavesABranch
<1>3. ASSUME NEW c \in Clients, NEW b \in Branches, BeginArchive(c, b)
      PROVE  BranchesKept'
  <2> DEFINE r == [op |-> "archive", branch |-> b, again |-> ~IsServed(b),
                   active |-> Null, desk |-> Null]
  <2>1. Begin(c, r)
    BY <1>3 DEF BeginArchive
  <2>2. r.branch = b /\ (r.again => ~IsServed(b)) /\ r.active = Null
    OBVIOUS
  <2> HIDE DEF r
  <2>3. \A d \in Clients : req'[d] = r
    BY <2>1, OnlyRequest DEF Begin
  <2>4. Served' = Served
    BY <2>1 DEF Begin, Served, IsServed
  <2>5. r.again => Served \ {b} = Served
    BY <2>2 DEF Served
  <2> QED
    BY <2>2, <2>3, <2>4, <2>5 DEF LeavesABranch
<1>4. ASSUME NEW c \in Clients, CountActive(c)
      PROVE  BranchesKept'
  <2>1. req[c] \in Archiving
    BY <1>4, RequestKinds DEF CountActive
  <2> DEFINE r == [req[c] EXCEPT !.active = Cardinality(Served)]
  <2>2. r.branch = req[c].branch /\ r.again = req[c].again
        /\ r.active = Cardinality(Served)
    BY <2>1 DEF Archiving
  <2> HIDE DEF r
  <2>3. \A d \in Clients : req'[d] = r
    BY <1>4, OnlyRequest DEF CountActive, r
  <2>4. Served' = Served
    BY <1>4 DEF CountActive, Served, IsServed
  <2>5. IsFiniteSet(Served)
    BY GymSetupAssumption, FS_Subset DEF Served
  <2>6. r.active > 1 => Served \ {r.branch} # {}
    BY <2>2, <2>5, OneBesides
  <2>7. ~r.again
    BY <1>4, <2>2 DEF CountActive
  <2> QED
    BY <2>3, <2>4, <2>6, <2>7 DEF LeavesABranch
<1>5. ASSUME NEW c \in Clients, CountActiveStaff(c)
      PROVE  BranchesKept'
  <2>1. req[c] \in Archiving
    BY <1>5, RequestKinds DEF CountActiveStaff
  <2> DEFINE r == [req[c] EXCEPT !.desk = Cardinality(DeskOf(req[c].branch))]
  <2>2. /\ r.branch = req[c].branch /\ r.again = req[c].again
        /\ r.active = req[c].active /\ r.op = req[c].op
    BY <2>1 DEF Archiving
  <2> HIDE DEF r
  <2>3. \A d \in Clients : req'[d] = r
    BY <1>5, OnlyRequest DEF CountActiveStaff, r
  <2>4. Served' = Served
    BY <1>5 DEF CountActiveStaff, Served, IsServed
  <2> QED
    BY <2>2, <2>3, <2>4 DEF LeavesABranch
<1>6. ASSUME NEW c \in Clients, Archive(c)
      PROVE  BranchesKept'
  <2>1. req[c] \in Archiving
    BY <1>6, RequestKinds DEF Archive
  <2>2. \A d \in Clients : req'[d].op = "idle"
    BY <1>6, KindAfter
  <2>3. CASE MayArchive(req[c])
    <3>1. Served \ {req[c].branch} # {}
      BY <1>6, <2>1, <2>3 DEF Archive, MayArchive, LeavesABranch, Archiving
    <3>2. Served \ {req[c].branch} \subseteq Served'
      BY <1>6, <2>3 DEF Archive, Served, IsServed
    <3> QED
      BY <2>2, <3>1, <3>2 DEF LeavesABranch
  <2>4. CASE ~MayArchive(req[c])
    BY <1>1, <1>6, <2>2, <2>4 DEF Archive
  <2> QED
    BY <2>3, <2>4
<1>7. ASSUME NEW c \in Clients,
             \/ \E i \in Staff, row \in Row : BeginHire(c, i, row)
             \/ Hire(c)
             \/ \E i \in Staff, patch \in StaffPatches : BeginPatchStaff(c, i, patch)
             \/ CheckDesk(c) \/ PatchStaff(c)
             \/ \E p \in Plans, patch \in PlanPatches : BeginPatchPlan(c, p, patch)
             \/ CheckScope(c) \/ PatchPlan(c)
             \/ \E w \in Switches, patch \in SettingsPatches :
                  BeginPatchSettings(c, w, patch)
             \/ PatchSettings(c)
      PROVE  BranchesKept'
  <2>1. UNCHANGED branchStatus
    BY <1>7 DEF BeginHire, BeginPatchStaff, BeginPatchPlan, BeginPatchSettings, Begin,
                Hire, CheckDesk, PatchStaff, CheckScope, PatchPlan, PatchSettings
  <2>2. \A d \in Clients : req'[d].op # "archive"
    BY <1>7, KindAfter
  <2> QED
    BY <1>1, <2>1, <2>2
<1>8. CASE UNCHANGED vars \/ \E p \in Plans, row \in NewPlan : CreatePlan(p, row)
  BY <1>1, <1>8 DEF vars, CreatePlan
<1> QED
  BY <1>2, <1>3, <1>4, <1>5, <1>6, <1>7, <1>8 DEF Next

-----------------------------------------------------------------------------
(* Roles and branches of the staff *)

LEMMA AssignedRow ==
  ASSUME NEW row \in Row, MayAssign(row)
  PROVE  row.role = "BRANCH_STAFF" <=> row.branch # Null
  BY DEF Row, Roles, MayAssign

LEMMA RolesStep ==
  ASSUME Serial, Typed, RowsExist, RolesKept, [Next]_vars
  PROVE  RolesKept'
<1> USE DEF Typed, RolesKept, RolesMatchBranches
<1>1. ASSUME UNCHANGED staff,
             \A d \in Clients : \/ req'[d].op \notin {"hire", "staff"}
                               \/ req'[d] = req[d]
      PROVE  RolesKept'
  BY <1>1 DEF KeepsRoles
<1>2. ASSUME NEW c \in Clients, NEW i \in Staff, NEW row \in Row, BeginHire(c, i, row)
      PROVE  RolesKept'
  <2> DEFINE r == [op |-> "hire", id |-> i, row |-> row]
  <2>1. Begin(c, r) /\ MayAssign(row)
    BY <1>2 DEF BeginHire
  <2>2. r.op = "hire" /\ r.row = row
    OBVIOUS
  <2> HIDE DEF r
  <2>3. \A d \in Clients : req'[d] = r
    BY <2>1, OnlyRequest DEF Begin
  <2> QED
    BY <2>1, <2>2, <2>3 DEF Begin, KeepsRoles
<1>3. ASSUME NEW c \in Clients, Hire(c)
      PROVE  RolesKept'
  <2>1. req[c] \in Hiring /\ MayAssign(req[c].row)
    BY <1>3, RequestKinds DEF Hire, KeepsRoles
  <2>2. \A d \in Clients : req'[d].op = "idle"
    BY <1>3, KindAfter
  <2>3. RolesMatchBranches'
    BY <1>3, <2>1, AssignedRow DEF Hire, Hiring
  <2> QED
    BY <2>2, <2>3 DEF KeepsRoles
<1>4. ASSUME NEW c \in Clients, NEW i \in Staff, NEW patch \in StaffPatches,
             BeginPatchStaff(c, i, patch)
      PROVE  RolesKept'
  <2> DEFINE r == [op |-> "staff", id |-> i, patch |-> patch, checked |-> FALSE]
  <2>1. Begin(c, r) /\ MayAssign(Patched(patch, staff[i]))
    BY <1>4 DEF BeginPatchStaff
  <2>2. r.op = "staff" /\ r.id = i /\ r.patch = patch
    OBVIOUS
  <2> HIDE DEF r
  <2>3. \A d \in Clients : req'[d] = r
    BY <2>1, OnlyRequest DEF Begin
  <2> QED
    BY <2>1, <2>2, <2>3 DEF Begin, KeepsRoles
<1>5. ASSUME NEW c \in Clients, CheckDesk(c)
      PROVE  RolesKept'
  <2>1. \A d \in Clients :
          \/ req'[d].op = "idle"
          \/ /\ req'[d].op = "staff" /\ req[d].op = "staff"
             /\ req'[d].id = req[d].id /\ req'[d].patch = req[d].patch
    BY <1>5, KindAfter
  <2> QED
    BY <1>5, <2>1 DEF CheckDesk, KeepsRoles
<1>6. ASSUME NEW c \in Clients, PatchStaff(c)
      PROVE  RolesKept'
  <2>1. req[c] \in StaffPatched /\ staff[req[c].id] \in Row
    BY <1>6, RequestKinds DEF PatchStaff, StaffPatched, RowsExist
  <2> DEFINE row == Patched(req[c].patch, staff[req[c].id])
  <2>2. row \in Row /\ MayAssign(row)
    BY <1>6, <2>1, PatchedRow DEF PatchStaff, StaffPatched, KeepsRoles
  <2> HIDE DEF row
  <2>3. staff' = [staff EXCEPT ![req[c].id] = row]
    BY <1>6 DEF PatchStaff, row
  <2>4. RolesMatchBranches'
    BY <2>2, <2>3, AssignedRow
  <2>5. \A d \in Clients : req'[d].op = "idle"
    BY <1>6, KindAfter
  <2> QED
    BY <2>4, <2>5 DEF KeepsRoles
<1>7. ASSUME NEW c \in Clients,
             \/ \E b \in Branches : BeginArchive(c, b)
             \/ CountActive(c) \/ CountActiveStaff(c) \/ Archive(c)
             \/ \E p \in Plans, patch \in PlanPatches : BeginPatchPlan(c, p, patch)
             \/ CheckScope(c) \/ PatchPlan(c)
             \/ \E w \in Switches, patch \in SettingsPatches :
                  BeginPatchSettings(c, w, patch)
             \/ PatchSettings(c)
      PROVE  RolesKept'
  <2>1. UNCHANGED staff
    BY <1>7 DEF BeginArchive, BeginPatchPlan, BeginPatchSettings, Begin, CountActive,
                CountActiveStaff, Archive, CheckScope, PatchPlan, PatchSettings
  <2>2. \A d \in Clients : req'[d].op \notin {"hire", "staff"}
    BY <1>7, KindAfter
  <2> QED
    BY <1>1, <2>1, <2>2
<1>8. CASE \/ UNCHANGED vars
           \/ \E b \in Branches : OpenBranch(b) \/ Reopen(b)
           \/ \E p \in Plans, row \in NewPlan : CreatePlan(p, row)
  BY <1>1, <1>8 DEF vars, OpenBranch, Reopen, CreatePlan
<1> QED
  BY <1>2, <1>3, <1>4, <1>5, <1>6, <1>7, <1>8 DEF Next

-----------------------------------------------------------------------------
(* Settings *)

LEMMA SettingsStep ==
  ASSUME Serial, Typed, SettingsKept, [Next]_vars
  PROVE  SettingsKept'
<1> USE DEF Typed, SettingsKept, SwitchesHaveAmounts
<1>1. ASSUME UNCHANGED settings,
             \A d \in Clients : req'[d].op # "settings" \/ req'[d] = req[d]
      PROVE  SettingsKept'
  BY <1>1 DEF KeepsSettings
<1>2. ASSUME NEW c \in Clients, NEW w \in Switches, NEW patch \in SettingsPatches,
             BeginPatchSettings(c, w, patch)
      PROVE  SettingsKept'
  <2> DEFINE r == [op |-> "settings", id |-> w, patch |-> patch]
  <2>1. Begin(c, r) /\ IsUsable(patch, settings[w])
    BY <1>2 DEF BeginPatchSettings
  <2>2. r.id = w /\ r.patch = patch
    OBVIOUS
  <2> HIDE DEF r
  <2>3. \A d \in Clients : req'[d] = r
    BY <2>1, OnlyRequest DEF Begin
  <2> QED
    BY <2>1, <2>2, <2>3 DEF Begin, KeepsSettings
<1>3. ASSUME NEW c \in Clients, PatchSettings(c)
      PROVE  SettingsKept'
  <2>1. req[c] \in Setting
    BY <1>3, RequestKinds DEF PatchSettings
  <2> DEFINE row == Patched(req[c].patch, settings[req[c].id])
  <2>2. row.on => row.amount > 0
    BY <1>3 DEF PatchSettings, KeepsSettings, IsUsable
  <2> HIDE DEF row
  <2>3. settings' = [settings EXCEPT ![req[c].id] = row]
    BY <1>3 DEF PatchSettings, row
  <2>4. \A d \in Clients : req'[d].op = "idle"
    BY <1>3, KindAfter
  <2> QED
    BY <2>2, <2>3, <2>4 DEF KeepsSettings
<1>4. ASSUME NEW c \in Clients,
             \/ \E b \in Branches : BeginArchive(c, b)
             \/ CountActive(c) \/ CountActiveStaff(c) \/ Archive(c)
             \/ \E i \in Staff, row \in Row : BeginHire(c, i, row)
             \/ Hire(c)
             \/ \E i \in Staff, patch \in StaffPatches : BeginPatchStaff(c, i, patch)
             \/ CheckDesk(c) \/ PatchStaff(c)
             \/ \E p \in Plans, patch \in PlanPatches : BeginPatchPlan(c, p, patch)
             \/ CheckScope(c) \/ PatchPlan(c)
      PROVE  SettingsKept'
  <2>1. UNCHANGED settings
    BY <1>4 DEF BeginArchive, BeginHire, BeginPatchStaff, BeginPatchPlan, Begin,
                CountActive, CountActiveStaff, Archive, Hire, CheckDesk, PatchStaff,
                CheckScope, PatchPlan
  <2>2. \A d \in Clients : req'[d].op # "settings"
    BY <1>4, KindAfter
  <2> QED
    BY <1>1, <2>1, <2>2
<1>5. CASE \/ UNCHANGED vars
           \/ \E b \in Branches : OpenBranch(b) \/ Reopen(b)
           \/ \E p \in Plans, row \in NewPlan : CreatePlan(p, row)
  BY <1>1, <1>5 DEF vars, OpenBranch, Reopen, CreatePlan
<1> QED
  BY <1>2, <1>3, <1>4, <1>5 DEF Next

-----------------------------------------------------------------------------
(* Plans *)

LEMMA ScopeAfter ==
  ASSUME NEW patch \in PlanPatches \cup {WithOneVisit(q) : q \in PlanPatches},
         NEW row \in Plan, row.everywhere <=> row.listed = {}, MayScope(patch, row)
  PROVE  Rewritten(patch, row).everywhere <=> Rewritten(patch, row).listed = {}
<1>1. Patched(patch, row).everywhere =
        IF Has(patch, "everywhere") THEN patch.everywhere ELSE row.everywhere
  BY DEF Patched, Plan
<1>2. /\ Has(patch, "everywhere") => patch.everywhere \in BOOLEAN
      /\ row.everywhere \in BOOLEAN
  BY PlanBody DEF Plan
<1> QED
  BY <1>1, <1>2, RewrittenPlan DEF MayScope, Listed

LEMMA ForcedBody ==
  ASSUME NEW patch \in PlanPatches, NEW row \in Plan, MayScope(patch, row)
  PROVE  /\ MayScope(Forced(patch, row), row)
         /\ Patched(Forced(patch, row), row).kind = "DAY_PASS" =>
              Patched(Forced(patch, row), row).sessions = 1
<1> DEFINE body == Forced(patch, row)
<1>1. body = patch \/ body = WithOneVisit(patch)
  BY DEF Forced
<1>2. /\ Has(body, "everywhere") <=> Has(patch, "everywhere")
      /\ Has(body, "listed") <=> Has(patch, "listed")
      /\ Has(body, "kind") <=> Has(patch, "kind")
      /\ Has(patch, "everywhere") => body.everywhere = patch.everywhere
      /\ Has(patch, "listed") => body.listed = patch.listed
      /\ Has(patch, "kind") => body.kind = patch.kind
  BY <1>1 DEF WithOneVisit, Has
<1>3. Patched(patch, row).kind = "DAY_PASS" => Has(body, "sessions") /\ body.sessions = 1
  BY DEF Forced, WithOneVisit, Has
<1> HIDE DEF body
<1>4. /\ Patched(body, row).everywhere = Patched(patch, row).everywhere
      /\ Patched(body, row).kind = Patched(patch, row).kind
      /\ Has(body, "sessions") => Patched(body, row).sessions = body.sessions
  BY <1>2 DEF Patched, Plan
<1>5. MayScope(body, row)
  BY <1>2, <1>4 DEF MayScope
<1> QED
  BY <1>3, <1>4, <1>5 DEF body

LEMMA PlansStep ==
  ASSUME Serial, Typed, RowsExist, PlansKept, [Next]_vars
  PROVE  PlansKept'
<1> USE DEF Typed, PlansKept, PlansAreForSomewhere, DayPassIsOneVisit
<1>1. ASSUME UNCHANGED plan,
             \A d \in Clients : req'[d].op # "plan" \/ req'[d] = req[d]
      PROVE  PlansKept'
  BY <1>1 DEF KeepsPlans
<1>2. ASSUME NEW p \in Plans, NEW row \in NewPlan, CreatePlan(p, row)
      PROVE  PlansKept'
  <2>1. /\ PlansAreForSomewhere' /\ DayPassIsOneVisit'
    <3> DEFINE new == TermsOf(row)
    <3>1. /\ new.everywhere <=> new.listed = {}
          /\ new.kind = "DAY_PASS" => new.sessions = 1
      BY <1>2, CreatedPlan DEF CreatePlan
    <3> HIDE DEF new
    <3>2. plan' = [plan EXCEPT ![p] = new]
      BY <1>2 DEF CreatePlan, new
    <3> QED
      BY <3>1, <3>2
  <2>2. \A d \in Clients : req[d].op = "plan" => req[d].id # p
    BY <1>2 DEF CreatePlan, RowsExist
  <2>3. \A d \in Clients : KeepsPlans(req[d])'
    BY <1>2, <2>2 DEF CreatePlan, KeepsPlans
  <2> QED
    BY <2>1, <2>3
<1>3. ASSUME NEW c \in Clients, NEW p \in Plans, NEW patch \in PlanPatches,
             BeginPatchPlan(c, p, patch)
      PROVE  PlansKept'
  <2> DEFINE r == [op |-> "plan", id |-> p, patch |-> Forced(patch, plan[p]),
                   checked |-> FALSE]
  <2>1. Begin(c, r) /\ plan[p] \in Plan /\ MayScope(patch, plan[p])
    BY <1>3 DEF BeginPatchPlan
  <2>2. r.op = "plan" /\ r.id = p /\ r.patch = Forced(patch, plan[p])
    OBVIOUS
  <2> HIDE DEF r
  <2>3. \A d \in Clients : req'[d] = r
    BY <2>1, OnlyRequest DEF Begin
  <2>4. /\ MayScope(r.patch, plan[p])
        /\ Patched(r.patch, plan[p]).kind = "DAY_PASS" =>
             Patched(r.patch, plan[p]).sessions = 1
    BY <2>1, <2>2, ForcedBody
  <2> QED
    BY <2>1, <2>2, <2>3, <2>4 DEF Begin, KeepsPlans
<1>4. ASSUME NEW c \in Clients, CheckScope(c)
      PROVE  PlansKept'
  <2>1. \A d \in Clients :
          \/ req'[d].op = "idle"
          \/ /\ req'[d].op = "plan" /\ req[d].op = "plan"
             /\ req'[d].id = req[d].id /\ req'[d].patch = req[d].patch
    BY <1>4, KindAfter
  <2>2. UNCHANGED plan
    BY <1>4 DEF CheckScope
  <2>3. \A d \in Clients : KeepsPlans(req[d])'
    BY <2>1, <2>2 DEF KeepsPlans
  <2> QED
    BY <2>2, <2>3
<1>5. ASSUME NEW c \in Clients, PatchPlan(c)
      PROVE  PlansKept'
  <2>1. req[c] \in PlanPatched /\ plan[req[c].id] \in Plan /\ req[c].id \in Plans
    BY <1>5, RequestKinds DEF PatchPlan, PlanPatched, RowsExist
  <2> DEFINE row == Rewritten(req[c].patch, plan[req[c].id])
  <2>2. row.everywhere <=> row.listed = {}
    <3>1. /\ req[c].patch \in PlanPatches \cup {WithOneVisit(q) : q \in PlanPatches}
          /\ plan[req[c].id].everywhere <=> plan[req[c].id].listed = {}
      BY <2>1, GymSetupAssumption DEF PlanPatched
    <3>2. MayScope(req[c].patch, plan[req[c].id])
      BY <1>5 DEF PatchPlan, KeepsPlans
    <3> QED
      BY <2>1, <3>1, <3>2, ScopeAfter
  <2>3. row.kind = "DAY_PASS" => row.sessions = 1
    BY <1>5, <2>1, RewrittenPlan DEF PatchPlan, PlanPatched, KeepsPlans
  <2> HIDE DEF row
  <2>4. plan' = [plan EXCEPT ![req[c].id] = row]
    BY <1>5 DEF PatchPlan, row
  <2>5. \A d \in Clients : req'[d].op = "idle"
    BY <1>5, KindAfter
  <2> QED
    BY <2>2, <2>3, <2>4, <2>5 DEF KeepsPlans
<1>6. ASSUME NEW c \in Clients,
             \/ \E b \in Branches : BeginArchive(c, b)
             \/ CountActive(c) \/ CountActiveStaff(c) \/ Archive(c)
             \/ \E i \in Staff, row \in Row : BeginHire(c, i, row)
             \/ Hire(c)
             \/ \E i \in Staff, patch \in StaffPatches : BeginPatchStaff(c, i, patch)
             \/ CheckDesk(c) \/ PatchStaff(c)
             \/ \E w \in Switches, patch \in SettingsPatches :
                  BeginPatchSettings(c, w, patch)
             \/ PatchSettings(c)
      PROVE  PlansKept'
  <2>1. UNCHANGED plan
    BY <1>6 DEF BeginArchive, BeginHire, BeginPatchStaff, BeginPatchSettings, Begin,
                CountActive, CountActiveStaff, Archive, Hire, CheckDesk, PatchStaff,
                PatchSettings
  <2>2. \A d \in Clients : req'[d].op # "plan"
    BY <1>6, KindAfter
  <2> QED
    BY <1>1, <2>1, <2>2
<1>7. CASE UNCHANGED vars \/ \E b \in Branches : OpenBranch(b) \/ Reopen(b)
  BY <1>1, <1>7 DEF vars, OpenBranch, Reopen
<1> QED
  BY <1>2, <1>3, <1>4, <1>5, <1>6, <1>7 DEF Next

-----------------------------------------------------------------------------
(* The theorems *)

LEMMA SetupInit == Init => SetupInv
<1> SUFFICES ASSUME Init
             PROVE  SetupInv
  OBVIOUS
<1>1. \A c \in Clients : req[c].op = "idle"
  BY DEF Init, Idle
<1>2. Served # {}
  BY DEF Init, Served, IsServed
<1>3. BranchesKept
  BY <1>1, <1>2 DEF BranchesKept, OneBranchServes, LeavesABranch
<1>4. RolesKept /\ PlansKept /\ SettingsKept
  BY <1>1 DEF Init, RolesKept, RolesMatchBranches, KeepsRoles, PlansKept,
     PlansAreForSomewhere, DayPassIsOneVisit, KeepsPlans, SettingsKept,
     SwitchesHaveAmounts, KeepsSettings
<1> QED
  BY <1>3, <1>4, TypedInit DEF SetupInv

(* Requests that do not overlap keep every rule of a gym's setup, whatever   *)
(* the gym, its staff, its plans and the fields that each request names:     *)
(* branches.service, staff.service, plans.service and tenants.service.       *)
THEOREM SetupIsKept ==
  ASSUME Serial
  PROVE  Spec => []SetupInv
<1>1. SetupInv /\ [Next]_vars => SetupInv'
  BY TypedStep, RowsExistStep, BranchesStep, RolesStep, PlansStep, SettingsStep
     DEF SetupInv
<1> QED
  BY <1>1, SetupInit, PTL DEF Spec

(* The gym keeps a branch that is open: branches.service, update.            *)
THEOREM ABranchStaysOpen ==
  ASSUME Serial
  PROVE  Spec => []OneBranchServes
<1>1. SetupInv => OneBranchServes
  BY DEF SetupInv, BranchesKept
<1> QED
  BY <1>1, SetupIsKept, PTL

(* Desk staff have a branch and admins have none: staff.service, update.     *)
THEOREM RolesStayMatched ==
  ASSUME Serial
  PROVE  Spec => []RolesMatchBranches
<1>1. SetupInv => RolesMatchBranches
  BY DEF SetupInv, RolesKept
<1> QED
  BY <1>1, SetupIsKept, PTL

(* A plan is for every branch exactly when it lists none: plans.service,     *)
(* update, with the check and the replacement of its branch list.            *)
THEOREM PlansStaySomewhere ==
  ASSUME Serial
  PROVE  Spec => []PlansAreForSomewhere
<1>1. SetupInv => PlansAreForSomewhere
  BY DEF SetupInv, PlansKept
<1> QED
  BY <1>1, SetupIsKept, PTL

(* A day pass is one visit, whatever was edited since: plans.service, update. *)
THEOREM PlansStayWhole ==
  ASSUME Serial
  PROVE  Spec => []DayPassIsOneVisit
<1>1. SetupInv => DayPassIsOneVisit
  BY DEF SetupInv, PlansKept
<1> QED
  BY <1>1, SetupIsKept, PTL

(* A setting that is on has its amount: tenants.service, updateSettings.     *)
THEOREM SwitchesStayUsable ==
  ASSUME Serial
  PROVE  Spec => []SwitchesHaveAmounts
<1>1. SetupInv => SwitchesHaveAmounts
  BY DEF SetupInv, SettingsKept
<1> QED
  BY <1>1, SetupIsKept, PTL

(* However many requests overlap, no row leaves its type: what a request     *)
(* names stays within the columns, and rows that it has read still exist.    *)
THEOREM TypesAreKept == Spec => []TypeOK
<1>1. Typed /\ RowsExist /\ [Next]_vars => (Typed /\ RowsExist)'
  BY TypedStep, RowsExistStep
<1>2. Typed => TypeOK
  <2> SUFFICES ASSUME Typed, NEW c \in Clients
               PROVE  req[c].op \in {"idle", "archive", "hire", "staff", "plan", "settings"}
    BY DEF Typed, TypeOK
  <2>1. req[c] \in Request
    BY DEF Typed
  <2>2. req[c] = Idle => req[c].op = "idle"
    BY DEF Idle
  <2>3. req[c] \in Archiving => req[c].op = "archive"
    BY DEF Archiving
  <2>4. req[c] \in Hiring => req[c].op = "hire"
    BY DEF Hiring
  <2>5. req[c] \in StaffPatched => req[c].op = "staff"
    BY DEF StaffPatched
  <2>6. req[c] \in PlanPatched => req[c].op = "plan"
    BY DEF PlanPatched
  <2>7. req[c] \in Setting => req[c].op = "settings"
    BY DEF Setting
  <2> QED
    BY <2>1, <2>2, <2>3, <2>4, <2>5, <2>6, <2>7 DEF Request
<1> QED
  BY <1>1, <1>2, TypedInit, PTL DEF Spec
=============================================================================
