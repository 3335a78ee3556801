\* Owners and admins whose requests never overlap.
SPECIFICATION Spec
CONSTANTS
  b1 = b1
  b2 = b2
  Null = Null
  Clients = {"c1"}
  Branches = {b1, b2}
  PackSizes = {8}
  Staff = {"i1"}
  Plans = {"p1"}
  Switches = {"grace"}
  StaffPatches <- MCStaffPatches
  PlanPatches <- MCPlanPatches
  SettingsPatches <- MCSettingsPatches
INVARIANTS
  TypeOK
  
  RolesMatchBranches
  PlansAreForSomewhere
  DayPassIsOneVisit
  SwitchesHaveAmounts
