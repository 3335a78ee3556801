\* Two sold plans while staff change settings, members and the plan shelf.
SPECIFICATION FairSpec
CONSTANTS
  month = month
  pack = pack
  dayPass = dayPass
  Null = Null
  Members = {"m1"}
  Plans = {pack, dayPass}
  Terms <- ShelfTerms
  Day = 1
  YearDays = 3
  EndingSoonDays = 1
  Subs = {"s1", "s2"}
  Policies <- TwoPolicies
  FreezeRequests = {1}
  MemberStates = {"ACTIVE", "BLOCKED"}
  Shelvable = {pack}
  MaxTime = 3
  MaxFreezes = 1
  MaxVisits = 1
INVARIANTS
  InboxTellsTheTruth
  ShownAsAdmitted
PROPERTIES
  OverdueIsSettled
