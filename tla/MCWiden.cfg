\* A plan sold for one branch is opened to every branch.
SPECIFICATION DeskSpec
CONSTANTS
  month = month
  dayPass = dayPass
  Null = Null
  Members = {"m1"}
  Plans = {month, dayPass}
  Terms <- MCTerms
  Day = 1
  YearDays = 3
  EndingSoonDays = 0
  b1 = b1
  b2 = b2
  s1 = s1
  s2 = s2
  Branches = {b1, b2}
  Hours <- AlwaysOpen
  Price <- MCPrice
  Gates <- GateOn
  Amounts = {2}
  Edited = {month}
  MaxPayments = 1
  MaxAttempts = 1
  Subs = {s1, s2}
  Policies <- OneGrace
  FreezeRequests = {1}
  MemberStates = {"ACTIVE"}
  Shelvable = {}
  MaxTime = 1
  MaxFreezes = 0
  MaxVisits = 1
INVARIANT
  EveryBranchMeansEveryBranch
CHECK_DEADLOCK FALSE
