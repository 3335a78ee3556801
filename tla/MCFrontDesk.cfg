\* One member with two sold plans, two branches, partial payments and a gate.
SPECIFICATION DeskSpec
CONSTANTS
  month = month
  dayPass = dayPass
  Null = Null
  Members = {"m1"}
  Plans = {month, dayPass}
  Terms <- MCTerms
  Day = 1
  YearDays = 3
  EndingSoonDays = 0
  b1 = b1
  b2 = b2
  s1 = s1
  s2 = s2
  Branches = {b1, b2}
  Hours <- AlwaysOpen
  Price <- MCPrice
  Gates <- GateOn
  Amounts = {2}
  Edited = {month}
  MaxPayments = 2
  MaxAttempts = 1
  Subs = {s1, s2}
  Policies <- OneGrace
  FreezeRequests = {1}
  MemberStates = {"ACTIVE"}
  Shelvable = {}
  MaxTime = 1
  MaxFreezes = 0
  MaxVisits = 1
SYMMETRY Alike
INVARIANTS
  DeskTypeOK
  NeverOverpaid
  BlockedIsOnRecord
PROPERTIES
  NobodyEntersUnpaid
  GraceIsSpentLast
CHECK_DEADLOCK FALSE
