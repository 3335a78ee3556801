\* Two desks collect what is due on one sold plan.
SPECIFICATION TillSpec
CONSTANTS
  month = month
  Null = Null
  Members = {"m1"}
  Plans = {month}
  Terms <- MCTerms
  Day = 1
  YearDays = 3
  EndingSoonDays = 0
  b1 = b1
  Desks = {"d1", "d2"}
  Branches = {b1}
  Hours <- AlwaysOpen
  Price <- MCPrice
  Gates <- NoGate
  Amounts = {2}
  Edited = {}
  MaxPayments = 2
  MaxAttempts = 1
  Subs = {"s1"}
  Policies <- OnePolicy
  FreezeRequests = {1}
  MemberStates = {"ACTIVE"}
  Shelvable = {}
  MaxTime = 1
  MaxFreezes = 0
  MaxVisits = 1
INVARIANT
  NeverOverpaid
CHECK_DEADLOCK FALSE
