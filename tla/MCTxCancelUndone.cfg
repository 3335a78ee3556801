\* A sweep beside a cancel.
SPECIFICATION TxSpec
CONSTANTS
  month = month
  pack = pack
  t1 = t1
  t2 = t2
  Null = Null
  Members = {"m1"}
  MemberStates = {}
  Shelvable = {}
  Plans = {month}
  Terms <- MonthTerms
  Day = 1
  YearDays = 3
  EndingSoonDays = 1
  Subs = {"s1"}
  Sessions = {t1, t2}
  Policies <- MCPolicyOnly
  FreezeRequests = {1}
  Ops = {"sweep", "freeze", "cancel"}
  Overlapping = {"create", "sweep", "cancel"}
  TxTime = 0
  MaxTime = 3
  MaxFreezes = 1
  MaxVisits = 1
PROPERTIES
  CancelIsNotReversed
