\* Overlapping sweeps and reads; the other operations run alone.
SPECIFICATION TxSpec
CONSTANTS
  month = month
  pack = pack
  t1 = t1
  t2 = t2
  Null = Null
  Members = {"m1"}
  MemberStates = {}
  Shelvable = {}
  Plans = {pack}
  Terms <- PackTerms
  Day = 1
  YearDays = 3
  EndingSoonDays = 1
  Subs = {"s1", "s2"}
  Sessions = {t1, t2}
  Policies <- MCPolicyOnly
  FreezeRequests = {1}
  Ops = {"sweep", "get", "freeze", "unfreeze", "cancel", "visit"}
  Overlapping = {"sweep", "get"}
  TxTime = 0
  MaxTime = 2
  MaxFreezes = 1
  MaxVisits = 1
SYMMETRY Alike
PROPERTIES
  ImplementsSerial
