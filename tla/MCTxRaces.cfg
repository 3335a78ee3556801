\* Sweeps, freezes, unfreezes and visits of one pack, two at a time, while the
\* clock ticks.
SPECIFICATION TxSpec
CONSTANTS
  month = month
  pack = pack
  t1 = t1
  t2 = t2
  Null = Null
  Members = {"m1"}
  MemberStates = {}
  Shelvable = {}
  Plans = {pack}
  Terms <- TwoDayTerms
  Day = 1
  YearDays = 3
  EndingSoonDays = 1
  Subs = {"s1"}
  Sessions = {t1, t2}
  Policies <- LongFreezesOnly
  FreezeRequests = {2}
  Ops = {"sweep", "freeze", "unfreeze", "visit"}
  Overlapping = {"create", "sweep", "freeze", "unfreeze", "visit"}
  TxTime = 1
  MaxTime = 2
  MaxFreezes = 2
  MaxVisits = 2
SYMMETRY Alike
INVARIANTS
  TxTypeOK
  ExpiryIsAnnounced
  EndStaysInBounds
