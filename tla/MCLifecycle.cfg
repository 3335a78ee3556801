\* One sold plan, every desk and door operation, fixed settings.
SPECIFICATION Spec
CONSTANTS
  month = month
  pack = pack
  dayPass = dayPass
  Null = Null
  Members = {"m1"}
  Plans = {month, pack}
  Terms <- BookTerms
  Day = 2
  YearDays = 3
  EndingSoonDays = 1
  Subs = {"s1"}
  Policies <- OnePolicy
  FreezeRequests = {1, 2}
  MemberStates = {"ACTIVE"}
  Shelvable = {}
  MaxTime = 8
  MaxFreezes = 2
  MaxVisits = 2
INVARIANTS
  TypeOK
  FrozenMatchesOpenFreeze
  DatesInOrder
  VisitsArePaidFor
  VisitsAreAccounted
  YearlyCapHolds
  SettleIsIdempotent
PROPERTIES
  CancelledIsFinal
  GraceOpensOnce
  PaidTimeIsKept
