\* One member with two sold plans, who is archived and let in again.
SPECIFICATION DeskSpec
CONSTANTS
  pack = pack
  dayPass = dayPass
  Null = Null
  Members = {"m1"}
  Plans = {pack, dayPass}
  Terms <- MCTerms
  Day = 1
  YearDays = 3
  EndingSoonDays = 0
  b1 = b1
  s1 = s1
  s2 = s2
  Branches = {b1}
  Hours <- AlwaysOpen
  Price <- MCPrice
  Gates <- NoGate
  Amounts = {2}
  Edited = {}
  MaxPayments = 2
  MaxAttempts = 0
  Subs = {s1, s2}
  Policies <- OneGrace
  FreezeRequests = {1}
  MemberStates = {"ACTIVE", "ARCHIVED"}
  Shelvable = {}
  MaxTime = 2
  MaxFreezes = 0
  MaxVisits = 1
SYMMETRY Alike
INVARIANTS
  BooksBalance
  InactiveStayedAway
PROPERTIES
  FollowUpIsKept
CHECK_DEADLOCK FALSE
