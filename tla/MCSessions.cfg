\* Two calls at once, two sessions, one sign-out everywhere.
SPECIFICATION Spec
CONSTANTS
  Null = Null
  d1 = d1
  d2 = d2
  r1 = r1
  r2 = r2
  Staff = {"s1"}
  Sid = {d1, d2}
  Calls = {r1, r2}
  MaxVersion = 1
  Limit = 1
  Window = 2
SYMMETRY Alike
INVARIANTS
  TypeOK
  OldProofsAreDead
  FreshProofsOpen
  RotatedIsGone
  ForgottenAreUseless
PROPERTY
  WindowIsNotExtended
