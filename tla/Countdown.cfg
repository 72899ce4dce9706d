SPECIFICATION Spec
CONSTANTS
  Null = Null
  User = {a, b}
  Token = {t1, t2}
  Date = {never, d1, d2}
  Request = {p, q}
SYMMETRY Interchangeable
INVARIANTS
  CountdownTypeOK
  PartnerHears
  OptOutIsKept
  NothingOfTheErased
PROPERTIES
  RegistrationSticks
CHECK_DEADLOCK FALSE
