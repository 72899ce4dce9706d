SPECIFICATION Spec
CONSTANTS
  u1 = u1
  u2 = u2
  u3 = u3
  u4 = u4
  s1 = s1
  s2 = s2
  s3 = s3
  e1 = e1
  e2 = e2
  e3 = e3
  Null = Null
  Email = {e1, e2}
  Address = {e1, e2}
  Sub = {s1, s2, s3}
  User = {u1, u2, u3, u4}
  SubOf <- RenewedSubOf
  EmailOf <- RenewedEmailOf
  Registered = {u1, u2}
  Relationship = {r1}
  Invite = {i1}
  Request = {p, q}
  Ops = {"invite", "accept", "erase", "register"}
  RateLimitMax = 5
CONSTRAINT OneErasure
SYMMETRY Interchangeable
INVARIANTS
  NoDanglingReference
  AuthGoesFirst
  OneRowPerAddress
PROPERTIES
  CouplesAsPromised
CHECK_DEADLOCK FALSE
