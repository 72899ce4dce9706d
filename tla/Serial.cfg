SPECIFICATION Spec
CONSTANTS
  u1 = u1
  u2 = u2
  u3 = u3
  u4 = u4
  s1 = s1
  s2 = s2
  s3 = s3
  e1 = e1
  e2 = e2
  e3 = e3
  Null = Null
  Email = {e1, e2, e3}
  Address = {e1, e2, e3}
  Sub = {s1, s2, s3}
  User = {u1, u2, u3}
  SubOf <- ThreeSubOf
  EmailOf <- ThreeEmailOf
  Registered = {u1, u2, u3}
  Relationship = {r1, r2}
  Invite = {i1, i2}
  Request = {p}
  Ops = {"invite", "pending", "decline", "accept", "leave", "erase"}
  RateLimitMax = 1
CONSTRAINT OneErasure
SYMMETRY PeopleToo
INVARIANTS
  TypeOK
  OneRelationshipPerCouple
  OnePendingInvite
  RateLimitHolds
  RelationshipHasItsInvite
  NoHalfRelationship
PROPERTIES
  ExpiredIsFinal
  CouplesStrictly
CHECK_DEADLOCK FALSE
