SPECIFICATION Spec
CONSTANTS
  u1 = u1
  u2 = u2
  u3 = u3
  u4 = u4
  s1 = s1
  s2 = s2
  s3 = s3
  e1 = e1
  e2 = e2
  e3 = e3
  Null = Null
  Email = {e1, e2}
  Address = {e1, e2}
  Sub = {s1, s2}
  User = {u1, u2}
  SubOf <- TwoSubOf
  EmailOf <- TwoEmailOf
  Registered = {u1, u2}
  Relationship = {r1, r2}
  Invite = {i1, i2, i3}
  Request = {p, q}
  Ops = {"invite", "pending", "accept", "leave"}
  RateLimitMax = 1
CONSTRAINT ThirdWhileSending
SYMMETRY Interchangeable
INVARIANTS
  LinkedInviteNamesTheCouple
  MembersWereInvited
  ExpiredOnlyWhenDue
  PendingIsUnlinked
  RateLimitNearlyHolds
  FewPendingTwins
PROPERTIES
  EndsWithItsRelationship
