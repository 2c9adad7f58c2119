SPECIFICATION Spec
CONSTANTS
  s1 = s1 s2 = s2 s3 = s3
  b1 = b1 b2 = b2 b3 = b3 b4 = b4 a1 = a1 m1 = m1 m2 = m2 q1 = q1 k1 = k1 k2 = k2 r1 = r1 j1 = j1 j2 = j2 w1 = w1 w2 = w2
  Nobody = Nobody  NoSlot = NoSlot
  Requests = {b1, b2, m1, q1, r1, b3, b4, m2, w1}
  Role <- Role_
  Slots = {s1, s2, s3}
  Day <- Day_
  Offered = {s1, s3}
  Clash <- Clash_
  Capacity = 1
  Tables = {b2, b4}
  FollowUpDelay = 1
  Horizon = 3
  MaxOpen = 6
  Fragile = {b1, m1}
INVARIANTS NeverOverbooked MarkedForThisDate
PROPERTIES AnnouncedIsTrueAlone
ACTION_CONSTRAINT OneCrowdComes
