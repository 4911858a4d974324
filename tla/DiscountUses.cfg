CONSTANTS
  q1 = q1
  q2 = q2
  q3 = q3
  m1 = m1
  m2 = m2
  m3 = m3
  d1 = d1
  d2 = d2
  u1 = u1
  u2 = u2
  u3 = u3
  u4 = u4
  Members = {m1, m2, m3}
  Discounts = {d1}
  Requests = {q1, q2, q3}
  Serves <- ServesUses
  Rows = {u1, u2, u3}
  MaxRedeem <- RedeemOne
  Type <- TypeOne
  OnlyNew = {}
  Veterans = {}
  MaxCrashes = 1
  NoRequest = NoRequest
  NoMember = NoMember
  NoDiscount = NoDiscount
  NoUse = NoUse
SPECIFICATION Spec
INVARIANTS TypeOK OncePerMember
SYMMETRY Symmetry
CHECK_DEADLOCK FALSE
