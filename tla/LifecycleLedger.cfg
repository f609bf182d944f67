SPECIFICATION Spec
CONSTANTS
  c1 = c1  c2 = c2  t1 = t1  p1 = p1  p2 = p2  p3 = p3
  Calls = {c1, c2}
  Ticks = {t1}
  Rows = {p1, p2}
  NoRow = NoRow
  Idle = Idle
  Total = 2
  Deposit = 2
  Services <- AllServices
CHECK_DEADLOCK FALSE
SYMMETRY Interchangeable
INVARIANT TypeOK
INVARIANT PaidStatusBacked
PROPERTY FollowsLedger
