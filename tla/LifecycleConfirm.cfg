SPECIFICATION Spec
CONSTANTS
  c1 = c1  c2 = c2  t1 = t1  p1 = p1  p2 = p2  p3 = p3
  Calls = {c1, c2}
  Ticks = {t1}
  Rows = {p1, p2}
  NoRow = NoRow
  Idle = Idle
  Total = 3
  Deposit = 1
  Services <- AllServices
CHECK_DEADLOCK FALSE
PROPERTY ConfirmOnlyPending
