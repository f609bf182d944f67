SPECIFICATION FairTxSpec
CONSTANTS
  s1 = s1  s2 = s2  c1 = c1  c2 = c2
  Guest = Guest  AnyStaff = AnyStaff  Nobody = Nobody
  Staff = {s1, s2}
  Requests = {r1, r2, r3}
  Clerks = {}
  Customers = {c1, c2}
  Orders <- MixedOrders
  Shift <- MCShift
  Leavers = {}
  Margin = 3
  Retries = 1
INVARIANT NoDoubleBooking
PROPERTIES RefusedOnlyWhenTaken EveryRequestAnswered
CHECK_DEADLOCK FALSE
