SPECIFICATION Spec
CONSTANTS
  s1 = s1  s2 = s2  c1 = c1  c2 = c2
  Guest = Guest  AnyStaff = AnyStaff  Nobody = Nobody
  Staff = {s1, s2}
  Requests = {r1, r2}
  Clerks = {k1}
  Customers = {c1, c2}
  Orders <- MixedOrders
  Shift <- MCShift
  Leavers = {s2}
  Margin = 3
  Retries = 1
SYMMETRY Symmetry
INVARIANTS TypeOK LockedItemsDisjoint BookingInv
PROPERTY ReservesAtomically
CHECK_DEADLOCK FALSE
