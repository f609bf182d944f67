SPECIFICATION Spec
CONSTANTS
  boss = boss ann = ann spa = spa salon = salon manage = manage
  c1 = c1 r1 = r1 r2 = r2 i1 = i1 i2 = i2 oldPw = oldPw newPw = newPw m1 = m1 m2 = m2
  Parts = {"members"}
  Users = {boss, ann}
  Stores = {spa, salon}
  Roles <- SomeRoles
  Home <- SomeHomes
  Perms = {manage}
  Codes = {"manage"}
  Routes <- SomeRoutes
  PermReqs = {c1}
  Rewrites <- SomeRewrites
  MaxAssigned = 3
  MaxChanges = 1
  MemReqs = {r1, r2}
  Boss = boss
  Open = spa
  InviteRows = {i1, i2}
  MaxCalls = 3
  MaxStoreRoles = 1
  AuthReqs = {r1, r2}
  Passwords = {oldPw, newPw}
  MaxTokens = 3
  MaxCodes = 2
  MaxAuthCalls = 4
  Staff = {m1, m2}
  RosterReqs = {r1, r2}
  Shifts <- SomeShifts
  Absences <- SomeAbsences
  CallHours <- SomeHours
  Items <- SomeItems
  MaxRosterCalls = 4
  OpenTime = 0
  CloseTime = 3
  SlotInterval = 1
  Now = 1
  Durations = {1, 2}
  Customers = {boss, ann}
  Orders <- SomeOrders
INVARIANT CacheFollowsRoles
SYMMETRY Alike
CHECK_DEADLOCK FALSE
