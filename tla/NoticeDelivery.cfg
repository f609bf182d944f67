SPECIFICATION Spec
CONSTANTS
  j1 = j1  d1 = d1  d2 = d2  s1 = s1  s2 = s2
  anOwner = anOwner
  aCustomer = aCustomer
  Jobs = {j1}
  Devices = {d1, d2}
  User <- Accounts
  NoUser = NoUser
  Messages <- Parts
  Slots = {s1, s2}
  Runs = {q1}
  Ids = {w1}
  MaxRetry = 1
  Prefetch = 2
  MaxLosses = 1
  NoMessage = NoMessage
  NoSlot = NoSlot
  NoWorker = NoWorker
INVARIANTS ToldOnlyWhenRecorded NobodyForgotten PushedOncePerDevice
SYMMETRY Alike
CHECK_DEADLOCK FALSE
