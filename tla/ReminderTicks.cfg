SPECIFICATION FairSpec
CONSTANTS
  Messages <- Ticks
  Slots = {s1, s2, s3}
  Runs = {q1, q2}
  Ids <- Numbers
  MaxRetry = 1
  Prefetch = 1
  MaxLosses = 1
  NoMessage = NoMessage
  NoSlot = NoSlot
  NoWorker = NoWorker
  NumWorkers = 2
  MaxForks = 3
  LastInstant = 1
  DayAhead <- First
  HourAhead <- Second
  DepositSoon <- First
  MaxWarned = 0
  Branches = {"day", "deposit"}
INVARIANTS NothingLost OneCronOwner RecordedOnceWhenSerial ToldIsRecorded
CHECK_DEADLOCK FALSE
PROPERTY EveryTickSettles
