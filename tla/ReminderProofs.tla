---------------------------- MODULE ReminderProofs ----------------------------
(* That no tick of the reminder cron is lost, that one worker has the cron, and *)
(* what rows and messages a booking gets from the ticks, for any number of      *)
(* workers, ticks, retries and losses.                                          *)
EXTENDS Reminders, RetryQueueProofs, FiniteSetTheorems

\* Every step of the cron, its ticks and the workers is a step of the queue or leaves it alone.
LEMMA StepOfQueue ==
  ASSUME clock \in Nat, [Next]_vars PROVE [QueueNext]_queueVars /\ clock' \in Nat
<1> USE ReminderConstants, ClusterConstants
<1>1. CASE UNCHANGED vars
  BY <1>1 DEF vars, bookingVars, queueVars
<1>2. CASE CronInstant
  <2>1. clock' \in Messages /\ clock' \in Nat
    BY <1>2 DEF CronInstant
  <2> QED BY <1>2, <2>1 DEF CronInstant, QueueNext
<1>3. ASSUME NEW s \in Slots, NEW w \in WorkerIds, StartTick(s, w)
      PROVE  QueueNext /\ UNCHANGED clock
  <2> DEFINE r == CHOOSE q \in FreeRuns : TRUE
  <2>1. r \in Runs
    BY <1>3 DEF StartTick, FreeRuns
  <2>2. Deliver(s, r, w) /\ UNCHANGED clock
    BY <1>3 DEF StartTick, bookingVars
  <2> QED BY <2>1, <2>2 DEF QueueNext
<1>4. ASSUME NEW r \in Runs, Work(r) PROVE [QueueNext]_queueVars /\ UNCHANGED clock
  <2>1. CASE QueueStep(r)
    BY <2>1 DEF QueueStep, TickDone, TickRetried, TickSettled, QueueNext, bookingVars
  <2>2. CASE \E k \in Branches : Query(r, k) \/ Remind(r, k) \/ Tell(r, k)
    BY <2>2 DEF Query, Remind, Tell, bookingVars
  <2>3. CASE \E k \in Branches : BranchFails(r, k)
    BY <2>3 DEF BranchFails, QueueNext, bookingVars
  <2> QED BY <1>4, <2>1, <2>2, <2>3 DEF Work
<1>5. ASSUME NEW s \in Slots, Backoff(s) PROVE QueueNext /\ UNCHANGED clock
  BY <1>5 DEF Backoff, QueueNext, bookingVars
<1>6. ASSUME NEW w \in WorkerIds, LoseConnection(w) \/ Crash(w) PROVE QueueNext /\ UNCHANGED clock
  BY <1>6 DEF LoseConnection, Crash, QueueNext, bookingVars
<1>7. ASSUME NEW w \in WorkerIds, Replace(w) PROVE UNCHANGED queueVars /\ UNCHANGED clock
  BY <1>7 DEF Replace, bookingVars
<1>8. CASE PayDeposit \/ EndBooking
  BY <1>8 DEF PayDeposit, EndBooking
<1> QED BY <1>1, <1>2, <1>3, <1>4, <1>5, <1>6, <1>7, <1>8 DEF Next, Progress

\* The queue's invariant, at an instant the cron counts.
TickInv == QueueInv /\ clock \in Nat

\* A tick the broker has accepted is with it until its handler has succeeded, and given up only
\* after MaxRetry + 1 failures, whatever dies (booking-reminder.consumer.ts, ack).
THEOREM NoTickLost == Spec => []NothingLost
<1>1. Init => TickInv
  BY QueueInitInv DEF Init, TickInv
<1>2. TickInv /\ [Next]_vars => TickInv'
  <2> SUFFICES ASSUME TickInv, [Next]_vars PROVE TickInv'
    OBVIOUS
  <2>1. QueueInv /\ clock \in Nat
    BY DEF TickInv
  <2>2. [QueueNext]_queueVars /\ clock' \in Nat
    BY <2>1, StepOfQueue
  <2>3. QueueInv'
    BY <2>1, <2>2, QueueStepInv
  <2> QED BY <2>2, <2>3 DEF TickInv
<1>3. TickInv => NothingLost
  BY InvLosesNothing DEF TickInv
<1> QED BY <1>1, <1>2, <1>3, PTL DEF Spec

-----------------------------------------------------------------------------
\* Ids are given out in turn, and a worker that has exited does not run.
OwnerInv ==
  /\ forks \in Nat
  /\ live \cup exited \cup marked \subseteq 1 .. forks
  /\ live \cap exited = {}
  /\ OneCronOwner

\* What a worker's exit and its replacement do to the mark (cluster.on('exit')).
LEMMA ClusterStepInv ==
  ASSUME OwnerInv, \/ UNCHANGED clusterVars
                   \/ \E w \in WorkerIds : WorkerExits(w) \/ ForkAgain(w)
  PROVE  OwnerInv'
<1>1. CASE UNCHANGED clusterVars
  BY <1>1 DEF clusterVars, OwnerInv, OneCronOwner
<1>2. ASSUME NEW w \in WorkerIds, WorkerExits(w) PROVE OwnerInv'
  BY <1>2 DEF WorkerExits, OwnerInv, OneCronOwner
<1>3. ASSUME NEW w \in WorkerIds, ForkAgain(w) PROVE OwnerInv'
  <2> DEFINE new == forks + 1
  <2>1. /\ new \notin live \cup exited \cup marked /\ new \in 1 .. new
        /\ 1 .. forks \subseteq 1 .. new /\ new \in Nat
    BY DEF OwnerInv
  <2>2. /\ w \in exited /\ exited' = exited \ {w} /\ forks' = new /\ live' = live \cup {new}
        /\ IF w = singletonId THEN marked' = marked \cup {new} /\ singletonId' = new
           ELSE UNCHANGED <<marked, singletonId>>
    BY <1>3 DEF ForkAgain
  <2> HIDE DEF new
  <2>3. OneCronOwner'
    BY <2>1, <2>2 DEF OwnerInv, OneCronOwner
  <2>4. live' \cap exited' = {} /\ live' \cup exited' \cup marked' \subseteq 1 .. new
    BY <2>1, <2>2 DEF OwnerInv
  <2> QED BY <2>1, <2>2, <2>3, <2>4 DEF OwnerInv
<1> QED BY <1>1, <1>2, <1>3

\* Exactly one worker that runs, or is about to be replaced, has the cron, for any number of
\* workers and whatever dies in which order (main.ts).
THEOREM CronHasOneOwner == Spec => []OneCronOwner
<1>1. Init => OwnerInv
  BY ClusterConstants DEF Init, ClusterInit, OwnerInv, OneCronOwner
<1>2. OwnerInv /\ [Next]_vars => OwnerInv'
  <2> SUFFICES ASSUME OwnerInv, [Next]_vars PROVE OwnerInv'
    OBVIOUS
  <2>1. CASE UNCHANGED vars
    BY <2>1, ClusterStepInv DEF vars
  <2>2. CASE CronInstant \/ PayDeposit \/ EndBooking
    BY <2>2, ClusterStepInv DEF CronInstant, PayDeposit, EndBooking
  <2>3. ASSUME NEW r \in Runs, Work(r) PROVE OwnerInv'
    BY <2>3, ClusterStepInv DEF Work, QueueStep, Query, BranchFails, Remind, Tell
  <2>4. ASSUME NEW s \in Slots, Backoff(s) \/ \E w \in WorkerIds : StartTick(s, w) PROVE OwnerInv'
    BY <2>4, ClusterStepInv DEF Backoff, StartTick
  <2>5. ASSUME NEW w \in WorkerIds, LoseConnection(w) \/ Crash(w) \/ Replace(w) PROVE OwnerInv'
    BY <2>5, ClusterStepInv DEF LoseConnection, Crash, Replace
  <2> QED BY <2>1, <2>2, <2>3, <2>4, <2>5 DEF Next, Progress
<1>3. OwnerInv => OneCronOwner
  BY DEF OwnerInv
<1> QED BY <1>1, <1>2, <1>3, PTL DEF Spec

-----------------------------------------------------------------------------
\* What a step does to the branches of the handler.
Still == UNCHANGED <<branch, rows, sent, missed, overlapped>>

Started(r) ==
  /\ ~Busy(r)
  /\ branch' = [branch EXCEPT ![r] = [k \in Branches |-> "query"]]
  /\ overlapped' = (overlapped \/ \E q \in Runs : Busy(q))
  /\ UNCHANGED <<rows, sent, missed>>

Queried(r, k) ==
  /\ branch[r][k] = "query"
  /\ \/ Step(r, k, "off")
     \/ Step(r, k, "send") /\ (k \in Recorded => rows[k] = 0)
  /\ UNCHANGED <<rows, sent, missed, overlapped>>

Noted(r, k) ==
  /\ branch[r][k] = "send" /\ k \in Recorded
  /\ rows' = [rows EXCEPT ![k] = @ + 1]
  /\ \/ Step(r, k, "publish") /\ UNCHANGED missed
     \/ Step(r, k, "off") /\ missed' = [missed EXCEPT ![k] = @ + 1]
  /\ UNCHANGED <<sent, overlapped>>

NotNoted(r, k) ==
  /\ branch[r][k] = "send" /\ Step(r, k, "off")
  /\ \A j \in Recorded : sent'[j] = sent[j]
  /\ sent' \in [Branches -> Nat]
  /\ UNCHANGED <<rows, missed, overlapped>>

Told(r, k) ==
  /\ branch[r][k] = "publish" /\ Step(r, k, "off")
  /\ \A j \in Recorded : sent'[j] + missed'[j] = IF j = k THEN sent[j] + missed[j] + 1
                                                ELSE sent[j] + missed[j]
  /\ sent' \in [Branches -> Nat] /\ missed' \in [Branches -> Nat]
  /\ UNCHANGED <<rows, overlapped>>

Dropped ==
  /\ \E S \in SUBSET Runs : branch' = [r \in Runs |-> IF r \in S THEN Off ELSE branch[r]]
  /\ \E w \in WorkerIds : WorkerExits(w)
  /\ UNCHANGED <<rows, sent, missed, overlapped>>

Effect == \/ Still \/ Dropped
          \/ \E r \in Runs : Started(r)
          \/ \E r \in Runs, k \in Branches :
                Queried(r, k) \/ Noted(r, k) \/ NotNoted(r, k) \/ Told(r, k)

BranchTypes ==
  /\ branch \in [Runs -> [Branches -> Steps]]
  /\ rows \in [Branches -> Nat] /\ sent \in [Branches -> Nat] /\ missed \in [Branches -> Nat]

\* The steps of one branch (sendOneDayReminders and its like).
LEMMA BranchEffect ==
  ASSUME BranchTypes, NEW r \in Runs, NEW k \in Branches,
         Query(r, k) \/ BranchFails(r, k) \/ Remind(r, k) \/ Tell(r, k)
  PROVE  Queried(r, k) \/ Noted(r, k) \/ NotNoted(r, k) \/ Told(r, k)
<1> USE DEF BranchTypes, bookingVars
<1>1. CASE Query(r, k)
  <2>1. k \in Recorded /\ Selected(k) => rows[k] = 0
    BY DEF Selected, Recorded
  <2> QED BY <1>1, <2>1 DEF Query, Queried
<1>2. CASE BranchFails(r, k)
  BY <1>2 DEF BranchFails, Queried
<1>3. CASE Remind(r, k)
  BY <1>3 DEF Remind, Noted, NotNoted
<1>4. CASE Tell(r, k)
  <2>1. \A j \in Recorded : j \in Branches /\ j # "deposit"
    BY DEF Recorded
  <2>2. CASE /\ sent' = [sent EXCEPT ![k] = IF k = "deposit" /\ @ = MaxWarned THEN @ ELSE @ + 1]
             /\ UNCHANGED missed
    <3>1. sent' \in [Branches -> Nat] /\ missed' \in [Branches -> Nat]
      BY <2>2
    <3>2. \A j \in Recorded : /\ sent'[j] = IF j = k THEN sent[j] + 1 ELSE sent[j]
                              /\ missed'[j] = missed[j] /\ sent[j] \in Nat /\ missed[j] \in Nat
      BY <2>1, <2>2
    <3>3. CASE branch[r][k] = "publish"
      BY <1>4, <3>1, <3>2, <3>3 DEF Tell, Told
    <3>4. CASE k = "deposit" /\ branch[r][k] = "send"
      BY <1>4, <2>1, <2>2, <3>1, <3>2, <3>4 DEF Tell, NotNoted
    <3> QED BY <1>4, <3>3, <3>4 DEF Tell
  <2>3. CASE /\ missed' = [missed EXCEPT ![k] = IF k = "deposit" THEN @ ELSE @ + 1]
             /\ UNCHANGED sent
    <3>1. sent' \in [Branches -> Nat] /\ missed' \in [Branches -> Nat]
      BY <2>3
    <3>2. \A j \in Recorded : /\ missed'[j] = IF j = k THEN missed[j] + 1 ELSE missed[j]
                              /\ sent'[j] = sent[j] /\ sent[j] \in Nat /\ missed[j] \in Nat
      BY <2>1, <2>3
    <3>3. CASE branch[r][k] = "publish"
      BY <1>4, <3>1, <3>2, <3>3 DEF Tell, Told
    <3>4. CASE k = "deposit" /\ branch[r][k] = "send"
      <4>1. missed' = missed
        BY <2>3, <3>4
      <4> QED BY <1>4, <2>3, <3>1, <3>4, <4>1 DEF Tell, NotNoted
    <3> QED BY <1>4, <3>3, <3>4 DEF Tell
  <2> QED BY <1>4, <2>2, <2>3 DEF Tell
<1> QED BY <1>1, <1>2, <1>3, <1>4

\* Nothing but the handler's own steps, its start and the death of its process
\* touches the branches.
LEMMA StepEffect == ASSUME BranchTypes, [Next]_vars PROVE Effect
<1> USE DEF bookingVars
<1>1. CASE UNCHANGED vars
  BY <1>1 DEF vars, Still, Effect
<1>2. CASE CronInstant \/ PayDeposit \/ EndBooking
  BY <1>2 DEF CronInstant, PayDeposit, EndBooking, Still, Effect
<1>3. ASSUME NEW s \in Slots, NEW w \in WorkerIds, StartTick(s, w) PROVE Effect
  <2> DEFINE r == CHOOSE q \in FreeRuns : TRUE
  <2>1. r \in Runs /\ ~Busy(r)
    BY <1>3 DEF StartTick, FreeRuns
  <2>2. /\ branch' = [branch EXCEPT ![r] = [k \in Branches |-> "query"]]
        /\ overlapped' = (overlapped \/ \E q \in Runs : Busy(q))
        /\ UNCHANGED <<rows, sent, missed>>
    BY <1>3 DEF StartTick
  <2> HIDE DEF r
  <2> QED BY <2>1, <2>2 DEF Started, Effect
<1>4. ASSUME NEW r \in Runs, Work(r) PROVE Effect
  <2>1. CASE QueueStep(r)
    BY <2>1 DEF QueueStep, Still, Effect
  <2>2. CASE \E k \in Branches : Query(r, k) \/ BranchFails(r, k) \/ Remind(r, k) \/ Tell(r, k)
    BY <2>2, BranchEffect DEF Effect
  <2> QED BY <1>4, <2>1, <2>2 DEF Work
<1>5. ASSUME NEW s \in Slots, Backoff(s) PROVE Effect
  BY <1>5 DEF Backoff, Still, Effect
<1>6. ASSUME NEW w \in WorkerIds, LoseConnection(w) \/ Replace(w) PROVE Effect
  BY <1>6 DEF LoseConnection, Replace, Still, Effect
<1>7. ASSUME NEW w \in WorkerIds, Crash(w) PROVE Effect
  <2>1. PICK left \in SUBSET {r \in Runs : run[r] = Idle /\ Busy(r)} :
            branch' = [r \in Runs |-> IF run[r].by = w \/ r \in left THEN Off ELSE branch[r]]
    BY <1>7 DEF Crash
  <2> DEFINE S == {r \in Runs : run[r].by = w \/ r \in left}
  <2>2. S \in SUBSET Runs /\ branch' = [r \in Runs |-> IF r \in S THEN Off ELSE branch[r]]
    BY <2>1
  <2> QED BY <1>7, <2>2 DEF Crash, Dropped, Effect
<1> QED BY <1>1, <1>2, <1>3, <1>4, <1>5, <1>6, <1>7 DEF Next, Progress

\* Where the branches stand after one of them has moved.
LEMMA StepMoves ==
  ASSUME BranchTypes, NEW r \in Runs, NEW k \in Branches, NEW to \in Steps, Step(r, k, to)
  PROVE  /\ branch' \in [Runs -> [Branches -> Steps]]
         /\ branch'[r][k] = to
         /\ \A j \in Branches \ {k} : branch'[r][j] = branch[r][j]
         /\ \A q \in Runs \ {r} : branch'[q] = branch[q]
  BY DEF BranchTypes, Step

LEMMA TypesStep == ASSUME BranchTypes, [Next]_vars PROVE BranchTypes'
<1>1. Off \in [Branches -> Steps] /\ [k \in Branches |-> "query"] \in [Branches -> Steps]
  BY DEF Off, Steps
<1>2. CASE Still
  BY <1>2 DEF Still, BranchTypes
<1>3. CASE Dropped
  BY <1>1, <1>3 DEF Dropped, BranchTypes
<1>4. ASSUME NEW r \in Runs, Started(r) PROVE BranchTypes'
  BY <1>1, <1>4 DEF Started, BranchTypes
<1>5. ASSUME NEW r \in Runs, NEW k \in Branches,
             Queried(r, k) \/ Noted(r, k) \/ NotNoted(r, k) \/ Told(r, k)
      PROVE  BranchTypes'
  <2>1. PICK to \in Steps : Step(r, k, to)
    BY <1>5 DEF Queried, Noted, NotNoted, Told, Steps
  <2>2. rows' \in [Branches -> Nat] /\ sent' \in [Branches -> Nat] /\ missed' \in [Branches -> Nat]
    BY <1>5 DEF Queried, Noted, NotNoted, Told, BranchTypes
  <2> QED BY <2>1, <2>2, StepMoves DEF BranchTypes
<1> QED BY <1>2, <1>3, <1>4, <1>5, StepEffect DEF Effect

\* While no two runs of the handler have been at work at once, one is at most, and a
\* reminder that it is about to make has not been made.
SerialInv ==
  ~overlapped =>
    /\ \A q, r \in Runs : Busy(q) /\ Busy(r) => q = r
    /\ \A k \in Recorded : /\ rows[k] <= 1
                           /\ \A r \in Runs : branch[r][k] = "send" => rows[k] = 0

LEMMA SerialStep == ASSUME BranchTypes, SerialInv, [Next]_vars PROVE SerialInv'
<1> SUFFICES ASSUME ~overlapped'
             PROVE  /\ \A q, r \in Runs : Busy(q)' /\ Busy(r)' => q = r
                    /\ \A k \in Recorded :
                         /\ rows'[k] <= 1
                         /\ \A r \in Runs : branch'[r][k] = "send" => rows'[k] = 0
  BY DEF SerialInv
<1>0. Recorded \subseteq Branches
  BY DEF Recorded
<1>1. CASE Still
  BY <1>1 DEF Still, SerialInv, Busy
<1>2. CASE Dropped
  <2>1. PICK S \in SUBSET Runs : branch' = [r \in Runs |-> IF r \in S THEN Off ELSE branch[r]]
    BY <1>2 DEF Dropped
  <2>2. \A r \in Runs : branch'[r] = Off \/ branch'[r] = branch[r]
    BY <2>1
  <2>3. \A k \in Recorded : Off[k] = "off"
    BY <1>0 DEF Off
  <2> QED BY <1>2, <2>2, <2>3 DEF Dropped, SerialInv, Busy
<1>3. ASSUME NEW r \in Runs, Started(r) PROVE SerialInv'
  <2>1. ~overlapped /\ \A q \in Runs : ~Busy(q)
    BY <1>3 DEF Started
  <2>2. \A q \in Runs \ {r} : branch'[q] = branch[q]
    BY <1>3 DEF Started, BranchTypes
  <2>3. \A k \in Recorded : branch'[r][k] = "query"
    BY <1>0, <1>3 DEF Started, BranchTypes
  <2> QED BY <1>3, <2>1, <2>2, <2>3 DEF Started, SerialInv, Busy
<1>4. ASSUME NEW r \in Runs, NEW k \in Branches,
             Queried(r, k) \/ Noted(r, k) \/ NotNoted(r, k) \/ Told(r, k)
      PROVE  SerialInv'
  <2>1. PICK to \in Steps : Step(r, k, to)
    BY <1>4 DEF Queried, Noted, NotNoted, Told, Steps
  <2>2. /\ branch'[r][k] = to
        /\ \A j \in Branches \ {k} : branch'[r][j] = branch[r][j]
        /\ \A q \in Runs \ {r} : branch'[q] = branch[q]
    BY <2>1, StepMoves
  <2>3. ~overlapped /\ overlapped' = overlapped
    BY <1>4 DEF Queried, Noted, NotNoted, Told
  <2>4. Busy(r)
    BY <1>4 DEF Queried, Noted, NotNoted, Told, Busy, Off
  <2>5. \A q \in Runs \ {r} : ~Busy(q) /\ branch'[q] = Off /\ ~Busy(q)'
    BY <2>2, <2>3, <2>4 DEF SerialInv, Busy
  <2>6. \A q \in Runs \ {r}, j \in Recorded : branch'[q][j] = "off"
    BY <1>0, <2>5 DEF Off
  <2>7. \A j \in Recorded \ {k} : rows'[j] = rows[j]
    BY <1>0, <1>4 DEF Queried, Noted, NotNoted, Told, BranchTypes
  <2>8. \A j \in Recorded \ {k} : rows'[j] <= 1 /\ (branch'[r][j] = "send" => rows'[j] = 0)
    BY <1>0, <2>2, <2>3, <2>7 DEF SerialInv
  <2>9. k \in Recorded => rows'[k] <= 1 /\ (branch'[r][k] = "send" => rows'[k] = 0)
    <3>1. CASE Queried(r, k)
      BY <2>2, <2>3, <3>1, StepMoves DEF Queried, SerialInv, Steps
    <3>2. CASE Noted(r, k)
      <4>1. branch'[r][k] \in {"publish", "off"}
        BY <3>2, StepMoves DEF Noted, Steps
      <4>2. rows[k] = 0 /\ rows'[k] = rows[k] + 1
        BY <2>3, <3>2 DEF Noted, SerialInv, BranchTypes
      <4> QED BY <4>1, <4>2
    <3>3. CASE NotNoted(r, k) \/ Told(r, k)
      <4>1. branch'[r][k] = "off"
        BY <3>3, StepMoves DEF NotNoted, Told, Steps
      <4> QED BY <2>3, <3>3, <4>1 DEF NotNoted, Told, SerialInv
    <3> QED BY <1>4, <3>1, <3>2, <3>3
  <2> QED BY <2>5, <2>6, <2>8, <2>9 DEF SerialInv
<1> QED BY <1>1, <1>2, <1>3, <1>4, StepEffect DEF Effect, SerialInv

\* As long as no two runs of the handler have been at work at once, a booking gets each
\* reminder that has a row at most once, however often branches fail, ticks are retried
\* or redelivered and processes die (booking-reminder.consumer.ts).
THEOREM SerialTicksRecordOnce == Spec => []RecordedOnceWhenSerial
<1>1. Init => BranchTypes /\ SerialInv
  <2> SUFFICES ASSUME Init PROVE BranchTypes /\ SerialInv
    OBVIOUS
  <2>1. \A r \in Runs : branch[r] = Off /\ ~Busy(r)
    BY DEF Init, Busy
  <2>2. Off \in [Branches -> Steps] /\ \A k \in Branches : Off[k] = "off"
    BY DEF Off, Steps
  <2>3. BranchTypes
    BY <2>2 DEF Init, BranchTypes
  <2>4. Recorded \subseteq Branches
    BY DEF Recorded
  <2> QED BY <2>1, <2>2, <2>3, <2>4 DEF Init, SerialInv
<1>2. SerialInv => RecordedOnceWhenSerial
  BY DEF SerialInv, RecordedOnceWhenSerial
<1> QED BY <1>1, <1>2, TypesStep, SerialStep, PTL DEF Spec

-----------------------------------------------------------------------------
\* A worker that has exited does not come back under its id: once one is missing
\* the cluster is never again the one that was started.
Whole == live = 1..NumWorkers
WholeInv ==
  /\ forks \in Nat /\ NumWorkers <= forks
  /\ (Whole /\ exited = {}) \/ \E i \in 1..NumWorkers : i \notin live

LEMMA WholeStep ==
  ASSUME WholeInv, \/ UNCHANGED clusterVars
                   \/ \E w \in WorkerIds : WorkerExits(w) \/ ForkAgain(w)
  PROVE  /\ WholeInv'
         /\ Whole' => Whole /\ ~\E w \in WorkerIds : WorkerExits(w)
<1> USE ClusterConstants
<1>1. CASE UNCHANGED clusterVars
  BY <1>1 DEF clusterVars, WholeInv, Whole, WorkerExits
<1>2. ASSUME NEW w \in WorkerIds, WorkerExits(w)
      PROVE  WholeInv' /\ ~Whole'
  <2>1. \E i \in 1..NumWorkers : i \notin live'
    BY <1>2 DEF WorkerExits, WholeInv, Whole
  <2> QED BY <1>2, <2>1 DEF WorkerExits, WholeInv, Whole
<1>3. ASSUME NEW w \in WorkerIds, ForkAgain(w) PROVE WholeInv' /\ ~Whole'
  <2>1. PICK i \in 1..NumWorkers : i \notin live
    BY <1>3 DEF ForkAgain, WholeInv
  <2>2. live' = live \cup {forks + 1} /\ forks' = forks + 1 /\ i # forks + 1
    BY <1>3, <2>1 DEF ForkAgain, WholeInv
  <2> QED BY <2>1, <2>2 DEF WholeInv, Whole
<1> QED BY <1>1, <1>2, <1>3

\* Every step is a step of the cluster or leaves it alone.
LEMMA StepOfCluster ==
  ASSUME [Next]_vars
  PROVE  UNCHANGED clusterVars \/ \E w \in WorkerIds : WorkerExits(w) \/ ForkAgain(w)
  BY DEF vars, Next, Progress, Work, QueueStep, Query, BranchFails, Remind, Tell, Backoff, StartTick,
         CronInstant, PayDeposit, EndBooking, LoseConnection, Crash, Replace

\* The runs that have a row and have still to push and mail.
Telling(k) == {r \in Runs : branch[r][k] = "publish"}

TellInv ==
  \A k \in Recorded :
     /\ IsFiniteSet(Telling(k))
     /\ sent[k] + missed[k] + Cardinality(Telling(k)) <= rows[k]
     /\ Whole => sent[k] + missed[k] + Cardinality(Telling(k)) = rows[k]

\* A row adds a teller, telling removes it; a death removes some and ends Whole.
LEMMA TellInvStep == ASSUME BranchTypes, WholeInv, TellInv, [Next]_vars PROVE TellInv'
<1> SUFFICES ASSUME NEW k \in Recorded
             PROVE  /\ IsFiniteSet(Telling(k)')
                    /\ sent'[k] + missed'[k] + Cardinality(Telling(k)') <= rows'[k]
                    /\ Whole' => sent'[k] + missed'[k] + Cardinality(Telling(k)') = rows'[k]
  BY DEF TellInv, Telling
<1> DEFINE Kept == /\ IsFiniteSet(Telling(k)')
                   /\ sent'[k] + missed'[k] + Cardinality(Telling(k)') <= rows'[k]
                   /\ Whole' => sent'[k] + missed'[k] + Cardinality(Telling(k)') = rows'[k]
<1>0. /\ k \in Branches /\ sent[k] \in Nat /\ missed[k] \in Nat /\ rows[k] \in Nat
      /\ IsFiniteSet(Telling(k)) /\ Cardinality(Telling(k)) \in Nat
      /\ sent[k] + missed[k] + Cardinality(Telling(k)) <= rows[k]
      /\ Whole => sent[k] + missed[k] + Cardinality(Telling(k)) = rows[k]
  BY FS_CardinalityType DEF Recorded, BranchTypes, TellInv
<1>1. /\ Whole' => Whole /\ ~\E w \in WorkerIds : WorkerExits(w)
      /\ sent'[k] \in Nat /\ missed'[k] \in Nat
  BY <1>0, StepOfCluster, WholeStep, TypesStep DEF BranchTypes
<1>2. ASSUME Telling(k)' = Telling(k), rows'[k] = rows[k],
             sent'[k] + missed'[k] = sent[k] + missed[k]
      PROVE  Kept
  BY <1>0, <1>1, <1>2
<1>3. CASE Still
  <2>1. Telling(k)' = Telling(k) /\ rows' = rows /\ sent' = sent /\ missed' = missed
    BY <1>3 DEF Still, Telling
  <2> QED BY <1>2, <2>1
<1>4. CASE Dropped
  <2>1. PICK S \in SUBSET Runs : branch' = [r \in Runs |-> IF r \in S THEN Off ELSE branch[r]]
    BY <1>4 DEF Dropped
  <2>2. Telling(k)' \subseteq Telling(k)
    BY <1>0, <2>1 DEF Telling, Off
  <2>3. /\ IsFiniteSet(Telling(k)') /\ Cardinality(Telling(k)') \in Nat
        /\ Cardinality(Telling(k)') <= Cardinality(Telling(k))
    BY <1>0, <2>2, FS_Subset, FS_CardinalityType
  <2> QED BY <1>0, <1>1, <1>4, <2>3 DEF Dropped
<1>5. ASSUME NEW r \in Runs, Started(r) PROVE Kept
  <2>1. Telling(k)' = Telling(k)
    BY <1>0, <1>5 DEF Started, Telling, BranchTypes, Busy, Off
  <2>2. rows' = rows /\ sent' = sent /\ missed' = missed
    BY <1>5 DEF Started
  <2> QED BY <1>2, <2>1, <2>2
<1>6. ASSUME NEW r \in Runs, NEW j \in Branches, Queried(r, j) \/ NotNoted(r, j)
      PROVE  Kept
  <2>1. PICK to \in {"off", "send"} : Step(r, j, to)
    BY <1>6 DEF Queried, NotNoted
  <2>2. branch[r][j] # "publish"
    BY <1>6 DEF Queried, NotNoted
  <2>3. Telling(k)' = Telling(k)
    BY <1>0, <2>1, <2>2, StepMoves DEF Telling, Steps
  <2>4. rows'[k] = rows[k] /\ sent'[k] = sent[k] /\ missed'[k] = missed[k]
    BY <1>6 DEF Queried, NotNoted
  <2> QED BY <1>2, <2>3, <2>4
<1>7. ASSUME NEW r \in Runs, NEW j \in Branches, Noted(r, j) PROVE Kept
  <2>1. CASE j # k
    <3>1. Telling(k)' = Telling(k)
      BY <1>0, <1>7, <2>1, StepMoves DEF Noted, Telling, Steps
    <3> QED BY <1>0, <1>2, <1>7, <2>1, <3>1 DEF Noted, BranchTypes
  <2>2. CASE j = k
    <3>1. rows'[k] = rows[k] + 1 /\ sent'[k] = sent[k] /\ r \notin Telling(k)
      BY <1>0, <1>7, <2>2 DEF Noted, BranchTypes, Telling
    <3>2. CASE Step(r, k, "publish") /\ UNCHANGED missed
      <4>1. Telling(k)' = Telling(k) \cup {r}
        BY <1>0, <3>2, StepMoves DEF Telling, Steps
      <4>2. IsFiniteSet(Telling(k)') /\ Cardinality(Telling(k)') = Cardinality(Telling(k)) + 1
        BY <1>0, <3>1, <4>1, FS_AddElement
      <4> QED BY <1>0, <1>1, <3>1, <3>2, <4>2
    <3>3. CASE Step(r, k, "off") /\ missed' = [missed EXCEPT ![k] = @ + 1]
      <4>1. Telling(k)' = Telling(k)
        BY <1>0, <3>1, <3>3, StepMoves DEF Telling, Steps
      <4>2. missed'[k] = missed[k] + 1
        BY <1>0, <3>3 DEF BranchTypes
      <4> QED BY <1>0, <1>1, <3>1, <4>1, <4>2
    <3> QED BY <1>7, <2>2, <3>2, <3>3 DEF Noted
  <2> QED BY <2>1, <2>2
<1>8. ASSUME NEW r \in Runs, NEW j \in Branches, Told(r, j) PROVE Kept
  <2>0. branch[r][j] = "publish" /\ Step(r, j, "off")
    BY <1>8 DEF Told
  <2>1. CASE j # k
    <3>1. Telling(k)' = Telling(k)
      BY <1>0, <2>0, <2>1, StepMoves DEF Telling, Steps
    <3>2. rows'[k] = rows[k] /\ sent'[k] + missed'[k] = sent[k] + missed[k]
      BY <1>8, <2>1 DEF Told
    <3> QED BY <1>2, <3>1, <3>2
  <2>2. CASE j = k
    <3>1. Telling(k)' = Telling(k) \ {r} /\ r \in Telling(k)
      BY <1>0, <2>0, <2>2, StepMoves DEF Telling, Steps
    <3>2. /\ rows'[k] = rows[k] /\ sent'[k] + missed'[k] = sent[k] + missed[k] + 1
          /\ sent'[k] \in Nat /\ missed'[k] \in Nat
      BY <1>0, <1>8, <2>2 DEF Told
    <3>3. IsFiniteSet(Telling(k)') /\ Cardinality(Telling(k)') = Cardinality(Telling(k)) - 1
      BY <1>0, <3>1, FS_RemoveElement
    <3> QED BY <1>0, <1>1, <3>2, <3>3
  <2> QED BY <2>1, <2>2
<1> QED BY <1>3, <1>4, <1>5, <1>6, <1>7, <1>8, StepEffect DEF Effect

\* What is pushed or mailed has its row, and no row is told of twice; while no process has
\* died every row has been told, is about to be, or was missed by an error that was only
\* logged: for any number of runs at work at once, of failing inserts and refused publishes
\* (notifyBookingReminder1Day and 1Hour).
THEOREM TellsWhatIsRecorded == Spec => []ToldIsRecorded
<1> DEFINE I == BranchTypes /\ WholeInv /\ TellInv
<1>1. Init => I
  <2> SUFFICES ASSUME Init PROVE I
    OBVIOUS
  <2>1. BranchTypes
    BY DEF Init, BranchTypes, Off, Steps
  <2>2. WholeInv
    BY ClusterConstants DEF Init, ClusterInit, WholeInv, Whole
  <2>3. \A k \in Recorded : Telling(k) = {} /\ sent[k] = 0 /\ missed[k] = 0 /\ rows[k] = 0
    BY DEF Init, Telling, Off, Recorded
  <2>4. TellInv
    BY <2>3, FS_EmptySet DEF TellInv
  <2> QED BY <2>1, <2>2, <2>4
<1>2. I /\ [Next]_vars => I'
  <2> SUFFICES ASSUME I, [Next]_vars PROVE I'
    OBVIOUS
  <2>1. BranchTypes' /\ TellInv'
    BY TypesStep, TellInvStep
  <2>2. WholeInv'
    BY StepOfCluster, WholeStep
  <2> QED BY <2>1, <2>2
<1>3. I => ToldIsRecorded
  BY DEF TellInv, ToldIsRecorded, Telling, Whole
<1> QED BY <1>1, <1>2, <1>3, PTL DEF Spec
=============================================================================
