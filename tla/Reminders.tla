------------------------------ MODULE Reminders ------------------------------
(***************************************************************************)
(* The cron of booking-reminder.service.ts and its consumer, on top of the  *)
(* tick queue and the cluster.  A cron instant publishes a tick; a tick runs *)
(* four branches at once (Promise.all): reminders a day and an hour ahead,   *)
(* the warning before a deposit is due, and the cancellation of bookings     *)
(* whose deposit is overdue, which is in BookingLifecycle.  Each branch      *)
(* selects bookings with one query and then handles them one by one; here    *)
(* there is one booking.                                                     *)
(*                                                                         *)
(* Promise.all rejects at the first branch that fails; the others go on, and *)
(* may still be at work when the retried tick is handled.  Time is counted   *)
(* in cron instants.                                                        *)
(***************************************************************************)
EXTENDS RetryQueue, WorkerCluster

CONSTANTS LastInstant,   \* bound of the clock
          DayAhead,      \* instants at which scheduledAt is 23 to 25 hours away
          HourAhead,     \* ... 30 to 90 minutes away
          DepositSoon,   \* ... at which depositDeadline is 25 to 35 minutes away
          Branches,      \* the branches an instance has
          MaxWarned      \* bound: warnings about the deposit that are counted

ASSUME ReminderConstants ==
  /\ Ids = WorkerIds
  /\ LastInstant \in Nat /\ Messages = 1..LastInstant
  /\ DayAhead \subseteq Nat /\ HourAhead \subseteq Nat /\ DepositSoon \subseteq Nat
  /\ Branches \subseteq {"day", "hour", "deposit"}
  /\ MaxWarned \in Nat

Recorded == Branches \cap {"day", "hour"}   \* reminders with a row
Live     == {"DEPOSIT_PAID"}                       \* CONFIRMED and PAID are selected alike
Ended    == {"CANCELLED"}

VARIABLES clock,
          status,     \* of the booking
          branch,     \* branch[r][k]: where branch k of run r stands
          rows,       \* rows[k]: rows of type BOOKING_REMINDER_1DAY and 1HOUR
          sent,       \* sent[k]: times push and mail were published
          missed,     \* ghost: missed[k] counts the times one of them was not, or the
                      \* insert of the row reported an error for a row it had made
          overlapped  \* ghost: two runs of the handler have been at work at once

bookingVars == <<clock, status, rows, sent, missed>>
vars == <<queueVars, clusterVars, bookingVars, branch, overlapped>>

Off     == [k \in Branches |-> "off"]
Steps   == {"off", "query", "send", "publish"}
Busy(r) == branch[r] # Off

Init ==
  /\ QueueInit /\ ClusterInit
  /\ clock = 0
  /\ status = "DEPOSIT_PENDING"
  /\ branch = [r \in Runs |-> Off]
  /\ rows = [k \in Branches |-> 0]
  /\ sent = [k \in Branches |-> 0]
  /\ missed = [k \in Branches |-> 0]
  /\ overlapped = FALSE

-----------------------------------------------------------------------------
\* The worker that has the role publishes; without one, or if publishing fails, the
\* instant passes.
CronInstant ==
  /\ clock < LastInstant
  /\ clock' = clock + 1
  /\ \/ live \cap marked # {} /\ Publish(clock')
     \/ UNCHANGED queueVars
  /\ UNCHANGED <<clusterVars, status, rows, sent, missed, branch, overlapped>>

FreeRuns == {r \in Runs : run[r] = Idle /\ ~Busy(r)}

StartTick(s, w) ==
  LET r == CHOOSE q \in FreeRuns : TRUE
  IN /\ w \in live /\ FreeRuns # {}
     /\ Deliver(s, r, w)
     /\ branch' = [branch EXCEPT ![r] = [k \in Branches |-> "query"]]
     /\ overlapped' = (overlapped \/ \E q \in Runs : Busy(q))
     /\ UNCHANGED <<clusterVars, bookingVars>>

\* Mutant: a reminder is selected whether or not it has been sent.
SelectedAgain(k) ==
  CASE k = "day"     -> status \in Live /\ clock \in DayAhead
    [] k = "hour"    -> status \in Live /\ clock \in HourAhead
    [] k = "deposit" -> status = "DEPOSIT_PENDING" /\ clock \in DepositSoon

\* The where clauses of the queries.
Selected(k) ==
  CASE k = "day"     -> status \in Live /\ clock \in DayAhead /\ rows[k] = 0
    [] k = "hour"    -> status \in Live /\ clock \in HourAhead /\ rows[k] = 0
    [] k = "deposit" -> status = "DEPOSIT_PENDING" /\ clock \in DepositSoon

Step(r, k, to) == branch' = [branch EXCEPT ![r][k] = to]

Query(r, k) ==
  /\ branch[r][k] = "query"
  /\ Step(r, k, IF Selected(k) THEN "send" ELSE "off")
  /\ UNCHANGED <<queueVars, clusterVars, bookingVars, overlapped>>

\* A query that throws rejects its branch: the first one makes the handler throw,
\* later ones are ignored.
BranchFails(r, k) ==
  /\ branch[r][k] = "query"
  /\ Step(r, k, "off")
  /\ IF run[r].stage = "handling" THEN Fail(r) ELSE UNCHANGED queueVars
  /\ UNCHANGED <<clusterVars, bookingVars, overlapped>>

\* Mutant: push and mail first, the row when they are out.
RemindTellingFirst(r, k) ==
  /\ k \in Recorded /\ branch[r][k] = "send"
  /\ sent' = [sent EXCEPT ![k] = @ + 1]
  /\ rows' \in {rows, [rows EXCEPT ![k] = @ + 1]}
  /\ Step(r, k, "off")
  /\ UNCHANGED <<queueVars, clusterVars, clock, status, missed, overlapped>>

\* notifyBookingReminder1Day and 1Hour: the row; an insert that fails is caught, before
\* or after it was committed.
Remind(r, k) ==
  /\ k \in Recorded /\ branch[r][k] = "send"
  /\ \/ rows' = [rows EXCEPT ![k] = @ + 1] /\ Step(r, k, "publish") /\ UNCHANGED missed
     \/ UNCHANGED <<rows, missed>> /\ Step(r, k, "off")
     \/ /\ rows' = [rows EXCEPT ![k] = @ + 1] /\ missed' = [missed EXCEPT ![k] = @ + 1]
        /\ Step(r, k, "off")
  /\ UNCHANGED <<queueVars, clusterVars, clock, status, sent, overlapped>>

\* ... then push and mail, without waiting; if one is refused that is logged.
\* notifyDepositReminder is a push alone.
Tell(r, k) ==
  /\ \/ branch[r][k] = "publish"
     \/ k = "deposit" /\ branch[r][k] = "send"
  /\ \/ /\ sent' = [sent EXCEPT ![k] = IF k = "deposit" /\ @ = MaxWarned THEN @ ELSE @ + 1]
        /\ UNCHANGED missed
     \/ /\ missed' = [missed EXCEPT ![k] = IF k = "deposit" THEN @ ELSE @ + 1]
        /\ UNCHANGED sent
  /\ Step(r, k, "off")
  /\ UNCHANGED <<queueVars, clusterVars, clock, status, rows, overlapped>>

\* All branches have resolved.
TickDone(r)     == ~Busy(r) /\ Finish(r)
TickRetried(r)  == PublishRetry(r)
TickSettled(r)  == AckRetried(r) \/ Nack(r)
QueueStep(r)    == /\ TickDone(r) \/ TickRetried(r) \/ TickSettled(r)
                   /\ UNCHANGED <<clusterVars, bookingVars, branch, overlapped>>
Backoff(s)      == TtlExpires(s) /\ UNCHANGED <<clusterVars, bookingVars, branch, overlapped>>

-----------------------------------------------------------------------------
LoseConnection(w) ==
  /\ w \in live
  /\ Disconnect(w)
  /\ UNCHANGED <<clusterVars, bookingVars, branch, overlapped>>

\* The branches that were at work for w end where they are.  A run that has
\* thrown, and been settled, is idle and may still have some.
Crash(w) ==
  /\ WorkerExits(w)
  /\ ConsumerDies(w)
  /\ \E left \in SUBSET {r \in Runs : run[r] = Idle /\ Busy(r)} :
        branch' = [r \in Runs |-> IF run[r].by = w \/ r \in left THEN Off ELSE branch[r]]
  /\ UNCHANGED <<bookingVars, overlapped>>

Replace(w) == ForkAgain(w) /\ UNCHANGED <<queueVars, bookingVars, branch, overlapped>>

\* The deposit comes in; the booking ends.
PayDeposit ==
  /\ status = "DEPOSIT_PENDING"
  /\ status' = "DEPOSIT_PAID"
  /\ UNCHANGED <<queueVars, clusterVars, clock, rows, sent, missed, branch, overlapped>>

EndBooking ==
  /\ status \notin Ended
  /\ status' \in Ended
  /\ UNCHANGED <<queueVars, clusterVars, clock, rows, sent, missed, branch, overlapped>>

Work(r) ==
  \/ QueueStep(r)
  \/ \E k \in Branches : Query(r, k) \/ BranchFails(r, k) \/ Remind(r, k) \/ Tell(r, k)

Progress == \/ \E r \in Runs : Work(r)
            \/ \E s \in Slots : Backoff(s) \/ \E w \in WorkerIds : StartTick(s, w)
            \/ \E w \in WorkerIds : Replace(w)

Next == \/ Progress \/ CronInstant \/ PayDeposit \/ EndBooking
        \/ \E w \in WorkerIds : LoseConnection(w) \/ Crash(w)

Spec == Init /\ [][Next]_vars

\* Node goes on with its callbacks, the broker with its timers and deliveries, and the
\* primary replaces workers; nothing is assumed of queries and publishes, which may all
\* fail.
FairSpec == Spec /\ WF_vars(Progress)

-----------------------------------------------------------------------------
TypeOK ==
  /\ QueueTypeOK /\ ClusterTypeOK
  /\ clock \in 0..LastInstant
  /\ status \in {"DEPOSIT_PENDING"} \cup Live \cup Ended
  /\ branch \in [Runs -> [Branches -> Steps]]
  /\ rows \in [Branches -> Nat] /\ sent \in [Branches -> Nat] /\ missed \in [Branches -> Nat]
  /\ overlapped \in BOOLEAN

\* As long as no two runs of the handler are at work at once, a booking gets each
\* reminder at most once, through failed branches, retries, redeliveries and new ticks.
\* Runs do overlap: a retried tick starts while branches of the failed run still
\* work.
RecordedOnceWhenSerial == ~overlapped => \A k \in Recorded : rows[k] <= 1

\* What is pushed or mailed is on record first, and no row is told of twice: also when
\* runs overlap, and when ticks come again.  As long as no process has died every row is
\* accounted for: told, about to be told, or missed by an error that was only logged; no
\* later tick makes up for a miss.
ToldIsRecorded ==
  \A k \in Recorded :
     LET telling == Cardinality({r \in Runs : branch[r][k] = "publish"})
     IN /\ sent[k] + missed[k] + telling <= rows[k]
        /\ live = 1..NumWorkers => sent[k] + missed[k] + telling = rows[k]

\* A tick is settled in the end, for good: handled, or dead-lettered, and it does not go
\* round for ever.  What can keep it from that is a retry that could not be published:
\* the tick stays with its worker, or all that the workers may hold are such ticks.
Stuck(w)         == {r \in Runs : run[r].by = w /\ run[r].stage = "stuck"}
HeldUp(m)        == \E w \in live, r \in Runs : r \in Stuck(w) /\ run[r].msg = m
Starved          == \A w \in live : Cardinality(Stuck(w)) = Prefetch
GivenUp(m)       == \E s \in Slots : copy[s].msg = m /\ copy[s].at = "dead"
EveryTickSettles ==
  \A m \in Messages : m \in published ~> [](m \in handled \/ GivenUp(m) \/ HeldUp(m) \/ Starved)

\* "chi ban dung 1 lan trong 1 tick cron 10 phut": one warning about the deposit.
DepositRemindedOnce == sent["deposit"] <= 1
=============================================================================
