--------------------------- MODULE MessagingProofs ---------------------------
(* That what people are told is on record first, that a call that succeeds      *)
(* forgets nobody, and that a device shows a push once; that conversations keep  *)
(* apart in a Telegram group and show their newest message; that the assistant   *)
(* remembers the last turns.  For any number of calls, devices, invocations,     *)
(* handlers and retries.                                                         *)
EXTENDS Notices, Conversations, Assistant, RetryQueueProofs, FiniteSetTheorems

-----------------------------------------------------------------------------
(* The queue below.                                                          *)

\* A call publishes at most its round's message; everything else is the broker's and the
\* consumers' business (push, mailProducer).
LEMMA StepOfQueue ==
  ASSUME round \in [Jobs -> 1..3], [Next]_vars PROVE [QueueNext]_queueVars
<1> USE NoticeConstants
<1>1. CASE UNCHANGED vars
  BY <1>1 DEF vars
<1>2. ASSUME NEW j \in Jobs, NEW k \in 1..3, Emit(<<j, k>>) PROVE [QueueNext]_queueVars
  BY <1>2 DEF Emit, QueueNext
<1>3. ASSUME NEW j \in Jobs, Notify(j) PROVE [QueueNext]_queueVars
  <2>1. CASE Start(j) \/ Insert(j) \/ JobEnds(j)
    BY <2>1 DEF Start, Insert, JobEnds
  <2>2. CASE PublishPush(j)
    BY <2>2, <1>2 DEF PublishPush
  <2>3. CASE PublishMail(j)
    <3>1. Emit(<<j, 3>>) \/ UNCHANGED queueVars
      BY <2>3 DEF PublishMail, MailPart
    <3>2. 3 \in 1..3
      OBVIOUS
    <3>3. Emit(<<j, 3>>) => [QueueNext]_queueVars
      BY <1>2, <3>2
    <3> QED BY <3>1, <3>3
  <2> QED BY <1>3, <2>1, <2>2, <2>3 DEF Notify
<1>4. ASSUME NEW r \in Runs, Consume(r) PROVE [QueueNext]_queueVars
  <2>1. CASE ReadSubscriptions(r) \/ Send(r) \/ RemoveExpired(r)
    BY <2>1 DEF ReadSubscriptions, Send, RemoveExpired, QueueNext
  <2>2. CASE PushDone(r) \/ SendMail(r) \/ Acknowledge(r)
    BY <2>2 DEF PushDone, SendMail, Acknowledge, QueueNext
  <2> QED BY <1>4, <2>1, <2>2 DEF Consume
<1>5. ASSUME NEW d \in Devices, NEW u \in Users,
             \/ EndpointExpires(d) \/ SaveSubscription(d, u) \/ DeleteSubscription(d, u)
             \/ DeleteAllSubscriptionsForUser(u)
      PROVE  UNCHANGED queueVars
  BY <1>5 DEF EndpointExpires, SaveSubscription, DeleteSubscription, DeleteAllSubscriptionsForUser
<1>6. ASSUME NEW u \in Users, DeleteAllSubscriptionsForUser(u) PROVE UNCHANGED queueVars
  BY <1>6 DEF DeleteAllSubscriptionsForUser
<1>7. ASSUME NEW d \in Devices, EndpointExpires(d) PROVE UNCHANGED queueVars
  BY <1>7 DEF EndpointExpires
<1>8. CASE Broker \/ \E w \in Ids : Dies(w)
  BY <1>8 DEF Broker, Dies, QueueNext
<1> QED BY <1>1, <1>3, <1>4, <1>5, <1>6, <1>7, <1>8 DEF Next

-----------------------------------------------------------------------------
(* The calls.                                                                *)

\* The rounds of a call: two at most, and then the first is of somebody.
Route(s) == \E n \in 0..2 : s \in [1..n -> SUBSET People] /\ (n = 2 => s[1] # {})
Everybody(s) == UNION {s[i] : i \in DOMAIN s}

LEMMA InEverybody == ASSUME NEW s, NEW p PROVE p \in Everybody(s) <=> \E i \in DOMAIN s : p \in s[i]
  BY DEF Everybody

\* Who of a round is there, round by round.
LEMMA ThoseWhoAreThere ==
  ASSUME NEW f, NEW S, NEW s, DOMAIN s = DOMAIN f, \A i \in DOMAIN f : s[i] = f[i] \cap S
  PROVE  Everybody(s) = Everybody(f) \cap S
<1>1. \A p : p \in Everybody(s) <=> p \in Everybody(f) \cap S
  BY InEverybody
<1> QED BY <1>1

\* Whoever there is to tell has a round (the thirteen notify* methods).
LEMMA RouteOfPlan ==
  ASSUME NEW plan \in Notices, NEW present \in SUBSET People
  PROVE  /\ Route(For(plan, present))
         /\ Everybody(For(plan, present)) = Everybody(plan.rounds) \cap present
         /\ plan.rows \in BOOLEAN
<1> DEFINE rs == plan.rounds
           s  == Reached(plan, present)
<1>1. plan \in {Together, InTurn, Customer, PushOnly}
  BY DEF Notices, NotifyBookingCreated, NotifyBookingConfirmed, NotifyBookingRejected,
         NotifyBookingCompleted, NotifyBookingCancelled, NotifyPaymentSuccess,
         NotifyDepositReminder, NotifyDepositRequired, NotifyDepositPaid, NotifyDepositExpired,
         NotifyBookingReminder1Day, NotifyBookingReminder1Hour, NotifyStaffChanged
<1>a. /\ rs \in {<<{"owner", "customer"}>>, <<{"owner"}, {"customer"}>>, <<{"customer"}>>}
      /\ plan.rows \in BOOLEAN
  <2>1. CASE plan = Together
    BY <2>1 DEF Together
  <2>2. CASE plan = InTurn
    BY <2>2 DEF InTurn
  <2>3. CASE plan = Customer
    BY <2>3 DEF Customer
  <2>4. CASE plan = PushOnly
    BY <2>4 DEF PushOnly
  <2> QED BY <1>1, <2>1, <2>2, <2>3, <2>4
<1>2. \E n \in 1..2 : rs \in [1..n -> SUBSET People]
  <2>1. CASE rs = <<{"owner"}, {"customer"}>>
    BY <2>1 DEF People
  <2>2. CASE rs = <<{"owner", "customer"}>> \/ rs = <<{"customer"}>>
    BY <2>2 DEF People
  <2> QED BY <1>a, <2>1, <2>2
<1> HIDE DEF rs
<1>3. PICK n \in 1..2 : rs \in [1..n -> SUBSET People]
  BY <1>2
<1>4. s = [i \in 1..n |-> rs[i] \cap present]
  BY <1>3 DEF Reached, rs
<1>5. Everybody(s) = Everybody(rs) \cap present
  BY <1>3, <1>4, ThoseWhoAreThere
<1>6. For(plan, present) = IF s[1] = {} THEN Tail(s) ELSE s
  BY DEF For
<1>7. s \in [1..n -> SUBSET People]
  BY <1>3, <1>4
<1> HIDE DEF s
<1>8. s \in Seq(SUBSET People) /\ Len(s) = n
  BY <1>3, <1>7
<1>9. CASE s[1] # {}
  <2>1. Route(s)
    BY <1>3, <1>7, <1>9 DEF Route
  <2> QED BY <1>a, <1>5, <1>6, <1>9, <2>1 DEF rs
<1>10. CASE s[1] = {}
  <2> DEFINE rest == Tail(s)
  <2>1. For(plan, present) = rest
    BY <1>6, <1>10
  <2>2. rest = [i \in 1..n-1 |-> s[i + 1]]
    <3>1. rest \in Seq(SUBSET People) /\ Len(rest) = n - 1 /\ \A i \in 1..n-1 : rest[i] = s[i + 1]
      BY <1>3, <1>8
    <3> HIDE DEF rest
    <3> QED BY <1>3, <3>1
  <2>3. \A i \in 1..n-1 : i + 1 \in 1..n
    BY <1>3
  <2> HIDE DEF rest
  <2>4. rest \in [1..n-1 -> SUBSET People]
    BY <1>7, <2>2, <2>3
  <2>5. Route(rest)
    BY <1>3, <2>4 DEF Route
  <2>6. Everybody(rest) = Everybody(s)
    <3>1. \A i \in 1..n : i = 1 \/ (i - 1 \in 1..n-1 /\ s[i] = rest[i - 1])
      BY <1>3, <2>2
    <3>2. ASSUME NEW p PROVE p \in Everybody(rest) <=> p \in Everybody(s)
      <4>1. (\E i \in 1..n-1 : p \in rest[i]) <=> (\E i \in 1..n : p \in s[i])
        BY <1>10, <2>2, <2>3, <3>1
      <4> QED BY <4>1, <1>7, <2>2, InEverybody
    <3> QED BY <3>2
  <2> QED BY <1>a, <1>5, <2>1, <2>5, <2>6 DEF rs
<1> QED BY <1>9, <1>10

\* Every account of a route has had its round once the call is at a round of nobody.
LEMMA AllReached ==
  ASSUME NEW s, Route(s), NEW k \in 1..3, k \in DOMAIN s => s[k] = {},
         NEW R, \A i \in DOMAIN s : i < k => s[i] \subseteq R
  PROVE  Everybody(s) \subseteq R
<1>1. PICK n \in 0..2 : s \in [1..n -> SUBSET People] /\ (n = 2 => s[1] # {})
  BY DEF Route
<1>2. \A i \in 1..n : s[i] \subseteq R
  <2> TAKE i \in 1..n
  <2>1. CASE i < k
    BY <1>1, <2>1
  <2>2. CASE i = k
    BY <1>1, <2>2
  <2>3. CASE i > k
    BY <1>1, <2>3
  <2> QED BY <1>1, <2>1, <2>2, <2>3
<1> QED BY <1>1, <1>2, InEverybody

JobTypes ==
  /\ phase \in [Jobs -> {"idle", "insert", "publish", "done", "failed"}]
  /\ round \in [Jobs -> 1..3]
  /\ rounds = [j \in Jobs |-> rounds[j]]
  /\ audience \in [Jobs -> SUBSET People]
  /\ withRows \in [Jobs -> BOOLEAN]
  /\ recorded \in [Jobs -> SUBSET People]

\* What a call has written and published is what its rounds so far ask for.
InOrder(j) ==
  /\ phase[j] = "idle" => round[j] = 1 /\ recorded[j] = {} /\ rounds[j] = << >>
  /\ phase[j] # "idle" => Route(rounds[j]) /\ audience[j] = Everybody(rounds[j])
  /\ phase[j] = "publish" => Recipients(j) # {} /\ Recipients(j) \subseteq recorded[j]
  /\ phase[j] = "done" => Recipients(j) = {}
  /\ withRows[j] => \A i \in DOMAIN rounds[j] : i < round[j] => rounds[j][i] \subseteq recorded[j]
  /\ recorded[j] \subseteq audience[j]
  /\ \A i \in 1..2 : <<j, i>> \in published => i < round[j]
  /\ <<j, 3>> \in published => phase[j] = "done"

JobInv == JobTypes /\ \A j \in Jobs : InOrder(j)

\* Nothing of call j moves.
Rests(j) ==
  /\ UNCHANGED <<phase[j], rounds[j], round[j], audience[j], withRows[j], recorded[j]>>
  /\ \A i \in 1..3 : <<j, i>> \in published' => <<j, i>> \in published

LEMMA RestingStays == ASSUME NEW j \in Jobs, InOrder(j), Rests(j) PROVE InOrder(j)'
  BY DEF InOrder, Rests, Recipients

\* The inserts of a round (Promise.all).
LEMMA InsertInOrder == ASSUME JobInv, NEW j \in Jobs, Insert(j) PROVE JobInv'
<1> USE DEF JobInv
<1>1. PICK S \in SUBSET Recipients(j) :
        /\ recorded' = [recorded EXCEPT ![j] = @ \cup S]
        /\ phase' = [phase EXCEPT ![j] = IF S = Recipients(j) THEN "publish" ELSE "failed"]
  BY DEF Insert
<1>2. /\ phase[j] = "insert" /\ Recipients(j) # {}
      /\ UNCHANGED <<rounds, round, audience, withRows, published>>
  BY DEF Insert, queueVars
<1>3. Recipients(j) \subseteq Everybody(rounds[j])
  BY InEverybody DEF Recipients
<1>4. Recipients(j) \subseteq audience[j] /\ audience[j] \subseteq People
  <2>1. audience[j] = Everybody(rounds[j]) /\ audience[j] \subseteq People
    BY <1>2 DEF InOrder, JobTypes
  <2> QED BY <1>3, <2>1
<1>5. JobTypes'
  BY <1>1, <1>2, <1>4 DEF JobTypes
<1>6. ASSUME NEW k \in Jobs, k # j PROVE InOrder(k)'
  BY <1>1, <1>2, <1>6, RestingStays DEF Rests, JobTypes
<1>7. Recipients(j)' = Recipients(j)
  BY <1>2 DEF Recipients
<1>8. recorded'[j] = recorded[j] \cup S /\ phase'[j] = IF S = Recipients(j) THEN "publish" ELSE "failed"
  BY <1>1 DEF JobTypes
<1>9. InOrder(j)'
  BY <1>2, <1>4, <1>7, <1>8 DEF InOrder
<1> QED BY <1>5, <1>6, <1>9

\* What the broker takes is the message it is given (client.emit).
LEMMA EmitAdds ==
  ASSUME NEW m, Emit(m) PROVE published' \subseteq published \cup {m}
  BY DEF Emit, Publish, queueVars

\* A call begins with its route (notify*).
LEMMA StartInOrder == ASSUME JobInv, NEW j \in Jobs, Start(j) PROVE JobInv'
<1> USE DEF JobInv
<1>1. PICK plan \in Notices, present \in SUBSET People :
        /\ rounds' = [rounds EXCEPT ![j] = For(plan, present)]
        /\ audience' = [audience EXCEPT ![j] =
                          (UNION {plan.rounds[i] : i \in DOMAIN plan.rounds}) \cap present]
        /\ withRows' = [withRows EXCEPT ![j] = plan.rows]
  BY DEF Start
<1>2. /\ phase[j] = "idle" /\ phase' = [phase EXCEPT ![j] = "insert"]
      /\ UNCHANGED <<round, recorded, published>>
  BY DEF Start, queueVars
<1>3. /\ Route(For(plan, present)) /\ plan.rows \in BOOLEAN
      /\ Everybody(For(plan, present)) = Everybody(plan.rounds) \cap present
  BY RouteOfPlan
<1>4. audience' = [audience EXCEPT ![j] = Everybody(For(plan, present))]
  BY <1>1, <1>3 DEF Everybody
<1>5. Everybody(For(plan, present)) \subseteq People
  BY <1>3
<1>6. JobTypes'
  BY <1>1, <1>2, <1>3, <1>4, <1>5 DEF JobTypes
<1>7. ASSUME NEW k \in Jobs, k # j PROVE InOrder(k)'
  BY <1>1, <1>2, <1>7, RestingStays DEF Rests, JobTypes
<1>8. /\ rounds'[j] = For(plan, present) /\ audience'[j] = Everybody(For(plan, present))
      /\ phase'[j] = "insert" /\ round[j] = 1 /\ recorded[j] = {}
  <2>1. round[j] = 1 /\ recorded[j] = {}
    BY <1>2 DEF InOrder
  <2>2. rounds'[j] = For(plan, present)
    BY <1>1 DEF JobTypes
  <2>3. audience'[j] = Everybody(For(plan, present))
    BY <1>4 DEF JobTypes
  <2>4. phase'[j] = "insert"
    BY <1>2 DEF JobTypes
  <2> QED BY <2>1, <2>2, <2>3, <2>4
<1>9. \A i \in DOMAIN For(plan, present) : ~(i < 1)
  BY <1>3 DEF Route
<1>10. InOrder(j)'
  BY <1>2, <1>3, <1>8, <1>9 DEF InOrder
<1> QED BY <1>6, <1>7, <1>10

\* The push of a round, after its rows (push, pushMany).
LEMMA PublishPushInOrder == ASSUME JobInv, NEW j \in Jobs, PublishPush(j) PROVE JobInv'
<1> USE DEF JobInv
<1>1. /\ \/ phase[j] = "publish"
         \/ phase[j] = "insert" /\ Recipients(j) # {} /\ ~withRows[j]
      /\ round' = [round EXCEPT ![j] = @ + 1]
      /\ phase' = [phase EXCEPT ![j] = "insert"]
      /\ UNCHANGED <<rounds, audience, withRows, recorded>>
  BY DEF PublishPush
<1>2. published' \subseteq published \cup {<<j, round[j]>>}
  BY EmitAdds DEF PublishPush
<1>3. round[j] \in 1..2
  <2>1. Recipients(j) # {} /\ Route(rounds[j])
    BY <1>1 DEF InOrder
  <2> QED BY <2>1 DEF Recipients, Route
<1>4. JobTypes'
  BY <1>1, <1>3 DEF JobTypes
<1>5. ASSUME NEW k \in Jobs, k # j PROVE InOrder(k)'
  BY <1>1, <1>2, <1>5, RestingStays DEF Rests, JobTypes
<1>6. round'[j] = round[j] + 1 /\ phase'[j] = "insert"
  BY <1>1 DEF JobTypes
<1>7. \A i \in 1..3 : <<j, i>> \in published' => <<j, i>> \in published \/ i = round[j]
  BY <1>2
<1>8. withRows[j] => \A i \in DOMAIN rounds[j] : i < round[j] + 1 => rounds[j][i] \subseteq recorded[j]
  <2> SUFFICES ASSUME withRows[j], NEW i \in DOMAIN rounds[j], i < round[j] + 1
               PROVE  rounds[j][i] \subseteq recorded[j]
    OBVIOUS
  <2>1. phase[j] = "publish" /\ Route(rounds[j])
    BY <1>1 DEF InOrder
  <2>2. i \in 1..2
    BY <2>1 DEF Route
  <2>3. CASE i = round[j]
    BY <2>1, <2>3 DEF InOrder, Recipients
  <2>4. CASE i < round[j]
    BY <2>4 DEF InOrder
  <2> QED BY <1>3, <2>2, <2>3, <2>4
<1>9. InOrder(j)'
  BY <1>1, <1>3, <1>6, <1>7, <1>8 DEF InOrder
<1> QED BY <1>4, <1>5, <1>9

\* The mail, after the last round (mailProducer).
LEMMA PublishMailInOrder == ASSUME JobInv, NEW j \in Jobs, PublishMail(j) PROVE JobInv'
<1> USE DEF JobInv
<1>1. /\ phase[j] = "insert" /\ Recipients(j) = {}
      /\ phase' = [phase EXCEPT ![j] = "done"]
      /\ UNCHANGED <<rounds, round, audience, withRows, recorded>>
  BY DEF PublishMail
<1>2. published' \subseteq published \cup {<<j, 3>>}
  BY EmitAdds DEF PublishMail, MailPart, queueVars
<1>3. JobTypes'
  BY <1>1 DEF JobTypes
<1>4. ASSUME NEW k \in Jobs, k # j PROVE InOrder(k)'
  BY <1>1, <1>2, <1>4, RestingStays DEF Rests, JobTypes
<1>5. phase'[j] = "done" /\ Recipients(j)' = Recipients(j)
  BY <1>1 DEF JobTypes, Recipients
<1>6. \A i \in 1..2 : <<j, i>> \in published' => <<j, i>> \in published
  BY <1>2
<1>7. InOrder(j)'
  BY <1>1, <1>5, <1>6 DEF InOrder
<1> QED BY <1>3, <1>4, <1>7

\* A call that ends early.
LEMMA JobEndsInOrder == ASSUME JobInv, NEW j \in Jobs, JobEnds(j) PROVE JobInv'
<1> USE DEF JobInv
<1>1. /\ phase[j] \in {"insert", "publish"} /\ phase' = [phase EXCEPT ![j] = "failed"]
      /\ UNCHANGED <<rounds, round, audience, withRows, recorded, published>>
  BY DEF JobEnds, queueVars
<1>2. JobTypes'
  BY <1>1 DEF JobTypes
<1>3. ASSUME NEW k \in Jobs, k # j PROVE InOrder(k)'
  BY <1>1, <1>3, RestingStays DEF Rests, JobTypes
<1>4. InOrder(j)'
  BY <1>1 DEF InOrder, JobTypes
<1> QED BY <1>2, <1>3, <1>4

\* Nobody but the call itself moves it, and nobody else publishes anything new.
LEMMA OthersLeaveJobs ==
  ASSUME [Next]_vars, \A j \in Jobs : ~Notify(j)
  PROVE  UNCHANGED <<jobVars, recorded, published>>
<1> USE DEF jobVars
<1>1. CASE UNCHANGED vars
  BY <1>1 DEF vars, queueVars
<1>2. ASSUME NEW r \in Runs, Consume(r) PROVE UNCHANGED <<jobVars, recorded, published>>
  <2>1. CASE ReadSubscriptions(r) \/ Send(r) \/ RemoveExpired(r)
    BY <2>1 DEF ReadSubscriptions, Send, RemoveExpired, Fail, queueVars
  <2>2. CASE PushDone(r) \/ SendMail(r)
    BY <2>2 DEF PushDone, SendMail, Finish, Fail
  <2>3. CASE Acknowledge(r)
    BY <2>3 DEF Acknowledge, PublishRetry, AckRetried, Nack
  <2> QED BY <1>2, <2>1, <2>2, <2>3 DEF Consume
<1>3. ASSUME NEW d \in Devices, NEW u \in Users, SaveSubscription(d, u) \/ DeleteSubscription(d, u)
      PROVE  UNCHANGED <<jobVars, recorded, published>>
  BY <1>3 DEF SaveSubscription, DeleteSubscription, queueVars
<1>4. ASSUME NEW u \in Users, DeleteAllSubscriptionsForUser(u)
      PROVE  UNCHANGED <<jobVars, recorded, published>>
  BY <1>4 DEF DeleteAllSubscriptionsForUser, queueVars
<1>5. ASSUME NEW d \in Devices, EndpointExpires(d) PROVE UNCHANGED <<jobVars, recorded, published>>
  BY <1>5 DEF EndpointExpires, queueVars
<1>6. CASE Broker
  BY <1>6 DEF Broker, TtlExpires, Deliver, Disconnect
<1>7. ASSUME NEW w \in Ids, Dies(w) PROVE UNCHANGED <<jobVars, recorded, published>>
  BY <1>7 DEF Dies, ConsumerDies
<1> QED BY <1>1, <1>2, <1>3, <1>4, <1>5, <1>6, <1>7 DEF Next

LEMMA JobStepInv == JobInv /\ [Next]_vars => JobInv'
<1> SUFFICES ASSUME JobInv, [Next]_vars PROVE JobInv'
  OBVIOUS
<1>1. ASSUME NEW j \in Jobs, Notify(j) PROVE JobInv'
  BY <1>1, StartInOrder, InsertInOrder, PublishPushInOrder, PublishMailInOrder, JobEndsInOrder
     DEF Notify
<1>2. CASE \A j \in Jobs : ~Notify(j)
  <2>1. UNCHANGED <<jobVars, recorded, published>>
    BY <1>2, OthersLeaveJobs
  <2> QED BY <2>1, RestingStays DEF JobInv, JobTypes, Rests, jobVars
<1> QED BY <1>1, <1>2

LEMMA JobInitInv == Init => JobInv
  BY DEF Init, QueueInit, JobInv, JobTypes, InOrder, Recipients

LEMMA JobsInvariant == Spec => []JobInv
  BY JobInitInv, JobStepInv, PTL DEF Spec

-----------------------------------------------------------------------------
\* A push comes after the rows of its round and a mail after all rows of the event, whatever
\* insert, publish or process fails (notifications.service.ts, every notify*).
THEOREM TellsAfterRecording == Spec => []ToldOnlyWhenRecorded
<1>1. JobInv => ToldOnlyWhenRecorded
  <2> SUFFICES ASSUME JobInv, NEW j \in Jobs, withRows[j]
               PROVE  /\ \A i \in DOMAIN rounds[j] :
                            <<j, i>> \in published => rounds[j][i] \subseteq recorded[j]
                      /\ <<j, 3>> \in published => audience[j] \subseteq recorded[j]
    BY DEF ToldOnlyWhenRecorded, MailPart
  <2>0. InOrder(j) /\ round[j] \in 1..3
    BY DEF JobInv, JobTypes
  <2>1. ASSUME NEW i \in DOMAIN rounds[j], <<j, i>> \in published
        PROVE  rounds[j][i] \subseteq recorded[j]
    <3>1. i \in 1..2
      <4>1. CASE phase[j] = "idle"
        <5>1. rounds[j] = << >>
          BY <2>0, <4>1 DEF InOrder
        <5> QED BY <2>1, <5>1
      <4>2. CASE phase[j] # "idle"
        <5>1. PICK n \in 0..2 : DOMAIN rounds[j] = 1..n
          BY <2>0, <4>2 DEF InOrder, Route
        <5> QED BY <2>1, <5>1
      <4> QED BY <4>1, <4>2
    <3>2. i < round[j]
      BY <2>0, <2>1, <3>1 DEF InOrder
    <3> QED BY <2>0, <2>1, <3>2 DEF InOrder
  <2>2. ASSUME <<j, 3>> \in published PROVE audience[j] \subseteq recorded[j]
    <3>1. phase[j] = "done" /\ Route(rounds[j]) /\ audience[j] = Everybody(rounds[j])
      BY <2>0, <2>2 DEF InOrder
    <3>2. round[j] \in DOMAIN rounds[j] => rounds[j][round[j]] = {}
      BY <2>0, <3>1 DEF InOrder, Recipients
    <3>3. \A i \in DOMAIN rounds[j] : i < round[j] => rounds[j][i] \subseteq recorded[j]
      BY <2>0 DEF InOrder
    <3>4. Everybody(rounds[j]) \subseteq recorded[j]
      BY <2>0, <3>1, <3>2, <3>3, AllReached
    <3> QED BY <3>1, <3>4
  <2> QED BY <2>1, <2>2
<1> QED BY <1>1, JobsInvariant, PTL

\* A call that ends without an error has a row for everybody there was to tell, for a store
\* without an owner and a booking without a customer too.
THEOREM ForgetsNobody == Spec => []NobodyForgotten
<1>1. JobInv => NobodyForgotten
  <2> SUFFICES ASSUME JobInv, NEW j \in Jobs, phase[j] = "done", withRows[j]
               PROVE  recorded[j] = audience[j]
    BY DEF NobodyForgotten
  <2>0. InOrder(j) /\ round[j] \in 1..3
    BY DEF JobInv, JobTypes
  <2>1. Route(rounds[j]) /\ audience[j] = Everybody(rounds[j]) /\ recorded[j] \subseteq audience[j]
    BY <2>0 DEF InOrder
  <2>2. round[j] \in DOMAIN rounds[j] => rounds[j][round[j]] = {}
    BY <2>0 DEF InOrder, Recipients
  <2>3. \A i \in DOMAIN rounds[j] : i < round[j] => rounds[j][i] \subseteq recorded[j]
    BY <2>0 DEF InOrder
  <2>4. Everybody(rounds[j]) \subseteq recorded[j]
    BY <2>0, <2>1, <2>2, <2>3, AllReached
  <2> QED BY <2>1, <2>4
<1> QED BY <1>1, JobsInvariant, PTL

\* A push or mail the broker has accepted is with it until its handler has succeeded, and
\* given up only after MaxRetry + 1 failures (web-push.consumer.ts, mail.consumer.ts).
THEOREM NoNoticeLost == Spec => []NothingLost
<1>1. Init => QueueInv
  BY QueueInitInv DEF Init
<1>2. JobInv /\ QueueInv /\ [Next]_vars => QueueInv'
  BY StepOfQueue, QueueStepInv DEF JobInv, JobTypes
<1>3. QueueInv => NothingLost
  BY InvLosesNothing
<1> QED BY <1>1, <1>2, <1>3, JobsInvariant, PTL DEF Spec

-----------------------------------------------------------------------------
(* The devices.  While no connection and no process is lost, a message is in    *)
(* one place at a time: queued, or with one invocation.  It leaves that place    *)
(* for the retry queue only before anything was sent.                          *)

Going(r, m)  == run[r].stage \in {"handling", "failed"} /\ run[r].msg = m
Queued(s, m) == copy[s].at \in {"main", "waiting"} /\ copy[s].msg = m

OneChance(m) ==
  /\ \A q, r \in Runs : Going(q, m) /\ Going(r, m) => q = r
  /\ \A s, u \in Slots : Queued(s, m) /\ Queued(u, m) => s = u
  /\ \A r \in Runs, s \in Slots : ~(Going(r, m) /\ Queued(s, m))

\* Somebody may still send m.
Unsent(m) ==
  \/ m \notin published
  \/ \E s \in Slots : Queued(s, m)
  \/ \E r \in Runs : Going(r, m) /\ reading[r].at # "clean"

SendTypes ==
  /\ reading = [r \in Runs |-> reading[r]]
  /\ shown \in [Devices -> [Messages -> Nat]]
  /\ \A r \in Runs : reading[r] # Outside => Pushing(r)

OncePerMessage ==
  losses = 0 => \A m \in Messages :
    /\ OneChance(m)
    /\ \A d \in Devices : shown[d][m] <= 1 /\ (Unsent(m) => shown[d][m] = 0)

\* What a step does to the chances of message m: it takes some away, it moves the one there
\* is, or it uses it.
Fewer(m) ==
  /\ \A s \in Slots : Queued(s, m)' => Queued(s, m)
  /\ \A r \in Runs : Going(r, m)' => Going(r, m)
  /\ Unsent(m)' => Unsent(m)
  /\ \A d \in Devices : shown'[d][m] = shown[d][m]

Moved(m) ==
  /\ Unsent(m)
  /\ OneChance(m) => OneChance(m)'
  /\ \A d \in Devices : shown'[d][m] = shown[d][m]

Used(m) ==
  /\ Unsent(m)
  /\ OneChance(m) => OneChance(m)' /\ ~Unsent(m)'
  /\ \A d \in Devices : shown'[d][m] \in {shown[d][m], shown[d][m] + 1}

LEMMA ChanceKept ==
  ASSUME SendTypes, OncePerMessage, losses = 0,
         \A m \in Messages : Fewer(m) \/ Moved(m) \/ Used(m)
  PROVE  OncePerMessage'
<1> SUFFICES ASSUME NEW m \in Messages
             PROVE  /\ OneChance(m)'
                    /\ \A d \in Devices : shown'[d][m] <= 1 /\ (Unsent(m)' => shown'[d][m] = 0)
  BY DEF OncePerMessage, Unsent, Queued, Going
<1>1. /\ OneChance(m)
      /\ \A d \in Devices : shown[d][m] <= 1 /\ (Unsent(m) => shown[d][m] = 0)
      /\ \A d \in Devices : shown[d][m] \in Nat
  BY DEF OncePerMessage, SendTypes
<1>2. CASE Fewer(m)
  <2>1. OneChance(m)'
    BY <1>1, <1>2 DEF Fewer, OneChance
  <2> QED BY <1>1, <1>2, <2>1 DEF Fewer
<1>3. CASE Moved(m)
  BY <1>1, <1>3 DEF Moved
<1>4. CASE Used(m)
  BY <1>1, <1>4 DEF Used
<1> QED BY <1>2, <1>3, <1>4

\* The broker lets go of a copy: no copy is queued by that.
LEMMA SettledIsNotQueued ==
  ASSUME QueueInv, NEW r \in Runs, NEW place \in {"free", "dead"}, copy' = Settle(copy, r, place),
         NEW s \in Slots, NEW m, Queued(s, m)'
  PROVE  Queued(s, m)
<1>1. CASE run[r].tag = NoSlot
  BY <1>1 DEF Settle, Queued
<1>2. CASE run[r].tag # NoSlot
  <2>1. copy' = [copy EXCEPT ![run[r].tag] = IF place = "free" THEN Free ELSE [@ EXCEPT !.at = place]]
    BY <1>2 DEF Settle
  <2>2. copy \in [Slots -> Copies]
    BY DEF QueueInv, QueueTypeOK
  <2>3. CASE s = run[r].tag
    <3>1. copy'[s] = IF place = "free" THEN Free ELSE [copy[s] EXCEPT !.at = place]
      BY <2>1, <2>2, <2>3
    <3>2. copy'[s].at \in {"free", "dead"}
      BY <2>2, <3>1 DEF Free, Copies
    <3> QED BY <3>2 DEF Queued
  <2>4. CASE s # run[r].tag
    BY <2>1, <2>2, <2>4 DEF Queued
  <2> QED BY <2>3, <2>4
<1> QED BY <1>1, <1>2

\* An invocation that ends (ack): it takes no message with it that could be sent again.
LEMMA EndsFewer ==
  ASSUME QueueInv, SendTypes, NEW r \in Runs, NEW place \in {"free", "dead"},
         copy' = Settle(copy, r, place), run' = [run EXCEPT ![r] = Idle],
         reading' = [reading EXCEPT ![r] = Outside], UNCHANGED <<published, shown>>,
         NEW m \in Messages
  PROVE  Fewer(m)
<1>1. \A s \in Slots : Queued(s, m)' => Queued(s, m)
  BY SettledIsNotQueued
<1>2. \A q \in Runs : Going(q, m)' => q # r /\ Going(q, m) /\ reading'[q] = reading[q]
  BY DEF Going, Idle, QueueInv, QueueTypeOK, SendTypes
<1> QED BY <1>1, <1>2 DEF Fewer, Unsent

\* The handler fails: the message stays with the same invocation.
LEMMA FailsFewer ==
  ASSUME QueueInv, SendTypes, NEW r \in Runs, Fail(r), reading[r] = Outside,
         UNCHANGED <<reading, shown>>, NEW m \in Messages
  PROVE  Fewer(m)
<1>1. \A s \in Slots : Queued(s, m)' <=> Queued(s, m)
  BY DEF Fail, Queued
<1>2. \A q \in Runs : Going(q, m)' => Going(q, m)
  BY DEF Going, Fail, QueueInv, QueueTypeOK, RunStates
<1> QED BY <1>1, <1>2 DEF Fewer, Unsent, Fail

\* The broker accepts a message it has not had.
LEMMA PublishMoves ==
  ASSUME QueueInv, NEW n \in Messages, Publish(n), UNCHANGED <<reading, shown>>, NEW m \in Messages
  PROVE  Fewer(m) \/ Moved(m)
<1>1. /\ SomeSlot \in Slots /\ copy[SomeSlot] = Free /\ n \notin published
      /\ copy' = [copy EXCEPT ![SomeSlot] = [at |-> "main", msg |-> n, attempt |-> 0]]
      /\ published' = published \cup {n} /\ run' = run
      /\ copy \in [Slots -> Copies]
  BY SomeSlotIsFree DEF Publish, QueueInv, QueueTypeOK
<1>2. \A r \in Runs : Going(r, m)' <=> Going(r, m)
  BY <1>1 DEF Going
<1>3. CASE m = n
  <2>1. \A s \in Slots : ~Queued(s, m)
    BY <1>1, <1>3 DEF Queued, QueueInv, Counting
  <2>2. \A r \in Runs : ~Going(r, m)
    BY <1>1, <1>3 DEF Going, QueueInv, Holding
  <2>3. \A s \in Slots : Queued(s, m)' => s = SomeSlot
    BY <1>1, <2>1 DEF Queued
  <2> QED BY <1>1, <1>2, <1>3, <2>2, <2>3 DEF Moved, Unsent, OneChance
<1>4. CASE m # n
  <2>1. \A s \in Slots : Queued(s, m)' => Queued(s, m)
    BY <1>1, <1>4 DEF Queued
  <2> QED BY <1>1, <1>2, <1>4, <2>1 DEF Fewer, Unsent
<1> QED BY <1>3, <1>4

\* A delivery: from the queue to one invocation.
LEMMA DeliverMoves ==
  ASSUME QueueInv, NEW s \in Slots, NEW r \in Runs, NEW w \in Ids, Deliver(s, r, w),
         UNCHANGED <<reading, shown>>, NEW m \in Messages
  PROVE  Fewer(m) \/ Moved(m)
<1>1. /\ copy[s].at = "main" /\ run[r] = Idle
      /\ copy' = [copy EXCEPT ![s].at = "unacked"]
      /\ run' = [run EXCEPT ![r] = [stage |-> "handling", msg |-> copy[s].msg,
                                    attempt |-> copy[s].attempt, tag |-> s, by |-> w]]
      /\ published' = published
      /\ copy \in [Slots -> Copies] /\ run \in [Runs -> RunStates]
  BY DEF Deliver, QueueInv, QueueTypeOK
<1>2. \A u \in Slots : Queued(u, m)' => u # s /\ Queued(u, m)
  BY <1>1 DEF Queued, Copies
<1>3. \A q \in Runs : Going(q, m)' => Going(q, m) \/ (q = r /\ m = copy[s].msg)
  BY <1>1 DEF Going
<1>4. CASE m = copy[s].msg
  <2>1. Queued(s, m)
    BY <1>1, <1>4 DEF Queued
  <2>2. OneChance(m) => OneChance(m)'
    BY <1>2, <1>3, <2>1 DEF OneChance
  <2> QED BY <2>1, <2>2 DEF Moved, Unsent
<1>5. CASE m # copy[s].msg
  <2>1. \A q \in Runs : Going(q, m)' => Going(q, m)
    BY <1>3, <1>5
  <2> QED BY <1>1, <1>2, <2>1 DEF Fewer, Unsent
<1> QED BY <1>4, <1>5

\* A retry: from the invocation that failed, before it sent anything, to the retry queue.
LEMMA RetryMoves ==
  ASSUME QueueInv, SendTypes, NEW r \in Runs, PublishRetry(r), UNCHANGED <<reading, shown>>,
         NEW m \in Messages
  PROVE  Fewer(m) \/ Moved(m)
<1>0. CASE /\ UNCHANGED copy
           /\ run' = [run EXCEPT ![r] = IF run[r].tag = NoSlot THEN Idle ELSE [@ EXCEPT !.stage = "stuck"]]
  <2>1. run \in [Runs -> RunStates] /\ published' = published
    BY DEF PublishRetry, QueueInv, QueueTypeOK
  <2>2. /\ \A q \in Runs \ {r} : run'[q] = run[q]
        /\ run'[r].stage \in {"idle", "stuck"}
    BY <1>0, <2>1 DEF Idle, RunStates
  <2>3. \A q \in Runs : Going(q, m)' => Going(q, m)
    BY <2>2 DEF Going
  <2> QED BY <1>0, <2>1, <2>3 DEF Fewer, Queued, Unsent
<1>1. CASE /\ Room # {} /\ copy' = [copy EXCEPT ![SomeSlot] = Waiting(run[r])]
           /\ run' = [run EXCEPT ![r].stage = "retried"]
  <2>1. /\ SomeSlot \in Slots /\ copy[SomeSlot] = Free /\ run[r].stage = "failed"
        /\ copy' = [copy EXCEPT ![SomeSlot] = Waiting(run[r])]
        /\ run' = [run EXCEPT ![r].stage = "retried"]
        /\ published' = published
        /\ copy \in [Slots -> Copies] /\ run \in [Runs -> RunStates]
    BY <1>1, SomeSlotIsFree DEF PublishRetry, QueueInv, QueueTypeOK
  <2>2. \A q \in Runs : Going(q, m)' => q # r /\ Going(q, m)
    BY <2>1 DEF Going, RunStates
  <2>3. \A s \in Slots : Queued(s, m)' => Queued(s, m) \/ (s = SomeSlot /\ m = run[r].msg)
    BY <2>1 DEF Queued, Waiting
  <2>4. CASE m = run[r].msg
    <3>1. Going(r, m) /\ reading[r].at # "clean"
      BY <2>1, <2>4 DEF Going, SendTypes, Pushing, Outside
    <3>2. OneChance(m) => OneChance(m)'
      BY <2>2, <2>3, <3>1 DEF OneChance
    <3> QED BY <3>1, <3>2 DEF Moved, Unsent
  <2>5. CASE m # run[r].msg
    <3>1. \A s \in Slots : Queued(s, m)' => Queued(s, m)
      BY <2>3, <2>5
    <3> QED BY <2>1, <2>2, <3>1 DEF Fewer, Unsent
  <2> QED BY <2>4, <2>5
<1> QED BY <1>0, <1>1 DEF PublishRetry

\* The push itself (sendToUsers): to each device at most once.
LEMMA SendUses ==
  ASSUME QueueInv, SendTypes, NEW r \in Runs, Send(r), NEW m \in Messages
  PROVE  Fewer(m) \/ Used(m)
<1>1. PICK ok \in SUBSET (DOMAIN reading[r].to \ gone) : shown' = Accepting(r, ok)
  BY DEF Send
<1>2. /\ Pushing(r) /\ reading[r].at = "send" /\ UNCHANGED <<run, copy, published>>
      /\ reading'[r].at = "clean" /\ \A q \in Runs \ {r} : reading'[q] = reading[q]
  BY DEF Send, Keep, queueVars, SendTypes
<1>3. \A d \in Devices : shown'[d][m] = shown[d][m] \/ (m = run[r].msg /\ shown'[d][m] = shown[d][m] + 1)
  BY <1>1 DEF Accepting, SendTypes
<1>4. /\ \A s \in Slots : Queued(s, m)' <=> Queued(s, m)
      /\ \A q \in Runs : Going(q, m)' <=> Going(q, m)
  BY <1>2 DEF Queued, Going
<1>5. CASE m = run[r].msg
  <2>1. Going(r, m) /\ m \in published
    BY <1>2, <1>5 DEF Going, Pushing, QueueInv, Holding
  <2>2. OneChance(m) => OneChance(m)' /\ ~Unsent(m)'
    BY <1>2, <1>4, <2>1 DEF OneChance, Unsent
  <2> QED BY <1>2, <1>3, <2>1, <2>2 DEF Used, Unsent
<1>6. CASE m # run[r].msg
  <2>1. ~Going(r, m)
    BY <1>6 DEF Going
  <2> QED BY <1>2, <1>3, <1>4, <1>6, <2>1 DEF Fewer, Unsent
<1> QED BY <1>5, <1>6

\* Nothing is delivered, and no invocation forgets that it has sent.
LEMMA ReadingFewer ==
  ASSUME UNCHANGED <<copy, run, published, shown>>, NEW m \in Messages,
         \A q \in Runs : reading'[q].at # "clean" => reading[q].at # "clean"
  PROVE  Fewer(m)
  BY DEF Fewer, Queued, Going, Unsent

\* The invariant of the devices, step by step.
SendStep == losses' = 0 => losses = 0 /\ \A m \in Messages : Fewer(m) \/ Moved(m) \/ Used(m)

\* The calls: at most a message more (Notify).
LEMMA NotifySends ==
  ASSUME QueueInv, JobInv, SendTypes, NEW j \in Jobs, Notify(j) PROVE SendTypes' /\ SendStep
<1> USE NoticeConstants
<1>1. UNCHANGED sendVars /\ ((\E n \in Messages : Publish(n)) \/ UNCHANGED queueVars)
  <2>1. CASE Start(j) \/ Insert(j) \/ JobEnds(j)
    BY <2>1 DEF Start, Insert, JobEnds
  <2>2. CASE PublishPush(j)
    <3>1. <<j, round[j]>> \in Messages
      BY DEF JobInv, JobTypes
    <3> QED BY <2>2, <3>1 DEF PublishPush, Emit
  <2>3. CASE PublishMail(j)
    <3>1. <<j, MailPart>> \in Messages
      BY DEF MailPart
    <3> QED BY <2>3, <3>1 DEF PublishMail, Emit
  <2> QED BY <2>1, <2>2, <2>3 DEF Notify
<1>2. ASSUME NEW n \in Messages, Publish(n) PROVE UNCHANGED <<run, losses>>
  BY <1>2 DEF Publish
<1>3. SendTypes'
  BY <1>1, <1>2 DEF SendTypes, sendVars, queueVars, Pushing, Part
<1>4. ASSUME NEW n \in Messages, Publish(n), NEW m \in Messages PROVE Fewer(m) \/ Moved(m)
  BY <1>1, <1>4, PublishMoves DEF sendVars
<1>5. ASSUME UNCHANGED queueVars, NEW m \in Messages PROVE Fewer(m)
  BY <1>1, <1>5, ReadingFewer DEF sendVars, queueVars
<1> QED BY <1>1, <1>2, <1>3, <1>4, <1>5 DEF SendStep, queueVars

\* sendToUsers (ReadSubscriptions, Send, RemoveExpired).
LEMMA PushSends ==
  ASSUME QueueInv, SendTypes, NEW r \in Runs, ReadSubscriptions(r) \/ Send(r) \/ RemoveExpired(r)
  PROVE  SendTypes' /\ SendStep
<1>1. CASE ReadSubscriptions(r) /\ UNCHANGED queueVars
  <2>1. /\ Pushing(r) /\ reading[r] = Outside /\ UNCHANGED <<copy, run, losses, published, shown>>
        /\ \A q \in Runs \ {r} : reading'[q] = reading[q]
        /\ reading' = [q \in Runs |-> reading'[q]]
    <3>1. ~Fail(r)
      BY <1>1 DEF Fail, queueVars, QueueInv, QueueTypeOK, RunStates
    <3> QED BY <1>1, <3>1 DEF ReadSubscriptions, Keep, queueVars, SendTypes
  <2>2. SendTypes'
    BY <2>1 DEF SendTypes, Pushing, Part
  <2>3. ASSUME NEW m \in Messages PROVE Fewer(m)
    BY <2>1, ReadingFewer DEF Outside
  <2> QED BY <2>1, <2>2, <2>3 DEF SendStep
<1>2. CASE ReadSubscriptions(r) /\ Fail(r) /\ UNCHANGED reading
  <2>1. reading[r] = Outside /\ UNCHANGED <<reading, shown>>
    BY <1>2 DEF ReadSubscriptions
  <2>2. SendTypes'
    BY <1>2, <2>1 DEF SendTypes, Pushing, Part, Fail, QueueInv, QueueTypeOK
  <2>3. ASSUME NEW m \in Messages PROVE Fewer(m)
    BY <1>2, <2>1, FailsFewer
  <2> QED BY <1>2, <2>2, <2>3 DEF SendStep, Fail
<1>3. CASE Send(r)
  <2>1. /\ Pushing(r) /\ UNCHANGED queueVars
        /\ \A q \in Runs \ {r} : reading'[q] = reading[q]
        /\ reading' = [q \in Runs |-> reading'[q]]
    BY <1>3 DEF Send, Keep, SendTypes
  <2>2. shown' \in [Devices -> [Messages -> Nat]]
    <3>1. PICK ok : shown' = Accepting(r, ok)
      BY <1>3 DEF Send
    <3>2. ASSUME NEW d \in Devices
          PROVE  /\ shown[d] \in [Messages -> Nat]
                 /\ [shown[d] EXCEPT ![run[r].msg] = IF losses = 0 THEN @ + 1 ELSE @] \in [Messages -> Nat]
      <4>1. shown[d] \in [Messages -> Nat]
        BY DEF SendTypes
      <4>2. \A n \in Messages : shown[d][n] + 1 \in Nat
        BY <4>1
      <4> QED BY <4>1, <4>2
    <3> QED BY <3>1, <3>2 DEF Accepting
  <2>3. SendTypes'
    BY <2>1, <2>2 DEF SendTypes, Pushing, Part, queueVars
  <2> QED BY <1>3, <2>1, <2>3, SendUses DEF SendStep, queueVars
<1>4. CASE RemoveExpired(r)
  <2>1. /\ Pushing(r) /\ reading[r].at = "clean" /\ UNCHANGED <<copy, run, losses, published, shown>>
        /\ \A q \in Runs \ {r} : reading'[q] = reading[q]
        /\ reading' = [q \in Runs |-> reading'[q]]
    BY <1>4 DEF RemoveExpired, Keep, queueVars, SendTypes
  <2>2. reading'[r].at = "clean"
    BY <1>4 DEF RemoveExpired, Keep, SendTypes
  <2>3. SendTypes'
    BY <2>1 DEF SendTypes, Pushing, Part
  <2>4. ASSUME NEW m \in Messages PROVE Fewer(m)
    BY <2>1, <2>2, ReadingFewer
  <2> QED BY <2>1, <2>3, <2>4 DEF SendStep
<1>5. ReadSubscriptions(r) => UNCHANGED queueVars \/ (Fail(r) /\ UNCHANGED reading)
  BY DEF ReadSubscriptions
<1> QED BY <1>1, <1>2, <1>3, <1>4, <1>5

\* The end of an invocation (PushDone, SendMail, ack).
LEMMA AckSends ==
  ASSUME QueueInv, SendTypes, NEW r \in Runs, PushDone(r) \/ SendMail(r) \/ Acknowledge(r)
  PROVE  SendTypes' /\ SendStep
<1>1. ASSUME Finish(r) \/ AckRetried(r) \/ Nack(r), reading' = [reading EXCEPT ![r] = Outside],
             UNCHANGED shown
      PROVE  SendTypes' /\ SendStep
  <2>1. /\ UNCHANGED <<losses, published>>
        /\ \/ run' = [run EXCEPT ![r] = Idle] /\ \E place \in {"free", "dead"} : copy' = Settle(copy, r, place)
           \/ run[r].tag = NoSlot /\ run[r].stage = "handling" /\ run' = [run EXCEPT ![r].stage = "failed"]
    BY <1>1 DEF Finish, AckRetried, Nack
  <2>2. /\ reading' = [q \in Runs |-> reading'[q]] /\ reading'[r] = Outside
        /\ \A q \in Runs \ {r} : run'[q] = run[q] /\ reading'[q] = reading[q]
    BY <1>1, <2>1 DEF SendTypes, QueueInv, QueueTypeOK
  <2>3. SendTypes'
    BY <1>1, <2>2 DEF SendTypes, Pushing, Part
  <2>4. ASSUME losses = 0, NEW m \in Messages PROVE Fewer(m)
    <3>1. run' = [run EXCEPT ![r] = Idle] /\ \E place \in {"free", "dead"} : copy' = Settle(copy, r, place)
      BY <2>1, <2>4 DEF QueueInv, Holding
    <3> QED BY <1>1, <2>1, <3>1, EndsFewer
  <2> QED BY <2>1, <2>3, <2>4 DEF SendStep
<1>2. CASE PushDone(r)
  BY <1>1, <1>2 DEF PushDone
<1>3. ASSUME ~Pushing(r), UNCHANGED sendVars
      PROVE  reading[r] = Outside /\ reading' = [reading EXCEPT ![r] = Outside] /\ UNCHANGED <<reading, shown>>
  BY <1>3 DEF SendTypes, sendVars
<1>4. CASE SendMail(r)
  <2>1. ~Pushing(r) /\ UNCHANGED sendVars /\ (Finish(r) \/ Fail(r))
    BY <1>4 DEF SendMail, Pushing, Mailing
  <2>2. ASSUME Fail(r) PROVE SendTypes' /\ SendStep
    <3>1. SendTypes'
      BY <1>3, <2>1, <2>2 DEF SendTypes, Pushing, Part, Fail, QueueInv, QueueTypeOK
    <3>2. ASSUME NEW m \in Messages PROVE Fewer(m)
      BY <1>3, <2>1, <2>2, FailsFewer
    <3> QED BY <2>2, <3>1, <3>2 DEF SendStep, Fail
  <2> QED BY <1>1, <1>3, <2>1, <2>2
<1>5. CASE Acknowledge(r)
  <2>1. ~Pushing(r) /\ UNCHANGED sendVars /\ (PublishRetry(r) \/ AckRetried(r) \/ Nack(r))
    BY <1>5 DEF Acknowledge, Pushing, PublishRetry, AckRetried, Nack
  <2>2. ASSUME PublishRetry(r) PROVE SendTypes' /\ SendStep
    <3>1. SendTypes'
      BY <1>3, <2>1, <2>2 DEF SendTypes, Pushing, Part, PublishRetry, QueueInv, QueueTypeOK
    <3>2. ASSUME NEW m \in Messages PROVE Fewer(m) \/ Moved(m)
      BY <1>3, <2>1, <2>2, RetryMoves
    <3> QED BY <2>2, <3>1, <3>2 DEF SendStep, PublishRetry
  <2> QED BY <1>1, <1>3, <2>1, <2>2
<1> QED BY <1>2, <1>4, <1>5

\* The broker, and what is lost (Broker, Dies).
LEMMA BrokerSends ==
  ASSUME QueueInv, SendTypes, Broker \/ \E w \in Ids : Dies(w) PROVE SendTypes' /\ SendStep
<1> USE QueueConstants
<1>1. ASSUME NEW s \in Slots, TtlExpires(s), UNCHANGED sendVars PROVE SendTypes' /\ SendStep
  <2>1. /\ copy' = [copy EXCEPT ![s].at = "main"] /\ copy[s].at = "waiting"
        /\ UNCHANGED <<run, losses, published, reading, shown>> /\ copy \in [Slots -> Copies]
    BY <1>1 DEF TtlExpires, sendVars, QueueInv, QueueTypeOK
  <2>2. SendTypes'
    BY <2>1 DEF SendTypes, Pushing, Part
  <2>3. ASSUME NEW m \in Messages PROVE Fewer(m)
    <3>1. \A u \in Slots : Queued(u, m)' => Queued(u, m)
      BY <2>1 DEF Queued, Copies
    <3> QED BY <2>1, <3>1 DEF Fewer, Going, Unsent
  <2> QED BY <2>1, <2>2, <2>3 DEF SendStep
<1>2. ASSUME NEW s \in Slots, NEW r \in Runs, NEW w \in Ids, Deliver(s, r, w), UNCHANGED sendVars
      PROVE  SendTypes' /\ SendStep
  <2>1. /\ run[r] = Idle /\ \A q \in Runs \ {r} : run'[q] = run[q]
        /\ UNCHANGED <<losses, reading, shown>>
    BY <1>2 DEF Deliver, sendVars, QueueInv, QueueTypeOK
  <2>2. SendTypes'
    BY <2>1 DEF SendTypes, Pushing, Part, Idle
  <2> QED BY <1>2, <2>1, <2>2, DeliverMoves DEF SendStep
<1>3. ASSUME NEW w \in Ids, (Disconnect(w) /\ UNCHANGED sendVars) \/ Dies(w) PROVE SendTypes' /\ SendStep
  <2>1. losses' = losses + 1 /\ losses \in Nat
    BY <1>3 DEF Disconnect, Dies, ConsumerDies, QueueInv, QueueTypeOK
  <2>2. SendTypes'
    <3>1. CASE Disconnect(w) /\ UNCHANGED sendVars
      <4>1. \A r \in Runs : run[r].stage = "handling" =>
                              run'[r].stage = run[r].stage /\ run'[r].msg = run[r].msg
        BY <3>1 DEF Disconnect, QueueInv, QueueTypeOK, RunStates
      <4> QED BY <3>1, <4>1 DEF SendTypes, sendVars, Pushing, Part
    <3>2. CASE Dies(w)
      BY <3>2 DEF Dies, ConsumerDies, SendTypes, Pushing, Part
    <3> QED BY <1>3, <3>1, <3>2
  <2> QED BY <2>1, <2>2 DEF SendStep
<1> QED BY <1>1, <1>2, <1>3 DEF Broker

\* Every step.
LEMMA StepSends ==
  ASSUME QueueInv, JobInv, SendTypes, [Next]_vars PROVE SendTypes' /\ SendStep
<1>1. ASSUME NEW r \in Runs, Consume(r) PROVE SendTypes' /\ SendStep
  BY <1>1, PushSends, AckSends DEF Consume
<1>2. ASSUME UNCHANGED <<queueVars, sendVars>> PROVE SendTypes' /\ SendStep
  <2>1. UNCHANGED <<copy, run, losses, published, reading, shown>>
    BY <1>2 DEF queueVars, sendVars
  <2>2. SendTypes'
    BY <2>1 DEF SendTypes, Pushing, Part
  <2>3. ASSUME NEW m \in Messages PROVE Fewer(m)
    BY <2>1, ReadingFewer
  <2> QED BY <2>1, <2>2, <2>3 DEF SendStep
<1>3. ASSUME NEW d \in Devices, NEW u \in Users, SaveSubscription(d, u) \/ DeleteSubscription(d, u)
      PROVE  SendTypes' /\ SendStep
  BY <1>2, <1>3 DEF SaveSubscription, DeleteSubscription
<1>4. ASSUME NEW u \in Users, DeleteAllSubscriptionsForUser(u) PROVE SendTypes' /\ SendStep
  BY <1>2, <1>4 DEF DeleteAllSubscriptionsForUser
<1>5. ASSUME NEW d \in Devices, EndpointExpires(d) PROVE SendTypes' /\ SendStep
  BY <1>2, <1>5 DEF EndpointExpires
<1>6. CASE UNCHANGED vars
  BY <1>2, <1>6 DEF vars
<1> QED BY <1>1, <1>3, <1>4, <1>5, <1>6, NotifySends, BrokerSends DEF Next

SendInv == JobInv /\ QueueInv /\ SendTypes /\ OncePerMessage

\* However often a push is retried and whatever fails for other devices, a device shows it once
\* unless a connection or process was lost (web-push.service.ts, sendToUsers).
THEOREM ShowsOnce == Spec => []PushedOncePerDevice
<1>1. Init => SendInv
  <2> SUFFICES ASSUME Init PROVE SendInv
    OBVIOUS
  <2>1. SendTypes
    BY DEF Init, SendTypes
  <2>2. OncePerMessage
    BY DEF Init, QueueInit, OncePerMessage, OneChance, Going, Queued, Idle, Free
  <2> QED BY <2>1, <2>2, JobInitInv, QueueInitInv DEF SendInv, Init
<1>2. SendInv /\ [Next]_vars => SendInv'
  <2> SUFFICES ASSUME SendInv, [Next]_vars PROVE SendInv'
    OBVIOUS
  <2> USE DEF SendInv
  <2>1. JobInv'
    BY JobStepInv
  <2>2. QueueInv'
    BY StepOfQueue, QueueStepInv DEF JobInv, JobTypes
  <2>3. SendTypes' /\ SendStep
    BY StepSends
  <2>4. CASE losses' = 0
    <3>1. losses = 0 /\ \A m \in Messages : Fewer(m) \/ Moved(m) \/ Used(m)
      BY <2>3, <2>4 DEF SendStep
    <3>2. OncePerMessage'
      BY <3>1, ChanceKept
    <3> QED BY <2>1, <2>2, <2>3, <3>2
  <2>5. CASE losses' # 0
    <3>1. OncePerMessage'
      BY <2>5 DEF OncePerMessage
    <3> QED BY <2>1, <2>2, <2>3, <3>1
  <2> QED BY <2>4, <2>5
<1>3. SendInv => PushedOncePerDevice
  BY DEF SendInv, OncePerMessage, PushedOncePerDevice
<1> QED BY <1>1, <1>2, <1>3, PTL DEF Spec

-----------------------------------------------------------------------------
(* The AI chat of a socket.                                                   *)

AiSpec == AiInit /\ [][AiNext]_aiVars

AiTypes ==
  /\ session \in Seq(Nat) /\ expected \in Seq(Nat) /\ asked \in Nat
  /\ asking \in [Asks -> [turn : Nat, seen : Seq(Nat)]]

\* While requests come one after the other, the one under way has read the history as it is.
AiInv ==
  /\ AiTypes
  /\ Len(session) <= MaxTurns
  /\ ~overlapped => /\ session = LastOf(expected, MaxTurns)
                    /\ \A q \in UnderWay : asking[q].seen = session
                    /\ \A p, q \in UnderWay : p = q

\* The end of a list.
LEMMA LastOfType ==
  ASSUME NEW s \in Seq(Nat), NEW n \in Nat \ {0}
  PROVE  /\ LastOf(s, n) \in Seq(Nat)
         /\ Len(LastOf(s, n)) = IF Len(s) <= n THEN Len(s) ELSE n
         /\ \A i \in 1..Len(LastOf(s, n)) : LastOf(s, n)[i] = s[Len(s) - Len(LastOf(s, n)) + i]
<1>1. CASE Len(s) <= n
  <2>1. LastOf(s, n) = s
    BY <1>1 DEF LastOf
  <2> QED
    BY <1>1, <2>1
<1>2. CASE Len(s) > n
  <2> DEFINE a == Len(s) - n + 1
             t == SubSeq(s, a, Len(s))
  <2>1. LastOf(s, n) = t
    BY <1>2 DEF LastOf
  <2>2. a \in 1..Len(s) /\ Len(s) - a + 1 = n
    BY <1>2
  <2>3. t \in Seq(Nat) /\ Len(t) = n /\ \A i \in 1..n : t[i] = s[a + i - 1]
    <3>1. t \in Seq(Nat) /\ Len(t) = Len(s) - a + 1
      BY <2>2
    <3>2. \A i \in 1..(Len(s) - a + 1) : t[i] = s[a + i - 1]
      BY <2>2
    <3> QED
      BY <2>2, <3>1, <3>2
  <2>4. \A i \in 1..n : t[i] = s[Len(s) - n + i]
    BY <2>2, <2>3
  <2> HIDE DEF t
  <2>5. Len(LastOf(s, n)) = n /\ LastOf(s, n) \in Seq(Nat)
    BY <2>1, <2>3
  <2>6. \A i \in 1..n : LastOf(s, n)[i] = s[Len(s) - n + i]
    BY <2>1, <2>4
  <2> QED
    BY <1>2, <2>5, <2>6
<1>3. Len(s) <= n \/ Len(s) > n
  OBVIOUS
<1> QED
  BY <1>1, <1>2, <1>3, Zenon

\* A list with one more.
LEMMA Appended ==
  ASSUME NEW s \in Seq(Nat), NEW t \in Nat
  PROVE  /\ Append(s, t) \in Seq(Nat) /\ Len(Append(s, t)) = Len(s) + 1
         /\ \A i \in 1..Len(s) : Append(s, t)[i] = s[i]
         /\ Append(s, t)[Len(s) + 1] = t
OBVIOUS

\* Lists are the same if they have the same length and the same elements.
LEMMA SameList ==
  ASSUME NEW s \in Seq(Nat), NEW t \in Seq(Nat), Len(s) = Len(t),
         \A i \in 1..Len(s) : s[i] = t[i]
  PROVE  s = t
<1>1. s = [i \in 1..Len(s) |-> s[i]] /\ t = [i \in 1..Len(t) |-> t[i]]
  OBVIOUS
<1> QED
  BY <1>1

\* The last turns with one more are the last of all turns with one more.
LEMMA LastOfAppend ==
  ASSUME NEW s \in Seq(Nat), NEW n \in Nat \ {0}, NEW t \in Nat
  PROVE  LastOf(Append(LastOf(s, n), t), n) = LastOf(Append(s, t), n)
<1> DEFINE e == LastOf(s, n)
           x == Append(e, t)
           y == Append(s, t)
           l == LastOf(x, n)
           r == LastOf(y, n)
<1>1. /\ e \in Seq(Nat) /\ Len(e) = IF Len(s) <= n THEN Len(s) ELSE n
      /\ \A i \in 1..Len(e) : e[i] = s[Len(s) - Len(e) + i]
  BY LastOfType
<1> HIDE DEF e
<1>2. /\ x \in Seq(Nat) /\ Len(x) = Len(e) + 1
      /\ \A i \in 1..Len(e) : x[i] = e[i]
      /\ x[Len(e) + 1] = t
  BY <1>1, Appended
<1>3. /\ y \in Seq(Nat) /\ Len(y) = Len(s) + 1
      /\ \A i \in 1..Len(s) : y[i] = s[i]
      /\ y[Len(s) + 1] = t
  BY Appended
<1> HIDE DEF x, y
<1>4. /\ l \in Seq(Nat) /\ Len(l) = IF Len(x) <= n THEN Len(x) ELSE n
      /\ \A i \in 1..Len(l) : l[i] = x[Len(x) - Len(l) + i]
  BY <1>2, LastOfType
<1>5. /\ r \in Seq(Nat) /\ Len(r) = IF Len(y) <= n THEN Len(y) ELSE n
      /\ \A i \in 1..Len(r) : r[i] = y[Len(y) - Len(r) + i]
  BY <1>3, LastOfType
<1> HIDE DEF l, r
<1>6. Len(s) \in Nat /\ Len(e) \in Nat /\ Len(l) = Len(r) /\ Len(l) \in Nat
      /\ Len(l) <= Len(e) + 1 /\ Len(e) <= Len(s)
  <2>1. Len(s) \in Nat /\ Len(e) \in Nat /\ Len(l) \in Nat /\ Len(r) \in Nat
    BY <1>1, <1>4, <1>5
  <2>2. Len(e) = IF Len(s) <= n THEN Len(s) ELSE n
    BY <1>1
  <2>3. Len(l) = IF Len(e) + 1 <= n THEN Len(e) + 1 ELSE n
    BY <1>2, <1>4
  <2>4. Len(r) = IF Len(s) + 1 <= n THEN Len(s) + 1 ELSE n
    BY <1>3, <1>5
  <2> QED
    BY <2>1, <2>2, <2>3, <2>4
<1>7. ASSUME NEW i \in 1..Len(l) PROVE l[i] = r[i]
  <2> DEFINE k == Len(e) + 1 - Len(l) + i
             m == Len(s) + 1 - Len(r) + i
  <2>1. k \in 1..(Len(e) + 1) /\ m = Len(s) - Len(e) + k /\ m \in 1..(Len(s) + 1)
    BY <1>6
  <2>2. l[i] = x[k] /\ r[i] = y[m]
    <3>1. k = Len(x) - Len(l) + i /\ m = Len(y) - Len(r) + i
      BY <1>2, <1>3
    <3> QED
      BY <1>4, <1>5, <1>6, <3>1
  <2> HIDE DEF k, m
  <2>3. CASE k = Len(e) + 1
    <3>1. m = Len(s) + 1
      BY <1>6, <2>1, <2>3
    <3> QED
      BY <1>2, <1>3, <2>2, <2>3, <3>1
  <2>4. CASE k \in 1..Len(e)
    <3>1. m \in 1..Len(s)
      BY <1>6, <2>1, <2>4
    <3>2. e[k] = s[m]
      BY <1>1, <2>1, <2>4
    <3> QED
      BY <1>2, <1>3, <2>2, <2>4, <3>1, <3>2
  <2> QED
    BY <1>6, <2>1, <2>3, <2>4
<1>8. l = r
  BY <1>4, <1>5, <1>6, <1>7, SameList
<1> QED
  BY <1>8 DEF l, r, e, x, y

\* Who is under way after request q has begun, and after it has ended.
LEMMA AnswerKeepsAi ==
  ASSUME AiInv, NEW q \in Asks, Answer(q)
  PROVE  AiInv'
<1> DEFINE a == asking[q]
<1>1. /\ a \in [turn : Nat, seen : Seq(Nat)] /\ MaxTurns \in Nat \ {0}
      /\ session' = LastOf(Append(a.seen, a.turn), MaxTurns)
      /\ expected' = Append(expected, a.turn)
      /\ asking' = [asking EXCEPT ![q] = NotAsking]
      /\ UNCHANGED <<asked, overlapped>> /\ q \in UnderWay
  BY AssistantConstants DEF AiInv, AiTypes, Answer, UnderWay
<1>2. Append(a.seen, a.turn) \in Seq(Nat)
  BY <1>1
<1>3. session' \in Seq(Nat) /\ Len(session') <= MaxTurns
  <2> DEFINE s == Append(a.seen, a.turn)
  <2>1. s \in Seq(Nat)
    BY <1>2
  <2> HIDE DEF s
  <2>2. LastOf(s, MaxTurns) \in Seq(Nat) /\ Len(LastOf(s, MaxTurns)) <= MaxTurns
    BY <1>1, <2>1, LastOfType
  <2> QED
    BY <1>1, <2>2 DEF s
<1>4. AiTypes'
  BY <1>1, <1>3 DEF AiInv, AiTypes, NotAsking
<1>5. UnderWay' = UnderWay \ {q}
  BY <1>1 DEF UnderWay, AiInv, AiTypes
<1>6. ASSUME ~overlapped PROVE session' = LastOf(expected', MaxTurns) /\ UnderWay' = {}
  <2>1. a.seen = LastOf(expected, MaxTurns) /\ \A p \in UnderWay : p = q
    BY <1>1, <1>6 DEF AiInv
  <2>2. session' = LastOf(Append(LastOf(expected, MaxTurns), a.turn), MaxTurns)
    BY <1>1, <2>1
  <2>3. session' = LastOf(Append(expected, a.turn), MaxTurns)
    BY <1>1, <2>2, LastOfAppend DEF AiInv, AiTypes
  <2> QED
    BY <1>1, <1>5, <2>1, <2>3
<1> QED
  BY <1>1, <1>3, <1>4, <1>6 DEF AiInv

\* The history never outgrows its limit, and of requests that come one after the other it
\* keeps the last turns (handleAiChat).
THEOREM HistoryIsRecent == AiSpec => []SessionIsRecent
<1> USE AssistantConstants
<1>1. AiInit => AiInv
  <2> SUFFICES ASSUME AiInit PROVE AiInv
    OBVIOUS
  <2>1. LastOf(<< >>, MaxTurns) = << >>
    BY DEF LastOf
  <2> QED
    BY <2>1 DEF AiInit, AiInv, AiTypes, UnderWay, NotAsking
<1>2. AiInv /\ [AiNext]_aiVars => AiInv'
  <2> SUFFICES ASSUME AiInv, [AiNext]_aiVars PROVE AiInv'
    OBVIOUS
  <2>1. ASSUME NEW q \in Asks, Ask(q) PROVE AiInv'
    <3>1. asking' = [asking EXCEPT ![q] = [turn |-> asked + 1, seen |-> session]]
          /\ asked' = asked + 1 /\ UNCHANGED <<session, expected>>
          /\ overlapped' = (overlapped \/ UnderWay # {})
      BY <2>1 DEF Ask
    <3>2. AiTypes'
      BY <3>1 DEF AiInv, AiTypes
    <3>3. UnderWay' = UnderWay \cup {q} /\ asking'[q].seen = session
      BY <3>1 DEF UnderWay, NotAsking, AiInv, AiTypes
    <3>4. ~overlapped' => ~overlapped /\ UnderWay' = {q}
      BY <3>1, <3>3
    <3> QED
      BY <3>1, <3>2, <3>3, <3>4 DEF AiInv
  <2>2. ASSUME NEW q \in Asks, AnswerFails(q) PROVE AiInv'
    <3>1. asking' = [asking EXCEPT ![q] = NotAsking] /\ UNCHANGED <<session, expected, asked, overlapped>>
      BY <2>2 DEF AnswerFails
    <3>2. UnderWay' \subseteq UnderWay /\ \A p \in UnderWay' : asking'[p] = asking[p]
      BY <3>1 DEF UnderWay, AiInv, AiTypes
    <3>3. AiTypes'
      BY <3>1 DEF AiInv, AiTypes, NotAsking
    <3> QED
      BY <3>1, <3>2, <3>3 DEF AiInv
  <2>3. CASE HandleAiReset \/ HandleDisconnect
    <3>1. session' = << >> /\ expected' = << >> /\ UNCHANGED <<asking, asked>>
          /\ overlapped' = (overlapped \/ UnderWay # {})
      BY <2>3 DEF HandleAiReset, HandleDisconnect, Forget
    <3>2. UnderWay' = UnderWay
      BY <3>1 DEF UnderWay
    <3>3. AiTypes' /\ Len(session') <= MaxTurns
      <4>1. << >> \in Seq(Nat) /\ Len(<< >>) = 0
        OBVIOUS
      <4> QED
        BY <3>1, <4>1 DEF AiInv, AiTypes
    <3>4. LastOf(expected', MaxTurns) = << >>
      BY <3>1 DEF LastOf
    <3> QED
      BY <3>1, <3>2, <3>3, <3>4 DEF AiInv
  <2>4. CASE UNCHANGED aiVars
    BY <2>4 DEF aiVars, AiInv, AiTypes, UnderWay
  <2> QED
    BY <2>1, <2>2, <2>3, <2>4, AnswerKeepsAi DEF AiNext
<1>3. AiInv => SessionIsRecent
  BY DEF AiInv, SessionIsRecent
<1> QED
  BY <1>1, <1>2, <1>3, PTL DEF AiSpec

-----------------------------------------------------------------------------
(* The conversations of a store.                                              *)

ConvSpec == ConvInit /\ [][ConvNext]_convVars

ConvTypes == ConvTypeOK /\ IsFiniteSet(linked)

\* Nobody commits while an older message of the conversation is not committed.
OlderFirst ==
  /\ \A h \in Handlers : /\ ~handler[h].overtaken
                         /\ handler[h].before \subseteq SharedBy(h)
                         /\ ~At(h, "update") => handler[h].before = {}
  /\ \A c \in Convs : preview[c]

\* Topic t was created for c, in a group the store has been linked to.
Owns(c, t) == \E g \in linked : madeFor[g][t] = c

\* What a handler remembers of the group and of the topic was true once.
Remembers(r) ==
  /\ r.group \in linked \cup {NoGroup}
  /\ r.topic # NoTopic => r.conv \in Convs /\ Owns(r.conv, r.topic)
  /\ r.pc # "free" => r.conv \in opened
  /\ r.pc \in {"create", "save", "key", "publish"} => r.group # NoGroup
  /\ r.pc \in {"save", "key", "publish"} => r.topic # NoTopic

TopicsKnown ==
  /\ group \in linked \cup {NoGroup}
  /\ \A g \in Groups, t \in TopicIds :
       /\ madeFor[g][t] # NoConv => g \in linked /\ madeFor[g][t] \in opened
       /\ key[g][t] # NoConv => key[g][t] \in opened
  /\ \A c \in Convs : topic[c] # NoTopic => Owns(c, topic[c])
  /\ \A h \in Handlers : Remembers(handler[h])

\* As long as there has been one group, a key names the conversation of its topic.
OneGroup ==
  Cardinality(linked) <= 1 =>
    /\ ~crossed
    /\ \A g \in Groups, t \in TopicIds :
         /\ key[g][t] # NoConv => key[g][t] = madeFor[g][t]
         /\ <<g, t>> \in forwarded => madeFor[g][t] # NoConv

ConvInv == ConvTypes /\ OlderFirst /\ TopicsKnown /\ OneGroup

\* One group is one group.
LEMMA SameGroup ==
  ASSUME IsFiniteSet(linked), Cardinality(linked) <= 1, NEW g \in linked, NEW f \in linked
  PROVE  f = g
<1>1. Cardinality(linked) \in Nat /\ linked # {}
  BY FS_CardinalityType
<1>2. Cardinality(linked) = 1
  BY <1>1, FS_EmptySet
<1>3. PICK x : linked = {x}
  BY <1>2, FS_Singleton
<1> QED
  BY <1>3

\* In that group, who owns a topic is whom it was created for.
LEMMA OwnerOf ==
  ASSUME ConvTypes, Cardinality(linked) <= 1, NEW g \in linked, NEW c, NEW t, Owns(c, t)
  PROVE  madeFor[g][t] = c
BY SameGroup DEF Owns, ConvTypes

\* When a handler goes on, and its open transaction, if it had one, is over.
LEMMA OlderStay ==
  ASSUME ConvTypes, OlderFirst, NEW h \in Handlers, handler' \in [Handlers -> Handling],
         \A k \in Handlers \ {h} :
            /\ handler'[k].pc = handler[k].pc /\ handler'[k].conv = handler[k].conv
            /\ ~handler'[k].overtaken /\ handler'[k].before \subseteq handler[k].before,
         ~handler'[h].overtaken, handler'[h].before = {},
         At(h, "update") => \A k \in Handlers : h \notin handler'[k].before,
         \A c \in Convs : preview'[c]
  PROVE  OlderFirst'
<1>1. ASSUME NEW k \in Handlers, NEW j \in handler'[k].before
      PROVE  /\ j \in Handlers \ {k} /\ handler'[j].pc = "update"
             /\ handler'[j].conv = handler'[k].conv /\ handler'[k].pc = "update"
  <2>1. k # h /\ j \in handler[k].before
    BY <1>1
  <2>2. j \in SharedBy(k) /\ At(k, "update")
    BY <2>1 DEF OlderFirst
  <2>3. j # h
    BY <1>1, <2>2 DEF SharedBy, Inserted
  <2> QED
    BY <2>1, <2>2, <2>3 DEF SharedBy, Inserted, At
<1>2. \A k \in Handlers : ~handler'[k].overtaken
  OBVIOUS
<1>3. \A k \in Handlers : handler'[k].before \subseteq SharedBy(k)'
  BY <1>1 DEF SharedBy, Inserted, At
<1>4. \A k \in Handlers : ~At(k, "update")' => handler'[k].before = {}
  BY <1>1 DEF At
<1> QED
  BY <1>2, <1>3, <1>4 DEF OlderFirst

\* Groups, topics and conversations are only added.
LEMMA OwnersStay ==
  ASSUME linked \subseteq linked', opened \subseteq opened',
         \A g \in linked, t \in TopicIds : madeFor[g][t] # NoConv => madeFor'[g][t] = madeFor[g][t]
  PROVE  /\ \A c \in Convs, t \in TopicIds : Owns(c, t) => Owns(c, t)'
         /\ \A r \in Handling : Remembers(r) => Remembers(r)'
<1> USE ConversationConstants
<1>1. ASSUME NEW c \in Convs, NEW t \in TopicIds, Owns(c, t) PROVE Owns(c, t)'
  <2>1. PICK g \in linked : madeFor[g][t] = c
    BY <1>1 DEF Owns
  <2>2. madeFor'[g][t] = c
    BY <2>1
  <2> QED
    BY <2>2 DEF Owns
<1>2. ASSUME NEW r \in Handling, Remembers(r) PROVE Remembers(r)'
  <2>1. r.topic # NoTopic => Owns(r.conv, r.topic)'
    BY <1>1, <1>2 DEF Remembers, Handling
  <2> QED
    BY <1>2, <2>1 DEF Remembers
<1> QED
  BY <1>1, <1>2

\* A handler outside a transaction goes on, or ends, with r.
LEMMA GoesOn ==
  ASSUME ConvInv, NEW h \in Handlers, ~At(h, "update"),
         NEW r \in Handling, Remembers(r), r.before = {}, ~r.overtaken,
         handler' = [handler EXCEPT ![h] = r],
         UNCHANGED <<opened, preview, group, linked, madeFor>>
  PROVE  /\ handler' \in [Handlers -> Handling] /\ OlderFirst'
         /\ group \in linked' \cup {NoGroup}
         /\ \A k \in Handlers : Remembers(handler[k])'
<1>1. /\ ConvTypes /\ OlderFirst /\ handler \in [Handlers -> Handling]
      /\ handler'[h] = r /\ \A k \in Handlers \ {h} : handler'[k] = handler[k]
      /\ handler' \in [Handlers -> Handling]
  BY DEF ConvInv, ConvTypes, ConvTypeOK
<1>2. OlderFirst'
  BY <1>1, OlderStay DEF OlderFirst
<1>3. \A k \in Handlers : Remembers(handler[k])'
  <2>1. \A q \in Handling : Remembers(q) => Remembers(q)'
    BY OwnersStay
  <2>2. \A k \in Handlers : Remembers(handler[k])
    BY DEF ConvInv, TopicsKnown
  <2>3. \A k \in Handlers : Remembers(handler[k])'
    BY <1>1, <2>1, <2>2 DEF Remembers, Owns
  <2> QED
    BY <2>3
<1> QED
  BY <1>1, <1>2, <1>3 DEF ConvInv, TopicsKnown

\* A message has been received (processMessage, processStaffMessage).
LEMMA ReceiveKeeps ==
  ASSUME ConvInv, NEW h \in Handlers, NEW c \in Convs, Receive(h, c)
  PROVE  ConvInv'
<1> USE ConversationConstants
<1> DEFINE r == [FreeHandler EXCEPT !.pc = "insert", !.conv = c, !.group = group, !.topic = topic[c]]
<1>1. /\ handler[h].pc = "free" /\ c \in opened /\ handler' = [handler EXCEPT ![h] = r]
      /\ UNCHANGED <<opened, topic, preview, group, linked, key, madeFor, forwarded, crossed>>
  BY DEF Receive, At, threads, storeVars, ghosts
<1>2. /\ r.pc = "insert" /\ r.conv = c /\ r.group = group /\ r.topic = topic[c]
      /\ r.before = {} /\ ~r.overtaken
  BY DEF FreeHandler
<1>3. r \in Handling
  BY DEF FreeHandler, Handling, ConvInv, ConvTypes, ConvTypeOK
<1> HIDE DEF r
<1>4. Remembers(r)
  BY <1>1, <1>2 DEF Remembers, ConvInv, TopicsKnown
<1>5. /\ handler' \in [Handlers -> Handling] /\ OlderFirst'
      /\ \A k \in Handlers : Remembers(handler[k])'
  BY <1>1, <1>2, <1>3, <1>4, GoesOn DEF At
<1>6. ConvTypes'
  BY <1>1, <1>5 DEF ConvInv, ConvTypes, ConvTypeOK
<1>7. TopicsKnown'
  BY <1>1, <1>5 DEF ConvInv, TopicsKnown, Owns
<1>8. OneGroup'
  BY <1>1 DEF ConvInv, OneGroup
<1> QED
  BY <1>5, <1>6, <1>7, <1>8 DEF ConvInv

\* An answer in a topic has been received (handleGroupTopicReply).
LEMMA ReplyKeeps ==
  ASSUME ConvInv, NEW h \in Handlers, NEW g \in Groups, NEW t \in TopicIds, ReceiveReply(h, g, t)
  PROVE  ConvInv'
<1> USE ConversationConstants
<1>1. /\ handler[h].pc = "free" /\ madeFor[g][t] # NoConv
      /\ UNCHANGED <<opened, topic, preview, group, linked, madeFor, forwarded>>
  BY DEF ReceiveReply, At, threads, storeVars
<1>2. ConvTypeOK /\ ConvTypes /\ TopicsKnown
  BY DEF ConvInv, ConvTypes
<1>3. CASE UNCHANGED <<key, handler, crossed>>
  BY <1>1, <1>3 DEF ConvInv, ConvTypes, ConvTypeOK, OlderFirst, TopicsKnown, OneGroup, SharedBy,
                    Inserted, At, Remembers, Owns
<1>4. ASSUME NEW c \in Named(g, t),
             key' = [key EXCEPT ![g][t] = c],
             handler' = [handler EXCEPT ![h] = [FreeHandler EXCEPT !.pc = "insert", !.conv = c, !.reply = TRUE]],
             crossed' = (crossed \/ c # madeFor[g][t])
      PROVE  ConvInv'
  <2> DEFINE r == [FreeHandler EXCEPT !.pc = "insert", !.conv = c, !.reply = TRUE]
  <2>1. c \in opened /\ c \in Convs
    BY <1>2, <1>4 DEF Named, TopicsKnown, ConvTypeOK
  <2>2. /\ r.pc = "insert" /\ r.conv = c /\ r.group = NoGroup /\ r.topic = NoTopic
        /\ r.before = {} /\ ~r.overtaken
    BY DEF FreeHandler
  <2>3. r \in Handling
    BY <2>1 DEF FreeHandler, Handling
  <2>4. handler' = [handler EXCEPT ![h] = r]
    BY <1>4
  <2> HIDE DEF r
  <2>5. Remembers(r)
    BY <2>1, <2>2 DEF Remembers
  <2>6. /\ handler' \in [Handlers -> Handling] /\ OlderFirst'
        /\ \A k \in Handlers : Remembers(handler[k])'
    BY <1>1, <2>2, <2>3, <2>4, <2>5, GoesOn DEF At
  <2>7. /\ key \in [Groups -> [TopicIds -> Convs \cup {NoConv}]]
        /\ \A f \in Groups, u \in TopicIds :
             key'[f][u] = IF f = g /\ u = t THEN c ELSE key[f][u]
        /\ key' \in [Groups -> [TopicIds -> Convs \cup {NoConv}]]
    BY <1>2, <1>4, <2>1 DEF ConvTypeOK
  <2>8. ConvTypes'
    BY <1>1, <1>2, <1>4, <2>6, <2>7 DEF ConvTypes, ConvTypeOK
  <2>9. TopicsKnown'
    BY <1>1, <1>2, <2>1, <2>6, <2>7 DEF TopicsKnown, Owns
  <2>10. ASSUME Cardinality(linked) <= 1 PROVE c = madeFor[g][t]
    <3>1. CASE key[g][t] # NoConv
      BY <2>10, <1>4, <3>1 DEF Named, ConvInv, OneGroup
    <3>2. CASE key[g][t] = NoConv
      <4>1. topic[c] = t /\ group = g
        BY <1>4, <3>2 DEF Named
      <4>2. Owns(c, t) /\ g \in linked
        BY <1>2, <2>1, <4>1 DEF TopicsKnown, TopicIds, NoTopic
      <4> QED
        BY <1>2, <2>10, <4>2, OwnerOf
    <3> QED
      BY <3>1, <3>2
  <2>11. OneGroup'
    BY <1>1, <1>4, <2>7, <2>10 DEF ConvInv, OneGroup
  <2> QED
    BY <2>6, <2>8, <2>9, <2>11 DEF ConvInv
<1>5. \/ \E c \in Named(g, t) :
           /\ key' = [key EXCEPT ![g][t] = c]
           /\ handler' = [handler EXCEPT ![h] = [FreeHandler EXCEPT !.pc = "insert", !.conv = c, !.reply = TRUE]]
           /\ crossed' = (crossed \/ c # madeFor[g][t])
      \/ UNCHANGED <<key, handler, crossed>>
  BY DEF ReceiveReply
<1> QED
  BY <1>3, <1>4, <1>5

\* The message is inserted: older are those that are inserted and not committed (message.create).
LEMMA InsertKeeps ==
  ASSUME ConvInv, NEW h \in Handlers, InsertMessage(h)
  PROVE  ConvInv'
<1> USE ConversationConstants
<1>1. /\ handler[h].pc = "insert" /\ handler \in [Handlers -> Handling]
      /\ handler' = [handler EXCEPT ![h].pc = "update", ![h].before = Inserted(handler[h].conv)]
      /\ UNCHANGED <<opened, topic, preview, group, linked, key, madeFor, forwarded, crossed>>
  BY DEF InsertMessage, At, threads, storeVars, ghosts, ConvInv, ConvTypes, ConvTypeOK
<1>2. /\ handler'[h] = [handler[h] EXCEPT !.pc = "update", !.before = Inserted(handler[h].conv)]
      /\ \A k \in Handlers \ {h} : handler'[k] = handler[k]
  BY <1>1
<1>3. /\ handler'[h].pc = "update" /\ handler'[h].conv = handler[h].conv
      /\ handler'[h].group = handler[h].group /\ handler'[h].topic = handler[h].topic
      /\ handler'[h].overtaken = handler[h].overtaken
      /\ handler'[h].before = Inserted(handler[h].conv)
      /\ handler'[h] \in Handling
  <2> DEFINE r == handler[h]
             b == Inserted(r.conv)
  <2>1. r \in Handling /\ b \in SUBSET Handlers /\ handler'[h] = [r EXCEPT !.pc = "update", !.before = b]
    BY <1>1, <1>2 DEF Inserted
  <2> HIDE DEF r, b
  <2>2. /\ handler'[h].pc = "update" /\ handler'[h].conv = r.conv
        /\ handler'[h].group = r.group /\ handler'[h].topic = r.topic
        /\ handler'[h].overtaken = r.overtaken /\ handler'[h].before = b
        /\ handler'[h] \in Handling
    BY <2>1 DEF Handling
  <2> QED
    BY <2>2 DEF r, b
<1>4. handler' \in [Handlers -> Handling]
  BY <1>1, <1>3
<1>5. ConvTypes'
  BY <1>1, <1>4 DEF ConvInv, ConvTypes, ConvTypeOK
<1>6. OlderFirst'
  <2>1. OlderFirst
    BY DEF ConvInv
  <2>2. \A k \in Handlers : ~handler'[k].overtaken
    BY <1>2, <1>3, <2>1 DEF OlderFirst
  <2>3. handler'[h].before \subseteq SharedBy(h)'
    BY <1>1, <1>2, <1>3 DEF SharedBy, Inserted, At
  <2>4. ASSUME NEW k \in Handlers \ {h} PROVE handler'[k].before \subseteq SharedBy(k)'
    <3>1. handler[k].before \subseteq SharedBy(k)
      BY <2>1 DEF OlderFirst
    <3> QED
      BY <1>1, <1>2, <1>3, <3>1 DEF SharedBy, Inserted, At
  <2>5. \A k \in Handlers : ~At(k, "update")' => handler'[k].before = {}
    BY <1>2, <1>3, <2>1 DEF OlderFirst, At
  <2> QED
    BY <1>1, <2>1, <2>2, <2>3, <2>4, <2>5 DEF OlderFirst
<1>7. \A k \in Handlers : Remembers(handler[k])'
  BY <1>1, <1>2, <1>3 DEF ConvInv, TopicsKnown, Remembers, Owns
<1>8. TopicsKnown'
  BY <1>1, <1>7 DEF ConvInv, TopicsKnown, Owns
<1>9. OneGroup'
  BY <1>1 DEF ConvInv, OneGroup
<1> QED
  BY <1>5, <1>6, <1>8, <1>9 DEF ConvInv

\* The transaction commits, alone on its row (conversation.update).
LEMMA CommitKeeps ==
  ASSUME ConvInv, NEW h \in Handlers, CommitMessage(h)
  PROVE  ConvInv'
<1> USE ConversationConstants
<1> DEFINE r == handler[h]
<1>1. /\ r.pc = "update" /\ SharedBy(h) = {} /\ handler \in [Handlers -> Handling]
      /\ preview' = [preview EXCEPT ![r.conv] = ~r.overtaken] /\ handler' = AfterCommit(h)
      /\ UNCHANGED <<opened, topic, group, linked, key, madeFor, forwarded, crossed>>
  BY DEF CommitMessage, At, threads, storeVars, ghosts, ConvInv, ConvTypes, ConvTypeOK
<1>2. r.before = {} /\ ~r.overtaken /\ OlderFirst
  BY <1>1 DEF ConvInv, OlderFirst
<1>3. \A k \in Handlers \ {h} :
        handler'[k] = [handler[k] EXCEPT !.overtaken = handler[k].overtaken \/ k \in r.before,
                                         !.before = handler[k].before \ {h}]
  BY <1>1 DEF AfterCommit
<1>4. \A k \in Handlers \ {h} :
        /\ handler'[k].pc = handler[k].pc /\ handler'[k].conv = handler[k].conv
        /\ handler'[k].group = handler[k].group /\ handler'[k].topic = handler[k].topic
        /\ ~handler'[k].overtaken /\ handler'[k].before = handler[k].before \ {h}
        /\ handler'[k] \in Handling
  <2> SUFFICES ASSUME NEW k \in Handlers \ {h}
               PROVE  /\ handler'[k].pc = handler[k].pc /\ handler'[k].conv = handler[k].conv
                      /\ handler'[k].group = handler[k].group /\ handler'[k].topic = handler[k].topic
                      /\ ~handler'[k].overtaken /\ handler'[k].before = handler[k].before \ {h}
                      /\ handler'[k] \in Handling
    OBVIOUS
  <2> DEFINE q == handler[k]
             b == q.before \ {h}
  <2>1. q \in Handling /\ ~q.overtaken
    BY <1>1, <1>2 DEF OlderFirst
  <2>2. handler'[k] = [q EXCEPT !.overtaken = FALSE, !.before = b]
    <3>1. (q.overtaken \/ k \in r.before) = FALSE
      BY <1>2, <2>1
    <3> QED
      BY <1>3, <3>1
  <2>3. b \in SUBSET Handlers
    BY <2>1 DEF Handling
  <2> HIDE DEF q, b
  <2>4. /\ handler'[k].pc = q.pc /\ handler'[k].conv = q.conv
        /\ handler'[k].group = q.group /\ handler'[k].topic = q.topic
        /\ ~handler'[k].overtaken /\ handler'[k].before = b
        /\ handler'[k] \in Handling
    BY <2>1, <2>2, <2>3 DEF Handling
  <2> QED
    BY <2>4 DEF q, b
<1>5. \/ handler'[h] = FreeHandler
      \/ /\ r.group # NoGroup
         /\ handler'[h] = [r EXCEPT !.pc = IF r.topic = NoTopic THEN "create" ELSE "key",
                                    !.before = {}, !.overtaken = FALSE]
  BY <1>1 DEF AfterCommit
<1>6. handler'[h] \in Handling /\ ~handler'[h].overtaken /\ handler'[h].before = {}
  <2>1. FreeHandler \in Handling /\ ~FreeHandler.overtaken /\ FreeHandler.before = {}
    BY DEF FreeHandler, Handling
  <2> QED
    BY <1>1, <1>5, <2>1 DEF Handling
<1>7. handler' \in [Handlers -> Handling]
  BY <1>1, <1>4, <1>6 DEF AfterCommit
<1>8. preview' \in [Convs -> BOOLEAN] /\ \A c \in Convs : preview'[c]
  BY <1>1, <1>2 DEF OlderFirst, ConvInv, ConvTypes, ConvTypeOK
<1>9. ConvTypes'
  BY <1>1, <1>7, <1>8 DEF ConvInv, ConvTypes, ConvTypeOK
<1>10. OlderFirst'
  <2>1. \A k \in Handlers : h \notin handler'[k].before
    BY <1>4, <1>6
  <2> QED
    BY <1>2, <1>4, <1>6, <1>7, <1>8, <2>1, OlderStay DEF ConvInv
<1>11. \A k \in Handlers : Remembers(handler[k])
  BY DEF ConvInv, TopicsKnown
<1>12. Remembers(handler[h])'
  <2>1. CASE handler'[h] = FreeHandler
    BY <2>1 DEF Remembers, FreeHandler
  <2>2. CASE /\ r.group # NoGroup
             /\ handler'[h] = [r EXCEPT !.pc = IF r.topic = NoTopic THEN "create" ELSE "key",
                                        !.before = {}, !.overtaken = FALSE]
    <3>1. /\ handler'[h].group = r.group /\ handler'[h].topic = r.topic /\ handler'[h].conv = r.conv
          /\ handler'[h].pc = IF r.topic = NoTopic THEN "create" ELSE "key"
      BY <1>1, <2>2 DEF Handling
    <3> QED
      BY <1>1, <1>11, <2>2, <3>1 DEF Remembers, Owns
  <2> QED
    BY <1>5, <2>1, <2>2
<1>13. \A k \in Handlers \ {h} : Remembers(handler[k])'
  BY <1>1, <1>4, <1>11 DEF Remembers, Owns
<1>14. TopicsKnown'
  BY <1>1, <1>12, <1>13 DEF ConvInv, TopicsKnown, Owns
<1>15. OneGroup'
  BY <1>1 DEF ConvInv, OneGroup
<1> QED
  BY <1>9, <1>10, <1>14, <1>15 DEF ConvInv

\* An error, a victim or the end of the process: the transaction is rolled back.
LEMMA StopKeeps ==
  ASSUME ConvInv, NEW h \in Handlers, StopHandler(h)
  PROVE  ConvInv'
<1> USE ConversationConstants
<1>1. /\ handler' = [k \in Handlers |-> IF k = h THEN FreeHandler ELSE [handler[k] EXCEPT !.before = @ \ {h}]]
      /\ UNCHANGED <<opened, topic, preview, group, linked, key, madeFor, forwarded, crossed>>
      /\ handler \in [Handlers -> Handling] /\ OlderFirst
  BY DEF StopHandler, threads, storeVars, ghosts, ConvInv, ConvTypes, ConvTypeOK
<1>2. FreeHandler \in Handling /\ ~FreeHandler.overtaken /\ FreeHandler.before = {} /\ handler'[h] = FreeHandler
  BY <1>1 DEF FreeHandler, Handling
<1>3. ASSUME NEW k \in Handlers \ {h}
      PROVE  /\ handler'[k].pc = handler[k].pc /\ handler'[k].conv = handler[k].conv
             /\ handler'[k].group = handler[k].group /\ handler'[k].topic = handler[k].topic
             /\ ~handler'[k].overtaken /\ handler'[k].before = handler[k].before \ {h}
             /\ handler'[k] \in Handling
  <2> DEFINE q == handler[k]
             b == q.before \ {h}
  <2>1. q \in Handling /\ ~q.overtaken /\ handler'[k] = [q EXCEPT !.before = b]
    BY <1>1 DEF OlderFirst
  <2>2. b \in SUBSET Handlers
    BY <2>1 DEF Handling
  <2> HIDE DEF q, b
  <2>3. /\ handler'[k].pc = q.pc /\ handler'[k].conv = q.conv
        /\ handler'[k].group = q.group /\ handler'[k].topic = q.topic
        /\ ~handler'[k].overtaken /\ handler'[k].before = b
        /\ handler'[k] \in Handling
    BY <2>1, <2>2 DEF Handling
  <2> QED
    BY <2>3 DEF q, b
<1>4. handler' \in [Handlers -> Handling]
  BY <1>1, <1>2, <1>3
<1>5. OlderFirst'
  <2>1. \A k \in Handlers : h \notin handler'[k].before
    BY <1>2, <1>3
  <2> QED
    BY <1>1, <1>2, <1>3, <1>4, <2>1, OlderStay DEF ConvInv, OlderFirst
<1>6. ConvTypes'
  BY <1>1, <1>4 DEF ConvInv, ConvTypes, ConvTypeOK
<1>7. Remembers(handler[h])'
  BY <1>2 DEF Remembers, FreeHandler
<1>8. ASSUME NEW k \in Handlers \ {h} PROVE Remembers(handler[k])'
  <2>1. Remembers(handler[k])
    BY DEF ConvInv, TopicsKnown
  <2>2. UNCHANGED <<opened, linked, madeFor>>
    BY <1>1
  <2>3. /\ handler'[k].pc = handler[k].pc /\ handler'[k].conv = handler[k].conv
        /\ handler'[k].group = handler[k].group /\ handler'[k].topic = handler[k].topic
    BY <1>3
  <2> QED
    BY <2>1, <2>2, <2>3 DEF Remembers, Owns
<1>9. TopicsKnown'
  BY <1>1, <1>7, <1>8 DEF ConvInv, TopicsKnown, Owns
<1>10. OneGroup'
  BY <1>1 DEF ConvInv, OneGroup
<1> QED
  BY <1>5, <1>6, <1>9, <1>10 DEF ConvInv

\* The first message's topic is created in the group of the store, or there is none
\* (createGroupTopic).
LEMMA CreateKeeps ==
  ASSUME ConvInv, NEW h \in Handlers, CreateTopic(h)
  PROVE  ConvInv'
<1> USE ConversationConstants
<1> DEFINE g == handler[h].group
           c == handler[h].conv
<1>1. /\ handler[h].pc = "create" /\ handler[h] \in Handling /\ handler \in [Handlers -> Handling]
      /\ UNCHANGED <<opened, topic, preview, group, linked, key, forwarded, crossed>>
      /\ ConvTypes /\ ConvTypeOK /\ TopicsKnown /\ OlderFirst
  BY DEF CreateTopic, At, threads, storeVars, ConvInv, ConvTypes, ConvTypeOK
<1>2. Remembers(handler[h]) /\ handler[h].before = {} /\ ~handler[h].overtaken
  BY <1>1 DEF TopicsKnown, OlderFirst, At
<1>3. g \in linked /\ g \in Groups /\ c \in opened /\ c \in Convs
  BY <1>1, <1>2 DEF Remembers, ConvTypeOK
<1>4. CASE Ends(h) /\ UNCHANGED madeFor
  <2>1. FreeHandler \in Handling /\ ~FreeHandler.overtaken /\ FreeHandler.before = {}
    BY DEF FreeHandler, Handling
  <2>2. Remembers(FreeHandler)
    BY DEF FreeHandler, Remembers
  <2>3. /\ handler' \in [Handlers -> Handling] /\ OlderFirst'
        /\ \A k \in Handlers : Remembers(handler[k])'
    BY <1>1, <1>4, <2>1, <2>2, GoesOn DEF Ends, At
  <2>4. ConvTypes'
    BY <1>1, <1>4, <2>3 DEF ConvTypes, ConvTypeOK
  <2>5. TopicsKnown'
    BY <1>1, <1>4, <2>3 DEF TopicsKnown, Owns
  <2>6. OneGroup'
    BY <1>1, <1>4 DEF ConvInv, OneGroup
  <2> QED
    BY <2>3, <2>4, <2>5, <2>6 DEF ConvInv
<1>5. ASSUME NEW t \in TopicIds, madeFor[g][t] = NoConv,
             madeFor' = [madeFor EXCEPT ![g][t] = c],
             handler' = [handler EXCEPT ![h].pc = "save", ![h].topic = t]
      PROVE  ConvInv'
  <2>1. /\ \A f \in Groups, u \in TopicIds :
             madeFor'[f][u] = IF f = g /\ u = t THEN c ELSE madeFor[f][u]
        /\ madeFor' \in [Groups -> [TopicIds -> Convs \cup {NoConv}]]
    BY <1>1, <1>3, <1>5 DEF ConvTypeOK
  <2>2. t # NoTopic
    BY DEF TopicIds, NoTopic
  <2> HIDE DEF g, c
  <2>3. /\ handler'[h].pc = "save" /\ handler'[h].conv = c /\ handler'[h].group = g
        /\ handler'[h].topic = t /\ handler'[h].before = {} /\ ~handler'[h].overtaken
        /\ handler'[h] \in Handling
    <3> DEFINE r == handler[h]
    <3>1. r \in Handling /\ handler'[h] = [r EXCEPT !.pc = "save", !.topic = t] /\ r.conv = c /\ r.group = g
          /\ r.before = {} /\ ~r.overtaken
      BY <1>1, <1>2, <1>5 DEF g, c
    <3> HIDE DEF r
    <3> QED
      BY <3>1 DEF Handling
  <2>4. \A k \in Handlers \ {h} : handler'[k] = handler[k]
    BY <1>1, <1>5
  <2>5. handler' \in [Handlers -> Handling]
    BY <1>1, <1>5, <2>3
  <2>6. OlderFirst'
    BY <1>1, <2>3, <2>4, <2>5, OlderStay DEF OlderFirst, At
  <2>7. ConvTypes'
    BY <1>1, <2>1, <2>5 DEF ConvTypes, ConvTypeOK
  <2>8. \A f \in linked, u \in TopicIds : madeFor[f][u] # NoConv => madeFor'[f][u] = madeFor[f][u]
    BY <1>1, <1>5, <2>1 DEF ConvTypeOK
  <2>9. /\ \A b \in Convs, u \in TopicIds : Owns(b, u) => Owns(b, u)'
        /\ \A r \in Handling : Remembers(r) => Remembers(r)'
    BY <1>1, <2>8, OwnersStay
  <2>10. Remembers(handler[h])'
    <3>1. \E f \in linked' : madeFor'[f][handler'[h].topic] = handler'[h].conv
      BY <1>1, <1>3, <2>1, <2>3
    <3>2. handler'[h].conv \in opened' /\ handler'[h].conv \in Convs /\ handler'[h].group \in linked'
      BY <1>1, <1>3, <2>3
    <3>3. handler'[h].group # NoGroup
      BY <1>3, <2>3
    <3>4. handler'[h].topic # NoTopic
      BY <2>2, <2>3
    <3> QED
      BY <3>1, <3>2, <3>3, <3>4 DEF Remembers, Owns
  <2>11. \A k \in Handlers \ {h} : Remembers(handler[k])'
    <3> SUFFICES ASSUME NEW k \in Handlers \ {h} PROVE Remembers(handler[k])'
      OBVIOUS
    <3>1. Remembers(handler[k]) /\ handler[k] \in Handling
      BY <1>1 DEF TopicsKnown
    <3> QED
      BY <2>4, <2>9, <3>1 DEF Remembers, Owns
  <2>12. \A b \in Convs : topic[b] # NoTopic => Owns(b, topic[b])'
    BY <1>1, <2>9 DEF TopicsKnown, ConvTypeOK
  <2>13. TopicsKnown'
    <3>1. \A f \in Groups, u \in TopicIds :
            /\ madeFor'[f][u] # NoConv => f \in linked /\ madeFor'[f][u] \in opened
            /\ key[f][u] # NoConv => key[f][u] \in opened
      BY <1>1, <1>3, <2>1 DEF TopicsKnown
    <3>2. \A b \in Convs : topic'[b] # NoTopic => Owns(b, topic[b])'
      BY <1>1, <2>12
    <3> QED
      BY <1>1, <2>10, <2>11, <3>1, <3>2 DEF TopicsKnown, Owns
  <2>14. OneGroup'
    BY <1>1, <1>3, <1>5, <2>1 DEF ConvInv, OneGroup, ConvTypeOK
  <2> QED
    BY <2>6, <2>7, <2>13, <2>14 DEF ConvInv
<1> QED
  BY <1>4, <1>5 DEF CreateTopic

\* The topic is saved with its conversation (conversation.update).
LEMMA SaveKeeps ==
  ASSUME ConvInv, NEW h \in Handlers, SaveTopic(h)
  PROVE  ConvInv'
<1> USE ConversationConstants
<1> DEFINE r == handler[h]
           q == [r EXCEPT !.pc = "key"]
<1>1. /\ r.pc = "save" /\ r \in Handling /\ handler \in [Handlers -> Handling]
      /\ topic' = [topic EXCEPT ![r.conv] = r.topic] /\ handler' = [handler EXCEPT ![h] = q]
      /\ UNCHANGED <<opened, preview, group, linked, key, madeFor, forwarded, crossed>>
      /\ ConvTypes /\ ConvTypeOK /\ TopicsKnown /\ OlderFirst
  BY DEF SaveTopic, Goes, At, storeVars, ghosts, ConvInv, ConvTypes, ConvTypeOK
<1>2. Remembers(r) /\ r.before = {} /\ ~r.overtaken
  BY <1>1 DEF TopicsKnown, OlderFirst, At
<1>3. /\ q \in Handling /\ q.pc = "key" /\ q.conv = r.conv /\ q.group = r.group /\ q.topic = r.topic
      /\ q.before = {} /\ ~q.overtaken
  BY <1>1, <1>2 DEF Handling
<1> HIDE DEF q
<1>4. Remembers(q)
  BY <1>1, <1>2, <1>3 DEF Remembers
<1>5. /\ handler' \in [Handlers -> Handling] /\ OlderFirst'
      /\ \A k \in Handlers : Remembers(handler[k])'
  BY <1>1, <1>3, <1>4, GoesOn DEF At
<1>6. r.topic # NoTopic /\ r.topic \in TopicIds /\ r.conv \in Convs /\ Owns(r.conv, r.topic)
  BY <1>1, <1>2 DEF Remembers, Handling
<1>7. ConvTypes'
  BY <1>1, <1>5, <1>6 DEF ConvTypes, ConvTypeOK
<1>8. \A c \in Convs : topic'[c] # NoTopic => Owns(c, topic'[c])
  BY <1>1, <1>6 DEF TopicsKnown, ConvTypeOK
<1>9. TopicsKnown'
  BY <1>1, <1>5, <1>8 DEF TopicsKnown, Owns
<1>10. OneGroup'
  BY <1>1 DEF ConvInv, OneGroup
<1> QED
  BY <1>5, <1>7, <1>9, <1>10 DEF ConvInv

\* The key is set for the topic the message goes to (forwardToTelegram).
LEMMA KeyKeeps ==
  ASSUME ConvInv, NEW h \in Handlers, SetKey(h)
  PROVE  ConvInv'
<1> USE ConversationConstants
<1> DEFINE r == handler[h]
           q == [r EXCEPT !.pc = "publish"]
           g == r.group
           t == r.topic
<1>1. /\ r.pc = "key" /\ r \in Handling /\ handler \in [Handlers -> Handling]
      /\ key' = [key EXCEPT ![g][t] = r.conv] /\ handler' = [handler EXCEPT ![h] = q]
      /\ UNCHANGED <<opened, topic, preview, group, linked, madeFor, forwarded, crossed>>
      /\ ConvTypes /\ ConvTypeOK /\ TopicsKnown /\ OlderFirst
  BY DEF SetKey, Goes, At, threads, storeVars, ghosts, ConvInv, ConvTypes, ConvTypeOK
<1>2. Remembers(r) /\ r.before = {} /\ ~r.overtaken
  BY <1>1 DEF TopicsKnown, OlderFirst, At
<1>3. /\ q \in Handling /\ q.pc = "publish" /\ q.conv = r.conv /\ q.group = r.group /\ q.topic = r.topic
      /\ q.before = {} /\ ~q.overtaken
  BY <1>1, <1>2 DEF Handling
<1> HIDE DEF q
<1>4. Remembers(q)
  BY <1>1, <1>2, <1>3 DEF Remembers
<1>5. /\ handler' \in [Handlers -> Handling] /\ OlderFirst'
      /\ \A k \in Handlers : Remembers(handler[k])'
  BY <1>1, <1>3, <1>4, GoesOn DEF At
<1>6. /\ t # NoTopic /\ t \in TopicIds /\ r.conv \in Convs /\ r.conv \in opened
      /\ Owns(r.conv, t) /\ g \in linked /\ g \in Groups
  BY <1>1, <1>2 DEF Remembers, Handling, ConvTypeOK
<1>7. /\ \A f \in Groups, u \in TopicIds : key'[f][u] = IF f = g /\ u = t THEN r.conv ELSE key[f][u]
      /\ key' \in [Groups -> [TopicIds -> Convs \cup {NoConv}]]
  BY <1>1, <1>6 DEF ConvTypeOK
<1>8. ConvTypes'
  BY <1>1, <1>5, <1>7 DEF ConvTypes, ConvTypeOK
<1>9. TopicsKnown'
  BY <1>1, <1>5, <1>6, <1>7 DEF TopicsKnown, Owns
<1>10. Cardinality(linked) <= 1 => madeFor[g][t] = r.conv
  BY <1>1, <1>6, OwnerOf
<1>11. OneGroup'
  BY <1>1, <1>7, <1>10 DEF ConvInv, OneGroup
<1> QED
  BY <1>5, <1>8, <1>9, <1>11 DEF ConvInv

\* The message goes to the topic that was read or created (publishTelegram).
LEMMA ForwardKeeps ==
  ASSUME ConvInv, NEW h \in Handlers, Forward(h)
  PROVE  ConvInv'
<1> USE ConversationConstants
<1> DEFINE r == handler[h]
           g == r.group
           t == r.topic
<1>1. /\ r.pc = "publish" /\ r \in Handling /\ handler \in [Handlers -> Handling]
      /\ forwarded' = forwarded \cup {<<g, t>>}
      /\ crossed' = (crossed \/ \E o \in Convs : t \in TopicIds /\ madeFor[g][t] = o /\ o # r.conv)
      /\ handler' = [handler EXCEPT ![h] = FreeHandler]
      /\ UNCHANGED <<opened, topic, preview, group, linked, key, madeFor>>
      /\ ConvTypes /\ ConvTypeOK /\ TopicsKnown /\ OlderFirst
  BY DEF Forward, Ends, At, threads, storeVars, ConvInv, ConvTypes, ConvTypeOK
<1>2. Remembers(r)
  BY <1>1 DEF TopicsKnown
<1>3. FreeHandler \in Handling /\ ~FreeHandler.overtaken /\ FreeHandler.before = {}
  BY DEF FreeHandler, Handling
<1>4. Remembers(FreeHandler)
  BY DEF FreeHandler, Remembers
<1>5. /\ handler' \in [Handlers -> Handling] /\ OlderFirst'
      /\ \A k \in Handlers : Remembers(handler[k])'
  BY <1>1, <1>3, <1>4, GoesOn DEF At
<1>6. /\ t # NoTopic /\ t \in TopicIds /\ r.conv \in Convs
      /\ Owns(r.conv, t) /\ g \in linked /\ g \in Groups
  BY <1>1, <1>2 DEF Remembers, Handling, ConvTypeOK
<1>7. ConvTypes'
  BY <1>1, <1>5, <1>6 DEF ConvTypes, ConvTypeOK
<1>8. TopicsKnown'
  BY <1>1, <1>5 DEF TopicsKnown, Owns
<1>9. Cardinality(linked) <= 1 => madeFor[g][t] = r.conv
  BY <1>1, <1>6, OwnerOf
<1>10. OneGroup'
  BY <1>1, <1>6, <1>9 DEF ConvInv, OneGroup
<1> QED
  BY <1>5, <1>7, <1>8, <1>10 DEF ConvInv

\* A conversation is opened, a group linked or left, or a key expires.
LEMMA OthersKeep ==
  ASSUME ConvInv,
         \/ \E c \in Convs : OpenConversation(c)
         \/ \E g \in Groups : LinkGroup(g) \/ \E t \in TopicIds : KeyExpires(g, t)
         \/ UnlinkGroup
  PROVE  ConvInv'
<1> USE ConversationConstants
<1>1. ConvTypes /\ ConvTypeOK /\ TopicsKnown /\ OlderFirst /\ handler \in [Handlers -> Handling]
  BY DEF ConvInv, ConvTypes, ConvTypeOK
<1>2. CASE UNCHANGED <<handler, preview, topic, madeFor, forwarded, crossed>> /\ UNCHANGED key
           /\ linked \subseteq linked' /\ opened \subseteq opened' /\ ConvTypes' /\ group' \in linked' \cup {NoGroup}
  <2>1. OlderFirst'
    BY <1>1, <1>2 DEF OlderFirst, SharedBy, Inserted, At
  <2>2. /\ \A b \in Convs, u \in TopicIds : Owns(b, u) => Owns(b, u)'
        /\ \A r \in Handling : Remembers(r) => Remembers(r)'
    BY <1>2, OwnersStay
  <2>3. \A k \in Handlers : Remembers(handler[k])'
    <3> SUFFICES ASSUME NEW k \in Handlers PROVE Remembers(handler[k])'
      OBVIOUS
    <3>1. Remembers(handler[k]) /\ handler[k] \in Handling
      BY <1>1 DEF TopicsKnown
    <3> QED
      BY <1>2, <2>2, <3>1 DEF Remembers, Owns
  <2>4. \A b \in Convs : topic'[b] # NoTopic => Owns(b, topic[b])'
    BY <1>1, <1>2, <2>2 DEF TopicsKnown, ConvTypeOK
  <2>5. TopicsKnown'
    BY <1>1, <1>2, <2>3, <2>4 DEF TopicsKnown, Owns
  <2>6. Cardinality(linked') <= 1 => Cardinality(linked) <= 1
    <3>1. IsFiniteSet(linked')
      BY <1>2 DEF ConvTypes
    <3>2. Cardinality(linked) <= Cardinality(linked') /\ Cardinality(linked) \in Nat /\ Cardinality(linked') \in Nat
      BY <1>1, <1>2, <3>1, FS_Subset, FS_CardinalityType DEF ConvTypes
    <3> QED
      BY <3>2
  <2>7. OneGroup'
    BY <1>2, <2>6 DEF ConvInv, OneGroup
  <2> QED
    BY <1>2, <2>1, <2>5, <2>7 DEF ConvInv
<1>3. ASSUME NEW c \in Convs, OpenConversation(c) PROVE ConvInv'
  BY <1>1, <1>2, <1>3 DEF OpenConversation, storeVars, ghosts, ConvTypes, ConvTypeOK, TopicsKnown
<1>4. ASSUME NEW g \in Groups, LinkGroup(g) PROVE ConvInv'
  <2>1. IsFiniteSet(linked \cup {g})
    BY <1>1, FS_AddElement DEF ConvTypes
  <2>2. ConvTypes'
    BY <1>1, <1>4, <2>1 DEF LinkGroup, threads, ghosts, ConvTypes, ConvTypeOK
  <2> QED
    BY <1>2, <1>4, <2>2 DEF LinkGroup, threads, ghosts
<1>5. CASE UnlinkGroup
  <2>1. ConvTypes'
    BY <1>1, <1>5 DEF UnlinkGroup, threads, ghosts, ConvTypes, ConvTypeOK
  <2> QED
    BY <1>2, <1>5, <2>1 DEF UnlinkGroup, threads, ghosts
<1>6. ASSUME NEW g \in Groups, NEW t \in TopicIds, KeyExpires(g, t) PROVE ConvInv'
  <2>1. /\ key' = [key EXCEPT ![g][t] = NoConv]
        /\ UNCHANGED <<opened, topic, preview, group, linked, handler, madeFor, forwarded, crossed>>
    BY <1>6 DEF KeyExpires, threads, storeVars, ghosts
  <2>2. /\ \A f \in Groups, u \in TopicIds : key'[f][u] = IF f = g /\ u = t THEN NoConv ELSE key[f][u]
        /\ key' \in [Groups -> [TopicIds -> Convs \cup {NoConv}]]
    BY <1>1, <2>1 DEF ConvTypeOK
  <2>3. ConvTypes'
    BY <1>1, <2>1, <2>2 DEF ConvTypes, ConvTypeOK
  <2>4. OlderFirst'
    BY <1>1, <2>1 DEF OlderFirst, SharedBy, Inserted, At
  <2>5. TopicsKnown'
    BY <1>1, <2>1, <2>2 DEF TopicsKnown, Remembers, Owns
  <2>6. OneGroup'
    BY <2>1, <2>2 DEF ConvInv, OneGroup
  <2> QED
    BY <2>3, <2>4, <2>5, <2>6 DEF ConvInv
<1> QED
  BY <1>3, <1>4, <1>5, <1>6

LEMMA ConvInvariant == ConvSpec => []ConvInv
<1> USE ConversationConstants
<1>1. ConvInit => ConvInv
  <2> SUFFICES ASSUME ConvInit PROVE ConvInv
    OBVIOUS
  <2>1. FreeHandler \in Handling
    BY DEF FreeHandler, Handling
  <2>2. ConvTypes
    BY <2>1, FS_EmptySet DEF ConvInit, ConvTypes, ConvTypeOK
  <2>3. OlderFirst
    BY DEF ConvInit, OlderFirst, FreeHandler
  <2>4. TopicsKnown
    BY DEF ConvInit, TopicsKnown, FreeHandler, Remembers
  <2>5. OneGroup
    BY DEF ConvInit, OneGroup
  <2> QED
    BY <2>2, <2>3, <2>4, <2>5 DEF ConvInv
<1>2. ConvInv /\ [ConvNext]_convVars => ConvInv'
  <2> SUFFICES ASSUME ConvInv, [ConvNext]_convVars PROVE ConvInv'
    OBVIOUS
  <2>1. CASE UNCHANGED convVars
    BY <2>1 DEF convVars, ConvInv, ConvTypes, ConvTypeOK, OlderFirst, SharedBy, Inserted, At,
                TopicsKnown, Remembers, Owns, OneGroup
  <2>2. ASSUME NEW h \in Handlers, Handle(h) PROVE ConvInv'
    BY <2>2, ReceiveKeeps, ReplyKeeps, InsertKeeps, CommitKeeps, CreateKeeps, SaveKeeps,
       KeyKeeps, ForwardKeeps, StopKeeps DEF Handle
  <2> QED
    BY <2>1, <2>2, OthersKeep DEF ConvNext
<1> QED
  BY <1>1, <1>2, PTL DEF ConvSpec

\* However the two statements of messages interleave, the preview is of the newest one: the
\* row lock keeps an older message from committing late (processMessage).
THEOREM NewestIsPreviewed == ConvSpec => []PreviewIsNewest
<1>1. ConvInv => PreviewIsNewest
  BY DEF ConvInv, OlderFirst, PreviewIsNewest
<1> QED
  BY <1>1, ConvInvariant, PTL

\* While the store stays with one group, no message reaches the topic of another customer,
\* nor an answer another customer (forwardToTelegram, handleGroupTopicReply).
THEOREM TopicsStayApart == ConvSpec => []TopicsKeptApart
<1>1. ConvInv => TopicsKeptApart
  BY DEF ConvInv, OneGroup, TopicsKeptApart
<1> QED
  BY <1>1, ConvInvariant, PTL

\* And a topic that has been written to leads back to its conversation, with or without its
\* key, as long as it is the one saved there (handleGroupTopicReply).
THEOREM AnswersArrive == ConvSpec => []AnswersFindTheirWay
<1> USE ConversationConstants
<1>1. ConvInv => AnswersFindTheirWay
  <2> SUFFICES ASSUME ConvInv, Cardinality(linked) <= 1, NEW g \in Groups, NEW t \in TopicIds,
                      <<g, t>> \in forwarded, Named(g, t) = {}, group = g, topic[madeFor[g][t]] = t
               PROVE  FALSE
    BY DEF AnswersFindTheirWay
  <2>1. madeFor[g][t] \in opened
    BY DEF ConvInv, OneGroup, TopicsKnown
  <2> QED
    BY <2>1 DEF Named
<1> QED
  BY <1>1, ConvInvariant, PTL
=============================================================================
