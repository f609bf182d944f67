------------------------------- MODULE Notices -------------------------------
(***************************************************************************)
(* What a booking's people are told: notifications.service.ts writes rows   *)
(* and publishes pushes and mails, web-push.service.ts sends a push to every *)
(* device of a user, mail.service.ts sends a mail.                          *)
(*                                                                         *)
(* The lifecycle calls a notify* method without waiting for it and swallows  *)
(* what it throws: each call is a job beside everything else.  A job works   *)
(* through the rounds of its plan (rows, then one push message for the round)*)
(* and publishes the mail last.  Pushes and mails have a queue each, with    *)
(* the same ack(); one RetryQueue with room for both stands for the two.     *)
(***************************************************************************)
EXTENDS RetryQueue, Sequences

CONSTANTS Jobs, Devices,
          User,             \* User[p]: the account of p, which may be one for both
          NoUser

ASSUME NoticeConstants ==
  /\ DOMAIN User = {"owner", "customer"}
  /\ NoUser \notin {User["owner"], User["customer"]}
  /\ Messages = Jobs \X (1..3)          \* a push for each round, and 3 is the mail

People == {"owner", "customer"}         \* of the store, and of the booking
Users  == {User[p] : p \in People}
MailPart == 3

VARIABLES phase,     \* phase[j]: where a notify* call stands
          rounds,    \* rounds[j]: the recipients of each round
          round,     \* round[j]: the one at work
          audience,  \* ghost: everybody j has to tell
          withRows,  \* withRows[j]: FALSE for the notice that leaves no row
          mails,     \* mails[j]: it has a mail to publish
          recorded,  \* recorded[j]: who has a row in `notifications`
          sub,       \* sub[d]: the user of the row of d in `push_subscriptions`
          gone,      \* devices whose endpoint the push service has dropped
          reading,   \* reading[r]: what sendToUsers has read, or what it has to remove
          shown      \* ghost: shown[d][m]: times d has been sent m before any loss

jobVars    == <<phase, rounds, round, audience, withRows, mails>>
deviceVars == <<sub, gone>>
sendVars   == <<reading, shown>>
vars       == <<queueVars, jobVars, recorded, deviceVars, sendVars>>

Outside == [at |-> "outside", to |-> << >>]     \* run r is not in sendToUsers
Subscriptions == UNION {[D -> Users] : D \in SUBSET Devices}

Init ==
  /\ QueueInit
  /\ phase = [j \in Jobs |-> "idle"]
  /\ rounds = [j \in Jobs |-> << >>]
  /\ round = [j \in Jobs |-> 1]
  /\ audience = [j \in Jobs |-> {}]
  /\ withRows = [j \in Jobs |-> TRUE]
  /\ mails = [j \in Jobs |-> FALSE]
  /\ recorded = [j \in Jobs |-> {}]
  /\ sub = [d \in Devices |-> NoUser]
  /\ gone = {}
  /\ reading = [r \in Runs |-> Outside]
  /\ shown = [d \in Devices |-> [m \in Messages |-> 0]]

-----------------------------------------------------------------------------
\* The plans.  Both at once; the owner, then the customer; the customer alone, with
\* nothing to do for a booking without one; the customer alone, and no row or mail.
Together == [rounds |-> <<{"owner", "customer"}>>,   rows |-> TRUE,  mail |-> TRUE]
InTurn   == [rounds |-> <<{"owner"}, {"customer"}>>, rows |-> TRUE,  mail |-> TRUE]
Customer == [rounds |-> <<{"customer"}>>,            rows |-> TRUE,  mail |-> TRUE]
PushOnly == [rounds |-> <<{"customer"}>>,            rows |-> FALSE, mail |-> FALSE]

NotifyBookingCreated       == Together
NotifyBookingConfirmed     == Customer
NotifyBookingRejected      == Customer
NotifyBookingCompleted     == Customer
NotifyBookingCancelled     == InTurn
NotifyPaymentSuccess       == Customer
NotifyDepositReminder      == PushOnly
NotifyDepositRequired      == Customer
NotifyDepositPaid          == InTurn
NotifyDepositExpired       == InTurn
NotifyBookingReminder1Day  == Customer
NotifyBookingReminder1Hour == Customer
NotifyStaffChanged         == Customer

Notices == {NotifyBookingCreated, NotifyBookingConfirmed, NotifyBookingRejected,
            NotifyBookingCompleted, NotifyBookingCancelled, NotifyPaymentSuccess,
            NotifyDepositReminder, NotifyDepositRequired, NotifyDepositPaid,
            NotifyDepositExpired, NotifyBookingReminder1Day,
            NotifyBookingReminder1Hour, NotifyStaffChanged}

Reached(plan, present) == [i \in DOMAIN plan.rounds |-> plan.rounds[i] \cap present]

\* Mutant: without an owner nobody is told.
ForOwned(plan, present) ==
  LET reached == Reached(plan, present) IN IF reached[1] = {} THEN << >> ELSE reached

\* A store without an owner, a booking without a customer: their round is skipped.  The last
\* round may be of nobody; the call is then at its mail.
For(plan, present) ==
  LET reached == Reached(plan, present) IN IF reached[1] = {} THEN Tail(reached) ELSE reached

\* A notify* call, up to the owner's row of user_roles.  A customer may have no email.
Start(j) ==
  /\ phase[j] = "idle"
  /\ \E plan \in Notices, present \in SUBSET People :
        /\ rounds' = [rounds EXCEPT ![j] = For(plan, present)]
        /\ audience' = [audience EXCEPT ![j] = (UNION {plan.rounds[i] : i \in DOMAIN plan.rounds}) \cap present]
        /\ withRows' = [withRows EXCEPT ![j] = plan.rows]
        /\ \E m \in BOOLEAN : mails' = [mails EXCEPT ![j] = m /\ plan.mail /\ "customer" \in present]
  /\ phase' = [phase EXCEPT ![j] = "insert"]
  /\ UNCHANGED <<queueVars, round, recorded, deviceVars, sendVars>>

Recipients(j) == IF round[j] \in DOMAIN rounds[j] THEN rounds[j][round[j]] ELSE {}

\* Mutant: Promise.allSettled; a failed insert does not end the call.
InsertSettled(j) ==
  /\ phase[j] = "insert" /\ Recipients(j) # {} /\ withRows[j]
  /\ \E S \in SUBSET Recipients(j) :
        /\ recorded' = [recorded EXCEPT ![j] = @ \cup S]
  /\ phase' = [phase EXCEPT ![j] = "publish"]
  /\ UNCHANGED <<queueVars, rounds, round, audience, withRows, mails, deviceVars, sendVars>>

\* The inserts of a round (Promise.all); if one fails the call ends, with the others
\* committed.
Insert(j) ==
  /\ phase[j] = "insert" /\ Recipients(j) # {} /\ withRows[j]
  /\ \E S \in SUBSET Recipients(j) :
        /\ recorded' = [recorded EXCEPT ![j] = @ \cup S]
        /\ phase' = [phase EXCEPT ![j] = IF S = Recipients(j) THEN "publish" ELSE "failed"]
  /\ UNCHANGED <<queueVars, rounds, round, audience, withRows, mails, deviceVars, sendVars>>

\* client.emit: a publish that fails is only logged.
Emit(m) == Publish(m) \/ UNCHANGED queueVars

\* push and pushMany: one message for the round.
PublishPush(j) ==
  /\ \/ phase[j] = "publish"
     \/ phase[j] = "insert" /\ Recipients(j) # {} /\ ~withRows[j]
  /\ Emit(<<j, round[j]>>)
  /\ round' = [round EXCEPT ![j] = @ + 1]
  /\ phase' = [phase EXCEPT ![j] = "insert"]
  /\ UNCHANGED <<rounds, audience, withRows, mails, recorded, deviceVars, sendVars>>

PublishMail(j) ==
  /\ phase[j] = "insert" /\ Recipients(j) = {}
  /\ IF mails[j] THEN Emit(<<j, MailPart>>) ELSE UNCHANGED queueVars
  /\ phase' = [phase EXCEPT ![j] = "done"]
  /\ mails' = [mails EXCEPT ![j] = FALSE]
  /\ UNCHANGED <<rounds, round, audience, withRows, recorded, deviceVars, sendVars>>

\* The query for the owner fails, or the process dies.
JobEnds(j) ==
  /\ phase[j] \in {"insert", "publish"}
  /\ phase' = [phase EXCEPT ![j] = "failed"]
  /\ mails' = [mails EXCEPT ![j] = FALSE]
  /\ UNCHANGED <<queueVars, rounds, round, audience, withRows, recorded, deviceVars, sendVars>>

-----------------------------------------------------------------------------
\* Upsert by endpoint; a browser that has changed hands changes user.
SaveSubscription(d, u) ==
  /\ d \notin gone
  /\ sub' = [sub EXCEPT ![d] = u]
  /\ UNCHANGED <<queueVars, jobVars, recorded, gone, sendVars>>

DeleteSubscription(d, u) ==
  /\ sub[d] = u
  /\ sub' = [sub EXCEPT ![d] = NoUser]
  /\ UNCHANGED <<queueVars, jobVars, recorded, gone, sendVars>>

\* On logout.
DeleteAllSubscriptionsForUser(u) ==
  /\ sub' = [d \in Devices |-> IF sub[d] = u THEN NoUser ELSE sub[d]]
  /\ UNCHANGED <<queueVars, jobVars, recorded, gone, sendVars>>

EndpointExpires(d) ==
  /\ d \notin gone
  /\ gone' = gone \cup {d}
  /\ UNCHANGED <<queueVars, jobVars, recorded, sub, sendVars>>

-----------------------------------------------------------------------------
\* The consumers.
Job(r)   == run[r].msg[1]
Part(r)  == run[r].msg[2]
Addressed(r) == {User[p] : p \in rounds[Job(r)][Part(r)]}
Pushing(r) == run[r].stage = "handling" /\ Part(r) # MailPart
Mailing(r) == run[r].stage = "handling" /\ Part(r) = MailPart

Keep(r, at, to) == reading' = [reading EXCEPT ![r] = [at |-> at, to |-> to]]

\* sendToUsers, the query: it may throw, and the message is retried.
ReadSubscriptions(r) ==
  /\ Pushing(r) /\ reading[r] = Outside
  /\ \/ LET D == {d \in Devices : sub[d] \in Addressed(r)}
        IN Keep(r, "send", [d \in D |-> sub[d]]) /\ UNCHANGED queueVars
     \/ Fail(r) /\ UNCHANGED reading
  /\ UNCHANGED <<jobVars, recorded, deviceVars, shown>>

Accepting(r, D) == [d \in Devices |-> IF d \in D THEN [shown[d] EXCEPT ![run[r].msg] = IF losses = 0 THEN @ + 1 ELSE @] ELSE shown[d]]

\* Mutant: Promise.all; one device that fails makes the handler throw.
SendThrowing(r) ==
  /\ Pushing(r) /\ reading[r].at = "send"
  /\ LET to == DOMAIN reading[r].to
     IN \E ok \in SUBSET (to \ gone) :
           /\ shown' = Accepting(r, ok)
           /\ IF ok = to THEN Keep(r, "clean", << >>) /\ UNCHANGED queueVars
              ELSE Fail(r) /\ reading' = [reading EXCEPT ![r] = Outside]
  /\ UNCHANGED <<jobVars, recorded, deviceVars>>

\* To all of them (Promise.allSettled); other errors than 404 and 410 are logged.
Send(r) ==
  /\ Pushing(r) /\ reading[r].at = "send"
  /\ LET to == DOMAIN reading[r].to
     IN \E ok \in SUBSET (to \ gone) :
           /\ shown' = Accepting(r, ok)
           /\ Keep(r, "clean", [d \in to \cap gone |-> reading[r].to[d]])
  /\ UNCHANGED <<queueVars, jobVars, recorded, deviceVars>>

\* Rows of expired endpoints, one by one; an error of the delete is swallowed.
RemoveExpired(r) ==
  /\ Pushing(r) /\ reading[r].at = "clean"
  /\ \E d \in DOMAIN reading[r].to :
        /\ sub' \in {sub, [sub EXCEPT ![d] = NoUser]}
        /\ Keep(r, "clean", [e \in DOMAIN reading[r].to \ {d} |-> reading[r].to[e]])
  /\ UNCHANGED <<queueVars, jobVars, recorded, gone, shown>>

PushDone(r) ==
  /\ Pushing(r) /\ reading[r].at = "clean" /\ DOMAIN reading[r].to = {}
  /\ Finish(r)
  /\ reading' = [reading EXCEPT ![r] = Outside]
  /\ UNCHANGED <<jobVars, recorded, deviceVars, shown>>

\* mailer.sendMail: an error may come before or after the server took the mail.
SendMail(r) ==
  /\ Mailing(r)
  /\ Finish(r) \/ Fail(r)
  /\ UNCHANGED <<jobVars, recorded, deviceVars, sendVars>>

Acknowledge(r) ==
  /\ PublishRetry(r) \/ AckRetried(r) \/ Nack(r)
  /\ UNCHANGED <<jobVars, recorded, deviceVars, sendVars>>

Broker ==
  /\ \/ \E s \in Slots : TtlExpires(s) \/ \E r \in Runs, w \in Ids : Deliver(s, r, w)
     \/ \E w \in Ids : Disconnect(w)
  /\ UNCHANGED <<jobVars, recorded, deviceVars, sendVars>>

Dies(w) ==
  /\ ConsumerDies(w)
  /\ reading' = [r \in Runs |-> IF run[r].by = w THEN Outside ELSE reading[r]]
  /\ UNCHANGED <<jobVars, recorded, deviceVars, shown>>

Notify(j) == Start(j) \/ Insert(j) \/ PublishPush(j) \/ PublishMail(j) \/ JobEnds(j)
Consume(r) == \/ ReadSubscriptions(r) \/ Send(r) \/ RemoveExpired(r) \/ PushDone(r)
              \/ SendMail(r) \/ Acknowledge(r)

Next ==
  \/ \E j \in Jobs : Notify(j)
  \/ \E r \in Runs : Consume(r)
  \/ \E u \in Users : DeleteAllSubscriptionsForUser(u)
  \/ \E d \in Devices : EndpointExpires(d)
                        \/ \E u \in Users : SaveSubscription(d, u) \/ DeleteSubscription(d, u)
  \/ Broker \/ \E w \in Ids : Dies(w)

Spec == Init /\ [][Next]_vars

-----------------------------------------------------------------------------
NoticeTypeOK ==
  /\ QueueTypeOK
  /\ phase \in [Jobs -> {"idle", "insert", "publish", "done", "failed"}]
  /\ round \in [Jobs -> 1..3]
  /\ audience \in [Jobs -> SUBSET People]
  /\ recorded \in [Jobs -> SUBSET People]
  /\ sub \in [Devices -> Users \cup {NoUser}] /\ gone \subseteq Devices
  /\ \A r \in Runs : reading[r] = Outside \/ reading[r].to \in Subscriptions

\* Nobody gets a push before every row of its round is committed, and nobody a mail
\* before all rows of the event are: who opens the app finds what he was told.
ToldOnlyWhenRecorded ==
  \A j \in Jobs : withRows[j] =>
     /\ \A i \in DOMAIN rounds[j] : <<j, i>> \in published => rounds[j][i] \subseteq recorded[j]
     /\ <<j, MailPart>> \in published => audience[j] \subseteq recorded[j]

\* A call that ends without an error has told everybody concerned, in a store without
\* an owner and for a booking without an account too.
NobodyForgotten ==
  \A j \in Jobs : phase[j] = "done" /\ withRows[j] => recorded[j] = audience[j]

\* A device shows a push once, whatever fails for other devices or in the removal of
\* expired ones, and however often the message is retried: the handler can only throw
\* before it sends.  Once a connection or a process has been lost the broker delivers
\* the message again, and then also the retry that run published before its ack.
PushedOncePerDevice ==
  losses = 0 => \A d \in Devices, m \in Messages : shown[d][m] <= 1
=============================================================================
