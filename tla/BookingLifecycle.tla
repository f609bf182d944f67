-------------------------- MODULE BookingLifecycle --------------------------
(***************************************************************************)
(* One booking from its creation to its end: the transitions of            *)
(* BookingsService, the payments of PaymentsService and the deposit        *)
(* deadline enforced by BookingReminderConsumer.                           *)
(*                                                                         *)
(* A handler reads the booking, decides, and writes in a later statement;  *)
(* other handlers run in between.  call[c] is what handler c has read and  *)
(* not yet acted upon.  Any handler may stop between two statements: the   *)
(* process dies, or the database refuses the next statement (a deadlock    *)
(* victim is not retried here).  A $transaction is one step.               *)
(***************************************************************************)
EXTENDS Naturals, FiniteSets

CONSTANTS Calls,     \* HTTP requests handled at the same time
          Ticks,     \* reminder ticks handled at the same time
          Rows,      \* rows of the payments table (bounds their number)
          NoRow,     \* a row that does not exist
          Idle,      \* no request in hand
          Total,     \* finalPrice
          Deposit,   \* depositAmount
          Services   \* the operations offered to clients in this instance

Operations == {"confirm", "reject", "complete", "cancel", "remove", "pay", "record", "webhook"}

Types    == {"DEPOSIT", "FULL"}
Payments == [type : Types, amount : 1..Total, status : {"PENDING", "PAID", "FAILED", "REFUNDED"}]
Requests == [op : {"confirm", "reject", "complete", "cancel", "remove"}]
            \cup [op : {"check", "cash", "replace", "insert"}, type : Types,
                  amount : 0..Total, cash : BOOLEAN]
            \cup [op : {"settle", "short"}, row : Rows]

ASSUME AmountsAssumption ==
  /\ Total \in Nat \ {0}
  /\ Deposit \in 1..Total

ASSUME LifecycleValues ==
  /\ NoRow \notin Payments
  /\ Idle \notin Requests
  /\ Services \subseteq Operations

VARIABLES status,    \* Booking.status, or "DELETED" once the row is gone
          walkIn,    \* the booking has no customer
          late,      \* depositDeadline has passed
          deposit,   \* depositAmount has been set
          rows,      \* rows[p]: the payment row p, NoRow before it is created
          call,      \* call[c]: what request c has read and still has to write
          tick,      \* ticks that have selected the booking as expired
          answers    \* ghost: answers[p], webhook calls that confirmed row p

booking == <<status, walkIn, late, deposit>>
vars == <<booking, rows, call, tick, answers>>

Statuses == {"PENDING", "CONFIRMED", "DEPOSIT_PENDING", "DEPOSIT_PAID", "PAID",
             "COMPLETED", "REJECTED", "CANCELLED", "DELETED"}
Payable     == {"CONFIRMED", "DEPOSIT_PENDING", "DEPOSIT_PAID"}
Cancellable == {"PENDING", "CONFIRMED", "DEPOSIT_PENDING", "DEPOSIT_PAID", "PAID"}

Exists(p)        == rows[p] # NoRow
Having(type, st) == {p \in Rows : Exists(p) /\ rows[p].type = type /\ rows[p].status = st}
PaidRows         == Having("DEPOSIT", "PAID") \cup Having("FULL", "PAID")
OpenRows         == Having("DEPOSIT", "PENDING") \cup Having("FULL", "PENDING")
Asked(c, op)     == call[c] # Idle /\ call[c].op = op

-----------------------------------------------------------------------------
\* A walk-in is CONFIRMED at once, a customer's booking when the store has autoConfirm.
Init ==
  /\ walkIn \in BOOLEAN
  /\ status \in IF walkIn THEN {"CONFIRMED"} ELSE {"PENDING", "CONFIRMED"}
  /\ late = FALSE
  /\ deposit = FALSE
  /\ rows = [p \in Rows |-> NoRow]
  /\ call = [c \in Calls |-> Idle]
  /\ tick = {}
  /\ answers = [p \in Rows |-> 0]

\* The request is answered.
Done(c) == call' = [call EXCEPT ![c] = Idle]

\* The findOne at the head of a transition, and the status it insists on.
Ask(c, op, allowed) ==
  /\ op \in Services
  /\ call[c] = Idle
  /\ status \in allowed
  /\ call' = [call EXCEPT ![c] = [op |-> op]]
  /\ UNCHANGED <<booking, rows, tick, answers>>

AskConfirm(c)  == Ask(c, "confirm", {"PENDING"})
AskReject(c)   == Ask(c, "reject", {"PENDING"})
AskComplete(c) == Ask(c, "complete", {"PAID"})
AskRemove(c)   == Ask(c, "remove", {"CANCELLED", "REJECTED"})
\* Only the customer cancels; cancelBeforeHours closes the window at some point.
AskCancel(c)   == ~walkIn /\ Ask(c, "cancel", Cancellable)

\* booking.update({ where: { id } }): no look at the status; P2025 once deleted.
Write(c, st) ==
  /\ status' = IF status = "DELETED" THEN status ELSE st
  /\ Done(c)
  /\ UNCHANGED <<walkIn, tick, answers>>

\* confirm: a deposit is asked for when the store wants one and time allows; the
\* deadline is new, depositAmount stays from an earlier confirmation otherwise.
Confirm(c) ==
  /\ Asked(c, "confirm")
  /\ \/ Write(c, "CONFIRMED") /\ UNCHANGED <<late, deposit>>
     \/ /\ Write(c, "DEPOSIT_PENDING")
        /\ late' = FALSE
        /\ deposit' = TRUE
  /\ UNCHANGED rows

Reject(c)   == Asked(c, "reject") /\ Write(c, "REJECTED") /\ UNCHANGED <<late, deposit, rows>>
Complete(c) == Asked(c, "complete") /\ Write(c, "COMPLETED") /\ UNCHANGED <<late, deposit, rows>>

WithStatus(S, st) == [p \in Rows |-> IF p \in S THEN [rows[p] EXCEPT !.status = st] ELSE rows[p]]

\* cancel: the booking and all its PAID rows in one transaction.
Cancel(c) ==
  /\ Asked(c, "cancel")
  /\ Write(c, "CANCELLED")
  /\ rows' = IF status = "DELETED" THEN rows ELSE WithStatus(PaidRows, "REFUNDED")
  /\ UNCHANGED <<late, deposit>>

\* remove: the foreign key of payments refuses it as soon as a row exists.
Remove(c) ==
  /\ Asked(c, "remove")
  /\ status' = IF \A p \in Rows : ~Exists(p) THEN "DELETED" ELSE status
  /\ Done(c)
  /\ UNCHANGED <<walkIn, late, deposit, rows, tick, answers>>

-----------------------------------------------------------------------------
\* What createSepayPayment and recordStorePayment charge, from the booking as read.
Charge(chosen) ==
  IF status = "DEPOSIT_PENDING"
  THEN IF chosen = "DEPOSIT" THEN [type |-> "DEPOSIT", amount |-> Deposit]
                             ELSE [type |-> "FULL", amount |-> Total]
  ELSE [type |-> "FULL",
        amount |-> Total - (IF status = "DEPOSIT_PAID" /\ deposit THEN Deposit ELSE 0)]

AskCharge(c, chosen, cash) ==
  /\ call[c] = Idle
  /\ status \in Payable
  /\ call' = [call EXCEPT ![c] = [op |-> "check", type |-> Charge(chosen).type,
                                  amount |-> Charge(chosen).amount, cash |-> cash]]
  /\ UNCHANGED <<booking, rows, tick, answers>>

\* The customer pays by bank transfer; the store takes cash or shows a QR code.
AskPay(c)    == /\ "pay" \in Services /\ ~walkIn
                /\ \E chosen \in Types : AskCharge(c, chosen, FALSE)
AskRecord(c) == /\ "record" \in Services
                /\ \E chosen \in Types, cash \in BOOLEAN : AskCharge(c, chosen, cash)

\* Mutant: a remainder of nothing is charged.
CheckPaidNoRemainder(c) ==
  /\ Asked(c, "check")
  /\ IF Having(call[c].type, "PAID") # {} THEN Done(c)
     ELSE call' = [call EXCEPT ![c].op = IF call[c].cash THEN "cash" ELSE "replace"]
  /\ UNCHANGED <<booking, rows, tick, answers>>

\* A PAID row of the same type, or nothing left to pay, refuses the request.
CheckPaid(c) ==
  /\ Asked(c, "check")
  /\ IF Having(call[c].type, "PAID") # {} \/ call[c].amount = 0 THEN Done(c)
     ELSE call' = [call EXCEPT ![c].op = IF call[c].cash THEN "cash" ELSE "replace"]
  /\ UNCHANGED <<booking, rows, tick, answers>>

\* The row is inserted unless the booking has been deleted (foreign key).
NewRow(c, st) ==
  /\ \E p \in Rows :
        /\ ~Exists(p)
        /\ rows' = IF status = "DELETED" THEN rows
                   ELSE [rows EXCEPT ![p] = [type |-> call[c].type, amount |-> call[c].amount,
                                             status |-> st]]
  /\ Done(c)

\* A deposit sets DEPOSIT_PAID whatever the status is; a full payment sets PAID
\* only where there was something to pay.
StatusPaid(type) ==
  CASE status = "DELETED" -> status
    [] status # "DELETED" /\ type = "DEPOSIT" -> "DEPOSIT_PAID"
    [] status # "DELETED" /\ type = "FULL" -> IF status \in Payable THEN "PAID" ELSE status

\* recordCashPayment: row and booking in one transaction.
RecordCash(c) ==
  /\ Asked(c, "cash")
  /\ NewRow(c, "PAID")
  /\ status' = StatusPaid(call[c].type)
  /\ UNCHANGED <<walkIn, late, deposit, tick, answers>>

\* The open rows of the same type give way to the new one.
Replace(c) ==
  /\ Asked(c, "replace")
  /\ rows' = WithStatus(Having(call[c].type, "PENDING"), "FAILED")
  /\ call' = [call EXCEPT ![c].op = "insert"]
  /\ UNCHANGED <<booking, tick, answers>>

Insert(c) ==
  /\ Asked(c, "insert")
  /\ NewRow(c, "PENDING")
  /\ UNCHANGED <<booking, tick, answers>>

-----------------------------------------------------------------------------
\* The bank reports a transfer, possibly again, possibly too small: the webhook
\* looks for a PENDING row with the code.
AskWebhook(c) ==
  /\ "webhook" \in Services
  /\ call[c] = Idle
  /\ \E p \in Rows, op \in {"settle", "short"} :
        /\ Exists(p) /\ rows[p].status = "PENDING"
        /\ call' = [call EXCEPT ![c] = [op |-> op, row |-> p]]
  /\ UNCHANGED <<booking, rows, tick, answers>>

\* Mutant: payment.update by id, without status: PENDING in the where clause.
SettleBlindly(c) ==
  /\ Asked(c, "settle")
  /\ LET p == call[c].row IN
        /\ rows' = WithStatus({p}, "PAID")
        /\ status' = StatusPaid(rows[p].type)
        /\ answers' = [answers EXCEPT ![p] = @ + 1]
  /\ Done(c)
  /\ UNCHANGED <<walkIn, late, deposit, tick>>

\* Mutant: the booking is updated even when count is 0.
SettleIgnoresCount(c) ==
  /\ Asked(c, "settle")
  /\ LET p == call[c].row IN
        /\ rows' = WithStatus({p} \cap OpenRows, "PAID")
        /\ status' = StatusPaid(rows[p].type)
        /\ answers' = IF p \in OpenRows THEN [answers EXCEPT ![p] = @ + 1] ELSE answers
  /\ Done(c)
  /\ UNCHANGED <<walkIn, late, deposit, tick>>

\* updatePaymentSuccess: the row must still be PENDING when it is written.
Settle(c) ==
  /\ Asked(c, "settle")
  /\ LET p == call[c].row IN
        IF rows[p].status = "PENDING"
        THEN /\ rows' = WithStatus({p}, "PAID")
             /\ status' = StatusPaid(rows[p].type)
             /\ answers' = [answers EXCEPT ![p] = @ + 1]
        ELSE UNCHANGED <<rows, status, answers>>
  /\ Done(c)
  /\ UNCHANGED <<walkIn, late, deposit, tick>>

PaidShort(c) ==
  /\ Asked(c, "short")
  /\ rows' = WithStatus({call[c].row} \cap OpenRows, "FAILED")
  /\ Done(c)
  /\ UNCHANGED <<booking, tick, answers>>

\* The handler stops after what it has read or written so far.
Stop(c) ==
  /\ call[c] # Idle
  /\ Done(c)
  /\ UNCHANGED <<booking, rows, tick, answers>>

-----------------------------------------------------------------------------
DeadlinePasses ==
  /\ status = "DEPOSIT_PENDING"
  /\ ~late
  /\ late' = TRUE
  /\ UNCHANGED <<status, walkIn, deposit, rows, call, tick, answers>>

\* Mutant: the comparison with the deadline is the wrong way round.
ScanUnexpired(t) ==
  /\ t \notin tick
  /\ status = "DEPOSIT_PENDING" /\ ~late /\ ~walkIn
  /\ tick' = tick \cup {t}
  /\ UNCHANGED <<booking, rows, call, answers>>

\* cancelExpiredDeposits: the findMany, then an updateMany that looks at the status again.
ScanExpired(t) ==
  /\ t \notin tick
  /\ status = "DEPOSIT_PENDING" /\ late /\ ~walkIn
  /\ tick' = tick \cup {t}
  /\ UNCHANGED <<booking, rows, call, answers>>

\* Mutant: update by id alone.
ExpireBlindly(t) ==
  /\ t \in tick
  /\ tick' = tick \ {t}
  /\ status' = "CANCELLED"
  /\ UNCHANGED <<walkIn, late, deposit, rows, call, answers>>

Expire(t) ==
  /\ t \in tick
  /\ tick' = tick \ {t}
  /\ status' = IF status = "DEPOSIT_PENDING" THEN "CANCELLED" ELSE status
  /\ UNCHANGED <<walkIn, late, deposit, rows, call, answers>>

\* A tick fails; it is redelivered, or the next one comes.
TickFails(t) ==
  /\ t \in tick
  /\ tick' = tick \ {t}
  /\ UNCHANGED <<booking, rows, call, answers>>

Transition(c) == \/ AskConfirm(c) \/ AskReject(c) \/ AskComplete(c) \/ AskCancel(c) \/ AskRemove(c)
                 \/ Confirm(c) \/ Reject(c) \/ Complete(c) \/ Cancel(c) \/ Remove(c)
Payment(c)    == \/ AskPay(c) \/ AskRecord(c) \/ CheckPaid(c) \/ RecordCash(c)
                 \/ Replace(c) \/ Insert(c)
Webhook(c)    == AskWebhook(c) \/ Settle(c) \/ PaidShort(c)
Tick(t)       == ScanExpired(t) \/ Expire(t) \/ TickFails(t)

Next == \/ \E c \in Calls : Transition(c) \/ Payment(c) \/ Webhook(c) \/ Stop(c)
        \/ \E t \in Ticks : Tick(t)
        \/ DeadlinePasses

Spec == Init /\ [][Next]_vars

\* No two members of the store confirm the booking at the same time.
OneConfirm == Cardinality({c \in Calls : Asked(c, "confirm")}) <= 1
OneConfirmSpec == Init /\ [][Next /\ OneConfirm']_vars

\* The cron publishes a tick every ten minutes, failed ticks are redelivered, and
\* not every one of them fails.
FairSpec ==
  OneConfirmSpec /\ \A t \in Ticks : WF_vars(ScanExpired(t)) /\ SF_vars(Expire(t))

-----------------------------------------------------------------------------
TypeOK ==
  /\ status \in Statuses
  /\ walkIn \in BOOLEAN /\ late \in BOOLEAN /\ deposit \in BOOLEAN
  /\ rows \in [Rows -> Payments \cup {NoRow}]
  /\ call \in [Calls -> Requests \cup {Idle}]
  /\ tick \subseteq Ticks
  /\ answers \in [Rows -> Nat]

\* A booking that shows money received has it: DEPOSIT_PAID stands on a PAID
\* deposit and PAID on a PAID full payment, never on a failed or refunded row.
PaidStatusBacked ==
  /\ status = "DEPOSIT_PAID" => Having("DEPOSIT", "PAID") # {}
  /\ status = "PAID" => Having("FULL", "PAID") # {}

\* The rows follow PaymentLedger under duplicated webhooks, replaced QR codes,
\* short transfers and refunds in any order.
Ledger == INSTANCE PaymentLedger WITH
  state <- [p \in Rows |-> IF Exists(p) THEN rows[p].status ELSE "none"]

FollowsLedger == Ledger!Spec

\* The automatic cancellation never takes a booking whose money has come in, even
\* when it comes in between the tick's query and its update.
AutoCancelSparesPaid ==
  [][\A t \in Ticks :
        t \in tick /\ t \notin tick' /\ status # "CANCELLED" /\ status' = "CANCELLED"
        => PaidRows = {}]_vars

\* A deposit that stays unpaid past its deadline does not hold the slot for ever.
ExpiredDepositResolved == (status = "DEPOSIT_PENDING" /\ late) ~> ~(status = "DEPOSIT_PENDING" /\ late)

\* A COMPLETED booking has been paid in full and not refunded.
CompletedIsPaid == status = "COMPLETED" => Having("FULL", "PAID") # {}

\* "Chi ap dung cho lich hen dang o trang thai PENDING": a confirmation only ever
\* takes effect on a PENDING booking.
ConfirmOnlyPending ==
  [][\A c \in Calls :
        Asked(c, "confirm") /\ status' # status /\ status' \in {"CONFIRMED", "DEPOSIT_PENDING"}
        => status = "PENDING"]_vars
=============================================================================
