----------------------- MODULE BookingLifecycleProofs -----------------------
(***************************************************************************)
(* Proofs about BookingLifecycle for any number of requests, ticks and     *)
(* payment rows and any price: its types, that a booking shown as paid is  *)
(* backed by a PAID row, that the payments table follows PaymentLedger,    *)
(* and that the automatic cancellation spares a booking that is paid.      *)
(***************************************************************************)
EXTENDS BookingLifecycle, FiniteSetTheorems, TLAPS

\* A webhook that has selected a row finds it later, since rows are never deleted,
\* and no row is made for nothing.
RequestsInv ==
  \A c \in Calls :
     /\ Asked(c, "settle") \/ Asked(c, "short") => Exists(call[c].row)
     /\ Asked(c, "cash") \/ Asked(c, "replace") \/ Asked(c, "insert") => call[c].amount # 0

Inv == TypeOK /\ RequestsInv

-----------------------------------------------------------------------------
\* What a request in hand carries.
LEMMA RequestFacts ==
  ASSUME TypeOK, NEW c \in Calls, call[c] # Idle
  PROVE  /\ call[c] \in Requests
         /\ call[c].op \in {"check", "cash", "replace", "insert"} =>
              call[c] \in [op : {"check", "cash", "replace", "insert"}, type : Types,
                           amount : 0..Total, cash : BOOLEAN]
         /\ call[c].op \in {"settle", "short"} => call[c].row \in Rows
BY DEF TypeOK, Requests

\* An existing row is a payment; a free one is not.
LEMMA RowFacts ==
  ASSUME TypeOK, NEW p \in Rows
  PROVE  /\ Exists(p) => rows[p] \in Payments
         /\ Exists(p) => rows[p].type \in Types
         /\ Exists(p) => rows[p].status \in {"PENDING", "PAID", "FAILED", "REFUNDED"}
BY DEF TypeOK, Exists, Payments

\* Changing the status of existing rows keeps the table well formed.
LEMMA WithStatusType ==
  ASSUME TypeOK, NEW S \in SUBSET Rows, \A p \in S : Exists(p),
         NEW st \in {"PENDING", "PAID", "FAILED", "REFUNDED"}
  PROVE  /\ WithStatus(S, st) \in [Rows -> Payments \cup {NoRow}]
         /\ \A p \in Rows \ S : WithStatus(S, st)[p] = rows[p]
         /\ \A p \in S : /\ WithStatus(S, st)[p] # NoRow
                         /\ WithStatus(S, st)[p].status = st
                         /\ WithStatus(S, st)[p].type = rows[p].type
<1>1. \A p \in Rows : rows[p] \in Payments \cup {NoRow}
  BY DEF TypeOK
<1>2. \A p \in S : /\ [rows[p] EXCEPT !.status = st] \in Payments
                   /\ [rows[p] EXCEPT !.status = st].status = st
                   /\ [rows[p] EXCEPT !.status = st].type = rows[p].type
  BY RowFacts DEF Payments
<1>3. NoRow \notin Payments
  BY LifecycleValues
<1> QED
  BY <1>1, <1>2, <1>3 DEF WithStatus

\* The sets of paid and open rows hold existing rows with that status.
LEMMA HavingFacts ==
  ASSUME TypeOK
  PROVE  /\ \A type, st : Having(type, st) \in SUBSET Rows /\ \A p \in Having(type, st) : Exists(p)
         /\ PaidRows = {p \in Rows : Exists(p) /\ rows[p].status = "PAID"}
         /\ OpenRows = {p \in Rows : Exists(p) /\ rows[p].status = "PENDING"}
BY RowFacts DEF Having, PaidRows, OpenRows, Types

\* What the charge computed from the booking as read amounts to.
LEMMA ChargeType ==
  ASSUME NEW chosen \in Types
  PROVE  Charge(chosen).type \in Types /\ Charge(chosen).amount \in 0..Total
BY AmountsAssumption DEF Charge, Types

\* Each kind of payment leaves one of the known statuses.
LEMMA StatusPaidType ==
  ASSUME TypeOK, NEW type \in Types
  PROVE  StatusPaid(type) \in Statuses
BY DEF TypeOK, StatusPaid, Statuses, Payable, Types

LEMMA TypeInit == Init => Inv
<1> SUFFICES ASSUME Init PROVE Inv
  OBVIOUS
<1>1. status \in Statuses
  BY DEF Init, Statuses
<1>2. walkIn \in BOOLEAN /\ late \in BOOLEAN /\ deposit \in BOOLEAN
  BY DEF Init
<1>3. /\ rows \in [Rows -> Payments \cup {NoRow}]
      /\ call \in [Calls -> Requests \cup {Idle}]
      /\ tick \subseteq Ticks
      /\ answers \in [Rows -> Nat]
  BY DEF Init
<1>4. RequestsInv
  BY DEF Init, RequestsInv, Asked
<1> QED
  BY <1>1, <1>2, <1>3, <1>4 DEF Inv, TypeOK

-----------------------------------------------------------------------------
\* Nothing happens to the rows; the status may move, but not to one of the two
\* that show money.
Quiet == /\ UNCHANGED <<rows, answers>>
         /\ status' = status \/ status' \in Statuses \ {"DEPOSIT_PAID", "PAID"}

\* Everything paid is given back with the cancellation.
Refunded == /\ rows' = WithStatus(PaidRows, "REFUNDED")
            /\ status' = "CANCELLED"
            /\ UNCHANGED answers

\* A QR code is opened.
Opened == /\ \E p \in Rows, r \in Payments :
                ~Exists(p) /\ r.status = "PENDING" /\ rows' = [rows EXCEPT ![p] = r]
          /\ UNCHANGED <<status, answers>>

\* Cash is taken.
Cashed == /\ \E p \in Rows, r \in Payments :
                /\ ~Exists(p) /\ r.status = "PAID" /\ rows' = [rows EXCEPT ![p] = r]
                /\ status' = StatusPaid(r.type)
          /\ UNCHANGED answers

\* Open rows are replaced or paid short.
Failed == /\ \E S \in SUBSET OpenRows : rows' = WithStatus(S, "FAILED")
          /\ UNCHANGED <<status, answers>>

\* A transfer settles an open row.
Settled == \E p \in OpenRows : /\ rows' = WithStatus({p}, "PAID")
                               /\ status' = StatusPaid(rows[p].type)
                               /\ answers' = [answers EXCEPT ![p] = @ + 1]

Effect == Quiet \/ Refunded \/ Opened \/ Cashed \/ Failed \/ Settled

\* What NewRow does with the request in hand.
LEMMA NewRowEffect ==
  ASSUME Inv, NEW c \in Calls, Asked(c, "cash") \/ Asked(c, "insert"),
         NEW st \in {"PENDING", "PAID"}, NewRow(c, st)
  PROVE  \/ status = "DELETED" /\ rows' = rows
         \/ \E p \in Rows, r \in Payments :
               /\ ~Exists(p) /\ r.status = st /\ r.type = call[c].type
               /\ rows' = [rows EXCEPT ![p] = r]
<1> DEFINE r == [type |-> call[c].type, amount |-> call[c].amount, status |-> st]
<1>1. call[c].type \in Types /\ call[c].amount \in 1..Total
  BY RequestFacts, AmountsAssumption DEF Inv, RequestsInv, Asked
<1>2. r \in Payments /\ r.status = st /\ r.type = call[c].type
  BY <1>1 DEF Payments
<1> QED
  BY <1>2 DEF NewRow

\* Confirm, Reject and Complete write a status that shows no money.
LEMMA WriteEffect ==
  ASSUME Inv, NEW c \in Calls, NEW st \in Statuses \ {"DEPOSIT_PAID", "PAID"},
         Write(c, st), rows' = rows
  PROVE  Quiet
BY DEF Write, Quiet

\* The transitions of the booking give money back or leave it alone.
LEMMA TransitionEffect ==
  ASSUME Inv, NEW c \in Calls, Transition(c)
  PROVE  Effect
<1>1. CASE AskConfirm(c) \/ AskReject(c) \/ AskComplete(c) \/ AskCancel(c) \/ AskRemove(c)
  BY <1>1 DEF AskConfirm, AskReject, AskComplete, AskCancel, AskRemove, Ask, booking, Quiet, Effect
<1>2. CASE Confirm(c) \/ Reject(c) \/ Complete(c)
  BY <1>2, WriteEffect DEF Confirm, Reject, Complete, Statuses, Effect
<1>3. CASE Cancel(c)
  BY <1>3 DEF Cancel, Write, Quiet, Refunded, Effect
<1>4. CASE Remove(c)
  BY <1>4 DEF Remove, Quiet, Statuses, Effect
<1> QED
  BY <1>1, <1>2, <1>3, <1>4 DEF Transition

\* Taking payments opens rows, replaces open ones, or takes cash.
LEMMA PaymentEffect ==
  ASSUME Inv, NEW c \in Calls, Payment(c)
  PROVE  Effect
<1>1. CASE AskPay(c) \/ AskRecord(c) \/ CheckPaid(c)
  BY <1>1 DEF AskPay, AskRecord, AskCharge, CheckPaid, booking, Quiet, Effect
<1>2. CASE RecordCash(c)
  <2>1. /\ Asked(c, "cash") /\ NewRow(c, "PAID")
        /\ status' = StatusPaid(call[c].type) /\ UNCHANGED answers
    BY <1>2 DEF RecordCash
  <2>2. CASE status = "DELETED" /\ rows' = rows
    BY <2>1, <2>2 DEF StatusPaid, Quiet, Effect
  <2>3. CASE \E p \in Rows, r \in Payments :
                /\ ~Exists(p) /\ r.status = "PAID" /\ r.type = call[c].type
                /\ rows' = [rows EXCEPT ![p] = r]
    <3>1. PICK p \in Rows, r \in Payments :
                /\ ~Exists(p) /\ r.status = "PAID" /\ r.type = call[c].type
                /\ rows' = [rows EXCEPT ![p] = r]
      BY <2>3
    <3>2. status' = StatusPaid(r.type)
      BY <2>1, <3>1
    <3> QED
      BY <2>1, <3>1, <3>2 DEF Cashed, Effect
  <2> QED
    BY <2>1, <2>2, <2>3, NewRowEffect
<1>3. CASE Replace(c)
  <2>1. Having(call[c].type, "PENDING") \in SUBSET OpenRows
    BY <1>3, RequestFacts DEF Replace, Asked, Inv, OpenRows, Types
  <2> QED
    BY <1>3, <2>1 DEF Replace, booking, Failed, Effect
<1>4. CASE Insert(c)
  <2>1. Asked(c, "insert") /\ NewRow(c, "PENDING") /\ UNCHANGED <<status, answers>>
    BY <1>4 DEF Insert, booking
  <2> QED
    BY <2>1, NewRowEffect DEF Opened, Quiet, Effect
<1> QED
  BY <1>1, <1>2, <1>3, <1>4 DEF Payment

\* A webhook settles or fails an open row, or finds it closed.
LEMMA WebhookEffect ==
  ASSUME Inv, NEW c \in Calls, Webhook(c)
  PROVE  Effect
<1>1. CASE AskWebhook(c)
  BY <1>1 DEF AskWebhook, booking, Quiet, Effect
<1>2. CASE Settle(c)
  <2>1. call[c].row \in Rows /\ Exists(call[c].row)
    BY <1>2, RequestFacts DEF Settle, Asked, Inv, RequestsInv
  <2>2. rows[call[c].row].status = "PENDING" => call[c].row \in OpenRows
    BY <2>1, HavingFacts DEF Inv
  <2> QED
    BY <1>2, <2>2 DEF Settle, Quiet, Settled, Effect
<1>3. CASE PaidShort(c)
  BY <1>3 DEF PaidShort, booking, Failed, Effect
<1> QED
  BY <1>1, <1>2, <1>3 DEF Webhook

LEMMA StepEffect == Inv /\ [Next]_vars => Effect
<1> SUFFICES ASSUME Inv, [Next]_vars PROVE Effect
  OBVIOUS
<1>1. ASSUME NEW c \in Calls, Stop(c) PROVE Effect
  BY <1>1 DEF Stop, booking, Quiet, Effect
<1>2. ASSUME NEW t \in Ticks, Tick(t) PROVE Effect
  BY <1>2 DEF Tick, ScanExpired, Expire, TickFails, booking, Quiet, Statuses, Effect
<1>3. CASE DeadlinePasses
  BY <1>3 DEF DeadlinePasses, Quiet, Effect
<1>4. CASE UNCHANGED vars
  BY <1>4 DEF vars, booking, Quiet, Effect
<1> QED
  BY <1>1, <1>2, <1>3, <1>4, TransitionEffect, PaymentEffect, WebhookEffect DEF Next
-----------------------------------------------------------------------------
\* Whatever the effect, the table stays well formed, no row disappears and the
\* status is a known one.
LEMMA EffectType ==
  ASSUME Inv, Effect
  PROVE  /\ rows' \in [Rows -> Payments \cup {NoRow}]
         /\ \A p \in Rows : Exists(p) => Exists(p)'
         /\ answers' \in [Rows -> Nat]
         /\ status' \in Statuses
<1> USE DEF Inv
<1>1. CASE Quiet
  BY <1>1 DEF Quiet, TypeOK, Exists
<1>2. CASE Refunded
  <2>1. PaidRows \in SUBSET Rows /\ \A p \in PaidRows : Exists(p)
    BY HavingFacts
  <2> QED
    BY <1>2, <2>1, WithStatusType DEF Refunded, TypeOK, Statuses, Exists
<1>3. CASE Opened
  BY <1>3, LifecycleValues DEF Opened, TypeOK, Exists
<1>4. CASE Cashed
  <2>1. PICK p \in Rows, r \in Payments :
            /\ ~Exists(p) /\ r.status = "PAID" /\ rows' = [rows EXCEPT ![p] = r]
            /\ status' = StatusPaid(r.type)
    BY <1>4 DEF Cashed
  <2>2. status' \in Statuses
    BY <2>1, StatusPaidType DEF Payments
  <2> QED
    BY <1>4, <2>1, <2>2, LifecycleValues DEF Cashed, TypeOK, Exists
<1>5. CASE Failed
  <2>1. PICK S \in SUBSET OpenRows : rows' = WithStatus(S, "FAILED")
    BY <1>5 DEF Failed
  <2>2. S \in SUBSET Rows /\ \A p \in S : Exists(p)
    BY <2>1, HavingFacts
  <2> QED
    BY <1>5, <2>1, <2>2, WithStatusType DEF Failed, TypeOK, Exists
<1>6. CASE Settled
  <2>1. PICK p \in OpenRows : /\ rows' = WithStatus({p}, "PAID")
                              /\ status' = StatusPaid(rows[p].type)
                              /\ answers' = [answers EXCEPT ![p] = @ + 1]
    BY <1>6 DEF Settled
  <2>2. p \in Rows /\ Exists(p) /\ rows[p].type \in Types
    BY <2>1, HavingFacts, RowFacts
  <2>3. status' \in Statuses
    BY <2>1, <2>2, StatusPaidType
  <2>4. answers' \in [Rows -> Nat]
    BY <2>1, <2>2 DEF TypeOK
  <2>5. {p} \in SUBSET Rows /\ \A q \in {p} : Exists(q)
    BY <2>2
  <2> QED
    BY <2>1, <2>3, <2>4, <2>5, WithStatusType DEF TypeOK, Exists
<1> QED
  BY <1>1, <1>2, <1>3, <1>4, <1>5, <1>6 DEF Effect

\* A request in hand is always well formed, whichever handler moves.
LEMMA RequestStep ==
  ASSUME Inv, NEW c \in Calls, Transition(c) \/ Payment(c) \/ Webhook(c) \/ Stop(c)
  PROVE  \/ call' = [call EXCEPT ![c] = Idle]
         \/ \E q \in Requests :
               /\ call' = [call EXCEPT ![c] = q]
               /\ q.op \in {"settle", "short"} => Exists(q.row)
               /\ q.op \in {"cash", "replace", "insert"} => q.amount # 0
<1>1. CASE AskConfirm(c) \/ AskReject(c) \/ AskComplete(c) \/ AskCancel(c) \/ AskRemove(c)
  <2>1. PICK op \in {"confirm", "reject", "complete", "cancel", "remove"} :
            call' = [call EXCEPT ![c] = [op |-> op]]
    BY <1>1 DEF AskConfirm, AskReject, AskComplete, AskCancel, AskRemove, Ask
  <2>2. [op |-> op] \in Requests
    BY DEF Requests
  <2> QED
    BY <2>1, <2>2
<1>2. CASE AskPay(c) \/ AskRecord(c)
  <2>1. PICK chosen \in Types, cash \in BOOLEAN : AskCharge(c, chosen, cash)
    BY <1>2 DEF AskPay, AskRecord
  <2> DEFINE q == [op |-> "check", type |-> Charge(chosen).type,
                   amount |-> Charge(chosen).amount, cash |-> cash]
  <2>2. q \in Requests /\ q.op = "check"
    BY ChargeType DEF Requests
  <2> QED
    BY <2>1, <2>2 DEF AskCharge
<1>3. CASE CheckPaid(c) /\ ~Done(c)
  <2>1. /\ call[c] # Idle /\ call[c].op = "check" /\ call[c].amount # 0
        /\ call' = [call EXCEPT ![c].op = IF call[c].cash THEN "cash" ELSE "replace"]
    BY <1>3 DEF CheckPaid, Asked
  <2>2. PICK op \in {"cash", "replace"} : call' = [call EXCEPT ![c].op = op]
    BY <2>1
  <2> DEFINE q == [call[c] EXCEPT !.op = op]
  <2>3. call[c] \in [op : {"check", "cash", "replace", "insert"}, type : Types,
                     amount : 0..Total, cash : BOOLEAN]
    BY <2>1, RequestFacts DEF Inv
  <2>4. q \in Requests /\ q.op = op /\ q.amount # 0
    BY <2>1, <2>3 DEF Requests
  <2> QED
    BY <2>2, <2>4
<1>4. CASE Replace(c)
  <2>1. /\ call[c] # Idle /\ call[c].op = "replace" /\ call[c].amount # 0
        /\ call' = [call EXCEPT ![c].op = "insert"]
    BY <1>4 DEF Replace, Inv, RequestsInv, Asked
  <2> DEFINE q == [call[c] EXCEPT !.op = "insert"]
  <2>2. call[c] \in [op : {"check", "cash", "replace", "insert"}, type : Types,
                     amount : 0..Total, cash : BOOLEAN]
    BY <2>1, RequestFacts DEF Inv
  <2>3. q \in Requests /\ q.op = "insert" /\ q.amount # 0
    BY <2>1, <2>2 DEF Requests
  <2> QED
    BY <2>1, <2>3
<1>5. CASE AskWebhook(c)
  <2>1. PICK p \in Rows, op \in {"settle", "short"} :
            Exists(p) /\ call' = [call EXCEPT ![c] = [op |-> op, row |-> p]]
    BY <1>5 DEF AskWebhook
  <2>2. [op |-> op, row |-> p] \in Requests
    BY DEF Requests
  <2> QED
    BY <2>1, <2>2
<1> QED
  BY <1>1, <1>2, <1>3, <1>4, <1>5
  DEF Transition, Payment, Webhook, Confirm, Reject, Complete, Cancel, Remove, Write, RecordCash,
      CheckPaid, Insert, NewRow, Settle, PaidShort, Stop, Done
-----------------------------------------------------------------------------
LEMMA InvStep == Inv /\ [Next]_vars => Inv'
<1> SUFFICES ASSUME Inv, [Next]_vars PROVE Inv'
  OBVIOUS
<1>1. /\ rows' \in [Rows -> Payments \cup {NoRow}]
      /\ \A p \in Rows : Exists(p) => Exists(p)'
      /\ answers' \in [Rows -> Nat]
      /\ status' \in Statuses
  BY StepEffect, EffectType
<1>2. walkIn' = walkIn /\ late' \in BOOLEAN /\ deposit' \in BOOLEAN /\ tick' \subseteq Ticks
  <2>1. ASSUME NEW c \in Calls, Transition(c) PROVE <1>2!:
    BY <2>1 DEF Inv, TypeOK, Transition, AskConfirm, AskReject, AskComplete, AskCancel, AskRemove,
                Ask, Confirm, Reject, Complete, Cancel, Remove, Write, booking
  <2>2. ASSUME NEW c \in Calls, Payment(c) PROVE <1>2!:
    BY <2>2 DEF Inv, TypeOK, Payment, AskPay, AskRecord, AskCharge, CheckPaid, RecordCash,
                Replace, Insert, booking
  <2>3. ASSUME NEW c \in Calls, Webhook(c) \/ Stop(c) PROVE <1>2!:
    BY <2>3 DEF Inv, TypeOK, Webhook, AskWebhook, Settle, PaidShort, Stop, booking
  <2>4. ASSUME NEW t \in Ticks, Tick(t) PROVE <1>2!:
    BY <2>4 DEF Inv, TypeOK, Tick, ScanExpired, Expire, TickFails, booking
  <2>5. CASE DeadlinePasses
    BY <2>5 DEF Inv, TypeOK, DeadlinePasses
  <2>6. CASE UNCHANGED vars
    BY <2>6 DEF Inv, TypeOK, vars, booking
  <2> QED
    BY <2>1, <2>2, <2>3, <2>4, <2>5, <2>6 DEF Next
<1>3. call' \in [Calls -> Requests \cup {Idle}] /\ RequestsInv'
  <2>1. CASE call' = call
    BY <2>1, <1>1, RequestFacts DEF Inv, TypeOK, RequestsInv, Asked
  <2>2. ASSUME NEW c \in Calls, Transition(c) \/ Payment(c) \/ Webhook(c) \/ Stop(c)
        PROVE  <1>3!:
    <3>1. ASSUME NEW q \in Requests \cup {Idle}, call' = [call EXCEPT ![c] = q],
                 q # Idle /\ q.op \in {"settle", "short"} => Exists(q.row),
                 q # Idle /\ q.op \in {"cash", "replace", "insert"} => q.amount # 0
          PROVE  <1>3!:
      <4>1. call' \in [Calls -> Requests \cup {Idle}] /\ call'[c] = q
        BY <3>1 DEF Inv, TypeOK
      <4>2. \A d \in Calls \ {c} : call'[d] = call[d]
        BY <3>1 DEF Inv, TypeOK
      <4>3. q # Idle /\ q.op \in {"settle", "short"} => q.row \in Rows
        BY <3>1 DEF Requests
      <4> QED
        BY <1>1, <3>1, <4>1, <4>2, <4>3, RequestFacts DEF Inv, RequestsInv, Asked
    <3> QED
      BY <2>2, <3>1, RequestStep
  <2>3. (\E t \in Ticks : Tick(t)) \/ DeadlinePasses \/ UNCHANGED vars => call' = call
    BY DEF Tick, ScanExpired, Expire, TickFails, DeadlinePasses, vars
  <2> QED
    BY <2>1, <2>2, <2>3 DEF Next
<1> QED
  BY <1>1, <1>2, <1>3 DEF Inv, TypeOK

\* The variables of BookingLifecycle keep their types.
THEOREM LifecycleTypes == Spec => []TypeOK
<1>1. Inv => TypeOK
  BY DEF Inv
<1> QED
  BY <1>1, TypeInit, InvStep, PTL DEF Spec

LEMMA BackedStep == Inv /\ PaidStatusBacked /\ [Next]_vars => PaidStatusBacked'
<1> SUFFICES ASSUME Inv, PaidStatusBacked, [Next]_vars PROVE PaidStatusBacked'
  OBVIOUS
<1> USE DEF Inv
<1>1. Effect
  BY StepEffect
<1>2. ASSUME NEW type \in Types, status' = StatusPaid(type), NEW p \in Rows,
             Exists(p)', rows'[p].type = type, rows'[p].status = "PAID",
             \A q \in Rows : Exists(q) /\ rows[q].status = "PAID" => rows'[q] = rows[q]
      PROVE  PaidStatusBacked'
  <2>1. p \in Having(type, "PAID")'
    BY <1>2 DEF Having
  <2>2. \A ty \in Types : Having(ty, "PAID") \subseteq Having(ty, "PAID")'
    BY <1>2 DEF Having, Exists
  <2>3. \/ status' = status
        \/ type = "DEPOSIT" /\ status' = "DEPOSIT_PAID"
        \/ type = "FULL" /\ status' = "PAID"
    BY <1>2 DEF StatusPaid, Types
  <2> QED
    BY <2>1, <2>2, <2>3 DEF PaidStatusBacked, Types
<1>3. CASE Quiet
  BY <1>3 DEF Quiet, PaidStatusBacked, Having, Exists
<1>4. CASE Refunded
  BY <1>4 DEF Refunded, PaidStatusBacked
<1>5. CASE Opened
  <2>1. \A type : Having(type, "PAID") \subseteq Having(type, "PAID")'
    BY <1>5 DEF Opened, Having, Exists, TypeOK
  <2> QED
    BY <1>5, <2>1 DEF Opened, PaidStatusBacked
<1>6. CASE Cashed
  <2>1. PICK p \in Rows, r \in Payments :
            /\ ~Exists(p) /\ r.status = "PAID" /\ rows' = [rows EXCEPT ![p] = r]
            /\ status' = StatusPaid(r.type)
    BY <1>6 DEF Cashed
  <2>2. r.type \in Types /\ rows'[p] = r /\ r # NoRow
    BY <2>1, LifecycleValues DEF TypeOK, Payments
  <2>3. \A q \in Rows : Exists(q) => rows'[q] = rows[q]
    BY <2>1 DEF TypeOK
  <2> QED
    BY <1>2, <2>1, <2>2, <2>3 DEF Exists
<1>7. CASE Failed
  <2>1. PICK S \in SUBSET OpenRows : rows' = WithStatus(S, "FAILED")
    BY <1>7 DEF Failed
  <2>2. S \in SUBSET Rows /\ \A p \in S : Exists(p) /\ rows[p].status = "PENDING"
    BY <2>1, HavingFacts
  <2>3. \A p \in Rows \ S : rows'[p] = rows[p]
    BY <2>1, <2>2, WithStatusType
  <2>4. \A type : Having(type, "PAID") \subseteq Having(type, "PAID")'
    BY <2>2, <2>3 DEF Having, Exists
  <2> QED
    BY <1>7, <2>4 DEF Failed, PaidStatusBacked
<1>8. CASE Settled
  <2>1. PICK p \in OpenRows : /\ rows' = WithStatus({p}, "PAID")
                              /\ status' = StatusPaid(rows[p].type)
    BY <1>8 DEF Settled
  <2>2. p \in Rows /\ Exists(p) /\ rows[p].status = "PENDING" /\ rows[p].type \in Types
    BY <2>1, HavingFacts, RowFacts
  <2>3. /\ \A q \in Rows \ {p} : rows'[q] = rows[q]
        /\ rows'[p] # NoRow /\ rows'[p].status = "PAID" /\ rows'[p].type = rows[p].type
    BY <2>1, <2>2, WithStatusType
  <2> QED
    BY <1>2, <2>1, <2>2, <2>3 DEF Exists
<1> QED
  BY <1>1, <1>3, <1>4, <1>5, <1>6, <1>7, <1>8 DEF Effect

\* A booking shown as DEPOSIT_PAID or PAID stands on a PAID row of that type, in
\* every interleaving of transitions, payments, webhooks and ticks.
THEOREM ShownMoneyIsBacked == Spec => []PaidStatusBacked
<1>1. Init => PaidStatusBacked
  BY DEF Init, PaidStatusBacked
<1> QED
  BY <1>1, TypeInit, InvStep, BackedStep, PTL DEF Spec
-----------------------------------------------------------------------------
\* The refinement mapping.
LedgerState == [p \in Rows |-> IF Exists(p) THEN rows[p].status ELSE "none"]

LEMMA LedgerStep == Inv /\ [Next]_vars => [Ledger!Next]_(Ledger!ledger)
<1> SUFFICES ASSUME Inv, [Next]_vars PROVE [Ledger!Next]_(Ledger!ledger)
  OBVIOUS
<1> USE DEF Inv
<1>1. Effect
  BY StepEffect
<1>2. CASE Quiet
  <2>1. LedgerState' = LedgerState /\ answers' = answers
    BY <1>2 DEF Quiet, LedgerState, Exists
  <2> QED
    BY <2>1 DEF Ledger!ledger, LedgerState
<1>3. CASE Refunded
  <2>1. PaidRows \in SUBSET Rows /\ \A p \in PaidRows : Exists(p)
    BY HavingFacts
  <2>2. /\ \A p \in Rows \ PaidRows : rows'[p] = rows[p]
        /\ \A p \in PaidRows : rows'[p] # NoRow /\ rows'[p].status = "REFUNDED"
    BY <1>3, <2>1, WithStatusType DEF Refunded
  <2>3. \A p \in Rows : LedgerState'[p] = IF LedgerState[p] = "PAID" THEN "REFUNDED" ELSE LedgerState[p]
    BY <2>2, HavingFacts DEF LedgerState, Exists
  <2>4. LedgerState' = [p \in Rows |-> IF LedgerState[p] = "PAID" THEN "REFUNDED" ELSE LedgerState[p]]
    BY <2>3 DEF LedgerState
  <2>5. Ledger!Refund
    BY <1>3, <2>4 DEF Ledger!Refund, LedgerState, Refunded
  <2> QED
    BY <2>5 DEF Ledger!Next
<1>4. CASE Opened \/ Cashed
  <2>1. PICK p \in Rows, r \in Payments :
            ~Exists(p) /\ r.status \in {"PENDING", "PAID"} /\ rows' = [rows EXCEPT ![p] = r]
    BY <1>4 DEF Opened, Cashed
  <2>2. rows'[p] = r /\ r # NoRow /\ \A q \in Rows \ {p} : rows'[q] = rows[q]
    BY <2>1, LifecycleValues DEF TypeOK
  <2>3. LedgerState[p] = "none"
    BY <2>1 DEF LedgerState
  <2>4. LedgerState'[p] = r.status /\ \A q \in Rows \ {p} : LedgerState'[q] = LedgerState[q]
    BY <2>1, <2>2 DEF LedgerState, Exists
  <2>5. LedgerState' = [LedgerState EXCEPT ![p] = r.status]
    BY <2>4 DEF LedgerState
  <2>6. Ledger!Open(p)
    BY <1>4, <2>1, <2>3, <2>5 DEF Ledger!Open, LedgerState, Opened, Cashed
  <2> QED
    BY <2>6 DEF Ledger!Next
<1>5. CASE Failed
  <2>1. PICK S \in SUBSET OpenRows : rows' = WithStatus(S, "FAILED")
    BY <1>5 DEF Failed
  <2>2. S \in SUBSET Rows /\ \A p \in S : Exists(p) /\ rows[p].status = "PENDING"
    BY <2>1, HavingFacts
  <2>3. /\ \A p \in Rows \ S : rows'[p] = rows[p]
        /\ \A p \in S : rows'[p] # NoRow /\ rows'[p].status = "FAILED"
    BY <2>1, <2>2, WithStatusType
  <2>4. /\ \A p \in S : LedgerState[p] = "PENDING"
        /\ LedgerState' = [p \in Rows |-> IF p \in S THEN "FAILED" ELSE LedgerState[p]]
    BY <2>2, <2>3 DEF LedgerState, Exists
  <2>5. Ledger!Fail(S)
    BY <1>5, <2>4 DEF Ledger!Fail, LedgerState, Failed
  <2> QED
    BY <2>2, <2>5 DEF Ledger!Next
<1>6. CASE Settled
  <2>1. PICK p \in OpenRows : /\ rows' = WithStatus({p}, "PAID")
                              /\ answers' = [answers EXCEPT ![p] = @ + 1]
    BY <1>6 DEF Settled
  <2>2. p \in Rows /\ Exists(p) /\ rows[p].status = "PENDING"
    BY <2>1, HavingFacts
  <2>3. /\ \A q \in Rows \ {p} : rows'[q] = rows[q]
        /\ rows'[p] # NoRow /\ rows'[p].status = "PAID"
    BY <2>1, <2>2, WithStatusType
  <2>4. LedgerState[p] = "PENDING" /\ LedgerState' = [LedgerState EXCEPT ![p] = "PAID"]
    BY <2>2, <2>3 DEF LedgerState, Exists
  <2>5. Ledger!Settle(p)
    BY <2>1, <2>4 DEF Ledger!Settle, LedgerState
  <2> QED
    BY <2>2, <2>5 DEF Ledger!Next
<1> QED
  BY <1>1, <1>2, <1>3, <1>4, <1>5, <1>6 DEF Effect

\* The payments table implements PaymentLedger: a row is opened once, settles once
\* at most and only while it is open, whatever the bank repeats or delays.
THEOREM PaymentsFollowLedger == Spec => FollowsLedger
<1>1. Init => Ledger!Init
  BY DEF Init, Ledger!Init, Exists
<1> QED
  BY <1>1, TypeInit, InvStep, LedgerStep, PTL DEF Spec, FollowsLedger, Ledger!Spec
-----------------------------------------------------------------------------
\* A decision on the booking is open: it is still PENDING, or a confirmation that
\* found it so has not been written yet.
Undecided == status = "PENDING" \/ \E c \in Calls : Asked(c, "confirm")

\* Until the decision is made nobody can have paid, or be about to.
UndecidedInv ==
  Undecided =>
    /\ status \in {"PENDING", "REJECTED", "CANCELLED", "DELETED"}
    /\ \A p \in Rows : ~Exists(p)
    /\ \A c \in Calls : call[c] = Idle \/ call[c].op \in {"confirm", "reject", "cancel", "remove"}

\* Only one confirmation is under way.
SoleConfirm ==
  \A c, d \in Calls : Asked(c, "confirm") /\ Asked(d, "confirm") => c = d

\* A booking that waits for its deposit has received nothing.
DepositDue == status = "DEPOSIT_PENDING" => PaidRows = {}

DepositInv == Inv /\ SoleConfirm /\ UndecidedInv /\ DepositDue

\* A step moves one request at most.
LEMMA OneRequestMoves ==
  ASSUME Inv, [Next]_vars
  PROVE  \/ call' = call
         \/ \E c \in Calls : \A d \in Calls \ {c} : call'[d] = call[d]
<1>1. ASSUME NEW c \in Calls, Transition(c) \/ Payment(c) \/ Webhook(c) \/ Stop(c)
      PROVE  \A d \in Calls \ {c} : call'[d] = call[d]
  <2>1. PICK q \in Requests \cup {Idle} : call' = [call EXCEPT ![c] = q]
    BY <1>1, RequestStep
  <2> QED
    BY <2>1 DEF Inv, TypeOK
<1>2. (\E t \in Ticks : Tick(t)) \/ DeadlinePasses \/ UNCHANGED vars => call' = call
  BY DEF Tick, ScanExpired, Expire, TickFails, DeadlinePasses, vars
<1> QED
  BY <1>1, <1>2 DEF Next

\* Counting the confirmations keeps a second one from starting.
LEMMA SoleStep == Inv /\ SoleConfirm /\ [Next /\ OneConfirm']_vars => SoleConfirm'
<1> SUFFICES ASSUME Inv, SoleConfirm, [Next /\ OneConfirm']_vars,
                    NEW d \in Calls, NEW e \in Calls,
                    Asked(d, "confirm")', Asked(e, "confirm")', d # e
             PROVE  FALSE
  BY DEF SoleConfirm
<1>1. CASE call' = call
  BY <1>1 DEF SoleConfirm, Asked
<1>2. CASE call' # call
  <2>1. OneConfirm'
    BY <1>2 DEF vars
  <2>2. PICK c \in Calls : \A x \in Calls \ {c} : call'[x] = call[x]
    BY <1>2, OneRequestMoves
  <2> DEFINE S == {x \in Calls : Asked(x, "confirm")'}
  <2>3. PICK x \in {d, e} : x # c
    OBVIOUS
  <2>4. S \subseteq {x, c}
    BY <2>2, <2>3 DEF SoleConfirm, Asked
  <2>5. IsFiniteSet(S)
    <3>1. IsFiniteSet({x}) /\ IsFiniteSet({x} \cup {c})
      BY FS_Singleton, FS_AddElement
    <3>2. {x} \cup {c} = {x, c}
      OBVIOUS
    <3> QED
      BY <2>4, <3>1, <3>2, FS_Subset
  <2>6. Cardinality({d} \cup {e}) = 2
    <3>1. IsFiniteSet({d}) /\ Cardinality({d}) = 1 /\ e \notin {d}
      BY FS_Singleton
    <3>2. Cardinality({d} \cup {e}) = Cardinality({d}) + 1
      BY <3>1, FS_AddElement
    <3> QED
      BY <3>1, <3>2
  <2>7. {d} \cup {e} \subseteq S
    OBVIOUS
  <2>8. Cardinality({d} \cup {e}) <= Cardinality(S)
    BY <2>5, <2>7, FS_Subset
  <2>9. Cardinality(S) <= 1
    BY <2>1 DEF OneConfirm
  <2>10. Cardinality(S) \in Nat
    BY <2>5, FS_CardinalityType
  <2> QED
    BY <2>6, <2>8, <2>9, <2>10
<1> QED
  BY <1>1, <1>2

\* No payment makes a booking PENDING.
LEMMA PaidIsNotPending ==
  ASSUME NEW type \in Types, StatusPaid(type) = "PENDING"
  PROVE  status = "PENDING"
BY DEF StatusPaid, Types

\* Nothing makes a booking PENDING again, and a confirmation starts from PENDING.
LEMMA NeverUndecidedAgain ==
  ASSUME Inv, [Next]_vars, Undecided'
  PROVE  Undecided
<1>1. ASSUME NEW c \in Calls, Transition(c) PROVE Undecided
  <2>1. CASE AskConfirm(c)
    BY <2>1 DEF AskConfirm, Ask, Undecided
  <2>2. CASE AskReject(c) \/ AskComplete(c) \/ AskCancel(c) \/ AskRemove(c)
    BY <2>2 DEF Inv, TypeOK, AskReject, AskComplete, AskCancel, AskRemove, Ask, booking, Undecided, Asked
  <2>3. CASE Confirm(c) \/ Reject(c) \/ Complete(c) \/ Cancel(c) \/ Remove(c)
    <3>1. call' = [call EXCEPT ![c] = Idle] /\ (status' = "PENDING" => status = "PENDING")
      BY <2>3 DEF Confirm, Reject, Complete, Cancel, Remove, Write, Done
    <3> QED
      BY <3>1 DEF Inv, TypeOK, Undecided, Asked
  <2> QED
    BY <1>1, <2>1, <2>2, <2>3 DEF Transition
<1>2. ASSUME NEW c \in Calls, Payment(c) PROVE Undecided
  <2>1. status' = "PENDING" => status = "PENDING"
    <3>1. CASE RecordCash(c)
      <4>1. call[c].type \in Types /\ status' = StatusPaid(call[c].type)
        BY <3>1, RequestFacts DEF RecordCash, Asked, Inv
      <4> QED
        BY <4>1, PaidIsNotPending
    <3>2. ~RecordCash(c) => status' = status
      BY <1>2 DEF Payment, AskPay, AskRecord, AskCharge, CheckPaid, Replace, Insert, booking
    <3> QED
      BY <3>1, <3>2
  <2>2. \/ call' = [call EXCEPT ![c] = Idle]
        \/ \E q : call' = [call EXCEPT ![c] = q] /\ q.op # "confirm"
        \/ \E op \in {"cash", "replace", "insert"} :
              call' = [call EXCEPT ![c].op = op] /\ call[c] # Idle /\ call[c].op \in {"check", "replace"}
    <3>1. CASE AskPay(c) \/ AskRecord(c)
      BY <3>1 DEF AskPay, AskRecord, AskCharge
    <3>2. CASE CheckPaid(c) \/ RecordCash(c) \/ Replace(c) \/ Insert(c)
      BY <3>2 DEF CheckPaid, RecordCash, Replace, Insert, NewRow, Done, Asked
    <3> QED
      BY <1>2, <3>1, <3>2 DEF Payment
  <2>3. ~Asked(c, "confirm")'
    <3>1. CASE call' = [call EXCEPT ![c] = Idle]
      BY <3>1 DEF Inv, TypeOK, Asked
    <3>2. CASE \E q : call' = [call EXCEPT ![c] = q] /\ q.op # "confirm"
      BY <3>2 DEF Inv, TypeOK, Asked
    <3>3. ASSUME NEW op \in {"cash", "replace", "insert"}, call' = [call EXCEPT ![c].op = op],
                 call[c] # Idle, call[c].op \in {"check", "replace"}
          PROVE  ~Asked(c, "confirm")'
      <4>1. call[c] \in [op : {"check", "cash", "replace", "insert"}, type : Types,
                         amount : 0..Total, cash : BOOLEAN]
        BY <3>3, RequestFacts DEF Inv
      <4>2. call'[c].op = op
        BY <3>3, <4>1 DEF Inv, TypeOK
      <4> QED
        BY <4>2 DEF Asked
    <3> QED
      BY <2>2, <3>1, <3>2, <3>3
  <2>4. \A d \in Calls \ {c} : call'[d] = call[d]
    BY <2>2 DEF Inv, TypeOK
  <2> QED
    BY <2>1, <2>3, <2>4 DEF Undecided, Asked
<1>3. ASSUME NEW c \in Calls, Webhook(c) \/ Stop(c) PROVE Undecided
  <2>1. status' = "PENDING" => status = "PENDING"
    <3>1. CASE Settle(c) /\ status' # status
      <4>1. rows[call[c].row].type \in Types /\ status' = StatusPaid(rows[call[c].row].type)
        BY <3>1, RequestFacts, RowFacts DEF Settle, Asked, Inv, RequestsInv
      <4> QED
        BY <4>1, PaidIsNotPending
    <3>2. ~Settle(c) => status' = status
      BY <1>3 DEF Webhook, AskWebhook, PaidShort, Stop, booking
    <3> QED
      BY <3>1, <3>2
  <2>2. \/ call' = [call EXCEPT ![c] = Idle]
        \/ \E q : call' = [call EXCEPT ![c] = q] /\ q.op # "confirm"
    BY <1>3 DEF Webhook, AskWebhook, Settle, PaidShort, Stop, Done
  <2> QED
    BY <2>1, <2>2 DEF Inv, TypeOK, Undecided, Asked
<1>4. CASE \E t \in Ticks : Tick(t)
  BY <1>4 DEF Tick, ScanExpired, Expire, TickFails, booking, Undecided, Asked
<1>5. CASE DeadlinePasses \/ UNCHANGED vars
  BY <1>5 DEF DeadlinePasses, vars, booking, Undecided, Asked
<1> QED
  BY <1>1, <1>2, <1>3, <1>4, <1>5 DEF Next

\* What is true until the decision stays true until then.
LEMMA UndecidedStep ==
  Inv /\ SoleConfirm /\ UndecidedInv /\ [Next]_vars => UndecidedInv'
<1> SUFFICES ASSUME Inv, SoleConfirm, UndecidedInv, [Next]_vars, Undecided' PROVE UndecidedInv'
  BY DEF UndecidedInv
<1>1. /\ status \in {"PENDING", "REJECTED", "CANCELLED", "DELETED"}
      /\ \A p \in Rows : ~Exists(p)
      /\ \A c \in Calls : call[c] = Idle \/ call[c].op \in {"confirm", "reject", "cancel", "remove"}
  BY NeverUndecidedAgain DEF UndecidedInv
<1> DEFINE Calm == /\ status' \in {"PENDING", "REJECTED", "CANCELLED", "DELETED"}
                   /\ rows' = rows
                   /\ \E c \in Calls, q \in Requests \cup {Idle} :
                         /\ call' = [call EXCEPT ![c] = q]
                         /\ q = Idle \/ q.op \in {"confirm", "reject", "cancel", "remove"}
<1>2. ASSUME NEW c \in Calls, Transition(c) PROVE Calm
  <2>1. CASE AskConfirm(c) \/ AskReject(c) \/ AskCancel(c) \/ AskRemove(c)
    <3>1. PICK op \in {"confirm", "reject", "cancel", "remove"} :
              call' = [call EXCEPT ![c] = [op |-> op]]
      BY <2>1 DEF AskConfirm, AskReject, AskCancel, AskRemove, Ask
    <3>2. [op |-> op] \in Requests /\ [op |-> op].op = op
      BY DEF Requests
    <3>3. status' = status /\ rows' = rows
      BY <2>1 DEF AskConfirm, AskReject, AskCancel, AskRemove, Ask, booking
    <3> QED
      BY <1>1, <3>1, <3>2, <3>3
  <2>2. CASE Reject(c) \/ Remove(c)
    BY <1>1, <2>2 DEF Reject, Remove, Write, Done
  <2>3. CASE Cancel(c)
    <3>1. PaidRows = {}
      BY <1>1, HavingFacts DEF Inv
    <3>2. WithStatus(PaidRows, "REFUNDED") = rows
      BY <3>1 DEF WithStatus, Inv, TypeOK
    <3> QED
      BY <1>1, <2>3, <3>2 DEF Cancel, Write, Done
  <2>4. ~Confirm(c)
    <3>1. ASSUME Confirm(c) PROVE ~Undecided'
      <4>1. status' # "PENDING" /\ Asked(c, "confirm") /\ call' = [call EXCEPT ![c] = Idle]
        BY <3>1 DEF Confirm, Write, Done
      <4> QED
        BY <4>1 DEF Undecided, SoleConfirm, Asked, Inv, TypeOK
    <3> QED
      BY <3>1
  <2>5. ~AskComplete(c) /\ ~Complete(c)
    BY <1>1 DEF AskComplete, Ask, Complete, Asked
  <2> QED
    BY <1>2, <2>1, <2>2, <2>3, <2>4, <2>5 DEF Transition
<1>3. ASSUME NEW c \in Calls PROVE ~Payment(c)
  BY <1>1 DEF Payment, AskPay, AskRecord, AskCharge, Payable, CheckPaid, RecordCash, Replace,
              Insert, Asked
<1>4. ASSUME NEW c \in Calls PROVE ~Webhook(c)
  BY <1>1 DEF Webhook, AskWebhook, Settle, PaidShort, Asked
<1>5. ASSUME NEW c \in Calls, Stop(c) PROVE Calm
  BY <1>1, <1>5 DEF Stop, Done, booking
<1>6. CASE Calm
  <2>1. PICK c \in Calls, q \in Requests \cup {Idle} :
            /\ call' = [call EXCEPT ![c] = q]
            /\ q = Idle \/ q.op \in {"confirm", "reject", "cancel", "remove"}
    BY <1>6
  <2>2. \A d \in Calls : call'[d] = Idle \/ call'[d].op \in {"confirm", "reject", "cancel", "remove"}
    BY <1>1, <2>1 DEF Inv, TypeOK
  <2> QED
    BY <1>1, <1>6, <2>2 DEF UndecidedInv, Exists
<1>7. CASE (\E t \in Ticks : Tick(t)) \/ DeadlinePasses \/ UNCHANGED vars
  <2>1. status' = status /\ rows' = rows /\ call' = call
    BY <1>1, <1>7 DEF Tick, ScanExpired, Expire, TickFails, DeadlinePasses, vars, booking
  <2> QED
    BY <1>1, <2>1 DEF UndecidedInv, Exists
<1> QED
  BY <1>2, <1>3, <1>4, <1>5, <1>6, <1>7 DEF Next

\* A booking comes to wait for its deposit only by a confirmation.
LEMMA DepositAskedByConfirm ==
  ASSUME Inv, [Next]_vars, status' = "DEPOSIT_PENDING", status # "DEPOSIT_PENDING"
  PROVE  \E c \in Calls : Confirm(c)
<1>1. ASSUME NEW c \in Calls, Transition(c) PROVE Confirm(c)
  BY <1>1 DEF Transition, AskConfirm, AskReject, AskComplete, AskCancel, AskRemove, Ask, Reject,
              Complete, Cancel, Remove, Write, booking
<1>2. \A type \in Types : status' # StatusPaid(type)
  BY DEF StatusPaid, Types
<1>3. ASSUME NEW c \in Calls, Payment(c) PROVE FALSE
  <2>1. RecordCash(c)
    BY <1>3 DEF Payment, AskPay, AskRecord, AskCharge, CheckPaid, Replace, Insert, booking
  <2> QED
    BY <1>2, <2>1, RequestFacts DEF RecordCash, Asked, Inv
<1>4. ASSUME NEW c \in Calls, Webhook(c) \/ Stop(c) PROVE FALSE
  <2>1. Settle(c)
    BY <1>4 DEF Webhook, AskWebhook, PaidShort, Stop, booking
  <2> QED
    BY <1>2, <2>1, RequestFacts, RowFacts DEF Settle, Asked, Inv, RequestsInv
<1>5. ~((\E t \in Ticks : Tick(t)) \/ DeadlinePasses \/ UNCHANGED vars)
  BY DEF Tick, ScanExpired, Expire, TickFails, DeadlinePasses, vars, booking
<1> QED
  BY <1>1, <1>3, <1>4, <1>5 DEF Next

\* Money that comes in takes the booking out of DEPOSIT_PENDING.
LEMMA DepositDueStep ==
  Inv /\ UndecidedInv /\ DepositDue /\ [Next]_vars => DepositDue'
<1> SUFFICES ASSUME Inv, UndecidedInv, DepositDue, [Next]_vars, status' = "DEPOSIT_PENDING"
             PROVE  PaidRows' = {}
  BY DEF DepositDue
<1>1. PaidRows = {}
  <2>1. CASE status = "DEPOSIT_PENDING"
    BY <2>1 DEF DepositDue
  <2>2. CASE status # "DEPOSIT_PENDING"
    <3>1. Undecided
      BY <2>2, DepositAskedByConfirm DEF Confirm, Undecided
    <3> QED
      BY <3>1, HavingFacts DEF UndecidedInv, Inv
  <2> QED
    BY <2>1, <2>2
<1>2. \A p \in Rows : ~(Exists(p) /\ rows[p].status = "PAID")
  BY <1>1, HavingFacts DEF Inv
<1>3. \A type \in Types : status' # StatusPaid(type)
  BY DEF StatusPaid, Types, Payable
<1>4. \A p \in Rows : ~(rows'[p] # NoRow /\ rows'[p].status = "PAID")
  <2>1. CASE Quiet
    BY <1>2, <2>1 DEF Quiet, Exists
  <2>2. ~Refunded
    BY DEF Refunded
  <2>3. CASE Opened
    BY <1>2, <2>3 DEF Opened, Exists, Inv, TypeOK
  <2>4. ~Cashed
    BY <1>3 DEF Cashed, Payments
  <2>5. CASE Failed
    <3>1. PICK S \in SUBSET OpenRows : rows' = WithStatus(S, "FAILED")
      BY <2>5 DEF Failed
    <3>2. S \in SUBSET Rows /\ \A p \in S : Exists(p)
      BY <3>1, HavingFacts DEF Inv
    <3> QED
      BY <1>2, <3>1, <3>2, WithStatusType DEF Inv, Exists
  <2>6. ~Settled
    BY <1>3, HavingFacts, RowFacts DEF Settled, Inv
  <2> QED
    BY <2>1, <2>2, <2>3, <2>4, <2>5, <2>6, StepEffect DEF Effect
<1> QED
  BY <1>4 DEF PaidRows, Having, Exists

LEMMA DepositInvInit == Init => DepositInv
<1> SUFFICES ASSUME Init PROVE DepositInv
  OBVIOUS
<1>1. Inv
  BY TypeInit
<1>2. \A c \in Calls : call[c] = Idle
  BY DEF Init
<1>3. \A p \in Rows : ~Exists(p)
  BY DEF Init, Exists
<1>4. status \in {"PENDING", "CONFIRMED"}
  BY DEF Init
<1> QED
  BY <1>1, <1>2, <1>3, <1>4
  DEF DepositInv, SoleConfirm, UndecidedInv, Undecided, DepositDue, Asked

\* The automatic cancellation takes only a booking that has received nothing: money
\* that comes in between the query of a tick and its update moves the booking out of
\* DEPOSIT_PENDING, and the update looks at the status again. Two confirmations at
\* the same time are excluded: the second would ask a deposit of one who has paid.
THEOREM CancellationSparesPaid == OneConfirmSpec => AutoCancelSparesPaid
<1> DEFINE Spares == \A t \in Ticks :
              t \in tick /\ t \notin tick' /\ status # "CANCELLED" /\ status' = "CANCELLED"
              => PaidRows = {}
<1>1. DepositInv /\ [Next /\ OneConfirm']_vars => DepositInv'
  BY InvStep, SoleStep, UndecidedStep, DepositDueStep DEF DepositInv
<1>2. DepositInv /\ [Next /\ OneConfirm']_vars => [Spares]_vars
  <2> SUFFICES ASSUME DepositInv, Next, NEW t \in Ticks, t \in tick, t \notin tick',
                      status # "CANCELLED", status' = "CANCELLED"
               PROVE  PaidRows = {}
    OBVIOUS
  <2>1. PICK u \in Ticks : Tick(u)
    <3>1. ASSUME NEW c \in Calls, Transition(c) PROVE tick' = tick
      BY <3>1 DEF Transition, AskConfirm, AskReject, AskComplete, AskCancel, AskRemove, Ask,
                  Confirm, Reject, Complete, Cancel, Remove, Write
    <3>2. ASSUME NEW c \in Calls, Payment(c) \/ Webhook(c) \/ Stop(c) PROVE tick' = tick
      BY <3>2 DEF Payment, AskPay, AskRecord, AskCharge, CheckPaid, RecordCash, Replace, Insert,
                  Webhook, AskWebhook, Settle, PaidShort, Stop
    <3>3. DeadlinePasses => tick' = tick
      BY DEF DeadlinePasses
    <3> QED
      BY <3>1, <3>2, <3>3 DEF Next
  <2>2. status = "DEPOSIT_PENDING"
    BY <2>1 DEF Tick, ScanExpired, Expire, TickFails, booking
  <2> QED
    BY <2>2 DEF DepositInv, DepositDue
<1> QED
  BY <1>1, <1>2, DepositInvInit, PTL DEF OneConfirmSpec, AutoCancelSparesPaid
=============================================================================
