------------------------------ MODULE Checkout ------------------------------
(***************************************************************************)
(* What a booking costs: the price part of BookingsService.create() and    *)
(* createWalkIn(), PromotionsService's discount and the one coupon whose    *)
(* code the customers enter (CouponsService.applyToBooking, recordUsage),  *)
(* with the store that stops promotions and edits or removes the coupon    *)
(* while bookings are under way.                                           *)
(*                                                                         *)
(* The running promotion is read once, before the transaction and its      *)
(* retries; the coupon is read under a lock on its row.  Rows written by a *)
(* transaction become visible when it commits.  Money is counted in units  *)
(* that percentages divide, so Decimal(12,2) rounding is not represented.  *)
(***************************************************************************)
EXTENDS Integers, Sequences, FiniteSets

CONSTANTS Requests,      \* calls of create() and createWalkIn()
          Customers, Guest,
          Services,      \* the services of the store
          Carts,         \* what the requests ask for
          Offers,        \* rows of the promotions table
          NoOffer,       \* no promotion is running
          Terms,         \* type, value, minAmount and maxDiscount of the coupon
          UsageLimit,    \* usageLimit
          PerUserLimit,  \* perUserLimit
          NoLimit,       \* null in any of the limits
          Nobody,        \* no transaction holds the coupon row
          Managers       \* calls of CouponsService.remove

Limits      == Nat \cup {NoLimit}
Kinds       == {"PERCENTAGE", "FIXED"}
Lines       == [service : Services, price : Nat]
CartBodies  == [customer : Customers \cup {Guest}, lines : Seq(Lines), coded : BOOLEAN]
OfferRows   == [type : Kinds, value : Nat, services : SUBSET Services]
CouponTerms == [type : Kinds, value : Nat, minAmount : Limits, maxDiscount : Limits]

ASSUME CheckoutValues ==
  /\ Guest \notin Customers
  /\ NoOffer \notin Offers
  /\ NoLimit \notin Nat
  /\ Nobody \notin Requests

\* The DTOs: a walk-in takes no code, a percentage stays within 1..100.
ASSUME CheckoutInputs ==
  /\ Carts \subseteq CartBodies
  /\ \A b \in Carts : b.customer = Guest => ~b.coded
  /\ Offers \subseteq OfferRows
  /\ Terms \in CouponTerms
  /\ \A t \in Offers \cup {Terms} : t.type = "PERCENTAGE" => t.value \in 1..100
  /\ UsageLimit \in Limits /\ PerUserLimit \in Limits

VARIABLES pc,       \* pc[r]: where request r stands
          cart,     \* cart[r]: its body
          offer,    \* offer[r]: activePromotion, as read before the transaction
          bill,     \* bill[r]: the amounts stored with the booking
          rows,     \* promotions that have not been deleted
          running,  \* those active and within their dates
          exists,   \* the coupon row
          enabled,  \* isActive
          expired,  \* expiredAt has passed
          used,     \* usedCount
          usages,   \* committed rows of coupon_usages, one per booking at most
          holder,   \* the transaction that holds the lock on the coupon row
          seen      \* seen[m]: usedCount as CouponsService.remove has read it

coupon == <<exists, enabled, expired>>
uses   == <<used, usages, holder>>
vars   == <<pc, cart, offer, bill, rows, running, coupon, uses, seen>>

InTx  == {"price", "lock", "check", "use", "insert"}

-----------------------------------------------------------------------------
Smaller(a, b) == IF a < b THEN a ELSE b

Over(lines, Amount(_)) ==
  LET sum[i \in 0..Len(lines)] == IF i = 0 THEN 0 ELSE sum[i - 1] + Amount(lines[i])
  IN sum[Len(lines)]

\* PromotionsService.calcDiscount
Reduction(o, price) ==
  IF o.type = "PERCENTAGE" THEN (price * o.value) \div 100 ELSE Smaller(o.value, price)

\* isServiceInScope: STORE and CATEGORY are given by the services they reach.
Saving(o, l) == IF o # NoOffer /\ l.service \in o.services THEN Reduction(o, l.price) ELSE 0

Gross(r)   == Over(cart[r].lines, LAMBDA l : l.price)
Savings(r) == Over(cart[r].lines, LAMBDA l : Saving(offer[r], l))
Total(r)   == Over(cart[r].lines, LAMBDA l : l.price - Saving(offer[r], l))

\* Mutant: a fixed coupon is not capped by the total.
CouponDiscountUncapped(total) ==
  IF Terms.type = "PERCENTAGE"
  THEN LET raw == (total * Terms.value) \div 100
       IN IF Terms.maxDiscount = NoLimit THEN raw ELSE Smaller(raw, Terms.maxDiscount)
  ELSE Terms.value

\* CouponsService.calcDiscount
CouponDiscount(total) ==
  IF Terms.type = "PERCENTAGE"
  THEN LET raw == (total * Terms.value) \div 100
       IN IF Terms.maxDiscount = NoLimit THEN raw ELSE Smaller(raw, Terms.maxDiscount)
  ELSE Smaller(Terms.value, total)

\* create(): the total has the promotion in it already.
CustomerBill(r) ==
  LET discount == IF cart[r].coded THEN CouponDiscount(Total(r)) ELSE 0
  IN [saving |-> Savings(r), total |-> Total(r), discount |-> discount,
      final |-> Total(r) - discount]

\* createWalkIn() subtracts the promotion from the reduced total once more.
WalkInBill(r) ==
  [saving |-> Savings(r), total |-> Total(r), discount |-> 0, final |-> Total(r) - Savings(r)]

UsedBy(u) == {q \in usages : cart[q].customer = u}

\* Mutant: <= in place of < for the total number of uses.
UsableOnceMore(r) ==
  /\ exists /\ enabled /\ ~expired
  /\ UsageLimit # NoLimit => used <= UsageLimit
  /\ PerUserLimit # NoLimit => Cardinality(UsedBy(cart[r].customer)) < PerUserLimit
  /\ Terms.minAmount # NoLimit => Total(r) >= Terms.minAmount

\* assertCouponUsable and minAmount
Usable(r) ==
  /\ exists /\ enabled /\ ~expired
  /\ UsageLimit # NoLimit => used < UsageLimit
  /\ PerUserLimit # NoLimit => Cardinality(UsedBy(cart[r].customer)) < PerUserLimit
  /\ Terms.minAmount # NoLimit => Total(r) >= Terms.minAmount

-----------------------------------------------------------------------------
Init ==
  /\ pc = [r \in Requests |-> "new"]
  /\ cart \in [Requests -> Carts]
  /\ offer = [r \in Requests |-> NoOffer]
  /\ bill = [r \in Requests |-> NoOffer]
  /\ rows = Offers
  /\ running \in {{}} \cup {{o} : o \in Offers}
  /\ exists = TRUE
  /\ enabled = TRUE
  /\ expired = FALSE
  /\ used = 0
  /\ usages = {}
  /\ holder = Nobody
  /\ seen = [m \in Managers |-> NoLimit]

Goto(r, step) == pc' = [pc EXCEPT ![r] = step]
Unlock(r)     == holder' = IF holder = r THEN Nobody ELSE holder

\* findActiveForStore, before the transaction: the running one of highest value.
ReadOffer(r) ==
  /\ pc[r] = "new"
  /\ \/ running = {} /\ UNCHANGED offer
     \/ \E o \in running :
           /\ \A p \in running : p.value <= o.value
           /\ offer' = [offer EXCEPT ![r] = o]
  /\ Goto(r, "price")
  /\ UNCHANGED <<cart, bill, rows, running, coupon, uses, seen>>

\* The loop over the services; a code leads to applyToBooking.
PriceItems(r) ==
  /\ pc[r] = "price"
  /\ Goto(r, IF cart[r].coded THEN "lock" ELSE "insert")
  /\ UNCHANGED <<cart, offer, bill, rows, running, coupon, uses, seen>>

\* Mutant: the coupon is read without its lock, which only the UPDATE takes.
LockCouponPlainRead(r) ==
  /\ pc[r] = "lock"
  /\ Goto(r, "check")
  /\ UNCHANGED <<cart, offer, bill, rows, running, coupon, uses, seen>>

\* SELECT ... FOR UPDATE on the coupon row; a row that is not there locks nothing.
LockCoupon(r) ==
  /\ pc[r] = "lock"
  /\ holder = Nobody
  /\ holder' = IF exists THEN r ELSE Nobody
  /\ Goto(r, "check")
  /\ UNCHANGED <<cart, offer, bill, rows, running, coupon, used, usages, seen>>

\* A BadRequestException: rollback, no retry.
Refuse(r) ==
  /\ Goto(r, "refused")
  /\ Unlock(r)
  /\ UNCHANGED <<cart, offer, bill, rows, running, coupon, used, usages, seen>>

CheckCoupon(r) ==
  /\ pc[r] = "check"
  /\ IF Usable(r)
     THEN /\ Goto(r, "use")
          /\ UNCHANGED <<cart, offer, bill, rows, running, coupon, uses, seen>>
     ELSE Refuse(r)

\* UPDATE coupons SET used_count = used_count + 1: takes the row lock if need be;
\* the new count is seen by others from the commit on.
UseCoupon(r) ==
  /\ pc[r] = "use"
  /\ holder \in {Nobody, r}
  /\ holder' = r
  /\ Goto(r, "insert")
  /\ UNCHANGED <<cart, offer, bill, rows, running, coupon, used, usages, seen>>

\* booking.create, recordUsage and COMMIT; the foreign key asks for the promotion
\* whose discount has been applied.
Insert(r, b) ==
  /\ pc[r] = "insert"
  /\ b.saving > 0 => offer[r] \in rows
  /\ bill' = [bill EXCEPT ![r] = b]
  /\ used' = IF cart[r].coded THEN used + 1 ELSE used
  /\ usages' = IF cart[r].coded THEN usages \cup {r} ELSE usages
  /\ Goto(r, "booked")
  /\ Unlock(r)
  /\ UNCHANGED <<cart, offer, rows, running, coupon, seen>>

InsertBooking(r) == cart[r].customer # Guest /\ Insert(r, CustomerBill(r))
InsertWalkIn(r)  == cart[r].customer = Guest /\ Insert(r, WalkInBill(r))

\* The transaction is lost to an error (of the database, or of an earlier check of
\* create()); retryTransaction runs the callback again, with the same promotion.
Abort(r) ==
  /\ pc[r] \in InTx
  /\ \E step \in {"price", "failed"} : Goto(r, step)
  /\ Unlock(r)
  /\ UNCHANGED <<cart, offer, bill, rows, running, coupon, used, usages, seen>>

-----------------------------------------------------------------------------
\* A promotion starts, stops (endAt, isActive) or is deleted.
StartOffer(o) ==
  /\ o \in rows \ running
  /\ running' = running \cup {o}
  /\ UNCHANGED <<pc, cart, offer, bill, rows, coupon, uses, seen>>

StopOffer(o) ==
  /\ o \in running
  /\ running' = running \ {o}
  /\ UNCHANGED <<pc, cart, offer, bill, rows, coupon, uses, seen>>

\* Mutant: a deleted promotion is still found by findActiveForStore.
DeleteOfferStillRunning(o) ==
  /\ o \in rows
  /\ rows' = rows \ {o}
  /\ UNCHANGED <<pc, cart, offer, bill, running, coupon, uses, seen>>

DeleteOffer(o) ==
  /\ o \in rows
  /\ rows' = rows \ {o}
  /\ running' = running \ {o}
  /\ UNCHANGED <<pc, cart, offer, bill, coupon, uses, seen>>

Expire ==
  /\ ~expired
  /\ expired' = TRUE
  /\ UNCHANGED <<pc, cart, offer, bill, rows, running, exists, enabled, uses, seen>>

\* CouponsService.update: isActive, and expiredAt to any date; waits for the row.
UpdateCoupon ==
  /\ exists /\ holder = Nobody
  /\ enabled' \in BOOLEAN
  /\ expired' \in BOOLEAN
  /\ UNCHANGED <<pc, cart, offer, bill, rows, running, exists, uses, seen>>

\* CouponsService.remove: findOne, then an UPDATE or a DELETE by what was read.
ReadCoupon(m) ==
  /\ exists /\ seen[m] = NoLimit
  /\ seen' = [seen EXCEPT ![m] = used]
  /\ UNCHANGED <<pc, cart, offer, bill, rows, running, coupon, uses>>

\* The foreign key of coupon_usages refuses the DELETE once the coupon is used.
RemoveCoupon(m) ==
  /\ seen[m] # NoLimit
  /\ holder = Nobody
  /\ seen' = [seen EXCEPT ![m] = NoLimit]
  /\ IF seen[m] > 0 THEN enabled' = FALSE /\ UNCHANGED exists
     ELSE exists' = (exists /\ usages # {}) /\ UNCHANGED enabled
  /\ UNCHANGED <<pc, cart, offer, bill, rows, running, expired, uses>>

Request(r) == \/ ReadOffer(r) \/ PriceItems(r) \/ LockCoupon(r) \/ CheckCoupon(r)
              \/ UseCoupon(r) \/ InsertBooking(r) \/ InsertWalkIn(r) \/ Abort(r)

Store == \/ \E o \in Offers : StartOffer(o) \/ StopOffer(o) \/ DeleteOffer(o)
         \/ Expire \/ UpdateCoupon
         \/ \E m \in Managers : ReadCoupon(m) \/ RemoveCoupon(m)

Next == (\E r \in Requests : Request(r)) \/ Store

Spec == Init /\ [][Next]_vars

-----------------------------------------------------------------------------
TypeOK ==
  /\ pc \in [Requests -> {"new", "booked", "refused", "failed"} \cup InTx]
  /\ cart \in [Requests -> Carts]
  /\ offer \in [Requests -> Offers \cup {NoOffer}]
  /\ DOMAIN bill = Requests
  /\ rows \subseteq Offers /\ running \subseteq rows
  /\ exists \in BOOLEAN /\ enabled \in BOOLEAN /\ expired \in BOOLEAN
  /\ used \in Nat
  /\ usages \subseteq Requests
  /\ holder \in Requests \cup {Nobody}
  /\ seen \in [Managers -> Limits]

\* usedCount counts exactly the usages committed, a coupon with usages is never
\* deleted, and neither limit is exceeded however many bookings race for the last
\* use.
CouponAccounts ==
  /\ used = Cardinality(usages)
  /\ usages # {} => exists
  /\ UsageLimit # NoLimit => used <= UsageLimit
  /\ PerUserLimit # NoLimit => \A u \in Customers : Cardinality(UsedBy(u)) <= PerUserLimit

\* The inductive part: a booking on its way to using the coupon holds its row, and
\* what has been checked stays true until it commits.
LockedUse(r) ==
  /\ r \in usages => pc[r] = "booked"
  /\ pc[r] \in {"lock", "check", "use"} => cart[r].coded
  /\ pc[r] = "check" => holder = r \/ ~exists
  /\ pc[r] = "use" \/ (pc[r] = "insert" /\ cart[r].coded)
     => /\ holder = r /\ exists /\ enabled
        /\ UsageLimit # NoLimit => used < UsageLimit
        /\ PerUserLimit # NoLimit => Cardinality(UsedBy(cart[r].customer)) < PerUserLimit

CouponLock == IsFiniteSet(usages) /\ \A r \in Requests : LockedUse(r)

\* Once the store's UPDATE that switches the coupon off has returned, no booking
\* under way gets its discount any more.
NoUseOnceDisabled == [][usages' # usages => exists /\ enabled]_vars

Booked(r) == bill[r] # NoOffer

\* The amounts of a booking account for the catalogue price, with every discount
\* taken off once, and leave nothing negative to pay.
AddsUp(r) ==
  /\ bill[r].final >= 0
  /\ bill[r].final + bill[r].discount + bill[r].saving = Gross(r)

CustomerBillsAddUp == \A r \in Requests : Booked(r) /\ cart[r].customer # Guest => AddsUp(r)

\* "promotionDiscount = tong tiet kiem tu promotion (chi dung de hien thi)": the
\* same for walk-ins.
WalkInBillsAddUp == \A r \in Requests : Booked(r) /\ cart[r].customer = Guest => AddsUp(r)
=============================================================================
