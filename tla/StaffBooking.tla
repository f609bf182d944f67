---------------------------- MODULE StaffBooking ----------------------------
(***************************************************************************)
(* The booking transactions of BookingsService: a customer's create() and  *)
(* a store's createWalkIn(), which run concurrently under READ COMMITTED   *)
(* and serialize on the rows of the staff table, together with the writers *)
(* that take no lock: updateBookingItemStaff (a clerk moves one item to    *)
(* another staff member), the transitions that end a booking, and those    *)
(* that set its status without looking at it.                              *)
(*                                                                         *)
(* A transaction reads only committed rows (items, status); its own rows   *)
(* (picked) become visible when it commits.  Time is counted in abstract   *)
(* units; an interval [start, start + dur) is half open.  Requests that    *)
(* fail the checks made before the transaction opens change nothing and    *)
(* are not represented; every ordered variant is ACTIVE.                   *)
(***************************************************************************)
EXTENDS Naturals, Sequences, FiniteSets

CONSTANTS Staff,      \* rows of the staff table of one store
          Requests,   \* POST /bookings and POST /store-bookings/walk-in calls
          Clerks,     \* store members who call updateBookingItemStaff
          Customers,  \* accounts; the same one may send several requests
          Guest,      \* the null customerId of a walk-in
          AnyStaff,        \* a service line without staffId
          Nobody,     \* no transaction, no staff member, no clerk job
          Orders,     \* the request bodies: customer, start, lines
          Shift,      \* working window of each staff member on the day
          Leavers,    \* staff members who may be removed from the store
          Margin,     \* OVERLAP_SCAN_MARGIN_MS, in time units
          Retries     \* retries of retryTransaction

Lines == [staff : Staff \cup {AnyStaff}, dur : Nat \ {0}]
OrderBodies == [customer : Customers \cup {Guest}, start : Nat, lines : Seq(Lines)]

ASSUME DistinctValues ==
  /\ AnyStaff \notin Staff /\ Nobody \notin Staff
  /\ Nobody \notin Requests
  /\ Guest \notin Customers

ASSUME OrdersAssumption ==
  /\ Orders \subseteq OrderBodies
  /\ \A o \in Orders : o.lines # <<>>

ASSUME SettingsAssumption ==
  /\ Shift \in [Staff -> [from : Nat, to : Nat]]
  /\ Leavers \subseteq Staff
  /\ Margin \in Nat
  /\ Retries \in Nat

\* The comment on OVERLAP_SCAN_MARGIN_MS: the scan margin exceeds every duration.
MarginCoversDurations ==
  \A o \in Orders : \A i \in 1..Len(o.lines) : o.lines[i].dur <= Margin

VARIABLES pc,       \* pc[r]: where the handler of request r stands
          order,    \* order[r]: the body of request r
          line,     \* line[r]: the index i of the loop over dto.services
          clock,    \* clock[r]: currentTime, the start of the next item
          target,   \* target[r]: the staff row being locked or checked
          cand,     \* cand[r]: candidates left, with the workload that ranks them
          picked,   \* picked[r]: itemsData, rows not yet inserted
          tries,    \* tries[r]: attempt, the retries already made
          holder,   \* holder[s]: the transaction that holds the row lock of s
          active,   \* staff members with status ACTIVE
          status,   \* status[r]: the booking made by request r
          items,    \* committed rows of booking_items
          job,      \* job[c]: the reassignment clerk c has checked and not written
          moved,    \* ghost: items a clerk has reassigned
          revived   \* ghost: bookings set active again after they had ended

txVars  == <<pc, order, line, clock, target, cand, picked, tries>>
vars    == <<txVars, holder, active, status, items, job, moved, revived>>

ItemIds == Requests \X Nat
Items   == [booking : Requests, line : Nat, staff : Staff, start : Nat, dur : Nat \ {0}]
Jobs    == [item : ItemIds, staff : Staff]
Ranked  == [staff : Staff, load : Nat]

InTx     == {"line", "lock", "check", "customer", "commit"}
Answered == {"booked", "refused", "failed"}

-----------------------------------------------------------------------------
Overlap(s1, d1, s2, d2) == s1 < s2 + d2 /\ s2 < s1 + d1

Disjoint(x, y) == ~Overlap(x.start, x.dur, y.start, y.dur)

\* Mutant: the scan starts at the new item and misses those already under way.
BusyItemsNoMargin(s, start, dur) ==
  {x \in items : x.staff = s /\ status[x.booking] = "active" /\ x.start \in start..(start + dur)}

\* Items that findOverlap and pickAvailableStaff fetch for s: booking in one of
\* the five live statuses, startTime in [start - Margin, start + dur].
BusyItems(s, start, dur) ==
  {x \in items : /\ x.staff = s
                 /\ status[x.booking] = "active"
                 /\ start <= x.start + Margin
                 /\ x.start <= start + dur}

\* findOverlap, with the item it leaves out (excludeItemId).
FindOverlap(s, start, dur, except) ==
  \E x \in BusyItems(s, start, dur) :
     /\ <<x.booking, x.line>> \notin except
     /\ Overlap(start, dur, x.start, x.dur)

\* pickAvailableStaff: the ACTIVE staff on duty for the whole interval and free
\* of committed items, each with its workload.
Candidates(start, dur) ==
  {[staff |-> s, load |-> Cardinality(BusyItems(s, start, dur))] :
     s \in {t \in active : /\ Shift[t].from <= start
                           /\ start + dur <= Shift[t].to
                           /\ ~FindOverlap(t, start, dur, {})}}

\* The sort by workload: the candidates that may come first.
Least(C) == {c \in C : \A d \in C : c.load <= d.load}

CurrentLine(r) == order[r].lines[line[r]]

\* The customer has a live booking in the window of the new one.
CustomerBusy(r) ==
  \E b \in Requests :
     /\ status[b] = "active"
     /\ order[b].customer = order[r].customer
     /\ order[r].start <= order[b].start + Margin
     /\ order[b].start <= clock[r]
     /\ order[r].start < clock[b]
     /\ order[b].start < clock[r]

-----------------------------------------------------------------------------
Init ==
  /\ pc = [r \in Requests |-> "new"]
  /\ order \in [Requests -> Orders]
  /\ line = [r \in Requests |-> 1]
  /\ clock = [r \in Requests |-> order[r].start]
  /\ target = [r \in Requests |-> Nobody]
  /\ cand = [r \in Requests |-> {}]
  /\ picked = [r \in Requests |-> {}]
  /\ tries = [r \in Requests |-> 0]
  /\ holder = [s \in Staff |-> Nobody]
  /\ active = Staff
  /\ status = [r \in Requests |-> "none"]
  /\ items = {}
  /\ job = [c \in Clerks |-> Nobody]
  /\ moved = {}
  /\ revived = {}

\* Commit and rollback both release every row lock of the transaction.
Unlock(r) == holder' = [s \in Staff |-> IF holder[s] = r THEN Nobody ELSE holder[s]]

\* The transaction callback starts, the first time or again, with fresh locals.
Begin(r) ==
  /\ pc[r] = "new"
  /\ pc' = [pc EXCEPT ![r] = "line"]
  /\ UNCHANGED <<order, line, clock, target, cand, picked, tries,
                 holder, active, status, items, job, moved, revived>>

\* Mutant: the exception leaves the transaction open.
RefuseKeepsLocks(r) ==
  /\ pc' = [pc EXCEPT ![r] = "refused"]
  /\ UNCHANGED <<order, line, clock, target, cand, picked, tries,
                 holder, active, status, items, job, moved, revived>>

\* An exception thrown by the callback (400, 404, 409): rollback, not retried.
Refuse(r) ==
  /\ Unlock(r)
  /\ pc' = [pc EXCEPT ![r] = "refused"]
  /\ picked' = [picked EXCEPT ![r] = {}]
  /\ cand' = [cand EXCEPT ![r] = {}]
  /\ target' = [target EXCEPT ![r] = Nobody]
  /\ UNCHANGED <<order, line, clock, tries, active, status, items, job, moved, revived>>

\* The next row to lock is a least loaded one of C; the others stay candidates.
Try(r, C) ==
  \E c \in Least(C) :
     /\ target' = [target EXCEPT ![r] = c.staff]
     /\ cand' = [cand EXCEPT ![r] = C \ {c}]
     /\ pc' = [pc EXCEPT ![r] = "lock"]
     /\ UNCHANGED <<order, line, clock, picked, tries,
                    holder, active, status, items, job, moved, revived>>

\* Head of the loop: the chosen staff member must be ACTIVE (canDo); without one
\* the candidates are computed here and only tried later.
ReadLine(r) ==
  LET l == CurrentLine(r)
      C == IF l.staff = AnyStaff THEN Candidates(clock[r], l.dur)
           ELSE {[staff |-> s, load |-> 0] : s \in {l.staff} \cap active}
  IN /\ pc[r] = "line"
     /\ IF C = {} THEN Refuse(r) ELSE Try(r, C)

\* Mutant: a plain SELECT, which waits for nobody.
LockStaffPlainRead(r) ==
  /\ pc[r] = "lock"
  /\ holder' = [holder EXCEPT ![target[r]] = r]
  /\ pc' = [pc EXCEPT ![r] = "check"]
  /\ UNCHANGED <<order, line, clock, target, cand, picked, tries,
                 active, status, items, job, moved, revived>>

\* SELECT ... FOR UPDATE on the staff row: waits while another transaction holds it.
LockStaff(r) ==
  /\ pc[r] = "lock"
  /\ holder[target[r]] \in {Nobody, r}
  /\ holder' = [holder EXCEPT ![target[r]] = r]
  /\ pc' = [pc EXCEPT ![r] = "check"]
  /\ UNCHANGED <<order, line, clock, target, cand, picked, tries,
                 active, status, items, job, moved, revived>>

\* The row is locked and free: the item joins itemsData and the loop goes on;
\* after the last line a customer's request checks the customer's own bookings.
PickStaff(r) ==
  LET l    == CurrentLine(r)
      item == [booking |-> r, line |-> line[r], staff |-> target[r],
               start |-> clock[r], dur |-> l.dur]
      next == IF line[r] < Len(order[r].lines) THEN "line"
              ELSE IF order[r].customer = Guest THEN "commit" ELSE "customer"
  IN /\ picked' = [picked EXCEPT ![r] = @ \cup {item}]
     /\ clock' = [clock EXCEPT ![r] = @ + l.dur]
     /\ line' = [line EXCEPT ![r] = @ + 1]
     /\ target' = [target EXCEPT ![r] = Nobody]
     /\ cand' = [cand EXCEPT ![r] = {}]
     /\ pc' = [pc EXCEPT ![r] = next]
     /\ UNCHANGED <<order, tries, holder, active, status, items, job, moved, revived>>

\* Mutant: the candidate list is trusted, nothing is read again under the lock.
CheckStaffTrustsList(r) == pc[r] = "check" /\ PickStaff(r)

\* Mutant: the first lost candidate refuses the request.
CheckStaffFirstOnly(r) ==
  /\ pc[r] = "check"
  /\ IF ~FindOverlap(target[r], clock[r], CurrentLine(r).dur, {}) THEN PickStaff(r)
     ELSE Refuse(r)

\* findOverlap under the lock.  A candidate lost to another transaction is
\* passed over, its lock kept; with none left the request is refused.
CheckStaff(r) ==
  /\ pc[r] = "check"
  /\ IF ~FindOverlap(target[r], clock[r], CurrentLine(r).dur, {}) THEN PickStaff(r)
     ELSE IF cand[r] # {} THEN Try(r, cand[r])
     ELSE Refuse(r)

\* The customer's other bookings, read without any lock.
CheckCustomer(r) ==
  /\ pc[r] = "customer"
  /\ IF CustomerBusy(r) THEN Refuse(r)
     ELSE /\ pc' = [pc EXCEPT ![r] = "commit"]
          /\ UNCHANGED <<order, line, clock, target, cand, picked, tries,
                         holder, active, status, items, job, moved, revived>>

\* booking.create with its items, and COMMIT.
Publish(r) ==
  /\ pc[r] = "commit"
  /\ items' = items \cup picked[r]
  /\ status' = [status EXCEPT ![r] = "active"]
  /\ picked' = [picked EXCEPT ![r] = {}]
  /\ pc' = [pc EXCEPT ![r] = "booked"]
  /\ Unlock(r)
  /\ UNCHANGED <<order, line, clock, target, cand, tries, active, job, moved, revived>>

CommitBooking(r) == order[r].customer # Guest /\ Publish(r)
CommitWalkIn(r)  == order[r].customer = Guest /\ Publish(r)

\* Mutant: attempt > retries instead of attempt >= retries.
AbortOneMore(r, retryable) ==
  /\ Unlock(r)
  /\ picked' = [picked EXCEPT ![r] = {}]
  /\ cand' = [cand EXCEPT ![r] = {}]
  /\ target' = [target EXCEPT ![r] = Nobody]
  /\ line' = [line EXCEPT ![r] = 1]
  /\ clock' = [clock EXCEPT ![r] = order[r].start]
  /\ IF retryable /\ tries[r] <= Retries
     THEN /\ pc' = [pc EXCEPT ![r] = "line"]
          /\ tries' = [tries EXCEPT ![r] = @ + 1]
     ELSE /\ pc' = [pc EXCEPT ![r] = "failed"]
          /\ UNCHANGED tries
  /\ UNCHANGED <<order, active, status, items, job, moved, revived>>

\* The database or the Prisma engine aborts the transaction.  retryTransaction
\* starts the callback again while retries are left and the error is P2034 or P2028.
Abort(r, retryable) ==
  /\ Unlock(r)
  /\ picked' = [picked EXCEPT ![r] = {}]
  /\ cand' = [cand EXCEPT ![r] = {}]
  /\ target' = [target EXCEPT ![r] = Nobody]
  /\ line' = [line EXCEPT ![r] = 1]
  /\ clock' = [clock EXCEPT ![r] = order[r].start]
  /\ IF retryable /\ tries[r] < Retries
     THEN /\ pc' = [pc EXCEPT ![r] = "line"]
          /\ tries' = [tries EXCEPT ![r] = @ + 1]
     ELSE /\ pc' = [pc EXCEPT ![r] = "failed"]
          /\ UNCHANGED tries
  /\ UNCHANGED <<order, active, status, items, job, moved, revived>>

Waiting(r)  == pc[r] = "lock" /\ holder[target[r]] \notin {Nobody, r}
InCycle(r)  == \E S \in SUBSET Requests :
                  /\ r \in S
                  /\ \A q \in S : Waiting(q)
                  /\ {holder[target[q]] : q \in S} = S

\* InnoDB rolls back one transaction of a cycle.  The lock is taken by a raw
\* query, so the error may reach retryTransaction as P2034 or under another code.
DeadlockVictim(r) == InCycle(r) /\ \E retryable \in BOOLEAN : Abort(r, retryable)

\* P2028: the interactive transaction runs out of time, at any statement.
Timeout(r) == pc[r] \in InTx /\ Abort(r, TRUE)

-----------------------------------------------------------------------------
\* updateBookingItemStaff up to its findOverlap, which reads without a lock.
CheckReassign(c, x, s) ==
  /\ job[c] = Nobody
  /\ status[x.booking] = "active"
  /\ s \in active
  /\ ~FindOverlap(s, x.start, x.dur, {<<x.booking, x.line>>})
  /\ job' = [job EXCEPT ![c] = [item |-> <<x.booking, x.line>>, staff |-> s]]
  /\ UNCHANGED <<txVars, holder, active, status, items, moved, revived>>

\* bookingItem.update: the foreign key makes it wait for the row of the new staff
\* member, and it writes whatever has been committed in the meantime.
WriteReassign(c) ==
  /\ job[c] # Nobody
  /\ holder[job[c].staff] = Nobody
  /\ \E x \in items :
        /\ <<x.booking, x.line>> = job[c].item
        /\ items' = (items \ {x}) \cup {[x EXCEPT !.staff = job[c].staff]}
  /\ moved' = moved \cup {job[c].item}
  /\ job' = [job EXCEPT ![c] = Nobody]
  /\ UNCHANGED <<txVars, holder, active, status, revived>>

\* reject, complete, cancel and the deposit timeout: the booking leaves the live statuses.
EndBooking(r) ==
  /\ status[r] = "active"
  /\ status' = [status EXCEPT ![r] = "ended"]
  /\ UNCHANGED <<txVars, holder, active, items, job, moved, revived>>

\* A paid deposit sets DEPOSIT_PAID whatever the status has become; a walk-in is
\* CONFIRMED from the start and never has a deposit.
ReviveBooking(r) ==
  /\ order[r].customer # Guest
  /\ status[r] = "ended"
  /\ status' = [status EXCEPT ![r] = "active"]
  /\ revived' = revived \cup {r}
  /\ UNCHANGED <<txVars, holder, active, items, job, moved>>

\* The store removes a staff member: status changes, booked items are untouched.
RemoveStaff(s) ==
  /\ s \in active \cap Leavers
  /\ holder[s] = Nobody
  /\ active' = active \ {s}
  /\ UNCHANGED <<txVars, holder, status, items, job, moved, revived>>

Handle(r) == ReadLine(r) \/ LockStaff(r) \/ CheckStaff(r) \/ CheckCustomer(r)
             \/ CommitBooking(r) \/ CommitWalkIn(r)

Booking(r) == Begin(r) \/ Handle(r) \/ DeadlockVictim(r) \/ Timeout(r)

Reassign(c) == \/ \E x \in items, s \in Staff : CheckReassign(c, x, s)
               \/ WriteReassign(c)

Next ==
  \/ \E r \in Requests : Booking(r) \/ EndBooking(r) \/ ReviveBooking(r)
  \/ \E c \in Clerks : Reassign(c)
  \/ \E s \in Staff : RemoveStaff(s)

Spec == Init /\ [][Next]_vars
\* create() and createWalkIn() alone, as the load tests drive them.
TxNext == \E r \in Requests : Booking(r)
TxSpec == Init /\ [][TxNext]_vars

\* The engine keeps running every request it has accepted and breaks every
\* deadlock; a timeout is under no obligation to come.
FairTxSpec ==
  TxSpec /\ \A r \in Requests : WF_vars(Begin(r) \/ Handle(r) \/ DeadlockVictim(r))

-----------------------------------------------------------------------------
TypeOK ==
  /\ pc \in [Requests -> {"new"} \cup InTx \cup Answered]
  /\ order \in [Requests -> Orders]
  /\ line \in [Requests -> Nat \ {0}]
  /\ clock \in [Requests -> Nat]
  /\ target \in [Requests -> Staff \cup {Nobody}]
  /\ cand \in [Requests -> SUBSET Ranked]
  /\ picked \in [Requests -> SUBSET Items]
  /\ tries \in [Requests -> 0..Retries]
  /\ holder \in [Staff -> Requests \cup {Nobody}]
  /\ active \subseteq Staff
  /\ status \in [Requests -> {"none", "active", "ended"}]
  /\ items \subseteq Items
  /\ job \in [Clerks -> Jobs \cup {Nobody}]
  /\ moved \subseteq ItemIds
  /\ revived \subseteq Requests

Live(x) == status[x.booking] = "active"

\* Still as its own transaction wrote it: neither reassigned nor revived.
Pristine(x) == <<x.booking, x.line>> \notin moved /\ x.booking \notin revived

\* No staff member has two live items at the same time: what the row lock and
\* findOverlap are there for, and what updateBookingItemStaff answers 409 for.
NoDoubleBooking ==
  \A x, y \in items :
     x # y /\ x.staff = y.staff /\ Live(x) /\ Live(y) => Disjoint(x, y)

\* The same without the bookings revived after they had ended: what is left for
\* updateBookingItemStaff to keep.
NoReassignOverlap ==
  \A x, y \in items :
     /\ x # y
     /\ x.staff = y.staff
     /\ Live(x) /\ x.booking \notin revived
     /\ Live(y) /\ y.booking \notin revived
     => Disjoint(x, y)

\* The part the row lock does secure: the items of create() and createWalkIn(),
\* as long as no unlocked writer has touched them, never collide, whatever
\* happens to the other bookings.
LockedItemsDisjoint ==
  \A x, y \in items :
     /\ x # y
     /\ x.staff = y.staff
     /\ Live(x) /\ Pristine(x)
     /\ Live(y) /\ Pristine(y)
     => Disjoint(x, y)

\* The inductive invariant behind LockedItemsDisjoint.  The loop index stays in
\* bounds until the last line is done, and a row is named when it is to be locked.
LoopInv ==
  \A r \in Requests :
     /\ pc[r] \in {"new", "line", "lock", "check"} => line[r] \in 1..Len(order[r].lines)
     /\ pc[r] \in {"lock", "check"} => target[r] \in Staff
     /\ IsFiniteSet(picked[r])

\* A transaction holds the row it checks and the row of every item it has picked;
\* its items follow one another in time.
LockInv ==
  \A r \in Requests :
     /\ pc[r] = "check" => holder[target[r]] = r
     /\ \A x \in picked[r] : /\ x.booking = r
                             /\ holder[x.staff] = r
                             /\ x.start + x.dur <= clock[r]
                             /\ x.dur <= Margin
     /\ \A x, y \in picked[r] : x # y => Disjoint(x, y)

\* Nothing that has become visible since the check collides with a picked item.
CheckedInv ==
  \A r \in Requests : \A x \in picked[r] : \A y \in items :
     x.staff = y.staff /\ Live(y) /\ Pristine(y) => Disjoint(x, y)

\* Rows exist only for committed bookings, and the scan margin covers them.
RowsInv ==
  /\ IsFiniteSet(items)
  /\ \A r \in Requests : pc[r] # "booked" => status[r] = "none"
  /\ \A x \in items : status[x.booking] # "none" /\ x.dur <= Margin

\* Two-phase locking of the staff rows, with all it needs to be inductive.
BookingInv ==
  TypeOK /\ LoopInv /\ LockInv /\ CheckedInv /\ RowsInv /\ LockedItemsDisjoint

\* "Ban da co lich hen trong khoang thoi gian nay" (409): a customer never holds
\* two live bookings whose times overlap.
NoCustomerOverlap ==
  \A a, b \in Requests :
     /\ a # b
     /\ status[a] = "active" /\ status[b] = "active"
     /\ order[a].customer = order[b].customer
     /\ order[a].customer # Guest
     => ~(order[a].start < clock[b] /\ order[b].start < clock[a])

\* Staff a line may be given to: the chosen member, or whoever works at that time.
Eligible(l, start) ==
  IF l.staff = AnyStaff
  THEN {s \in active : Shift[s].from <= start /\ start + l.dur <= Shift[s].to}
  ELSE {l.staff}

\* While nobody cancels, a line is refused for want of staff only when every
\* eligible member is taken by a committed booking: losing one candidate to a
\* concurrent transaction must not refuse a request another could still serve.
RefusedOnlyWhenTaken ==
  [][\A r \in Requests :
        pc[r] \in {"line", "check"} /\ pc'[r] = "refused"
        => \A s \in Eligible(CurrentLine(r), clock[r]) :
              FindOverlap(s, clock[r], CurrentLine(r).dur, {})]_vars

\* Every request that reaches its transaction gets an answer, with deadlocks, lost
\* candidates and aborted attempts on the way.
EveryRequestAnswered == \A r \in Requests : (pc[r] # "new") ~> (pc[r] \in Answered)

\* The pristine live items behave as the calendar of SlotCalendar: a booking takes
\* all its slots in one step and only free ones.
Calendar == INSTANCE SlotCalendar WITH
  reserved <- {x \in items : Live(x) /\ Pristine(x)}

ReservesAtomically == Calendar!Spec
=============================================================================
