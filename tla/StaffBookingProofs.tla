------------------------- MODULE StaffBookingProofs -------------------------
(***************************************************************************)
(* Type correctness of StaffBooking and, for scan margins that cover every *)
(* duration, the disjointness of the items that create() and createWalkIn()*)
(* book, for every set of staff, requests, clerks and orders.              *)
(***************************************************************************)
EXTENDS StaffBooking, FiniteSetTheorems, TLAPS

\* What the types of the steps rest on: the loop index is in bounds and the
\* tables are finite, so that a workload is a number.
TypeInv == TypeOK /\ LoopInv /\ IsFiniteSet(items)

-----------------------------------------------------------------------------
(* The services of an order, and the line a request is serving.            *)

LEMMA OrderFacts ==
  ASSUME NEW o \in Orders
  PROVE  /\ o.customer \in Customers \cup {Guest}
         /\ o.start \in Nat
         /\ Len(o.lines) \in Nat
         /\ 1 \in 1..Len(o.lines)
         /\ \A i \in 1..Len(o.lines) : /\ o.lines[i].staff \in Staff \cup {AnyStaff}
                                       /\ o.lines[i].dur \in Nat \ {0}
<1>1. o \in OrderBodies /\ o.lines # <<>>
  BY OrdersAssumption
<1>2. o.customer \in Customers \cup {Guest} /\ o.start \in Nat /\ o.lines \in Seq(Lines)
  BY <1>1 DEF OrderBodies
<1>3. Len(o.lines) \in Nat /\ Len(o.lines) # 0
  BY <1>1, <1>2
<1>4. \A i \in 1..Len(o.lines) : o.lines[i] \in Lines
  BY <1>2
<1> QED
  BY <1>2, <1>3, <1>4 DEF Lines

LEMMA LineFacts ==
  ASSUME TypeInv, NEW r \in Requests, pc[r] \in {"new", "line", "lock", "check"}
  PROVE  /\ CurrentLine(r).staff \in Staff \cup {AnyStaff}
         /\ CurrentLine(r).dur \in Nat \ {0}
         /\ line[r] \in Nat
         /\ clock[r] \in Nat
         /\ Len(order[r].lines) \in Nat
<1>1. order[r] \in Orders /\ clock[r] \in Nat /\ line[r] \in Nat
  BY DEF TypeInv, TypeOK
<1>2. line[r] \in 1..Len(order[r].lines)
  BY DEF TypeInv, LoopInv
<1> QED
  BY <1>1, <1>2, OrderFacts DEF CurrentLine

\* pickAvailableStaff returns staff members, each ranked by a number.
LEMMA CandidatesType ==
  ASSUME TypeInv, NEW start, NEW dur
  PROVE  Candidates(start, dur) \subseteq Ranked
<1>1. SUFFICES ASSUME NEW s \in active
               PROVE  [staff |-> s, load |-> Cardinality(BusyItems(s, start, dur))] \in Ranked
  BY DEF Candidates
<1>2. BusyItems(s, start, dur) \in SUBSET items
  BY DEF BusyItems
<1>3. IsFiniteSet(BusyItems(s, start, dur))
  BY <1>2, FS_Subset DEF TypeInv
<1>4. Cardinality(BusyItems(s, start, dur)) \in Nat
  BY <1>3, FS_CardinalityType
<1>5. s \in Staff
  BY DEF TypeInv, TypeOK
<1> QED
  BY <1>4, <1>5 DEF Ranked

-----------------------------------------------------------------------------
(* Every step of a request is one of these moves.                          *)

LEMMA RequestMoves ==
  ASSUME TypeInv, NEW r \in Requests, Booking(r)
  PROVE  \/ Begin(r)
         \/ pc[r] \in {"line", "check", "customer"} /\ Refuse(r)
         \/ pc[r] \in {"line", "check"} /\ \E C \in SUBSET Ranked : Try(r, C)
         \/ LockStaff(r)
         \/ /\ pc[r] = "check"
            /\ ~FindOverlap(target[r], clock[r], CurrentLine(r).dur, {})
            /\ PickStaff(r)
         \/ /\ pc[r] = "customer"
            /\ pc' = [pc EXCEPT ![r] = "commit"]
            /\ UNCHANGED <<order, line, clock, target, cand, picked, tries,
                           holder, active, status, items, job, moved, revived>>
         \/ Publish(r)
         \/ pc[r] \in InTx /\ \E retryable \in BOOLEAN : Abort(r, retryable)
<1>1. CASE ReadLine(r)
  <2> DEFINE l == CurrentLine(r)
             C == IF l.staff = AnyStaff THEN Candidates(clock[r], l.dur)
                  ELSE {[staff |-> s, load |-> 0] : s \in {l.staff} \cap active}
  <2>1. pc[r] = "line" /\ (Refuse(r) \/ Try(r, C))
    BY <1>1 DEF ReadLine
  <2>2. C \in SUBSET Ranked
    <3>1. CASE l.staff = AnyStaff
      BY <3>1, CandidatesType
    <3>2. CASE l.staff # AnyStaff
      BY <3>2 DEF TypeInv, TypeOK, Ranked
    <3> QED BY <3>1, <3>2
  <2> HIDE DEF C
  <2> QED BY <2>1, <2>2
<1>2. CASE CheckStaff(r)
  <2>1. cand[r] \in SUBSET Ranked
    BY DEF TypeInv, TypeOK
  <2> QED BY <1>2, <2>1 DEF CheckStaff
<1>3. CASE CheckCustomer(r)
  BY <1>3 DEF CheckCustomer
<1>4. CASE DeadlockVictim(r)
  BY <1>4 DEF DeadlockVictim, InCycle, Waiting, InTx
<1>5. CASE Timeout(r)
  BY <1>5 DEF Timeout
<1> QED
  BY <1>1, <1>2, <1>3, <1>4, <1>5 DEF Booking, Handle, CommitBooking, CommitWalkIn
-----------------------------------------------------------------------------
(* Type correctness.                                                       *)

LEMMA TypeInit == Init => TypeInv
<1> SUFFICES ASSUME Init PROVE TypeInv
  OBVIOUS
<1>1. \A r \in Requests : order[r] \in Orders
  BY DEF Init
<1>2. \A r \in Requests : order[r].start \in Nat /\ 1 \in 1..Len(order[r].lines)
  BY <1>1, OrderFacts
<1>3. TypeOK
  BY <1>2, SettingsAssumption DEF Init, TypeOK
<1>4. LoopInv
  BY <1>2, FS_EmptySet DEF Init, LoopInv
<1>5. IsFiniteSet(items)
  BY FS_EmptySet DEF Init
<1> QED
  BY <1>3, <1>4, <1>5 DEF TypeInv

LEMMA TypeRefuse ==
  ASSUME TypeInv, NEW r \in Requests, Refuse(r)
  PROVE  TypeInv'
<1>1. TypeOK'
  BY DEF TypeInv, TypeOK, Refuse, Unlock, InTx, Answered
<1>2. LoopInv'
  BY FS_EmptySet DEF TypeInv, TypeOK, LoopInv, Refuse
<1>3. IsFiniteSet(items)'
  BY DEF TypeInv, Refuse
<1> QED
  BY <1>1, <1>2, <1>3 DEF TypeInv

LEMMA TypeTry ==
  ASSUME TypeInv, NEW r \in Requests, pc[r] \in {"line", "check"},
         NEW C \in SUBSET Ranked, Try(r, C)
  PROVE  TypeInv'
<1>1. PICK c \in Least(C) : /\ target' = [target EXCEPT ![r] = c.staff]
                            /\ cand' = [cand EXCEPT ![r] = C \ {c}]
                            /\ pc' = [pc EXCEPT ![r] = "lock"]
  BY DEF Try
<1>2. UNCHANGED <<order, line, clock, picked, tries,
                  holder, active, status, items, job, moved, revived>>
  BY DEF Try
<1>3. c.staff \in Staff /\ C \ {c} \in SUBSET Ranked
  BY DEF Least, Ranked
<1>4. TypeOK'
  BY <1>1, <1>2, <1>3 DEF TypeInv, TypeOK, InTx, Answered
<1>5. LoopInv'
  BY <1>1, <1>2, <1>3 DEF TypeInv, TypeOK, LoopInv
<1> QED
  BY <1>2, <1>4, <1>5 DEF TypeInv

LEMMA TypeLockStaff ==
  ASSUME TypeInv, NEW r \in Requests, LockStaff(r)
  PROVE  TypeInv'
<1>1. target[r] \in Staff
  BY DEF TypeInv, LoopInv, LockStaff
<1>2. TypeOK'
  BY <1>1 DEF TypeInv, TypeOK, LockStaff, InTx, Answered
<1>3. LoopInv'
  BY DEF TypeInv, TypeOK, LoopInv, LockStaff
<1> QED
  BY <1>2, <1>3 DEF TypeInv, LockStaff

LEMMA TypePickStaff ==
  ASSUME TypeInv, NEW r \in Requests, pc[r] = "check", PickStaff(r)
  PROVE  TypeInv'
<1> DEFINE l    == CurrentLine(r)
           item == [booking |-> r, line |-> line[r], staff |-> target[r],
                    start |-> clock[r], dur |-> l.dur]
           next == IF line[r] < Len(order[r].lines) THEN "line"
                   ELSE IF order[r].customer = Guest THEN "commit" ELSE "customer"
<1>1. target[r] \in Staff /\ line[r] \in 1..Len(order[r].lines)
  BY DEF TypeInv, LoopInv
<1>2. l.dur \in Nat \ {0} /\ line[r] \in Nat /\ clock[r] \in Nat /\ Len(order[r].lines) \in Nat
  BY LineFacts
<1>3. item \in Items
  BY <1>1, <1>2 DEF Items
<1>4. clock[r] + l.dur \in Nat /\ line[r] + 1 \in Nat \ {0}
  BY <1>2
<1>5. next \in {"line", "customer", "commit"}
  OBVIOUS
<1>6. next = "line" => line[r] + 1 \in 1..Len(order[r].lines)
  BY <1>1, <1>2
<1>7. /\ picked' = [picked EXCEPT ![r] = @ \cup {item}]
      /\ clock' = [clock EXCEPT ![r] = @ + l.dur]
      /\ line' = [line EXCEPT ![r] = @ + 1]
      /\ target' = [target EXCEPT ![r] = Nobody]
      /\ cand' = [cand EXCEPT ![r] = {}]
      /\ pc' = [pc EXCEPT ![r] = next]
      /\ UNCHANGED <<order, tries, holder, active, status, items, job, moved, revived>>
  BY DEF PickStaff
<1> HIDE DEF l, item, next
<1>8. TypeOK'
  BY <1>3, <1>4, <1>5, <1>7 DEF TypeInv, TypeOK, InTx, Answered
<1>9. LoopInv'
  <2>1. IsFiniteSet(picked[r] \cup {item})
    BY FS_AddElement DEF TypeInv, LoopInv
  <2> QED
    BY <2>1, <1>5, <1>6, <1>7 DEF TypeInv, TypeOK, LoopInv
<1> QED
  BY <1>7, <1>8, <1>9 DEF TypeInv

LEMMA TypePublish ==
  ASSUME TypeInv, NEW r \in Requests, Publish(r)
  PROVE  TypeInv'
<1>1. TypeOK'
  BY DEF TypeInv, TypeOK, Publish, Unlock, InTx, Answered
<1>2. LoopInv'
  BY FS_EmptySet DEF TypeInv, TypeOK, LoopInv, Publish
<1>3. IsFiniteSet(items \cup picked[r])
  BY FS_Union DEF TypeInv, LoopInv
<1> QED
  BY <1>1, <1>2, <1>3 DEF TypeInv, Publish

LEMMA TypeAbort ==
  ASSUME TypeInv, NEW r \in Requests, NEW retryable \in BOOLEAN, Abort(r, retryable)
  PROVE  TypeInv'
<1>1. order[r].start \in Nat /\ 1 \in 1..Len(order[r].lines)
  BY OrderFacts DEF TypeInv, TypeOK
<1>2. TypeOK'
  <2>1. tries' \in [Requests -> 0..Retries] /\ pc' \in [Requests -> {"new"} \cup InTx \cup Answered]
    BY SettingsAssumption DEF TypeInv, TypeOK, Abort, InTx, Answered
  <2>2. /\ line' \in [Requests -> Nat \ {0}]
        /\ clock' \in [Requests -> Nat]
        /\ target' \in [Requests -> Staff \cup {Nobody}]
        /\ cand' \in [Requests -> SUBSET Ranked]
        /\ picked' \in [Requests -> SUBSET Items]
        /\ holder' \in [Staff -> Requests \cup {Nobody}]
    BY <1>1 DEF TypeInv, TypeOK, Abort, Unlock
  <2> QED
    BY <2>1, <2>2 DEF TypeInv, TypeOK, Abort
<1>3. LoopInv'
  BY <1>1, FS_EmptySet DEF TypeInv, TypeOK, LoopInv, Abort
<1> QED
  BY <1>2, <1>3 DEF TypeInv, Abort

LEMMA TypeWriters ==
  ASSUME TypeInv,
         \/ \E r \in Requests : EndBooking(r) \/ ReviveBooking(r)
         \/ \E c \in Clerks : Reassign(c)
         \/ \E s \in Staff : RemoveStaff(s)
  PROVE  TypeInv'
<1>1. ASSUME NEW r \in Requests, EndBooking(r) \/ ReviveBooking(r) PROVE TypeInv'
  BY <1>1 DEF EndBooking, ReviveBooking, TypeInv, TypeOK, LoopInv, txVars
<1>2. ASSUME NEW c \in Clerks, NEW x \in items, NEW s \in Staff, CheckReassign(c, x, s)
      PROVE  TypeInv'
  <2>1. [item |-> <<x.booking, x.line>>, staff |-> s] \in Jobs
    BY DEF TypeInv, TypeOK, Jobs, ItemIds, Items
  <2> QED
    BY <1>2, <2>1 DEF CheckReassign, TypeInv, TypeOK, LoopInv, txVars
<1>3. ASSUME NEW c \in Clerks, WriteReassign(c) PROVE TypeInv'
  <2>1. job[c] \in Jobs
    BY <1>3 DEF TypeInv, TypeOK, WriteReassign
  <2>2. PICK x \in items :
           items' = (items \ {x}) \cup {[x EXCEPT !.staff = job[c].staff]}
    BY <1>3 DEF WriteReassign
  <2>3. [x EXCEPT !.staff = job[c].staff] \in Items
    BY <2>1 DEF TypeInv, TypeOK, Jobs, Items
  <2>4. IsFiniteSet(items')
    BY <2>2, FS_RemoveElement, FS_AddElement DEF TypeInv
  <2>5. TypeOK'
    BY <1>3, <2>1, <2>2, <2>3 DEF WriteReassign, TypeInv, TypeOK, Jobs, txVars
  <2> QED
    BY <1>3, <2>4, <2>5 DEF WriteReassign, TypeInv, LoopInv, txVars
<1>4. ASSUME NEW s \in Staff, RemoveStaff(s) PROVE TypeInv'
  BY <1>4 DEF RemoveStaff, TypeInv, TypeOK, LoopInv, txVars
<1> QED
  BY <1>1, <1>2, <1>3, <1>4 DEF Reassign

LEMMA TypeStep == TypeInv /\ [Next]_vars => TypeInv'
<1> SUFFICES ASSUME TypeInv, [Next]_vars PROVE TypeInv'
  OBVIOUS
<1>1. ASSUME NEW r \in Requests, Booking(r) PROVE TypeInv'
  <2>1. CASE Begin(r)
    BY <2>1 DEF Begin, TypeInv, TypeOK, LoopInv, InTx, Answered
  <2>2. CASE /\ pc[r] = "customer"
             /\ pc' = [pc EXCEPT ![r] = "commit"]
             /\ UNCHANGED <<order, line, clock, target, cand, picked, tries,
                            holder, active, status, items, job, moved, revived>>
    BY <2>2 DEF TypeInv, TypeOK, LoopInv, InTx, Answered
  <2> QED
    BY <1>1, <2>1, <2>2, RequestMoves, TypeRefuse, TypeTry, TypeLockStaff,
       TypePickStaff, TypePublish, TypeAbort
<1>2. CASE UNCHANGED vars
  BY <1>2 DEF vars, txVars, TypeInv, TypeOK, LoopInv
<1> QED
  BY <1>1, <1>2, TypeWriters DEF Next

\* Every behaviour of the booking transactions, with any number of staff members,
\* requests, clerks and orders, keeps every variable in its type.
THEOREM TypeCorrect == Spec => []TypeOK
<1>1. Spec => []TypeInv
  BY TypeInit, TypeStep, PTL DEF Spec
<1>2. TypeInv => TypeOK
  BY DEF TypeInv
<1> QED
  BY <1>1, <1>2, PTL
-----------------------------------------------------------------------------
(* Two-phase locking of the staff rows.                                    *)

\* BookingInv without the types.
SafeInv == LockInv /\ CheckedInv /\ RowsInv /\ LockedItemsDisjoint

LEMMA SafeInit == Init => SafeInv
BY FS_EmptySet DEF Init, SafeInv, LockInv, CheckedInv, RowsInv, LockedItemsDisjoint

\* Ending a transaction takes no lock away from the others.
LEMMA UnlockOthers ==
  ASSUME TypeInv, NEW r \in Requests, Unlock(r),
         NEW q \in Requests, q # r, NEW s \in Staff, holder[s] = q
  PROVE  holder'[s] = q
BY DEF Unlock

\* With a margin that covers the durations, findOverlap misses no item.
LEMMA FindOverlapComplete ==
  ASSUME TypeInv, RowsInv, NEW s, NEW start \in Nat, NEW dur \in Nat,
         ~FindOverlap(s, start, dur, {}),
         NEW y \in items, y.staff = s, Live(y)
  PROVE  ~Overlap(start, dur, y.start, y.dur)
<1>1. y.start \in Nat /\ y.dur \in Nat /\ y.dur <= Margin /\ Margin \in Nat
  BY SettingsAssumption DEF TypeInv, TypeOK, Items, RowsInv
<1>2. CASE start <= y.start + Margin /\ y.start <= start + dur
  BY <1>1, <1>2 DEF FindOverlap, BusyItems, Live
<1>3. CASE ~(start <= y.start + Margin)
  BY <1>1, <1>3 DEF Overlap
<1>4. CASE ~(y.start <= start + dur)
  BY <1>1, <1>4 DEF Overlap
<1> QED
  BY <1>2, <1>3, <1>4

\* Refuse and Abort: the request drops its items and its locks.
LEMMA SafeRollback ==
  ASSUME TypeInv, SafeInv, NEW r \in Requests,
         Unlock(r), picked' = [picked EXCEPT ![r] = {}],
         NEW p \in {"line", "refused", "failed"}, pc[r] \in InTx, pc' = [pc EXCEPT ![r] = p],
         \A q \in Requests \ {r} : target'[q] = target[q] /\ clock'[q] = clock[q],
         UNCHANGED <<status, items, moved, revived>>
  PROVE  SafeInv'
<1>1. \A q \in Requests : q # r => /\ pc'[q] = pc[q]
                                   /\ picked'[q] = picked[q]
                                   /\ target'[q] = target[q]
                                   /\ clock'[q] = clock[q]
  BY DEF TypeInv, TypeOK
<1>2. picked'[r] = {} /\ pc'[r] = p /\ pc[r] # "booked"
  BY DEF TypeInv, TypeOK, InTx
<1>3. LockInv'
  <2> SUFFICES ASSUME NEW q \in Requests, q # r
               PROVE  /\ pc[q] = "check" => holder'[target[q]] = q
                      /\ \A x \in picked[q] : /\ x.booking = q
                                              /\ holder'[x.staff] = q
                                              /\ x.start + x.dur <= clock[q]
                                              /\ x.dur <= Margin
                      /\ \A x, y \in picked[q] : x # y => Disjoint(x, y)
    BY <1>1, <1>2 DEF LockInv
  <2>1. pc[q] = "check" => holder'[target[q]] = q
    BY UnlockOthers DEF SafeInv, LockInv, TypeInv, LoopInv
  <2>2. \A x \in picked[q] : x.staff \in Staff
    BY DEF TypeInv, TypeOK, Items
  <2>3. \A x \in picked[q] : holder'[x.staff] = q
    BY <2>2, UnlockOthers DEF SafeInv, LockInv
  <2> QED
    BY <2>1, <2>3 DEF SafeInv, LockInv
<1>4. CheckedInv'
  BY <1>1, <1>2 DEF SafeInv, CheckedInv, Live, Pristine
<1>5. RowsInv'
  BY <1>1, <1>2 DEF SafeInv, RowsInv
<1>6. LockedItemsDisjoint'
  BY DEF SafeInv, LockedItemsDisjoint, Live, Pristine
<1> QED
  BY <1>3, <1>4, <1>5, <1>6 DEF SafeInv

\* Moves that leave the locks, the tables and the items picked alone, and reach
\* neither a check nor an answer.
LEMMA SafeMove ==
  ASSUME TypeInv, SafeInv, NEW r \in Requests,
         NEW p \in {"line", "lock", "commit"}, pc[r] # "booked", pc' = [pc EXCEPT ![r] = p],
         \A q \in Requests \ {r} : target'[q] = target[q],
         UNCHANGED <<clock, picked, holder, status, items, moved, revived>>
  PROVE  SafeInv'
<1>1. \A q \in Requests : q # r => pc'[q] = pc[q] /\ target'[q] = target[q]
  BY DEF TypeInv, TypeOK
<1>2. pc'[r] = p
  BY DEF TypeInv, TypeOK
<1>3. LockInv'
  BY <1>1, <1>2 DEF SafeInv, LockInv, Disjoint, Overlap
<1>4. CheckedInv' /\ LockedItemsDisjoint'
  BY DEF SafeInv, CheckedInv, LockedItemsDisjoint, Live, Pristine
<1>5. RowsInv'
  BY <1>1, <1>2 DEF SafeInv, RowsInv
<1> QED
  BY <1>3, <1>4, <1>5 DEF SafeInv

LEMMA SafeLockStaff ==
  ASSUME TypeInv, SafeInv, NEW r \in Requests, LockStaff(r)
  PROVE  SafeInv'
<1>1. /\ target[r] \in Staff
      /\ holder[target[r]] \in {Nobody, r}
      /\ holder' = [holder EXCEPT ![target[r]] = r]
      /\ pc[r] = "lock" /\ pc' = [pc EXCEPT ![r] = "check"]
      /\ UNCHANGED <<clock, target, picked, status, items, moved, revived>>
  BY DEF TypeInv, LoopInv, LockStaff
<1>2. \A q \in Requests : \A s \in Staff : holder[s] = q => holder'[s] = q
  BY <1>1, DistinctValues DEF TypeInv, TypeOK
<1>3. \A q \in Requests : q # r => pc'[q] = pc[q]
  BY <1>1 DEF TypeInv, TypeOK
<1>4. holder'[target[r]] = r /\ pc'[r] = "check"
  BY <1>1 DEF TypeInv, TypeOK
<1>5. \A q \in Requests : \A x \in picked[q] : x.staff \in Staff
  BY DEF TypeInv, TypeOK, Items
<1>6. \A q \in Requests : pc[q] = "check" => target[q] \in Staff
  BY DEF TypeInv, LoopInv
<1>7. LockInv'
  <2>1. \A q \in Requests : pc'[q] = "check" => holder'[target'[q]] = q
    BY <1>1, <1>2, <1>3, <1>4, <1>6 DEF SafeInv, LockInv
  <2>2. \A q \in Requests : \A x \in picked'[q] : holder'[x.staff] = q
    BY <1>1, <1>2, <1>5 DEF SafeInv, LockInv
  <2> QED
    BY <1>1, <2>1, <2>2 DEF SafeInv, LockInv
<1>8. CheckedInv' /\ LockedItemsDisjoint'
  BY <1>1 DEF SafeInv, CheckedInv, LockedItemsDisjoint, Live, Pristine
<1>9. RowsInv'
  BY <1>1, <1>3 DEF SafeInv, RowsInv
<1> QED
  BY <1>7, <1>8, <1>9 DEF SafeInv

\* The item picked under the lock is free of committed items, by findOverlap, and
\* starts where the previous item of the same request ends.
LEMMA SafePickStaff ==
  ASSUME TypeInv, SafeInv, MarginCoversDurations, NEW r \in Requests, pc[r] = "check",
         ~FindOverlap(target[r], clock[r], CurrentLine(r).dur, {}), PickStaff(r)
  PROVE  SafeInv'
<1> DEFINE l    == CurrentLine(r)
           item == [booking |-> r, line |-> line[r], staff |-> target[r],
                    start |-> clock[r], dur |-> l.dur]
           next == IF line[r] < Len(order[r].lines) THEN "line"
                   ELSE IF order[r].customer = Guest THEN "commit" ELSE "customer"
<1>1. l.dur \in Nat \ {0} /\ clock[r] \in Nat
  BY LineFacts
<1>2. l.dur <= Margin
  <2>1. order[r] \in Orders /\ line[r] \in 1..Len(order[r].lines)
    BY DEF TypeInv, TypeOK, LoopInv
  <2> QED
    BY <2>1 DEF MarginCoversDurations, CurrentLine
<1>3. /\ picked' = [picked EXCEPT ![r] = @ \cup {item}]
      /\ clock' = [clock EXCEPT ![r] = @ + l.dur]
      /\ target' = [target EXCEPT ![r] = Nobody]
      /\ pc' = [pc EXCEPT ![r] = next]
      /\ UNCHANGED <<holder, status, items, moved, revived>>
  BY DEF PickStaff
<1>4. /\ item.booking = r /\ item.staff = target[r]
      /\ item.start = clock[r] /\ item.dur = l.dur
  OBVIOUS
<1>5. next \in {"line", "customer", "commit"}
  OBVIOUS
<1>6. holder[target[r]] = r
  BY DEF SafeInv, LockInv
<1>7. \A y \in items : y.staff = target[r] /\ Live(y) => ~Overlap(clock[r], l.dur, y.start, y.dur)
  BY <1>1, FindOverlapComplete DEF SafeInv
<1> HIDE DEF l, item, next
<1>8. /\ picked'[r] = picked[r] \cup {item}
      /\ clock'[r] = clock[r] + l.dur
      /\ pc'[r] = next
      /\ \A q \in Requests : q # r => /\ picked'[q] = picked[q]
                                      /\ clock'[q] = clock[q]
                                      /\ target'[q] = target[q]
                                      /\ pc'[q] = pc[q]
  BY <1>3 DEF TypeInv, TypeOK
<1>9. \A x \in picked[r] : /\ x.start \in Nat /\ x.dur \in Nat
                           /\ x.start + x.dur <= clock[r]
  BY DEF TypeInv, TypeOK, Items, SafeInv, LockInv
<1>10. LockInv'
  <2>1. \A x \in picked'[r] : /\ x.booking = r
                              /\ holder'[x.staff] = r
                              /\ x.start + x.dur <= clock'[r]
                              /\ x.dur <= Margin
    BY <1>1, <1>2, <1>3, <1>4, <1>6, <1>8, <1>9 DEF SafeInv, LockInv
  <2>2. \A x, y \in picked'[r] : x # y => Disjoint(x, y)
    <3>1. \A x \in picked[r] : Disjoint(x, item) /\ Disjoint(item, x)
      BY <1>1, <1>4, <1>9 DEF Disjoint, Overlap
    <3> QED
      BY <3>1, <1>8 DEF SafeInv, LockInv
  <2>3. \A q \in Requests : pc'[q] = "check" => q # r /\ pc[q] = "check"
    BY <1>5, <1>8
  <2>4. \A q \in Requests : pc'[q] = "check" => holder'[target'[q]] = q
    BY <2>3, <1>3, <1>8 DEF SafeInv, LockInv
  <2> QED
    BY <2>1, <2>2, <2>4, <1>3, <1>8 DEF SafeInv, LockInv
<1>11. CheckedInv'
  <2>1. \A y \in items : item.staff = y.staff /\ Live(y) => Disjoint(item, y)
    BY <1>4, <1>7 DEF Disjoint
  <2> QED
    BY <2>1, <1>3, <1>8 DEF SafeInv, CheckedInv, Live, Pristine
<1>12. RowsInv'
  BY <1>3, <1>8 DEF SafeInv, RowsInv
<1>13. LockedItemsDisjoint'
  BY <1>3 DEF SafeInv, LockedItemsDisjoint, Live, Pristine
<1> QED
  BY <1>10, <1>11, <1>12, <1>13 DEF SafeInv
\* The commit makes the picked items visible; they were checked against every
\* pristine live item under locks nobody else can hold.
LEMMA SafePublish ==
  ASSUME TypeInv, SafeInv, NEW r \in Requests, Publish(r)
  PROVE  SafeInv'
<1>1. /\ pc[r] = "commit" /\ pc' = [pc EXCEPT ![r] = "booked"]
      /\ items' = items \cup picked[r]
      /\ status' = [status EXCEPT ![r] = "active"]
      /\ picked' = [picked EXCEPT ![r] = {}]
      /\ Unlock(r)
      /\ UNCHANGED <<clock, target, moved, revived>>
  BY DEF Publish
<1>2. /\ picked'[r] = {} /\ pc'[r] = "booked" /\ status'[r] = "active"
      /\ \A q \in Requests : q # r => /\ picked'[q] = picked[q]
                                      /\ pc'[q] = pc[q]
                                      /\ status'[q] = status[q]
  BY <1>1 DEF TypeInv, TypeOK
<1>3. status[r] = "none"
  BY <1>1 DEF SafeInv, RowsInv
<1>4. \A y \in items : y.booking # r /\ y.booking \in Requests
  BY <1>3 DEF SafeInv, RowsInv, TypeInv, TypeOK, Items
<1>5. \A y \in items : /\ Live(y)' <=> Live(y)
                       /\ Pristine(y)' <=> Pristine(y)
  BY <1>1, <1>2, <1>4 DEF Live, Pristine
<1>6. \A q \in Requests : \A x \in picked[q] : x.staff \in Staff /\ holder[x.staff] = q
  BY DEF TypeInv, TypeOK, Items, SafeInv, LockInv
<1>7. LockInv'
  <2> SUFFICES ASSUME NEW q \in Requests, q # r
               PROVE  /\ pc[q] = "check" => holder'[target[q]] = q
                      /\ \A x \in picked[q] : holder'[x.staff] = q
    BY <1>1, <1>2 DEF SafeInv, LockInv
  <2>1. pc[q] = "check" => holder'[target[q]] = q
    BY <1>1, UnlockOthers DEF SafeInv, LockInv, TypeInv, LoopInv
  <2>2. \A x \in picked[q] : holder'[x.staff] = q
    BY <1>1, <1>6, UnlockOthers
  <2> QED
    BY <2>1, <2>2
<1>8. CheckedInv'
  <2> SUFFICES ASSUME NEW q \in Requests, q # r, NEW x \in picked[q], NEW y \in items',
                      x.staff = y.staff, Live(y)', Pristine(y)'
               PROVE  Disjoint(x, y)
    BY <1>2 DEF CheckedInv
  <2>1. CASE y \in items
    BY <2>1, <1>5 DEF SafeInv, CheckedInv
  <2>2. CASE y \in picked[r]
    BY <2>2, <1>6
  <2> QED
    BY <1>1, <2>1, <2>2
<1>9. RowsInv'
  <2>1. IsFiniteSet(items')
    BY <1>1, FS_Union DEF TypeInv, LoopInv
  <2>2. \A x \in picked[r] : x.booking = r /\ x.dur <= Margin
    BY DEF SafeInv, LockInv
  <2> QED
    BY <1>1, <1>2, <1>4, <2>1, <2>2 DEF SafeInv, RowsInv
<1>10. LockedItemsDisjoint'
  <2> SUFFICES ASSUME NEW x \in items', NEW y \in items', x # y, x.staff = y.staff,
                      Live(x)', Pristine(x)', Live(y)', Pristine(y)'
               PROVE  Disjoint(x, y)
    BY DEF LockedItemsDisjoint
  <2>1. CASE x \in items /\ y \in items
    BY <2>1, <1>5 DEF SafeInv, LockedItemsDisjoint
  <2>2. CASE x \in picked[r] /\ y \in items
    BY <2>2, <1>5 DEF SafeInv, CheckedInv
  <2>3. CASE x \in items /\ y \in picked[r]
    BY <2>3, <1>5 DEF SafeInv, CheckedInv, Disjoint, Overlap
  <2>4. CASE x \in picked[r] /\ y \in picked[r]
    BY <2>4 DEF SafeInv, LockInv
  <2> QED
    BY <1>1, <2>1, <2>2, <2>3, <2>4
<1> QED
  BY <1>7, <1>8, <1>9, <1>10 DEF SafeInv

\* The writers without locks add no pristine live item.
LEMMA WritersAddNothing ==
  ASSUME TypeInv, SafeInv,
         \/ \E r \in Requests : EndBooking(r) \/ ReviveBooking(r)
         \/ \E c \in Clerks : Reassign(c)
         \/ \E s \in Staff : RemoveStaff(s)
  PROVE  /\ UNCHANGED <<txVars, holder>>
         /\ \A y \in items' : Live(y)' /\ Pristine(y)' => y \in items /\ Live(y) /\ Pristine(y)
         /\ RowsInv'
<1>2. UNCHANGED <<txVars, holder>>
  BY DEF EndBooking, ReviveBooking, Reassign, CheckReassign, WriteReassign, RemoveStaff
<1>3. \A y \in items : y.booking \in Requests
  BY DEF TypeInv, TypeOK, Items
<1>4. ASSUME NEW r \in Requests, EndBooking(r) \/ ReviveBooking(r)
      PROVE  /\ \A y \in items' : Live(y)' /\ Pristine(y)' => y \in items /\ Live(y) /\ Pristine(y)
             /\ RowsInv'
  <2>1. /\ items' = items /\ moved' = moved /\ pc' = pc
        /\ status[r] # "none" /\ status'[r] # "none"
        /\ \A q \in Requests : q # r => status'[q] = status[q]
        /\ revived \subseteq revived'
        /\ status'[r] = "active" => r \in revived'
    BY <1>4 DEF EndBooking, ReviveBooking, txVars, TypeInv, TypeOK
  <2> QED
    BY <1>3, <2>1 DEF Live, Pristine, SafeInv, RowsInv
<1>5. ASSUME NEW c \in Clerks, WriteReassign(c)
      PROVE  /\ \A y \in items' : Live(y)' /\ Pristine(y)' => y \in items /\ Live(y) /\ Pristine(y)
             /\ RowsInv'
  <2>1. PICK x \in items : /\ <<x.booking, x.line>> = job[c].item
                           /\ items' = (items \ {x}) \cup {[x EXCEPT !.staff = job[c].staff]}
    BY <1>5 DEF WriteReassign
  <2>2. PICK z : z = [x EXCEPT !.staff = job[c].staff]
    OBVIOUS
  <2>3. z.booking = x.booking /\ z.line = x.line /\ z.dur = x.dur
    BY <2>2 DEF TypeInv, TypeOK, Items
  <2>4. moved' = moved \cup {job[c].item} /\ UNCHANGED <<status, revived, pc>>
    BY <1>5 DEF WriteReassign, txVars
  <2>5. items' = (items \ {x}) \cup {z}
    BY <2>1, <2>2
  <2>6. IsFiniteSet(items')
    BY <2>5, FS_RemoveElement, FS_AddElement DEF TypeInv
  <2>7. ~Pristine(z)'
    BY <2>1, <2>3, <2>4 DEF Pristine
  <2>8. \A y \in items : Pristine(y)' => Pristine(y)
    BY <2>4 DEF Pristine
  <2>9. \A y : Live(y)' <=> Live(y)
    BY <2>4 DEF Live
  <2>10. RowsInv'
    BY <2>3, <2>4, <2>5, <2>6 DEF SafeInv, RowsInv
  <2> QED
    BY <2>5, <2>7, <2>8, <2>9, <2>10
<1>6. ASSUME NEW c \in Clerks, NEW x \in items, NEW s \in Staff, CheckReassign(c, x, s)
      PROVE  /\ \A y \in items' : Live(y)' /\ Pristine(y)' => y \in items /\ Live(y) /\ Pristine(y)
             /\ RowsInv'
  BY <1>6 DEF CheckReassign, Live, Pristine, SafeInv, RowsInv, txVars
<1>7. ASSUME NEW s \in Staff, RemoveStaff(s)
      PROVE  /\ \A y \in items' : Live(y)' /\ Pristine(y)' => y \in items /\ Live(y) /\ Pristine(y)
             /\ RowsInv'
  BY <1>7 DEF RemoveStaff, Live, Pristine, SafeInv, RowsInv, txVars
<1> QED
  BY <1>2, <1>4, <1>5, <1>6, <1>7 DEF Reassign

LEMMA SafeWriters ==
  ASSUME TypeInv, SafeInv,
         \/ \E r \in Requests : EndBooking(r) \/ ReviveBooking(r)
         \/ \E c \in Clerks : Reassign(c)
         \/ \E s \in Staff : RemoveStaff(s)
  PROVE  SafeInv'
<1>1. /\ UNCHANGED <<txVars, holder>>
      /\ \A y \in items' : Live(y)' /\ Pristine(y)' => y \in items /\ Live(y) /\ Pristine(y)
      /\ RowsInv'
  BY WritersAddNothing
<1>2. LockInv'
  BY <1>1 DEF SafeInv, LockInv, txVars
<1> QED
  BY <1>1, <1>2 DEF SafeInv, CheckedInv, LockedItemsDisjoint, txVars

LEMMA SafeStep ==
  MarginCoversDurations /\ TypeInv /\ SafeInv /\ [Next]_vars => SafeInv'
<1> SUFFICES ASSUME MarginCoversDurations, TypeInv, SafeInv, [Next]_vars PROVE SafeInv'
  OBVIOUS
<1>1. ASSUME NEW r \in Requests, Booking(r) PROVE SafeInv'
  <2>1. CASE Begin(r)
    BY <2>1, SafeMove DEF Begin
  <2>2. CASE pc[r] \in {"line", "check", "customer"} /\ Refuse(r)
    <3>1. \A q \in Requests \ {r} : target'[q] = target[q] /\ clock'[q] = clock[q]
      BY <2>2 DEF Refuse, TypeInv, TypeOK
    <3> QED
      BY <2>2, <3>1, SafeRollback DEF Refuse, InTx
  <2>3. ASSUME pc[r] \in {"line", "check"}, NEW C \in SUBSET Ranked, Try(r, C)
        PROVE  SafeInv'
    <3>1. /\ \A q \in Requests \ {r} : target'[q] = target[q]
          /\ pc' = [pc EXCEPT ![r] = "lock"]
          /\ UNCHANGED <<clock, picked, holder, status, items, moved, revived>>
      BY <2>3 DEF Try, TypeInv, TypeOK
    <3> QED
      BY <2>3, <3>1, SafeMove
  <2>4. CASE /\ pc[r] = "customer"
             /\ pc' = [pc EXCEPT ![r] = "commit"]
             /\ UNCHANGED <<order, line, clock, target, cand, picked, tries,
                            holder, active, status, items, job, moved, revived>>
    BY <2>4, SafeMove
  <2>5. ASSUME pc[r] \in InTx, NEW retryable \in BOOLEAN, Abort(r, retryable)
        PROVE  SafeInv'
    <3>1. \A q \in Requests \ {r} : target'[q] = target[q] /\ clock'[q] = clock[q]
      BY <2>5 DEF Abort, TypeInv, TypeOK
    <3>2. \E p \in {"line", "failed"} : pc' = [pc EXCEPT ![r] = p]
      BY <2>5 DEF Abort
    <3> QED
      BY <2>5, <3>1, <3>2, SafeRollback DEF Abort
  <2> QED
    BY <1>1, <2>1, <2>2, <2>3, <2>4, <2>5, RequestMoves, SafeLockStaff, SafePickStaff, SafePublish
<1>2. CASE UNCHANGED vars
  BY <1>2 DEF vars, txVars, SafeInv, LockInv, CheckedInv, RowsInv, LockedItemsDisjoint,
              Live, Pristine
<1> QED
  BY <1>1, <1>2, SafeWriters DEF Next

\* BookingInv holds in every reachable state when no ordered service lasts longer
\* than the scan margin.
THEOREM BookingInvariant == MarginCoversDurations => (Spec => []BookingInv)
<1> SUFFICES ASSUME MarginCoversDurations PROVE Spec => []BookingInv
  OBVIOUS
<1>1. TypeInv /\ SafeInv /\ [Next]_vars => SafeInv'
  BY SafeStep
<1>2. TypeInv /\ SafeInv => BookingInv
  BY DEF TypeInv, SafeInv, BookingInv
<1> QED
  BY <1>1, <1>2, TypeInit, TypeStep, SafeInit, PTL DEF Spec

\* create() and createWalkIn() never book one staff member twice for the same time:
\* their items collide only once an unlocked writer has moved or revived one.
THEOREM NoCollisionUnderLocks == MarginCoversDurations => (Spec => []LockedItemsDisjoint)
<1>1. BookingInv => LockedItemsDisjoint
  BY DEF BookingInv
<1> QED
  BY <1>1, BookingInvariant, PTL

-----------------------------------------------------------------------------
(* The transactions by themselves: TxSpec.                                  *)

\* Nobody moves an item, revives a booking, ends one or removes a staff member.
Undisturbed == moved = {} /\ revived = {} /\ active = Staff

LEMMA UndisturbedStep ==
  ASSUME TypeInv, Undisturbed, [TxNext]_vars
  PROVE  Undisturbed'
<1>1. ASSUME NEW r \in Requests, Booking(r) PROVE Undisturbed'
  BY <1>1, RequestMoves DEF Undisturbed, Begin, Refuse, Try, LockStaff, PickStaff, Publish, Abort
<1> QED
  BY <1>1 DEF TxNext, vars, Undisturbed

\* create() and createWalkIn() alone never book one staff member twice for the same
\* time, whatever number of them run at once, deadlock, lose candidates or retry.
THEOREM NeverDoubleBooked == MarginCoversDurations => (TxSpec => []NoDoubleBooking)
<1> SUFFICES ASSUME MarginCoversDurations PROVE TxSpec => []NoDoubleBooking
  OBVIOUS
<1>1. Init => Undisturbed
  BY DEF Init, Undisturbed
<1>2. [TxNext]_vars => [Next]_vars
  BY DEF TxNext, Next
<1>3. TypeInv /\ Undisturbed /\ [TxNext]_vars => Undisturbed'
  BY UndisturbedStep
<1>4. TypeInv /\ SafeInv /\ [Next]_vars => SafeInv'
  BY SafeStep
<1>5. SafeInv /\ Undisturbed => NoDoubleBooking
  BY DEF SafeInv, Undisturbed, LockedItemsDisjoint, NoDoubleBooking, Pristine
<1> QED
  BY <1>1, <1>2, <1>3, <1>4, <1>5, TypeInit, TypeStep, SafeInit, PTL DEF TxSpec

\* While nobody cancels, what is taken stays taken.
LEMMA TakenStaysTaken ==
  ASSUME TypeInv, [TxNext]_vars, NEW s, NEW start, NEW dur, FindOverlap(s, start, dur, {})
  PROVE  FindOverlap(s, start, dur, {})'
<1>1. items \subseteq items' /\ \A q \in Requests : status[q] = "active" => status'[q] = "active"
  <2>1. ASSUME NEW r \in Requests, Booking(r)
        PROVE  items \subseteq items' /\ \A q \in Requests : status[q] = "active" => status'[q] = "active"
    BY <2>1, RequestMoves DEF Begin, Refuse, Try, LockStaff, PickStaff, Publish, Abort, TypeInv, TypeOK
  <2> QED
    BY <2>1 DEF TxNext, vars
<1>2. \A x \in items : x.booking \in Requests
  BY DEF TypeInv, TypeOK, Items
<1>3. BusyItems(s, start, dur) \subseteq BusyItems(s, start, dur)'
  BY <1>1, <1>2 DEF BusyItems
<1> QED
  BY <1>3 DEF FindOverlap

\* Of the staff a line may be given to, each is being tried, still to be tried, or taken.
TriedInv ==
  \A r \in Requests : pc[r] \in {"lock", "check"} =>
     \A s \in Eligible(CurrentLine(r), clock[r]) :
        \/ s = target[r]
        \/ \E c \in cand[r] : c.staff = s
        \/ FindOverlap(s, clock[r], CurrentLine(r).dur, {})

Untaken(r) == {s \in Eligible(CurrentLine(r), clock[r]) :
                 ~FindOverlap(s, clock[r], CurrentLine(r).dur, {})}

\* The candidates of a line are exactly those it may still be given to.
LEMMA CandidatesOfLine ==
  ASSUME TypeInv, Undisturbed, NEW r \in Requests, ReadLine(r)
  PROVE  /\ pc[r] = "line"
         /\ \/ Refuse(r) /\ Untaken(r) = {}
            \/ \E C \in SUBSET Ranked : /\ Try(r, C)
                                       /\ \A s \in Untaken(r) : \E c \in C : c.staff = s
<1> DEFINE l == CurrentLine(r)
           C == IF l.staff = AnyStaff THEN Candidates(clock[r], l.dur)
                ELSE {[staff |-> s, load |-> 0] : s \in {l.staff} \cap active}
<1>1. pc[r] = "line" /\ IF C = {} THEN Refuse(r) ELSE Try(r, C)
  BY DEF ReadLine
<1>2. l.staff \in Staff \cup {AnyStaff}
  BY <1>1, LineFacts
<1>3. C \in SUBSET Ranked
  <2>1. CASE l.staff = AnyStaff
    BY <2>1, CandidatesType
  <2>2. CASE l.staff # AnyStaff
    BY <2>2 DEF TypeInv, TypeOK, Ranked
  <2> QED
    BY <2>1, <2>2
<1>4. \A s \in Untaken(r) : \E c \in C : c.staff = s
  <2>1. CASE l.staff = AnyStaff
    <3> SUFFICES ASSUME NEW s \in Untaken(r)
                 PROVE  [staff |-> s, load |-> Cardinality(BusyItems(s, clock[r], l.dur))] \in C
      OBVIOUS
    <3>1. /\ s \in active /\ Shift[s].from <= clock[r] /\ clock[r] + l.dur <= Shift[s].to
          /\ ~FindOverlap(s, clock[r], l.dur, {})
      BY <2>1 DEF Untaken, Eligible
    <3> QED
      BY <2>1, <3>1 DEF Candidates
  <2>2. CASE l.staff # AnyStaff
    <3>1. [staff |-> l.staff, load |-> 0] \in C
      BY <2>2, <1>2 DEF Undisturbed
    <3> QED
      BY <2>2, <3>1 DEF Untaken, Eligible
  <2> QED
    BY <2>1, <2>2
<1> HIDE DEF C
<1> QED
  BY <1>1, <1>3, <1>4

\* A candidate is tried, and the others are kept.
LEMMA TryKeepsOthers ==
  ASSUME TypeInv, NEW r \in Requests, NEW C \in SUBSET Ranked, Try(r, C),
         NEW s, \E c \in C : c.staff = s
  PROVE  s = target'[r] \/ \E c \in cand'[r] : c.staff = s
<1>1. PICK c \in Least(C) : /\ target' = [target EXCEPT ![r] = c.staff]
                            /\ cand' = [cand EXCEPT ![r] = C \ {c}]
  BY DEF Try
<1>2. target'[r] = c.staff /\ cand'[r] = C \ {c}
  BY <1>1 DEF TypeInv, TypeOK
<1> QED
  BY <1>2

\* A request moves nothing of another one's transaction.
LEMMA OthersKeepTheirs ==
  ASSUME TypeInv, NEW r \in Requests, Booking(r), NEW q \in Requests \ {r}
  PROVE  /\ pc'[q] = pc[q] /\ line'[q] = line[q] /\ order'[q] = order[q]
         /\ clock'[q] = clock[q] /\ target'[q] = target[q] /\ cand'[q] = cand[q]
<1> USE DEF TypeInv, TypeOK
<1>1. CASE Begin(r) \/ LockStaff(r) \/ Publish(r) \/ Refuse(r)
  BY <1>1 DEF Begin, LockStaff, Publish, Refuse
<1>2. CASE PickStaff(r)
  BY <1>2 DEF PickStaff
<1>3. CASE \E C : Try(r, C)
  BY <1>3 DEF Try
<1>4. CASE \E retryable : Abort(r, retryable)
  BY <1>4 DEF Abort
<1>5. CASE pc' = [pc EXCEPT ![r] = "commit"] /\ UNCHANGED <<order, line, clock, target, cand>>
  BY <1>5
<1> QED
  BY <1>1, <1>2, <1>3, <1>4, <1>5, RequestMoves

LEMMA TriedStep ==
  ASSUME TypeInv, Undisturbed, TriedInv, [TxNext]_vars
  PROVE  TriedInv'
<1>1. active' = active
  BY UndisturbedStep DEF Undisturbed
<1>2. \A q \in Requests : line'[q] = line[q] /\ order'[q] = order[q]
                          => CurrentLine(q)' = CurrentLine(q)
  BY DEF CurrentLine
<1>3. ASSUME NEW q \in Requests, pc'[q] \in {"lock", "check"}, pc[q] \in {"lock", "check"},
             line'[q] = line[q], order'[q] = order[q], clock'[q] = clock[q],
             target'[q] = target[q], cand'[q] = cand[q],
             NEW s \in Eligible(CurrentLine(q), clock[q])'
      PROVE  (\/ s = target[q]
              \/ \E c \in cand[q] : c.staff = s
              \/ FindOverlap(s, clock[q], CurrentLine(q).dur, {}))'
  <2>1. s \in Eligible(CurrentLine(q), clock[q])
    BY <1>1, <1>2, <1>3 DEF Eligible
  <2>2. FindOverlap(s, clock[q], CurrentLine(q).dur, {})
        => FindOverlap(s, clock[q], CurrentLine(q).dur, {})'
    BY <1>2, <1>3, TakenStaysTaken
  <2> QED
    BY <1>3, <2>1, <2>2 DEF TriedInv
<1>4. ASSUME NEW r \in Requests, Booking(r) PROVE TriedInv'
  <2>1. \A q \in Requests \ {r} :
           /\ pc'[q] = pc[q] /\ line'[q] = line[q] /\ order'[q] = order[q]
           /\ clock'[q] = clock[q] /\ target'[q] = target[q] /\ cand'[q] = cand[q]
    BY <1>4, OthersKeepTheirs
  <2>2. SUFFICES pc'[r] \in {"lock", "check"} =>
                   \A s \in Eligible(CurrentLine(r), clock[r])' :
                      (\/ s = target[r]
                       \/ \E c \in cand[r] : c.staff = s
                       \/ FindOverlap(s, clock[r], CurrentLine(r).dur, {}))'
    BY <1>3, <2>1 DEF TriedInv
  <2>3. CASE LockStaff(r)
    <3>1. /\ pc[r] = "lock"
          /\ UNCHANGED <<line, order, clock, target, cand>>
      BY <2>3 DEF LockStaff
    <3> QED
      BY <3>1, <1>3
  <2>4. ASSUME NEW C \in SUBSET Ranked, Try(r, C),
               \A s \in Untaken(r) : \E c \in C : c.staff = s
        PROVE  \A s \in Eligible(CurrentLine(r), clock[r])' :
                  (\/ s = target[r]
                   \/ \E c \in cand[r] : c.staff = s
                   \/ FindOverlap(s, clock[r], CurrentLine(r).dur, {}))'
    <3>1. UNCHANGED <<line, order, clock, items, status>>
      BY <2>4 DEF Try
    <3> SUFFICES ASSUME NEW s \in Eligible(CurrentLine(r), clock[r])'
                 PROVE  (\/ s = target[r]
                         \/ \E c \in cand[r] : c.staff = s
                         \/ FindOverlap(s, clock[r], CurrentLine(r).dur, {}))'
      OBVIOUS
    <3>2. s \in Eligible(CurrentLine(r), clock[r])
      BY <3>1, <1>1, <1>2 DEF Eligible
    <3>3. CASE s \in Untaken(r)
      BY <3>3, <2>4, TryKeepsOthers
    <3>4. CASE FindOverlap(s, clock[r], CurrentLine(r).dur, {})
      BY <3>1, <3>4, <1>2, TakenStaysTaken
    <3> QED
      BY <3>2, <3>3, <3>4 DEF Untaken
  <2>5. CASE ReadLine(r)
    <3>1. CASE Refuse(r)
      BY <3>1 DEF Refuse, TypeInv, TypeOK
    <3> QED
      BY <2>4, <2>5, <3>1, CandidatesOfLine
  <2>6. CASE CheckStaff(r)
    <3>1. CASE Refuse(r) \/ PickStaff(r)
      BY <3>1 DEF Refuse, PickStaff, TypeInv, TypeOK
    <3>2. CASE FindOverlap(target[r], clock[r], CurrentLine(r).dur, {}) /\ Try(r, cand[r])
      <4>1. cand[r] \in SUBSET Ranked
        BY DEF TypeInv, TypeOK
      <4>2. \A s \in Untaken(r) : \E c \in cand[r] : c.staff = s
        BY <2>6, <3>2 DEF CheckStaff, TriedInv, Untaken
      <4> QED
        BY <3>2, <4>1, <4>2, <2>4
    <3> QED
      BY <2>6, <3>1, <3>2 DEF CheckStaff
  <2>7. CASE Begin(r) \/ CheckCustomer(r) \/ Publish(r) \/ \E retryable \in BOOLEAN : Abort(r, retryable)
    BY <2>7 DEF Begin, CheckCustomer, Refuse, Publish, Abort, TypeInv, TypeOK
  <2> QED
    BY <1>4, <2>3, <2>5, <2>6, <2>7
    DEF Booking, Handle, CommitBooking, CommitWalkIn, DeadlockVictim, Timeout
<1>5. CASE UNCHANGED vars
  BY <1>3, <1>5 DEF vars, txVars, TriedInv
<1> QED
  BY <1>4, <1>5 DEF TxNext

RefusalFair(r) ==
  pc[r] \in {"line", "check"} /\ pc'[r] = "refused"
  => \A s \in Eligible(CurrentLine(r), clock[r]) :
        FindOverlap(s, clock[r], CurrentLine(r).dur, {})

\* Only the two refusals of a line end there, and they find nobody untaken.
LEMMA RefusalIsFair ==
  ASSUME TypeInv, Undisturbed, TriedInv, [TxNext]_vars, NEW r \in Requests
  PROVE  RefusalFair(r)
<1> SUFFICES ASSUME pc[r] \in {"line", "check"}, pc'[r] = "refused" PROVE Untaken(r) = {}
  BY DEF RefusalFair, Untaken
<1>1. PICK q \in Requests : Booking(q)
  BY DEF TxNext, vars, txVars
<1>2. CASE q # r
  BY <1>1, <1>2, OthersKeepTheirs
<1>3. CASE ReadLine(r)
  <2>1. ASSUME NEW C, Try(r, C) PROVE pc'[r] = "lock"
    BY <2>1 DEF Try, TypeInv, TypeOK
  <2> QED
    BY <1>3, <2>1, CandidatesOfLine
<1>4. CASE CheckStaff(r)
  <2>1. ~PickStaff(r) /\ ~Try(r, cand[r])
    BY DEF PickStaff, Try, TypeInv, TypeOK
  <2> QED
    BY <1>4, <2>1 DEF CheckStaff, TriedInv, Untaken
<1>5. ASSUME NEW retryable \in BOOLEAN, Abort(r, retryable) PROVE FALSE
  BY <1>5 DEF Abort, TypeInv, TypeOK
<1> QED
  BY <1>1, <1>2, <1>3, <1>4, <1>5
  DEF Booking, Handle, Begin, LockStaff, CheckCustomer, CommitBooking, CommitWalkIn, Publish,
      DeadlockVictim, Timeout

\* A request is refused for want of staff only when every eligible member is taken by a
\* committed booking: losing candidates to others, one after the other, or deadlocks on
\* the way never refuse a request that somebody could still serve (createWalkIn, create).
THEOREM RefusesOnlyForWant == TxSpec => RefusedOnlyWhenTaken
<1> DEFINE Fair == \A r \in Requests : RefusalFair(r)
           Inv == TypeInv /\ Undisturbed /\ TriedInv
<1>1. Init => Inv
  BY TypeInit DEF Init, Undisturbed, TriedInv
<1>2. Inv /\ [TxNext]_vars => Inv'
  <2> SUFFICES ASSUME Inv, [TxNext]_vars PROVE Inv'
    OBVIOUS
  <2>1. [Next]_vars
    BY DEF TxNext, Next
  <2> QED
    BY <2>1, TypeStep, UndisturbedStep, TriedStep
<1>3. Inv /\ [TxNext]_vars => [Fair]_vars
  BY RefusalIsFair
<1> QED
  BY <1>1, <1>2, <1>3, PTL DEF TxSpec, RefusedOnlyWhenTaken, RefusalFair

-----------------------------------------------------------------------------
(* Refinement of the calendar.                                             *)

Reserved == {x \in items : Live(x) /\ Pristine(x)}

\* A commit reserves what it has picked, all at once.
LEMMA PublishReserves ==
  ASSUME TypeInv, SafeInv, LockedItemsDisjoint', NEW r \in Requests, Publish(r)
  PROVE  Calendar!Reserve
<1>1. /\ items' = items \cup picked[r]
      /\ \A q \in Requests : q # r => status'[q] = status[q]
      /\ UNCHANGED <<moved, revived>>
      /\ status[r] = "none"
  BY DEF Publish, TypeInv, TypeOK, SafeInv, RowsInv
<1>2. \A y \in items : y.booking # r /\ y.booking \in Requests
  BY <1>1 DEF SafeInv, RowsInv, TypeInv, TypeOK, Items
<1>3. \A y \in items : Live(y)' = Live(y) /\ Pristine(y)' = Pristine(y)
  BY <1>1, <1>2 DEF Live, Pristine
<1>4. Reserved \subseteq Reserved' /\ Reserved' \ Reserved \subseteq picked[r]
  BY <1>1, <1>3 DEF Reserved
<1>5. \A x \in picked[r] : x.booking = r
  BY DEF SafeInv, LockInv
<1>6. \A x, y \in Reserved' : ~Calendar!Collide(x, y)
  BY DEF Reserved, LockedItemsDisjoint, Calendar!Collide, Disjoint, Overlap
<1> QED
  BY <1>2, <1>4, <1>5, <1>6 DEF Calendar!Reserve, Reserved

\* Every other step of a transaction leaves the items alone.
LEMMA CalendarStep ==
  ASSUME TypeInv, SafeInv, LockedItemsDisjoint', [Next]_vars
  PROVE  [Calendar!Next]_Reserved
<1>1. ASSUME NEW r \in Requests, Booking(r) PROVE [Calendar!Next]_Reserved
  <2>1. CASE Publish(r)
    BY <2>1, PublishReserves DEF Calendar!Next
  <2>2. CASE UNCHANGED <<items, status, moved, revived>>
    BY <2>2 DEF Reserved, Live, Pristine
  <2> QED
    BY <1>1, <2>1, <2>2, RequestMoves DEF Begin, Refuse, Try, LockStaff, PickStaff, Abort
<1>2. CASE \/ \E r \in Requests : EndBooking(r) \/ ReviveBooking(r)
           \/ \E c \in Clerks : Reassign(c)
           \/ \E s \in Staff : RemoveStaff(s)
  <2>1. Reserved' \subseteq Reserved
    BY <1>2, WritersAddNothing DEF Reserved
  <2> QED
    BY <2>1 DEF Calendar!Next, Calendar!Release, Reserved
<1>3. CASE UNCHANGED vars
  BY <1>3 DEF vars, Reserved, Live, Pristine
<1> QED
  BY <1>1, <1>2, <1>3 DEF Next

\* The booking transactions implement SlotCalendar, next to writers that move, end and
\* revive bookings: whoever books gets all slots at once, and only free ones.
THEOREM BooksAtomically == MarginCoversDurations => (Spec => ReservesAtomically)
<1> SUFFICES ASSUME MarginCoversDurations PROVE Spec => ReservesAtomically
  OBVIOUS
<1>1. Init => Calendar!Init
  BY DEF Init, Calendar!Init
<1>2. TypeInv /\ SafeInv /\ [Next]_vars => SafeInv'
  BY SafeStep
<1>3. TypeInv /\ SafeInv /\ SafeInv' /\ [Next]_vars => [Calendar!Next]_Reserved
  BY CalendarStep DEF SafeInv
<1> QED
  BY <1>1, <1>2, <1>3, TypeInit, TypeStep, SafeInit, PTL
  DEF Spec, ReservesAtomically, Calendar!Spec, Reserved
=============================================================================
