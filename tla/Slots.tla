-------------------------------- MODULE Slots ---------------------------------
(* The free slots of a date, as the readers of the roster compute them: the   *)
(* page where a customer picks a slot, the automatic choice of staff while a    *)
(* booking is made, and the list of stand-ins for an item already booked; and   *)
(* the two that show the date itself, to customers and to the store.           *)
EXTENDS Roster, Integers, Sequences

CONSTANTS
  OpenTime, CloseTime,    \* the store's hours on the weekday
  SlotInterval,
  Now,                    \* the time of day if the date is today, else before OpenTime
  Durations,
  Customers,
  Items,                  \* what bookings may take: [staff, customer, from, dur]
  Orders                  \* sequences of services [staff, dur] one may ask for

\* Hours are read as minutes, a service takes one at least (ServiceVariantDto) and one asks for
\* one at least (AvailableSlotsDto); that hours off end after they begin is not checked anywhere.
ASSUME SlotConstants ==
  /\ OpenTime \in Nat /\ CloseTime \in Nat /\ Now \in Int
  /\ SlotInterval \in Nat \ {0} /\ Durations \subseteq Nat \ {0}
  /\ Shifts \subseteq Nat \X Nat /\ "any" \notin Staff
  /\ Absences \subseteq {AllDay} \cup (Nat \X Nat)
  /\ CallHours \subseteq (Nat \cup {NoTime}) \X (Nat \cup {NoTime})
  /\ Items \subseteq [staff : Staff, customer : Customers, from : Nat, dur : Nat \ {0}]
  /\ Orders \subseteq Seq([staff : Staff \cup {"any"}, dur : Nat \ {0}]) \ {<<>>}

VARIABLE bookedItems      \* [staff, customer, from, dur] of bookings that are alive

SlotInit == RosterInit /\ bookedItems = {}

Minutes(w) == w[1] .. w[2] - 1
Meets(a, b, x) == a < x[2] /\ x[1] < b
Higher(x, y) == IF x > y THEN x ELSE y
Lower(x, y)  == IF x < y THEN x ELSE y

OnShift(m)  == schedule[m].status = "ON"
CalledIn(m) == callIn[m].status = "ACCEPTED"
OffRow(m)   == dayOff[m].status \in {"PENDING", "APPROVED"}
OffAllDay(m) == OffRow(m) /\ dayOff[m].hours = AllDay
Occupied(m) == {<<i.from, i.from + i.dur>> : i \in {j \in bookedItems : j.staff = m}}

(* --------------------- The page of slots (getAvailableSlots) -------------- *)

\* The weekly shift, else of a call-in each end that was given, else that of the store.
EndOr(x, y) == IF x = NoTime THEN y ELSE x
HoursOf(m) == IF OnShift(m) THEN schedule[m].hours
              ELSE <<EndOr(callIn[m].hours[1], OpenTime), EndOr(callIn[m].hours[2], CloseTime)>>
Window(m) == <<Higher(OpenTime, HoursOf(m)[1]), Lower(CloseTime, HoursOf(m)[2])>>
Serves(m) == /\ OnShift(m) \/ CalledIn(m)
             /\ ~OffAllDay(m)
             /\ Window(m)[1] < Window(m)[2]
\* Variant: hours off within the day are forgotten.
BusyByBookings(m) == Occupied(m)
BusyWindows(m) == Occupied(m) \cup (IF OffRow(m) /\ ~OffAllDay(m) THEN {dayOff[m].hours} ELSE {})
Workload(m) == Cardinality({j \in bookedItems : j.staff = m}) + (IF OffRow(m) /\ ~OffAllDay(m) THEN 1 ELSE 0)
FitsIn(m, a, b) == /\ Serves(m)
                   /\ Window(m)[1] <= a /\ b <= Window(m)[2]
                   /\ ~\E x \in BusyWindows(m) : Meets(a, b, x)

\* One service after the other, each to the least busy member who is free then.
Wanted(svc) == IF svc.staff \in Staff THEN {svc.staff} ELSE Staff
Place(plan, svc) ==
  LET a == plan.at
      b == a + svc.dur
      free == {m \in Wanted(svc) : FitsIn(m, a, b)
                 /\ ~\E p \in plan.picks : p.staff = m /\ Meets(a, b, <<p.from, p.to>>)}
  IN IF ~plan.ok \/ free = {} THEN [plan EXCEPT !.ok = FALSE]
     ELSE LET m == CHOOSE m \in free : \A o \in free : Workload(m) <= Workload(o)
          IN [at |-> b, picks |-> plan.picks \cup {[staff |-> m, from |-> a, to |-> b]}, ok |-> TRUE]
PlanAt(t, svcs) ==
  LET plan[k \in 0 .. Len(svcs)] == IF k = 0 THEN [at |-> t, picks |-> {}, ok |-> TRUE]
                                   ELSE Place(plan[k - 1], svcs[k])
  IN plan[Len(svcs)]

\* The minutes of the first k services.
Upto(svcs) ==
  LET minutes[k \in 0 .. Len(svcs)] == IF k = 0 THEN 0 ELSE minutes[k - 1] + svcs[k].dur
  IN minutes
TotalOf(svcs) == Upto(svcs)[Len(svcs)]
Grid(total) == {t \in OpenTime .. CloseTime : (t - OpenTime) % SlotInterval = 0 /\ t + total <= CloseTime}
CustomerBusy(c, a, b) ==
  \E i \in bookedItems : i.customer = c /\ Meets(a, b, <<i.from, i.from + i.dur>>)
Offers(svcs, c) == LET total == TotalOf(svcs)
                   IN {t \in Grid(total) : t >= Now /\ PlanAt(t, svcs).ok /\ ~CustomerBusy(c, t, t + total)}

(* ---------- The automatic choice and the stand-ins for one item ----------- *)

\* Variant: only approved days off keep a member away.
ApprovedConflict(m, a, b) ==
  dayOff[m].status = "APPROVED" /\ (dayOff[m].hours = AllDay \/ Meets(a, b, dayOff[m].hours))
DayOffConflict(m, a, b) == OffRow(m) /\ (dayOff[m].hours = AllDay \/ Meets(a, b, dayOff[m].hours))
Overlaps(m, a, b) == \E x \in Occupied(m) : Meets(a, b, x)

\* pickAvailableStaff: no opening hours of the store, no call-in without both its ends.
Pickable(m, a, b) ==
  /\ OnShift(m) \/ CalledIn(m)
  /\ ~DayOffConflict(m, a, b)
  /\ LET w == IF OnShift(m) THEN schedule[m].hours ELSE callIn[m].hours
     IN w[1] # NoTime /\ w[2] # NoTime /\ w[1] <= a /\ b <= w[2]
  /\ ~Overlaps(m, a, b)

\* findAvailableStaffForSlot: the weekly schedule only.
StandIn(m, a, b) ==
  /\ OnShift(m) /\ ~DayOffConflict(m, a, b)
  /\ schedule[m].hours[1] <= a /\ b <= schedule[m].hours[2]
  /\ ~Overlaps(m, a, b)

\* getAvailableStaff: whom a customer may choose for the date, at any time of it.
Choosable(m) == ~OffAllDay(m) /\ (OnShift(m) \/ CalledIn(m))

\* getDailyTimeline: what the store sees of the date; a call-in hides a weekly shift.
Called(m) == callIn[m].status \in {"PENDING", "ACCEPTED"}
Timeline(m) ==
  CASE OffRow(m)                        -> "dayoff"
    [] ~OffRow(m) /\ Called(m)          -> IF CalledIn(m) THEN "callin_accepted" ELSE "callin_pending"
    [] ~OffRow(m) /\ ~Called(m)         -> IF OnShift(m) THEN "working" ELSE "off"

\* A booking takes a time, or ends.  The readers must cope with any items: a new booking is
\* checked against the others, one whose deposit settles late is not, and an item moved to another
\* member is checked unlocked (create, updatePaymentSuccess, updateBookingItemStaff: StaffBooking).
BookItem(i) == bookedItems' = bookedItems \cup {i} /\ UNCHANGED rosterVars
EndItem(i)  == bookedItems' = bookedItems \ {i} /\ UNCHANGED rosterVars

SlotNext == \/ RosterNext /\ UNCHANGED bookedItems
            \/ \E i \in Items \ bookedItems : BookItem(i)
            \/ \E i \in bookedItems : EndItem(i)

(* ---------------------------- Properties --------------------------------- *)

\* The readers see rows only, and every roster is met with no call under way.
Quiet == \A r \in RosterReqs : rosterReqs[r] = NoRosterReq

\* What it means that a member can work from a to b, minute by minute.
AtWork(m, x) == \/ OnShift(m) /\ x \in Minutes(schedule[m].hours)
                \/ /\ ~OnShift(m) /\ CalledIn(m)
                   /\ callIn[m].hours[1] \in {NoTime} \cup 0 .. x
                   /\ callIn[m].hours[2] = NoTime \/ x < callIn[m].hours[2]
Free(m, a, b) == \A x \in a .. b - 1 :
  /\ x \in OpenTime .. CloseTime - 1
  /\ AtWork(m, x)
  /\ ~(OffRow(m) /\ (dayOff[m].hours = AllDay \/ x \in Minutes(dayOff[m].hours)))
  /\ ~\E i \in bookedItems : i.staff = m /\ x \in i.from .. i.from + i.dur - 1

From(t, svcs, k) == t + Upto(svcs)[k - 1]
Feasible(t, svcs) == \A k \in DOMAIN svcs :
  \E m \in Wanted(svcs[k]) : Free(m, From(t, svcs, k), From(t, svcs, k) + svcs[k].dur)
CustomerFree(c, a, b) ==
  ~\E i \in bookedItems, x \in a .. b - 1 : i.customer = c /\ x \in i.from .. i.from + i.dur - 1

\* Hours off that end before they begin, which nothing refuses, take no minute and yet hide slots.
HoursOffInOrder ==
  \A m \in Staff : OffRow(m) /\ ~OffAllDay(m) => dayOff[m].hours[1] < dayOff[m].hours[2]

\* The times that can be had: every service in turn has a member who is free minute by minute.
CanBeHad(svcs, c) ==
  LET total == TotalOf(svcs)
  IN {t \in Grid(total) : t >= Now /\ Feasible(t, svcs) /\ CustomerFree(c, t, t + total)}

\* The page offers a time only when every service in turn has a member who is open for business, at
\* work, not off and not booked minute by minute, and each member it names is one; and it offers
\* every such time when the hours off are in order (getAvailableSlots).
OffersAreExact ==
  Quiet => \A svcs \in Orders :
    /\ \A c \in Customers : /\ Offers(svcs, c) \subseteq CanBeHad(svcs, c)
                            /\ HoursOffInOrder => CanBeHad(svcs, c) \subseteq Offers(svcs, c)
    /\ \A t \in Grid(TotalOf(svcs)) :
         LET plan == PlanAt(t, svcs) IN plan.ok => \A p \in plan.picks : Free(p.staff, p.from, p.to)

BothEnds(m) == NoTime \notin {callIn[m].hours[1], callIn[m].hours[2]}

\* The readers agree wherever they mean to.  Inside the opening hours the automatic choice takes
\* whom the page shows, except a member called in without both ends of the hours, whom it passes
\* over; the stand-ins are those of them on their weekly shift; whom the page shows can be chosen and is at work on the store's own
\* timeline, but for part of a day off and a call-in that hides a shift (pickAvailableStaff,
\* findAvailableStaffForSlot, getAvailableStaff, getDailyTimeline).
ReadersAgree ==
  Quiet => \A m \in Staff, a \in OpenTime .. CloseTime, d \in Durations :
    a + d <= CloseTime =>
      /\ Pickable(m, a, a + d) <=> FitsIn(m, a, a + d) /\ (OnShift(m) \/ BothEnds(m))
      /\ StandIn(m, a, a + d) <=> Pickable(m, a, a + d) /\ OnShift(m)
      /\ FitsIn(m, a, a + d) => /\ Choosable(m)
                                /\ Timeline(m) \in {"working", "callin_accepted"}
                                   \/ OffRow(m) \/ (OnShift(m) /\ Called(m))
      /\ Choosable(m) /\ ~OffRow(m) /\ Window(m)[1] <= a /\ a + d <= Window(m)[2] /\ ~Overlaps(m, a, a + d)
           => FitsIn(m, a, a + d)
=============================================================================
