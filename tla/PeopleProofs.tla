----------------------------- MODULE PeopleProofs -----------------------------
(* Theorems about the people of a store: their approved days off (Roster), the  *)
(* slots that the roster leaves free (Slots, which extends Roster), the sessions *)
(* of an account (Sessions), memberships and the permission cache (Membership).  *)
(* They share no state otherwise; each has a specification of its own here, for  *)
(* any members, devices, stores, roles, hours, orders and calls.                 *)
EXTENDS Membership, Sessions, Slots, FiniteSetTheorems, NaturalsInduction,
        WellFoundedInduction, TLAPS

-----------------------------------------------------------------------------
(* Days off.  The property is about the step that changes an approved row; the  *)
(* invariant it needs says who could take such a step: only a call that read    *)
(* the row before the approval, and `early' remembers all of those.            *)
RosterSpec == RosterInit /\ [][RosterNext]_rosterVars

Ops == {"insertDayOff", "decideDayOff", "editDayOff", "deleteDayOff",
        "insertCallIn", "answer", "deleteCallIn"}
OnDayOff == {"decideDayOff", "editDayOff", "deleteDayOff"}
DayOffRows == {NoRow} \cup [status : {"PENDING", "APPROVED", "REJECTED"}, hours : Absences]

RosterTypes ==
  /\ dayOff \in [Staff -> DayOffRows]
  /\ early \in [Staff -> SUBSET RosterReqs]
  /\ rosterReqs \in [RosterReqs -> {NoRosterReq} \cup [at : Ops, of : Staff]]

\* Whoever is about to write an approved row was under way when it was approved.
OnlyEarlyCalls ==
  \A m \in Staff : \A r \in RosterReqs :
    dayOff[m].status = "APPROVED" /\ rosterReqs[r].at \in OnDayOff /\ rosterReqs[r].of = m
      => r \in early[m]

RosterInv == RosterTypes /\ OnlyEarlyCalls

\* The initial roster satisfies the invariant: no row, no call (the tables before any request).
LEMMA RosterInitInv == RosterInit => RosterInv
  BY DEF RosterInit, RosterInv, RosterTypes, OnlyEarlyCalls, DayOffRows, NoRow, NoRosterReq, OnDayOff

\* What a call that begins leaves alone, and where it stands (the first read of a call).
LEMMA BeginsKeepsInv ==
  ASSUME RosterInv, NEW r \in RosterReqs, NEW m \in Staff, NEW op \in Ops, Begins(r, m, op),
         op \in OnDayOff => dayOff[m].status # "APPROVED"
  PROVE  RosterInv'
<1>1. RosterTypes'
  BY DEF RosterInv, RosterTypes, Begins
<1>2. OnlyEarlyCalls'
  <2> SUFFICES ASSUME NEW n \in Staff, NEW o \in RosterReqs,
                      dayOff'[n].status = "APPROVED", rosterReqs'[o].at \in OnDayOff,
                      rosterReqs'[o].of = n
               PROVE  o \in early'[n]
    BY DEF OnlyEarlyCalls
  <2>1. CASE o = r
    BY <2>1 DEF RosterInv, RosterTypes, Begins
  <2>2. CASE o # r
    BY <2>2 DEF RosterInv, RosterTypes, OnlyEarlyCalls, Begins
  <2> QED BY <2>1, <2>2
<1> QED BY <1>1, <1>2 DEF RosterInv

\* A call that ends without touching a row of the day-off table (the call-ins).
LEMMA EndsKeepsInv ==
  ASSUME RosterInv, NEW r \in RosterReqs, Ends(r), UNCHANGED <<dayOff, early>>
  PROVE  RosterInv'
<1>1. RosterTypes'
  BY DEF RosterInv, RosterTypes, Ends
<1>2. OnlyEarlyCalls'
  BY DEF RosterInv, RosterTypes, OnlyEarlyCalls, Ends, NoRosterReq, OnDayOff
<1> QED BY <1>1, <1>2 DEF RosterInv

\* The writes of the day-off table: create, review, update, remove and cancelOwn.
LEMMA InsertDayOffKeepsInv ==
  ASSUME RosterInv, NEW r \in RosterReqs, NEW w \in Absences, InsertDayOff(r, w)
  PROVE  RosterInv'
<1>1. rosterReqs[r].of \in Staff
  BY DEF RosterInv, RosterTypes, InsertDayOff, At, NoRosterReq
<1>2. RosterTypes'
  BY <1>1 DEF RosterInv, RosterTypes, DayOffRows, InsertDayOff, Ends, Of, Wish
<1>3. OnlyEarlyCalls'
  <2> SUFFICES ASSUME NEW n \in Staff, NEW o \in RosterReqs,
                      dayOff'[n].status = "APPROVED", rosterReqs'[o].at \in OnDayOff,
                      rosterReqs'[o].of = n
               PROVE  o \in early'[n]
    BY DEF OnlyEarlyCalls
  <2>1. dayOff[n].status = "APPROVED"
    BY <1>1 DEF RosterInv, RosterTypes, InsertDayOff, Ends, Of, Wish
  <2>2. o # r /\ rosterReqs'[o] = rosterReqs[o]
    BY DEF RosterInv, RosterTypes, InsertDayOff, Ends, NoRosterReq, OnDayOff
  <2> QED BY <2>1, <2>2 DEF RosterInv, OnlyEarlyCalls, InsertDayOff
<1> QED BY <1>2, <1>3 DEF RosterInv

\* The write of a review or of an answer to a request (review).
LEMMA DecideDayOffKeepsInv ==
  ASSUME RosterInv, NEW r \in RosterReqs, NEW s \in {"APPROVED", "REJECTED"}, DecideDayOff(r, s)
  PROVE  RosterInv'
<1>1. rosterReqs[r].of \in Staff
  BY DEF RosterInv, RosterTypes, DecideDayOff, At, NoRosterReq
<1>2. RosterTypes'
  BY <1>1 DEF RosterInv, RosterTypes, DayOffRows, DecideDayOff, Ends, Of, Others
<1>3. OnlyEarlyCalls'
  <2> SUFFICES ASSUME NEW n \in Staff, NEW o \in RosterReqs,
                      dayOff'[n].status = "APPROVED", rosterReqs'[o].at \in OnDayOff,
                      rosterReqs'[o].of = n
               PROVE  o \in early'[n]
    BY DEF OnlyEarlyCalls
  <2>1. o # r /\ rosterReqs'[o] = rosterReqs[o] /\ rosterReqs[o] # NoRosterReq
    BY DEF RosterInv, RosterTypes, DecideDayOff, Ends, NoRosterReq, OnDayOff
  <2>2. CASE dayOff[Of(r)] = NoRow
    BY <2>1, <2>2 DEF RosterInv, OnlyEarlyCalls, DecideDayOff
  <2>3. CASE dayOff[Of(r)] # NoRow /\ Of(r) = n
    <3>1. dayOff'[n].status = s
      BY <1>1, <2>3 DEF RosterInv, RosterTypes, DayOffRows, DecideDayOff, Of
    <3>2. early'[n] = Others(r)
      BY <1>1, <2>3, <3>1 DEF RosterInv, RosterTypes, DecideDayOff, Of
    <3> QED BY <2>1, <3>2 DEF Others
  <2>4. CASE dayOff[Of(r)] # NoRow /\ Of(r) # n
    BY <2>1, <2>4 DEF RosterInv, RosterTypes, OnlyEarlyCalls, DecideDayOff
  <2> QED BY <2>2, <2>3, <2>4
<1> QED BY <1>2, <1>3 DEF RosterInv

\* The write of an edit (update).
LEMMA WriteDayOffKeepsInv ==
  ASSUME RosterInv, NEW r \in RosterReqs, NEW w \in Absences, WriteDayOff(r, w)
  PROVE  RosterInv'
<1>1. rosterReqs[r].of \in Staff
  BY DEF RosterInv, RosterTypes, WriteDayOff, At, NoRosterReq
<1>2. RosterTypes'
  BY <1>1 DEF RosterInv, RosterTypes, DayOffRows, WriteDayOff, Ends, Of
<1>3. OnlyEarlyCalls'
  <2> SUFFICES ASSUME NEW n \in Staff, NEW o \in RosterReqs,
                      dayOff'[n].status = "APPROVED", rosterReqs'[o].at \in OnDayOff,
                      rosterReqs'[o].of = n
               PROVE  o \in early'[n]
    BY DEF OnlyEarlyCalls
  <2>1. o # r /\ rosterReqs'[o] = rosterReqs[o]
    BY DEF RosterInv, RosterTypes, WriteDayOff, Ends, NoRosterReq, OnDayOff
  <2>2. dayOff[n].status = "APPROVED"
    BY <1>1 DEF RosterInv, RosterTypes, DayOffRows, WriteDayOff, Of
  <2> QED BY <2>1, <2>2 DEF RosterInv, OnlyEarlyCalls, WriteDayOff
<1> QED BY <1>2, <1>3 DEF RosterInv

\* The delete of a removal or of a withdrawal (remove, cancelOwn).
LEMMA DeleteDayOffKeepsInv ==
  ASSUME RosterInv, NEW r \in RosterReqs, DeleteDayOff(r)
  PROVE  RosterInv'
<1>1. rosterReqs[r].of \in Staff
  BY DEF RosterInv, RosterTypes, DeleteDayOff, At, NoRosterReq
<1>2. RosterTypes'
  BY <1>1 DEF RosterInv, RosterTypes, DayOffRows, DeleteDayOff, Ends, Of
<1>3. OnlyEarlyCalls'
  <2> SUFFICES ASSUME NEW n \in Staff, NEW o \in RosterReqs,
                      dayOff'[n].status = "APPROVED", rosterReqs'[o].at \in OnDayOff,
                      rosterReqs'[o].of = n
               PROVE  o \in early'[n]
    BY DEF OnlyEarlyCalls
  <2>1. o # r /\ rosterReqs'[o] = rosterReqs[o]
    BY DEF RosterInv, RosterTypes, DeleteDayOff, Ends, NoRosterReq, OnDayOff
  <2>2. dayOff[n].status = "APPROVED"
    BY <1>1 DEF RosterInv, RosterTypes, DeleteDayOff, Of, NoRow
  <2> QED BY <2>1, <2>2 DEF RosterInv, OnlyEarlyCalls, DeleteDayOff
<1> QED BY <1>2, <1>3 DEF RosterInv

\* Every call of the three services keeps the invariant.
LEMMA RosterStepInv == RosterInv /\ [RosterNext]_rosterVars => RosterInv'
<1> SUFFICES ASSUME RosterInv, [RosterNext]_rosterVars PROVE RosterInv'
  OBVIOUS
<1>1. CASE UNCHANGED rosterVars
  BY <1>1 DEF RosterInv, RosterTypes, OnlyEarlyCalls, rosterVars
<1>2. ASSUME NEW m \in Staff, NEW row, ReplaceSchedule(m, row) PROVE RosterInv'
  BY <1>2 DEF RosterInv, RosterTypes, OnlyEarlyCalls, ReplaceSchedule
<1>3. ASSUME NEW m \in Staff, NEW w \in Shifts, NEW on \in BOOLEAN, CreateSchedule(m, w, on)
      PROVE  RosterInv'
  BY <1>3 DEF RosterInv, RosterTypes, OnlyEarlyCalls, CreateSchedule
<1>4. ASSUME NEW m \in Staff, NEW r \in RosterReqs,
             \/ AskDayOff(r, m) \/ ReviewDayOff(r, m) \/ EditDayOff(r, m)
             \/ CancelDayOff(r, m) \/ RemoveDayOff(r, m)
             \/ CallIn(r, m) \/ Respond(r, m) \/ RemoveCallIn(r, m)
      PROVE  RosterInv'
  <2>1. PICK op \in Ops : Begins(r, m, op) /\ (op \in OnDayOff => dayOff[m].status # "APPROVED")
    BY <1>4 DEF AskDayOff, ReviewDayOff, EditDayOff, CancelDayOff, RemoveDayOff, CallIn, Respond,
                RemoveCallIn, MayDecideDayOff, MayEditDayOff, MayCancelDayOff, MayRemoveDayOff,
                Ops, OnDayOff
  <2> QED BY <2>1, BeginsKeepsInv
<1>5. ASSUME NEW r \in RosterReqs, DeleteCallIn(r) PROVE RosterInv'
  BY <1>5, EndsKeepsInv DEF DeleteCallIn
<1>6. ASSUME NEW r \in RosterReqs, NEW s, Answer(r, s) PROVE RosterInv'
  BY <1>6, EndsKeepsInv DEF Answer
<1>7. ASSUME NEW r \in RosterReqs, NEW w \in CallHours, InsertCallIn(r, w) PROVE RosterInv'
  BY <1>7, EndsKeepsInv DEF InsertCallIn
<1> QED
  BY <1>1, <1>2, <1>3, <1>4, <1>5, <1>6, <1>7, InsertDayOffKeepsInv, DecideDayOffKeepsInv,
     WriteDayOffKeepsInv, DeleteDayOffKeepsInv DEF RosterNext

\* A step that changes an approved row is the last one of a call that was there before it.
LEMMA ApprovedRowChanges ==
  ASSUME RosterInv, RosterNext, NEW m \in Staff, dayOff[m].status = "APPROVED",
         dayOff'[m] # dayOff[m]
  PROVE  \E r \in early[m] : rosterReqs[r] # NoRosterReq /\ rosterReqs'[r] = NoRosterReq
<1>1. PICK r \in RosterReqs : \/ DeleteDayOff(r)
                              \/ \E s \in {"APPROVED", "REJECTED"} : DecideDayOff(r, s)
                              \/ \E w \in Absences : InsertDayOff(r, w) \/ WriteDayOff(r, w)
  BY DEF RosterNext, ReplaceSchedule, CreateSchedule, AskDayOff, ReviewDayOff, EditDayOff,
         CancelDayOff, RemoveDayOff, CallIn, Respond, RemoveCallIn, Begins, DeleteCallIn, Answer,
         InsertCallIn
<1>2. rosterReqs[r] # NoRosterReq /\ rosterReqs[r].of \in Staff
  BY <1>1 DEF RosterInv, RosterTypes, DeleteDayOff, DecideDayOff, InsertDayOff, WriteDayOff, At,
              NoRosterReq
<1>3. ASSUME NEW w \in Absences, InsertDayOff(r, w) PROVE FALSE
  <2>1. dayOff[m] # NoRow
    BY DEF NoRow
  <2>2. CASE dayOff[Of(r)] = NoRow
    BY <1>2, <1>3, <2>1, <2>2 DEF RosterInv, RosterTypes, InsertDayOff, Of
  <2>3. CASE dayOff[Of(r)] # NoRow
    BY <1>3, <2>3 DEF InsertDayOff
  <2> QED BY <2>2, <2>3
<1>4. rosterReqs[r].at \in OnDayOff /\ rosterReqs'[r] = NoRosterReq
  BY <1>1, <1>3 DEF RosterInv, RosterTypes, DeleteDayOff, DecideDayOff, WriteDayOff, At, Ends, OnDayOff
<1>5. rosterReqs[r].of = m
  BY <1>1, <1>2, <1>3 DEF RosterInv, RosterTypes, DeleteDayOff, DecideDayOff, WriteDayOff, Of
<1> QED BY <1>2, <1>4, <1>5 DEF RosterInv, OnlyEarlyCalls

\* An approved day off is changed, refused or deleted only by a call that was under way when it
\* was approved, for any number of members and calls (review, update, remove, cancelOwn).
THEOREM ApprovalStandsAlways == RosterSpec => ApprovalStands
<1>1. RosterInv /\ [RosterNext]_rosterVars =>
        [\A m \in Staff : dayOff[m].status = "APPROVED" /\ dayOff'[m] # dayOff[m] =>
           \E r \in early[m] : rosterReqs[r] # NoRosterReq /\ rosterReqs'[r] = NoRosterReq]_rosterVars
  BY ApprovedRowChanges
<1> QED BY <1>1, RosterInitInv, RosterStepInv, PTL DEF RosterSpec, ApprovalStands

-----------------------------------------------------------------------------
(* The free slots of a date.  What the readers compute is a function of the rows  *)
(* there are; the invariant only says what rows there can be.                    *)

slotVars == <<rosterVars, bookedItems>>
SlotSpec == SlotInit /\ [][SlotNext]_slotVars

HoursKnown ==
  /\ schedule \in [Staff -> {NoRow} \cup [status : {"ON", "OFF"}, hours : Shifts]]
  /\ callIn \in [Staff -> {NoRow} \cup [status : {"PENDING", "ACCEPTED", "REJECTED"}, hours : CallHours]]

SlotInv == RosterInv /\ HoursKnown /\ bookedItems \subseteq Items /\ IsFiniteSet(bookedItems)

\* The calls about schedules and call-ins.
LEMMA HoursStayKnown ==
  ASSUME RosterInv, HoursKnown, [RosterNext]_rosterVars
  PROVE  HoursKnown'
<1>1. ASSUME NEW m \in Staff, NEW row, ReplaceSchedule(m, row), row = NoRow \/ \E w \in Shifts, on \in BOOLEAN : row = Shift(w, on)
      PROVE  HoursKnown'
  BY <1>1 DEF HoursKnown, ReplaceSchedule, Shift
<1>2. ASSUME NEW m \in Staff, NEW w \in Shifts, NEW on \in BOOLEAN, CreateSchedule(m, w, on)
      PROVE  HoursKnown'
  BY <1>2 DEF HoursKnown, CreateSchedule, Shift
<1>3. ASSUME NEW r \in RosterReqs, NEW w \in CallHours, InsertCallIn(r, w) PROVE HoursKnown'
  <2>1. Of(r) \in Staff
    BY <1>3 DEF RosterInv, RosterTypes, InsertCallIn, At, Of, NoRosterReq
  <2> QED
    BY <1>3, <2>1 DEF HoursKnown, InsertCallIn, Wish
<1>4. ASSUME NEW r \in RosterReqs, NEW s \in {"ACCEPTED", "REJECTED"}, Answer(r, s) PROVE HoursKnown'
  <2>1. Of(r) \in Staff
    BY <1>4 DEF RosterInv, RosterTypes, Answer, At, Of, NoRosterReq
  <2> QED
    BY <1>4, <2>1 DEF HoursKnown, Answer
<1>5. ASSUME NEW r \in RosterReqs, DeleteCallIn(r) PROVE HoursKnown'
  <2>1. Of(r) \in Staff
    BY <1>5 DEF RosterInv, RosterTypes, DeleteCallIn, At, Of, NoRosterReq
  <2> QED
    BY <1>5, <2>1 DEF HoursKnown, DeleteCallIn
<1>6. CASE UNCHANGED <<schedule, callIn>>
  BY <1>6 DEF HoursKnown
<1>7. CASE UNCHANGED rosterVars
  BY <1>6, <1>7 DEF rosterVars
<1>8. ASSUME NEW m \in Staff, NEW r \in RosterReqs,
             \/ AskDayOff(r, m) \/ ReviewDayOff(r, m) \/ EditDayOff(r, m)
             \/ CancelDayOff(r, m) \/ RemoveDayOff(r, m)
             \/ CallIn(r, m) \/ Respond(r, m) \/ RemoveCallIn(r, m)
      PROVE  UNCHANGED <<schedule, callIn>>
  BY <1>8 DEF AskDayOff, ReviewDayOff, EditDayOff, CancelDayOff, RemoveDayOff, CallIn, Respond,
              RemoveCallIn, Begins
<1>9. ASSUME NEW r \in RosterReqs,
             \/ DeleteDayOff(r)
             \/ \E s \in {"APPROVED", "REJECTED"} : DecideDayOff(r, s)
             \/ \E w \in Absences : InsertDayOff(r, w) \/ WriteDayOff(r, w)
      PROVE  UNCHANGED <<schedule, callIn>>
  BY <1>9 DEF DeleteDayOff, DecideDayOff, InsertDayOff, WriteDayOff
<1> QED
  BY <1>1, <1>2, <1>3, <1>4, <1>5, <1>6, <1>7, <1>8, <1>9 DEF RosterNext

LEMMA SlotInvariant == SlotSpec => []SlotInv
<1>1. SlotInit => SlotInv
  BY RosterInitInv, FS_EmptySet DEF SlotInit, RosterInit, SlotInv, HoursKnown
<1>2. SlotInv /\ [SlotNext]_slotVars => SlotInv'
  <2> SUFFICES ASSUME SlotInv, [SlotNext]_slotVars PROVE SlotInv'
    OBVIOUS
  <2>1. [RosterNext]_rosterVars
    BY DEF SlotNext, slotVars, BookItem, EndItem
  <2>2. RosterInv' /\ HoursKnown'
    BY <2>1, RosterStepInv, HoursStayKnown DEF SlotInv
  <2>3. bookedItems' = bookedItems \/ (\E i \in Items : bookedItems' = bookedItems \cup {i})
        \/ (\E i \in Items : bookedItems' = bookedItems \ {i})
    BY DEF SlotNext, slotVars, BookItem, EndItem, SlotInv
  <2>4. IsFiniteSet(bookedItems')
    BY <2>3, FS_AddElement, FS_RemoveElement DEF SlotInv
  <2> QED
    BY <2>2, <2>3, <2>4 DEF SlotInv
<1> QED
  BY <1>1, <1>2, PTL DEF SlotSpec

\* The hours in the rows: pairs of minutes, of a call-in those that were given.
LEMMA RowHours ==
  ASSUME SlotInv, NEW m \in Staff
  PROVE  /\ OnShift(m) => schedule[m].hours \in Nat \X Nat
         /\ CalledIn(m) => /\ callIn[m].hours[1] = NoTime \/ callIn[m].hours[1] \in Nat
                           /\ callIn[m].hours[2] = NoTime \/ callIn[m].hours[2] \in Nat
         /\ OffRow(m) => dayOff[m].hours \in {AllDay} \cup (Nat \X Nat)
<1>1. OnShift(m) => schedule[m].hours \in Shifts
  BY DEF SlotInv, HoursKnown, OnShift, NoRow
<1>2. CalledIn(m) => callIn[m].hours \in CallHours
  BY DEF SlotInv, HoursKnown, CalledIn, NoRow
<1>3. OffRow(m) => dayOff[m].hours \in Absences
  BY DEF SlotInv, RosterInv, RosterTypes, DayOffRows, OffRow, NoRow
<1> QED
  BY <1>1, <1>2, <1>3, SlotConstants

\* What it takes to fit in, for a time that is not empty.
Suits(m, a, b) ==
  /\ OnShift(m) \/ CalledIn(m)
  /\ OpenTime <= a /\ b <= CloseTime
  /\ OnShift(m) => schedule[m].hours[1] <= a /\ b <= schedule[m].hours[2]
  /\ ~OnShift(m) => /\ callIn[m].hours[1] = NoTime \/ callIn[m].hours[1] <= a
                    /\ callIn[m].hours[2] = NoTime \/ b <= callIn[m].hours[2]
  /\ ~DayOffConflict(m, a, b)
  /\ ~Overlaps(m, a, b)

LEMMA WindowHolds ==
  ASSUME SlotInv, NEW m \in Staff, NEW a \in Int, NEW b \in Int, OnShift(m) \/ CalledIn(m)
  PROVE  /\ Window(m)[1] \in Int /\ Window(m)[2] \in Int
         /\ Window(m)[1] <= a <=> OpenTime <= a /\ HoursOf(m)[1] <= a
         /\ b <= Window(m)[2] <=> b <= CloseTime /\ b <= HoursOf(m)[2]
<1>1. HoursOf(m)[1] \in Nat /\ HoursOf(m)[2] \in Nat
  <2>1. CASE OnShift(m)
    BY <2>1, RowHours DEF HoursOf
  <2>2. CASE ~OnShift(m)
    BY <2>2, RowHours, SlotConstants DEF HoursOf, EndOr
  <2> QED
    BY <2>1, <2>2
<1>2. Window(m)[1] = Higher(OpenTime, HoursOf(m)[1]) /\ Window(m)[2] = Lower(CloseTime, HoursOf(m)[2])
  BY DEF Window
<1> QED
  BY <1>1, <1>2, SlotConstants DEF Higher, Lower

LEMMA FitsMeans ==
  ASSUME SlotInv, NEW m \in Staff, NEW a \in Int, NEW b \in Int, a < b
  PROVE  FitsIn(m, a, b) <=> Suits(m, a, b)
<1>1. CASE ~OnShift(m) /\ ~CalledIn(m)
  BY <1>1 DEF FitsIn, Serves, Suits
<1>2. CASE OnShift(m) \/ CalledIn(m)
  <2>1. Window(m)[1] <= a /\ b <= Window(m)[2] => Window(m)[1] < Window(m)[2]
    BY <1>2, WindowHolds
  <2>2. (\E x \in BusyWindows(m) : Meets(a, b, x)) <=>
          Overlaps(m, a, b) \/ (OffRow(m) /\ ~OffAllDay(m) /\ Meets(a, b, dayOff[m].hours))
    BY DEF BusyWindows, Overlaps
  <2>3. FitsIn(m, a, b) <=>
          /\ ~OffAllDay(m) /\ Window(m)[1] <= a /\ b <= Window(m)[2] /\ ~Overlaps(m, a, b)
          /\ ~(OffRow(m) /\ ~OffAllDay(m) /\ Meets(a, b, dayOff[m].hours))
    BY <1>2, <2>1, <2>2 DEF FitsIn, Serves
  <2>4. DayOffConflict(m, a, b) <=> OffAllDay(m) \/ (OffRow(m) /\ Meets(a, b, dayOff[m].hours))
    BY DEF DayOffConflict, OffAllDay
  <2>5. FitsIn(m, a, b) <=>
          /\ Window(m)[1] <= a /\ b <= Window(m)[2] /\ ~Overlaps(m, a, b) /\ ~DayOffConflict(m, a, b)
    BY <2>3, <2>4
  <2>6. Window(m)[1] <= a /\ b <= Window(m)[2] <=>
          /\ OpenTime <= a /\ b <= CloseTime
          /\ HoursOf(m)[1] <= a /\ b <= HoursOf(m)[2]
    BY <1>2, WindowHolds
  <2>7. CASE OnShift(m)
    BY <2>5, <2>6, <2>7 DEF Suits, HoursOf
  <2>8. CASE ~OnShift(m)
    <3>1. /\ HoursOf(m)[1] = EndOr(callIn[m].hours[1], OpenTime)
          /\ HoursOf(m)[2] = EndOr(callIn[m].hours[2], CloseTime)
      BY <2>8 DEF HoursOf
    <3> QED
      BY <1>2, <2>5, <2>6, <2>8, <3>1 DEF Suits, EndOr
  <2> QED
    BY <2>7, <2>8
<1> QED
  BY <1>1, <1>2

\* The readers of the roster agree wherever they mean to, whatever rows and booked items there are;
\* of the call-ins without both ends of their hours it says that the automatic choice passes them
\* over while the page shows them.
THEOREM ReadersAlwaysAgree == SlotSpec => []ReadersAgree
<1>1. SlotInv => ReadersAgree
  <2> SUFFICES ASSUME SlotInv, NEW m \in Staff, NEW a \in OpenTime .. CloseTime, NEW d \in Durations,
                      a + d <= CloseTime
               PROVE  /\ Pickable(m, a, a + d) <=> FitsIn(m, a, a + d) /\ (OnShift(m) \/ BothEnds(m))
                      /\ StandIn(m, a, a + d) <=> Pickable(m, a, a + d) /\ OnShift(m)
                      /\ FitsIn(m, a, a + d) => /\ Choosable(m)
                                                /\ Timeline(m) \in {"working", "callin_accepted"}
                                                   \/ OffRow(m) \/ (OnShift(m) /\ Called(m))
                      /\ Choosable(m) /\ ~OffRow(m) /\ Window(m)[1] <= a /\ a + d <= Window(m)[2]
                           /\ ~Overlaps(m, a, a + d) => FitsIn(m, a, a + d)
    BY DEF ReadersAgree
  <2> DEFINE b == a + d
  <2>1. a \in Int /\ b \in Int /\ a < b /\ OpenTime <= a /\ b <= CloseTime
    BY SlotConstants
  <2> HIDE DEF b
  <2>2. FitsIn(m, a, b) <=> Suits(m, a, b)
    BY <2>1, FitsMeans
  <2>3. Pickable(m, a, b) <=> Suits(m, a, b) /\ (OnShift(m) \/ BothEnds(m))
    <3>1. OnShift(m) => schedule[m].hours[1] # NoTime /\ schedule[m].hours[2] # NoTime
      BY RowHours DEF NoTime
    <3>2. CASE OnShift(m)
      BY <2>1, <3>1, <3>2 DEF Pickable, Suits
    <3>3. CASE ~OnShift(m)
      BY <2>1, <3>3 DEF Pickable, Suits, BothEnds
    <3> QED
      BY <3>2, <3>3
  <2>4. StandIn(m, a, b) <=> Pickable(m, a, b) /\ OnShift(m)
    BY <2>1, <2>3 DEF StandIn, Suits
  <2>5. FitsIn(m, a, b) => Choosable(m)
    BY <2>2 DEF Suits, Choosable, DayOffConflict, OffAllDay
  <2>6. FitsIn(m, a, b) => Timeline(m) \in {"working", "callin_accepted"} \/ OffRow(m) \/ (OnShift(m) /\ Called(m))
    <3>1. ASSUME ~OffRow(m), ~(OnShift(m) /\ Called(m)), OnShift(m) \/ CalledIn(m)
          PROVE  Timeline(m) \in {"working", "callin_accepted"}
      <4>1. CASE OnShift(m)
        BY <3>1, <4>1 DEF Timeline
      <4>2. CASE ~OnShift(m)
        BY <3>1, <4>2 DEF Timeline, Called, CalledIn
      <4> QED
        BY <4>1, <4>2
    <3> QED
      BY <2>2, <3>1 DEF Suits
  <2>7. Choosable(m) /\ ~OffRow(m) /\ Window(m)[1] <= a /\ b <= Window(m)[2] /\ ~Overlaps(m, a, b)
           => FitsIn(m, a, b)
    <3> SUFFICES ASSUME Choosable(m), ~OffRow(m), Window(m)[1] <= a, b <= Window(m)[2], ~Overlaps(m, a, b)
                 PROVE  FitsIn(m, a, b)
      OBVIOUS
    <3>1. OnShift(m) \/ CalledIn(m)
      BY DEF Choosable
    <3>2. Window(m)[1] < Window(m)[2]
      BY <2>1, <3>1, WindowHolds
    <3>3. BusyWindows(m) = Occupied(m)
      BY DEF BusyWindows
    <3> QED
      BY <3>1, <3>2, <3>3 DEF FitsIn, Serves, OffAllDay, Overlaps
  <2> QED
    BY <2>2, <2>3, <2>4, <2>5, <2>6, <2>7 DEF b
<1> QED
  BY <1>1, SlotInvariant, PTL

(* The page of slots.  A member who fits in is free minute by minute, and the plan of  *)
(* a time is found service by service.                                                 *)

LEMMA SuitsIsFree ==
  ASSUME SlotInv, NEW m \in Staff, NEW a \in Int, NEW b \in Int, a < b
  PROVE  /\ Suits(m, a, b) => Free(m, a, b)
         /\ HoursOffInOrder /\ Free(m, a, b) => Suits(m, a, b)
<1>1. /\ OnShift(m) => schedule[m].hours[1] \in Nat /\ schedule[m].hours[2] \in Nat
      /\ CalledIn(m) => /\ callIn[m].hours[1] = NoTime \/ callIn[m].hours[1] \in Nat
                        /\ callIn[m].hours[2] = NoTime \/ callIn[m].hours[2] \in Nat
      /\ OffRow(m) => \/ dayOff[m].hours = AllDay
                      \/ dayOff[m].hours[1] \in Nat /\ dayOff[m].hours[2] \in Nat
  BY RowHours
<1>2. \A i \in bookedItems : i.staff \in Staff /\ i.from \in Nat /\ i.dur \in Nat \ {0}
  BY SlotConstants DEF SlotInv
<1>3. Overlaps(m, a, b) <=> \E i \in bookedItems : i.staff = m /\ a < i.from + i.dur /\ i.from < b
  <2>1. ASSUME Overlaps(m, a, b)
        PROVE  \E i \in bookedItems : i.staff = m /\ a < i.from + i.dur /\ i.from < b
    <3>1. PICK x \in Occupied(m) : Meets(a, b, x)
      BY <2>1 DEF Overlaps
    <3>2. PICK i \in bookedItems : i.staff = m /\ x = <<i.from, i.from + i.dur>>
      BY DEF Occupied
    <3> QED
      BY <3>1, <3>2 DEF Meets
  <2>2. ASSUME NEW i \in bookedItems, i.staff = m, a < i.from + i.dur, i.from < b
        PROVE  Overlaps(m, a, b)
    <3>1. <<i.from, i.from + i.dur>> \in Occupied(m) /\ Meets(a, b, <<i.from, i.from + i.dur>>)
      BY <2>2 DEF Occupied, Meets
    <3> QED
      BY <3>1 DEF Overlaps
  <2> QED
    BY <2>1, <2>2
<1>4. ASSUME Suits(m, a, b), NEW x \in a .. b - 1
      PROVE  /\ x \in OpenTime .. CloseTime - 1
             /\ AtWork(m, x)
             /\ ~(OffRow(m) /\ (dayOff[m].hours = AllDay \/ x \in Minutes(dayOff[m].hours)))
             /\ ~\E i \in bookedItems : i.staff = m /\ x \in i.from .. i.from + i.dur - 1
  <2>1. x \in OpenTime .. CloseTime - 1
    BY <1>4, SlotConstants DEF Suits
  <2>2. AtWork(m, x)
    <3>1. CASE OnShift(m)
      BY <1>1, <1>4, <3>1 DEF Suits, AtWork, Minutes
    <3>2. CASE ~OnShift(m)
      BY <1>1, <1>4, <3>2 DEF Suits, AtWork, Minutes
    <3> QED
      BY <3>1, <3>2
  <2>3. ~(OffRow(m) /\ (dayOff[m].hours = AllDay \/ x \in Minutes(dayOff[m].hours)))
    BY <1>1, <1>4 DEF Suits, DayOffConflict, Meets, Minutes
  <2>4. ~\E i \in bookedItems : i.staff = m /\ x \in i.from .. i.from + i.dur - 1
    BY <1>2, <1>3, <1>4 DEF Suits
  <2> QED
    BY <2>1, <2>2, <2>3, <2>4
<1>5. ASSUME HoursOffInOrder, Free(m, a, b) PROVE Suits(m, a, b)
  <2>1. a \in a .. b - 1 /\ b - 1 \in a .. b - 1
    OBVIOUS
  <2>2. OpenTime <= a /\ b <= CloseTime
    BY <1>5, <2>1, SlotConstants DEF Free
  <2>3. AtWork(m, a) /\ AtWork(m, b - 1)
    BY <1>5, <2>1 DEF Free
  <2>4. OnShift(m) \/ CalledIn(m)
    BY <2>3 DEF AtWork
  <2>5. OnShift(m) => schedule[m].hours[1] <= a /\ b <= schedule[m].hours[2]
    BY <1>1, <2>3 DEF AtWork, Minutes
  <2>6. ~OnShift(m) => /\ callIn[m].hours[1] = NoTime \/ callIn[m].hours[1] <= a
                       /\ callIn[m].hours[2] = NoTime \/ b <= callIn[m].hours[2]
    BY <1>1, <2>3 DEF AtWork, Minutes
  <2>7. ~DayOffConflict(m, a, b)
    <3>1. ASSUME OffRow(m) PROVE dayOff[m].hours # AllDay
      BY <1>5, <2>1, <3>1 DEF Free
    <3>2. ASSUME OffRow(m), Meets(a, b, dayOff[m].hours) PROVE FALSE
      <4> DEFINE x == Higher(a, dayOff[m].hours[1])
      <4>2. dayOff[m].hours[1] < dayOff[m].hours[2]
        BY <1>5, <3>1, <3>2 DEF HoursOffInOrder, OffAllDay
      <4>1. x \in a .. b - 1 /\ x \in Minutes(dayOff[m].hours)
        BY <1>1, <3>1, <3>2, <4>2 DEF Meets, Minutes, Higher
      <4> QED
        BY <1>5, <3>2, <4>1 DEF Free
    <3> QED
      BY <3>1, <3>2 DEF DayOffConflict
  <2>8. ~Overlaps(m, a, b)
    <3> SUFFICES ASSUME NEW i \in bookedItems, i.staff = m, a < i.from + i.dur, i.from < b PROVE FALSE
      BY <1>3
    <3> DEFINE x == Higher(a, i.from)
    <3>1. x \in a .. b - 1 /\ x \in i.from .. i.from + i.dur - 1
      BY <1>2 DEF Higher
    <3> QED
      BY <1>5, <3>1 DEF Free
  <2> QED
    BY <2>2, <2>4, <2>5, <2>6, <2>7, <2>8 DEF Suits
<1> QED
  BY <1>4, <1>5 DEF Free

\* Nobody else's booking is in the customer's way, minute by minute.
LEMMA BusyMeans ==
  ASSUME SlotInv, NEW c, NEW a \in Int, NEW b \in Int, a < b
  PROVE  CustomerBusy(c, a, b) <=> ~CustomerFree(c, a, b)
<1>1. \A i \in bookedItems : i.from \in Nat /\ i.dur \in Nat \ {0}
  BY SlotConstants DEF SlotInv
<1>2. ASSUME NEW i \in bookedItems
      PROVE  Meets(a, b, <<i.from, i.from + i.dur>>) <=>
               \E x \in a .. b - 1 : x \in i.from .. i.from + i.dur - 1
  <2>1. Meets(a, b, <<i.from, i.from + i.dur>>) <=> a < i.from + i.dur /\ i.from < b
    BY DEF Meets
  <2>2. ASSUME a < i.from + i.dur, i.from < b
        PROVE  \E x \in a .. b - 1 : x \in i.from .. i.from + i.dur - 1
    <3>1. Higher(a, i.from) \in a .. b - 1 /\ Higher(a, i.from) \in i.from .. i.from + i.dur - 1
      BY <1>1, <2>2 DEF Higher
    <3> QED
      BY <3>1
  <2>3. ASSUME NEW x \in a .. b - 1, x \in i.from .. i.from + i.dur - 1
        PROVE  a < i.from + i.dur /\ i.from < b
    BY <1>1, <2>3
  <2> QED
    BY <2>1, <2>2, <2>3
<1> QED
  BY <1>2 DEF CustomerBusy, CustomerFree

\* What a member is busy with can be counted.
LEMMA WorkloadIsNat ==
  ASSUME SlotInv, NEW m \in Staff
  PROVE  Workload(m) \in Nat
<1>1. Cardinality({j \in bookedItems : j.staff = m}) \in Nat
  BY FS_Subset, FS_CardinalityType DEF SlotInv
<1> QED
  BY <1>1 DEF Workload

\* A set of naturals that is not empty has a least element.
LEMMA LeastNat ==
  ASSUME NEW S, S \subseteq Nat, S # {}
  PROVE  \E n \in S : \A k \in S : n <= k
<1>1. PICK x \in S : \A y \in S : ~ (<<y, x>> \in OpToRel(<, Nat))
  BY NatLessThanWellFounded, WFMin
<1>2. \A y \in S : ~(y < x)
  BY <1>1 DEF OpToRel
<1> QED
  BY <1>2

\* Induction, for a set in place of a predicate.
LEMMA StepByStep ==
  ASSUME NEW T, 0 \in T, \A n \in Nat : n \in T => n + 1 \in T
  PROVE  Nat \subseteq T
<1> DEFINE S == Nat \ T
<1> SUFFICES ASSUME S # {} PROVE FALSE
  OBVIOUS
<1>1. PICK n \in S : \A k \in S : n <= k
  BY LeastNat
<1>2. n # 0 /\ n - 1 \in Nat /\ n - 1 \notin S
  BY <1>1
<1> QED
  BY <1>2

\* Among the members who are free, one is the least busy.
LEMMA SomebodyIsLeastBusy ==
  ASSUME SlotInv, NEW F, F \subseteq Staff, F # {}
  PROVE  \E m \in F : \A o \in F : Workload(m) <= Workload(o)
<1> DEFINE S == {Workload(m) : m \in F}
<1>1. S \subseteq Nat /\ S # {}
  BY WorkloadIsNat
<1>2. PICK n \in S : \A k \in S : n <= k
  BY <1>1, LeastNat
<1>3. PICK m \in F : n = Workload(m)
  BY <1>2
<1> QED
  BY <1>2, <1>3

\* A plan that stands: the members it names so far are free, one service after the other.
Plans == [at : Int, picks : SUBSET [staff : Staff, from : Int, to : Int], ok : BOOLEAN]
PicksFree(plan) == \A p \in plan.picks :
  p.from < p.to /\ p.to <= plan.at /\ Free(p.staff, p.from, p.to)

LEMMA PlacesIfFree ==
  ASSUME SlotInv, NEW plan \in Plans, plan.ok => PicksFree(plan),
         NEW svc \in [staff : Staff \cup {"any"}, dur : Nat \ {0}]
  PROVE  LET next == Place(plan, svc)
             b == plan.at + svc.dur
         IN /\ next \in Plans
            /\ next.ok => plan.ok /\ \E m \in Wanted(svc) : Free(m, plan.at, b)
            /\ HoursOffInOrder /\ plan.ok /\ (\E m \in Wanted(svc) : Free(m, plan.at, b)) => next.ok
            /\ next.ok => next.at = b /\ PicksFree(next)
<1> DEFINE a == plan.at
           b == a + svc.dur
           F == {m \in Wanted(svc) : FitsIn(m, a, b)
                   /\ ~\E p \in plan.picks : p.staff = m /\ Meets(a, b, <<p.from, p.to>>)}
           next == Place(plan, svc)
<1>1. a \in Int /\ b \in Int /\ a < b
  BY DEF Plans
<1>2. Wanted(svc) \subseteq Staff
  BY DEF Wanted
<1>3. CASE ~plan.ok
  <2>1. next = [plan EXCEPT !.ok = FALSE]
    BY <1>3 DEF Place
  <2>2. next \in Plans /\ ~next.ok
    BY <2>1 DEF Plans
  <2> QED
    BY <1>3, <2>2
<1>4. CASE plan.ok
  <2>1. \A m \in Wanted(svc) : /\ FitsIn(m, a, b) => Free(m, a, b)
                               /\ HoursOffInOrder /\ Free(m, a, b) => FitsIn(m, a, b)
    <3> HIDE DEF a, b
    <3> QED
      BY <1>1, <1>2, FitsMeans, SuitsIsFree
  <2>2. \A p \in plan.picks : ~Meets(a, b, <<p.from, p.to>>)
    BY <1>1, <1>4 DEF Plans, PicksFree, Meets
  <2>3. /\ \A m \in F : m \in Wanted(svc) /\ Free(m, a, b)
        /\ HoursOffInOrder => \A m \in Wanted(svc) : Free(m, a, b) => m \in F
    BY <2>1, <2>2
  <2>4. CASE F = {}
    <3>1. next = [plan EXCEPT !.ok = FALSE]
      BY <2>4 DEF Place
    <3>2. next \in Plans /\ ~next.ok
      BY <3>1 DEF Plans
    <3> QED
      BY <2>3, <2>4, <3>2
  <2>5. CASE F # {}
    <3> DEFINE least(m) == \A o \in F : Workload(m) <= Workload(o)
               who == CHOOSE m \in F : least(m)
               pick == [staff |-> who, from |-> a, to |-> b]
    <3>1. next = [at |-> b, picks |-> plan.picks \cup {pick}, ok |-> TRUE]
      BY <1>4, <2>5 DEF Place
    <3>2. who \in F
      <4>1. F \subseteq Staff
        BY <1>2
      <4> HIDE DEF F
      <4>2. \E m \in F : least(m)
        BY <2>5, <4>1, SomebodyIsLeastBusy
      <4> QED
        BY <4>2
    <3>3. who \in Staff /\ who \in Wanted(svc) /\ Free(who, a, b)
      <4> HIDE DEF who
      <4> QED
        BY <1>2, <2>3, <3>2
    <3> HIDE DEF who, next
    <3>4. next \in Plans /\ next.ok /\ next.at = b
      BY <1>1, <3>1, <3>3 DEF Plans
    <3>5. PicksFree(next)
      <4> SUFFICES ASSUME NEW p \in next.picks
                   PROVE  p.from < p.to /\ p.to <= next.at /\ Free(p.staff, p.from, p.to)
        BY DEF PicksFree
      <4>1. CASE p = pick
        BY <1>1, <3>1, <3>3, <4>1
      <4>2. CASE p \in plan.picks
        <5>1. p.from < p.to /\ p.to <= a /\ Free(p.staff, p.from, p.to)
          BY <1>4, <4>2 DEF PicksFree
        <5>2. p.to \in Int
          BY <4>2 DEF Plans
        <5> QED
          BY <1>1, <3>1, <5>1, <5>2
      <4> QED
        BY <3>1, <4>1, <4>2
    <3> QED
      BY <1>4, <3>3, <3>4, <3>5 DEF next
  <2> QED
    BY <2>4, <2>5
<1> QED
  BY <1>3, <1>4

\* The recursion that plans a time has a solution, and so has the one that adds up the minutes.
LEMMA PlanUnfolds ==
  ASSUME NEW svcs, NEW t, Len(svcs) \in Nat
  PROVE  \E f : /\ f[0] = [at |-> t, picks |-> {}, ok |-> TRUE]
                /\ \A k \in 1 .. Len(svcs) : f[k] = Place(f[k - 1], svcs[k])
                /\ PlanAt(t, svcs) = f[Len(svcs)]
<1> DEFINE start == [at |-> t, picks |-> {}, ok |-> TRUE]
           n == Len(svcs)
           Planned(f, j) == f = [k \in 0 .. j |-> IF k = 0 THEN start ELSE Place(f[k - 1], svcs[k])]
           T == {j \in Nat : \E f : Planned(f, j)}
<1>1. 0 \in T
  <2> DEFINE z == [k \in 0 .. 0 |-> start]
  <2> HIDE DEF start
  <2>1. z = [k \in 0 .. 0 |-> IF k = 0 THEN start ELSE Place(z[k - 1], svcs[k])]
    OBVIOUS
  <2> QED
    BY <2>1
<1>2. ASSUME NEW j \in Nat, j \in T PROVE j + 1 \in T
  <2> HIDE DEF start
  <2>1. PICK f : f = [k \in 0 .. j |-> IF k = 0 THEN start ELSE Place(f[k - 1], svcs[k])]
    BY <1>2
  <2> DEFINE g == [k \in 0 .. (j + 1) |-> IF k = j + 1 THEN Place(f[j], svcs[j + 1]) ELSE f[k]]
  <2>2. \A k \in 0 .. (j + 1) : g[k] = IF k = 0 THEN start ELSE Place(g[k - 1], svcs[k])
    <3> SUFFICES ASSUME NEW k \in 0 .. (j + 1) PROVE g[k] = IF k = 0 THEN start ELSE Place(g[k - 1], svcs[k])
      OBVIOUS
    <3>1. CASE k = j + 1
      BY <3>1
    <3>2. CASE k \in 0 .. j
      <4>1. f[k] = IF k = 0 THEN start ELSE Place(f[k - 1], svcs[k])
        BY <2>1, <3>2
      <4> QED
        BY <3>2, <4>1
    <3> QED
      BY <3>1, <3>2
  <2>3. g = [k \in 0 .. (j + 1) |-> IF k = 0 THEN start ELSE Place(g[k - 1], svcs[k])]
    BY <2>2
  <2> HIDE DEF g
  <2> QED
    BY <2>3
<1> HIDE DEF T
<1>3. Nat \subseteq T
  BY <1>1, <1>2, StepByStep
<1> DEFINE c == CHOOSE f : Planned(f, n)
<1>4. PlanAt(t, svcs) = c[n]
  BY DEF PlanAt
<1> HIDE DEF Planned, n
<1>5. Planned(c, n)
  <2>1. \E f : Planned(f, n)
    BY <1>3 DEF T, n
  <2> QED
    BY <2>1
<1> HIDE DEF c, start
<1>6. \A k \in 0 .. n : c[k] = IF k = 0 THEN start ELSE Place(c[k - 1], svcs[k])
  BY <1>5 DEF Planned
<1>7. n \in Nat /\ 0 \in 0 .. n /\ \A k \in 1 .. n : k \in 0 .. n /\ k # 0
  BY DEF n
<1>8. c[0] = start /\ \A k \in 1 .. n : c[k] = Place(c[k - 1], svcs[k])
  BY <1>6, <1>7
<1> QED
  BY <1>4, <1>8 DEF start, n

LEMMA MinutesExist ==
  ASSUME NEW svcs
  PROVE  \A n \in Nat : \E f : f = [k \in 0 .. n |-> IF k = 0 THEN 0 ELSE f[k - 1] + svcs[k].dur]
<1> DEFINE T == {n \in Nat : \E f : f = [k \in 0 .. n |-> IF k = 0 THEN 0 ELSE f[k - 1] + svcs[k].dur]}
<1>1. 0 \in T
  <2> DEFINE z == [k \in 0 .. 0 |-> 0]
  <2>1. z = [k \in 0 .. 0 |-> IF k = 0 THEN 0 ELSE z[k - 1] + svcs[k].dur]
    OBVIOUS
  <2> QED
    BY <2>1
<1>2. ASSUME NEW n \in Nat, n \in T PROVE n + 1 \in T
  <2>1. PICK f : f = [k \in 0 .. n |-> IF k = 0 THEN 0 ELSE f[k - 1] + svcs[k].dur]
    BY <1>2
  <2> DEFINE g == [k \in 0 .. (n + 1) |-> IF k = n + 1 THEN f[n] + svcs[n + 1].dur ELSE f[k]]
  <2>2. \A k \in 0 .. (n + 1) : g[k] = IF k = 0 THEN 0 ELSE g[k - 1] + svcs[k].dur
    <3> SUFFICES ASSUME NEW k \in 0 .. (n + 1) PROVE g[k] = IF k = 0 THEN 0 ELSE g[k - 1] + svcs[k].dur
      OBVIOUS
    <3>1. CASE k = n + 1
      BY <3>1
    <3>2. CASE k \in 0 .. n
      <4>1. f[k] = IF k = 0 THEN 0 ELSE f[k - 1] + svcs[k].dur
        BY <2>1, <3>2
      <4> QED
        BY <3>2, <4>1
    <3> QED
      BY <3>1, <3>2
  <2>3. g = [k \in 0 .. (n + 1) |-> IF k = 0 THEN 0 ELSE g[k - 1] + svcs[k].dur]
    BY <2>2
  <2> HIDE DEF g
  <2> QED
    BY <2>3
<1> HIDE DEF T
<1>3. Nat \subseteq T
  BY <1>1, <1>2, StepByStep
<1> QED
  BY <1>3 DEF T

\* An order is a list of services, one at least.
LEMMA OrderIsList ==
  ASSUME NEW svcs \in Orders
  PROVE  /\ Len(svcs) \in Nat \ {0} /\ DOMAIN svcs = 1 .. Len(svcs)
         /\ \A k \in 1 .. Len(svcs) : svcs[k] \in [staff : Staff \cup {"any"}, dur : Nat \ {0}]
<1> DEFINE R == [staff : Staff \cup {"any"}, dur : Nat \ {0}]
<1>1. svcs \in Seq(R) /\ svcs # <<>>
  BY SlotConstants
<1> HIDE DEF R
<1>2. Len(svcs) \in Nat \ {0} /\ DOMAIN svcs = 1 .. Len(svcs) /\ \A k \in 1 .. Len(svcs) : svcs[k] \in R
  BY <1>1
<1> QED
  BY <1>2 DEF R

\* The minutes of an order add up.
LEMMA MinutesAddUp ==
  ASSUME NEW svcs \in Orders
  PROVE  /\ Upto(svcs)[0] = 0
         /\ \A k \in 1 .. Len(svcs) : Upto(svcs)[k] = Upto(svcs)[k - 1] + svcs[k].dur
         /\ \A k \in 0 .. Len(svcs) : Upto(svcs)[k] \in Nat /\ (k > 0 => Upto(svcs)[k] > 0)
<1> DEFINE n == Len(svcs)
           u == Upto(svcs)
<1>1. n \in Nat /\ \A k \in 1 .. n : svcs[k].dur \in Nat \ {0}
  BY OrderIsList
<1>2. u = [k \in 0 .. n |-> IF k = 0 THEN 0 ELSE u[k - 1] + svcs[k].dur]
  <2> DEFINE c == CHOOSE f : f = [k \in 0 .. n |-> IF k = 0 THEN 0 ELSE f[k - 1] + svcs[k].dur]
  <2>1. c = [k \in 0 .. n |-> IF k = 0 THEN 0 ELSE c[k - 1] + svcs[k].dur]
    <3> HIDE DEF n
    <3>1. \E f : f = [k \in 0 .. n |-> IF k = 0 THEN 0 ELSE f[k - 1] + svcs[k].dur]
      BY <1>1, MinutesExist
    <3> QED
      BY <3>1
  <2>2. u = c
    BY DEF Upto
  <2> HIDE DEF c
  <2> QED
    BY <2>1, <2>2
<1> HIDE DEF n, u
<1>3. u[0] = 0 /\ \A k \in 1 .. n : u[k] = u[k - 1] + svcs[k].dur
  BY <1>1, <1>2
<1> DEFINE T == {k \in Nat : k \in 0 .. n => u[k] \in Nat /\ (k > 0 => u[k] > 0)}
<1>4. 0 \in T
  BY <1>3
<1>5. ASSUME NEW k \in Nat, k \in T PROVE k + 1 \in T
  <2>1. CASE k + 1 \in 0 .. n
    <3>1. k \in 0 .. n /\ k + 1 \in 1 .. n
      BY <1>1, <2>1
    <3>2. u[k] \in Nat /\ u[k + 1] = u[k] + svcs[k + 1].dur
      BY <1>3, <1>5, <3>1
    <3> QED
      BY <1>1, <3>1, <3>2
  <2> QED
    BY <2>1
<1> HIDE DEF T
<1>6. Nat \subseteq T
  BY <1>4, <1>5, StepByStep
<1>7. \A k \in 0 .. n : u[k] \in Nat /\ (k > 0 => u[k] > 0)
  BY <1>1, <1>6 DEF T
<1> QED
  BY <1>3, <1>7 DEF n, u

\* A time is planned only when every service in turn has a member who is free, and then always
\* when the hours off are in order.
LEMMA PlanIsExact ==
  ASSUME SlotInv, NEW svcs \in Orders, NEW t \in Int
  PROVE  LET plan == PlanAt(t, svcs) IN
         /\ plan.ok => Feasible(t, svcs)
         /\ HoursOffInOrder /\ Feasible(t, svcs) => plan.ok
         /\ plan.ok => \A p \in plan.picks : Free(p.staff, p.from, p.to)
<1> DEFINE n == Len(svcs)
           u == Upto(svcs)
           start == [at |-> t, picks |-> {}, ok |-> TRUE]
           served(j) == \E m \in Wanted(svcs[j]) : Free(m, From(t, svcs, j), From(t, svcs, j) + svcs[j].dur)
<1>1. n \in Nat /\ DOMAIN svcs = 1 .. n
      /\ \A k \in 1 .. n : svcs[k] \in [staff : Staff \cup {"any"}, dur : Nat \ {0}]
  BY OrderIsList
<1>2. PICK f : /\ f[0] = start
               /\ \A k \in 1 .. n : f[k] = Place(f[k - 1], svcs[k])
               /\ PlanAt(t, svcs) = f[n]
  BY <1>1, PlanUnfolds
<1> HIDE DEF n
<1>4. /\ u[0] = 0
      /\ \A k \in 1 .. n : u[k] = u[k - 1] + svcs[k].dur
      /\ \A k \in 0 .. n : u[k] \in Nat
  BY MinutesAddUp DEF n
<1>5. \A j \in 1 .. n : From(t, svcs, j) = t + u[j - 1]
  BY DEF From
<1> DEFINE T == {k \in Nat : k \in 0 .. n =>
                   /\ f[k] \in Plans
                   /\ f[k].ok => \A j \in 1 .. k : served(j)
                   /\ HoursOffInOrder /\ (\A j \in 1 .. k : served(j)) => f[k].ok
                   /\ f[k].ok => f[k].at = t + u[k] /\ PicksFree(f[k])}
<1>6. 0 \in T
  <2>1. start \in Plans /\ start.ok /\ start.at = t /\ PicksFree(start)
    BY DEF Plans, PicksFree
  <2> HIDE DEF start, served, u
  <2>2. 1 .. 0 = {} /\ t = t + u[0]
    BY <1>4
  <2> QED
    BY <1>2, <2>1, <2>2
<1>7. ASSUME NEW k \in Nat, k \in T PROVE k + 1 \in T
  <2> SUFFICES ASSUME k + 1 \in 0 .. n
               PROVE  /\ f[k + 1] \in Plans
                      /\ f[k + 1].ok => \A j \in 1 .. (k + 1) : served(j)
                      /\ HoursOffInOrder /\ (\A j \in 1 .. (k + 1) : served(j)) => f[k + 1].ok
                      /\ f[k + 1].ok => f[k + 1].at = t + u[k + 1] /\ PicksFree(f[k + 1])
    OBVIOUS
  <2>1. k \in 0 .. n /\ k + 1 \in 1 .. n /\ (k + 1) - 1 = k
    BY <1>1
  <2>2. /\ f[k] \in Plans
        /\ f[k].ok => \A j \in 1 .. k : served(j)
        /\ HoursOffInOrder /\ (\A j \in 1 .. k : served(j)) => f[k].ok
        /\ f[k].ok => f[k].at = t + u[k] /\ PicksFree(f[k])
    BY <1>7, <2>1
  <2>3. f[k + 1] = Place(f[k], svcs[k + 1])
    BY <1>2, <2>1
  <2> DEFINE svc == svcs[k + 1]
             b == f[k].at + svc.dur
  <2>4. /\ f[k + 1] \in Plans
        /\ f[k + 1].ok => f[k].ok /\ \E m \in Wanted(svc) : Free(m, f[k].at, b)
        /\ HoursOffInOrder /\ f[k].ok /\ (\E m \in Wanted(svc) : Free(m, f[k].at, b)) => f[k + 1].ok
        /\ f[k + 1].ok => f[k + 1].at = b /\ PicksFree(f[k + 1])
    <3>1. svc \in [staff : Staff \cup {"any"}, dur : Nat \ {0}]
      BY <1>1, <2>1
    <3> HIDE DEF svc
    <3> QED
      BY <2>2, <2>3, <3>1, PlacesIfFree DEF svc
  <2>5. f[k].ok => f[k].at = From(t, svcs, k + 1)
    BY <1>5, <2>1, <2>2
  <2>6. f[k].ok => ((\E m \in Wanted(svc) : Free(m, f[k].at, b)) <=> served(k + 1))
    BY <2>5
  <2>7. /\ f[k + 1].ok => \A j \in 1 .. (k + 1) : served(j)
        /\ HoursOffInOrder /\ (\A j \in 1 .. (k + 1) : served(j)) => f[k + 1].ok
    <3>1. 1 .. (k + 1) = (1 .. k) \cup {k + 1}
      OBVIOUS
    <3> HIDE DEF served, svc, b
    <3> QED
      BY <2>2, <2>4, <2>6, <3>1
  <2>8. f[k + 1].ok => f[k + 1].at = t + u[k + 1]
    <3>1. f[k + 1].ok => f[k].ok
      BY <2>4
    <3>2. u[k + 1] = u[k] + svc.dur /\ u[k] \in Nat /\ svc.dur \in Nat
      BY <1>1, <1>4, <2>1
    <3> HIDE DEF u, svc
    <3> QED
      BY <2>2, <2>4, <3>1, <3>2
  <2> QED
    BY <2>4, <2>7, <2>8
<1> HIDE DEF T
<1>8. Nat \subseteq T
  BY <1>6, <1>7, StepByStep
<1>9. n \in T /\ n \in 0 .. n
  BY <1>1, <1>8
<1>10. /\ f[n].ok => \A j \in 1 .. n : served(j)
       /\ HoursOffInOrder /\ (\A j \in 1 .. n : served(j)) => f[n].ok
  BY <1>9 DEF T
<1>11. f[n].ok => PicksFree(f[n])
  BY <1>9 DEF T
<1>12. Feasible(t, svcs) <=> \A j \in 1 .. n : served(j)
  BY <1>1 DEF Feasible
<1> QED
  BY <1>2, <1>10, <1>11, <1>12 DEF PicksFree

\* The page of slots offers only what can be had, for any roster, booked items, opening hours,
\* interval and order, and all of it when the hours off are in order (each ends after it begins).
THEOREM OffersAlwaysExact == SlotSpec => []OffersAreExact
<1>1. SlotInv => OffersAreExact
  <2> SUFFICES ASSUME SlotInv, NEW svcs \in Orders
               PROVE  /\ \A c \in Customers :
                           /\ Offers(svcs, c) \subseteq CanBeHad(svcs, c)
                           /\ HoursOffInOrder => CanBeHad(svcs, c) \subseteq Offers(svcs, c)
                      /\ \A t \in Grid(TotalOf(svcs)) :
                           LET plan == PlanAt(t, svcs) IN
                           plan.ok => \A p \in plan.picks : Free(p.staff, p.from, p.to)
    BY DEF OffersAreExact
  <2> DEFINE total == TotalOf(svcs)
  <2>1. total \in Nat /\ total > 0
    <3>1. Len(svcs) \in 0 .. Len(svcs) /\ Len(svcs) > 0
      BY OrderIsList
    <3> QED
      BY <3>1, MinutesAddUp DEF TotalOf
  <2> HIDE DEF total
  <2>2. Grid(total) \subseteq Int
    BY SlotConstants DEF Grid
  <2>3. ASSUME NEW t \in Grid(total)
        PROVE  /\ PlanAt(t, svcs).ok => Feasible(t, svcs)
               /\ HoursOffInOrder /\ Feasible(t, svcs) => PlanAt(t, svcs).ok
               /\ PlanAt(t, svcs).ok => \A p \in PlanAt(t, svcs).picks : Free(p.staff, p.from, p.to)
    BY <2>2, PlanIsExact
  <2>4. ASSUME NEW t \in Grid(total), NEW c \in Customers
        PROVE  CustomerBusy(c, t, t + total) <=> ~CustomerFree(c, t, t + total)
    <3>1. t \in Int /\ t + total \in Int /\ t < t + total
      BY <2>1, <2>2
    <3> QED
      BY <3>1, BusyMeans
  <2>5. ASSUME NEW c \in Customers
        PROVE  /\ Offers(svcs, c) \subseteq CanBeHad(svcs, c)
               /\ HoursOffInOrder => CanBeHad(svcs, c) \subseteq Offers(svcs, c)
    <3>1. Offers(svcs, c) = {t \in Grid(total) : t >= Now /\ PlanAt(t, svcs).ok /\ ~CustomerBusy(c, t, t + total)}
      BY DEF Offers, total
    <3>2. CanBeHad(svcs, c) = {t \in Grid(total) : t >= Now /\ Feasible(t, svcs) /\ CustomerFree(c, t, t + total)}
      BY DEF CanBeHad, total
    <3> QED
      BY <2>3, <2>4, <3>1, <3>2
  <2> QED
    BY <2>3, <2>5 DEF total
<1> QED
  BY <1>1, SlotInvariant, PTL
-----------------------------------------------------------------------------
(* Sessions: what ends one ends it for good, and a refresh token is exchanged   *)
(* once.                                                                       *)
AuthSpec == AuthInit /\ [][AuthNext]_authVars

AccountRows == [exists : {TRUE}, active : BOOLEAN, password : Passwords, refreshToken : Nat]
Registrations == [code : Nat, password : Passwords]
Requests ==
  {NoAuthReq} \cup [at : {"login", "logout"}]
  \cup [at : {"match", "spend", "save"}, token : Nat, again : BOOLEAN]
  \cup [at : {"register", "existing", "create", "forgetPending"}, reg : Registrations]
  \cup [at : {"keepReset"}, code : Nat]
  \cup [at : {"reset", "setPassword", "dropReset", "change"}, password : Passwords]

SessionTypes ==
  /\ account \in {NoAccount} \cup AccountRows
  /\ issued \in Nat /\ codes \in Nat
  /\ pendingReg \in {NoCode} \cup Registrations
  /\ authReqs \in [AuthReqs -> Requests]
  /\ over \in BOOLEAN

\* An account that is there stays there, so what ends a session finds its row.
RowIsThere ==
  (over \/ \E r \in AuthReqs : authReqs[r].at \in {"logout", "setPassword"}) => account \in AccountRows

\* A session that is over has no token, and nobody is about to store one.
NothingToSave ==
  over => /\ account.refreshToken = NoToken
          /\ \A r \in AuthReqs : authReqs[r].at \notin {"login", "spend", "save"}

\* The fate of a token: in the list of spent ones before it counts as exchanged, and there
\* until it expires, so that a call that comes later is stopped by one or the other.
TokensAccounted ==
  /\ exchanged \subseteq blacklist \cup expired
  /\ \A r \in AuthReqs :
       /\ authReqs[r].at = "match" /\ authReqs[r].again => authReqs[r].token \in expired
       /\ authReqs[r].at = "save" => authReqs[r].token \in blacklist \cup expired
       /\ authReqs[r].at \in {"spend", "save"} => ~authReqs[r].again

SessionInv == SessionTypes /\ RowIsThere /\ NothingToSave /\ TokensAccounted

\* The row that a registration inserts.
LEMMA NewRow == ASSUME NEW p \in Passwords PROVE Row(p) \in AccountRows
<1>1. TRUE \in BOOLEAN /\ TRUE \in {TRUE} /\ NoToken \in Nat
  BY DEF NoToken
<1> QED BY <1>1, Zenon DEF Row, AccountRows

\* The state before any call satisfies the invariant (the account row, Redis).
LEMMA SessionInitInv == AuthInit => SessionInv
<1> SUFFICES ASSUME AuthInit PROVE SessionInv
  OBVIOUS
<1>1. /\ \A r \in AuthReqs : authReqs[r].at = "idle"
      /\ authReqs \in [AuthReqs -> Requests]
  BY DEF AuthInit, Requests, NoAuthReq
<1>2. account \in {NoAccount} \cup AccountRows
  BY NewRow DEF AuthInit
<1>3. SessionTypes
  BY <1>1, <1>2 DEF AuthInit, SessionTypes
<1>4. RowIsThere /\ NothingToSave /\ TokensAccounted
  BY <1>1 DEF AuthInit, RowIsThere, NothingToSave, TokensAccounted
<1> QED BY <1>3, <1>4 DEF SessionInv

\* A call that begins with a request that is about no token and saves none (the first reads).
LEMMA CallsKeepsInv ==
  ASSUME SessionInv, NEW r \in AuthReqs, NEW q \in Requests, Calls(r, q),
         q.at \in {"register", "existing", "keepReset", "reset", "change"},
         UNCHANGED <<account, issued, expired, blacklist, exchanged, over>>,
         codes' \in Nat, pendingReg' \in {NoCode} \cup Registrations
  PROVE  SessionInv'
<1>1. SessionTypes'
  BY DEF SessionInv, SessionTypes, Calls
<1>2. RowIsThere'
  BY DEF SessionInv, SessionTypes, RowIsThere, Calls
<1>3. NothingToSave'
  BY DEF SessionInv, SessionTypes, NothingToSave, Calls
<1>4. TokensAccounted'
  BY DEF SessionInv, SessionTypes, TokensAccounted, Calls
<1> QED BY <1>1, <1>2, <1>3, <1>4 DEF SessionInv


\* What a call does to itself from one await to the next, and when it returns.
Follows == {<<"match", "spend">>, <<"spend", "save">>, <<"existing", "create">>,
            <<"create", "forgetPending">>, <<"reset", "setPassword">>, <<"setPassword", "dropReset">>}
\* Where a call stands after it has gone on (every await of auth.service.ts).
LEMMA ProceedMoves ==
  ASSUME SessionTypes, NEW r \in AuthReqs, NEW at, Proceed(r, at), <<authReqs[r].at, at>> \in Follows
  PROVE  /\ authReqs' \in [AuthReqs -> Requests]
         /\ authReqs'[r].at = at
         /\ at \in {"spend", "save"} => /\ authReqs'[r].token = authReqs[r].token
                                       /\ authReqs'[r].again = authReqs[r].again
         /\ \A o \in AuthReqs \ {r} : authReqs'[o] = authReqs[o]
<1> DEFINE q == [authReqs[r] EXCEPT !.at = at]
<1>1. authReqs' = [authReqs EXCEPT ![r] = q]
  BY DEF SessionTypes, Proceed
<1>2. authReqs[r] \in Requests
  BY DEF SessionTypes
<1>3. q \in Requests /\ q.at = at
  BY <1>2 DEF Requests, Follows, NoAuthReq
<1>4. at \in {"spend", "save"} => q.token = authReqs[r].token /\ q.again = authReqs[r].again
  BY <1>2 DEF Requests, Follows, NoAuthReq
<1> HIDE DEF q
<1> QED BY <1>1, <1>3, <1>4 DEF SessionTypes

\* Where the calls stand after one has returned (every return of auth.service.ts).
LEMMA ReturnMoves ==
  ASSUME SessionTypes, NEW r \in AuthReqs, Return(r)
  PROVE  /\ authReqs' \in [AuthReqs -> Requests]
         /\ authReqs'[r].at = "idle"
         /\ \A o \in AuthReqs \ {r} : authReqs'[o] = authReqs[o]
  BY DEF SessionTypes, Return, Requests, NoAuthReq

\* A call that returns without having changed the account, the tokens or their lists.
LEMMA ReturnKeepsInv ==
  ASSUME SessionInv, NEW r \in AuthReqs, Return(r),
         UNCHANGED <<account, issued, expired, blacklist, codes, exchanged, over>>,
         pendingReg' \in {NoCode} \cup Registrations
  PROVE  SessionInv'
<1>1. SessionTypes'
  BY ReturnMoves DEF SessionInv, SessionTypes
<1>2. RowIsThere' /\ NothingToSave' /\ TokensAccounted'
  BY ReturnMoves DEF SessionInv, RowIsThere, NothingToSave, TokensAccounted
<1> QED BY <1>1, <1>2 DEF SessionInv

\* A call about neither tokens nor the account that goes on to its next await.
LEMMA ProceedKeepsInv ==
  ASSUME SessionInv, NEW r \in AuthReqs, NEW at, Proceed(r, at),
         <<authReqs[r].at, at>> \in Follows, at \notin {"spend", "save"},
         at = "setPassword" => account \in AccountRows,
         UNCHANGED <<account, issued, expired, blacklist, pendingReg, codes, exchanged, over>>
  PROVE  SessionInv'
<1>1. at \notin {"match", "login", "logout"}
  BY DEF Follows
<1>2. SessionTypes'
  BY ProceedMoves DEF SessionInv, SessionTypes
<1>3. RowIsThere' /\ NothingToSave' /\ TokensAccounted'
  BY <1>1, ProceedMoves DEF SessionInv, RowIsThere, NothingToSave, TokensAccounted
<1> QED BY <1>2, <1>3 DEF SessionInv

\* Login: the session goes on, and the new token is stored at the end of the call.
LEMMA LoginKeepsInv ==
  ASSUME SessionInv, NEW r \in AuthReqs, NEW p, Login(r, p)
  PROVE  SessionInv'
<1>1. [at |-> "login"] \in Requests
  BY DEF Requests
<1>2. SessionTypes'
  BY <1>1 DEF SessionInv, SessionTypes, Login, Calls
<1>3. RowIsThere' /\ NothingToSave' /\ TokensAccounted'
  BY DEF SessionInv, SessionTypes, RowIsThere, NothingToSave, TokensAccounted, Login, Calls
<1> QED BY <1>2, <1>3 DEF SessionInv

\* The stored token is a number and the rest of the row stays (login, refresh).
LEMMA SaveTokenKeepsRow ==
  ASSUME SessionTypes, SaveToken
  PROVE  /\ issued' \in Nat
         /\ account' \in {NoAccount} \cup AccountRows
         /\ account \in AccountRows => account' \in AccountRows
<1>1. issued' \in Nat
  BY DEF SessionTypes, SaveToken
<1>2. CASE account = NoAccount
  BY <1>1, <1>2 DEF SaveToken, NoAccount, AccountRows
<1>3. CASE account \in AccountRows
  BY <1>1, <1>3 DEF SaveToken, AccountRows
<1> QED BY <1>1, <1>2, <1>3 DEF SessionTypes

\* A login writes the hash of its new token (login).
LEMMA SaveLoginKeepsInv ==
  ASSUME SessionInv, NEW r \in AuthReqs, SaveLogin(r)
  PROVE  SessionInv'
<1>1. SessionTypes'
  BY SaveTokenKeepsRow, ReturnMoves DEF SessionInv, SessionTypes, SaveLogin
<1>2. RowIsThere'
  BY SaveTokenKeepsRow, ReturnMoves DEF SessionInv, RowIsThere, SaveLogin
<1>3. NothingToSave'
  BY DEF SessionInv, NothingToSave, SaveLogin, Is
<1>4. TokensAccounted'
  BY ReturnMoves DEF SessionInv, TokensAccounted, SaveLogin
<1> QED BY <1>1, <1>2, <1>3, <1>4 DEF SessionInv

\* Logout and what ends the session: the token is cleared with nobody left to store one.
LEMMA LogoutKeepsInv ==
  ASSUME SessionInv, NEW r \in AuthReqs, NEW t \in Nat, Logout(r, t)
  PROVE  SessionInv'
<1>1. [at |-> "logout"] \in Requests
  BY DEF Requests
<1>2. account \in AccountRows
  BY DEF SessionInv, SessionTypes, Logout, Active, NoAccount
<1>3. SessionTypes' /\ RowIsThere' /\ NothingToSave'
  BY <1>1, <1>2 DEF SessionInv, SessionTypes, RowIsThere, NothingToSave, Logout, Calls
<1>4. TokensAccounted'
  BY DEF SessionInv, SessionTypes, TokensAccounted, Logout, Calls, Spend
<1> QED BY <1>3, <1>4 DEF SessionInv

\* A logout clears the stored token (logout).
LEMMA ClearTokenKeepsInv ==
  ASSUME SessionInv, NEW r \in AuthReqs, ClearToken(r)
  PROVE  SessionInv'
<1>1. account \in AccountRows
  BY DEF SessionInv, RowIsThere, ClearToken, Is
<1>2. account' \in AccountRows /\ account'.refreshToken = NoToken
  BY <1>1 DEF ClearToken, AccountRows, NoToken
<1>3. SessionTypes' /\ RowIsThere'
  BY <1>2, ReturnMoves DEF SessionInv, SessionTypes, RowIsThere, ClearToken, EndSession
<1>4. NothingToSave'
  BY <1>2, ReturnMoves DEF SessionInv, NothingToSave, ClearToken, EndSession, MaySave
<1>5. TokensAccounted'
  BY ReturnMoves DEF SessionInv, TokensAccounted, ClearToken
<1> QED BY <1>3, <1>4, <1>5 DEF SessionInv

\* resetPassword: the new password, and the session that ends with it.
LEMMA SetPasswordKeepsInv ==
  ASSUME SessionInv, NEW r \in AuthReqs, SetPassword(r)
  PROVE  SessionInv'
<1>1. account \in AccountRows /\ authReqs[r].password \in Passwords
  BY DEF SessionInv, SessionTypes, RowIsThere, SetPassword, Is, Requests, NoAuthReq
<1>2. account' \in AccountRows /\ account'.refreshToken = NoToken
  BY <1>1 DEF SetPassword, AccountRows, NoToken
<1>3. Proceed(r, "dropReset") /\ <<authReqs[r].at, "dropReset">> \in Follows
  BY DEF SetPassword, Is, Follows
<1>4. SessionTypes' /\ RowIsThere'
  BY <1>2, <1>3, ProceedMoves DEF SessionInv, SessionTypes, RowIsThere, SetPassword, EndSession
<1>5. NothingToSave'
  BY <1>2, <1>3, ProceedMoves DEF SessionInv, NothingToSave, SetPassword, EndSession, MaySave
<1>6. TokensAccounted'
  BY <1>3, ProceedMoves DEF SessionInv, TokensAccounted, SetPassword
<1> QED BY <1>4, <1>5, <1>6 DEF SessionInv

\* refresh, from its first read of the list of spent tokens to the new token.
LEMMA RefreshKeepsInv ==
  ASSUME SessionInv, NEW r \in AuthReqs, NEW t \in Nat, Refresh(r, t)
  PROVE  SessionInv'
<1> DEFINE q == [at |-> "match", token |-> t, again |-> t \in exchanged]
<1>1. q \in Requests
  BY DEF Requests
<1>2. q.at = "match" /\ q.token = t /\ (q.again => t \in exchanged)
  OBVIOUS
<1>3. authReqs' = [authReqs EXCEPT ![r] = q]
  BY DEF Refresh, Calls
<1> HIDE DEF q
<1>4. SessionTypes'
  BY <1>1, <1>3 DEF SessionInv, SessionTypes, Refresh
<1>5. RowIsThere' /\ NothingToSave'
  BY <1>2, <1>3 DEF SessionInv, SessionTypes, RowIsThere, NothingToSave, Refresh
<1>6. TokensAccounted'
  BY <1>2, <1>3 DEF SessionInv, SessionTypes, TokensAccounted, Refresh, Unspent
<1> QED BY <1>4, <1>5, <1>6 DEF SessionInv

\* A refresh compares its token with the stored one (refresh).
LEMMA MatchKeepsInv ==
  ASSUME SessionInv, NEW r \in AuthReqs, Match(r)
  PROVE  SessionInv'
<1>1. CASE Return(r)
  BY <1>1, ReturnKeepsInv DEF Match, SessionInv, SessionTypes
<1>2. CASE /\ authReqs[r].token \notin expired /\ Active /\ Matches(authReqs[r].token)
           /\ Proceed(r, "spend")
  <2>1. <<authReqs[r].at, "spend">> \in Follows
    BY DEF Match, Is, Follows
  <2>2. SessionTypes' /\ RowIsThere'
    BY <1>2, <2>1, ProceedMoves DEF SessionInv, SessionTypes, RowIsThere, Match
  <2>3. ~over
    BY <1>2 DEF SessionInv, NothingToSave, Matches
  <2>4. NothingToSave'
    BY <2>3 DEF NothingToSave, Match
  <2>5. ~authReqs[r].again
    BY <1>2 DEF SessionInv, TokensAccounted, Match, Is
  <2>6. TokensAccounted'
    BY <1>2, <2>1, <2>5, ProceedMoves DEF SessionInv, TokensAccounted, Match
  <2> QED BY <2>2, <2>4, <2>6 DEF SessionInv
<1> QED BY <1>1, <1>2 DEF Match

\* A refresh enters its token in the list of spent ones (refresh).
LEMMA SpendTokenKeepsInv ==
  ASSUME SessionInv, NEW r \in AuthReqs, SpendToken(r)
  PROVE  SessionInv'
<1>1. Proceed(r, "save") /\ <<authReqs[r].at, "save">> \in Follows
  BY DEF SpendToken, Is, Follows
<1>2. SessionTypes' /\ RowIsThere'
  BY <1>1, ProceedMoves DEF SessionInv, SessionTypes, RowIsThere, SpendToken
<1>3. NothingToSave'
  BY DEF SessionInv, NothingToSave, SpendToken, Is
<1>4. TokensAccounted'
  BY <1>1, ProceedMoves DEF SessionInv, TokensAccounted, SpendToken, Spend, Is
<1> QED BY <1>2, <1>3, <1>4 DEF SessionInv

\* A refresh stores its new token (refresh).
LEMMA SaveRefreshKeepsInv ==
  ASSUME SessionInv, NEW r \in AuthReqs, SaveRefresh(r)
  PROVE  SessionInv'
<1>1. SessionTypes'
  BY SaveTokenKeepsRow, ReturnMoves DEF SessionInv, SessionTypes, SaveRefresh
<1>2. RowIsThere'
  BY SaveTokenKeepsRow, ReturnMoves DEF SessionInv, RowIsThere, SaveRefresh
<1>3. NothingToSave'
  BY DEF SessionInv, NothingToSave, SaveRefresh, Is
<1>4. TokensAccounted'
  BY ReturnMoves DEF SessionInv, TokensAccounted, SaveRefresh, Is
<1> QED BY <1>1, <1>2, <1>3, <1>4 DEF SessionInv

\* A token expires: its entry in Redis goes as it does.
LEMMA TokenExpiresKeepsInv ==
  ASSUME SessionInv, NEW t, TokenExpires(t)
  PROVE  SessionInv'
<1>1. SessionTypes' /\ RowIsThere' /\ NothingToSave'
  BY DEF SessionInv, SessionTypes, RowIsThere, NothingToSave, TokenExpires
<1>2. TokensAccounted'
  BY DEF SessionInv, TokensAccounted, TokenExpires
<1> QED BY <1>1, <1>2 DEF SessionInv

\* verifyRegisterOtp inserts the account, unless another call has.
LEMMA CreateAccountKeepsInv ==
  ASSUME SessionInv, NEW r \in AuthReqs, CreateAccount(r)
  PROVE  SessionInv'
<1>1. CASE account.exists
  BY <1>1, ReturnKeepsInv DEF CreateAccount, SessionInv, SessionTypes
<1>2. CASE ~account.exists
  <2>1. account = NoAccount /\ NoAccount \notin AccountRows
    BY <1>2 DEF SessionInv, SessionTypes, AccountRows, NoAccount
  <2>2. authReqs[r].reg.password \in Passwords
    BY DEF SessionInv, SessionTypes, CreateAccount, Is, Requests, Registrations, NoAuthReq
  <2>3. account' \in AccountRows
    BY <1>2, <2>2, NewRow DEF CreateAccount, NewAccount
  <2>4. Proceed(r, "forgetPending") /\ <<authReqs[r].at, "forgetPending">> \in Follows
    BY <1>2 DEF CreateAccount, Is, Follows
  <2>5. ~over
    BY <2>1 DEF SessionInv, RowIsThere
  <2>6. SessionTypes' /\ RowIsThere'
    BY <2>3, <2>4, ProceedMoves DEF SessionInv, SessionTypes, RowIsThere, CreateAccount
  <2>7. NothingToSave'
    BY <2>5 DEF NothingToSave, CreateAccount
  <2>8. TokensAccounted'
    BY <2>4, ProceedMoves DEF SessionInv, TokensAccounted, CreateAccount
  <2> QED BY <2>6, <2>7, <2>8 DEF SessionInv
<1> QED BY <1>1, <1>2

\* A new password or another status leaves the token as it is (changePassword, users.update).
LEMMA WritePasswordKeepsInv ==
  ASSUME SessionInv, NEW r \in AuthReqs, WritePassword(r)
  PROVE  SessionInv'
<1>1. authReqs[r].password \in Passwords
  BY DEF SessionInv, SessionTypes, WritePassword, Is, Requests, NoAuthReq
<1>2. CASE account = NoAccount
  <2>1. account' = account
    BY <1>2 DEF WritePassword, NoAccount
  <2> QED BY <2>1, ReturnKeepsInv DEF WritePassword, SessionInv, SessionTypes
<1>3. CASE account \in AccountRows
  <2>1. account' \in AccountRows /\ account'.refreshToken = account.refreshToken
    BY <1>1, <1>3 DEF WritePassword, AccountRows
  <2>2. SessionTypes' /\ RowIsThere' /\ NothingToSave' /\ TokensAccounted'
    BY <2>1, ReturnMoves DEF SessionInv, SessionTypes, RowIsThere, NothingToSave, TokensAccounted,
                             WritePassword
  <2> QED BY <2>2 DEF SessionInv
<1> QED BY <1>2, <1>3 DEF SessionInv, SessionTypes

\* An administrator suspends the account or takes it back (users.update).
LEMMA SetStatusKeepsInv ==
  ASSUME SessionInv, NEW on \in BOOLEAN, SetStatus(on)
  PROVE  SessionInv'
<1>1. account \in AccountRows
  BY DEF SessionInv, SessionTypes, SetStatus, NoAccount
<1>2. account' \in AccountRows /\ account'.refreshToken = account.refreshToken
  BY <1>1 DEF SetStatus, AccountRows
<1>3. SessionTypes' /\ RowIsThere' /\ NothingToSave' /\ TokensAccounted'
  BY <1>2 DEF SessionInv, SessionTypes, RowIsThere, NothingToSave, TokensAccounted, SetStatus
<1> QED BY <1>3 DEF SessionInv

\* Every call of the authentication service keeps the invariant, and so does time.
LEMMA SessionStepInv == SessionInv /\ [AuthNext]_authVars => SessionInv'
<1> SUFFICES ASSUME SessionInv, [AuthNext]_authVars PROVE SessionInv'
  OBVIOUS
<1>1. issued \in Nat /\ codes \in Nat /\ Issued \subseteq Nat /\ 0 \in Nat
  BY DEF SessionInv, SessionTypes, Issued
<1>2. CASE UNCHANGED authVars
  BY <1>2 DEF SessionInv, SessionTypes, RowIsThere, NothingToSave, TokensAccounted, authVars
<1>3. ASSUME NEW r \in AuthReqs,
             \/ KeepPending(r) \/ DropPending(r) \/ KeepReset(r) \/ DropReset(r)
      PROVE  SessionInv'
  <2>1. Return(r) /\ UNCHANGED <<account, issued, expired, blacklist, codes, exchanged, over>>
    BY <1>3 DEF KeepPending, DropPending, KeepReset, DropReset
  <2>2. pendingReg' \in {NoCode} \cup Registrations
    BY <1>3 DEF KeepPending, DropPending, KeepReset, DropReset, SessionInv, SessionTypes, Is,
                Requests, NoAuthReq
  <2> QED BY <2>1, <2>2, ReturnKeepsInv
<1>4. ASSUME NEW r \in AuthReqs, CheckExisting(r) PROVE SessionInv'
  <2>1. CASE Return(r)
    BY <1>4, <2>1, ReturnKeepsInv DEF CheckExisting, SessionInv, SessionTypes
  <2>2. CASE Proceed(r, "create")
    BY <1>4, <2>2, ProceedKeepsInv DEF CheckExisting, Is, Follows
  <2> QED BY <1>4, <2>1, <2>2 DEF CheckExisting
<1>5. ASSUME NEW r \in AuthReqs, CheckActive(r) PROVE SessionInv'
  <2>1. CASE Return(r)
    BY <1>5, <2>1, ReturnKeepsInv DEF CheckActive, SessionInv, SessionTypes
  <2>2. CASE Active /\ Proceed(r, "setPassword")
    <3>1. account \in AccountRows
      BY <2>2 DEF Active, SessionInv, SessionTypes, NoAccount
    <3> QED BY <1>5, <2>2, <3>1, ProceedKeepsInv DEF CheckActive, Is, Follows
  <2> QED BY <1>5, <2>1, <2>2 DEF CheckActive
<1>6. ASSUME NEW r \in AuthReqs, NEW p \in Passwords, Register(r, p) PROVE SessionInv'
  <2>1. codes' \in Nat
    BY <1>1, <1>6 DEF Register, Draw
  <2>2. [at |-> "register", reg |-> [code |-> codes', password |-> p]] \in Requests
    BY <2>1 DEF Requests, Registrations
  <2> QED BY <1>6, <2>1, <2>2, CallsKeepsInv DEF Register, SessionInv, SessionTypes
<1>7. ASSUME NEW r \in AuthReqs, NEW c, VerifyRegisterOtp(r, c) PROVE SessionInv'
  <2>1. [at |-> "existing", reg |-> pendingReg] \in Requests
    BY <1>7 DEF VerifyRegisterOtp, SessionInv, SessionTypes, Requests
  <2> QED BY <1>1, <1>7, <2>1, CallsKeepsInv DEF VerifyRegisterOtp, SessionInv, SessionTypes
<1>8. ASSUME NEW r \in AuthReqs, ForgotPassword(r) PROVE SessionInv'
  <2>1. codes' \in Nat
    BY <1>1, <1>8 DEF ForgotPassword, Draw
  <2>2. [at |-> "keepReset", code |-> codes'] \in Requests
    BY <2>1 DEF Requests
  <2> QED BY <1>8, <2>1, <2>2, CallsKeepsInv DEF ForgotPassword, SessionInv, SessionTypes
<1>9. ASSUME NEW r \in AuthReqs, NEW c, NEW p \in Passwords, ResetPassword(r, c, p) PROVE SessionInv'
  <2>1. [at |-> "reset", password |-> p] \in Requests
    BY DEF Requests
  <2> QED BY <1>1, <1>9, <2>1, CallsKeepsInv DEF ResetPassword, SessionInv, SessionTypes
<1>10. ASSUME NEW r \in AuthReqs, NEW p, NEW new \in Passwords, ChangePassword(r, p, new)
       PROVE  SessionInv'
  <2>1. [at |-> "change", password |-> new] \in Requests
    BY DEF Requests
  <2> QED BY <1>1, <1>10, <2>1, CallsKeepsInv DEF ChangePassword, SessionInv, SessionTypes
<1>11. ASSUME CodesExpire PROVE SessionInv'
  BY <1>11 DEF CodesExpire, SessionInv, SessionTypes, RowIsThere, NothingToSave, TokensAccounted
<1>12. ASSUME NEW r \in AuthReqs,
              \/ SaveLogin(r) \/ ClearToken(r) \/ Match(r) \/ SpendToken(r) \/ SaveRefresh(r)
              \/ CreateAccount(r) \/ SetPassword(r) \/ WritePassword(r)
       PROVE  SessionInv'
  BY <1>12, SaveLoginKeepsInv, ClearTokenKeepsInv, MatchKeepsInv, SpendTokenKeepsInv,
     SaveRefreshKeepsInv, CreateAccountKeepsInv, SetPasswordKeepsInv, WritePasswordKeepsInv
<1>13. ASSUME NEW r \in AuthReqs,
              \/ Logout(r, NoToken)
              \/ \E t \in Issued : Logout(r, t) \/ Refresh(r, t)
              \/ \E p \in Passwords : Login(r, p)
       PROVE  SessionInv'
  BY <1>1, <1>13, LogoutKeepsInv, RefreshKeepsInv, LoginKeepsInv DEF NoToken
<1> QED
  BY <1>2, <1>3, <1>4, <1>5, <1>6, <1>7, <1>8, <1>9, <1>10, <1>11, <1>12, <1>13,
     TokenExpiresKeepsInv, SetStatusKeepsInv DEF AuthNext

\* The invariant of the sessions, in every behaviour (the whole of auth.service.ts).
THEOREM SessionsInvariant == AuthSpec => []SessionInv
  BY SessionInitInv, SessionStepInv, PTL DEF AuthSpec

\* No refresh token is exchanged twice, except by calls that overlapped the first exchange
\* (refresh: the list of spent tokens is read first and written late).
THEOREM ExchangedOnce == AuthSpec => []TokenExchangedOnce
<1>1. SessionInv => TokenExchangedOnce
  BY DEF SessionInv, TokensAccounted, TokenExchangedOnce
<1> QED BY <1>1, SessionsInvariant, PTL

\* A logout or a reset with no login or refresh past its check ends the session until the next
\* login, whatever calls follow and whichever of them overlap (logout, resetPassword).
THEOREM EndsForGood == AuthSpec => []SessionEndsForGood
<1>1. SessionInv => SessionEndsForGood
  BY DEF SessionInv, NothingToSave, SessionEndsForGood
<1> QED BY <1>1, SessionsInvariant, PTL

-----------------------------------------------------------------------------
(* Memberships and store roles go together, and every wrong answer of the      *)
(* permission cache has a reason.                                              *)
MemSpec == MemInit /\ [][MemNext]_<<memVars, permVars>>

\* What a step writes with EXCEPT is a function.
MemTypes ==
  /\ ownerOf \in [Stores -> Users \cup {Nobody}]
  /\ staff = [m \in Users \X Stores |-> staff[m]]
  /\ memReqs = [r \in MemReqs |-> memReqs[r]]
  /\ permReqs = [r \in PermReqs |-> permReqs[r]]
  /\ permCache = [e \in Users \X Scopes |-> permCache[e]]
  /\ \A r \in MemReqs : memReqs[r].at \in {"create", "remove"} =>
       memReqs[r].user \in Users /\ memReqs[r].store \in Stores

-----------------------------------------------------------------------------
(* The cache.                                                                *)

\* CacheExplained, entry by entry.
EntriesExplained ==
  \A e \in Users \X Scopes : Wrong(e) /\ ~Pending(e[1]) /\ DroppingAll = {} => e \in excused

\* Entry by entry: what the guard has cached is explained (getUserPermissionCodes).
LEMMA ExplainedEntrywise == CacheExplained <=> EntriesExplained
  BY DEF CacheExplained, EntriesExplained, WrongEntries

\* What a user may do depends on the user's rows, the roles and the permissions alone.
LEMMA RightsOfOwnRows ==
  ASSUME UNCHANGED <<grants, codeOf>>, NEW u, NEW s, RowsOf(u)' = RowsOf(u)
  PROVE  CodesInDb(u, s)' = CodesInDb(u, s)
  BY DEF CodesInDb, CodesOfRoles

\* A step that changes neither the entries nor what they should be, and takes no drop off.
LEMMA FrameOfCache ==
  ASSUME EntriesExplained, UNCHANGED <<userRoles, grants, codeOf, permCache>>,
         excused \subseteq excused',
         \A u \in Users : Pending(u) => Pending(u)',
         DroppingAll # {} => DroppingAll' # {}
  PROVE  EntriesExplained'
<1>1. \A e \in Users \X Scopes : Wrong(e)' <=> Wrong(e)
  BY DEF Wrong, CodesInDb, CodesOfRoles, RowsOf
<1> QED BY <1>1 DEF EntriesExplained

\* A step that changes the rows of one user whose entries are about to be dropped.
LEMMA RowsOfOneUser ==
  ASSUME EntriesExplained, NEW v, Pending(v)',
         UNCHANGED <<grants, codeOf, permCache, permReqs, excused>>,
         \A o \in Users : o # v => RowsOf(o)' = RowsOf(o) /\ (Pending(o) => Pending(o)')
  PROVE  EntriesExplained'
<1> SUFFICES ASSUME NEW e \in Users \X Scopes, Wrong(e)', ~Pending(e[1])', (DroppingAll = {})'
             PROVE  e \in excused'
  BY DEF EntriesExplained
<1>1. e[1] \in Users /\ e[1] # v
  OBVIOUS
<1>2. CodesInDb(e[1], e[2])' = CodesInDb(e[1], e[2])
  BY <1>1, RightsOfOwnRows
<1>3. Wrong(e) /\ ~Pending(e[1]) /\ DroppingAll = {}
  BY <1>1, <1>2 DEF Wrong, DroppingAll
<1> QED BY <1>3 DEF EntriesExplained

\* The guard's own steps (getUserPermissionCodes).
LEMMA GuardKeepsCache ==
  ASSUME MemTypes, EntriesExplained, UNCHANGED memReqs, NEW r \in PermReqs,
         \/ \E a \in Routes : ReadCache(r, a[1], a[2])
         \/ Load(r) \/ StoreFails(r)
  PROVE  EntriesExplained'
<1>1. permReqs[r].at # "dropAll" /\ UNCHANGED <<userRoles, grants, codeOf, permCache, excused>>
  BY DEF ReadCache, Load, StoreFails, NoPermReq
<1>2. \A o \in PermReqs \ {r} : permReqs'[o] = permReqs[o]
  BY DEF MemTypes, ReadCache, Load, StoreFails
<1>3. DroppingAll # {} => DroppingAll' # {}
  BY <1>1, <1>2 DEF DroppingAll
<1>4. \A u \in Users : Pending(u) => Pending(u)'
  BY DEF Pending
<1> QED BY <1>1, <1>3, <1>4, FrameOfCache

\* A load writes what it has read; if a change overtook it, the entry is excused (getUserPermissionCodes).
LEMMA StoreCodesKeepsCache ==
  ASSUME MemTypes, EntriesExplained, UNCHANGED memReqs, NEW r \in PermReqs,
         StoreCodes(r, Pending(permReqs[r].user))
  PROVE  EntriesExplained'
<1> DEFINE d == <<permReqs[r].user, permReqs[r].scope>>
<1> SUFFICES ASSUME NEW e \in Users \X Scopes, Wrong(e)', ~Pending(e[1])', (DroppingAll = {})'
             PROVE  e \in excused'
  BY DEF EntriesExplained
<1>1. ~Pending(e[1])
  BY DEF Pending
<1>2. DroppingAll = {}
  <2>1. permReqs[r].at # "dropAll" /\ \A o \in PermReqs \ {r} : permReqs'[o] = permReqs[o]
    BY DEF MemTypes, StoreCodes
  <2> QED BY <2>1 DEF DroppingAll
<1>3. CodesInDb(e[1], e[2])' = CodesInDb(e[1], e[2])
  BY DEF StoreCodes, CodesInDb, CodesOfRoles, RowsOf
<1>4. CASE e = d
  <2>1. permCache'[e] = permReqs[r].codes
    BY <1>4 DEF MemTypes, StoreCodes
  <2>2. permReqs[r].codes # CodesInDb(permReqs[r].user, permReqs[r].scope)
    BY <1>3, <1>4, <2>1 DEF Wrong
  <2> QED BY <1>1, <1>2, <1>4, <2>2 DEF StoreCodes
<1>5. CASE e # d
  <2>1. permCache'[e] = permCache[e]
    BY <1>5 DEF MemTypes, StoreCodes
  <2>2. e \in excused
    BY <1>1, <1>2, <1>3, <2>1 DEF Wrong, EntriesExplained
  <2> QED BY <1>5, <2>2 DEF StoreCodes
<1> QED BY <1>4, <1>5

\* An entry that expires is not cached any more.
LEMMA CacheExpiresKeepsCache ==
  ASSUME MemTypes, EntriesExplained, UNCHANGED memReqs, NEW d \in Users \X Scopes, CacheExpires(d)
  PROVE  EntriesExplained'
<1>1. \A e \in Users \X Scopes : CodesInDb(e[1], e[2])' = CodesInDb(e[1], e[2])
  BY DEF CacheExpires, CodesInDb, CodesOfRoles, RowsOf
<1>2. permCache'[d] = NotCached /\ \A e \in (Users \X Scopes) \ {d} : permCache'[e] = permCache[e]
  BY DEF MemTypes, CacheExpires
<1>3. \A u : Pending(u)' <=> Pending(u)
  BY DEF Pending
<1>4. DroppingAll' = DroppingAll
  BY DEF CacheExpires, DroppingAll
<1> QED BY <1>1, <1>2, <1>3, <1>4 DEF EntriesExplained, Wrong, CacheExpires

\* Dropping the entries of E: what an error of Redis leaves wrong is excused from then on.
LEMMA InvalidateExplains ==
  ASSUME NEW E \in SUBSET (Users \X Scopes), Invalidate(E), UNCHANGED <<userRoles, grants, codeOf>>,
         NEW e \in Users \X Scopes, Wrong(e)'
  PROVE  /\ Wrong(e)
         /\ e \in E => e \in excused'
         /\ e \in excused => e \in excused'
<1>1. PICK D \in SUBSET {d \in E : permCache[d] # NotCached} :
        /\ permCache' = [d \in Users \X Scopes |-> IF d \in D THEN NotCached ELSE permCache[d]]
        /\ excused' = (excused \ D) \cup {d \in E \ D : Wrong(d)}
  BY DEF Invalidate
<1>2. CodesInDb(e[1], e[2])' = CodesInDb(e[1], e[2])
  BY DEF CodesInDb, CodesOfRoles, RowsOf
<1>3. e \notin D /\ permCache'[e] = permCache[e]
  BY <1>1 DEF Wrong
<1>4. Wrong(e)
  BY <1>2, <1>3 DEF Wrong
<1> QED BY <1>1, <1>3, <1>4

\* An edit of a role drops every entry, or Redis fails (invalidateAll).
LEMMA InvalidateAllKeepsCache ==
  ASSUME MemTypes, EntriesExplained, UNCHANGED memReqs, NEW r \in PermReqs, InvalidateAll(r)
  PROVE  EntriesExplained'
<1>1. Invalidate(Users \X Scopes) /\ UNCHANGED <<userRoles, grants, codeOf>>
  BY DEF InvalidateAll
<1>2. \A e \in Users \X Scopes : Wrong(e)' => e \in excused'
  BY <1>1, InvalidateExplains
<1> QED BY <1>2 DEF EntriesExplained

\* The end of joining, opening and removing drops the entries of one user (invalidateUser).
LEMMA ForgetKeepsCache ==
  ASSUME MemTypes, EntriesExplained, NEW r \in MemReqs, Forget(r)
  PROVE  EntriesExplained'
<1> DEFINE v == memReqs[r].user
<1> SUFFICES ASSUME NEW e \in Users \X Scopes, Wrong(e)', ~Pending(e[1])', (DroppingAll = {})'
             PROVE  e \in excused'
  BY DEF EntriesExplained
<1>1. {v} \X Scopes \subseteq Users \X Scopes \/ v \notin Users
  OBVIOUS
<1>2. Invalidate({v} \X Scopes) /\ UNCHANGED <<userRoles, grants, codeOf, permReqs>>
  BY DEF Forget, InvalidateUser
<1>3. PICK D \in SUBSET {d \in {v} \X Scopes : permCache[d] # NotCached} :
        /\ permCache' = [d \in Users \X Scopes |-> IF d \in D THEN NotCached ELSE permCache[d]]
        /\ excused' = (excused \ D) \cup {d \in ({v} \X Scopes) \ D : Wrong(d)}
  BY <1>2 DEF Invalidate
<1>4. CodesInDb(e[1], e[2])' = CodesInDb(e[1], e[2])
  BY <1>2 DEF CodesInDb, CodesOfRoles, RowsOf
<1>5. e \notin D /\ Wrong(e)
  BY <1>3, <1>4 DEF Wrong
<1>6. CASE e[1] = v
  <2>1. e \in {v} \X Scopes
    BY <1>6
  <2> QED BY <1>3, <1>5, <2>1
<1>7. CASE e[1] # v
  <2>1. ~Pending(e[1])
    BY <1>7 DEF Pending, Forget, Goes, MemTypes
  <2>2. DroppingAll = {}
    BY <1>2 DEF DroppingAll
  <2> QED BY <1>3, <1>5, <2>1, <2>2 DEF EntriesExplained
<1> QED BY <1>6, <1>7

\* Whoever edits a role or a permission has yet to drop everything (roles.update and remove,
\* permissions.update and remove).
LEMMA EditsKeepCache ==
  ASSUME MemTypes, NEW r \in PermReqs, ThenDropAll(r)
  PROVE  EntriesExplained'
<1>1. permReqs'[r].at = "dropAll"
  BY DEF MemTypes, ThenDropAll
<1> QED BY <1>1 DEF EntriesExplained, DroppingAll

\* users.update drops nothing; what it leaves wrong is excused.
LEMMA RewriteKeepsCache ==
  ASSUME MemTypes, EntriesExplained, UNCHANGED memReqs, NEW u \in Users, NEW A, RewriteRoles(u, A)
  PROVE  EntriesExplained'
<1> SUFFICES ASSUME NEW e \in Users \X Scopes, Wrong(e)', ~Pending(e[1])', (DroppingAll = {})'
             PROVE  e \in excused'
  BY DEF EntriesExplained
<1>1. excused' = excused \cup {d \in {u} \X Scopes : Wrong(d)'}
  BY DEF RewriteRoles
<1>2. CASE e[1] = u
  <2>1. e \in {u} \X Scopes
    BY <1>2
  <2> QED BY <1>1, <2>1
<1>3. CASE e[1] # u
  <2>1. RowsOf(e[1])' = RowsOf(e[1])
    BY <1>3 DEF RowsOf, RewriteRoles
  <2>2. CodesInDb(e[1], e[2])' = CodesInDb(e[1], e[2])
    BY <2>1, RightsOfOwnRows DEF RewriteRoles
  <2>3. Wrong(e) /\ ~Pending(e[1]) /\ DroppingAll = {}
    BY <2>2 DEF Wrong, RewriteRoles, Pending, DroppingAll
  <2> QED BY <1>1, <2>3 DEF EntriesExplained
<1> QED BY <1>2, <1>3

\* Joining, opening and removing change the rows of the user they then forget.
LEMMA MembershipsKeepCache ==
  ASSUME MemTypes, EntriesExplained, NEW r \in MemReqs, Join(r) \/ InsertStore(r) \/ DeleteMember(r)
  PROVE  EntriesExplained'
<1>0. PICK v : v = memReqs[r].user
  OBVIOUS
<1>1. /\ memReqs[r].at # "forget" /\ Forgets(r)
      /\ UNCHANGED <<grants, codeOf, permCache, permReqs, excused>>
  BY DEF Join, InsertStore, DeleteMember
<1>2. memReqs'[r].at = "forget" /\ memReqs'[r].user = v
  BY <1>0, <1>1 DEF MemTypes, Forgets, Goes
<1>3. \A o \in MemReqs \ {r} : memReqs'[o] = memReqs[o]
  BY <1>1 DEF MemTypes, Forgets, Goes
<1>4. \A o \in Users : o # v => RowsOf(o)' = RowsOf(o)
  <2>1. CASE Join(r)
    BY <1>0, <2>1 DEF Join, RowsOf
  <2>2. CASE InsertStore(r)
    BY <1>0, <2>2 DEF InsertStore, RowsOf
  <2>3. CASE DeleteMember(r)
    BY <1>0, <2>3 DEF DeleteMember, RowsOf
  <2> QED BY <2>1, <2>2, <2>3
<1>5. \A o \in Users : Pending(o) => Pending(o)'
  BY <1>1, <1>3 DEF Pending
<1>6. Pending(v)'
  BY <1>2 DEF Pending
<1> QED BY <1>1, <1>4, <1>5, <1>6, RowsOfOneUser

\* Every step keeps the entries explained.
LEMMA StepKeepsCache ==
  ASSUME MemTypes, EntriesExplained, [MemNext]_<<memVars, permVars>>
  PROVE  EntriesExplained'
<1>1. CASE UNCHANGED <<memVars, permVars>>
  BY <1>1, FrameOfCache DEF memVars, permVars, Pending, DroppingAll
<1>2. CASE PermStep
  <2>1. UNCHANGED memReqs /\ PermNext(ownerOf, Pending)
    BY <1>2 DEF PermStep
  <2>2. ASSUME NEW r \in PermReqs, NEW actor, NEW x, NEW ps,
               \/ UpdateRole(r, actor, x, ps, ownerOf) \/ RemoveRole(r, actor, x, ownerOf)
               \/ RemovePermission(r, x) \/ UpdatePermission(r, x, ps)
        PROVE  EntriesExplained'
    BY <2>2, EditsKeepCache DEF UpdateRole, RemoveRole, RemovePermission, UpdatePermission
  <2> QED BY <2>1, <2>2, GuardKeepsCache, StoreCodesKeepsCache, InvalidateAllKeepsCache,
             CacheExpiresKeepsCache, RewriteKeepsCache DEF PermNext
<1>3. ASSUME UNCHANGED permVars, NEW r \in MemReqs, memReqs[r].at # "forget",
             \A o \in MemReqs \ {r} : memReqs'[o] = memReqs[o]
      PROVE  EntriesExplained'
  <2>1. \A u \in Users : Pending(u) => Pending(u)'
    BY <1>3 DEF Pending
  <2> QED BY <1>3, <2>1, FrameOfCache DEF permVars, DroppingAll
<1>4. ASSUME NEW s \in Stores, RestoreOwner(s) PROVE EntriesExplained'
  BY <1>4, FrameOfCache DEF RestoreOwner, permVars, Pending, DroppingAll
<1>5. ASSUME NEW i \in InviteRows, InviteExpires(i) PROVE EntriesExplained'
  BY <1>5, FrameOfCache DEF InviteExpires, permVars, Pending, DroppingAll
<1>6. ASSUME NEW r \in MemReqs, NEW i \in InviteRows, AcceptInvite(r, i) PROVE EntriesExplained'
  BY <1>3, <1>6 DEF AcceptInvite, Starts, NoMemReq, Goes, MemTypes
<1>7. ASSUME NEW r \in MemReqs, NEW u \in Users, NEW s \in Stores,
             \/ Invite(r, u, s) \/ CreateStore(r, u, s) \/ RemoveMember(r, u, s)
             \/ \E x \in StaffStatuses : UpdateMember(r, u, s, x)
      PROVE  EntriesExplained'
  <2>1. /\ UNCHANGED permVars /\ memReqs[r].at # "forget"
       /\ \A o \in MemReqs \ {r} : memReqs'[o] = memReqs[o]
    BY <1>7 DEF Invite, CreateStore, RemoveMember, UpdateMember, Find, Starts, NoMemReq, Goes, MemTypes
  <2> QED BY <1>3, <2>1
<1>8. ASSUME NEW r \in MemReqs,
             FindInvite(r) \/ WriteInvite(r) \/ JoinFails(r) \/ WriteMember(r)
      PROVE  EntriesExplained'
  <2>1. /\ UNCHANGED permVars /\ memReqs[r].at # "forget"
       /\ \A o \in MemReqs \ {r} : memReqs'[o] = memReqs[o]
    BY <1>8 DEF FindInvite, WriteInvite, JoinFails, WriteMember, Goes, MemTypes
  <2> QED BY <1>3, <2>1
<1> QED
  BY <1>1, <1>2, <1>4, <1>5, <1>6, <1>7, <1>8, MembershipsKeepCache, ForgetKeepsCache DEF MemNext

-----------------------------------------------------------------------------
(* Memberships and roles.                                                    *)

Holds(m, rows) == \E row \in rows : row[1] = m[1] /\ row[3] = m[2]

\* The owner's staff row may be put back at any time, so the owner must never be without a role.
OwnersHoldRoles ==
  \A s \in Stores : ownerOf[s] # Nobody =>
    <<ownerOf[s], s>> \in touched \/ Holds(<<ownerOf[s], s>>, userRoles)
OwnersStay ==
  \A r \in MemReqs : memReqs[r].at = "remove" =>
    ownerOf[memReqs[r].store] \notin {Nobody, memReqs[r].user}

MembershipInv == MemTypes /\ EntriesExplained /\ MembersHoldRoles /\ OwnersHoldRoles /\ OwnersStay

\* The shop as it opens satisfies the invariant (the owner, the members hired, no call).
LEMMA MemInitInv == ASSUME MemInit PROVE MembershipInv
<1> USE BossIsUser, SystemIsNoStore
<1>1. PICK hired \in SUBSET (Users \ {Boss}) :
        /\ staff = [m \in Users \X Stores |->
                      IF m[2] = Open /\ m[1] \in hired \cup {Boss} THEN "ACTIVE" ELSE None]
        /\ userRoles = {<<Boss, Owner, Open>>, <<Boss, SuperAdmin, System>>}
                        \cup {<<u, Member, Open>> : u \in hired}
  BY DEF MemInit
<1>2. MemTypes
  <2>1. /\ ownerOf \in [Stores -> Users \cup {Nobody}]
        /\ memReqs = [r \in MemReqs |-> memReqs[r]]
        /\ \A r \in MemReqs : memReqs[r].at = "idle"
    BY DEF MemInit, NoMemReq
  <2>2. /\ permReqs = [r \in PermReqs |-> permReqs[r]]
        /\ permCache = [e \in Users \X Scopes |-> permCache[e]]
    BY DEF MemInit, PermInit
  <2>3. staff = [m \in Users \X Stores |-> staff[m]]
    BY <1>1
  <2> QED BY <2>1, <2>2, <2>3 DEF MemTypes
<1>3. EntriesExplained
  BY DEF MemInit, PermInit, EntriesExplained, Wrong
<1>4. MembersHoldRoles
  <2> SUFFICES ASSUME NEW m \in Users \X Stores
               PROVE  staff[m] = "ACTIVE" <=> \E row \in userRoles : row[1] = m[1] /\ row[3] = m[2]
    BY DEF MembersHoldRoles
  <2>1. m[2] # System
    OBVIOUS
  <2>2. CASE m[2] = Open /\ m[1] = Boss
    <3>1. <<m[1], Owner, Open>> \in userRoles
      BY <1>1, <2>2
    <3> QED BY <1>1, <2>2, <3>1
  <2>3. CASE m[2] = Open /\ m[1] \in hired
    <3>1. <<m[1], Member, Open>> \in userRoles
      BY <1>1, <2>3
    <3> QED BY <1>1, <2>3, <3>1
  <2>4. CASE ~(m[2] = Open /\ m[1] \in hired \cup {Boss})
    <3>1. staff[m] # "ACTIVE"
      BY <1>1, <2>4 DEF None
    <3>2. ASSUME NEW row \in userRoles, row[1] = m[1], row[3] = m[2] PROVE FALSE
      BY <1>1, <2>1, <2>4, <3>2
    <3> QED BY <3>1, <3>2
  <2> QED BY <2>2, <2>3, <2>4
<1>5. OwnersHoldRoles
  <2>1. <<Boss, Owner, Open>> \in userRoles
    BY <1>1
  <2>2. \A s \in Stores : ownerOf[s] # Nobody => s = Open /\ ownerOf[s] = Boss
    BY DEF MemInit
  <2> QED BY <2>1, <2>2 DEF OwnersHoldRoles, Holds
<1>6. OwnersStay
  BY DEF MemInit, OwnersStay, NoMemReq
<1> QED BY <1>2, <1>3, <1>4, <1>5, <1>6 DEF MembershipInv

\* A step that leaves owners, staff rows and role rows alone, and begins no removal.
LEMMA FrameOfRoles ==
  ASSUME MembershipInv, UNCHANGED <<ownerOf, staff, userRoles>>, touched \subseteq touched',
         \A r \in MemReqs : memReqs'[r] = memReqs[r] \/ memReqs'[r].at # "remove"
  PROVE  MembersHoldRoles' /\ OwnersHoldRoles' /\ OwnersStay'
  BY DEF MembershipInv, MembersHoldRoles, OwnersHoldRoles, OwnersStay, Holds

\* remove(): the owner is never removed, so only the member who goes is without a role.
LEMMA RemoveBegins ==
  ASSUME MembershipInv, NEW r \in MemReqs, NEW u \in Users, NEW s \in Stores, RemoveMember(r, u, s)
  PROVE  MembersHoldRoles' /\ OwnersHoldRoles' /\ OwnersStay'
<1>1. MembersHoldRoles' /\ OwnersHoldRoles'
  BY DEF MembershipInv, MembersHoldRoles, OwnersHoldRoles, Holds, RemoveMember, Find, permVars
<1>2. OwnersStay'
  BY DEF MembershipInv, MemTypes, OwnersStay, RemoveMember, Find, Goes
<1> QED BY <1>1, <1>2

\* A removal takes the staff row and the roles of the store together (remove).
LEMMA DeleteKeepsRoles ==
  ASSUME MembershipInv, NEW r \in MemReqs, DeleteMember(r)
  PROVE  MembersHoldRoles' /\ OwnersHoldRoles' /\ OwnersStay'
<1>0. PICK u \in Users, s \in Stores : u = memReqs[r].user /\ s = memReqs[r].store
  BY DEF MembershipInv, MemTypes, DeleteMember
<1>1. /\ staff' = [staff EXCEPT ![<<u, s>>] = "DELETED"]
      /\ userRoles' = {row \in userRoles : ~(row[1] = u /\ row[3] = s)}
      /\ UNCHANGED <<ownerOf, touched>>
      /\ ownerOf[s] # u
  BY <1>0 DEF MembershipInv, OwnersStay, DeleteMember
<1>2. MembersHoldRoles'
  <2> SUFFICES ASSUME NEW m \in Users \X Stores, m \notin touched
               PROVE  staff'[m] = "ACTIVE" <=> \E row \in userRoles' : row[1] = m[1] /\ row[3] = m[2]
    BY <1>1 DEF MembersHoldRoles
  <2>1. CASE m = <<u, s>>
    BY <1>1, <2>1 DEF MembershipInv, MemTypes
  <2>2. CASE m # <<u, s>>
    <3>1. staff'[m] = staff[m]
      BY <1>1, <2>2 DEF MembershipInv, MemTypes
    <3>2. ~(m[1] = u /\ m[2] = s)
      BY <2>2
    <3> QED BY <1>1, <3>1, <3>2 DEF MembershipInv, MembersHoldRoles
  <2> QED BY <2>1, <2>2
<1>3. OwnersHoldRoles'
  BY <1>1 DEF MembershipInv, OwnersHoldRoles, Holds
<1>4. OwnersStay'
  BY <1>1 DEF MembershipInv, MemTypes, OwnersStay, DeleteMember, Forgets, Goes
<1> QED BY <1>2, <1>3, <1>4

\* acceptInvite(): the staff row and the role row come together.
LEMMA JoinKeepsRoles ==
  ASSUME MembershipInv, NEW r \in MemReqs, Join(r)
  PROVE  MembersHoldRoles' /\ OwnersHoldRoles' /\ OwnersStay'
<1>0. PICK u, s : u = memReqs[r].user /\ s = memReqs[r].store
  OBVIOUS
<1>1. /\ staff' = [staff EXCEPT ![<<u, s>>] = "ACTIVE"]
      /\ userRoles' = userRoles \cup {<<u, Member, s>>}
      /\ UNCHANGED <<ownerOf, touched>>
  BY <1>0 DEF Join
<1>2. MembersHoldRoles'
  <2> SUFFICES ASSUME NEW m \in Users \X Stores, m \notin touched
               PROVE  staff'[m] = "ACTIVE" <=> \E row \in userRoles' : row[1] = m[1] /\ row[3] = m[2]
    BY <1>1 DEF MembersHoldRoles
  <2>1. CASE m = <<u, s>>
    <3>1. staff'[m] = "ACTIVE"
      BY <1>1, <2>1 DEF MembershipInv, MemTypes
    <3>2. <<m[1], Member, m[2]>> \in userRoles'
      BY <1>1, <2>1
    <3> QED BY <3>1, <3>2
  <2>2. CASE m # <<u, s>>
    <3>1. staff'[m] = staff[m]
      BY <1>1, <2>2 DEF MembershipInv, MemTypes
    <3>2. ~(m[1] = u /\ m[2] = s)
      BY <2>2
    <3> QED BY <1>1, <3>1, <3>2 DEF MembershipInv, MembersHoldRoles
  <2> QED BY <2>1, <2>2
<1>3. OwnersHoldRoles'
  BY <1>1 DEF MembershipInv, OwnersHoldRoles, Holds
<1>4. OwnersStay'
  BY <1>1 DEF MembershipInv, MemTypes, OwnersStay, Join, Forgets, Goes
<1> QED BY <1>2, <1>3, <1>4

\* stores.create(): a store that nobody had gets its owner, the owner's role and staff row.
LEMMA InsertStoreKeepsRoles ==
  ASSUME MembershipInv, NEW r \in MemReqs, InsertStore(r)
  PROVE  MembersHoldRoles' /\ OwnersHoldRoles' /\ OwnersStay'
<1>0. PICK u \in Users, s \in Stores : u = memReqs[r].user /\ s = memReqs[r].store
  BY DEF MembershipInv, MemTypes, InsertStore
<1>1. /\ staff' = [staff EXCEPT ![<<u, s>>] = "ACTIVE"]
      /\ userRoles' = userRoles \cup {<<u, Owner, s>>}
      /\ ownerOf' = [ownerOf EXCEPT ![s] = u] /\ ownerOf[s] = Nobody
      /\ UNCHANGED touched
  BY <1>0 DEF InsertStore
<1>2. MembersHoldRoles'
  <2> SUFFICES ASSUME NEW m \in Users \X Stores, m \notin touched
               PROVE  staff'[m] = "ACTIVE" <=> \E row \in userRoles' : row[1] = m[1] /\ row[3] = m[2]
    BY <1>1 DEF MembersHoldRoles
  <2>1. CASE m = <<u, s>>
    <3>1. staff'[m] = "ACTIVE"
      BY <1>1, <2>1 DEF MembershipInv, MemTypes
    <3>2. <<m[1], Owner, m[2]>> \in userRoles'
      BY <1>1, <2>1
    <3> QED BY <3>1, <3>2
  <2>2. CASE m # <<u, s>>
    <3>1. staff'[m] = staff[m]
      BY <1>1, <2>2 DEF MembershipInv, MemTypes
    <3>2. ~(m[1] = u /\ m[2] = s)
      BY <2>2
    <3> QED BY <1>1, <3>1, <3>2 DEF MembershipInv, MembersHoldRoles
  <2> QED BY <2>1, <2>2
<1>3. OwnersHoldRoles'
  <2> SUFFICES ASSUME NEW t \in Stores, ownerOf'[t] # Nobody, <<ownerOf'[t], t>> \notin touched
               PROVE  Holds(<<ownerOf'[t], t>>, userRoles')
    BY <1>1 DEF OwnersHoldRoles
  <2>1. CASE t = s
    <3>1. ownerOf'[t] = u
      BY <1>1, <2>1 DEF MembershipInv, MemTypes
    <3>2. <<u, Owner, s>> \in userRoles'
      BY <1>1
    <3> QED BY <2>1, <3>1, <3>2 DEF Holds
  <2>2. CASE t # s
    <3>1. ownerOf'[t] = ownerOf[t]
      BY <1>1, <2>2 DEF MembershipInv, MemTypes
    <3> QED BY <1>1, <3>1 DEF MembershipInv, OwnersHoldRoles, Holds
  <2> QED BY <2>1, <2>2
<1>4. OwnersStay'
  BY <1>1 DEF MembershipInv, MemTypes, OwnersStay, InsertStore, Forgets, Goes
<1> QED BY <1>2, <1>3, <1>4

\* An edit by hand is remembered, whatever it writes (update, users.update).
LEMMA WriteMemberKeepsRoles ==
  ASSUME MembershipInv, NEW r \in MemReqs, WriteMember(r)
  PROVE  MembersHoldRoles' /\ OwnersHoldRoles' /\ OwnersStay'
<1>0. PICK u, s : u = memReqs[r].user /\ s = memReqs[r].store
  OBVIOUS
<1>1. /\ \A m \in (Users \X Stores) \ {<<u, s>>} : staff'[m] = staff[m]
      /\ touched' = touched \cup {<<u, s>>}
      /\ UNCHANGED <<ownerOf, userRoles>>
  BY <1>0 DEF MembershipInv, MemTypes, WriteMember, permVars
<1>2. MembersHoldRoles'
  BY <1>1 DEF MembershipInv, MembersHoldRoles
<1>3. OwnersHoldRoles'
  BY <1>1 DEF MembershipInv, OwnersHoldRoles, Holds
<1>4. OwnersStay'
  BY <1>1 DEF MembershipInv, MemTypes, OwnersStay, WriteMember, Goes, NoMemReq
<1> QED BY <1>2, <1>3, <1>4

\* What the guard and the administrators do to roles is on record as touched (users.update).
LEMMA PermStepKeepsRoles ==
  ASSUME MembershipInv, PermStep
  PROVE  MembersHoldRoles' /\ OwnersHoldRoles' /\ OwnersStay'
<1>1. /\ UNCHANGED <<ownerOf, staff, memReqs>>
      /\ touched \subseteq touched'
      /\ \A m \in (Users \X Stores) \ touched' :
           {w \in userRoles : w[1] = m[1] /\ w[3] = m[2]}
           = {w \in userRoles' : w[1] = m[1] /\ w[3] = m[2]}
  BY DEF PermStep
<1>2. \A m \in (Users \X Stores) \ touched' : Holds(m, userRoles') <=> Holds(m, userRoles)
  BY <1>1 DEF Holds
<1>3. MembersHoldRoles'
  BY <1>1, <1>2 DEF MembershipInv, MembersHoldRoles, Holds
<1>4. OwnersHoldRoles'
  <2> SUFFICES ASSUME NEW s \in Stores, ownerOf[s] # Nobody, <<ownerOf[s], s>> \notin touched'
               PROVE  Holds(<<ownerOf[s], s>>, userRoles')
    BY <1>1 DEF OwnersHoldRoles
  <2>1. <<ownerOf[s], s>> \in Users \X Stores
    BY DEF MembershipInv, MemTypes
  <2>2. Holds(<<ownerOf[s], s>>, userRoles)
    BY <1>1 DEF MembershipInv, OwnersHoldRoles
  <2> QED BY <1>2, <2>1, <2>2
<1>5. OwnersStay'
  BY <1>1 DEF MembershipInv, OwnersStay
<1> QED BY <1>3, <1>4, <1>5

\* The owner who is put back has kept the owner's role (findActiveStaffOrRestoreOwner).
LEMMA RestoreOwnerKeepsRoles ==
  ASSUME MembershipInv, NEW s \in Stores, RestoreOwner(s)
  PROVE  MembersHoldRoles' /\ OwnersHoldRoles' /\ OwnersStay'
<1>1. UNCHANGED <<ownerOf, touched, userRoles, memReqs>>
  BY DEF RestoreOwner, permVars
<1>2. MembersHoldRoles'
  <2> SUFFICES ASSUME NEW m \in Users \X Stores, m \notin touched
               PROVE  staff'[m] = "ACTIVE" <=> Holds(m, userRoles)
    BY <1>1 DEF MembersHoldRoles, Holds
  <2>1. CASE m = <<ownerOf[s], s>>
    <3>1. staff'[m] = "ACTIVE"
      BY <2>1 DEF MembershipInv, MemTypes, RestoreOwner
    <3>2. Holds(m, userRoles)
      BY <2>1 DEF MembershipInv, OwnersHoldRoles, RestoreOwner
    <3> QED BY <3>1, <3>2
  <2>2. CASE m # <<ownerOf[s], s>>
    <3>1. staff'[m] = staff[m]
      BY <2>2 DEF MembershipInv, MemTypes, RestoreOwner
    <3> QED BY <3>1 DEF MembershipInv, MembersHoldRoles, Holds
  <2> QED BY <2>1, <2>2
<1>3. OwnersHoldRoles' /\ OwnersStay'
  BY <1>1 DEF MembershipInv, OwnersHoldRoles, OwnersStay, Holds
<1> QED BY <1>2, <1>3

-----------------------------------------------------------------------------
\* Every step keeps the types: one lemma for the permissions, one for the memberships.
LEMMA PermStepTypes == ASSUME MemTypes, PermStep PROVE MemTypes'
<1>1. UNCHANGED <<ownerOf, staff, memReqs>>
  BY DEF PermStep
<1>2. permReqs' = permReqs \/ \E r \in PermReqs : \E q : permReqs' = [permReqs EXCEPT ![r] = q]
  BY DEF PermStep, PermNext, ReadCache, Load, StoreFails, InvalidateAll, StoreCodes, UpdateRole,
         RemoveRole, RemovePermission, UpdatePermission, ThenDropAll, CacheExpires, RewriteRoles
<1>3. permReqs' = [r \in PermReqs |-> permReqs'[r]]
  BY <1>2 DEF MemTypes
<1>4. permCache' = [e \in Users \X Scopes |-> permCache'[e]]
  <2>1. ASSUME NEW r \in PermReqs, StoreCodes(r, Pending(permReqs[r].user))
        PROVE  permCache' = [e \in Users \X Scopes |-> permCache'[e]]
    BY <2>1 DEF StoreCodes, MemTypes
  <2>2. ASSUME NEW r \in PermReqs, InvalidateAll(r)
        PROVE  permCache' = [e \in Users \X Scopes |-> permCache'[e]]
    BY <2>2 DEF InvalidateAll, Invalidate
  <2>3. ASSUME NEW e \in Users \X Scopes, CacheExpires(e)
        PROVE  permCache' = [d \in Users \X Scopes |-> permCache'[d]]
    BY <2>3 DEF CacheExpires, MemTypes
  <2>4. CASE permCache' = permCache
    BY <2>4 DEF MemTypes
  <2> QED
    BY <2>1, <2>2, <2>3, <2>4 DEF PermStep, PermNext, ReadCache, Load, StoreFails, UpdateRole,
       RemoveRole, RemovePermission, UpdatePermission, RewriteRoles
<1> QED BY <1>1, <1>3, <1>4 DEF MemTypes

\* The types after the cached answers of a user have been dropped (invalidateUser).
LEMMA ForgetTypes == ASSUME MemTypes, NEW r \in MemReqs, Forget(r) PROVE MemTypes'
<1>1. permCache' = [e \in Users \X Scopes |-> permCache'[e]]
  BY DEF Forget, InvalidateUser, Invalidate
<1>2. /\ memReqs' = [o \in MemReqs |-> memReqs'[o]]
      /\ \A o \in MemReqs : memReqs'[o] = memReqs[o] \/ memReqs'[o].at = "idle"
  BY DEF MemTypes, Forget, Goes, NoMemReq
<1> QED BY <1>1, <1>2 DEF MemTypes, Forget

\* The types after each write of a membership (invite, acceptInvite, create, update, remove).
LEMMA WritesKeepTypes ==
  ASSUME MemTypes, NEW r \in MemReqs,
         Join(r) \/ InsertStore(r) \/ WriteMember(r) \/ DeleteMember(r)
  PROVE  MemTypes'
<1>1. /\ memReqs' = [o \in MemReqs |-> memReqs'[o]]
      /\ \A o \in MemReqs : memReqs'[o] = memReqs[o] \/ memReqs'[o].at \in {"idle", "forget"}
  BY DEF MemTypes, Join, InsertStore, WriteMember, DeleteMember, Forgets, Goes, NoMemReq
<1>2. staff' = [m \in Users \X Stores |-> staff'[m]]
  BY DEF MemTypes, Join, InsertStore, WriteMember, DeleteMember
<1>3. ownerOf' \in [Stores -> Users \cup {Nobody}]
  BY DEF MemTypes, Join, InsertStore, WriteMember, DeleteMember
<1>4. UNCHANGED <<permReqs, permCache>>
  BY DEF Join, InsertStore, WriteMember, DeleteMember, permVars
<1> QED BY <1>1, <1>2, <1>3, <1>4 DEF MemTypes

\* A call that begins, or that only looks on, moves on with a user and a store of the request.
LEMMA ReadsKeepTypes ==
  ASSUME MemTypes, NEW r \in MemReqs, UNCHANGED <<ownerOf, staff, permVars>>,
         memReqs' = [memReqs EXCEPT ![r] = memReqs'[r]],
         memReqs'[r].at \in {"create", "remove"} =>
           memReqs'[r].user \in Users /\ memReqs'[r].store \in Stores
  PROVE  MemTypes'
<1>1. memReqs' = [o \in MemReqs |-> memReqs'[o]]
  BY DEF MemTypes
<1>2. \A o \in MemReqs \ {r} : memReqs'[o] = memReqs[o]
  BY DEF MemTypes
<1> QED BY <1>1, <1>2 DEF MemTypes, permVars

\* The calls that read, and the steps that only end a call: what they leave alone, where they stand.
LEMMA ReadsAre ==
  ASSUME MemTypes, NEW r \in MemReqs,
         \/ FindInvite(r) \/ WriteInvite(r) \/ JoinFails(r)
         \/ \E i \in InviteRows : AcceptInvite(r, i)
         \/ \E u \in Users, s \in Stores :
              \/ Invite(r, u, s) \/ CreateStore(r, u, s)
              \/ \E x \in StaffStatuses : UpdateMember(r, u, s, x)
  PROVE  /\ UNCHANGED <<ownerOf, staff, permVars, touched>>
         /\ memReqs' = [memReqs EXCEPT ![r] = memReqs'[r]]
         /\ memReqs'[r].at # "remove"
         /\ memReqs'[r].at = "create" => memReqs'[r].user \in Users /\ memReqs'[r].store \in Stores
<1>1. CASE FindInvite(r)
  BY <1>1 DEF FindInvite, Goes, MemTypes
<1>2. CASE WriteInvite(r) \/ JoinFails(r)
  BY <1>2 DEF WriteInvite, JoinFails, Goes, MemTypes, NoMemReq
<1>3. ASSUME NEW i \in InviteRows, AcceptInvite(r, i)
      PROVE  /\ UNCHANGED <<ownerOf, staff, permVars, touched>>
             /\ memReqs' = [memReqs EXCEPT ![r] = memReqs'[r]]
             /\ memReqs'[r].at = "join"
  BY <1>3 DEF AcceptInvite, Goes, MemTypes
<1>4. ASSUME NEW u \in Users, NEW s \in Stores,
             \/ Invite(r, u, s) \/ CreateStore(r, u, s)
             \/ \E x \in StaffStatuses : UpdateMember(r, u, s, x)
      PROVE  /\ UNCHANGED <<ownerOf, staff, permVars, touched>>
             /\ memReqs' = [memReqs EXCEPT ![r] = memReqs'[r]]
             /\ memReqs'[r].at \in {"findInvite", "create", "edit"}
             /\ memReqs'[r].user = u /\ memReqs'[r].store = s
  BY <1>4 DEF Invite, CreateStore, UpdateMember, Find, Goes, MemTypes
<1> QED BY <1>1, <1>2, <1>3, <1>4

\* The invariant of the memberships and the cache is kept by every step of the model.
LEMMA MemStepInv == MembershipInv /\ [MemNext]_<<memVars, permVars>> => MembershipInv'
<1> SUFFICES ASSUME MembershipInv, [MemNext]_<<memVars, permVars>>
             PROVE  MemTypes' /\ MembersHoldRoles' /\ OwnersHoldRoles' /\ OwnersStay'
  BY StepKeepsCache DEF MembershipInv
<1>0. MemTypes
  BY DEF MembershipInv
<1>1. CASE UNCHANGED <<memVars, permVars>>
  <2>1. MemTypes'
    BY <1>0, <1>1 DEF MemTypes, memVars, permVars
  <2> QED BY <1>1, <2>1, FrameOfRoles DEF memVars, permVars
<1>2. CASE PermStep
  BY <1>0, <1>2, PermStepTypes, PermStepKeepsRoles
<1>3. ASSUME NEW r \in MemReqs,
             \/ FindInvite(r) \/ WriteInvite(r) \/ JoinFails(r)
             \/ \E i \in InviteRows : AcceptInvite(r, i)
             \/ \E u \in Users, s \in Stores :
                  \/ Invite(r, u, s) \/ CreateStore(r, u, s)
                  \/ \E x \in StaffStatuses : UpdateMember(r, u, s, x)
      PROVE  MemTypes' /\ MembersHoldRoles' /\ OwnersHoldRoles' /\ OwnersStay'
  <2>1. /\ UNCHANGED <<ownerOf, staff, permVars, touched>>
        /\ memReqs' = [memReqs EXCEPT ![r] = memReqs'[r]]
        /\ memReqs'[r].at # "remove"
        /\ memReqs'[r].at = "create" => memReqs'[r].user \in Users /\ memReqs'[r].store \in Stores
    BY <1>0, <1>3, ReadsAre
  <2>2. \A o \in MemReqs : memReqs'[o] = memReqs[o] \/ memReqs'[o].at # "remove"
    BY <1>0, <2>1 DEF MemTypes
  <2>3. MemTypes'
    BY <1>0, <2>1, ReadsKeepTypes
  <2> QED BY <2>1, <2>2, <2>3, FrameOfRoles DEF permVars
<1>4. ASSUME NEW r \in MemReqs, NEW u \in Users, NEW s \in Stores, RemoveMember(r, u, s)
      PROVE  MemTypes' /\ MembersHoldRoles' /\ OwnersHoldRoles' /\ OwnersStay'
  <2>1. /\ UNCHANGED <<ownerOf, staff, permVars>>
        /\ memReqs' = [memReqs EXCEPT ![r] = memReqs'[r]]
        /\ memReqs'[r].user = u /\ memReqs'[r].store = s
    BY <1>0, <1>4 DEF RemoveMember, Find, Goes, MemTypes
  <2>2. MemTypes'
    BY <1>0, <2>1, ReadsKeepTypes
  <2> QED BY <1>4, <2>2, RemoveBegins
<1>5. ASSUME NEW s \in Stores, RestoreOwner(s)
      PROVE  MemTypes' /\ MembersHoldRoles' /\ OwnersHoldRoles' /\ OwnersStay'
  <2>1. MemTypes'
    BY <1>0, <1>5 DEF MemTypes, RestoreOwner, permVars
  <2> QED BY <1>5, <2>1, RestoreOwnerKeepsRoles
<1>6. ASSUME NEW i \in InviteRows, InviteExpires(i)
      PROVE  MemTypes' /\ MembersHoldRoles' /\ OwnersHoldRoles' /\ OwnersStay'
  <2>1. UNCHANGED <<ownerOf, staff, memReqs, touched, permVars>>
    BY <1>6 DEF InviteExpires
  <2>2. MemTypes'
    BY <1>0, <2>1 DEF MemTypes, permVars
  <2> QED BY <2>1, <2>2, FrameOfRoles DEF permVars
<1>7. ASSUME NEW r \in MemReqs, Forget(r)
      PROVE  MemTypes' /\ MembersHoldRoles' /\ OwnersHoldRoles' /\ OwnersStay'
  <2>1. \A o \in MemReqs : memReqs'[o] = memReqs[o] \/ memReqs'[o].at # "remove"
    BY <1>0, <1>7 DEF MemTypes, Forget, Goes, NoMemReq
  <2> QED BY <1>0, <1>7, <2>1, ForgetTypes, FrameOfRoles DEF Forget
<1>8. ASSUME NEW r \in MemReqs, Join(r) \/ InsertStore(r) \/ WriteMember(r) \/ DeleteMember(r)
      PROVE  MemTypes' /\ MembersHoldRoles' /\ OwnersHoldRoles' /\ OwnersStay'
  BY <1>0, <1>8, WritesKeepTypes, JoinKeepsRoles, InsertStoreKeepsRoles, WriteMemberKeepsRoles,
     DeleteKeepsRoles
<1> QED BY <1>1, <1>2, <1>3, <1>4, <1>5, <1>6, <1>7, <1>8 DEF MemNext

\* A member who is active holds a role at the store and nobody else does, for any users, stores
\* and overlapping calls (acceptInvite, remove, create; edits by hand are remembered apart).
THEOREM MembersAlwaysHoldRoles == MemSpec => []MembersHoldRoles
<1>1. MembershipInv => MembersHoldRoles
  BY DEF MembershipInv
<1> QED BY <1>1, MemInitInv, MemStepInv, PTL DEF MemSpec

\* Every wrong answer in the cache is about to be dropped or has one of the known reasons, for
\* any users, roles, permissions and overlapping calls (getUserPermissionCodes, invalidateUser).
THEOREM CacheAlwaysExplained == MemSpec => []CacheExplained
<1>1. MembershipInv => CacheExplained
  BY ExplainedEntrywise DEF MembershipInv
<1> QED BY <1>1, MemInitInv, MemStepInv, PTL DEF MemSpec
=============================================================================
