-------------------------------- MODULE Roster --------------------------------
(* When the members of a store work on one date: the weekly schedule of that    *)
(* weekday, the day off asked for that date and the call to come in on it.  Each *)
(* call reads the row it is about, then writes it; the database holds at most   *)
(* one row of each kind for a member and a date.                               *)
EXTENDS Integers, FiniteSets

CONSTANTS
  Staff,
  RosterReqs,         \* calls under way
  Shifts,             \* hours <<from, to>> of weekly schedules
  Absences,           \* hours of days off, AllDay or both ends (StaffDayOffService.create)
  CallHours,          \* hours of call-ins, either end of which may not be given
  MaxRosterCalls      \* bound: calls in a behaviour

VARIABLES
  schedule,           \* [Staff -> row of the weekday or NoRow]
  dayOff,             \* [Staff -> row of the date or NoRow]
  callIn,             \* [Staff -> row of the date or NoRow]
  rosterReqs, rosterCalls,
  early               \* [Staff -> calls that were under way when the day off was approved]
rosterVars == <<schedule, dayOff, callIn, rosterReqs, rosterCalls, early>>

NoRow       == [status |-> "NONE"]
NoRosterReq == [at |-> "idle"]
AllDay      == <<>>        \* a day off without hours
NoTime      == -1          \* the end of a call-in's hours that was not given
Shift(w, on) == [status |-> IF on THEN "ON" ELSE "OFF", hours |-> w]
Wish(w)      == [status |-> "PENDING", hours |-> w]

RosterInit ==
  /\ schedule = [m \in Staff |-> NoRow]
  /\ dayOff = [m \in Staff |-> NoRow]
  /\ callIn = [m \in Staff |-> NoRow]
  /\ rosterReqs = [r \in RosterReqs |-> NoRosterReq] /\ rosterCalls = 0
  /\ early = [m \in Staff |-> {}]

Begins(r, m, op) == /\ rosterReqs[r] = NoRosterReq
                    /\ rosterCalls < MaxRosterCalls
                    /\ rosterCalls' = rosterCalls + 1
                    /\ rosterReqs' = [rosterReqs EXCEPT ![r] = [at |-> op, of |-> m]]
                    /\ UNCHANGED <<schedule, dayOff, callIn, early>>
Ends(r)     == rosterReqs' = [rosterReqs EXCEPT ![r] = NoRosterReq] /\ UNCHANGED rosterCalls
At(r, op)   == rosterReqs[r].at = op
Of(r)       == rosterReqs[r].of

(* ------------------------------- Schedules -------------------------------- *)

CreateSchedule(m, w, on) ==
  /\ schedule[m] = NoRow
  /\ schedule' = [schedule EXCEPT ![m] = Shift(w, on)]
  /\ UNCHANGED <<dayOff, callIn, rosterReqs, rosterCalls, early>>

\* bulkUpsert in one transaction, a change of the row, or its removal.
ReplaceSchedule(m, row) ==
  /\ schedule[m] # row
  /\ schedule' = [schedule EXCEPT ![m] = row]
  /\ UNCHANGED <<dayOff, callIn, rosterReqs, rosterCalls, early>>

(* ------------------------------- Days off --------------------------------- *)

AskDayOff(r, m) == dayOff[m] = NoRow /\ Begins(r, m, "insertDayOff")
InsertDayOff(r, w) ==
  /\ At(r, "insertDayOff") /\ Ends(r)
  /\ dayOff' = IF dayOff[Of(r)] = NoRow THEN [dayOff EXCEPT ![Of(r)] = Wish(w)] ELSE dayOff
  /\ UNCHANGED <<schedule, callIn, early>>

MayDecideDayOff(m) == dayOff[m].status = "PENDING"
MayEditDayOff(m)   == dayOff[m].status = "PENDING"
MayCancelDayOff(m) == dayOff[m].status = "PENDING"
\* Variant: any day off may be removed.
MayRemoveAny(m) == dayOff[m] # NoRow
MayRemoveDayOff(m) == dayOff[m] # NoRow /\ dayOff[m].status # "APPROVED"

ReviewDayOff(r, m) == MayDecideDayOff(m) /\ Begins(r, m, "decideDayOff")
EditDayOff(r, m)   == MayEditDayOff(m)   /\ Begins(r, m, "editDayOff")
CancelDayOff(r, m) == MayCancelDayOff(m) /\ Begins(r, m, "deleteDayOff")
RemoveDayOff(r, m) == MayRemoveDayOff(m) /\ Begins(r, m, "deleteDayOff")

\* Every write fails when the row is gone.
Others(r) == {o \in RosterReqs \ {r} : rosterReqs[o] # NoRosterReq}
DecideDayOff(r, s) ==
  /\ At(r, "decideDayOff") /\ Ends(r)
  /\ IF dayOff[Of(r)] = NoRow THEN UNCHANGED <<dayOff, early>>
     ELSE /\ dayOff' = [dayOff EXCEPT ![Of(r)].status = s]
          /\ early' = [early EXCEPT ![Of(r)] = IF s = "APPROVED" THEN Others(r) ELSE {}]
  /\ UNCHANGED <<schedule, callIn>>
WriteDayOff(r, w) ==
  /\ At(r, "editDayOff") /\ Ends(r)
  /\ dayOff' = IF dayOff[Of(r)] = NoRow THEN dayOff ELSE [dayOff EXCEPT ![Of(r)].hours = w]
  /\ UNCHANGED <<schedule, callIn, early>>
DeleteDayOff(r) ==
  /\ At(r, "deleteDayOff") /\ Ends(r)
  /\ dayOff' = [dayOff EXCEPT ![Of(r)] = NoRow]
  /\ UNCHANGED <<schedule, callIn, early>>

(* ------------------------------- Call-ins --------------------------------- *)

\* Only on a date with no shift and no day off, not even a refused one.
MayCallIn(m) == schedule[m].status # "ON" /\ dayOff[m] = NoRow /\ callIn[m] = NoRow
CallIn(r, m) == MayCallIn(m) /\ Begins(r, m, "insertCallIn")
InsertCallIn(r, w) ==
  /\ At(r, "insertCallIn") /\ Ends(r)
  /\ callIn' = IF callIn[Of(r)] = NoRow THEN [callIn EXCEPT ![Of(r)] = Wish(w)] ELSE callIn
  /\ UNCHANGED <<schedule, dayOff, early>>
Respond(r, m)      == callIn[m].status = "PENDING" /\ Begins(r, m, "answer")
RemoveCallIn(r, m) == callIn[m].status = "PENDING" /\ Begins(r, m, "deleteCallIn")
Answer(r, s) ==
  /\ At(r, "answer") /\ Ends(r)
  /\ callIn' = IF callIn[Of(r)] = NoRow THEN callIn ELSE [callIn EXCEPT ![Of(r)].status = s]
  /\ UNCHANGED <<schedule, dayOff, early>>
DeleteCallIn(r) ==
  /\ At(r, "deleteCallIn") /\ Ends(r)
  /\ callIn' = [callIn EXCEPT ![Of(r)] = NoRow]
  /\ UNCHANGED <<schedule, dayOff, early>>

RosterNext ==
  \/ \E m \in Staff :
       \/ ReplaceSchedule(m, NoRow)
       \/ \E w \in Shifts, on \in BOOLEAN : CreateSchedule(m, w, on) \/ ReplaceSchedule(m, Shift(w, on))
       \/ \E r \in RosterReqs :
            \/ AskDayOff(r, m) \/ ReviewDayOff(r, m) \/ EditDayOff(r, m)
            \/ CancelDayOff(r, m) \/ RemoveDayOff(r, m)
            \/ CallIn(r, m) \/ Respond(r, m) \/ RemoveCallIn(r, m)
  \/ \E r \in RosterReqs :
       \/ DeleteDayOff(r) \/ DeleteCallIn(r)
       \/ \E s \in {"APPROVED", "REJECTED"} : DecideDayOff(r, s)
       \/ \E s \in {"ACCEPTED", "REJECTED"} : Answer(r, s)
       \/ \E w \in Absences : InsertDayOff(r, w) \/ WriteDayOff(r, w)
       \/ \E w \in CallHours : InsertCallIn(r, w)

(* ---------------------------- Properties --------------------------------- *)

\* An approved day off is changed, refused or deleted only by a call that was already under way
\* when it was approved, having read the row as pending (review, update, remove, cancelOwn).
ApprovalStands ==
  [][\A m \in Staff :
       dayOff[m].status = "APPROVED" /\ dayOff'[m] # dayOff[m] =>
         \E r \in early[m] : rosterReqs[r] # NoRosterReq /\ rosterReqs'[r] = NoRosterReq]_rosterVars
=============================================================================
