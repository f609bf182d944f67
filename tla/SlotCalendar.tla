---------------------------- MODULE SlotCalendar ----------------------------
(***************************************************************************)
(* What a booking system promises about the time of its staff, with no     *)
(* transactions, locks or candidates: a booking obtains all of its slots   *)
(* in one step and only where nobody else is served, and gives slots back. *)
(* A slot is a record with fields booking, staff, start and dur.           *)
(***************************************************************************)
EXTENDS Naturals

VARIABLE reserved   \* the slots taken

Collide(x, y) ==
  /\ x # y
  /\ x.staff = y.staff
  /\ x.start < y.start + y.dur
  /\ y.start < x.start + x.dur

Init == reserved = {}

\* One booking that holds nothing yet takes a set of free slots.
Reserve ==
  LET new == reserved' \ reserved
  IN /\ reserved \subseteq reserved'
     /\ \A x, y \in new : x.booking = y.booking
     /\ \A x \in new : \A y \in reserved : x.booking # y.booking
     /\ \A x \in new : \A y \in reserved' : ~Collide(x, y)

Release == reserved' \subseteq reserved

Next == Reserve \/ Release

Spec == Init /\ [][Next]_reserved
=============================================================================
