--------------------------- MODULE MCStaffBooking ---------------------------
(* Small instances of StaffBooking: two staff members, two or three requests. *)
EXTENDS StaffBooking, TLC

CONSTANTS s1, s2, c1, c2

L(s, d) == [staff |-> s, dur |-> d]
Order(c, t, ls) == [customer |-> c, start |-> t, lines |-> ls]

MCShift == s1 :> [from |-> 0, to |-> 9] @@ s2 :> [from |-> 1, to |-> 9]

\* Two services with different staff in both orders (deadlocks), an automatic
\* choice, and a walk-in, all around the same hours.
MixedOrders ==
  {Order(c1, 1, <<L(s1, 1), L(s2, 1)>>),
   Order(c2, 1, <<L(s2, 2), L(s1, 1)>>),
   Order(Guest, 2, <<L(AnyStaff, 1)>>)}

\* The same customer asking for two staff members at the same hour.
CustomerOrders == {Order(c1, 2, <<L(s, 2)>>) : s \in {s1, s2}}

Symmetry == Permutations(Requests)
=============================================================================
