------------------------------- MODULE MCPeople -------------------------------
EXTENDS Membership, Sessions, Slots, TLC

CONSTANTS Parts, boss, ann, spa, salon, manage, c1, r1, r2, i1, i2, oldPw, newPw, m1, m2

VARIABLE part
vars == <<memVars, permVars, authVars, rosterVars, bookedItems, part>>

Init == /\ part \in Parts
        /\ MemInit
        /\ AuthInit
        /\ SlotInit
        /\ part # "sessions" => account = NoAccount
        /\ part # "members" => staff[<<ann, spa>>] = None
Next == /\ \/ part = "members" /\ MemNext /\ UNCHANGED <<authVars, rosterVars, bookedItems>>
           \/ part = "sessions" /\ AuthNext /\ UNCHANGED <<memVars, permVars, rosterVars, bookedItems>>
           \/ part = "roster" /\ SlotNext /\ UNCHANGED <<memVars, permVars, authVars>>
        /\ UNCHANGED part
Spec == Init /\ [][Next]_vars

SomeRoles    == {Owner, Member, SuperAdmin, "STYLIST"}
SomeHomes    == [r \in SomeRoles |-> IF r = "STYLIST" THEN spa ELSE System]
SomeRoutes   == {<<ann, spa>>}
SomeRewrites == {{}, {<<"STYLIST", spa>>}}
Svc(m, d) == [staff |-> m, dur |-> d]
SomeOrders == {<<Svc("any", 2)>>, <<Svc("any", 1), Svc("any", 1)>>, <<Svc(m1, 1), Svc("any", 1)>>}
SomeShifts   == {<<1, 4>>}
SomeAbsences == {<<>>, <<1, 2>>, <<2, 2>>}
SomeHours    == {<<NoTime, NoTime>>, <<0, 2>>, <<NoTime, 2>>}
Item(m, c, t, d) == [staff |-> m, customer |-> c, from |-> t, dur |-> d]
SomeItems    == {Item(m1, boss, 1, 1), Item(m1, ann, 0, 2), Item(m2, ann, 2, 1)}
Alike        == Permutations({r1, r2}) \cup Permutations({i1, i2})
=============================================================================
