------------------------------ MODULE MCNotices ------------------------------
(* One event, told to two accounts with a device each. *)
EXTENDS Notices, TLC

CONSTANTS j1, anOwner, aCustomer, d1, d2, s1, s2

Parts    == {j1} \X (1..3)
Accounts == [p \in {"owner", "customer"} |-> IF p = "owner" THEN anOwner ELSE aCustomer]
Alike == Permutations({d1, d2}) \cup Permutations({s1, s2})
=============================================================================
