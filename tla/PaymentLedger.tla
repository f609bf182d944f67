--------------------------- MODULE PaymentLedger ---------------------------
(***************************************************************************)
(* What the payments table promises about one booking, whoever writes to   *)
(* it: a row is opened once, settles at most once and only while it is     *)
(* PENDING, is answered to the bank at most once, and money that has come  *)
(* in leaves only through a refund of everything.                          *)
(***************************************************************************)
EXTENDS Naturals

CONSTANT Rows

VARIABLES state,    \* state[p]: "none" before the row exists, then PaymentStatus
          answers   \* answers[p]: transfers acknowledged as confirming row p

ledger == <<state, answers>>

Init ==
  /\ state = [p \in Rows |-> "none"]
  /\ answers = [p \in Rows |-> 0]

\* A QR code is handed out, or cash is taken.
Open(p) ==
  /\ state[p] = "none"
  /\ \E s \in {"PENDING", "PAID"} : state' = [state EXCEPT ![p] = s]
  /\ UNCHANGED answers

Settle(p) ==
  /\ state[p] = "PENDING"
  /\ state' = [state EXCEPT ![p] = "PAID"]
  /\ answers' = [answers EXCEPT ![p] = @ + 1]

\* Rows replaced by a newer one, or paid short.
Fail(S) ==
  /\ \A p \in S : state[p] = "PENDING"
  /\ state' = [p \in Rows |-> IF p \in S THEN "FAILED" ELSE state[p]]
  /\ UNCHANGED answers

Refund ==
  /\ state' = [p \in Rows |-> IF state[p] = "PAID" THEN "REFUNDED" ELSE state[p]]
  /\ UNCHANGED answers

Next == \/ \E p \in Rows : Open(p) \/ Settle(p)
        \/ \E S \in SUBSET Rows : Fail(S)
        \/ Refund

Spec == Init /\ [][Next]_ledger
=============================================================================
