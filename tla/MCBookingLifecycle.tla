------------------------- MODULE MCBookingLifecycle -------------------------
(***************************************************************************)
(* Small instances of BookingLifecycle: two requests at a time, one or two *)
(* ticks, two or three payment rows, a deposit below the price or equal to *)
(* it (depositPercent = 100).                                              *)
(***************************************************************************)
EXTENDS BookingLifecycle, FiniteSetsExt, TLC

CONSTANTS c1, c2, t1, p1, p2, p3

AllServices == Operations
\* Customers' bookings and their bank transfers only.
BankTransfers == {"confirm", "pay", "webhook"}
Interchangeable == Permutations(Calls) \cup Permutations(Rows)

\* "Booking nay da duoc thanh toan day du": what the booking has received and not
\* given back never exceeds its price.
NotOvercharged == MapThenSumSet(LAMBDA p : rows[p].amount, PaidRows) <= Total
=============================================================================
