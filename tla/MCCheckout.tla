----------------------------- MODULE MCCheckout -----------------------------
(* Three bookings for one coupon that may be used twice, and once by each of     *)
(* three customers, so that either limit can be the one that refuses; and two    *)
(* promotions: 60 percent on everything, and 30 off one service.                 *)
EXTENDS Checkout, TLC

CONSTANTS cut, massage

Cart(c, ls, coded) == [customer |-> c, lines |-> ls, coded |-> coded]
Cut     == [service |-> cut, price |-> 50]
Massage == [service |-> massage, price |-> 100]

MCCarts == {Cart(c, <<Massage>>, TRUE) : c \in Customers}
           \cup {Cart(Guest, <<Cut, Massage>>, FALSE)}

BigSale  == [type |-> "PERCENTAGE", value |-> 60, services |-> {cut, massage}]
CutSale  == [type |-> "FIXED", value |-> 30, services |-> {cut}]
OneOffer == {BigSale}
MCOffers == {BigSale, CutSale}

FixedTerms == [type |-> "FIXED", value |-> 45, minAmount |-> 40, maxDiscount |-> NoLimit]

Interchangeable == Permutations(Requests) \cup Permutations(Customers)
=============================================================================
