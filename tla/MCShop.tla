-------------------------------- MODULE MCShop --------------------------------
(* Five components of a shop that share no state.  Each behaviour is of one of  *)
(* them, and the others stand still.                                          *)
EXTENDS StoreApproval, Catalogue, Promotions, Reviews, Search, TLC

CONSTANTS r1, r2, p1, p2, i1, i2, clerk, shopAverage

\* Search
Row(l, n, f, ps, r, a, b, d) ==
  [live |-> l, named |-> n, filed |-> f, prices |-> ps, rating |-> r, age |-> a, booked |-> b, distance |-> d]
SomeRows == {Row(TRUE, TRUE, TRUE, {1}, 4, 1, 0, 1), Row(TRUE, TRUE, TRUE, {1, 3}, 4, 2, 2, 2),
             Row(TRUE, FALSE, TRUE, {2}, 5, 3, 2, 0), Row(TRUE, TRUE, FALSE, {}, 3, 4, 1, 3),
             Row(FALSE, TRUE, TRUE, {2}, 5, 5, 3, 4)}
Question(l, s, q, c, r) == [list |-> l, sort |-> s, q |-> q, category |-> c, range |-> r]
SomeQuestions ==
  {Question("explore", s, q, c, r) : s \in {"avgRating", "newest", "price", "popular"},
                                     q \in BOOLEAN, c \in BOOLEAN, r \in {<<1, 3>>, <<2, 3>>}}
  \cup {Question("shelf", s, q, c, <<1, 3>>) : s \in {"newest", "price-desc", "popular"},
                                              q \in BOOLEAN, c \in BOOLEAN}
  \cup {Question("stores", s, q, c, <<1, 3>>) : s \in {"avgRating", "newest", "distance"},
                                               q \in BOOLEAN, c \in BOOLEAN}
PlainRow      == CHOOSE r \in SomeRows : r.live /\ r.prices # {}
PlainQuestion == CHOOSE q \in SomeQuestions : ~q.q /\ ~q.category

VARIABLE part
vars == <<storeVars, catVars, promoVars, revVars, searchVars, part>>

Parts == {"store", "catalogue", "promotions", "reviews", "search"}

Init == /\ part \in Parts
        /\ StoreInit /\ CatInit /\ PromoInit /\ RevInit
        /\ SearchInit
        /\ part # "search" => /\ rows = [i \in Found |-> PlainRow]
                              /\ question = PlainQuestion
Next == /\ \/ part = "store" /\ StoreNext /\ UNCHANGED <<catVars, promoVars, revVars, searchVars>>
           \/ part = "catalogue" /\ CatNext /\ UNCHANGED <<storeVars, promoVars, revVars, searchVars>>
           \/ part = "promotions" /\ PromoNext /\ UNCHANGED <<storeVars, catVars, revVars, searchVars>>
           \/ part = "reviews" /\ RevNext /\ UNCHANGED <<storeVars, catVars, promoVars, searchVars>>
           \/ part = "search" /\ SearchNext /\ UNCHANGED <<storeVars, catVars, promoVars, revVars>>
        /\ UNCHANGED part
Spec == Init /\ [][Next]_vars

\* Catalogue
SomeNames == {"spa", "Spa", "nails"}
SomeFold  == [n \in SomeNames |-> IF n = "nails" THEN n ELSE "spa"]
Change(n, s, p, v) == [name |-> n, status |-> s, pictures |-> p, variants |-> v]
SomeChanges == {Change("nails", "none", "list", "none"),
                Change("none", "INACTIVE", "list", "inactive"),
                Change("none", "ACTIVE", "none", "listed"),
                Change("none", "DELETED", "none", "active")}

\* Promotions
SomePrices == [v \in {"cut", "dye"} |-> IF v = "cut" THEN 30 ELSE 60]
SomeScopes == {{"dye"}}

\* Reviews
OneClerk == [i \in {i1, i2} |-> clerk]

Alike == Permutations({r1, r2}) \cup Permutations({p1, p2}) \cup Permutations({i1, i2})
=============================================================================
