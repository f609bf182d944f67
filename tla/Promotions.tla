----------------------------- MODULE Promotions -----------------------------
(***************************************************************************)
(* The promotions of one store, promotions.service.ts: at most one is meant  *)
(* to run at a time.  The check and the write are separate statements, an     *)
(* update checks only when it switches a promotion on, and what is checked    *)
(* (strict comparisons) is not what is read (inclusive ones).                *)
(***************************************************************************)
EXTENDS Integers, FiniteSets

CONSTANTS Promos,      \* rows there may ever be
          Times,       \* 1..n
          Price,       \* Price[v]: the price of variant v, all of the store's active ones
          Scopes,      \* sets of variants a promotion may be for
          Values,      \* of a discount, in money or percent
          PromoReqs    \* requests under way at a time

ASSUME PromotionConstants ==
  /\ Times \subseteq Nat /\ Values \subseteq Nat
  /\ Price \in [DOMAIN Price -> Nat] /\ Scopes \subseteq SUBSET DOMAIN Price

Forever == 9999
NoPromo == [row |-> "none"]
NoPromoReq == [op |-> "none"]

VARIABLES promo,        \* promo[p]: NoPromo, or start, end, active, type, value, scope
          promoReq,     \* promoReq[h]: the request h after its checks
          overtaken,    \* ghost: two requests overlapped
          stretched     \* ghost: stretched[p]: an update has moved the end of p unchecked

promoVars == <<promo, promoReq, overtaken, stretched>>

PromoInit ==
  /\ promo = [p \in Promos |-> NoPromo]
  /\ promoReq = [h \in PromoReqs |-> NoPromoReq]
  /\ overtaken = FALSE
  /\ stretched = [p \in Promos |-> FALSE]

Stored == {p \in Promos : promo[p] # NoPromo}

-----------------------------------------------------------------------------
\* findActiveForStore, of which the one with the highest value is taken.
RunningAt(t) == {p \in Stored : promo[p].active /\ promo[p].start <= t /\ promo[p].end >= t}

\* calcDiscount on a variant in scope.
Saving(p, v) ==
  IF v \notin promo[p].scope THEN 0
  ELSE IF promo[p].type = "PERCENTAGE" THEN (Price[v] * promo[p].value) \div 100
       ELSE IF promo[p].value <= Price[v] THEN promo[p].value ELSE Price[v]

\* Mutant: a promotion that spans the new one is not seen.
NoneStartsWithin(start, end, excluded) ==
  \A p \in Stored \ excluded :
     promo[p].active => ~(promo[p].start >= start /\ promo[p].start < end)

AssertNoOverlappingActive(start, end, excluded) ==
  \A p \in Stored \ excluded :
     promo[p].active => ~(promo[p].start < end /\ promo[p].end > start)

AssertFixedValueBelowMinPrice(value, scope) == \A v \in scope : value < Price[v]

-----------------------------------------------------------------------------
Enters(h, r) ==
  /\ promoReq[h] = NoPromoReq
  /\ promoReq' = [promoReq EXCEPT ![h] = r]
  /\ overtaken' = (overtaken \/ \E g \in PromoReqs : promoReq[g] # NoPromoReq)
  /\ UNCHANGED <<promo, stretched>>

Leaves(h) == promoReq' = [promoReq EXCEPT ![h] = NoPromoReq]

CheckCreate(h) ==
  \E start \in Times, end \in Times \cup {Forever}, type \in {"FIXED", "PERCENTAGE"},
     value \in Values, scope \in Scopes :
     /\ end > start
     /\ type = "PERCENTAGE" => value \in 1..100
     /\ type = "FIXED" => AssertFixedValueBelowMinPrice(value, scope)
     /\ AssertNoOverlappingActive(start, end, {})
     /\ Enters(h, [op |-> "create", row |-> [start |-> start, end |-> end, active |-> TRUE,
                                             type |-> type, value |-> value, scope |-> scope]])

InsertPromotion(h) ==
  /\ promoReq[h].op = "create"
  /\ \E p \in Promos : promo[p] = NoPromo /\ promo' = [promo EXCEPT ![p] = promoReq[h].row]
                       /\ stretched' = [stretched EXCEPT ![p] = FALSE]
  /\ Leaves(h)
  /\ UNCHANGED overtaken

\* A body may leave the end (0) or the switch ("same") as they are; a promotion that is on
\* is not checked against the others whatever becomes of its end.
CheckUpdate(h) ==
  \E p \in Stored, end \in Times \cup {Forever, 0}, switch \in {"on", "off", "same"} :
     /\ end \in Times => end > promo[p].start
     /\ switch = "on" /\ ~promo[p].active =>
          AssertNoOverlappingActive(promo[p].start, IF end = 0 THEN promo[p].end ELSE end, {p})
     /\ Enters(h, [op |-> "update", p |-> p, end |-> end, switch |-> switch,
                   checked |-> switch = "on" /\ ~promo[p].active])

WriteUpdate(h) ==
  /\ promoReq[h].op = "update"
  /\ LET r == promoReq[h] IN
     IF r.p \notin Stored THEN UNCHANGED <<promo, stretched>>        \* removed meanwhile
     ELSE LET active == IF r.switch = "same" THEN promo[r.p].active ELSE r.switch = "on"
          IN /\ promo' = [promo EXCEPT ![r.p].end = IF r.end = 0 THEN @ ELSE r.end,
                                       ![r.p].active = active]
             /\ stretched' = [stretched EXCEPT ![r.p] =
                                active /\ ~r.checked /\ (@ \/ r.end # 0)]
  /\ Leaves(h)
  /\ UNCHANGED overtaken

FindToRemove(h) == \E p \in Stored : Enters(h, [op |-> "remove", p |-> p])

DeletePromotion(h) ==
  /\ promoReq[h].op = "remove"
  /\ promo' = [promo EXCEPT ![promoReq[h].p] = NoPromo]
  /\ Leaves(h)
  /\ UNCHANGED <<overtaken, stretched>>

PromoNext ==
  \E h \in PromoReqs :
     \/ CheckCreate(h) \/ InsertPromotion(h)
     \/ CheckUpdate(h) \/ WriteUpdate(h)
     \/ FindToRemove(h) \/ DeletePromotion(h)

-----------------------------------------------------------------------------
\* A customer is never offered the choice between two promotions, but for the instant one
\* ends and the next begins, unless requests overtook one another or the end of a running
\* promotion was moved, which is not checked; and no promotion takes off more than the
\* price.
OnePromotionRuns ==
  \A t \in Times : \A p, q \in RunningAt(t) :
     /\ \/ p = q \/ overtaken \/ stretched[p] \/ stretched[q]
        \/ promo[p].end = t /\ promo[q].start = t
        \/ promo[q].end = t /\ promo[p].start = t
     /\ \A v \in DOMAIN Price : Saving(p, v) \in 0..Price[v]
=============================================================================
