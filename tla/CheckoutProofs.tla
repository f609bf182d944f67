--------------------------- MODULE CheckoutProofs ---------------------------
(***************************************************************************)
(* Checkout for every set of requests, cart, promotion and limit: the      *)
(* coupon is never used more often than it may be, its counter equals its  *)
(* usages, switching it off takes effect on bookings under way, and the    *)
(* amounts stored with a customer's booking add up.                        *)
(*                                                                         *)
(* The argument is that of a lock: whoever is past CheckCoupon with a code *)
(* holds the coupon row, so what CheckCoupon has seen (CouponLock) is      *)
(* still true when the usage is committed.  The amounts are sums over the  *)
(* lines of a cart: they are proved about by induction over the lines, in  *)
(* the form of a least line that would break the claim.                    *)
(***************************************************************************)
EXTENDS Checkout, FiniteSetTheorems, WellFoundedInduction, TLAPS

Inv == TypeOK /\ CouponLock /\ CouponAccounts

\* Adding one usage to the committed ones adds one to their number.
LEMMA OneMoreUse ==
  ASSUME NEW S, NEW r, IsFiniteSet(S), r \notin S
  PROVE  /\ IsFiniteSet(S \cup {r})
         /\ Cardinality(S \cup {r}) = Cardinality(S) + 1
         /\ Cardinality(S) \in Nat
BY FS_AddElement, FS_CardinalityType

\* The usages of one customer are finitely many.
LEMMA UsedByFinite ==
  ASSUME NEW u, IsFiniteSet(usages)
  PROVE  IsFiniteSet(UsedBy(u)) /\ Cardinality(UsedBy(u)) \in Nat
<1>1. UsedBy(u) \subseteq usages
  BY DEF UsedBy
<1> QED
  BY <1>1, FS_Subset, FS_CardinalityType

LEMMA InitInv == Init => Inv
<1> SUFFICES ASSUME Init PROVE Inv
  OBVIOUS
<1>1. TypeOK
  <2>1. \A o \in Offers : {o} \subseteq Offers
    OBVIOUS
  <2> QED
    BY <2>1 DEF Init, TypeOK, Limits
<1>2. \A u : UsedBy(u) = {}
  BY DEF Init, UsedBy
<1>3. IsFiniteSet({}) /\ Cardinality({}) = 0
  BY FS_EmptySet
<1>4. CouponLock
  BY <1>3 DEF Init, CouponLock, LockedUse
<1>5. CouponAccounts
  <2>1. UsageLimit # NoLimit => UsageLimit \in Nat
    BY CheckoutInputs DEF Limits
  <2>2. PerUserLimit # NoLimit => PerUserLimit \in Nat
    BY CheckoutInputs DEF Limits
  <2> QED
    BY <1>2, <1>3, <2>1, <2>2 DEF Init, CouponAccounts
<1> QED
  BY <1>1, <1>4, <1>5 DEF Inv
-----------------------------------------------------------------------------
\* Type correctness is preserved by every step.
LEMMA TypeStep ==
  ASSUME TypeOK, [Next]_vars
  PROVE  TypeOK'
<1> USE DEF TypeOK, InTx, Goto
<1>1. ASSUME NEW r \in Requests, Request(r)
      PROVE  TypeOK'
  <2> USE DEF coupon, uses, Unlock
  <2>1. CASE ReadOffer(r)
    <3>1. offer' \in [Requests -> Offers \cup {NoOffer}]
      BY <2>1 DEF ReadOffer
    <3> QED
      BY <2>1, <3>1 DEF ReadOffer
  <2>2. CASE PriceItems(r)
    BY <2>2 DEF PriceItems
  <2>3. CASE LockCoupon(r)
    BY <2>3 DEF LockCoupon
  <2>4. CASE CheckCoupon(r)
    BY <2>4 DEF CheckCoupon, Refuse
  <2>5. CASE UseCoupon(r)
    BY <2>5 DEF UseCoupon
  <2>6. ASSUME NEW b, Insert(r, b)
        PROVE  TypeOK'
    BY <2>6 DEF Insert
  <2>7. CASE Abort(r)
    BY <2>7 DEF Abort
  <2> QED
    BY <1>1, <2>1, <2>2, <2>3, <2>4, <2>5, <2>6, <2>7
       DEF Request, InsertBooking, InsertWalkIn
<1>2. ASSUME Store
      PROVE  TypeOK'
  <2> USE DEF coupon, uses
  <2>1. CASE \E o \in Offers : StartOffer(o) \/ StopOffer(o) \/ DeleteOffer(o)
    BY <2>1 DEF StartOffer, StopOffer, DeleteOffer
  <2>2. CASE Expire
    BY <2>2 DEF Expire
  <2>3. CASE UpdateCoupon
    BY <2>3 DEF UpdateCoupon
  <2>4. ASSUME NEW m \in Managers, ReadCoupon(m) \/ RemoveCoupon(m)
        PROVE  TypeOK'
    BY <2>4 DEF ReadCoupon, RemoveCoupon, Limits
  <2> QED
    BY <1>2, <2>1, <2>2, <2>3, <2>4 DEF Store
<1>3. CASE UNCHANGED vars
  BY <1>3 DEF vars, coupon, uses
<1> QED
  BY <1>1, <1>2, <1>3 DEF Next

\* A step that commits no usage leaves the accounts alone unless it deletes the
\* coupon.
LEMMA AccountsKept ==
  ASSUME CouponAccounts, used' = used, usages' = usages, cart' = cart,
         usages # {} => (exists => exists')
  PROVE  CouponAccounts'
<1>1. \A u : UsedBy(u)' = UsedBy(u)
  BY DEF UsedBy
<1> QED
  BY <1>1 DEF CouponAccounts

\* A request that a step neither moves nor deprives of its lock keeps its part of
\* the lock invariant while the coupon and its usages stay as they are.
LEMMA LockKept ==
  ASSUME CouponLock, NEW q \in Requests,
         pc'[q] = pc[q], cart' = cart, used' = used, usages' = usages,
         exists' = exists, enabled' = enabled,
         holder = q => holder' = q
  PROVE  LockedUse(q)'
<1>1. UsedBy(cart[q].customer)' = UsedBy(cart[q].customer)
  BY DEF UsedBy
<1> QED
  BY <1>1 DEF CouponLock, LockedUse

\* Writers of the coupon row wait until nobody holds it: then only requests that
\* have checked nothing are under way.
LEMMA LockKeptFree ==
  ASSUME CouponLock, NEW q \in Requests, holder = Nobody, holder' = holder,
         pc' = pc, cart' = cart, used' = used, usages' = usages,
         exists' => exists
  PROVE  LockedUse(q)'
<1>1. q # Nobody
  BY CheckoutValues
<1> QED
  BY <1>1 DEF CouponLock, LockedUse

\* The commit of a booking with the code: its usage is new, and it was allowed.
LEMMA CommitCoded ==
  ASSUME Inv, NEW r \in Requests, NEW b, Insert(r, b), cart[r].coded
  PROVE  CouponLock' /\ CouponAccounts'
<1>1. /\ pc[r] = "insert" /\ pc' = [pc EXCEPT ![r] = "booked"]
      /\ used' = used + 1 /\ usages' = usages \cup {r} /\ r \notin usages
      /\ cart' = cart /\ exists' = exists /\ enabled' = enabled
      /\ holder = r /\ holder' = Nobody /\ exists
      /\ UsageLimit # NoLimit => used < UsageLimit
      /\ PerUserLimit # NoLimit => Cardinality(UsedBy(cart[r].customer)) < PerUserLimit
  BY DEF Inv, Insert, Goto, Unlock, coupon, CouponLock, LockedUse, TypeOK
<1>2. IsFiniteSet(usages') /\ Cardinality(usages') = Cardinality(usages) + 1
  BY <1>1, OneMoreUse DEF Inv, CouponLock
<1>3. CouponLock'
  <2> SUFFICES ASSUME NEW q \in Requests PROVE LockedUse(q)'
    BY <1>2 DEF CouponLock
  <2>1. CASE q = r
    BY <1>1, <2>1 DEF LockedUse, Inv, TypeOK
  <2>2. CASE q # r
    <3>1. pc'[q] = pc[q] /\ holder # q
      BY <1>1, <2>2 DEF Inv, TypeOK
    <3>2. q \in usages => pc[q] = "booked"
      BY DEF Inv, CouponLock, LockedUse
    <3>3. pc[q] \in {"lock", "check", "use"} => cart[q].coded
      BY DEF Inv, CouponLock, LockedUse
    <3>4. /\ pc[q] # "check" \/ ~exists
          /\ pc[q] # "use"
          /\ pc[q] = "insert" => ~cart[q].coded
      BY <3>1 DEF Inv, CouponLock, LockedUse
    <3> QED
      BY <1>1, <2>2, <3>1, <3>2, <3>3, <3>4 DEF LockedUse
  <2> QED
    BY <2>1, <2>2
<1>4. CouponAccounts'
  <2>1. used' = Cardinality(usages') /\ (usages' # {} => exists')
    BY <1>1, <1>2 DEF Inv, CouponAccounts
  <2>2. UsageLimit # NoLimit => used' <= UsageLimit
    BY <1>1, CheckoutInputs DEF Inv, TypeOK, Limits
  <2>3. ASSUME PerUserLimit # NoLimit, NEW u \in Customers
        PROVE  Cardinality(UsedBy(u)') <= PerUserLimit
    <3>0. PerUserLimit \in Nat /\ Cardinality(UsedBy(u)) <= PerUserLimit
      BY <2>3, CheckoutInputs DEF Inv, CouponAccounts, Limits
    <3>1. CASE cart[r].customer = u
      <4>1. UsedBy(u)' = UsedBy(u) \cup {r} /\ r \notin UsedBy(u)
        BY <1>1, <3>1 DEF UsedBy
      <4>2. IsFiniteSet(UsedBy(u)) /\ Cardinality(UsedBy(u)) \in Nat
        BY UsedByFinite DEF Inv, CouponLock
      <4>3. Cardinality(UsedBy(u)') = Cardinality(UsedBy(u)) + 1
        BY <4>1, <4>2, OneMoreUse
      <4>4. Cardinality(UsedBy(u)) < PerUserLimit
        BY <1>1, <2>3, <3>1
      <4> QED
        BY <3>0, <4>2, <4>3, <4>4
    <3>2. CASE cart[r].customer # u
      <4>1. UsedBy(u)' = UsedBy(u)
        BY <1>1, <3>2 DEF UsedBy
      <4> QED
        BY <3>0, <4>1
    <3> QED
      BY <3>1, <3>2
  <2> QED
    BY <2>1, <2>2, <2>3 DEF CouponAccounts
<1> QED
  BY <1>3, <1>4

\* Every step of a request keeps the lock and the accounts.
LEMMA RequestStep ==
  ASSUME Inv, NEW r \in Requests, Request(r)
  PROVE  CouponLock' /\ CouponAccounts'
<1> USE DEF coupon, uses
<1>0. CouponLock /\ CouponAccounts /\ TypeOK /\ LockedUse(r)
  BY DEF Inv, CouponLock
\* Steps that move r alone and leave the coupon and its usages as they are.
<1>1. ASSUME cart' = cart, used' = used, usages' = usages, exists' = exists,
             enabled' = enabled,
             \A q \in Requests : q # r => pc'[q] = pc[q] /\ (holder = q => holder' = q),
             LockedUse(r)'
      PROVE  CouponLock' /\ CouponAccounts'
  <2>1. \A q \in Requests : q # r => LockedUse(q)'
    BY <1>0, <1>1, LockKept
  <2>2. CouponLock'
    BY <1>0, <1>1, <2>1 DEF CouponLock
  <2>3. CouponAccounts'
    BY <1>0, <1>1, AccountsKept
  <2> QED
    BY <2>2, <2>3
<1>2. UsedBy(cart[r].customer)' = UsedBy(cart[r].customer)
      \/ cart' # cart \/ usages' # usages
  BY DEF UsedBy
<1>3. CASE ReadOffer(r)
  <2>1. LockedUse(r)'
    BY <1>0, <1>3 DEF ReadOffer, Goto, LockedUse, TypeOK
  <2> QED
    BY <1>0, <1>1, <1>3, <2>1 DEF ReadOffer, Goto, TypeOK
<1>4. CASE PriceItems(r)
  <2>1. LockedUse(r)'
    BY <1>0, <1>4 DEF PriceItems, Goto, LockedUse, TypeOK
  <2> QED
    BY <1>0, <1>1, <1>4, <2>1 DEF PriceItems, Goto, TypeOK
<1>5. CASE LockCoupon(r)
  <2>1. LockedUse(r)'
    BY <1>0, <1>5 DEF LockCoupon, Goto, LockedUse, TypeOK
  <2>2. \A q \in Requests : holder # q
    BY <1>5, CheckoutValues DEF LockCoupon
  <2> QED
    BY <1>0, <1>1, <1>5, <2>1, <2>2 DEF LockCoupon, Goto, TypeOK
<1>6. CASE CheckCoupon(r)
  <2>1. LockedUse(r)'
    BY <1>0, <1>2, <1>6 DEF CheckCoupon, Refuse, Unlock, Usable, Goto, LockedUse, TypeOK
  <2> QED
    BY <1>0, <1>1, <1>6, <2>1 DEF CheckCoupon, Refuse, Unlock, Goto, TypeOK
<1>7. CASE UseCoupon(r)
  <2>1. LockedUse(r)'
    BY <1>0, <1>2, <1>7 DEF UseCoupon, Goto, LockedUse, TypeOK
  <2>2. holder = r
    BY <1>0, <1>7 DEF UseCoupon, LockedUse
  <2> QED
    BY <1>0, <1>1, <1>7, <2>1, <2>2 DEF UseCoupon, Goto, TypeOK
<1>8. ASSUME NEW b, Insert(r, b)
      PROVE  CouponLock' /\ CouponAccounts'
  <2>1. CASE cart[r].coded
    BY <1>8, <2>1, CommitCoded
  <2>2. CASE ~cart[r].coded
    <3>1. LockedUse(r)'
      BY <1>0, <1>8, <2>2 DEF Insert, Unlock, Goto, LockedUse, TypeOK
    <3> QED
      BY <1>0, <1>1, <1>8, <2>2, <3>1 DEF Insert, Unlock, Goto, TypeOK
  <2> QED
    BY <2>1, <2>2
<1>9. CASE Abort(r)
  <2>1. LockedUse(r)'
    BY <1>0, <1>9 DEF Abort, Unlock, Goto, LockedUse, TypeOK, InTx
  <2> QED
    BY <1>0, <1>1, <1>9, <2>1 DEF Abort, Unlock, Goto, TypeOK
<1> QED
  BY <1>3, <1>4, <1>5, <1>6, <1>7, <1>8, <1>9 DEF Request, InsertBooking, InsertWalkIn

\* Every step of the store keeps the lock and the accounts.
LEMMA StoreStep ==
  ASSUME Inv, Store
  PROVE  CouponLock' /\ CouponAccounts'
<1> USE DEF coupon, uses
<1>0. CouponLock /\ CouponAccounts
  BY DEF Inv
<1>1. ASSUME pc' = pc, cart' = cart, used' = used, usages' = usages, holder' = holder,
             exists' = exists, enabled' = enabled
      PROVE  CouponLock' /\ CouponAccounts'
  <2>1. \A q \in Requests : LockedUse(q)'
    BY <1>0, <1>1, LockKept
  <2> QED
    BY <1>0, <1>1, <2>1, AccountsKept DEF CouponLock
<1>2. ASSUME pc' = pc, cart' = cart, used' = used, usages' = usages, holder' = holder,
             holder = Nobody, exists' => exists, usages # {} => exists' = exists
      PROVE  CouponLock' /\ CouponAccounts'
  <2>1. \A q \in Requests : LockedUse(q)'
    BY <1>0, <1>2, LockKeptFree
  <2> QED
    BY <1>0, <1>2, <2>1, AccountsKept DEF CouponLock
<1>3. CASE \E o \in Offers : StartOffer(o) \/ StopOffer(o) \/ DeleteOffer(o)
  BY <1>1, <1>3 DEF StartOffer, StopOffer, DeleteOffer
<1>4. CASE Expire
  BY <1>1, <1>4 DEF Expire
<1>5. CASE UpdateCoupon
  BY <1>2, <1>5 DEF UpdateCoupon
<1>6. ASSUME NEW m \in Managers, ReadCoupon(m)
      PROVE  CouponLock' /\ CouponAccounts'
  BY <1>1, <1>6 DEF ReadCoupon
<1>7. ASSUME NEW m \in Managers, RemoveCoupon(m)
      PROVE  CouponLock' /\ CouponAccounts'
  <2>1. exists' => exists
    BY <1>7 DEF RemoveCoupon
  <2>2. usages # {} => exists' = exists
    BY <1>0, <1>7 DEF RemoveCoupon, CouponAccounts
  <2> QED
    BY <1>2, <1>7, <2>1, <2>2 DEF RemoveCoupon
<1> QED
  BY <1>3, <1>4, <1>5, <1>6, <1>7 DEF Store

LEMMA InvStep == Inv /\ [Next]_vars => Inv'
<1> SUFFICES ASSUME Inv, [Next]_vars PROVE Inv'
  OBVIOUS
<1>1. TypeOK'
  BY TypeStep DEF Inv
<1>2. CouponLock' /\ CouponAccounts'
  <2>1. CASE \E r \in Requests : Request(r)
    BY <2>1, RequestStep
  <2>2. CASE Store
    BY <2>2, StoreStep
  <2>3. CASE UNCHANGED vars
    <3>1. \A q \in Requests : LockedUse(q)'
      BY <2>3, LockKept DEF vars, coupon, uses, Inv
    <3> QED
      BY <2>3, <3>1, AccountsKept DEF vars, coupon, uses, Inv, CouponLock
  <2> QED
    BY <2>1, <2>2, <2>3 DEF Next
<1> QED
  BY <1>1, <1>2 DEF Inv
-----------------------------------------------------------------------------
\* The module's variables keep their types: in particular usedCount never leaves the
\* natural numbers and a deleted promotion never runs.
THEOREM CheckoutTypes == Spec => []TypeOK
<1>1. Inv => TypeOK
  BY DEF Inv
<1> QED
  BY <1>1, InitInv, InvStep, PTL DEF Spec

\* usedCount equals the committed usages, a used coupon is not deleted, and neither
\* usageLimit nor perUserLimit is ever exceeded, for any number of bookings.
THEOREM CouponNeverOverused == Spec => []CouponAccounts
<1>1. Inv => CouponAccounts
  BY DEF Inv
<1> QED
  BY <1>1, InitInv, InvStep, PTL DEF Spec

\* No usage is committed after the coupon has been switched off or deleted, although
\* the booking checked it earlier.
THEOREM DisablingTakesEffect == Spec => NoUseOnceDisabled
<1>1. ASSUME Inv, [Next]_vars
      PROVE  [usages' # usages => exists /\ enabled]_vars
  <2> SUFFICES ASSUME Next, usages' # usages PROVE exists /\ enabled
    BY <1>1
  <2>1. ASSUME NEW r \in Requests, Request(r)
        PROVE  exists /\ enabled
    <3>1. PICK b : Insert(r, b)
      BY <2>1 DEF Request, ReadOffer, PriceItems, LockCoupon, CheckCoupon, Refuse, UseCoupon,
                  InsertBooking, InsertWalkIn, Abort, uses
    <3> QED
      BY <1>1, <3>1 DEF Insert, Inv, CouponLock, LockedUse
  <2>2. ~Store
    BY DEF Store, StartOffer, StopOffer, DeleteOffer, Expire, UpdateCoupon, ReadCoupon,
           RemoveCoupon, uses
  <2> QED
    BY <2>1, <2>2 DEF Next
<1> QED
  BY <1>1, InitInv, InvStep, PTL DEF Spec, NoUseOnceDisabled
-----------------------------------------------------------------------------
\* A set of naturals that is not empty has a least element.
LEMMA LeastNat ==
  ASSUME NEW S, S \subseteq Nat, S # {}
  PROVE  \E n \in S : \A m \in S : n <= m
<1>1. PICK x \in S : \A y \in S : ~ (<<y, x>> \in OpToRel(<, Nat))
  BY NatLessThanWellFounded, WFMin
<1>2. \A y \in S : ~(y < x)
  BY <1>1 DEF OpToRel
<1> QED
  BY <1>2

\* Induction, for a set in place of a predicate.
LEMMA Induction ==
  ASSUME NEW T, 0 \in T, \A n \in Nat : n \in T => n + 1 \in T
  PROVE  Nat \subseteq T
<1> DEFINE S == Nat \ T
<1> SUFFICES ASSUME S # {} PROVE FALSE
  OBVIOUS
<1>1. PICK n \in S : \A m \in S : n <= m
  BY LeastNat
<1>2. n # 0 /\ n - 1 \in Nat /\ n - 1 \notin S
  BY <1>1
<1> QED
  BY <1>2

\* The recursion that adds up a list has a solution, whatever is added up.
LEMMA SumExists ==
  ASSUME NEW a
  PROVE  \A n \in Nat : \E s : s = [i \in 0..n |-> IF i = 0 THEN 0 ELSE s[i - 1] + a[i]]
<1> DEFINE T == {n \in Nat : \E s : s = [i \in 0..n |-> IF i = 0 THEN 0 ELSE s[i - 1] + a[i]]}
<1>1. 0 \in T
  <2> DEFINE z == [i \in 0..0 |-> 0]
  <2>1. z = [i \in 0..0 |-> IF i = 0 THEN 0 ELSE z[i - 1] + a[i]]
    OBVIOUS
  <2> QED
    BY <2>1
<1>2. ASSUME NEW n \in Nat, n \in T PROVE n + 1 \in T
  <2>1. PICK s : s = [i \in 0..n |-> IF i = 0 THEN 0 ELSE s[i - 1] + a[i]]
    BY <1>2
  <2> DEFINE t == [i \in 0..(n + 1) |-> IF i = n + 1 THEN s[n] + a[n + 1] ELSE s[i]]
  <2>2. \A i \in 0..(n + 1) : t[i] = IF i = 0 THEN 0 ELSE t[i - 1] + a[i]
    <3> SUFFICES ASSUME NEW i \in 0..(n + 1) PROVE t[i] = IF i = 0 THEN 0 ELSE t[i - 1] + a[i]
      OBVIOUS
    <3>1. CASE i = n + 1
      BY <3>1
    <3>2. CASE i \in 0..n
      <4>1. s[i] = IF i = 0 THEN 0 ELSE s[i - 1] + a[i]
        BY <2>1, <3>2
      <4> QED
        BY <3>2, <4>1
    <3> QED
      BY <3>1, <3>2
  <2>3. t = [i \in 0..(n + 1) |-> IF i = 0 THEN 0 ELSE t[i - 1] + a[i]]
    BY <2>2
  <2> HIDE DEF t
  <2> QED
    BY <2>3
<1> HIDE DEF T
<1>3. Nat \subseteq T
  BY <1>1, <1>2, Induction
<1> QED
  BY <1>3 DEF T

\* s adds up the amounts a of n lines.
AddsLines(s, n, a) == s = [i \in 0..n |-> IF i = 0 THEN 0 ELSE s[i - 1] + a[i]]

\* The three sums of a bill, each as the last value of such a function.
LEMMA BillSums ==
  ASSUME NEW r \in Requests, Len(cart[r].lines) \in Nat
  PROVE  LET n == Len(cart[r].lines) IN
         \E g, s, t :
            /\ AddsLines(g, n, [i \in 0..n |-> cart[r].lines[i].price])
            /\ AddsLines(s, n, [i \in 0..n |-> Saving(offer[r], cart[r].lines[i])])
            /\ AddsLines(t, n, [i \in 0..n |-> cart[r].lines[i].price - Saving(offer[r], cart[r].lines[i])])
            /\ Gross(r) = g[n] /\ Savings(r) = s[n] /\ Total(r) = t[n]
<1> DEFINE n == Len(cart[r].lines)
           price(i) == cart[r].lines[i].price
           saving(i) == Saving(offer[r], cart[r].lines[i])
           G == CHOOSE sum : sum = [i \in 0..n |-> IF i = 0 THEN 0 ELSE sum[i - 1] + price(i)]
           S == CHOOSE sum : sum = [i \in 0..n |-> IF i = 0 THEN 0 ELSE sum[i - 1] + saving(i)]
           T == CHOOSE sum : sum = [i \in 0..n |-> IF i = 0 THEN 0 ELSE sum[i - 1] + (price(i) - saving(i))]
<1>1. AddsLines(G, n, [i \in 0..n |-> price(i)])
  <2> DEFINE a == [i \in 0..n |-> price(i)]
  <2>1. PICK s : s = [i \in 0..n |-> IF i = 0 THEN 0 ELSE s[i - 1] + a[i]]
    BY SumExists
  <2>2. s = [i \in 0..n |-> IF i = 0 THEN 0 ELSE s[i - 1] + price(i)]
    BY <2>1
  <2>3. G = [i \in 0..n |-> IF i = 0 THEN 0 ELSE G[i - 1] + price(i)]
    BY <2>2
  <2> HIDE DEF G
  <2> QED
    BY <2>3 DEF AddsLines
<1>2. AddsLines(S, n, [i \in 0..n |-> saving(i)])
  <2> DEFINE a == [i \in 0..n |-> saving(i)]
  <2>1. PICK s : s = [i \in 0..n |-> IF i = 0 THEN 0 ELSE s[i - 1] + a[i]]
    BY SumExists
  <2>2. s = [i \in 0..n |-> IF i = 0 THEN 0 ELSE s[i - 1] + saving(i)]
    BY <2>1
  <2>3. S = [i \in 0..n |-> IF i = 0 THEN 0 ELSE S[i - 1] + saving(i)]
    BY <2>2
  <2> HIDE DEF S
  <2> QED
    BY <2>3 DEF AddsLines
<1>3. AddsLines(T, n, [i \in 0..n |-> price(i) - saving(i)])
  <2> DEFINE a == [i \in 0..n |-> price(i) - saving(i)]
  <2>1. PICK s : s = [i \in 0..n |-> IF i = 0 THEN 0 ELSE s[i - 1] + a[i]]
    BY SumExists
  <2>2. s = [i \in 0..n |-> IF i = 0 THEN 0 ELSE s[i - 1] + (price(i) - saving(i))]
    BY <2>1
  <2>3. T = [i \in 0..n |-> IF i = 0 THEN 0 ELSE T[i - 1] + (price(i) - saving(i))]
    BY <2>2
  <2> HIDE DEF T
  <2> QED
    BY <2>3 DEF AddsLines
<1>4. Gross(r) = G[n] /\ Savings(r) = S[n] /\ Total(r) = T[n]
  BY DEF Gross, Savings, Total, Over
<1> HIDE DEF G, S, T
<1> QED
  BY <1>1, <1>2, <1>3, <1>4

\* A promotion takes between nothing and everything off a line.
LEMMA SavingBound ==
  ASSUME NEW o \in Offers \cup {NoOffer}, NEW l \in Lines
  PROVE  Saving(o, l) \in 0..l.price
<1>1. l.price \in Nat
  BY DEF Lines
<1>2. CASE o # NoOffer /\ o.type = "PERCENTAGE"
  <2>1. o \in Offers /\ o.value \in 1..100
    BY <1>2, CheckoutInputs
  <2>2. \A p \in Nat, v \in 1..100 : p * v \in Nat /\ p * v <= p * 100
    OBVIOUS
  <2>3. (l.price * o.value) \div 100 \in 0..l.price
    BY <1>1, <2>1, <2>2
  <2> QED
    BY <1>1, <1>2, <2>3 DEF Saving, Reduction
<1>3. CASE o # NoOffer /\ o.type # "PERCENTAGE"
  <2>1. o.value \in Nat
    BY <1>3, CheckoutInputs DEF OfferRows
  <2> QED
    BY <1>1, <1>3, <2>1 DEF Saving, Reduction, Smaller
<1>4. CASE o = NoOffer
  BY <1>1, <1>4 DEF Saving
<1> QED
  BY <1>2, <1>3, <1>4

\* The coupon takes between nothing and everything off a total.
LEMMA CouponBound ==
  ASSUME NEW total \in Nat
  PROVE  CouponDiscount(total) \in 0..total
<1>1. Terms.value \in Nat /\ Terms.maxDiscount \in Limits
  BY CheckoutInputs DEF CouponTerms
<1>2. CASE Terms.type = "PERCENTAGE"
  <2>1. Terms.value \in 1..100
    BY <1>2, CheckoutInputs
  <2>2. \A p \in Nat, v \in 1..100 : p * v \in Nat /\ p * v <= p * 100
    OBVIOUS
  <2>3. (total * Terms.value) \div 100 \in 0..total
    BY <2>1, <2>2
  <2> QED
    BY <1>1, <1>2, <2>3 DEF CouponDiscount, Smaller, Limits
<1>3. CASE Terms.type # "PERCENTAGE"
  BY <1>1, <1>3 DEF CouponDiscount, Smaller
<1> QED
  BY <1>2, <1>3

\* Line by line, what is charged and what is saved make up the catalogue price.
LEMMA TotalsAgree ==
  ASSUME NEW r \in Requests, cart[r] \in CartBodies, offer[r] \in Offers \cup {NoOffer}
  PROVE  /\ Gross(r) \in Nat /\ Savings(r) \in Nat /\ Total(r) \in Nat
         /\ Total(r) + Savings(r) = Gross(r)
<1> DEFINE n == Len(cart[r].lines)
           price(i) == cart[r].lines[i].price
           saving(i) == Saving(offer[r], cart[r].lines[i])
<1>1. n \in Nat /\ \A i \in 1..n : cart[r].lines[i] \in Lines
  BY DEF CartBodies
<1>2. \A i \in 1..n : price(i) \in Nat /\ saving(i) \in Nat /\ price(i) - saving(i) \in Nat
  <2> SUFFICES ASSUME NEW i \in 1..n
               PROVE  price(i) \in Nat /\ saving(i) \in Nat /\ price(i) - saving(i) \in Nat
    OBVIOUS
  <2>1. cart[r].lines[i] \in Lines
    BY <1>1
  <2>2. price(i) \in Nat
    BY <2>1 DEF Lines
  <2>3. saving(i) \in 0..price(i)
    BY <2>1, SavingBound
  <2> HIDE DEF price, saving
  <2> QED
    BY <2>2, <2>3
<1>3. PICK g, s, t :
         /\ AddsLines(g, n, [i \in 0..n |-> price(i)])
         /\ AddsLines(s, n, [i \in 0..n |-> saving(i)])
         /\ AddsLines(t, n, [i \in 0..n |-> price(i) - saving(i)])
         /\ Gross(r) = g[n] /\ Savings(r) = s[n] /\ Total(r) = t[n]
  BY <1>1, BillSums
<1> HIDE DEF n, price, saving
<1>4. g[0] = 0 /\ s[0] = 0 /\ t[0] = 0
  BY <1>1, <1>3 DEF AddsLines
<1>5. \A i \in 1..n : /\ g[i] = g[i - 1] + price(i)
                      /\ s[i] = s[i - 1] + saving(i)
                      /\ t[i] = t[i - 1] + (price(i) - saving(i))
  BY <1>1, <1>3 DEF AddsLines
<1> DEFINE Q == {k \in Nat : k <= n => /\ g[k] \in Nat /\ s[k] \in Nat /\ t[k] \in Nat
                                      /\ t[k] + s[k] = g[k]}
<1>6. 0 \in Q
  BY <1>4
<1>7. ASSUME NEW k \in Nat, k \in Q PROVE k + 1 \in Q
  <2> SUFFICES ASSUME k + 1 <= n PROVE k + 1 \in Q
    OBVIOUS
  <2>1. k + 1 \in 1..n /\ (k + 1) - 1 = k
    BY <1>1
  <2>2. /\ g[k] \in Nat /\ s[k] \in Nat /\ t[k] \in Nat /\ t[k] + s[k] = g[k]
    BY <1>1, <1>7
  <2> QED
    BY <1>2, <1>5, <2>1, <2>2
<1>8. Nat \subseteq Q
  <2> HIDE DEF Q
  <2> QED
    BY <1>6, <1>7, Induction
<1> QED
  BY <1>1, <1>3, <1>8

\* What create() stores: nothing is lost, and nothing negative is left to pay.
LEMMA CustomerBillSums ==
  ASSUME NEW r \in Requests, cart[r] \in CartBodies, offer[r] \in Offers \cup {NoOffer}
  PROVE  /\ CustomerBill(r).final >= 0
         /\ CustomerBill(r).final + CustomerBill(r).discount + CustomerBill(r).saving = Gross(r)
<1>1. CouponDiscount(Total(r)) \in 0..Total(r)
  BY TotalsAgree, CouponBound
<1> QED
  BY <1>1, TotalsAgree DEF CustomerBill

\* A booking's bill was made of what its request had read, which nothing changes
\* afterwards.
BillsKept ==
  \A r \in Requests : Booked(r) /\ cart[r].customer # Guest => pc[r] = "booked" /\ AddsUp(r)

LEMMA BillsStep == TypeOK /\ BillsKept /\ [Next]_vars => BillsKept'
<1> SUFFICES ASSUME TypeOK, BillsKept, [Next]_vars PROVE BillsKept'
  OBVIOUS
<1>1. cart' = cart
  BY DEF Next, Request, ReadOffer, PriceItems, LockCoupon, CheckCoupon, Refuse, UseCoupon,
         InsertBooking, InsertWalkIn, Insert, Abort, Store, StartOffer, StopOffer, DeleteOffer,
         Expire, UpdateCoupon, ReadCoupon, RemoveCoupon, vars
<1>2. \A r \in Requests : Gross(r)' = Gross(r)
  BY <1>1 DEF Gross, Over
<1>3. ASSUME NEW r \in Requests, bill'[r] = bill[r], pc[r] = "booked" => pc'[r] = "booked",
             Booked(r)', cart'[r].customer # Guest
      PROVE  pc'[r] = "booked" /\ AddsUp(r)'
  <2>1. pc[r] = "booked" /\ AddsUp(r)
    BY <1>1, <1>3 DEF BillsKept, Booked
  <2> QED
    BY <1>2, <1>3, <2>1 DEF AddsUp
<1>4. ASSUME NEW q \in Requests, Request(q) PROVE BillsKept'
  <2>1. CASE ~(InsertBooking(q) \/ InsertWalkIn(q))
    <3>1. bill' = bill /\ pc[q] # "booked" /\ \A r \in Requests \ {q} : pc'[r] = pc[r]
      BY <1>4, <2>1 DEF Request, ReadOffer, PriceItems, LockCoupon, CheckCoupon, Refuse, UseCoupon,
                        Abort, Goto, TypeOK, InTx
    <3> QED
      BY <1>3, <3>1 DEF BillsKept
  <2>2. ASSUME NEW b, Insert(q, b), cart[q].customer # Guest => b = CustomerBill(q) PROVE BillsKept'
    <3>1. /\ bill' = [bill EXCEPT ![q] = b] /\ pc' = [pc EXCEPT ![q] = "booked"]
          /\ bill'[q] = b /\ pc'[q] = "booked"
          /\ \A r \in Requests \ {q} : bill'[r] = bill[r] /\ pc'[r] = pc[r]
      BY <2>2 DEF Insert, Goto, TypeOK
    <3>2. cart[q].customer # Guest => AddsUp(q)'
      <4>1. cart[q] \in CartBodies /\ offer[q] \in Offers \cup {NoOffer}
        BY CheckoutInputs DEF TypeOK
      <4> QED
        BY <1>2, <2>2, <3>1, <4>1, CustomerBillSums DEF AddsUp
    <3> QED
      BY <1>1, <1>3, <3>1, <3>2 DEF BillsKept
  <2> QED
    BY <1>4, <2>1, <2>2 DEF InsertBooking, InsertWalkIn
<1>5. CASE Store \/ UNCHANGED vars
  <2>1. bill' = bill /\ pc' = pc
    BY <1>5 DEF Store, StartOffer, StopOffer, DeleteOffer, Expire, UpdateCoupon, ReadCoupon,
                RemoveCoupon, vars
  <2> QED
    BY <1>3, <2>1 DEF BillsKept
<1> QED
  BY <1>4, <1>5 DEF Next

\* The amounts of a customer's booking account for the catalogue price of every line,
\* with the promotion and the coupon taken off once each, and leave nothing negative
\* to pay: for carts of any length, any prices, percentages and fixed discounts.
THEOREM CustomersPayWhatIsDue == Spec => []CustomerBillsAddUp
<1>1. Init => BillsKept
  BY DEF Init, BillsKept, Booked
<1>2. BillsKept => CustomerBillsAddUp
  BY DEF BillsKept, CustomerBillsAddUp
<1> QED
  BY <1>1, <1>2, InitInv, InvStep, BillsStep, PTL DEF Spec, Inv
=============================================================================
