------------------------------ MODULE ShopProofs ------------------------------
(* Theorems about the parts of a shop: the decisions of the administrators      *)
(* (StoreApproval), promotions, reviews, the catalogue and the paged lists.     *)
(* They share no state; each has a specification of its own here, for any       *)
(* requests, rows and bounds.                                                  *)
EXTENDS StoreApproval, Promotions, Reviews, Catalogue, Search, FiniteSetTheorems, NaturalsInduction,
        WellFoundedInduction, TLAPS

-----------------------------------------------------------------------------
(* One store between its owner and the administrators.  What makes the property *)
(* inductive is the lock: an unlocked store is in business again, so a locked    *)
(* one has to keep the papers that were approved.                              *)

StoreSpec == StoreInit /\ [][StoreNext]_storeVars

StoreRows == [status : StoreStatuses, papers : Int, deposit : BOOLEAN]

StoreTypes ==
  /\ shop \in StoreRows
  /\ payConfig \in BOOLEAN /\ locked \in BOOLEAN /\ outdated \in BOOLEAN
  /\ storeReq \in [StoreReqs -> {NoStoreReq} \cup
                     [op : OwnerOps \cup AdminOps, phase : {"config", "write", "tell"}, seen : StoreRows]]

\* A request was let in on the grounds it remembers.
SeenAllows(r) ==
  /\ r.op \in OwnerOps => r.seen.status # "BANNED"
  /\ r.op \in {"approve", "reject"} => r.seen.status \in {"PENDING", "INACTIVE"}
  /\ r.op = "lock" => r.seen.status = "ACTIVE"
  /\ r.op = "unlock" => r.seen.status = "BANNED"

Decided ==
  ~outdated => /\ shop.status \in {"ACTIVE", "BANNED"} => shop.papers = vouched
               /\ locked <=> shop.status = "BANNED"
               /\ shop.deposit => payConfig

StoreInv ==
  /\ StoreTypes /\ Decided
  /\ \A h \in StoreReqs : storeReq[h] # NoStoreReq => SeenAllows(storeReq[h])

\* A request that ends, or goes on to its next phase, remembers what it has seen.
LEMMA RequestMoves ==
  ASSUME StoreInv, NEW h \in StoreReqs, storeReq[h] # NoStoreReq,
         Done(h) \/ Turns(h, "write") \/ Turns(h, "tell")
  PROVE  /\ storeReq' \in [StoreReqs -> {NoStoreReq} \cup
                     [op : OwnerOps \cup AdminOps, phase : {"config", "write", "tell"}, seen : StoreRows]]
         /\ \A g \in StoreReqs : storeReq'[g] # NoStoreReq => SeenAllows(storeReq'[g])
<1>1. CASE Done(h)
  BY <1>1 DEF StoreInv, StoreTypes, Done
<1>2. ASSUME NEW p \in {"write", "tell"}, Turns(h, p)
      PROVE  /\ storeReq' \in [StoreReqs -> {NoStoreReq} \cup
                     [op : OwnerOps \cup AdminOps, phase : {"config", "write", "tell"}, seen : StoreRows]]
             /\ \A g \in StoreReqs : storeReq'[g] # NoStoreReq => SeenAllows(storeReq'[g])
  <2>1. storeReq[h] \in [op : OwnerOps \cup AdminOps, phase : {"config", "write", "tell"}, seen : StoreRows]
    BY DEF StoreInv, StoreTypes
  <2>2. storeReq' = [storeReq EXCEPT ![h].phase = p]
    BY <1>2 DEF Turns
  <2>3. /\ storeReq'[h] \in [op : OwnerOps \cup AdminOps, phase : {"config", "write", "tell"}, seen : StoreRows]
        /\ storeReq'[h].op = storeReq[h].op /\ storeReq'[h].seen = storeReq[h].seen
        /\ \A g \in StoreReqs \ {h} : storeReq'[g] = storeReq[g]
    BY <2>1, <2>2 DEF StoreInv, StoreTypes
  <2>4. SeenAllows(storeReq'[h])
    BY <2>3 DEF StoreInv, SeenAllows
  <2> QED BY <2>2, <2>3, <2>4 DEF StoreInv, StoreTypes
<1> QED BY <1>1, <1>2

\* A request that begins (checkOwnership, the guards of admin-stores.service.ts).
LEMMA BeginKeepsStore ==
  ASSUME StoreInv, NEW h \in StoreReqs, OwnerCalls(h) \/ AdminCalls(h) PROVE StoreInv'
<1>1. PICK op \in OwnerOps \cup AdminOps, phase \in {"config", "write"} :
        /\ Begin(h, op, phase)
        /\ op \in OwnerOps => CheckOwnership
        /\ op \in AdminOps => MayDecide(op)
  BY DEF OwnerCalls, AdminCalls, OwnerOps, AdminOps
<1> DEFINE r == [op |-> op, phase |-> phase, seen |-> shop]
<1>2. SeenAllows(r)
  BY <1>1 DEF SeenAllows, MayDecide, CheckOwnership, OwnerOps, AdminOps
<1>3. /\ storeReq' = [storeReq EXCEPT ![h] = r]
      /\ UNCHANGED <<shop, payConfig, told, vouched, locked, outdated>>
  BY <1>1 DEF Begin
<1>4. StoreTypes'
  BY <1>1, <1>3 DEF StoreInv, StoreTypes
<1>5. \A g \in StoreReqs : storeReq'[g] # NoStoreReq => SeenAllows(storeReq'[g])
  BY <1>2, <1>3 DEF StoreInv, StoreTypes
<1> QED BY <1>3, <1>4, <1>5 DEF StoreInv, Decided

\* What the owner writes (stores.service.ts).
LEMMA OwnerKeepsStore ==
  ASSUME StoreInv, NEW h \in StoreReqs,
         \/ ReadConfig(h) \/ GiveUp(h) \/ WritePapers(h) \/ WriteFields(h)
         \/ UpsertPaymentConfig(h) \/ DeletePaymentConfig(h)
  PROVE  StoreInv'
<1> USE DEF At
<1>1. storeReq[h] # NoStoreReq /\ (Done(h) \/ Turns(h, "write") \/ Turns(h, "tell"))
  BY DEF ReadConfig, GiveUp, WritePapers, WriteFields, UpsertPaymentConfig, DeletePaymentConfig
<1>2. /\ storeReq[h].op \in OwnerOps \cup AdminOps /\ storeReq[h].seen \in StoreRows
      /\ SeenAllows(storeReq[h])
  BY <1>1 DEF StoreInv, StoreTypes
<1>3. /\ shop \in StoreRows /\ shop' \in StoreRows
      /\ payConfig' \in BOOLEAN /\ locked' \in BOOLEAN /\ outdated' \in BOOLEAN
  <2>1. /\ shop \in StoreRows /\ payConfig \in BOOLEAN /\ locked \in BOOLEAN /\ outdated \in BOOLEAN
    BY DEF StoreInv, StoreTypes
  <2>2. ReverificationData(storeReq[h].seen) \in StoreStatuses
    BY <2>1 DEF ReverificationData, StoreRows, StoreStatuses
  <2>3. CASE ReadConfig(h) \/ GiveUp(h) \/ UpsertPaymentConfig(h)
    BY <2>1, <2>3 DEF ReadConfig, GiveUp, UpsertPaymentConfig
  <2>4. CASE WritePapers(h)
    <3>1. PICK st \in StoreStatuses : shop' = [shop EXCEPT !.papers = @ + 1, !.status = st]
      BY <2>2, <2>4 DEF WritePapers
    <3>2. [shop EXCEPT !.papers = @ + 1] \in StoreRows
      BY <2>1 DEF StoreRows
    <3>3. shop' = [[shop EXCEPT !.papers = @ + 1] EXCEPT !.status = st]
      BY <3>1
    <3>4. \A z \in StoreRows : [z EXCEPT !.status = st] \in StoreRows
      BY <3>1 DEF StoreRows
    <3>5. shop' \in StoreRows
      BY <3>2, <3>3, <3>4
    <3> QED BY <3>5, <2>1, <2>4 DEF WritePapers
  <2>5. CASE WriteFields(h)
    <3>1. shop' \in StoreRows
      BY <2>1, <2>5 DEF WriteFields, StoreRows
    <3> QED BY <3>1, <2>1, <2>5 DEF WriteFields
  <2>6. CASE DeletePaymentConfig(h)
    BY <2>1, <2>6 DEF DeletePaymentConfig, StoreRows
  <2> QED BY <2>3, <2>4, <2>5, <2>6
<1>4. Decided'
  <2>1. CASE ReadConfig(h) \/ GiveUp(h)
    BY <2>1 DEF ReadConfig, GiveUp, StoreInv, Decided
  <2>2. CASE WritePapers(h)
    BY <1>2, <2>2 DEF WritePapers, StoreInv, Decided, SeenAllows, StoreTypes, StoreRows,
       ReverificationData, OwnerOps, StoreStatuses
  <2>3. CASE WriteFields(h)
    BY <1>2, <2>3 DEF WriteFields, StoreInv, Decided, StoreTypes, StoreRows
  <2>4. CASE UpsertPaymentConfig(h)
    BY <2>4 DEF UpsertPaymentConfig, StoreInv, Decided
  <2>5. CASE DeletePaymentConfig(h)
    BY <2>5 DEF DeletePaymentConfig, StoreInv, Decided, StoreTypes, StoreRows
  <2> QED BY <2>1, <2>2, <2>3, <2>4, <2>5
<1> QED BY <1>1, <1>3, <1>4, RequestMoves DEF StoreInv, StoreTypes

\* What an administrator decides (admin-stores.service.ts).
LEMMA DecisionKeepsStore ==
  ASSUME StoreInv, NEW h \in StoreReqs, Decide(h) \/ Tell(h) PROVE StoreInv'
<1> USE DEF At
<1>1. storeReq[h] # NoStoreReq /\ (Done(h) \/ Turns(h, "write") \/ Turns(h, "tell"))
  BY DEF Decide, Tell
<1>2. /\ storeReq[h].seen \in StoreRows /\ SeenAllows(storeReq[h])
  BY <1>1 DEF StoreInv, StoreTypes
<1>3. /\ shop \in StoreRows /\ shop' \in StoreRows
      /\ payConfig' \in BOOLEAN /\ locked' \in BOOLEAN /\ outdated' \in BOOLEAN
  <2>1. /\ shop \in StoreRows /\ payConfig \in BOOLEAN /\ locked \in BOOLEAN /\ outdated \in BOOLEAN
    BY DEF StoreInv, StoreTypes
  <2>2. CASE Tell(h)
    BY <2>1, <2>2 DEF Tell
  <2>3. CASE Decide(h)
    <3>1. PICK st \in StoreStatuses : shop' = [shop EXCEPT !.status = st]
      BY <2>3 DEF Decide, AdminOps, StoreStatuses
    <3>2. shop' \in StoreRows
      BY <2>1, <3>1 DEF StoreRows
    <3>3. payConfig' = payConfig /\ locked' \in BOOLEAN
      BY <2>3 DEF Decide
    <3>4. outdated' \in BOOLEAN
      BY <2>3 DEF Decide
    <3> QED BY <2>1, <3>2, <3>3, <3>4
  <2> QED BY <2>2, <2>3
<1>4. Decided'
  <2>1. CASE Tell(h)
    BY <2>1 DEF Tell, StoreInv, Decided
  <2>2. CASE Decide(h)
    BY <1>2, <2>2 DEF Decide, StoreInv, Decided, SeenAllows, StoreTypes, StoreRows, AdminOps
  <2> QED BY <2>1, <2>2
<1> QED BY <1>1, <1>3, <1>4, RequestMoves DEF StoreInv, StoreTypes

\* Unless a request has written on grounds that had changed: a store in business has approved
\* papers, a locked one stays locked, a deposit can be paid (admin-stores.service.ts).
THEOREM StandsAsDecided == StoreSpec => []StoreStandsAsDecided
<1>1. StoreInit => StoreInv
  <2> SUFFICES ASSUME StoreInit PROVE StoreInv
    OBVIOUS
  <2>1. StoreTypes
    <3>1. shop \in StoreRows
      BY DEF StoreInit, StoreRows, StoreStatuses
    <3> QED BY <3>1 DEF StoreInit, StoreTypes
  <2>2. Decided
    BY DEF StoreInit, Decided
  <2> QED BY <2>1, <2>2 DEF StoreInit, StoreInv
<1>2. StoreInv /\ [StoreNext]_storeVars => StoreInv'
  <2> SUFFICES ASSUME StoreInv, [StoreNext]_storeVars PROVE StoreInv'
    OBVIOUS
  <2>1. CASE UNCHANGED storeVars
    BY <2>1 DEF storeVars, StoreInv, StoreTypes, Decided
  <2>2. CASE StoreNext
    BY <2>2, BeginKeepsStore, OwnerKeepsStore, DecisionKeepsStore DEF StoreNext
  <2> QED BY <2>1, <2>2
<1>3. StoreInv => StoreStandsAsDecided
  BY DEF StoreInv, Decided, StoreStandsAsDecided
<1> QED BY <1>1, <1>2, <1>3, PTL DEF StoreSpec

-----------------------------------------------------------------------------
(* The promotions of one store.  While no two requests are under way, what one  *)
(* has checked still holds when it writes, so the promotions that are on and     *)
(* have not been stretched keep apart.                                         *)

PromoSpec == PromoInit /\ [][PromoNext]_promoVars

PromoRows ==
  {r \in [start : Times, end : Times \cup {Forever}, active : BOOLEAN,
          type : {"FIXED", "PERCENTAGE"}, value : Values, scope : Scopes] :
     r.type = "PERCENTAGE" => r.value \in 1..100}

Creations   == [op : {"create"}, row : PromoRows]
Alterations == [op : {"update"}, p : Promos, end : Times \cup {Forever, 0},
                switch : {"on", "off", "same"}, checked : BOOLEAN]
Removals    == [op : {"remove"}, p : Promos]

PromoTypes ==
  /\ promo \in [Promos -> PromoRows \cup {NoPromo}]
  /\ promoReq \in [PromoReqs -> {NoPromoReq} \cup Creations \cup Alterations \cup Removals]
  /\ overtaken \in BOOLEAN
  /\ stretched \in [Promos -> BOOLEAN]

KeptApart ==
  ~overtaken => \A p, q \in Stored :
    p # q /\ promo[p].active /\ promo[q].active /\ ~stretched[p] /\ ~stretched[q] =>
      promo[p].end <= promo[q].start \/ promo[q].end <= promo[p].start

\* What a request has checked is still so.
StillRight(r) ==
  /\ r.op = "create" => r.row.active /\ AssertNoOverlappingActive(r.row.start, r.row.end, {})
  /\ r.op = "update" =>
       /\ r.p \in Stored
       /\ r.checked => AssertNoOverlappingActive(promo[r.p].start,
                         IF r.end = 0 THEN promo[r.p].end ELSE r.end, {r.p})
       /\ ~r.checked /\ r.switch = "on" => promo[r.p].active

PromoAlone ==
  ~overtaken => /\ \A g, h \in PromoReqs : promoReq[g] # NoPromoReq /\ promoReq[h] # NoPromoReq => g = h
                /\ \A h \in PromoReqs : promoReq[h] # NoPromoReq => StillRight(promoReq[h])

PromoInv == PromoTypes /\ KeptApart /\ PromoAlone

\* A stored row has the fields of one.
LEMMA StoredRows ==
  ASSUME PromoTypes
  PROVE  /\ Stored \subseteq Promos
         /\ \A p \in Stored : /\ promo[p] \in PromoRows
                              /\ promo[p].start \in Nat /\ promo[p].end \in Nat
                              /\ promo[p].active \in BOOLEAN
BY PromotionConstants DEF PromoTypes, Stored, PromoRows, Forever

\* A request that enters: the rows stay as they are (the checks of create, update, remove).
LEMMA PromoEnters ==
  ASSUME PromoInv, NEW h \in PromoReqs, NEW r \in Creations \cup Alterations \cup Removals,
         Enters(h, r), StillRight(r)
  PROVE  PromoInv'
<1>1. /\ promoReq[h] = NoPromoReq /\ promoReq' = [promoReq EXCEPT ![h] = r]
      /\ promo' = promo /\ stretched' = stretched
      /\ overtaken' = (overtaken \/ \E g \in PromoReqs : promoReq[g] # NoPromoReq)
  BY DEF Enters
<1>2. PromoTypes'
  BY <1>1 DEF PromoInv, PromoTypes
<1>3. Stored' = Stored
  BY <1>1 DEF Stored
<1>4. KeptApart'
  BY <1>1, <1>3 DEF PromoInv, KeptApart
<1>6. ASSUME ~overtaken', NEW g \in PromoReqs, promoReq'[g] # NoPromoReq
      PROVE  g = h /\ StillRight(promoReq[g])'
  <2>1. g = h
    BY <1>1, <1>6 DEF PromoInv, PromoTypes
  <2>2. promoReq'[g] = r
    BY <1>1, <2>1 DEF PromoInv, PromoTypes
  <2>3. StillRight(promoReq[g])'
    BY <1>1, <1>3, <2>2 DEF StillRight, AssertNoOverlappingActive
  <2> QED BY <2>1, <2>3
<1>7. PromoAlone'
  BY <1>6 DEF PromoAlone
<1> QED BY <1>2, <1>4, <1>7 DEF PromoInv

LEMMA PromoChecks ==
  ASSUME PromoInv, NEW h \in PromoReqs, CheckCreate(h) \/ CheckUpdate(h) \/ FindToRemove(h)
  PROVE  PromoInv'
<1>1. CASE CheckCreate(h)
  <2>1. PICK start \in Times, end \in Times \cup {Forever}, type \in {"FIXED", "PERCENTAGE"},
             value \in Values, scope \in Scopes :
          /\ type = "PERCENTAGE" => value \in 1..100
          /\ AssertNoOverlappingActive(start, end, {})
          /\ Enters(h, [op |-> "create", row |-> [start |-> start, end |-> end, active |-> TRUE,
                                             type |-> type, value |-> value, scope |-> scope]])
    BY <1>1 DEF CheckCreate
  <2> DEFINE row == [start |-> start, end |-> end, active |-> TRUE,
                     type |-> type, value |-> value, scope |-> scope]
  <2>2. row \in PromoRows
    BY <2>1 DEF PromoRows
  <2>3. [op |-> "create", row |-> row] \in Creations
    BY <2>2 DEF Creations
  <2>4. StillRight([op |-> "create", row |-> row])
    BY <2>1 DEF StillRight
  <2> QED BY <2>1, <2>3, <2>4, PromoEnters
<1>2. CASE CheckUpdate(h)
  <2>1. PICK p \in Stored, end \in Times \cup {Forever, 0}, switch \in {"on", "off", "same"} :
          /\ switch = "on" /\ ~promo[p].active =>
               AssertNoOverlappingActive(promo[p].start, IF end = 0 THEN promo[p].end ELSE end, {p})
          /\ Enters(h, [op |-> "update", p |-> p, end |-> end, switch |-> switch,
                        checked |-> switch = "on" /\ ~promo[p].active])
    BY <1>2 DEF CheckUpdate
  <2> DEFINE r == [op |-> "update", p |-> p, end |-> end, switch |-> switch,
                   checked |-> switch = "on" /\ ~promo[p].active]
  <2>2. p \in Promos /\ (switch = "on" /\ ~promo[p].active) \in BOOLEAN
    BY DEF Stored
  <2>3. r \in Alterations
    BY <2>1, <2>2 DEF Alterations
  <2>4. StillRight(r)
    BY <2>1 DEF StillRight
  <2> QED BY <2>1, <2>3, <2>4, PromoEnters
<1>3. CASE FindToRemove(h)
  <2>1. PICK p \in Stored : Enters(h, [op |-> "remove", p |-> p])
    BY <1>3 DEF FindToRemove
  <2>2. [op |-> "remove", p |-> p] \in Removals
    BY DEF Removals, Stored
  <2>3. StillRight([op |-> "remove", p |-> p])
    BY DEF StillRight
  <2> QED BY <2>1, <2>2, <2>3, PromoEnters
<1> QED BY <1>1, <1>2, <1>3

\* A request that leaves is the only one, unless requests overtook one another.
LEMMA PromoLeaves ==
  ASSUME PromoInv, NEW h \in PromoReqs, promoReq[h] # NoPromoReq, Leaves(h), overtaken' = overtaken
  PROVE  PromoAlone' /\ promoReq' \in [PromoReqs -> {NoPromoReq} \cup Creations \cup Alterations \cup Removals]
<1>1. promoReq' = [promoReq EXCEPT ![h] = NoPromoReq]
  BY DEF Leaves
<1>2. promoReq' \in [PromoReqs -> {NoPromoReq} \cup Creations \cup Alterations \cup Removals]
  BY <1>1 DEF PromoInv, PromoTypes
<1>3. ~overtaken => \A g \in PromoReqs : promoReq'[g] = NoPromoReq
  BY <1>1 DEF PromoInv, PromoAlone, PromoTypes
<1>4. PromoAlone'
  BY <1>3 DEF PromoAlone
<1> QED BY <1>2, <1>4

LEMMA InsertKeepsPromo ==
  ASSUME PromoInv, NEW h \in PromoReqs, InsertPromotion(h) PROVE PromoInv'
<1>1. promoReq[h].op = "create" /\ Leaves(h) /\ overtaken' = overtaken
  BY DEF InsertPromotion
<1>2. promoReq[h] # NoPromoReq /\ promoReq[h] \in Creations
  BY <1>1 DEF PromoInv, PromoTypes, NoPromoReq, Alterations, Removals
<1>3. PICK p \in Promos : /\ promo[p] = NoPromo /\ promo' = [promo EXCEPT ![p] = promoReq[h].row]
                          /\ stretched' = [stretched EXCEPT ![p] = FALSE]
  BY DEF InsertPromotion
<1> DEFINE row == promoReq[h].row
<1>4. row \in PromoRows
  BY <1>2 DEF Creations
<1>5. PromoTypes'
  BY <1>1, <1>2, <1>3, <1>4, PromoLeaves DEF PromoInv, PromoTypes
<1>6. /\ Stored' \subseteq Stored \cup {p} /\ p \notin Stored
      /\ promo'[p] = row /\ \A q \in Stored : promo'[q] = promo[q] /\ stretched'[q] = stretched[q]
  BY <1>3 DEF Stored, PromoInv, PromoTypes
<1>7. ~overtaken => \A q \in Stored : promo[q].active => ~(promo[q].start < row.end /\ promo[q].end > row.start)
  BY <1>1, <1>2 DEF PromoInv, PromoAlone, StillRight, AssertNoOverlappingActive
<1>8. KeptApart'
  <2>1. row.start \in Nat /\ row.end \in Nat
    BY <1>4, PromotionConstants DEF PromoRows, Forever
  <2>2. \A q \in Stored : promo[q].start \in Nat /\ promo[q].end \in Nat
    BY StoredRows DEF PromoInv
  <2> HIDE DEF row
  <2>3. ~overtaken => \A q \in Stored : promo[q].active =>
                        row.end <= promo[q].start \/ promo[q].end <= row.start
    BY <1>7, <2>1, <2>2
  <2> QED BY <1>1, <1>6, <2>3 DEF PromoInv, KeptApart
<1> QED BY <1>1, <1>2, <1>5, <1>8, PromoLeaves DEF PromoInv

LEMMA UpdateKeepsPromo ==
  ASSUME PromoInv, NEW h \in PromoReqs, WriteUpdate(h) PROVE PromoInv'
<1> DEFINE r == promoReq[h]
<1>1. r.op = "update" /\ Leaves(h) /\ overtaken' = overtaken
  BY DEF WriteUpdate
<1>2. r # NoPromoReq /\ r \in Alterations
  BY <1>1 DEF PromoInv, PromoTypes, NoPromoReq, Creations, Removals
<1>3. CASE r.p \notin Stored
  <2>1. promo' = promo /\ stretched' = stretched
    BY <1>3 DEF WriteUpdate
  <2>2. PromoTypes' /\ KeptApart'
    BY <1>1, <1>2, <2>1, PromoLeaves DEF PromoInv, PromoTypes, KeptApart, Stored
  <2> QED BY <1>1, <1>2, <2>2, PromoLeaves DEF PromoInv
<1>4. CASE r.p \in Stored
  <2> DEFINE p == r.p
             active == IF r.switch = "same" THEN promo[p].active ELSE r.switch = "on"
             end == IF r.end = 0 THEN promo[p].end ELSE r.end
             row == [[promo[p] EXCEPT !.end = end] EXCEPT !.active = active]
  <2>1. p \in Promos /\ promo[p] \in PromoRows /\ promo[p].active \in BOOLEAN
    BY <1>4, StoredRows DEF PromoInv
  <2>2. active \in BOOLEAN
    BY <2>1
  <2>3. end \in Times \cup {Forever}
    BY <1>2, <2>1 DEF Alterations, PromoRows
  <2>4. /\ promo' = [promo EXCEPT ![p] = row]
        /\ stretched' = [stretched EXCEPT ![p] = active /\ ~r.checked /\ (stretched[p] \/ r.end # 0)]
    <3>1. promo' = [promo EXCEPT ![p].end = end, ![p].active = active]
      BY <1>4 DEF WriteUpdate
    <3>2. [promo EXCEPT ![p].end = end, ![p].active = active] = [promo EXCEPT ![p] = row]
      BY <2>1 DEF PromoInv, PromoTypes
    <3> QED BY <1>4, <3>1, <3>2 DEF WriteUpdate
  <2> HIDE DEF active, end
  <2>5. row \in PromoRows /\ row.start = promo[p].start /\ row.end = end /\ row.active = active
    BY <2>1, <2>2, <2>3 DEF PromoRows
  <2>6. /\ promo'[p] = row /\ Stored' \subseteq Stored
        /\ stretched'[p] = (active /\ ~r.checked /\ (stretched[p] \/ r.end # 0))
        /\ \A q \in Promos \ {p} : promo'[q] = promo[q] /\ stretched'[q] = stretched[q]
    BY <2>1, <2>4, <1>4 DEF PromoInv, PromoTypes, Stored
  <2>7. PromoTypes'
    <3>1. promo' \in [Promos -> PromoRows \cup {NoPromo}]
      BY <2>4, <2>5 DEF PromoInv, PromoTypes
    <3>2. (active /\ ~r.checked /\ (stretched[p] \/ r.end # 0)) \in BOOLEAN
      OBVIOUS
    <3>3. stretched' \in [Promos -> BOOLEAN]
      BY <2>4, <3>2 DEF PromoInv, PromoTypes
    <3> QED BY <1>1, <1>2, <3>1, <3>3, PromoLeaves DEF PromoInv, PromoTypes
  <2>8. ASSUME ~overtaken, NEW q \in Stored, q # p, promo[q].active, ~stretched[q], active, ~stretched'[p]
        PROVE  end <= promo[q].start \/ promo[q].end <= promo[p].start
    <3>1. /\ promo[q].start \in Nat /\ promo[q].end \in Nat
          /\ promo[p].start \in Nat /\ end \in Nat
      BY <1>4, <2>3, StoredRows, PromotionConstants DEF PromoInv, Forever
    <3>2. StillRight(r)
      BY <1>2, <2>8 DEF PromoInv, PromoAlone
    <3>3. CASE r.checked
      <4>1. ~(promo[q].start < end /\ promo[q].end > promo[p].start)
        BY <1>1, <2>8, <3>2, <3>3 DEF StillRight, AssertNoOverlappingActive, end
      <4> QED BY <3>1, <4>1
    <3>4. CASE ~r.checked
      <4>1. r.end = 0 /\ ~stretched[p] /\ end = promo[p].end
        BY <2>6, <2>8, <3>4 DEF end
      <4>2. promo[p].active
        BY <1>1, <1>2, <2>8, <3>2, <3>4 DEF StillRight, active, Alterations
      <4> QED BY <1>4, <2>8, <4>1, <4>2 DEF PromoInv, KeptApart
    <3> QED BY <3>3, <3>4
  <2>9. KeptApart'
    <3> HIDE DEF row, p
    <3>1. \A q \in Stored \ {p} : q \in Promos
      BY StoredRows DEF PromoInv
    <3> QED BY <1>1, <2>5, <2>6, <2>8, <3>1 DEF PromoInv, KeptApart
  <2> QED BY <1>1, <1>2, <2>7, <2>9, PromoLeaves DEF PromoInv
<1> QED BY <1>3, <1>4

LEMMA RemoveKeepsPromo ==
  ASSUME PromoInv, NEW h \in PromoReqs, DeletePromotion(h) PROVE PromoInv'
<1>1. promoReq[h].op = "remove" /\ Leaves(h) /\ overtaken' = overtaken /\ stretched' = stretched
  BY DEF DeletePromotion
<1>2. promoReq[h] # NoPromoReq /\ promoReq[h] \in Removals
  BY <1>1 DEF PromoInv, PromoTypes, NoPromoReq, Creations, Alterations
<1>3. promo' = [promo EXCEPT ![promoReq[h].p] = NoPromo]
  BY DEF DeletePromotion
<1>4. PromoTypes'
  BY <1>1, <1>2, <1>3, PromoLeaves DEF PromoInv, PromoTypes
<1>5. Stored' \subseteq Stored /\ \A p \in Stored' : promo'[p] = promo[p]
  BY <1>3 DEF PromoInv, PromoTypes, Stored
<1>6. KeptApart'
  BY <1>1, <1>5 DEF PromoInv, KeptApart
<1> QED BY <1>1, <1>2, <1>4, <1>6, PromoLeaves DEF PromoInv

\* A promotion takes off no more than the price.
LEMMA SavesNoMore ==
  ASSUME PromoTypes, NEW p \in Stored, NEW v \in DOMAIN Price PROVE Saving(p, v) \in 0..Price[v]
<1>1. /\ promo[p].type \in {"FIXED", "PERCENTAGE"} /\ promo[p].value \in Nat /\ Price[v] \in Nat
      /\ promo[p].type = "PERCENTAGE" => promo[p].value \in 1..100
  BY StoredRows, PromotionConstants DEF PromoRows
<1>2. \A m \in Nat, c \in 1..100 : m * c \in Nat /\ m * c <= m * 100
  OBVIOUS
<1>3. promo[p].type = "PERCENTAGE" => (Price[v] * promo[p].value) \div 100 \in 0..Price[v]
  BY <1>1, <1>2
<1> QED BY <1>1, <1>3 DEF Saving

\* A customer is never between two promotions, and none takes off more than the price, unless
\* requests overtook one another or the end of a running promotion was moved unchecked
\* (assertNoOverlappingActive of promotions.service.ts).
THEOREM OneAtATime == PromoSpec => []OnePromotionRuns
<1>1. PromoInit => PromoInv
  <2> SUFFICES ASSUME PromoInit PROVE PromoInv
    OBVIOUS
  <2>1. PromoTypes /\ Stored = {}
    BY DEF PromoInit, PromoTypes, Stored
  <2> QED BY <2>1 DEF PromoInit, PromoInv, KeptApart, PromoAlone
<1>2. PromoInv /\ [PromoNext]_promoVars => PromoInv'
  <2> SUFFICES ASSUME PromoInv, [PromoNext]_promoVars PROVE PromoInv'
    OBVIOUS
  <2>1. CASE UNCHANGED promoVars
    BY <2>1 DEF promoVars, PromoInv, PromoTypes, KeptApart, PromoAlone, StillRight, Stored,
       AssertNoOverlappingActive
  <2>2. CASE PromoNext
    BY <2>2, PromoChecks, InsertKeepsPromo, UpdateKeepsPromo, RemoveKeepsPromo DEF PromoNext
  <2> QED BY <2>1, <2>2
<1>3. PromoInv => OnePromotionRuns
  <2> SUFFICES ASSUME PromoInv, NEW t \in Times, NEW p \in RunningAt(t), NEW q \in RunningAt(t)
               PROVE  /\ \/ p = q \/ overtaken \/ stretched[p] \/ stretched[q]
                         \/ promo[p].end = t /\ promo[q].start = t
                         \/ promo[q].end = t /\ promo[p].start = t
                      /\ \A v \in DOMAIN Price : Saving(p, v) \in 0..Price[v]
    BY DEF OnePromotionRuns
  <2>1. /\ p \in Stored /\ q \in Stored /\ promo[p].active /\ promo[q].active
        /\ promo[p].start <= t /\ t <= promo[p].end /\ promo[q].start <= t /\ t <= promo[q].end
    <3>1. t \in Nat
      BY PromotionConstants
    <3> QED BY <3>1, StoredRows DEF RunningAt, PromoInv
  <2>2. /\ promo[p].start \in Nat /\ promo[p].end \in Nat /\ t \in Nat
        /\ promo[q].start \in Nat /\ promo[q].end \in Nat
    BY <2>1, StoredRows, PromotionConstants DEF PromoInv
  <2>3. p # q /\ ~overtaken /\ ~stretched[p] /\ ~stretched[q] =>
          promo[p].end <= promo[q].start \/ promo[q].end <= promo[p].start
    BY <2>1 DEF PromoInv, KeptApart
  <2>4. \A v \in DOMAIN Price : Saving(p, v) \in 0..Price[v]
    BY <2>1, SavesNoMore DEF PromoInv
  <2> QED BY <2>1, <2>2, <2>3, <2>4
<1> QED BY <1>1, <1>2, <1>3, PTL DEF PromoSpec

-----------------------------------------------------------------------------
(* The services of one store.  Each of the three promises rests on something a   *)
(* request has read and that nobody changes while it is the only one: the name    *)
(* it has looked for, the booking it has not found, the pictures the row showed.  *)

CatSpec == CatInit /\ [][CatNext]_catVars

IsRow(r) == DOMAIN r = {"name", "slug", "status", "pictures", "offered"} /\ r.status \in Statuses

OnService(r) == r.op \in {"update", "remove"}
IsCatReq(r) ==
  /\ DOMAIN r = {"op", "phase", "s", "body", "slug", "seen"}
  /\ r.op \in {"create", "update", "remove", "import"}
  /\ OnService(r) => r.s \in Services
  /\ r.op = "update" => r.body \in ChangeFields
  /\ r.op = "remove" => r.body = [status |-> "gone"]

CatTypes ==
  /\ DOMAIN service = Services
  /\ \A s \in Services : service[s] = New \/ service[s] = Gone \/ IsRow(service[s])
  /\ DOMAIN catReq = CatReqs
  /\ \A h \in CatReqs : catReq[h] = NoCatReq \/ IsCatReq(catReq[h])
  /\ upcoming \in [Services -> Bookings]
  /\ crossed \in BOOLEAN /\ slipped \in BOOLEAN
  /\ mixed \in [Services -> BOOLEAN] /\ raced \in [Services -> BOOLEAN]

CatAlone   == ~crossed => \A g, h \in Busy : g = h
AloneWith  == \A s \in Services : ~mixed[s] =>
                \A g, h \in Busy : catReq[g].s = s /\ catReq[h].s = s => g = h
OpenToBook == \A s \in Services : upcoming[s] \in {"reading", "booked"} /\ ~raced[s] =>
                s \in Rows /\ service[s].status # "INACTIVE"

\* A picture is held by a service whose row shows it, or showed it to a request under way.
\* One that was not sent again is held by one service at most, so that no other drops it.
Holds(s, p) ==
  \/ s \in Rows /\ p \in service[s].pictures
  \/ \E h \in Busy : OnService(catReq[h]) /\ catReq[h].s = s /\ p \in catReq[h].seen
PicturesKnown ==
  /\ \A s \in Rows : service[s].pictures \subseteq uploaded
  /\ \A h \in Busy : OnService(catReq[h]) => catReq[h].seen \subseteq uploaded
HeldOnce ==
  \A p \in uploaded \ resent : \A s, t \in Services : Holds(s, p) /\ Holds(t, p) => s = t
PicturesRight == PicturesKnown /\ HeldOnce /\ PicturesAreThere

\* What a request has read is still so when it writes.
Due(r) == r.phase \in {"slug", "write"}
NameRight(r) ==
  /\ r.op = "create" => CheckDuplicateName(r.body.name, {})
  /\ r.op = "update" /\ Due(r) =>
       r.s \in Listed /\ (r.body.name # "none" => CheckDuplicateName(r.body.name, {r.s}))
BookingRight(r) ==
  OnService(r) /\ Due(r) /\ r.body.status \in {"INACTIVE", "gone"} /\ upcoming[r.s] = "booked" => raced[r.s]
SeenRight(r) ==
  OnService(r) => /\ service[r.s] # New
                  /\ ~mixed[r.s] /\ r.s \in Rows =>
                       /\ Due(r) => r.seen = service[r.s].pictures
                       /\ r.phase = "pictures" => r.seen \cap service[r.s].pictures = {}

RequestsRight ==
  \A h \in Busy : /\ ~crossed => NameRight(catReq[h])
                  /\ BookingRight(catReq[h]) /\ SeenRight(catReq[h])

CatInv == /\ CatTypes /\ CatAlone /\ AloneWith /\ RequestsRight
          /\ NamesApart /\ OpenToBook /\ PicturesRight

LEMMA RowsAreRows ==
  ASSUME CatTypes
  PROVE  /\ Rows \subseteq Services /\ \A s \in Rows : IsRow(service[s])
         /\ \A s \in Services : s \in Rows <=> service[s].status \in Statuses
         /\ Busy \subseteq CatReqs /\ \A h \in Busy : IsCatReq(catReq[h])
BY DEF CatTypes, Rows, Busy, IsRow, Statuses, New, Gone

\* No picture is stored or dropped.
LEMMA PicturesStay ==
  ASSUME CatInv, UNCHANGED pictureVars, \A s \in Services : mixed[s] => mixed'[s],
         \A s \in Rows' : /\ s \in Services
                          /\ \/ service'[s].pictures = {}
                             \/ s \in Rows /\ service'[s].pictures = service[s].pictures,
         \A h \in Busy' : OnService(catReq[h])' =>
            \/ /\ h \in Busy /\ OnService(catReq[h]) /\ catReq'[h].s = catReq[h].s
               /\ catReq'[h].seen \subseteq catReq[h].seen
            \/ catReq'[h].s \in Rows /\ catReq'[h].seen = service[catReq'[h].s].pictures
  PROVE  PicturesRight'
<1>1. uploaded' = uploaded /\ kept' = kept /\ resent' = resent
  BY DEF pictureVars
<1>2. PicturesKnown'
  BY <1>1 DEF CatInv, PicturesRight, PicturesKnown
<1>3. \A s, p : Holds(s, p)' => Holds(s, p)
  BY DEF Holds
<1>4. HeldOnce'
  BY <1>1, <1>3 DEF CatInv, PicturesRight, HeldOnce
<1>5. PicturesAreThere'
  BY <1>1 DEF CatInv, PicturesRight, PicturesAreThere
<1> QED BY <1>2, <1>4, <1>5 DEF PicturesRight

\* A row stores the list of a client.
LEMMA PicturesStored ==
  ASSUME CatInv, NEW s \in Services, NEW list, NEW had, Stores(list, had), mixed' = mixed,
         had = IF s \in Rows THEN service[s].pictures ELSE {},
         service'[s].pictures = list,
         \A t \in Rows' : t \in Services /\ (t # s => t \in Rows /\ service'[t] = service[t]),
         \A h \in Busy' : OnService(catReq[h])' =>
            /\ h \in Busy /\ OnService(catReq[h]) /\ catReq'[h].s = catReq[h].s
            /\ catReq'[h].seen \subseteq catReq[h].seen
  PROVE  PicturesRight'
<1>1. /\ uploaded' = uploaded \cup list /\ kept' = kept \cup (list \ uploaded)
      /\ resent' = resent \cup ((list \cap uploaded) \ had)
  BY DEF Stores
<1>2. PicturesKnown /\ HeldOnce /\ PicturesAreThere
  BY DEF CatInv, PicturesRight
<1>3. PicturesKnown'
  BY <1>1, <1>2 DEF PicturesKnown
<1>4. \A t, p : Holds(t, p) => p \in uploaded
  BY <1>2 DEF Holds, PicturesKnown
<1>5. \A t, p : Holds(t, p)' => Holds(t, p) \/ (t = s /\ p \in list)
  BY DEF Holds
<1>6. HeldOnce'
  <2> SUFFICES ASSUME NEW p \in uploaded' \ resent', NEW t \in Services, NEW u \in Services,
                      Holds(t, p)', Holds(u, p)'
               PROVE  t = u
    BY DEF HeldOnce
  <2>1. CASE p \notin uploaded
    BY <1>4, <1>5, <2>1
  <2>2. CASE p \in uploaded
    <3>1. p \in list => Holds(s, p)
      BY <1>1, <2>2 DEF Holds
    <3>2. Holds(t, p) /\ Holds(u, p) /\ p \in uploaded \ resent
      BY <1>1, <1>5, <2>2, <3>1
    <3> QED BY <1>2, <3>2 DEF HeldOnce
  <2> QED BY <2>1, <2>2
<1>7. PicturesAreThere'
  <2> SUFFICES ASSUME NEW t \in Rows', ~mixed[t], NEW p \in service'[t].pictures
               PROVE  p \in kept' \cup resent'
    BY DEF PicturesAreThere
  <2>1. t \in Rows /\ p \in service[t].pictures => p \in kept \cup resent
    BY <1>2 DEF PicturesAreThere
  <2> QED BY <1>1, <2>1
<1> QED BY <1>3, <1>6, <1>7 DEF PicturesRight

\* A request that begins has just read what it relies on.
LEMMA CatStarts ==
  ASSUME CatInv, NEW h \in CatReqs, NEW r, IsCatReq(r), Starts(h, r),
         NameRight(r), BookingRight(r), SeenRight(r),
         OnService(r) => r.s \in Rows /\ r.seen = service[r.s].pictures
  PROVE  CatInv'
<1>1. /\ h \notin Busy /\ catReq' = [catReq EXCEPT ![h] = r]
      /\ crossed' = (crossed \/ Busy # {})
      /\ mixed' = [s \in Services |-> mixed[s] \/ (r.s = s /\ \E g \in Busy : catReq[g].s = s)]
      /\ service' = service /\ UNCHANGED pictureVars /\ upcoming' = upcoming
      /\ slipped' = slipped /\ raced' = raced
  BY DEF Starts
<1>2. /\ DOMAIN catReq' = CatReqs /\ catReq'[h] = r
      /\ \A g \in CatReqs \ {h} : catReq'[g] = catReq[g]
  BY <1>1 DEF CatInv, CatTypes
<1>3. r # NoCatReq
  BY DEF IsCatReq, NoCatReq
<1>4. Busy' = Busy \cup {h}
  BY <1>2, <1>3 DEF Busy
<1>5. Rows' = Rows /\ Listed' = Listed
  BY <1>1 DEF Rows, Listed
<1>6. CatTypes'
  <2>1. \A g \in CatReqs : catReq'[g] = NoCatReq \/ IsCatReq(catReq'[g])
    BY <1>2 DEF CatInv, CatTypes
  <2>2. mixed' \in [Services -> BOOLEAN] /\ crossed' \in BOOLEAN
    BY <1>1 DEF CatInv, CatTypes
  <2> QED BY <1>1, <1>2, <2>1, <2>2 DEF CatInv, CatTypes
<1>7. CatAlone'
  BY <1>1, <1>4 DEF CatAlone
<1>8. AloneWith'
  <2> SUFFICES ASSUME NEW s \in Services, ~mixed'[s], NEW f \in Busy', NEW g \in Busy',
                      catReq'[f].s = s, catReq'[g].s = s
               PROVE  f = g
    BY DEF AloneWith
  <2>1. ~mixed[s] /\ ~(r.s = s /\ \E k \in Busy : catReq[k].s = s)
    BY <1>1
  <2>2. \A k \in Busy : k \in CatReqs \ {h} /\ catReq'[k] = catReq[k]
    BY <1>1, <1>2, RowsAreRows DEF CatInv
  <2>3. CASE f \in Busy /\ g \in Busy
    BY <2>1, <2>2, <2>3 DEF CatInv, AloneWith
  <2>4. CASE f = h /\ g = h
    BY <2>4
  <2>5. CASE (f = h /\ g \in Busy) \/ (g = h /\ f \in Busy)
    BY <1>2, <2>1, <2>2, <2>5
  <2> QED BY <1>4, <2>3, <2>4, <2>5
<1>9. ASSUME NEW g \in Busy'
      PROVE  /\ ~crossed' => NameRight(catReq[g])'
             /\ BookingRight(catReq[g])' /\ SeenRight(catReq[g])'
  <2>2. CASE g = h
    <3>1. \A s \in Services : ~mixed'[s] => ~mixed[s]
      BY <1>1
    <3> QED BY <1>1, <1>2, <1>5, <2>2, <3>1
        DEF NameRight, BookingRight, SeenRight, CheckDuplicateName, IsCatReq
  <2>3. CASE g # h
    <3>1. g \in Busy /\ catReq'[g] = catReq[g] /\ IsCatReq(catReq[g])
      BY <1>2, <1>4, <2>3, RowsAreRows DEF CatInv
    <3>2. crossed'
      BY <1>1, <3>1
    <3>3. \A s \in Services : ~mixed'[s] => ~mixed[s]
      BY <1>1
    <3>4. BookingRight(catReq[g])'
      BY <1>1, <3>1 DEF CatInv, RequestsRight, BookingRight
    <3>5. SeenRight(catReq[g])'
      BY <1>1, <1>5, <3>1, <3>3 DEF CatInv, RequestsRight, SeenRight, IsCatReq
    <3> QED BY <3>2, <3>4, <3>5
  <2> QED BY <2>2, <2>3
<1>10. RequestsRight'
  BY <1>9 DEF RequestsRight
<1>11. NamesApart' /\ OpenToBook'
  BY <1>1, <1>5 DEF CatInv, NamesApart, OpenToBook
<1>12. PicturesRight'
  <2>1. \A s \in Services : mixed[s] => mixed'[s]
    BY <1>1
  <2>2. \A g \in Busy : g \in CatReqs \ {h} /\ catReq'[g] = catReq[g]
    BY <1>1, <1>2, RowsAreRows DEF CatInv
  <2>3. \A g \in Busy' : OnService(catReq[g])' =>
            \/ /\ g \in Busy /\ OnService(catReq[g]) /\ catReq'[g].s = catReq[g].s
               /\ catReq'[g].seen \subseteq catReq[g].seen
            \/ catReq'[g].s \in Rows /\ catReq'[g].seen = service[catReq'[g].s].pictures
    BY <1>2, <1>4, <2>2 DEF OnService
  <2>4. \A s \in Rows' : s \in Services /\ s \in Rows /\ service'[s].pictures = service[s].pictures
    BY <1>1, <1>5, RowsAreRows DEF CatInv
  <2> QED BY <1>1, <2>1, <2>3, <2>4, PicturesStay
<1> QED BY <1>6, <1>7, <1>8, <1>10, <1>11, <1>12 DEF CatInv

LEMMA CatBegins ==
  ASSUME CatInv, NEW h \in CatReqs,
         Create(h) \/ Update(h) \/ Remove(h) \/ BulkHardDelete(h) \/ ImportServices(h)
  PROVE  CatInv'
<1> USE DEF Req
<1>1. CASE Create(h)
  <2>1. PICK name \in Names : /\ CheckDuplicateName(name, {})
                              /\ Starts(h, Req("create", "slug", NoService, [name |-> name]))
    BY <1>1 DEF Create
  <2> DEFINE r == Req("create", "slug", NoService, [name |-> name])
  <2>2. IsCatReq(r) /\ NameRight(r) /\ BookingRight(r) /\ SeenRight(r)
    BY <2>1 DEF IsCatReq, NameRight, BookingRight, SeenRight, OnService
  <2> QED BY <2>1, <2>2, CatStarts DEF OnService
<1>2. CASE Update(h)
  <2>1. PICK s \in Listed, body \in Changes :
          /\ body.status = "INACTIVE" => ~UpcomingOf(s)
          /\ body.name # "none" => CheckDuplicateName(body.name, {s})
          /\ Starts(h, [Req("update", IF body.name = "none" THEN "write" ELSE "slug", s, body)
                          EXCEPT !.seen = service[s].pictures])
    BY <1>2 DEF Update
  <2> DEFINE r == [Req("update", IF body.name = "none" THEN "write" ELSE "slug", s, body)
                     EXCEPT !.seen = service[s].pictures]
  <2>2. /\ DOMAIN r = {"op", "phase", "s", "body", "slug", "seen"}
        /\ r.op = "update" /\ r.s = s /\ r.body = body /\ r.seen = service[s].pictures
        /\ r.phase \in {"slug", "write"}
    OBVIOUS
  <2>3. body \in ChangeFields /\ s \in Rows /\ s \in Services /\ service[s] # New
    BY CatalogueConstants DEF Listed, Rows
  <2>4. body.status # "gone"
    BY <2>3 DEF ChangeFields, Statuses
  <2> HIDE DEF r
  <2>5. IsCatReq(r)
    BY <2>2, <2>3 DEF IsCatReq
  <2>6. NameRight(r) /\ BookingRight(r) /\ SeenRight(r)
    BY <2>1, <2>2, <2>3, <2>4 DEF NameRight, BookingRight, SeenRight, UpcomingOf
  <2> QED BY <2>1, <2>2, <2>3, <2>5, <2>6, CatStarts DEF r
<1>3. CASE Remove(h) \/ BulkHardDelete(h)
  <2>1. PICK s \in Rows : /\ ~UpcomingOf(s)
                          /\ Starts(h, [Req("remove", "write", s, [status |-> "gone"])
                                          EXCEPT !.seen = service[s].pictures])
    BY <1>3 DEF Remove, BulkHardDelete, Removal, Listed
  <2> DEFINE r == [Req("remove", "write", s, [status |-> "gone"]) EXCEPT !.seen = service[s].pictures]
  <2>2. /\ DOMAIN r = {"op", "phase", "s", "body", "slug", "seen"}
        /\ r.op = "remove" /\ r.s = s /\ r.body = [status |-> "gone"] /\ r.seen = service[s].pictures
        /\ r.phase = "write"
    OBVIOUS
  <2>3. s \in Services /\ service[s] # New
    BY DEF Rows
  <2> HIDE DEF r
  <2>4. IsCatReq(r) /\ NameRight(r) /\ BookingRight(r) /\ SeenRight(r)
    BY <2>1, <2>2, <2>3 DEF IsCatReq, NameRight, BookingRight, SeenRight, UpcomingOf
  <2> QED BY <2>1, <2>2, <2>4, CatStarts DEF r
<1>4. CASE ImportServices(h)
  <2>1. PICK names : Starts(h, Req("import", "slug", NoService, [names |-> names]))
    BY <1>4 DEF ImportServices
  <2> DEFINE r == Req("import", "slug", NoService, [names |-> names])
  <2>2. IsCatReq(r) /\ NameRight(r) /\ BookingRight(r) /\ SeenRight(r)
    BY DEF IsCatReq, NameRight, BookingRight, SeenRight, OnService
  <2> QED BY <2>1, <2>2, CatStarts DEF OnService
<1> QED BY <1>1, <1>2, <1>3, <1>4

\* The requests that do not write keep what they have read: a write is of a service nobody
\* else is about, or the two have been noticed (mixed, crossed).
LEMMA OthersStayRight ==
  ASSUME CatInv, NEW h \in Busy, NEW g \in Busy, g # h, catReq'[g] = catReq[g],
         crossed' = crossed, mixed' = mixed, upcoming' = upcoming,
         \A s \in Services : raced[s] => raced'[s],
         \A s \in Services : service[s] # New =>
            /\ service'[s] # New
            /\ service'[s] = service[s] \/ (OnService(catReq[h]) /\ s = catReq[h].s)
  PROVE  /\ ~crossed' => NameRight(catReq[g])'
         /\ BookingRight(catReq[g])' /\ SeenRight(catReq[g])'
<1>1. crossed
  BY DEF CatInv, CatAlone
<1>2. IsCatReq(catReq[g]) /\ BookingRight(catReq[g]) /\ SeenRight(catReq[g])
  BY RowsAreRows DEF CatInv, RequestsRight
<1>3. BookingRight(catReq[g])'
  BY <1>2 DEF BookingRight, IsCatReq
<1>4. SeenRight(catReq[g])'
  <2> DEFINE s == catReq[g].s
  <2> SUFFICES ASSUME OnService(catReq[g]) PROVE SeenRight(catReq[g])'
    BY DEF SeenRight, OnService
  <2>1. s \in Services /\ service[s] # New
    BY <1>2 DEF IsCatReq, SeenRight
  <2>2. CASE service'[s] = service[s]
    <3>1. s \in Rows' <=> s \in Rows
      BY <2>1, <2>2 DEF Rows
    <3> QED BY <1>2, <2>1, <2>2, <3>1 DEF SeenRight
  <2>3. CASE service'[s] # service[s]
    <3>1. mixed[s]
      BY <2>1, <2>3 DEF CatInv, AloneWith
    <3> QED BY <2>1, <3>1 DEF SeenRight
  <2> QED BY <2>2, <2>3
<1> QED BY <1>1, <1>3, <1>4

\* A step of request h, which ends (NoCatReq) or goes on as q.
LEMMA CatStep ==
  ASSUME CatInv, NEW h \in Busy, NEW q,
         q = NoCatReq \/ (IsCatReq(q) /\ q.s = catReq[h].s),
         catReq' = [catReq EXCEPT ![h] = q],
         crossed' = crossed, mixed' = mixed, upcoming' = upcoming,
         DOMAIN service' = Services,
         \A s \in Services : service'[s] = New \/ service'[s] = Gone \/ IsRow(service'[s]),
         slipped' \in BOOLEAN, raced' \in [Services -> BOOLEAN],
         \A s \in Services : raced[s] => raced'[s],
         \A s \in Services : service[s] # New =>
            /\ service'[s] # New
            /\ service'[s] = service[s] \/ (OnService(catReq[h]) /\ s = catReq[h].s),
         q # NoCatReq => /\ ~crossed => NameRight(q)'
                         /\ BookingRight(q)' /\ SeenRight(q)',
         NamesApart', OpenToBook', PicturesRight'
  PROVE  CatInv'
<1>1. /\ DOMAIN catReq' = CatReqs /\ catReq'[h] = q /\ h \in CatReqs
      /\ \A g \in CatReqs \ {h} : catReq'[g] = catReq[g]
  BY RowsAreRows DEF CatInv, CatTypes
<1>2. Busy' \subseteq Busy /\ Busy \subseteq CatReqs
  BY <1>1 DEF Busy
<1>3. CatTypes'
  <2>1. \A g \in CatReqs : catReq'[g] = NoCatReq \/ IsCatReq(catReq'[g])
    BY <1>1 DEF CatInv, CatTypes
  <2> QED BY <1>1, <2>1 DEF CatInv, CatTypes
<1>4. CatAlone'
  BY <1>2 DEF CatInv, CatAlone
<1>5. AloneWith'
  <2>1. \A g \in Busy' : catReq'[g].s = catReq[g].s
    BY <1>1, <1>2 DEF Busy
  <2> QED BY <1>2, <2>1 DEF CatInv, AloneWith
<1>6. ASSUME NEW g \in Busy'
      PROVE  /\ ~crossed' => NameRight(catReq[g])'
             /\ BookingRight(catReq[g])' /\ SeenRight(catReq[g])'
  <2>1. CASE g = h
    <3>1. q # NoCatReq /\ catReq'[g] = q
      BY <1>1, <1>6, <2>1 DEF Busy
    <3> QED BY <3>1 DEF NameRight, BookingRight, SeenRight
  <2>2. CASE g # h
    <3>1. g \in Busy /\ catReq'[g] = catReq[g]
      BY <1>1, <1>2, <2>2
    <3> QED BY <2>2, <3>1, OthersStayRight
  <2> QED BY <2>1, <2>2
<1>7. RequestsRight'
  BY <1>6 DEF RequestsRight
<1> QED BY <1>3, <1>4, <1>5, <1>7 DEF CatInv

\* Rows that differ only in what no promise is about.
LEMMA RowsAlike ==
  ASSUME CatInv, DOMAIN service' = Services, upcoming' = upcoming, raced' = raced, mixed' = mixed,
         crossed' = crossed, slipped' = slipped,
         \A s \in Services : \/ service'[s] = service[s]
                             \/ /\ IsRow(service[s]) /\ IsRow(service'[s])
                                /\ service'[s].name = service[s].name
                                /\ service'[s].status = service[s].status
                                /\ service'[s].pictures = service[s].pictures
  PROVE  /\ Rows' = Rows /\ Listed' = Listed
         /\ \A s \in Services : service'[s] = New \/ service'[s] = Gone \/ IsRow(service'[s])
         /\ \A s \in Rows : service'[s].pictures = service[s].pictures
         /\ NamesApart' /\ OpenToBook'
<1>1. Rows' = Rows
  BY DEF Rows, IsRow, New, Gone, Statuses
<1>2. \A s \in Rows : /\ service'[s].name = service[s].name
                      /\ service'[s].status = service[s].status
                      /\ service'[s].pictures = service[s].pictures
  BY DEF Rows
<1>3. Listed' = Listed
  BY <1>1, <1>2 DEF Listed
<1>4. NamesApart'
  BY <1>2, <1>3 DEF CatInv, NamesApart, Listed
<1>5. OpenToBook'
  BY <1>1, <1>2 DEF CatInv, OpenToBook
<1>6. \A s \in Services : service'[s] = New \/ service'[s] = Gone \/ IsRow(service'[s])
  BY DEF CatInv, CatTypes
<1> QED BY <1>1, <1>2, <1>3, <1>4, <1>5, <1>6

\* Slugs are no part of the promises (findUniqueSlug of services.service.ts).
LEMMA SlugKeepsCat ==
  ASSUME CatInv, NEW h \in CatReqs, MakeSlug(h) \/ ReadSlugs(h) PROVE CatInv'
<1>1. /\ h \in Busy /\ IsCatReq(catReq[h]) /\ catReq[h].phase = "slug"
      /\ service' = service /\ UNCHANGED pictureVars /\ upcoming' = upcoming /\ crossed' = crossed
      /\ slipped' = slipped /\ mixed' = mixed /\ raced' = raced
  BY RowsAreRows DEF MakeSlug, ReadSlugs, In, CatInv
<1>2. Rows' = Rows /\ Listed' = Listed
  BY <1>1 DEF Rows, Listed
<1>3. /\ ~crossed => NameRight(catReq[h])
      /\ BookingRight(catReq[h]) /\ SeenRight(catReq[h])
  BY <1>1 DEF CatInv, RequestsRight
<1>4. PICK q : /\ catReq' = [catReq EXCEPT ![h] = q] /\ IsCatReq(q)
               /\ q.op = catReq[h].op /\ q.s = catReq[h].s /\ q.body = catReq[h].body
               /\ q.phase = "write" /\ (OnService(q) => q.seen = catReq[h].seen)
  <2>1. CASE MakeSlug(h)
    <3> DEFINE slug == FreeSlug(catReq[h].body.name, SlugsOf(Listed \ {catReq[h].s}))
               q == [[catReq[h] EXCEPT !.phase = "write"] EXCEPT !.slug = slug]
    <3>1. catReq' = [catReq EXCEPT ![h].phase = "write", ![h].slug = slug]
      BY <2>1 DEF MakeSlug
    <3> HIDE DEF slug
    <3>2. catReq' = [catReq EXCEPT ![h] = q]
      BY <3>1 DEF CatInv, CatTypes
    <3>3. /\ DOMAIN q = {"op", "phase", "s", "body", "slug", "seen"}
          /\ q.op = catReq[h].op /\ q.s = catReq[h].s /\ q.body = catReq[h].body
          /\ q.phase = "write" /\ q.seen = catReq[h].seen
      BY <1>1 DEF IsCatReq
    <3> HIDE DEF q
    <3> QED BY <1>1, <3>2, <3>3 DEF IsCatReq, OnService
  <2>2. CASE ReadSlugs(h)
    <3> DEFINE sheet == ImportedRows(catReq[h].body.names, SlugsOf(Rows))
               q == [[catReq[h] EXCEPT !.phase = "write"] EXCEPT !.seen = sheet]
    <3>1. catReq' = [catReq EXCEPT ![h].phase = "write", ![h].seen = sheet] /\ catReq[h].op = "import"
      BY <2>2 DEF ReadSlugs, In
    <3> HIDE DEF sheet
    <3>2. catReq' = [catReq EXCEPT ![h] = q]
      BY <3>1 DEF CatInv, CatTypes
    <3>3. /\ DOMAIN q = {"op", "phase", "s", "body", "slug", "seen"}
          /\ q.op = catReq[h].op /\ q.s = catReq[h].s /\ q.body = catReq[h].body
          /\ q.phase = "write"
      BY <1>1 DEF IsCatReq
    <3> HIDE DEF q
    <3> QED BY <1>1, <3>1, <3>2, <3>3 DEF IsCatReq, OnService
  <2> QED BY <2>1, <2>2
<1>5. /\ ~crossed => NameRight(q)'
      /\ BookingRight(q)' /\ SeenRight(q)'
  BY <1>1, <1>2, <1>3, <1>4 DEF NameRight, BookingRight, SeenRight, Due, OnService, CheckDuplicateName
<1>6. NamesApart' /\ OpenToBook'
  BY <1>1, <1>2 DEF CatInv, NamesApart, OpenToBook
<1>8. PicturesRight'
  <2>1. \A g \in Busy' : \/ g \in Busy /\ catReq'[g] = catReq[g]
                         \/ g = h /\ catReq'[g] = q
    BY <1>1, <1>4, RowsAreRows DEF CatInv, CatTypes, Busy
  <2>2. \A g \in Busy' : OnService(catReq[g])' =>
            /\ g \in Busy /\ OnService(catReq[g]) /\ catReq'[g].s = catReq[g].s
            /\ catReq'[g].seen \subseteq catReq[g].seen
    BY <1>1, <1>4, <2>1 DEF OnService
  <2>3. \A s \in Rows' : s \in Services /\ s \in Rows /\ service'[s].pictures = service[s].pictures
    BY <1>1, <1>2, RowsAreRows DEF CatInv
  <2> QED BY <1>1, <2>2, <2>3, PicturesStay
<1>7. /\ DOMAIN service' = Services
      /\ slipped' \in BOOLEAN /\ raced' \in [Services -> BOOLEAN]
      /\ \A s \in Services : service'[s] = New \/ service'[s] = Gone \/ IsRow(service'[s])
  BY <1>1 DEF CatInv, CatTypes
<1> HIDE DEF CatInv
<1> QED BY <1>1, <1>4, <1>5, <1>6, <1>7, <1>8, CatStep

\* The variants of a service are no part of the promises either.
LEMMA VariantsKeepCat ==
  ASSUME CatInv, NEW h \in CatReqs, UpdateVariants(h) PROVE CatInv'
<1> DEFINE s == catReq[h].s
<1>1. /\ h \in Busy /\ catReq[h].op = "update" /\ IsCatReq(catReq[h]) /\ s \in Services
      /\ catReq' = [catReq EXCEPT ![h] = NoCatReq]
      /\ UNCHANGED pictureVars /\ upcoming' = upcoming /\ crossed' = crossed
      /\ slipped' = slipped /\ mixed' = mixed /\ raced' = raced
  BY RowsAreRows DEF UpdateVariants, In, Leave, CatInv, IsCatReq, OnService
<1>2. PICK offered : service' = IF s \in Rows THEN [service EXCEPT ![s].offered = offered] ELSE service
  BY DEF UpdateVariants
<1>3. DOMAIN service' = Services
  BY <1>2 DEF CatInv, CatTypes
<1>4. ASSUME NEW t \in Services
      PROVE  \/ service'[t] = service[t]
             \/ /\ IsRow(service[t]) /\ IsRow(service'[t]) /\ t = s
                /\ service'[t].name = service[t].name
                /\ service'[t].status = service[t].status
                /\ service'[t].pictures = service[t].pictures
  <2>1. CASE t = s /\ s \in Rows
    <3>1. service'[t] = [service[t] EXCEPT !.offered = offered]
      BY <1>2, <2>1 DEF CatInv, CatTypes
    <3>2. IsRow(service[t])
      BY <2>1, RowsAreRows DEF CatInv
    <3> QED BY <2>1, <3>1, <3>2 DEF IsRow
  <2>2. CASE ~(t = s /\ s \in Rows)
    BY <1>2, <2>2 DEF CatInv, CatTypes
  <2> QED BY <2>1, <2>2
<1>5. /\ NamesApart' /\ OpenToBook' /\ Rows' = Rows
      /\ \A t \in Rows : service'[t].pictures = service[t].pictures
      /\ \A t \in Services : service'[t] = New \/ service'[t] = Gone \/ IsRow(service'[t])
  BY <1>1, <1>3, <1>4, RowsAlike
<1>6. \A t \in Services : service[t] # New => /\ service'[t] # New
                                              /\ service'[t] = service[t] \/ (OnService(catReq[h]) /\ t = s)
  BY <1>1, <1>4 DEF OnService, IsRow, New, Statuses
<1>7. slipped' \in BOOLEAN /\ raced' \in [Services -> BOOLEAN]
  BY <1>1 DEF CatInv, CatTypes
<1>8. PicturesRight'
  <2>1. \A g \in Busy' : g \in Busy /\ catReq'[g] = catReq[g]
    BY <1>1, RowsAreRows DEF CatInv, CatTypes, Busy
  <2>2. \A g \in Busy' : OnService(catReq[g])' =>
            /\ g \in Busy /\ OnService(catReq[g]) /\ catReq'[g].s = catReq[g].s
            /\ catReq'[g].seen \subseteq catReq[g].seen
    BY <2>1 DEF OnService
  <2>3. \A t \in Rows' : t \in Services /\ t \in Rows /\ service'[t].pictures = service[t].pictures
    BY <1>5, RowsAreRows DEF CatInv
  <2> QED BY <1>1, <2>2, <2>3, PicturesStay
<1> HIDE DEF CatInv
<1> QED BY <1>1, <1>3, <1>5, <1>6, <1>7, <1>8, CatStep

\* New rows, of names that are new (create and the import).
LEMMA NewRows ==
  ASSUME CatInv, NEW h \in Busy, catReq' = [catReq EXCEPT ![h] = NoCatReq],
         crossed' = crossed, mixed' = mixed, upcoming' = upcoming, raced' = raced,
         slipped' \in BOOLEAN, DOMAIN service' = Services,
         \A s \in Services : \/ service'[s] = service[s]
                             \/ service[s] = New /\ IsRow(service'[s]),
         NamesApart', PicturesRight'
  PROVE  CatInv'
<1>1. \A s \in Services : service'[s] = New \/ service'[s] = Gone \/ IsRow(service'[s])
  BY DEF CatInv, CatTypes
<1>2. \A s \in Services : service[s] # New => service'[s] = service[s]
  OBVIOUS
<1>3. \A s \in Rows : s \in Services /\ service'[s] = service[s] /\ s \in Rows'
  BY <1>2 DEF Rows
<1>4. OpenToBook'
  BY <1>3 DEF CatInv, OpenToBook
<1>6. raced' \in [Services -> BOOLEAN]
  BY DEF CatInv, CatTypes
<1> HIDE DEF CatInv
<1> QED BY <1>1, <1>2, <1>4, <1>6, CatStep

\* A request ends without a write.
LEMMA LeftAsItWas ==
  ASSUME CatInv, NEW h \in Busy, catReq' = [catReq EXCEPT ![h] = NoCatReq],
         crossed' = crossed, mixed' = mixed, upcoming' = upcoming, raced' = raced,
         slipped' = slipped, service' = service, UNCHANGED pictureVars
  PROVE  CatInv'
<1>1. NamesApart' /\ DOMAIN service' = Services /\ slipped' \in BOOLEAN
  BY DEF CatInv, CatTypes, NamesApart, Listed, Rows
<1>2. PicturesRight'
  <2>1. Rows' = Rows
    BY DEF Rows
  <2>2. \A g \in Busy' : g \in Busy /\ catReq'[g] = catReq[g]
    BY RowsAreRows DEF CatInv, CatTypes, Busy
  <2>3. \A g \in Busy' : OnService(catReq[g])' =>
            /\ g \in Busy /\ OnService(catReq[g]) /\ catReq'[g].s = catReq[g].s
            /\ catReq'[g].seen \subseteq catReq[g].seen
    BY <2>2 DEF OnService
  <2> QED BY <2>1, <2>3, PicturesStay, RowsAreRows DEF CatInv
<1> HIDE DEF CatInv
<1> QED BY <1>1, <1>2, NewRows

LEMMA InsertKeepsCat ==
  ASSUME CatInv, NEW h \in CatReqs, InsertService(h) PROVE CatInv'
<1>1. /\ h \in Busy /\ catReq[h].op = "create" /\ catReq' = [catReq EXCEPT ![h] = NoCatReq]
      /\ upcoming' = upcoming /\ crossed' = crossed
      /\ slipped' = slipped /\ mixed' = mixed /\ raced' = raced
      /\ slipped' \in BOOLEAN
  BY DEF InsertService, In, Leave, CatInv, CatTypes
<1>2. CASE UNCHANGED <<service, pictureVars>>
  BY <1>1, <1>2, LeftAsItWas
<1>3. CASE ~(UNCHANGED <<service, pictureVars>>)
  <2> DEFINE name == catReq[h].body.name
  <2>1. PICK s, status, slug, offered, list :
          /\ s \in Services /\ status \in Statuses
          /\ service[s] = New /\ Stores(list, {})
          /\ service' = [service EXCEPT ![s] =
                           [name |-> name, slug |-> slug, status |-> status,
                            pictures |-> list, offered |-> offered]]
    BY <1>3 DEF InsertService
  <2>2. /\ DOMAIN service' = Services
        /\ \A t \in Services \ {s} : service'[t] = service[t]
        /\ service'[s] = [name |-> name, slug |-> slug, status |-> status,
                          pictures |-> list, offered |-> offered]
    BY <2>1 DEF CatInv, CatTypes
  <2>3. IsRow(service'[s]) /\ service'[s].name = name /\ service'[s].pictures = list
    BY <2>1, <2>2 DEF IsRow
  <2>5. PicturesRight'
    <3>1. s \notin Rows /\ \A t \in Rows' : t \in Services /\ (t # s => t \in Rows /\ service'[t] = service[t])
      BY <2>1, <2>2 DEF Rows
    <3>2. \A g \in Busy' : g \in Busy /\ catReq'[g] = catReq[g]
      BY <1>1, RowsAreRows DEF CatInv, CatTypes, Busy
    <3>3. \A g \in Busy' : OnService(catReq[g])' =>
              /\ g \in Busy /\ OnService(catReq[g]) /\ catReq'[g].s = catReq[g].s
              /\ catReq'[g].seen \subseteq catReq[g].seen
      BY <3>2 DEF OnService
    <3> QED BY <1>1, <2>1, <2>3, <3>1, <3>3, PicturesStored
  <2>4. NamesApart'
    <3>1. Listed' \subseteq Listed \cup {s} /\ s \notin Listed
      BY <2>1, <2>2 DEF Listed, Rows
    <3>2. \A t \in Listed : t \in Services \ {s}
      BY <3>1 DEF Listed, Rows
    <3>3. ~crossed => \A t \in Listed : Fold[service[t].name] # Fold[name]
      BY <1>1 DEF CatInv, RequestsRight, NameRight, CheckDuplicateName
    <3> HIDE DEF name
    <3> QED BY <1>1, <2>2, <2>3, <3>1, <3>2, <3>3 DEF CatInv, NamesApart
  <2> HIDE DEF CatInv
  <2> QED BY <1>1, <2>1, <2>2, <2>3, <2>4, <2>5, NewRows
<1> QED BY <1>2, <1>3

LEMMA SheetKeepsCat ==
  ASSUME CatInv, NEW h \in CatReqs, InsertSheet(h) PROVE CatInv'
<1> DEFINE sheet == catReq[h].seen
           free  == {s \in Services : service[s] = New}
<1>1. /\ h \in Busy /\ catReq[h].op = "import" /\ catReq' = [catReq EXCEPT ![h] = NoCatReq]
      /\ upcoming' = upcoming /\ crossed' = crossed /\ UNCHANGED pictureVars
      /\ mixed' = mixed /\ raced' = raced
  BY DEF InsertSheet, In, Leave, CatInv, CatTypes
<1>2. CASE service' = service /\ slipped' = slipped
  BY <1>1, <1>2, LeftAsItWas
<1>3. CASE ~(service' = service /\ slipped' = slipped)
  <2>1. PICK place \in [sheet -> free], offered \in Offers :
          /\ \A q, r \in sheet : place[q] = place[r] => q = r
          /\ service' = [s \in Services |->
               IF \E r \in sheet : place[r] = s
               THEN LET r == CHOOSE q \in sheet : place[q] = s
                    IN [name |-> r.name, slug |-> r.slug, status |-> "ACTIVE",
                        pictures |-> {}, offered |-> offered]
               ELSE service[s]]
    BY <1>3 DEF InsertSheet
  <2>2. slipped' = (slipped \/ \E r \in sheet : \/ ~CheckDuplicateName(r.name, {})
                                                \/ \E q \in sheet \ {r} : Fold[q.name] = Fold[r.name])
    BY <1>3 DEF InsertSheet
  <2>3. slipped' \in BOOLEAN /\ DOMAIN service' = Services
    BY <2>1, <2>2 DEF CatInv, CatTypes
  <2>4. ASSUME NEW s \in Services, service'[s] # service[s]
        PROVE  \E r \in sheet : /\ place[r] = s /\ service[s] = New /\ IsRow(service'[s])
                                /\ service'[s].name = r.name /\ service'[s].pictures = {}
    <3>1. \E r \in sheet : place[r] = s
      BY <2>1, <2>4
    <3>2. PICK r \in sheet : /\ place[r] = s
                             /\ service'[s] = [name |-> r.name, slug |-> r.slug, status |-> "ACTIVE",
                                               pictures |-> {}, offered |-> offered]
      BY <2>1, <3>1
    <3> QED BY <3>2 DEF IsRow, Statuses
  <2> HIDE DEF sheet, free
  <2>5. NamesApart'
    <3> SUFFICES ASSUME ~crossed, ~slipped', NEW s \in Listed', NEW t \in Listed', s # t
                 PROVE  Fold[service'[s].name] # Fold[service'[t].name]
      BY <1>1 DEF NamesApart
    <3>1. /\ ~slipped
          /\ \A r \in sheet : /\ \A u \in Listed : Fold[service[u].name] # Fold[r.name]
                              /\ \A q \in sheet \ {r} : Fold[q.name] # Fold[r.name]
      BY <2>2 DEF CheckDuplicateName
    <3>2. \A u \in Listed' : service'[u] = service[u] => u \in Listed
      BY DEF Listed, Rows
    <3>3. s \in Services /\ t \in Services
      BY DEF Listed, Rows
    <3>4. CASE service'[s] = service[s] /\ service'[t] = service[t]
      BY <1>1, <3>1, <3>2, <3>4 DEF CatInv, NamesApart
    <3>5. CASE service'[s] = service[s] /\ service'[t] # service[t]
      BY <2>4, <3>1, <3>2, <3>3, <3>5
    <3>6. CASE service'[s] # service[s] /\ service'[t] = service[t]
      BY <2>4, <3>1, <3>2, <3>3, <3>6
    <3>7. CASE service'[s] # service[s] /\ service'[t] # service[t]
      <4>1. PICK q \in sheet : place[q] = s /\ service'[s].name = q.name
        BY <2>4, <3>3, <3>7
      <4>2. PICK r \in sheet : place[r] = t /\ service'[t].name = r.name
        BY <2>4, <3>3, <3>7
      <4>3. q \in sheet \ {r}
        BY <4>1, <4>2
      <4> QED BY <3>1, <4>1, <4>2, <4>3
    <3> QED BY <3>4, <3>5, <3>6, <3>7
  <2>6. \A s \in Services : \/ service'[s] = service[s]
                            \/ service[s] = New /\ IsRow(service'[s]) /\ service'[s].pictures = {}
    BY <2>4
  <2>7. PicturesRight'
    <3>1. \A s \in Rows' : /\ s \in Services
                           /\ \/ service'[s].pictures = {}
                              \/ s \in Rows /\ service'[s].pictures = service[s].pictures
      BY <2>3, <2>6 DEF Rows
    <3>2. \A g \in Busy' : g \in Busy /\ catReq'[g] = catReq[g]
      BY <1>1, RowsAreRows DEF CatInv, CatTypes, Busy
    <3>3. \A g \in Busy' : OnService(catReq[g])' =>
              /\ g \in Busy /\ OnService(catReq[g]) /\ catReq'[g].s = catReq[g].s
              /\ catReq'[g].seen \subseteq catReq[g].seen
      BY <3>2 DEF OnService
    <3> QED BY <1>1, <3>1, <3>3, PicturesStay
  <2> HIDE DEF CatInv
  <2> QED BY <1>1, <2>3, <2>5, <2>6, <2>7, NewRows
<1> QED BY <1>2, <1>3

\* update of services.service.ts.
LEMMA UpdateKeepsCat ==
  ASSUME CatInv, NEW h \in CatReqs, UpdateRow(h) PROVE CatInv'
<1> DEFINE r == catReq[h]
           s == r.s
<1>1. /\ h \in Busy /\ r.op = "update" /\ r.phase = "write"
      /\ IsCatReq(r) /\ OnService(r) /\ s \in Services /\ r.body \in ChangeFields
      /\ upcoming' = upcoming /\ crossed' = crossed /\ slipped' = slipped /\ mixed' = mixed
  BY RowsAreRows DEF UpdateRow, In, CatInv, IsCatReq, OnService
<1>2. /\ ~crossed => s \in Listed /\ (r.body.name # "none" => CheckDuplicateName(r.body.name, {s}))
      /\ (r.body.status = "INACTIVE" /\ upcoming[s] = "booked" => raced[s])
      /\ ~mixed[s] /\ s \in Rows => r.seen = service[s].pictures
  BY <1>1 DEF CatInv, RequestsRight, NameRight, BookingRight, SeenRight, Due
<1>3. CASE s \notin Rows \/ (r.slug # << >> /\ SlugTaken(r.slug, s))
  <2>1. Leave(h) /\ service' = service /\ UNCHANGED pictureVars /\ raced' = raced
    BY <1>3 DEF UpdateRow
  <2>2. catReq' = [catReq EXCEPT ![h] = NoCatReq]
    BY <2>1 DEF Leave
  <2> QED BY <1>1, <2>1, <2>2, LeftAsItWas
<1>4. CASE ~(s \notin Rows \/ (r.slug # << >> /\ SlugTaken(r.slug, s)))
  <2> DEFINE name   == Or(r.body.name, service[s].name)
             status == Or(r.body.status, service[s].status)
  <2>1. PICK pictures, slug, left :
          /\ s \in Rows
          /\ service' = [service EXCEPT ![s] =
               [service[s] EXCEPT !.name = name, !.slug = slug, !.status = status, !.pictures = pictures]]
          /\ Stores(pictures, service[s].pictures)
          /\ raced' = [raced EXCEPT ![s] = raced[s] \/ (OffDuty(h) /\ upcoming[s] = "reading")]
          /\ left \in {{}, r.seen \ pictures}
          /\ catReq' = [catReq EXCEPT ![h].phase = "pictures", ![h].seen = left]
    <3>1. PICK pictures \in NewPictures(h) :
            /\ service' = [service EXCEPT ![catReq[h].s] =
                 [service[catReq[h].s] EXCEPT !.name = Or(catReq[h].body.name, @),
                           !.slug = IF catReq[h].slug = << >> THEN @ ELSE catReq[h].slug,
                           !.status = Or(catReq[h].body.status, @),
                           !.pictures = pictures]]
            /\ Stores(pictures, service[catReq[h].s].pictures)
            /\ raced' = [raced EXCEPT ![catReq[h].s] = @ \/ (OffDuty(h) /\ upcoming[catReq[h].s] = "reading")]
            /\ catReq' = [catReq EXCEPT ![h].phase = "pictures",
                            ![h].seen = IF catReq[h].body.pictures = "none" THEN {} ELSE @ \ pictures]
      BY <1>4 DEF UpdateRow
    <3>3. service' = [service EXCEPT ![s] =
                 [service[s] EXCEPT !.name = name,
                           !.slug = IF r.slug = << >> THEN service[s].slug ELSE r.slug,
                           !.status = status, !.pictures = pictures]]
      BY <3>1 DEF name, status
    <3>4. /\ Stores(pictures, service[s].pictures)
          /\ raced' = [raced EXCEPT ![s] = raced[s] \/ (OffDuty(h) /\ upcoming[s] = "reading")]
      BY <3>1
    <3>5. catReq' = [catReq EXCEPT ![h].phase = "pictures",
                       ![h].seen = IF r.body.pictures = "none" THEN {} ELSE r.seen \ pictures]
      <4>1. h \in DOMAIN catReq /\ "seen" \in DOMAIN r
        BY <1>1 DEF IsCatReq, CatInv, CatTypes
      <4> QED BY <3>1, <4>1
    <3>2. (IF r.body.pictures = "none" THEN {} ELSE r.seen \ pictures) \in {{}, r.seen \ pictures}
      OBVIOUS
    <3> QED BY <1>4, <3>2, <3>3, <3>4, <3>5, Zenon
  <2> HIDE DEF name, status
  <2>2. PICK q : /\ q = [[r EXCEPT !.phase = "pictures"] EXCEPT !.seen = left]
                 /\ catReq' = [catReq EXCEPT ![h] = q]
    BY <1>1, <2>1 DEF CatInv, CatTypes
  <2>3. /\ DOMAIN q = {"op", "phase", "s", "body", "slug", "seen"}
        /\ q.op = r.op /\ q.s = s /\ q.body = r.body /\ q.phase = "pictures" /\ q.seen = left
    BY <1>1, <2>2 DEF IsCatReq
  <2>4. IsCatReq(q)
    BY <1>1, <2>3 DEF IsCatReq, OnService
  <2>5. IsRow(service[s])
    BY <2>1, RowsAreRows DEF CatInv
  <2>6. /\ DOMAIN service' = Services
        /\ \A t \in Services \ {s} : service'[t] = service[t] /\ raced'[t] = raced[t]
        /\ raced'[s] = (raced[s] \/ (OffDuty(h) /\ upcoming[s] = "reading"))
    BY <1>1, <2>1 DEF CatInv, CatTypes
  <2>7. /\ service'[s].name = name /\ service'[s].status = status /\ service'[s].pictures = pictures
        /\ IsRow(service'[s])
    <3>1. service'[s] = [service[s] EXCEPT !.name = name, !.slug = slug, !.status = status, !.pictures = pictures]
      BY <1>1, <2>1 DEF CatInv, CatTypes
    <3>2. status \in Statuses
      BY <1>1, <2>5 DEF status, Or, ChangeFields, IsRow, Statuses
    <3> HIDE DEF s
    <3> QED BY <2>5, <3>1, <3>2 DEF IsRow
  <2>8. Rows' = Rows
    <3>1. service'[s] \notin {New, Gone}
      BY <2>7 DEF IsRow, New, Gone, Statuses
    <3> HIDE DEF s
    <3> QED BY <1>1, <2>1, <2>6, <3>1 DEF Rows
  <2>9. NamesApart'
    <3> SUFFICES ASSUME ~crossed, ~slipped PROVE \A t, u \in Listed' : t # u => Fold[service'[t].name] # Fold[service'[u].name]
      BY <1>1 DEF NamesApart
    <3>1. s \in Listed /\ \A t \in Listed' : t \in Listed /\ t \in Services
      BY <1>2, <2>6, <2>8 DEF Listed, Rows
    <3>2. \A t \in Listed \ {s} : Fold[service[t].name] # Fold[name]
      BY <1>2, <3>1 DEF CatInv, NamesApart, CheckDuplicateName, name, Or
    <3>3. \A t, u \in Listed : t # u => Fold[service[t].name] # Fold[service[u].name]
      BY DEF CatInv, NamesApart
    <3> HIDE DEF s
    <3> QED BY <2>6, <2>7, <3>1, <3>2, <3>3
  <2>10. OpenToBook'
    <3>1. ASSUME upcoming[s] \in {"reading", "booked"}, ~raced'[s] PROVE status # "INACTIVE"
      <4>1. ~raced[s] /\ ~(OffDuty(h) /\ upcoming[s] = "reading")
        BY <2>6, <3>1
      <4>2. service[s].status # "INACTIVE"
        BY <1>1, <3>1, <4>1 DEF CatInv, OpenToBook
      <4>4. r.body.status # "INACTIVE"
        BY <1>2, <3>1, <4>1 DEF OffDuty
      <4> QED BY <4>2, <4>4 DEF status, Or
    <3> HIDE DEF s
    <3> QED BY <1>1, <2>1, <2>6, <2>7, <2>8, <3>1 DEF CatInv, OpenToBook
  <2>11. PicturesRight'
    <3>1. \A t \in Rows' : t \in Services /\ (t # s => t \in Rows /\ service'[t] = service[t])
      BY <2>6, <2>8 DEF Rows
    <3>2. \A g \in Busy' : \/ g \in Busy /\ catReq'[g] = catReq[g]
                           \/ g = h /\ catReq'[g] = q
      BY <1>1, <2>2, RowsAreRows DEF CatInv, CatTypes, Busy
    <3>3. q.seen \subseteq r.seen
      BY <2>1, <2>3
    <3>4. \A g \in Busy' : OnService(catReq[g])' =>
              /\ g \in Busy /\ OnService(catReq[g]) /\ catReq'[g].s = catReq[g].s
              /\ catReq'[g].seen \subseteq catReq[g].seen
      BY <1>1, <2>3, <3>2, <3>3 DEF OnService
    <3> HIDE DEF s, r
    <3> QED BY <1>1, <2>1, <2>7, <3>1, <3>4, PicturesStored
  <2>12. /\ ~crossed => NameRight(q)'
         /\ BookingRight(q)' /\ SeenRight(q)'
    <3>1. left \cap pictures = {}
      BY <2>1
    <3>2. ~Due(q) /\ q.op # "create"
      BY <1>1, <2>3 DEF Due
    <3>3. NameRight(q)' /\ BookingRight(q)'
      BY <3>2 DEF NameRight, BookingRight
    <3>4. service'[s] # New
      BY <2>7 DEF IsRow, New, Statuses
    <3>5. SeenRight(q)'
      BY <2>3, <2>7, <3>1, <3>2, <3>4 DEF SeenRight
    <3> QED BY <3>3, <3>5
  <2>13. /\ \A t \in Services : service'[t] = New \/ service'[t] = Gone \/ IsRow(service'[t])
         /\ \A t \in Services : raced[t] => raced'[t]
         /\ \A t \in Services : service[t] # New =>
              /\ service'[t] # New
              /\ service'[t] = service[t] \/ (OnService(r) /\ t = s)
    <3>1. service'[s] # New
      BY <2>7 DEF IsRow, New, Statuses
    <3> HIDE DEF s
    <3> QED BY <1>1, <2>6, <2>7, <3>1 DEF CatInv, CatTypes
  <2>14. raced' \in [Services -> BOOLEAN] /\ slipped' \in BOOLEAN
    <3> DEFINE b == raced[s] \/ (OffDuty(h) /\ upcoming[s] = "reading")
    <3>1. b \in BOOLEAN /\ raced' = [raced EXCEPT ![s] = b]
      BY <2>1
    <3> HIDE DEF b
    <3>2. raced \in [Services -> BOOLEAN] /\ slipped \in BOOLEAN
      BY DEF CatInv, CatTypes
    <3>3. raced' \in [Services -> BOOLEAN]
      BY <3>1, <3>2
    <3> QED BY <1>1, <3>2, <3>3
  <2> HIDE DEF CatInv
  <2> QED BY <1>1, <2>2, <2>3, <2>4, <2>6, <2>9, <2>10, <2>11, <2>12, <2>13, <2>14, CatStep
<1> QED BY <1>3, <1>4

\* "SAU KHI DB update thanh cong": what is dropped is no longer shown.
LEMMA DropKeepsCat ==
  ASSUME CatInv, NEW h \in CatReqs, DropPictures(h) PROVE CatInv'
<1> DEFINE r == catReq[h]
           s == r.s
<1>1. /\ h \in Busy /\ r.phase = "pictures" /\ IsCatReq(r) /\ OnService(r) /\ s \in Services
      /\ uploaded' = uploaded /\ resent' = resent
      /\ \E dropped \in SUBSET r.seen : kept' = kept \ dropped
      /\ service' = service /\ upcoming' = upcoming /\ crossed' = crossed
      /\ slipped' = slipped /\ mixed' = mixed /\ raced' = raced
  BY RowsAreRows DEF DropPictures, In, CatInv, IsCatReq, OnService
<1>2. Rows' = Rows /\ Listed' = Listed
  BY <1>1 DEF Rows, Listed
<1>3. PICK q : /\ catReq' = [catReq EXCEPT ![h] = q]
               /\ q = NoCatReq \/ (IsCatReq(q) /\ q.s = s /\ q.phase = "variants" /\ q.op = r.op /\ q.seen = r.seen)
  <2>1. CASE r.op = "remove"
    BY <2>1 DEF DropPictures, Leave
  <2>2. CASE r.op # "remove"
    <3> DEFINE q == [r EXCEPT !.phase = "variants"]
    <3>1. catReq' = [catReq EXCEPT ![h] = q]
      BY <2>2 DEF DropPictures, Passes
    <3>2. /\ DOMAIN q = {"op", "phase", "s", "body", "slug", "seen"}
          /\ q.op = r.op /\ q.s = s /\ q.body = r.body /\ q.phase = "variants" /\ q.seen = r.seen
      BY <1>1 DEF IsCatReq
    <3> HIDE DEF q
    <3> QED BY <1>1, <3>1, <3>2 DEF IsCatReq, OnService
  <2> QED BY <2>1, <2>2
<1>4. DOMAIN service' = Services /\ slipped' \in BOOLEAN
      /\ raced' \in [Services -> BOOLEAN]
      /\ \A t \in Services : service'[t] = New \/ service'[t] = Gone \/ IsRow(service'[t])
  BY <1>1 DEF CatInv, CatTypes
<1>5. q # NoCatReq => /\ ~crossed => NameRight(q)'
                      /\ BookingRight(q)' /\ SeenRight(q)'
  <2> SUFFICES ASSUME q # NoCatReq PROVE NameRight(q)' /\ BookingRight(q)' /\ SeenRight(q)'
    OBVIOUS
  <2>1. ~Due(q) /\ q.op # "create" /\ q.phase # "pictures"
    BY <1>1, <1>3 DEF Due, OnService
  <2>2. service[s] # New
    BY <1>1 DEF CatInv, RequestsRight, SeenRight
  <2> QED BY <1>1, <1>3, <2>1, <2>2 DEF NameRight, BookingRight, SeenRight
<1>6. NamesApart' /\ OpenToBook'
  BY <1>1, <1>2 DEF CatInv, NamesApart, OpenToBook
<1>7. PicturesRight'
  <2>0. PicturesKnown /\ HeldOnce /\ PicturesAreThere
    BY DEF CatInv, PicturesRight
  <2>1. ~mixed[s] /\ s \in Rows => r.seen \cap service[s].pictures = {}
    BY <1>1 DEF CatInv, RequestsRight, SeenRight
  <2>2. \A g \in Busy' : OnService(catReq[g])' =>
            /\ g \in Busy /\ catReq'[g].s = catReq[g].s
            /\ \/ g = h /\ catReq'[g] = q /\ q # NoCatReq
               \/ catReq'[g] = catReq[g]
    BY <1>1, <1>3, RowsAreRows DEF CatInv, CatTypes, Busy
  <2>3. \A g \in Busy' : OnService(catReq[g])' =>
            /\ g \in Busy /\ OnService(catReq[g]) /\ catReq'[g].s = catReq[g].s
            /\ catReq'[g].seen \subseteq catReq[g].seen
    BY <1>1, <1>3, <2>2 DEF OnService
  <2>4. PicturesKnown'
    BY <1>1, <1>2, <2>0, <2>3 DEF PicturesKnown
  <2>5. \A t, p : Holds(t, p)' => Holds(t, p)
    BY <1>1, <1>2, <2>3 DEF Holds
  <2>6. HeldOnce'
    BY <1>1, <2>0, <2>5 DEF HeldOnce
  <2>7. PicturesAreThere'
    <3> SUFFICES ASSUME NEW t \in Rows, ~mixed[t], NEW p \in service[t].pictures, p \notin resent
                 PROVE  p \in kept'
      BY <1>1, <1>2 DEF PicturesAreThere
    <3>1. p \in kept /\ p \in uploaded /\ t \in Services /\ Holds(t, p)
      BY <2>0 DEF PicturesAreThere, PicturesKnown, Holds, Rows
    <3>2. p \in r.seen => Holds(s, p)
      BY <1>1 DEF Holds
    <3>3. p \in r.seen => s = t
      BY <1>1, <2>0, <3>1, <3>2 DEF HeldOnce
    <3>4. p \notin r.seen
      BY <2>1, <3>3
    <3> QED BY <1>1, <3>1, <3>4
  <2> QED BY <2>4, <2>6, <2>7 DEF PicturesRight
<1> HIDE DEF CatInv
<1> QED BY <1>1, <1>3, <1>4, <1>5, <1>6, <1>7, CatStep

\* hardDelete of services.service.ts.
LEMMA DeleteKeepsCat ==
  ASSUME CatInv, NEW h \in CatReqs, DeleteRow(h) PROVE CatInv'
<1> DEFINE r == catReq[h]
           s == r.s
<1>1. /\ h \in Busy /\ r.op = "remove" /\ r.phase = "write" /\ r.body = [status |-> "gone"]
      /\ IsCatReq(r) /\ OnService(r) /\ s \in Services
      /\ UNCHANGED pictureVars /\ upcoming' = upcoming /\ crossed' = crossed
      /\ slipped' = slipped /\ mixed' = mixed /\ slipped' \in BOOLEAN
  BY RowsAreRows DEF DeleteRow, In, CatInv, CatTypes, IsCatReq, OnService
<1>2. CASE s \notin Rows
  <2>1. catReq' = [catReq EXCEPT ![h] = NoCatReq] /\ service' = service /\ raced' = raced
    BY <1>2 DEF DeleteRow, Leave
  <2> QED BY <1>1, <2>1, LeftAsItWas
<1>3. CASE s \in Rows
  <2>1. /\ service' = [service EXCEPT ![s] = Gone]
        /\ raced' = [raced EXCEPT ![s] = raced[s] \/ upcoming[s] = "reading"]
        /\ catReq' = [catReq EXCEPT ![h].phase = "pictures"]
    BY <1>3 DEF DeleteRow, Passes
  <2>2. PICK q : q = [r EXCEPT !.phase = "pictures"] /\ catReq' = [catReq EXCEPT ![h] = q]
    BY <2>1
  <2>3. /\ DOMAIN q = {"op", "phase", "s", "body", "slug", "seen"}
        /\ q.op = r.op /\ q.s = s /\ q.body = r.body /\ q.phase = "pictures"
    BY <1>1, <2>2 DEF IsCatReq
  <2>4. IsCatReq(q)
    BY <1>1, <2>3 DEF IsCatReq, OnService
  <2>5. /\ DOMAIN service' = Services /\ service'[s] = Gone
        /\ \A t \in Services \ {s} : service'[t] = service[t] /\ raced'[t] = raced[t]
        /\ raced'[s] = (raced[s] \/ upcoming[s] = "reading")
    BY <1>1, <2>1 DEF CatInv, CatTypes
  <2>6. Rows' = Rows \ {s} /\ Listed' = Listed \ {s}
    <3> HIDE DEF s
    <3> QED BY <2>5 DEF Rows, Listed
  <2>7. NamesApart'
    <3>1. \A t \in Listed' : t \in Listed /\ service'[t] = service[t]
      BY <2>5, <2>6 DEF Listed, Rows
    <3> QED BY <1>1, <3>1 DEF CatInv, NamesApart
  <2>8. OpenToBook'
    <3>1. upcoming[s] \in {"reading", "booked"} => raced'[s]
      <4>1. upcoming[s] = "booked" => raced[s]
        BY <1>1 DEF CatInv, RequestsRight, BookingRight, Due
      <4> QED BY <2>5, <4>1
    <3> HIDE DEF s
    <3> QED BY <1>1, <2>5, <2>6, <3>1 DEF CatInv, OpenToBook
  <2>9. PicturesRight'
    <3>1. \A t \in Rows' : /\ t \in Services
                           /\ t \in Rows /\ service'[t].pictures = service[t].pictures
      BY <2>5, <2>6 DEF Rows
    <3>2. \A g \in Busy' : \/ g \in Busy /\ catReq'[g] = catReq[g]
                           \/ g = h /\ catReq'[g] = q
      BY <1>1, <2>2, RowsAreRows DEF CatInv, CatTypes, Busy
    <3>4. q.seen = r.seen
      BY <1>1, <2>2 DEF IsCatReq
    <3>3. \A g \in Busy' : OnService(catReq[g])' =>
              /\ g \in Busy /\ OnService(catReq[g]) /\ catReq'[g].s = catReq[g].s
              /\ catReq'[g].seen \subseteq catReq[g].seen
      BY <1>1, <2>3, <3>2, <3>4 DEF OnService
    <3> QED BY <1>1, <3>1, <3>3, PicturesStay
  <2>10. /\ ~crossed => NameRight(q)'
         /\ BookingRight(q)' /\ SeenRight(q)'
    <3>1. ~Due(q) /\ q.op = "remove" /\ Gone # New
      BY <1>1, <2>3 DEF Due, Gone, New
    <3> QED BY <2>3, <2>5, <2>6, <3>1 DEF NameRight, BookingRight, SeenRight
  <2>11. /\ \A t \in Services : service'[t] = New \/ service'[t] = Gone \/ IsRow(service'[t])
         /\ \A t \in Services : raced[t] => raced'[t]
         /\ \A t \in Services : service[t] # New =>
              /\ service'[t] # New
              /\ service'[t] = service[t] \/ (OnService(r) /\ t = s)
    <3>1. Gone # New
      BY DEF Gone, New
    <3> HIDE DEF s
    <3> QED BY <1>1, <2>5, <3>1 DEF CatInv, CatTypes
  <2>12. raced' \in [Services -> BOOLEAN]
    <3> DEFINE b == raced[s] \/ upcoming[s] = "reading"
    <3>1. b \in BOOLEAN /\ raced' = [raced EXCEPT ![s] = b]
      BY <2>1
    <3> HIDE DEF b
    <3> QED BY <3>1 DEF CatInv, CatTypes
  <2> HIDE DEF CatInv
  <2> QED BY <1>1, <2>2, <2>3, <2>4, <2>5, <2>7, <2>8, <2>9, <2>10, <2>11, <2>12, CatStep
<1> QED BY <1>2, <1>3

\* A booking that is made next to a request for the service has raced with it.
LEMMA BookingKeepsCat ==
  ASSUME CatInv, NEW s \in Services, ReadForBooking(s) \/ Book(s) \/ EndOfBooking(s) \/ Revive(s)
  PROVE  CatInv'
<1>1. /\ service' = service /\ UNCHANGED pictureVars /\ catReq' = catReq
      /\ crossed' = crossed /\ slipped' = slipped /\ mixed' = mixed
  BY DEF ReadForBooking, Book, EndOfBooking, Revive
<1>2. Rows' = Rows /\ Listed' = Listed /\ Busy' = Busy
  BY <1>1 DEF Rows, Listed, Busy
<1>3. /\ upcoming' \in [Services -> Bookings] /\ raced' \in [Services -> BOOLEAN]
      /\ \A t \in Services : raced[t] => raced'[t]
      /\ \A t \in Services \ {s} : upcoming'[t] = upcoming[t] /\ raced'[t] = raced[t]
      /\ upcoming'[s] = "booked" => s \in Rows /\ \A h \in Busy : catReq[h].s = s => raced'[s]
      /\ upcoming'[s] \in {"reading", "booked"} => \/ upcoming[s] \in {"reading", "booked"}
                                                   \/ s \in Rows /\ service[s].status = "ACTIVE"
  <2> USE DEF Bookings
  <2>1. /\ upcoming \in [Services -> Bookings]
        /\ raced \in [Services -> BOOLEAN]
    BY DEF CatInv, CatTypes
  <2>2. CASE ReadForBooking(s)
    BY <2>1, <2>2 DEF ReadForBooking
  <2>5. CASE Revive(s)
    BY <2>1, <2>5 DEF Revive
  <2>3. CASE Book(s)
    <3> DEFINE b == raced[s] \/ \E h \in Busy : catReq[h].s = s
    <3>1. b \in BOOLEAN /\ raced' = [raced EXCEPT ![s] = b]
      BY <2>3 DEF Book
    <3>2. (raced[s] => b) /\ \A h \in Busy : catReq[h].s = s => b
      OBVIOUS
    <3> HIDE DEF b
    <3> QED BY <2>1, <2>3, <3>1, <3>2 DEF Book
  <2>4. CASE EndOfBooking(s)
    BY <2>1, <2>4 DEF EndOfBooking
  <2> QED BY <2>2, <2>3, <2>4, <2>5
<1>4. OpenToBook'
  <2>1. ASSUME upcoming'[s] \in {"reading", "booked"}, ~raced'[s] PROVE s \in Rows /\ service[s].status # "INACTIVE"
    BY <1>3, <2>1 DEF CatInv, OpenToBook
  <2> QED BY <1>1, <1>2, <1>3, <2>1 DEF CatInv, OpenToBook
<1>5. ASSUME NEW h \in Busy
      PROVE  /\ ~crossed' => NameRight(catReq[h])'
             /\ BookingRight(catReq[h])' /\ SeenRight(catReq[h])'
  <2>1. /\ ~crossed => NameRight(catReq[h])
        /\ BookingRight(catReq[h]) /\ SeenRight(catReq[h]) /\ IsCatReq(catReq[h])
    BY RowsAreRows DEF CatInv, RequestsRight
  <2>2. ~crossed' => NameRight(catReq[h])'
    BY <1>1, <1>2, <2>1 DEF NameRight, CheckDuplicateName
  <2>3. SeenRight(catReq[h])'
    BY <1>1, <1>2, <2>1 DEF SeenRight
  <2>4. BookingRight(catReq[h])'
    BY <1>1, <1>3, <2>1 DEF BookingRight, IsCatReq
  <2> QED BY <2>2, <2>3, <2>4
<1>6. RequestsRight'
  BY <1>2, <1>5 DEF RequestsRight
<1>7. CatTypes' /\ CatAlone' /\ AloneWith'
  BY <1>1, <1>2, <1>3 DEF CatInv, CatTypes, CatAlone, AloneWith
<1>9. NamesApart'
  BY <1>1, <1>2 DEF CatInv, NamesApart
<1>8. NamesApart' /\ PicturesRight'
  <2>1. \A h \in Busy' : OnService(catReq[h])' =>
            /\ h \in Busy /\ OnService(catReq[h]) /\ catReq'[h].s = catReq[h].s
            /\ catReq'[h].seen \subseteq catReq[h].seen
    BY <1>1, <1>2 DEF OnService
  <2> QED BY <1>1, <1>2, <1>9, <2>1, PicturesStay, RowsAreRows DEF CatInv
<1> QED BY <1>4, <1>6, <1>7, <1>8 DEF CatInv

\* A name stands for one listed service; what an upcoming booking names keeps its row and is not
\* made INACTIVE; the pictures shown are there: but for requests that overlapped, bookings that
\* came back, and URLs a client sent again (services.service.ts).
THEOREM ShelvesInOrder == CatSpec => []CatalogueInOrder
<1>1. CatInit => CatInv
  <2> SUFFICES ASSUME CatInit PROVE CatInv
    OBVIOUS
  <2>1. Rows = {} /\ Busy = {} /\ Listed = {}
    BY DEF CatInit, Rows, Busy, Listed
  <2>2. CatTypes
    BY DEF CatInit, CatTypes, Bookings
  <2> QED BY <2>1, <2>2 DEF CatInit, CatInv, CatAlone, AloneWith, RequestsRight, NamesApart,
             OpenToBook, PicturesRight, PicturesKnown, HeldOnce, PicturesAreThere
<1>2. CatInv /\ [CatNext]_catVars => CatInv'
  <2> SUFFICES ASSUME CatInv, [CatNext]_catVars PROVE CatInv'
    OBVIOUS
  <2>1. CASE UNCHANGED catVars
    <3>1. Rows' = Rows /\ Busy' = Busy /\ Listed' = Listed
      BY <2>1 DEF catVars, Rows, Busy, Listed
    <3>2. CatTypes'
      BY <2>1 DEF catVars, CatInv, CatTypes
    <3>3. RequestsRight'
      BY <2>1, <3>1 DEF catVars, CatInv, RequestsRight, NameRight, BookingRight, SeenRight,
         CheckDuplicateName
    <3>4. PicturesRight'
      <4>1. \A h \in Busy' : OnService(catReq[h])' =>
                /\ h \in Busy /\ OnService(catReq[h]) /\ catReq'[h].s = catReq[h].s
                /\ catReq'[h].seen \subseteq catReq[h].seen
        BY <2>1, <3>1 DEF catVars, OnService
      <4>2. UNCHANGED pictureVars /\ service' = service /\ mixed' = mixed
        BY <2>1 DEF catVars
      <4> QED BY <3>1, <4>1, <4>2, PicturesStay, RowsAreRows DEF CatInv
    <3> QED BY <2>1, <3>1, <3>2, <3>3, <3>4 DEF catVars, CatInv, CatAlone, AloneWith, NamesApart,
               OpenToBook
  <2>2. ASSUME NEW h \in CatReqs,
               \/ Create(h) \/ Update(h) \/ Remove(h) \/ BulkHardDelete(h) \/ ImportServices(h)
               \/ MakeSlug(h) \/ InsertService(h) \/ UpdateRow(h) \/ DropPictures(h)
               \/ UpdateVariants(h) \/ DeleteRow(h) \/ ReadSlugs(h) \/ InsertSheet(h)
        PROVE  CatInv'
    BY <2>2, CatBegins, SlugKeepsCat, InsertKeepsCat, UpdateKeepsCat, DropKeepsCat,
       VariantsKeepCat, DeleteKeepsCat, SheetKeepsCat
  <2>3. CASE CatNext
    BY <2>2, <2>3, BookingKeepsCat, CatalogueConstants DEF CatNext
  <2> QED BY <2>1, <2>3
<1>3. CatInv => CatalogueInOrder
  BY DEF CatInv, CatalogueInOrder, OpenToBook, BookedIsKept, PicturesRight
<1> QED BY <1>1, <1>2, <1>3, PTL DEF CatSpec

-----------------------------------------------------------------------------
(* The reviews of one store.  Requests that overlap are inserts, as long as       *)
(* nobody moderates; of these only one gets to write the average of the store,     *)
(* and the others have not begun by then: what it has counted is what there is.    *)

RevSpec == RevInit /\ [][RevNext]_revVars

ReviewRow == [rating : Ratings \cup {0}, visible : BOOLEAN]

\* What a transaction has recalculated so far.
NewRight(r) ==
  /\ DOMAIN r.new = CASE r.phase \in {"begin", "store"} -> {}
                      [] r.phase = "staff"              -> {Store}
                      [] r.phase = "commit"             -> {Store, StaffOf[r.i]}
  /\ \A a \in DOMAIN r.new : r.new[a] = Visible(r.rows, a)

IsRevReq(r) ==
  /\ DOMAIN r = {"op", "phase", "i", "rows", "new", "to"}
  /\ r.i \in Items /\ r.rows \in [Items -> ReviewRow] /\ r.to \in ReviewRow
  /\ \/ r.op \in Transactional /\ r.phase \in {"begin", "store", "staff", "commit"} /\ NewRight(r)
     \/ r.op \in {"update", "remove"} /\ r.phase \in {"begin", "store", "setStore", "staff", "setStaff"}

RevTypes ==
  /\ review \in [Items -> ReviewRow] /\ DOMAIN credit = Averages /\ moderated \in BOOLEAN
  /\ DOMAIN revReq = RevReqs
  /\ \A h \in RevReqs : revReq[h] = NoRevReq \/ IsRevReq(revReq[h])

\* Requests that overlap are inserts, and behind one that has written no other has begun.
OnlyInserts == \A g, h \in AtWork : g # h => revReq[g].op = "create" /\ revReq[h].op = "create"
Past(r)     == r.op \in Transactional /\ r.phase \in {"staff", "commit"}
FirstWrites == \A g, h \in AtWork : g # h /\ Past(revReq[h]) => revReq[g].phase = "begin"

\* What a request counts from is what there is, but for its own review.
SnapshotRight(r) ==
  /\ r.op \in Transactional /\ r.phase # "begin" => \A j \in Items \ {r.i} : r.rows[j] = review[j]
  /\ r.op \notin Transactional /\ r.phase \in {"setStore", "setStaff"} => r.rows = review

\* The averages an update or removal has yet to set.
Pending(r) ==
  IF r.op \in Transactional \/ r.phase = "begin" THEN {}
  ELSE IF r.phase \in {"store", "setStore"} THEN {Store, StaffOf[r.i]} ELSE {StaffOf[r.i]}

CreditRight ==
  \A a \in Averages : (\A h \in AtWork : a \notin Pending(revReq[h])) => credit[a] = Visible(review, a)

RevInv ==
  /\ RevTypes
  /\ ~moderated => /\ OnlyInserts /\ FirstWrites /\ CreditRight
                   /\ \A h \in AtWork : SnapshotRight(revReq[h])

LEMMA AtWorkTyped ==
  ASSUME RevTypes
  PROVE  AtWork \subseteq RevReqs /\ \A h \in AtWork : IsRevReq(revReq[h])
BY DEF RevTypes, AtWork

\* An average depends on the reviews it is of.
LEMMA SameStars ==
  ASSUME NEW f, NEW g, NEW a, \A j \in Items : a \in {Store, StaffOf[j]} => f[j] = g[j]
  PROVE  Visible(f, a) = Visible(g, a)
<1>1. {j \in Items : f[j].visible /\ a \in {Store, StaffOf[j]}} =
      {j \in Items : g[j].visible /\ a \in {Store, StaffOf[j]}}
  OBVIOUS
<1>2. \A j \in {k \in Items : g[k].visible /\ a \in {Store, StaffOf[k]}} : f[j] = g[j]
  OBVIOUS
<1> QED BY <1>1, <1>2 DEF Visible

\* A step of request h, which ends (NoRevReq) or goes on as q.
LEMMA RevStep ==
  ASSUME RevInv, NEW h \in AtWork, NEW q,
         q = NoRevReq \/ (IsRevReq(q) /\ q.op = revReq[h].op),
         revReq' = [revReq EXCEPT ![h] = q], moderated' = moderated,
         review' \in [Items -> ReviewRow], DOMAIN credit' = Averages,
         ~moderated =>
            /\ q # NoRevReq => SnapshotRight(q)'
            /\ review' = review \/ \A g \in AtWork \ {h} : revReq[g].op = "create" /\ revReq[g].phase = "begin"
            /\ q # NoRevReq /\ Past(q) => \A g \in AtWork \ {h} : revReq[g].phase = "begin"
            /\ q # NoRevReq => q.phase = "begin" \/ \A g \in AtWork \ {h} : ~Past(revReq[g])
            /\ CreditRight'
  PROVE  RevInv'
<1>1. /\ DOMAIN revReq' = RevReqs /\ h \in RevReqs /\ revReq'[h] = q
      /\ \A g \in RevReqs \ {h} : revReq'[g] = revReq[g]
  BY AtWorkTyped DEF RevInv, RevTypes
<1>2. AtWork' \subseteq AtWork /\ AtWork \subseteq RevReqs /\ (h \in AtWork' => q # NoRevReq)
  BY <1>1 DEF AtWork
<1>3. RevTypes'
  <2>1. \A g \in RevReqs : revReq'[g] = NoRevReq \/ IsRevReq(revReq'[g])
    BY <1>1 DEF RevInv, RevTypes
  <2> QED BY <1>1, <2>1 DEF RevInv, RevTypes
<1>4. ASSUME ~moderated PROVE OnlyInserts'
  <2>1. \A g \in AtWork' : revReq'[g].op = revReq[g].op
    BY <1>1, <1>2
  <2> QED BY <1>2, <1>4, <2>1 DEF RevInv, OnlyInserts
<1>5. ASSUME ~moderated PROVE FirstWrites'
  <2> SUFFICES ASSUME NEW f \in AtWork', NEW g \in AtWork', f # g, Past(revReq'[g])
               PROVE  revReq'[f].phase = "begin"
    BY DEF FirstWrites, Past
  <2>1. f \in AtWork /\ g \in AtWork
    BY <1>2
  <2>2. CASE f = h
    BY <1>1, <1>2, <1>5, <2>1, <2>2
  <2>3. CASE g = h
    BY <1>1, <1>2, <1>5, <2>1, <2>3
  <2>4. CASE f # h /\ g # h
    BY <1>1, <1>2, <1>5, <2>1, <2>4 DEF RevInv, FirstWrites
  <2> QED BY <2>2, <2>3, <2>4
<1>6. ASSUME ~moderated, NEW g \in AtWork' PROVE SnapshotRight(revReq[g])'
  <2>1. CASE g = h
    BY <1>1, <1>2, <1>6, <2>1 DEF SnapshotRight
  <2>2. CASE g # h
    <3>1. g \in AtWork \ {h} /\ revReq'[g] = revReq[g] /\ SnapshotRight(revReq[g])
      BY <1>1, <1>2, <1>6, <2>2 DEF RevInv
    <3> QED BY <1>6, <3>1 DEF SnapshotRight, Transactional
  <2> QED BY <2>1, <2>2
<1> QED BY <1>3, <1>4, <1>5, <1>6 DEF RevInv

\* Averages and reviews that stay as they are.
LEMMA CreditStays ==
  ASSUME RevInv, ~moderated, NEW h \in AtWork, NEW q, revReq' = [revReq EXCEPT ![h] = q],
         review' = review, credit' = credit,
         \/ Pending(revReq[h]) = {}
         \/ q # NoRevReq /\ Pending(revReq[h]) \subseteq Pending(q)
  PROVE  CreditRight'
<1>1. /\ h \in RevReqs /\ revReq'[h] = q /\ (q # NoRevReq => h \in AtWork')
      /\ \A g \in AtWork \ {h} : g \in AtWork' /\ revReq'[g] = revReq[g]
  BY AtWorkTyped DEF RevInv, RevTypes, AtWork
<1> SUFFICES ASSUME NEW a \in Averages, \A g \in AtWork' : a \notin Pending(revReq'[g])
             PROVE  credit[a] = Visible(review, a)
  BY DEF CreditRight, Visible, Pending
<1>2. \A g \in AtWork \ {h} : a \notin Pending(revReq[g])
  BY <1>1
<1>3. a \notin Pending(revReq[h])
  BY <1>1
<1> QED BY <1>2, <1>3 DEF RevInv, CreditRight

\* Whoever moderates is alone.
LEMMA Lonely ==
  ASSUME RevInv, ~moderated, NEW h \in AtWork, revReq[h].op # "create" PROVE AtWork = {h}
BY DEF RevInv, OnlyInserts

\* A request that begins.
LEMMA CallKeepsRev ==
  ASSUME RevInv, NEW h \in RevReqs, Call(h) PROVE RevInv'
<1>1. PICK i \in Items, op \in {"create", "update", "remove", "toggle"}, rating \in Ratings,
           visible \in BOOLEAN :
        /\ h \notin AtWork
        /\ (op = "create") <=> (review[i] = NoReview)
        /\ revReq' = [revReq EXCEPT ![h] =
             [op |-> op, phase |-> "begin", i |-> i, rows |-> review, new |-> << >>,
              to |-> CASE op = "create" -> [rating |-> rating, visible |-> TRUE]
                       [] op = "update" -> [rating |-> rating, visible |-> visible]
                       [] op = "toggle" -> [review[i] EXCEPT !.visible = visible]
                       [] op = "remove" -> NoReview]]
        /\ moderated' = (moderated \/ \E g \in AtWork : op # "create" \/ revReq[g].op # "create")
        /\ UNCHANGED <<review, credit>>
  BY DEF Call
<1> DEFINE to == CASE op = "create" -> [rating |-> rating, visible |-> TRUE]
                   [] op = "update" -> [rating |-> rating, visible |-> visible]
                   [] op = "toggle" -> [review[i] EXCEPT !.visible = visible]
                   [] op = "remove" -> NoReview
           r == [op |-> op, phase |-> "begin", i |-> i, rows |-> review, new |-> << >>, to |-> to]
<1>2. to \in ReviewRow
  <2>1. review[i] \in ReviewRow
    BY DEF RevInv, RevTypes
  <2>2. [review[i] EXCEPT !.visible = visible] \in ReviewRow
    BY <2>1 DEF ReviewRow
  <2>3. NoReview \in ReviewRow /\ \A v \in BOOLEAN : [rating |-> rating, visible |-> v] \in ReviewRow
    BY DEF NoReview, ReviewRow
  <2> QED BY <2>2, <2>3
<1> HIDE DEF to
<1>3. /\ r.op = op /\ r.phase = "begin" /\ r.i = i /\ r.rows = review /\ r.new = << >> /\ r.to = to
      /\ DOMAIN r = {"op", "phase", "i", "rows", "new", "to"}
  OBVIOUS
<1>4. revReq' = [revReq EXCEPT ![h] = r]
  BY <1>1 DEF to
<1> HIDE DEF r
<1>5. IsRevReq(r)
  <2>1. NewRight(r)
    BY <1>3 DEF NewRight
  <2> QED BY <1>2, <1>3, <2>1 DEF IsRevReq, RevInv, RevTypes, Transactional
<1>6. /\ DOMAIN revReq' = RevReqs /\ revReq'[h] = r /\ r # NoRevReq
      /\ \A g \in RevReqs \ {h} : revReq'[g] = revReq[g]
  <2>1. r # NoRevReq
    BY <1>3 DEF NoRevReq
  <2> QED BY <1>4, <2>1 DEF RevInv, RevTypes
<1>7. AtWork' = AtWork \cup {h} /\ AtWork \subseteq RevReqs /\ h \notin AtWork
  BY <1>1, <1>6 DEF AtWork
<1>8. RevTypes'
  <2>1. \A g \in RevReqs : revReq'[g] = NoRevReq \/ IsRevReq(revReq'[g])
    BY <1>5, <1>6 DEF RevInv, RevTypes
  <2>2. moderated' \in BOOLEAN
    BY <1>1 DEF RevInv, RevTypes
  <2> QED BY <1>1, <1>6, <2>1, <2>2 DEF RevInv, RevTypes
<1>9. ASSUME ~moderated' PROVE OnlyInserts' /\ FirstWrites' /\ CreditRight'
  <2>1. ~moderated /\ \A g \in AtWork : op = "create" /\ revReq[g].op = "create"
    BY <1>1, <1>9
  <2>2. OnlyInserts'
    BY <1>3, <1>6, <1>7, <2>1 DEF RevInv, OnlyInserts
  <2>3. FirstWrites'
    BY <1>3, <1>6, <1>7, <2>1 DEF RevInv, FirstWrites, Past
  <2>4. ASSUME NEW a \in Averages, \A g \in AtWork' : a \notin Pending(revReq'[g])
        PROVE  credit[a] = Visible(review, a)
    <3>1. \A g \in AtWork : a \notin Pending(revReq[g])
      BY <1>6, <1>7, <2>4
    <3> QED BY <2>1, <3>1 DEF RevInv, CreditRight
  <2>5. CreditRight'
    BY <1>1, <2>4 DEF CreditRight, Visible, Pending
  <2> QED BY <2>2, <2>3, <2>5
<1>10. ASSUME ~moderated', NEW g \in AtWork' PROVE SnapshotRight(revReq[g])'
  <2>1. ~moderated
    BY <1>1, <1>10
  <2>2. CASE g = h
    BY <1>3, <1>6, <2>2 DEF SnapshotRight
  <2>3. CASE g # h
    <3>1. g \in AtWork /\ revReq'[g] = revReq[g]
      BY <1>6, <1>7, <2>3
    <3> QED BY <1>1, <2>1, <3>1 DEF RevInv, SnapshotRight
  <2> QED BY <2>2, <2>3
<1> QED BY <1>8, <1>9, <1>10 DEF RevInv

\* A request that fails: refused, rolled back, or without a row to write.
LEMMA EndKeepsRev ==
  ASSUME RevInv, NEW h \in AtWork, Ends(h), review' = review, credit' = credit, moderated' = moderated,
         Pending(revReq[h]) = {}
  PROVE  RevInv'
<1>1. revReq' = [revReq EXCEPT ![h] = NoRevReq]
  BY DEF Ends
<1>2. ~moderated => CreditRight'
  BY <1>1, CreditStays
<1>3. review' \in [Items -> ReviewRow] /\ DOMAIN credit' = Averages
  BY DEF RevInv, RevTypes
<1> HIDE DEF RevInv
<1> QED BY <1>1, <1>2, <1>3, RevStep

\* The write of a transaction and its snapshot (create, toggleVisibility).
LEMMA BeginKeepsRev ==
  ASSUME RevInv, NEW h \in RevReqs, BeginTx(h) PROVE RevInv'
<1> DEFINE r == revReq[h]
           i == r.i
<1>1. /\ h \in AtWork /\ r.op \in Transactional /\ r.phase = "begin" /\ IsRevReq(r) /\ i \in Items
      /\ review' = review /\ credit' = credit /\ moderated' = moderated
  BY AtWorkTyped DEF BeginTx, Is, RevInv, IsRevReq
<1>2. Pending(r) = {}
  BY <1>1 DEF Pending
<1>3. CASE Ends(h)
  BY <1>1, <1>2, <1>3, EndKeepsRev
<1>4. CASE ~Ends(h)
  <2>1. PICK row : /\ row = (IF r.op = "create" THEN r.to ELSE [review[i] EXCEPT !.visible = r.to.visible])
                   /\ revReq' = [revReq EXCEPT ![h].phase = "store", ![h].rows = [review EXCEPT ![i] = row]]
    BY <1>4 DEF BeginTx, RevInv, RevTypes
  <2>2. row \in ReviewRow
    <3>1. review[i] \in ReviewRow /\ r.to \in ReviewRow
      BY <1>1 DEF RevInv, RevTypes, IsRevReq
    <3>2. [review[i] EXCEPT !.visible = r.to.visible] \in ReviewRow
      BY <3>1 DEF ReviewRow
    <3> QED BY <2>1, <3>1, <3>2
  <2>3. PICK snap : snap = [review EXCEPT ![i] = row]
    OBVIOUS
  <2>4. snap \in [Items -> ReviewRow] /\ \A j \in Items \ {i} : snap[j] = review[j]
    BY <2>2, <2>3 DEF RevInv, RevTypes
  <2>5. PICK q : /\ q = [[r EXCEPT !.phase = "store"] EXCEPT !.rows = snap]
                 /\ revReq' = [revReq EXCEPT ![h] = q]
    BY <2>1, <2>3 DEF RevInv, RevTypes
  <2>6. /\ DOMAIN q = {"op", "phase", "i", "rows", "new", "to"}
        /\ q.op = r.op /\ q.phase = "store" /\ q.i = i /\ q.rows = snap /\ q.new = r.new /\ q.to = r.to
    BY <1>1, <2>5 DEF IsRevReq
  <2>7. IsRevReq(q)
    <3>1. DOMAIN r.new = {}
      BY <1>1 DEF IsRevReq, NewRight, Transactional
    <3>2. NewRight(q)
      BY <2>6, <3>1 DEF NewRight
    <3> QED BY <1>1, <2>4, <2>6, <3>2 DEF IsRevReq
  <2>8. ~moderated => CreditRight'
    BY <1>1, <1>2, <2>5, CreditStays
  <2>9. SnapshotRight(q)'
    BY <1>1, <2>4, <2>6 DEF SnapshotRight
  <2>10. ~Past(q)
    BY <2>6 DEF Past
  <2>11. ASSUME ~moderated, NEW g \in AtWork \ {h} PROVE ~Past(revReq[g])
    <3>1. r.op = "create" /\ MayInsert(h)
      BY <1>1, <2>11, Lonely DEF BeginTx
    <3>2. ~Wrote(g, Store)
      BY <3>1 DEF MayInsert
    <3>3. IsRevReq(revReq[g])
      BY AtWorkTyped DEF RevInv
    <3> QED BY <3>2, <3>3 DEF Wrote, Past, IsRevReq, NewRight, Transactional
  <2>12. review' \in [Items -> ReviewRow] /\ DOMAIN credit' = Averages
    BY <1>1 DEF RevInv, RevTypes
  <2> HIDE DEF RevInv
  <2> QED BY <1>1, <2>5, <2>6, <2>7, <2>8, <2>9, <2>10, <2>11, <2>12, RevStep
<1> QED BY <1>3, <1>4

\* recalculateRatings in the transaction.
LEMMA RecalculateKeepsRev ==
  ASSUME RevInv, NEW h \in RevReqs, RecalculateInTx(h) PROVE RevInv'
<1> DEFINE r == revReq[h]
<1>1. /\ h \in AtWork /\ r.op \in Transactional /\ r.phase \in {"store", "staff"} /\ IsRevReq(r)
      /\ review' = review /\ credit' = credit /\ moderated' = moderated
  BY AtWorkTyped DEF RecalculateInTx, RevInv
<1>2. PICK phase, new :
        /\ phase = IF r.phase = "store" THEN "staff" ELSE "commit"
        /\ new = [a \in DOMAIN r.new \cup NextTarget(h) |->
                    IF a \in DOMAIN r.new THEN r.new[a] ELSE Visible(r.rows, a)]
        /\ revReq' = [revReq EXCEPT ![h].phase = phase, ![h].new = new]
  <2>1. h \in DOMAIN revReq /\ "new" \in DOMAIN r
    BY <1>1 DEF RevInv, RevTypes, IsRevReq
  <2> QED BY <2>1 DEF RecalculateInTx
<1>3. PICK q : /\ q = [[r EXCEPT !.phase = phase] EXCEPT !.new = new]
               /\ revReq' = [revReq EXCEPT ![h] = q]
  BY <1>1, <1>2 DEF RevInv, RevTypes
<1>4. /\ DOMAIN q = {"op", "phase", "i", "rows", "new", "to"}
      /\ q.op = r.op /\ q.phase = phase /\ q.i = r.i /\ q.rows = r.rows /\ q.new = new /\ q.to = r.to
  BY <1>1, <1>3 DEF IsRevReq
<1>5. IsRevReq(q)
  <2>1. NewRight(r)
    BY <1>1 DEF IsRevReq, Transactional
  <2>2. DOMAIN new = IF phase = "staff" THEN {Store} ELSE {Store, StaffOf[r.i]}
    BY <1>1, <1>2, <2>1 DEF NewRight, NextTarget
  <2>3. \A a \in DOMAIN new : new[a] = Visible(r.rows, a)
    BY <1>2, <2>1 DEF NewRight
  <2>4. NewRight(q)
    BY <1>2, <1>4, <2>2, <2>3 DEF NewRight
  <2> QED BY <1>1, <1>2, <1>4, <2>4 DEF IsRevReq
<1>6. Pending(r) = {}
  BY <1>1 DEF Pending
<1>7. ~moderated => CreditRight'
  BY <1>1, <1>3, <1>6, CreditStays
<1>8. ~moderated => SnapshotRight(q)'
  BY <1>1, <1>4 DEF RevInv, SnapshotRight
<1>9. ASSUME ~moderated, NEW g \in AtWork \ {h} PROVE revReq[g].phase = "begin"
  <2>1. r.op = "create" /\ revReq[g].op = "create"
    BY <1>1, <1>9 DEF RevInv, OnlyInserts
  <2>2. CASE r.phase = "store"
    <3>1. MayWrite(h, Store)
      BY <2>2 DEF RecalculateInTx, NextTarget
    <3> QED BY <2>1, <3>1 DEF MayWrite, Shares
  <2>3. CASE r.phase = "staff"
    BY <1>1, <1>9, <2>3 DEF RevInv, FirstWrites, Past
  <2> QED BY <1>1, <2>2, <2>3
<1>10. review' \in [Items -> ReviewRow] /\ DOMAIN credit' = Averages
  BY <1>1 DEF RevInv, RevTypes
<1>11. \A g \in AtWork : revReq[g].phase = "begin" => ~Past(revReq[g])
  BY DEF Past
<1> HIDE DEF RevInv
<1> QED BY <1>1, <1>3, <1>4, <1>5, <1>7, <1>8, <1>9, <1>10, <1>11, RevStep

\* The averages of the store and of the staff member come into force with the review.
LEMMA CommitKeepsRev ==
  ASSUME RevInv, NEW h \in RevReqs, CommitReview(h) PROVE RevInv'
<1> DEFINE r == revReq[h]
           i == r.i
<1>1. /\ h \in AtWork /\ r.op \in Transactional /\ r.phase = "commit" /\ IsRevReq(r) /\ i \in Items
      /\ review' = [review EXCEPT ![i] = r.rows[i]]
      /\ credit' = [a \in Averages |-> IF a \in DOMAIN r.new THEN r.new[a] ELSE credit[a]]
      /\ revReq' = [revReq EXCEPT ![h] = NoRevReq] /\ moderated' = moderated
  BY AtWorkTyped DEF CommitReview, Is, Ends, RevInv, IsRevReq
<1>2. r.rows \in [Items -> ReviewRow] /\ review \in [Items -> ReviewRow]
  BY <1>1 DEF IsRevReq, RevInv, RevTypes
<1>3. /\ review' \in [Items -> ReviewRow] /\ DOMAIN credit' = Averages
      /\ review'[i] = r.rows[i] /\ \A j \in Items \ {i} : review'[j] = review[j]
  BY <1>1, <1>2
<1>4. DOMAIN r.new = {Store, StaffOf[i]} /\ \A a \in DOMAIN r.new : r.new[a] = Visible(r.rows, a)
  BY <1>1 DEF IsRevReq, NewRight, Transactional
<1>5. ASSUME ~moderated PROVE /\ \A g \in AtWork \ {h} : revReq[g].op = "create" /\ revReq[g].phase = "begin"
                              /\ \A j \in Items : r.rows[j] = review'[j]
  <2>1. \A g \in AtWork \ {h} : revReq[g].op = "create" /\ revReq[g].phase = "begin"
    BY <1>1, <1>5 DEF RevInv, OnlyInserts, FirstWrites, Past
  <2>2. \A j \in Items \ {i} : r.rows[j] = review[j]
    BY <1>1, <1>5 DEF RevInv, SnapshotRight
  <2> QED BY <1>3, <2>1, <2>2
<1>6. ASSUME ~moderated, NEW a \in Averages PROVE credit'[a] = Visible(review', a)
  <2>1. \A g \in AtWork : a \notin Pending(revReq[g])
    BY <1>1, <1>5, <1>6 DEF Pending, Transactional
  <2>2. CASE a \in {Store, StaffOf[i]}
    <3>1. credit'[a] = Visible(r.rows, a)
      BY <1>1, <1>4, <2>2
    <3> QED BY <1>5, <1>6, <3>1, SameStars
  <2>3. CASE a \notin {Store, StaffOf[i]}
    <3>1. credit'[a] = Visible(review, a)
      BY <1>1, <1>4, <1>6, <2>1, <2>3 DEF RevInv, CreditRight
    <3>2. \A j \in Items : a \in {Store, StaffOf[j]} => review[j] = review'[j]
      BY <1>3, <2>3
    <3> QED BY <3>1, <3>2, SameStars
  <2> QED BY <2>2, <2>3
<1>7. ~moderated => CreditRight'
  BY <1>6 DEF CreditRight, Visible
<1> HIDE DEF RevInv
<1> QED BY <1>1, <1>3, <1>5, <1>7, RevStep

\* update and remove write the review first; its averages are then still to be set.
LEMMA WriteKeepsRev ==
  ASSUME RevInv, NEW h \in RevReqs, WriteReview(h) PROVE RevInv'
<1> DEFINE r == revReq[h]
           i == r.i
<1>1. /\ h \in AtWork /\ r.op \in {"update", "remove"} /\ r.phase = "begin" /\ IsRevReq(r) /\ i \in Items
      /\ credit' = credit /\ moderated' = moderated
  BY AtWorkTyped DEF WriteReview, Is, RevInv, IsRevReq
<1>2. CASE review[i] = NoReview
  <2>1. Ends(h) /\ review' = review /\ Pending(r) = {}
    BY <1>1, <1>2 DEF WriteReview, Pending
  <2> QED BY <1>1, <2>1, EndKeepsRev
<1>3. CASE review[i] # NoReview
  <2>1. review' = [review EXCEPT ![i] = r.to]
    BY <1>3 DEF WriteReview
  <2>2. PICK q : q = [r EXCEPT !.phase = "store"] /\ revReq' = [revReq EXCEPT ![h] = q]
    BY <1>3 DEF WriteReview
  <2>3. /\ DOMAIN q = {"op", "phase", "i", "rows", "new", "to"}
        /\ q.op = r.op /\ q.phase = "store" /\ q.i = i /\ q.rows = r.rows /\ q.new = r.new /\ q.to = r.to
    BY <1>1, <2>2 DEF IsRevReq
  <2>4. IsRevReq(q)
    BY <1>1, <2>3 DEF IsRevReq, Transactional
  <2>5. review' \in [Items -> ReviewRow] /\ DOMAIN credit' = Averages
    BY <1>1, <2>1 DEF RevInv, RevTypes, IsRevReq
  <2>6. \A j \in Items \ {i} : review'[j] = review[j]
    BY <1>1, <2>1 DEF RevInv, RevTypes
  <2>7. SnapshotRight(q)' /\ ~Past(q)
    BY <1>1, <2>3 DEF SnapshotRight, Past, Transactional
  <2>8. ASSUME ~moderated PROVE AtWork = {h} /\ CreditRight'
    <3>1. AtWork = {h}
      BY <1>1, <2>8, Lonely
    <3>2. h \in AtWork' /\ revReq'[h] = q
      BY <1>1, <2>2, <2>3, AtWorkTyped DEF AtWork, NoRevReq, RevInv, RevTypes
    <3>3. ASSUME NEW a \in Averages, \A g \in AtWork' : a \notin Pending(revReq'[g])
          PROVE  credit[a] = Visible(review', a)
      <4>1. a \notin {Store, StaffOf[i]}
        BY <1>1, <2>3, <3>2, <3>3 DEF Pending, Transactional
      <4>2. \A j \in Items : a \in {Store, StaffOf[j]} => review[j] = review'[j]
        BY <2>6, <4>1
      <4>3. credit[a] = Visible(review, a)
        BY <1>1, <2>8, <3>1 DEF RevInv, CreditRight, Pending
      <4> QED BY <4>2, <4>3, SameStars
    <3> QED BY <1>1, <3>1, <3>3 DEF CreditRight, Visible, Pending
  <2> HIDE DEF RevInv
  <2> QED BY <1>1, <2>2, <2>3, <2>4, <2>5, <2>7, <2>8, RevStep
<1> QED BY <1>2, <1>3

\* The aggregate query, and the statement that sets what it has returned.
LEMMA SetKeepsRev ==
  ASSUME RevInv, NEW h \in RevReqs, Aggregate(h) \/ SetAverage(h) PROVE RevInv'
<1> DEFINE r == revReq[h]
           i == r.i
<1>1. /\ h \in AtWork /\ IsRevReq(r) /\ i \in Items /\ r.op \in {"update", "remove"}
      /\ review' = review /\ moderated' = moderated
  <2>1. h \in AtWork /\ IsRevReq(r)
    BY AtWorkTyped DEF Aggregate, SetAverage, RevInv
  <2> QED BY <2>1 DEF Aggregate, SetAverage, IsRevReq
<1>2. review' \in [Items -> ReviewRow] /\ r.op \notin Transactional /\ r.op # "create"
  BY <1>1 DEF RevInv, RevTypes, Transactional
<1>3. ~moderated => AtWork = {h}
  BY <1>1, <1>2, Lonely
<1>4. CASE Aggregate(h)
  <2>1. PICK phase : /\ phase = IF r.phase = "store" THEN "setStore" ELSE "setStaff"
                     /\ revReq' = [revReq EXCEPT ![h].rows = review, ![h].phase = phase]
    <3>1. h \in DOMAIN revReq /\ "phase" \in DOMAIN r
      BY <1>1 DEF RevInv, RevTypes, IsRevReq
    <3> QED BY <1>4, <3>1 DEF Aggregate
  <2>2. PICK q : /\ q = [[r EXCEPT !.rows = review] EXCEPT !.phase = phase]
                 /\ revReq' = [revReq EXCEPT ![h] = q]
    BY <1>1, <2>1 DEF RevInv, RevTypes
  <2>3. /\ DOMAIN q = {"op", "phase", "i", "rows", "new", "to"}
        /\ q.op = r.op /\ q.phase = phase /\ q.i = i /\ q.rows = review /\ q.new = r.new /\ q.to = r.to
    BY <1>1, <2>2 DEF IsRevReq
  <2>4. IsRevReq(q)
    BY <1>1, <2>1, <2>3 DEF IsRevReq, RevInv, RevTypes
  <2>5. SnapshotRight(q)' /\ ~Past(q) /\ credit' = credit /\ DOMAIN credit' = Averages
    BY <1>1, <1>2, <1>4, <2>3 DEF SnapshotRight, Past, Aggregate, RevInv, RevTypes
  <2>6. Pending(r) \subseteq Pending(q) /\ q # NoRevReq
    BY <1>2, <1>4, <2>1, <2>3 DEF Pending, Aggregate, NoRevReq
  <2>7. ~moderated => CreditRight'
    BY <1>1, <2>2, <2>5, <2>6, CreditStays
  <2> HIDE DEF RevInv
  <2> QED BY <1>1, <1>2, <1>3, <2>2, <2>3, <2>4, <2>5, <2>7, RevStep
<1>5. CASE SetAverage(h)
  <2> DEFINE a == IF r.phase = "setStore" THEN Store ELSE StaffOf[i]
  <2>1. /\ r.phase \in {"setStore", "setStaff"}
        /\ credit' = [credit EXCEPT ![a] = Visible(r.rows, a)]
    BY <1>5 DEF SetAverage
  <2>2. PICK q : /\ revReq' = [revReq EXCEPT ![h] = q]
                 /\ \/ q = NoRevReq /\ r.phase = "setStaff"
                    \/ /\ IsRevReq(q) /\ q.op = r.op /\ q.i = i /\ q.phase = "staff"
                       /\ r.phase = "setStore"
    <3>1. CASE r.phase = "setStore"
      <4> DEFINE q == [r EXCEPT !.phase = "staff"]
      <4>1. revReq' = [revReq EXCEPT ![h] = q]
        BY <1>5, <3>1 DEF SetAverage
      <4>2. /\ DOMAIN q = {"op", "phase", "i", "rows", "new", "to"}
            /\ q.op = r.op /\ q.phase = "staff" /\ q.i = i /\ q.rows = r.rows /\ q.to = r.to
        BY <1>1 DEF IsRevReq
      <4> HIDE DEF q
      <4>3. IsRevReq(q)
        BY <1>1, <4>2 DEF IsRevReq
      <4> QED BY <3>1, <4>1, <4>2, <4>3
    <3>2. CASE r.phase = "setStaff"
      BY <1>5, <3>2 DEF SetAverage, Ends
    <3> QED BY <2>1, <3>1, <3>2
  <2>3. a \in Averages /\ DOMAIN credit' = Averages
    BY <1>1, <2>1 DEF Averages, RevInv, RevTypes
  <2>4. q # NoRevReq => SnapshotRight(q)' /\ ~Past(q)
    BY <1>2, <2>2 DEF SnapshotRight, Past
  <2>5. ASSUME ~moderated PROVE CreditRight'
    <3>1. AtWork = {h} /\ r.rows = review
      BY <1>1, <1>2, <1>3, <2>1, <2>5 DEF RevInv, SnapshotRight
    <3>2. credit'[a] = Visible(review, a) /\ \A b \in Averages \ {a} : credit'[b] = credit[b]
      BY <2>1, <2>3, <3>1 DEF RevInv, RevTypes
    <3>3. revReq'[h] = q /\ (q # NoRevReq => h \in AtWork')
      BY <1>1, <2>2, AtWorkTyped DEF AtWork, RevInv, RevTypes
    <3>4. ASSUME NEW b \in Averages, b # a, \A g \in AtWork' : b \notin Pending(revReq'[g])
          PROVE  credit[b] = Visible(review, b)
      <4>1. b \notin Pending(r)
        <5>1. CASE r.phase = "setStore"
          <6>1. q # NoRevReq /\ q.phase = "staff" /\ q.i = i /\ q.op \notin Transactional
            BY <1>2, <2>2, <5>1 DEF IsRevReq, NoRevReq
          <6>2. b # StaffOf[i]
            BY <3>3, <3>4, <6>1 DEF Pending
          <6> QED BY <1>2, <3>4, <5>1, <6>2 DEF Pending
        <5>2. CASE r.phase = "setStaff"
          BY <1>2, <3>4, <5>2 DEF Pending
        <5> QED BY <2>1, <5>1, <5>2
      <4> QED BY <2>5, <3>1, <4>1 DEF RevInv, CreditRight
    <3>5. \A b \in Averages : (\A g \in AtWork' : b \notin Pending(revReq'[g])) => credit'[b] = Visible(review, b)
      BY <3>2, <3>4
    <3> QED BY <1>1, <3>5 DEF CreditRight, Visible, Pending
  <2> HIDE DEF RevInv, a
  <2> QED BY <1>1, <1>2, <1>3, <2>2, <2>3, <2>4, <2>5, RevStep
<1> QED BY <1>4, <1>5

\* However many customers write at once, the averages are those of the reviews there are, but
\* for what a moderator has under way (recalculateRatings of reviews.service.ts).
THEOREM AveragesAddUp == RevSpec => []StarsAddUp
<1>1. RevInit => RevInv
  <2> SUFFICES ASSUME RevInit PROVE RevInv
    OBVIOUS
  <2>1. AtWork = {}
    BY DEF RevInit, AtWork
  <2>2. RevTypes
    BY DEF RevInit, RevTypes, ReviewRow, NoReview
  <2>3. \A a \in Averages : Visible(review, a) = {}
    BY DEF RevInit, Visible, NoReview
  <2> QED BY <2>1, <2>2, <2>3 DEF RevInit, RevInv, OnlyInserts, FirstWrites, CreditRight
<1>2. RevInv /\ [RevNext]_revVars => RevInv'
  <2> SUFFICES ASSUME RevInv, [RevNext]_revVars PROVE RevInv'
    OBVIOUS
  <2>1. CASE UNCHANGED revVars
    <3>1. AtWork' = AtWork
      BY <2>1 DEF revVars, AtWork
    <3>2. OnlyInserts' = OnlyInserts /\ FirstWrites' = FirstWrites
      BY <2>1, <3>1 DEF revVars, OnlyInserts, FirstWrites, Past
    <3>3. CreditRight' = CreditRight
      BY <2>1, <3>1 DEF revVars, CreditRight, Pending, Visible
    <3>4. \A h \in AtWork : SnapshotRight(revReq[h])' = SnapshotRight(revReq[h])
      BY <2>1 DEF revVars, SnapshotRight
    <3>5. RevTypes'
      BY <2>1 DEF revVars, RevInv, RevTypes
    <3> QED BY <2>1, <3>1, <3>2, <3>3, <3>4, <3>5 DEF revVars, RevInv
  <2>2. ASSUME NEW h \in RevReqs, Deadlock(h) PROVE RevInv'
    <3>1. h \in AtWork /\ Ends(h) /\ UNCHANGED <<review, credit, moderated>>
      BY <2>2 DEF Deadlock
    <3>2. Pending(revReq[h]) = {}
      BY <2>2 DEF Deadlock, Waits, Pending
    <3> QED BY <3>1, <3>2, EndKeepsRev
  <2>3. CASE RevNext
    BY <2>2, <2>3, CallKeepsRev, BeginKeepsRev, RecalculateKeepsRev, CommitKeepsRev,
       WriteKeepsRev, SetKeepsRev DEF RevNext
  <2> QED BY <2>1, <2>3
<1>3. RevInv => StarsAddUp
  <2> SUFFICES ASSUME RevInv, ~moderated, \A h \in AtWork : revReq[h].op \in Transactional,
                      NEW a \in Averages
               PROVE  credit[a] = Visible(review, a)
    BY DEF StarsAddUp
  <2> QED BY DEF RevInv, CreditRight, Pending
<1> QED BY <1>1, <1>2, <1>3, PTL DEF RevSpec

-----------------------------------------------------------------------------
(* The pages of a listing.  When the ORDER BY tells all rows apart there is one  *)
(* order they can be in, and every page is a piece of it.                        *)

SearchSpec == SearchInit /\ [][SearchNext]_searchVars

ListLen == Cardinality(Matches)

SearchTypes ==
  /\ rows \in [Found -> RowKinds] /\ question \in Questions
  /\ pages \in Nat /\ shown \in Seq(Matches)

SearchInv ==
  /\ SearchTypes
  /\ Len(shown) = IF pages * PageSize < ListLen THEN pages * PageSize ELSE ListLen
  /\ pages > 0 => Orders # {}
  /\ ToldApart => \A o \in Orders : \A n \in 1..Len(shown) : shown[n] = o[n]

\* A set of naturals that is not empty has a least element.
LEMMA LeastOf ==
  ASSUME NEW S, S \subseteq Nat, S # {}
  PROVE  \E n \in S : \A m \in S : n <= m
<1>1. PICK x \in S : \A y \in S : ~ (<<y, x>> \in OpToRel(<, Nat))
  BY NatLessThanWellFounded, WFMin
<1>2. \A y \in S : ~(y < x)
  BY <1>1 DEF OpToRel
<1> QED
  BY <1>2

\* The cheapest variant has a price.
LEMMA CheapestIsPrice ==
  ASSUME SearchTypes, NEW i \in Found, rows[i].prices # {}
  PROVE  Cheapest(i) \in Int
<1> DEFINE P == rows[i].prices
<1>1. P \subseteq Nat
  BY SearchConstants DEF SearchTypes, RowFields, Prices
<1>2. \E n \in P : \A m \in P : n <= m
  BY <1>1, LeastOf
<1>3. Cheapest(i) \in P
  BY <1>2 DEF Cheapest
<1> QED
  BY <1>1, <1>3

\* Matches is a finite set of the rows there are, and the ones sought.
LEMMA MatchesFinite ==
  /\ Matches \subseteq Found /\ IsFiniteSet(Matches) /\ ListLen \in Nat
<1>1. Matches \subseteq Found
  BY DEF Matches
<1>2. IsFiniteSet(Matches)
  BY <1>1, SearchConstants, FS_Subset
<1> QED
  BY <1>1, <1>2, FS_CardinalityType DEF ListLen

\* Keys are triples of integers.
LEMMA KeyType ==
  ASSUME SearchTypes, NEW i \in Matches
  PROVE  Key(i) \in Int \X Int \X Int
<1>1. i \in Found /\ rows[i] \in RowFields /\ i \in Nat
  BY SearchConstants DEF SearchTypes, Matches
<1>2. CASE Sorted \in {"price", "price-desc"}
  <2>1. rows[i].prices # {}
    BY <1>2 DEF Matches, WherePrice
  <2>2. Cheapest(i) \in Int
    BY <1>1, <2>1, CheapestIsPrice
  <2> QED
    BY <1>1, <1>2, <2>2 DEF Key
<1>3. CASE Sorted \notin {"price", "price-desc"}
  <2>1. rows[i].rating \in Nat /\ rows[i].age \in Nat /\ rows[i].booked \in Nat /\ rows[i].distance \in Nat
    BY <1>1 DEF RowFields
  <2>2. CASE Sorted = "popular"
    BY <1>1, <2>1, <2>2 DEF Key
  <2>3. CASE Sorted = "newest"
    BY <2>1, <2>3 DEF Key
  <2>4. CASE Sorted = "distance"
    BY <2>1, <2>4 DEF Key
  <2>5. CASE Sorted \notin {"price", "price-desc", "popular", "newest", "distance"}
    <3>1. Key(i) = <<-rows[i].rating, 0, 0>>
      BY <2>5 DEF Key
    <3> QED
      BY <2>1, <3>1
  <2> QED
    BY <1>3, <2>2, <2>3, <2>4, <2>5
<1> QED
  BY <1>2, <1>3

\* Of two keys that differ one comes before the other.
LEMMA KeysTotal ==
  ASSUME NEW k \in Int \X Int \X Int, NEW l \in Int \X Int \X Int, k # l
  PROVE  Before(k, l) \/ Before(l, k)
<1>1. /\ k = <<k[1], k[2], k[3]>> /\ k[1] \in Int /\ k[2] \in Int /\ k[3] \in Int
      /\ l = <<l[1], l[2], l[3]>> /\ l[1] \in Int /\ l[2] \in Int /\ l[3] \in Int
  OBVIOUS
<1>2. k[1] # l[1] \/ k[2] # l[2] \/ k[3] # l[3]
  BY <1>1
<1> QED
  BY <1>1, <1>2 DEF Before

\* An order goes through all matches.
LEMMA OrderIsOnto ==
  ASSUME NEW o \in Orders
  PROVE  \A i \in Matches : \E a \in 1..ListLen : o[a] = i
<1> DEFINE N == ListLen
<1>1. o \in [1..N -> Matches] /\ \A a, b \in 1..N : a < b => o[a] # o[b]
  BY DEF Orders, ListLen
<1>2. IsFiniteSet(1..N) /\ Cardinality(1..N) = N
  BY MatchesFinite, FS_Interval
<1>3. \A a, b \in 1..N : o[a] = o[b] => a = b
  <2> TAKE a, b \in 1..N
  <2> HAVE o[a] = o[b]
  <2>1. a \in Int /\ b \in Int /\ ~(a < b) /\ ~(b < a)
    BY <1>1, MatchesFinite
  <2> QED
    BY <2>1
<1>4. o \in Injection(1..N, Matches)
  BY <1>1, <1>3 DEF Injection, IsInjective
<1>5. o \in Surjection(1..N, Matches)
  BY <1>2, <1>4, MatchesFinite, FS_Injection DEF ListLen
<1> QED
  BY <1>5 DEF Surjection

\* When the keys tell the rows apart there is one order.
LEMMA OneOrder ==
  ASSUME SearchTypes, ToldApart, NEW o \in Orders, NEW u \in Orders
  PROVE  \A n \in 1..ListLen : o[n] = u[n]
<1> DEFINE N == ListLen
           D == {n \in 1..N : o[n] # u[n]}
<1> SUFFICES ASSUME D # {} PROVE FALSE
  OBVIOUS
<1>1. /\ o \in [1..N -> Matches] /\ u \in [1..N -> Matches] /\ N \in Nat
      /\ \A a, b \in 1..N : a < b => /\ o[a] # o[b] /\ ~Before(Key(o[b]), Key(o[a]))
                                     /\ u[a] # u[b] /\ ~Before(Key(u[b]), Key(u[a]))
  BY MatchesFinite DEF Orders, ListLen
<1>2. PICK n \in D : \A m \in D : n <= m
  <2>1. D \subseteq Nat
    BY <1>1
  <2> QED
    BY <2>1, LeastOf
<1>3. n \in 1..N /\ o[n] # u[n] /\ \A a \in 1..N : a < n => o[a] = u[a]
  BY <1>1, <1>2
<1>4. PICK a \in 1..N : o[a] = u[n]
  BY <1>1, <1>3, OrderIsOnto
<1>5. PICK b \in 1..N : u[b] = o[n]
  BY <1>1, <1>3, OrderIsOnto
<1>6. n < a
  <2>1. a # n
    BY <1>3, <1>4
  <2>2. ~(a < n)
    BY <1>1, <1>3, <1>4
  <2> QED
    BY <1>1, <2>1, <2>2
<1>7. n < b
  <2>1. b # n
    BY <1>3, <1>5
  <2>2. ~(b < n)
    BY <1>1, <1>3, <1>5
  <2> QED
    BY <1>1, <2>1, <2>2
<1>8. ~Before(Key(u[n]), Key(o[n])) /\ ~Before(Key(o[n]), Key(u[n]))
  BY <1>1, <1>3, <1>4, <1>5, <1>6, <1>7
<1>9. Key(o[n]) # Key(u[n])
  BY <1>1, <1>3 DEF ToldApart
<1> QED
  BY <1>1, <1>3, <1>8, <1>9, KeyType, KeysTotal

\* What there is to be listed stays what it is while pages are turned.
LEMMA ListStays ==
  ASSUME UNCHANGED <<rows, question>>
  PROVE  Matches' = Matches /\ Orders' = Orders /\ ListLen' = ListLen /\ (ToldApart' <=> ToldApart)
<1>1. \A i : Cheapest(i)' = Cheapest(i)
  BY DEF Cheapest
<1>2. \A i : Where(i)' = Where(i)
  BY DEF Where, Unbounded, InRange
<1>3. Sorted' = Sorted
  BY DEF Sorted
<1>4. \A i : WherePrice(i)' = WherePrice(i) /\ WhereDistance(i)' = WhereDistance(i)
  BY <1>2 DEF WherePrice, WhereDistance
<1>5. \A i : Key(i)' = Key(i)
  BY <1>1, <1>3 DEF Key
<1>6. Matches' = Matches
  BY <1>2, <1>3, <1>4 DEF Matches
<1>7. ListLen' = ListLen
  BY <1>6 DEF ListLen
<1>8. Orders' = Orders
  BY <1>5, <1>6 DEF Orders
<1>9. ToldApart' <=> ToldApart
  BY <1>5, <1>6 DEF ToldApart
<1> QED
  BY <1>6, <1>7, <1>8, <1>9

\* What is sought and what is listed are the same rows.
LEMMA SoughtIsListed ==
  ASSUME SearchTypes, ~Forgetful
  PROVE  {i \in Found : Sought(i)} = Matches
<1>1. question.list \in {"explore", "shelf", "stores"}
      /\ question.sort \in (IF question.list = "stores" THEN {"avgRating", "newest", "distance"}
                            ELSE {"avgRating", "newest", "price", "price-desc", "popular"})
  BY SearchConstants DEF SearchTypes, QuestionFields
<1>2. ASSUME NEW i \in Found PROVE Sought(i) <=> i \in Matches
  <2>1. CASE Sorted \in {"price", "price-desc"}
    <3>1. i \in Matches <=> WherePrice(i)
      BY <2>1 DEF Matches
    <3>2. Sought(i) <=> Where(i) /\ rows[i].prices # {}
      BY <2>1 DEF Sought
    <3>3. CASE question.list = "explore"
      BY <3>1, <3>2, <3>3 DEF WherePrice
    <3>4. CASE question.list = "shelf"
      <4>1. ~question.q
        BY <2>1, <3>4 DEF Forgetful
      <4> QED
        BY <3>1, <3>2, <3>4, <4>1 DEF WherePrice, Where
    <3>5. question.list # "stores"
      BY <1>1, <2>1 DEF Sorted
    <3> QED
      BY <1>1, <3>3, <3>4, <3>5
  <2>2. CASE Sorted = "distance"
    BY <2>2 DEF Matches, Sought, WhereDistance
  <2>3. CASE Sorted \notin {"price", "price-desc", "distance"}
    BY <2>3 DEF Matches, Sought
  <2> QED
    BY <2>1, <2>2, <2>3
<1> QED
  BY <1>2 DEF Matches

\* What two lists one after the other hold.
LEMMA Joined ==
  ASSUME NEW M, NEW s \in Seq(M), NEW t \in Seq(M)
  PROVE  /\ s \o t \in Seq(M) /\ Len(s \o t) = Len(s) + Len(t)
         /\ \A n \in 1..Len(s) : (s \o t)[n] = s[n]
         /\ \A n \in 1..Len(t) : (s \o t)[Len(s) + n] = t[n]
OBVIOUS

\* A page is a piece of an order, where the page before ended.
LEMMA ReadKeepsSearch ==
  ASSUME SearchInv, ReadPage
  PROVE  SearchInv'
<1> DEFINE N == ListLen
           a == pages * PageSize
<1>1. /\ a < N /\ pages' = pages + 1 /\ UNCHANGED <<rows, question>>
      /\ \E o \in Orders : shown' = shown \o SubSeq(o, a + 1,
                   IF a + PageSize < Len(o) THEN a + PageSize ELSE Len(o))
  BY DEF ReadPage, Offset, ListLen
<1>2. PICK u \in Orders : shown' = shown \o SubSeq(u, a + 1,
                   IF a + PageSize < Len(u) THEN a + PageSize ELSE Len(u))
  BY <1>1
<1> DEFINE e == IF a + PageSize < N THEN a + PageSize ELSE N
<1>3. PageSize \in Nat /\ PageSize > 0 /\ N \in Nat /\ pages \in Nat /\ SearchTypes
  BY SearchConstants, MatchesFinite DEF SearchInv, SearchTypes
<1>4. a \in Nat /\ (pages + 1) * PageSize = a + PageSize
  BY <1>3
<1>5. u \in [1..N -> Matches] /\ u \in Seq(Matches) /\ Len(u) = N
  BY <1>3 DEF Orders, ListLen
<1>6. shown \in Seq(Matches) /\ Len(shown) = a
  BY <1>1, <1>3, <1>4 DEF SearchInv, SearchTypes
<1> HIDE DEF a, N
<1>7. e \in Nat /\ a < e /\ e <= N
  BY <1>1, <1>3, <1>4 DEF a, N
<1>8. shown' = shown \o SubSeq(u, a + 1, e)
  BY <1>2, <1>5
<1> HIDE DEF e
<1>9. /\ SubSeq(u, a + 1, e) \in Seq(Matches) /\ Len(SubSeq(u, a + 1, e)) = e - a
      /\ \A n \in 1..(e - a) : SubSeq(u, a + 1, e)[n] = u[a + n]
  BY <1>4, <1>5, <1>7, <1>3
<1>10. /\ shown' \in Seq(Matches) /\ Len(shown') = e
       /\ \A n \in 1..a : shown'[n] = shown[n]
       /\ \A n \in (a + 1)..e : shown'[n] = u[n]
  <2> DEFINE t == SubSeq(u, a + 1, e)
  <2>0. t \in Seq(Matches) /\ Len(t) = e - a /\ shown' = shown \o t
    BY <1>8, <1>9
  <2> HIDE DEF t
  <2>1. shown' \in Seq(Matches) /\ Len(shown') = e
    <3>1. shown \o t \in Seq(Matches) /\ Len(shown \o t) = Len(shown) + Len(t)
      BY <1>6, <2>0, Joined
    <3>2. Len(shown) + Len(t) = e
      BY <1>4, <1>6, <1>7, <2>0
    <3> QED
      BY <2>0, <3>1, <3>2
  <2>2. \A n \in 1..a : shown'[n] = shown[n]
    <3>1. \A n \in 1..Len(shown) : (shown \o t)[n] = shown[n]
      BY <1>6, <2>0, Joined
    <3> QED
      BY <1>6, <2>0, <3>1
  <2>3. ASSUME NEW n \in (a + 1)..e PROVE shown'[n] = u[n]
    <3>1. n - a \in 1..(e - a) /\ n = a + (n - a)
      BY <1>4, <1>7
    <3>2. (shown \o t)[a + (n - a)] = t[n - a]
      BY <1>6, <2>0, <3>1, Joined
    <3>3. t[n - a] = u[a + (n - a)]
      BY <1>9, <3>1 DEF t
    <3> QED
      BY <2>0, <3>1, <3>2, <3>3
  <2> QED
    BY <2>1, <2>2, <2>3
<1>11. SearchTypes'
  BY <1>1, <1>3, <1>10, ListStays DEF SearchTypes
<1>12. Len(shown') = IF pages' * PageSize < N THEN pages' * PageSize ELSE N
  BY <1>1, <1>4, <1>10 DEF e
<1>13. ASSUME ToldApart, NEW o \in Orders, NEW n \in 1..e
       PROVE  shown'[n] = o[n]
  <2>1. CASE n \in 1..a
    BY <1>6, <1>10, <1>13, <2>1 DEF SearchInv
  <2>2. CASE n \in (a + 1)..e
    <3>1. n \in 1..ListLen
      BY <1>4, <1>7, <1>3 DEF N
    <3>2. u[n] = o[n]
      BY <1>3, <1>13, <3>1, OneOrder
    <3> QED
      BY <1>10, <2>2, <3>2
  <2> QED
    BY <1>4, <1>7, <2>1, <2>2
<1> QED
  BY <1>1, <1>2, <1>10, <1>11, <1>12, <1>13, ListStays DEF SearchInv, N

\* Whoever turns the pages of a listing to the end has seen every row that is sought once,
\* whichever order MySQL returns rows in, when the ORDER BY tells them apart
\* (findPublic and the lists by price, popularity and distance).
THEOREM EachRowOnce == SearchSpec => []PagesShowEachOnce
<1>1. SearchInit => SearchInv
  <2> SUFFICES ASSUME SearchInit PROVE SearchInv
    OBVIOUS
  <2>1. PageSize \in Nat /\ ListLen \in Nat
    BY SearchConstants, MatchesFinite
  <2>2. 0 * PageSize = 0
    BY <2>1
  <2> QED
    BY <2>1, <2>2 DEF SearchInit, SearchInv, SearchTypes
<1>2. SearchInv /\ [SearchNext]_searchVars => SearchInv'
  <2>1. ASSUME SearchInv, UNCHANGED searchVars PROVE SearchInv'
    BY <2>1, ListStays DEF searchVars, SearchInv, SearchTypes
  <2> QED
    BY <2>1, ReadKeepsSearch DEF SearchNext
<1>3. SearchInv => PagesShowEachOnce
  <2> SUFFICES ASSUME SearchInv, ListLen <= pages * PageSize, ToldApart, ~Forgetful
               PROVE  /\ Len(shown) = ListLen
                      /\ {shown[n] : n \in DOMAIN shown} = {i \in Found : Sought(i)}
    BY DEF PagesShowEachOnce, ListLen
  <2>1. SearchTypes /\ PageSize \in Nat /\ ListLen \in Nat /\ pages \in Nat
    BY SearchConstants, MatchesFinite DEF SearchInv, SearchTypes
  <2>2. pages * PageSize \in Nat
    BY <2>1
  <2>3. Len(shown) = ListLen
    BY <2>1, <2>2 DEF SearchInv
  <2>4. shown \in Seq(Matches) /\ DOMAIN shown = 1..ListLen
    BY <2>1, <2>3 DEF SearchTypes
  <2>5. ASSUME NEW i \in Matches PROVE \E n \in DOMAIN shown : shown[n] = i
    <3>1. ListLen > 0
      BY <2>1, MatchesFinite, FS_EmptySet DEF ListLen
    <3>2. pages > 0
      <4>1. pages = 0 => pages * PageSize = 0
        BY <2>1
      <4> QED
        BY <2>1, <3>1, <4>1
    <3>3. PICK o \in Orders : TRUE
      BY <3>2 DEF SearchInv
    <3>4. PICK n \in 1..ListLen : o[n] = i
      BY OrderIsOnto
    <3>5. shown[n] = o[n]
      BY <2>3 DEF SearchInv
    <3> QED
      BY <2>4, <3>4, <3>5
  <2>6. {shown[n] : n \in DOMAIN shown} = Matches
    <3>1. \A n \in 1..ListLen : shown[n] \in Matches
      BY <2>3, <2>4
    <3> QED
      BY <2>4, <2>5, <3>1
  <2> QED
    BY <2>1, <2>3, <2>6, SoughtIsListed
<1> QED
  BY <1>1, <1>2, <1>3, PTL DEF SearchSpec
=============================================================================
