------------------------------- MODULE Reviews -------------------------------
(***************************************************************************)
(* The reviews of one store and the averages they feed, reviews.service.ts.   *)
(*                                                                         *)
(* A customer's review and the moderator's switch recompute the averages in   *)
(* their transaction, from a snapshot taken as it begins to read; an update   *)
(* and a removal recompute them afterwards, statement by statement.  An       *)
(* insert locks the rows it refers to shared, so two inserts for one store    *)
(* both want to write what the other has locked, and InnoDB ends one of them.  *)
(*                                                                         *)
(* An average and its count are the set of reviews they are computed from.    *)
(***************************************************************************)
EXTENDS Integers, FiniteSets

CONSTANTS Items,        \* booking items that are COMPLETED, each reviewed at most once
          StaffOf,      \* StaffOf[i]: the staff member of item i
          Store,        \* the store, which also stands for the service: one statement each
          Ratings,      \* of a review
          RevReqs       \* requests under way at a time

ASSUME ReviewConstants == DOMAIN StaffOf = Items /\ \A i \in Items : StaffOf[i] # Store

NoReview == [rating |-> 0, visible |-> FALSE]
NoRevReq == [op |-> "none"]
Transactional == {"create", "toggle"}
Averages == {Store} \cup {StaffOf[i] : i \in Items}

VARIABLES review,      \* committed: review[i] is NoReview, or rating and visible
          credit,      \* credit[a]: the visible reviews, with rating, that average a counts
          revReq,      \* revReq[h]: the request h
          moderated    \* ghost: an update, removal or switch overlapped another request

revVars == <<review, credit, revReq, moderated>>

RevInit ==
  /\ review = [i \in Items |-> NoReview]
  /\ credit = [a \in Averages |-> {}]
  /\ revReq = [h \in RevReqs |-> NoRevReq]
  /\ moderated = FALSE

AtWork     == {h \in RevReqs : revReq[h] # NoRevReq}
Is(h, ops, phase) == h \in AtWork /\ revReq[h].op \in ops /\ revReq[h].phase = phase
Ends(h)    == revReq' = [revReq EXCEPT ![h] = NoRevReq]

\* What average a is computed from when the reviews are rows.
Visible(rows, a) ==
  {<<i, rows[i].rating>> : i \in {j \in Items : rows[j].visible /\ a \in {Store, StaffOf[j]}}}

-----------------------------------------------------------------------------
\* Locks of the transactions under way.  An insert holds its parents shared from the
\* start; whoever has written a row holds it to the end.
Shares(h, a) == revReq[h].op = "create" /\ a \in {Store, StaffOf[revReq[h].i]}
Wrote(h, a)  == revReq[h].op \in Transactional /\ a \in DOMAIN revReq[h].new
HoldsReview(h, i) == revReq[h].op \in Transactional /\ revReq[h].i = i /\ revReq[h].phase # "begin"

MayInsert(h) == \A g \in AtWork \ {h} : /\ ~HoldsReview(g, revReq[h].i)
                                        /\ ~Wrote(g, Store) /\ ~Wrote(g, StaffOf[revReq[h].i])
MayWrite(h, a) == \A g \in AtWork \ {h} :
                     ~Wrote(g, a) /\ ~(Shares(g, a) /\ revReq[g].phase # "begin")

-----------------------------------------------------------------------------
\* create finds no review of the item; the others find theirs.
Call(h) ==
  \E i \in Items, op \in {"create", "update", "remove", "toggle"}, rating \in Ratings, visible \in BOOLEAN :
     /\ h \notin AtWork
     /\ (op = "create") <=> (review[i] = NoReview)
     /\ revReq' = [revReq EXCEPT ![h] =
          [op |-> op, phase |-> "begin", i |-> i, rows |-> review, new |-> << >>,
           to |-> CASE op = "create" -> [rating |-> rating, visible |-> TRUE]
                    [] op = "update" -> [rating |-> rating, visible |-> visible]
                    [] op = "toggle" -> [review[i] EXCEPT !.visible = visible]
                    [] op = "remove" -> NoReview]]
     /\ moderated' = (moderated \/ \E g \in AtWork : op # "create" \/ revReq[g].op # "create")
     /\ UNCHANGED <<review, credit>>

\* The write of the transaction, and the snapshot it reads from then on.  A second review
\* of an item is refused by the unique key, a switch of a removed one finds no row.
BeginTx(h) ==
  /\ Is(h, Transactional, "begin")
  /\ LET i == revReq[h].i
         create == revReq[h].op = "create"
     IN /\ IF create THEN MayInsert(h) ELSE \A g \in AtWork \ {h} : ~HoldsReview(g, i)
        /\ IF create <=> review[i] # NoReview THEN Ends(h)
           ELSE revReq' = [revReq EXCEPT ![h].phase = "store",
                             ![h].rows = [review EXCEPT ![i] = IF create THEN revReq[h].to
                                            ELSE [@ EXCEPT !.visible = revReq[h].to.visible]]]
  /\ UNCHANGED <<review, credit, moderated>>

\* Mutant: the averages of the staff member are left out.
NextTargetStoreOnly(h) == IF revReq[h].phase = "store" THEN {Store} ELSE {}

\* recalculateRatings: the store and the service, then the staff member.
NextTarget(h) == IF revReq[h].phase = "store" THEN {Store} ELSE {StaffOf[revReq[h].i]}

RecalculateInTx(h) ==
  /\ h \in AtWork /\ revReq[h].op \in Transactional /\ revReq[h].phase \in {"store", "staff"}
  /\ \A a \in NextTarget(h) : MayWrite(h, a)
  /\ revReq' = [revReq EXCEPT
       ![h].phase = IF @ = "store" THEN "staff" ELSE "commit",
       ![h].new = [a \in DOMAIN @ \cup NextTarget(h) |->
                     IF a \in DOMAIN @ THEN @[a] ELSE Visible(revReq[h].rows, a)]]
  /\ UNCHANGED <<review, credit, moderated>>

\* Each waits for a row the other holds: InnoDB rolls one back, and its request fails.
Waits(h, g) == /\ revReq[h].op \in Transactional /\ revReq[h].phase \in {"store", "staff"}
               /\ \E a \in NextTarget(h) : Wrote(g, a) \/ (Shares(g, a) /\ revReq[g].phase # "begin")
Deadlock(h) ==
  /\ \E g \in AtWork \ {h} : h \in AtWork /\ Waits(h, g) /\ Waits(g, h)
  /\ Ends(h)
  /\ UNCHANGED <<review, credit, moderated>>

CommitReview(h) ==
  /\ Is(h, Transactional, "commit")
  /\ review' = [review EXCEPT ![revReq[h].i] = revReq[h].rows[revReq[h].i]]
  /\ credit' = [a \in Averages |-> IF a \in DOMAIN revReq[h].new THEN revReq[h].new[a] ELSE credit[a]]
  /\ Ends(h)
  /\ UNCHANGED moderated

-----------------------------------------------------------------------------
\* update and remove, each statement on its own.
WriteReview(h) ==
  /\ Is(h, {"update", "remove"}, "begin")
  /\ \A g \in AtWork \ {h} : ~HoldsReview(g, revReq[h].i)
  /\ IF review[revReq[h].i] = NoReview THEN Ends(h) /\ UNCHANGED review
     ELSE /\ review' = [review EXCEPT ![revReq[h].i] = revReq[h].to]
          /\ revReq' = [revReq EXCEPT ![h].phase = "store"]
  /\ UNCHANGED <<credit, moderated>>

Aggregate(h) ==
  /\ h \in AtWork /\ revReq[h].op \in {"update", "remove"} /\ revReq[h].phase \in {"store", "staff"}
  /\ revReq' = [revReq EXCEPT ![h].rows = review,
                              ![h].phase = IF @ = "store" THEN "setStore" ELSE "setStaff"]
  /\ UNCHANGED <<review, credit, moderated>>

SetAverage(h) ==
  /\ h \in AtWork /\ revReq[h].phase \in {"setStore", "setStaff"}
  /\ LET a == IF revReq[h].phase = "setStore" THEN Store ELSE StaffOf[revReq[h].i]
     IN /\ MayWrite(h, a)
        /\ credit' = [credit EXCEPT ![a] = Visible(revReq[h].rows, a)]
  /\ IF revReq[h].phase = "setStore" THEN revReq' = [revReq EXCEPT ![h].phase = "staff"] ELSE Ends(h)
  /\ UNCHANGED <<review, moderated>>

RevNext ==
  \E h \in RevReqs :
     \/ Call(h) \/ BeginTx(h) \/ RecalculateInTx(h) \/ Deadlock(h) \/ CommitReview(h)
     \/ WriteReview(h) \/ Aggregate(h) \/ SetAverage(h)

-----------------------------------------------------------------------------
\* However many customers write at once, the stars of the store and of its staff are those
\* of the reviews that can be read; a moderator's work in progress is the exception, and
\* when it overlaps with another request a review may be counted wrong until the next one.
StarsAddUp ==
  ~moderated /\ (\A h \in AtWork : revReq[h].op \in Transactional) =>
    \A a \in Averages : credit[a] = Visible(review, a)
=============================================================================
