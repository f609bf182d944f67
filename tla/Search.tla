------------------------------- MODULE Search -------------------------------
(***************************************************************************)
(* A client turns the pages of a listing: the explore page and the shelf of   *)
(* one store (services.service.ts), and the stores (stores.service.ts).  Each  *)
(* sort has a query of its own, and each page is a query of its own; of rows   *)
(* that the ORDER BY of a query does not tell apart MySQL may return any first. *)
(*                                                                         *)
(* Texts, categories and places are whether they match.                      *)
(***************************************************************************)
EXTENDS Integers, FiniteSets, Sequences

CONSTANTS Found,       \* ids, integers
          RowKinds,    \* what a row may be like, see RowFields
          Questions,   \* what a client may ask, see QuestionFields
          PageSize

Prices == 1..3
RowFields == [live : BOOLEAN, named : BOOLEAN, filed : BOOLEAN, prices : SUBSET Prices,
              rating : Nat, age : Nat, booked : Nat, distance : Nat]
QuestionFields ==
  {f \in [list : {"explore", "shelf", "stores"},
          sort : {"avgRating", "newest", "price", "price-desc", "popular", "distance"},
          q : BOOLEAN, category : BOOLEAN, range : Prices \X Prices] :
     f.sort \in (IF f.list = "stores" THEN {"avgRating", "newest", "distance"}
                ELSE {"avgRating", "newest", "price", "price-desc", "popular"})}

ASSUME SearchConstants ==
  /\ PageSize \in Nat \ {0} /\ Found \subseteq Nat /\ IsFiniteSet(Found)
  /\ RowKinds \subseteq RowFields /\ Questions \subseteq QuestionFields

VARIABLES rows,      \* rows[i]: the services, or stores, there are
          question,    \* the query string of the client
          pages,     \* pages read so far
          shown      \* what they showed, in order

searchVars == <<rows, question, pages, shown>>

SearchInit ==
  /\ rows \in [Found -> RowKinds]
  /\ question \in Questions
  /\ pages = 0
  /\ shown = << >>

-----------------------------------------------------------------------------
Cheapest(i) == CHOOSE p \in rows[i].prices : \A o \in rows[i].prices : p <= o
InRange(p)  == question.range[1] <= p /\ p <= question.range[2]
Unbounded   == question.range = <<1, 3>>

\* findPublic, findAll of services and buildPublicWhere.  Prices and durations are a
\* filter of the explore page: any active variant within them will do.
Where(i) ==
  /\ rows[i].live
  /\ question.q => rows[i].named
  /\ question.category => rows[i].filed
  /\ question.list = "explore" /\ ~Unbounded => \E p \in rows[i].prices : InRange(p)

\* findPublicSortedByPrice; findAllSortedByPrice has no condition for q.
WherePrice(i) ==
  /\ rows[i].prices # {}
  /\ IF question.list = "explore" THEN Where(i)
     ELSE rows[i].live /\ (question.category => rows[i].filed)

\* buildDistanceRawConditions: only stores that have a position.
WhereDistance(i) == rows[i].distance # 0 /\ Where(i)

Sorted == question.sort

Matches ==
  {i \in Found : CASE Sorted \in {"price", "price-desc"} -> WherePrice(i)
                   [] Sorted = "distance"                -> WhereDistance(i)
                   [] OTHER                              -> Where(i)}

\* Descending keys are negative.  By popularity all items of bookings count.
Key(i) ==
  CASE Sorted = "price"      -> <<Cheapest(i), 0, i>>
    [] Sorted = "price-desc" -> <<-Cheapest(i), 0, i>>
    [] Sorted = "popular"    -> <<-rows[i].booked, -rows[i].rating, i>>
    [] Sorted = "newest"     -> <<rows[i].age, 0, 0>>
    [] Sorted = "distance"   -> <<rows[i].distance, 0, 0>>
    [] OTHER                 -> <<-rows[i].rating, 0, 0>>

Before(k, l) == \/ k[1] < l[1]
                \/ k[1] = l[1] /\ k[2] < l[2]
                \/ k[1] = l[1] /\ k[2] = l[2] /\ k[3] < l[3]

\* The orders MySQL may return the rows in.
Orders ==
  {o \in [1..Cardinality(Matches) -> Matches] :
     \A a, b \in DOMAIN o : a < b => o[a] # o[b] /\ ~Before(Key(o[b]), Key(o[a]))}

\* Mutant: the pages before count as rows.
OffsetInPages == pages
Offset        == pages * PageSize           \* (page - 1) * limit

\* LIMIT and OFFSET; the client stops when it has seen as many pages as the total makes.
ReadPage ==
  /\ Offset < Cardinality(Matches)
  /\ \E o \in Orders :
       shown' = shown \o SubSeq(o, Offset + 1,
                   IF Offset + PageSize < Len(o) THEN Offset + PageSize ELSE Len(o))
  /\ pages' = pages + 1
  /\ UNCHANGED <<rows, question>>

SearchNext == ReadPage

-----------------------------------------------------------------------------
\* Whoever turns all pages sees each service once, and whatever the sort it is the same
\* services: by price those that have a price, by distance the stores that have a
\* position.  The exceptions are sorts whose keys are equal for two rows, which a page
\* boundary may repeat or pass over, and the shelf by price, which forgets the search.
ToldApart == \A i, j \in Matches : i # j => Key(i) # Key(j)
Sought(i) == /\ Where(i)
             /\ Sorted \in {"price", "price-desc"} => rows[i].prices # {}
             /\ Sorted = "distance" => rows[i].distance # 0
Forgetful == question.list = "shelf" /\ Sorted \in {"price", "price-desc"} /\ question.q
PagesShowEachOnce ==
  Cardinality(Matches) <= pages * PageSize /\ ToldApart /\ ~Forgetful =>
    /\ Len(shown) = Cardinality(Matches)
    /\ {shown[n] : n \in DOMAIN shown} = {i \in Found : Sought(i)}

\* "Gia toi thieu (theo variant thap nhat)": the price range of the explore page is about
\* the cheapest variant of a service.
RangeIsOfTheCheapest ==
  question.list = "explore" => \A n \in DOMAIN shown : rows[shown[n]].prices # {} => InRange(Cheapest(shown[n]))
=============================================================================
