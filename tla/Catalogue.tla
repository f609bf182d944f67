------------------------------ MODULE Catalogue ------------------------------
(***************************************************************************)
(* The services of one store: services.service.ts and the import of          *)
(* services-import.service.ts, whose requests interleave between their        *)
(* queries, with the bookings that name a service and the pictures kept by    *)
(* Cloudinary.                                                              *)
(*                                                                         *)
(* MySQL compares names without regard to case, JavaScript with it: Fold is  *)
(* what a name is to the database, and the stem of its slug.  Of the          *)
(* variants only whether one is ACTIVE is kept.                              *)
(***************************************************************************)
EXTENDS Integers, FiniteSetsExt

CONSTANTS Services,      \* rows there may ever be, 1..n
          Bookable,      \* bound: those of them that get a booking
          Names, Fold,   \* names, and what the database makes of them
          Pictures,      \* uploads, each with a URL of its own
          Changes,       \* bodies of an update, see ChangeFields
          Offers,        \* whether a new service may have an ACTIVE variant, or none
          CatReqs,       \* requests under way at a time
          MaxCalls       \* bound: requests in all

Statuses == {"ACTIVE", "INACTIVE", "DELETED"}
ChangeFields == [name : Names \cup {"none"}, status : Statuses \cup {"none"},
                 pictures : {"none", "list"},
                 variants : {"none", "inactive", "listed", "active"}]

ASSUME CatalogueConstants ==
  /\ MaxCalls \in Nat /\ Offers \subseteq BOOLEAN /\ Bookable \subseteq Services
  /\ "none" \notin Names /\ DOMAIN Fold = Names /\ Changes \subseteq ChangeFields

New  == [status |-> "new"]
Gone == [status |-> "gone"]
NoCatReq == [op |-> "none"]

VARIABLES service,     \* service[s]: New, Gone (deleted), or name, slug, status, pictures, offered
          uploaded,    \* the pictures there have been
          kept,        \* those of them that Cloudinary has
          catReq,      \* catReq[h]: the request h, and what it has read
          calls,       \* requests so far
          upcoming,    \* upcoming[s]: the last booking of s, see Bookings
          crossed,     \* ghost: two requests that may write a name or a status overlapped
          slipped,     \* ghost: an import took a name for new that the database does not
          mixed,       \* ghost: two requests for one service overlapped
          resent,      \* ghost: URLs of earlier uploads that a request gave a row that did not show them
          raced        \* ghost: a booking of s and the end of s overlapped

pictureVars == <<uploaded, kept, resent>>
catVars == <<service, pictureVars, catReq, calls, upcoming, crossed, slipped, mixed, raced>>

Bookings == {"none", "reading", "booked", "ended", "revived"}

CatInit ==
  /\ service = [s \in Services |-> New]
  /\ uploaded = {} /\ kept = {} /\ resent = {}
  /\ catReq = [h \in CatReqs |-> NoCatReq]
  /\ calls = 0
  /\ upcoming = [s \in Services |-> "none"]
  /\ crossed = FALSE /\ slipped = FALSE
  /\ mixed = [s \in Services |-> FALSE]
  /\ raced = [s \in Services |-> FALSE]

Rows     == {s \in Services : service[s] \notin {New, Gone}}
Listed   == {s \in Rows : service[s].status # "DELETED"}
Busy     == {h \in CatReqs : catReq[h] # NoCatReq}
In(h, ops, phase) == h \in Busy /\ catReq[h].op \in ops /\ catReq[h].phase = phase
Leave(h)    == catReq' = [catReq EXCEPT ![h] = NoCatReq]
Passes(h, p) == catReq' = [catReq EXCEPT ![h].phase = p]

-----------------------------------------------------------------------------
\* Mutant: another service with the name is looked for by the name as it is written.
CheckExactName(name, excluded) ==
  \A s \in Listed \ excluded : service[s].name # name

CheckDuplicateName(name, excluded) ==
  \A s \in Listed \ excluded : Fold[service[s].name] # Fold[name]

\* The first of stem, stem-2, stem-3, ... that no listed service has; a deleted row keeps
\* its slug, and the unique key on it.
FreeSlug(name, taken) ==
  <<Fold[name], CHOOSE n \in 1..(Cardinality(Services) + Cardinality(Names) + 1) :
                  /\ <<Fold[name], n>> \notin taken
                  /\ \A m \in 1..(n - 1) : <<Fold[name], m>> \in taken>>

SlugsOf(S)    == {service[s].slug : s \in S}
SlugTaken(slug, s) == slug \in SlugsOf(Rows \ {s})

UpcomingOf(s) == upcoming[s] \in {"booked", "revived"}     \* checkNoUpcomingBookings counts it

-----------------------------------------------------------------------------
\* A request that begins next to others.
Starts(h, r) ==
  /\ h \notin Busy /\ calls < MaxCalls
  /\ calls' = calls + 1
  /\ catReq' = [catReq EXCEPT ![h] = r]
  /\ crossed' = (crossed \/ Busy # {})
  /\ mixed' = [s \in Services |-> mixed[s] \/ (r.s = s /\ \E g \in Busy : catReq[g].s = s)]
  /\ UNCHANGED <<service, pictureVars, upcoming, slipped, raced>>

NoService == 0
Req(op, phase, s, body) == [op |-> op, phase |-> phase, s |-> s, body |-> body, slug |-> << >>, seen |-> {}]

\* create: the name, then a slug, then the row with its variants.
Create(h) ==
  \E name \in Names :
     CheckDuplicateName(name, {}) /\ Starts(h, Req("create", "slug", NoService, [name |-> name]))

\* update: the row, its bookings if it is to be INACTIVE, the name, a slug, the row, the
\* pictures that are dropped, the variants.
Update(h) ==
  \E s \in Listed, body \in Changes :
     /\ body.status = "INACTIVE" => ~UpcomingOf(s)
     /\ body.name # "none" => CheckDuplicateName(body.name, {s})
     /\ Starts(h, [Req("update", IF body.name = "none" THEN "write" ELSE "slug", s, body)
                     EXCEPT !.seen = service[s].pictures])

Removal(h, S) ==
  \E s \in S : /\ ~UpcomingOf(s)
               /\ Starts(h, [Req("remove", "write", s, [status |-> "gone"])
                               EXCEPT !.seen = service[s].pictures])

\* bulkHardDelete removes each service of its list on its own, all of them at once, and
\* soft-deleted ones as well.
Remove(h)         == Removal(h, Listed)
BulkHardDelete(h) == Removal(h, Rows)

MakeSlug(h) ==
  /\ In(h, {"create", "update"}, "slug")
  /\ catReq' = [catReq EXCEPT ![h].phase = "write",
                              ![h].slug = FreeSlug(catReq[h].body.name, SlugsOf(Listed \ {catReq[h].s}))]
  /\ UNCHANGED <<calls, service, pictureVars, upcoming, crossed, slipped, mixed, raced>>

\* The list of URLs a client sends is stored as it is.  The new ones among them have been
\* uploaded for it; nobody asks where the others come from, nor whether Cloudinary has them.
Stores(list, had) ==
  /\ uploaded' = uploaded \cup list
  /\ kept' = kept \cup (list \ uploaded)
  /\ resent' = resent \cup ((list \cap uploaded) \ had)

\* The unique key refuses a slug that is taken: an error, and no row.
InsertService(h) ==
  /\ In(h, {"create"}, "write")
  /\ \/ SlugTaken(catReq[h].slug, NoService) /\ UNCHANGED <<service, pictureVars>>
     \/ \E s \in Services, status \in Statuses, offered \in Offers, list \in SUBSET Pictures :
          /\ ~SlugTaken(catReq[h].slug, NoService)
          /\ service[s] = New /\ \A t \in Services : t < s => service[t] # New
          /\ service' = [service EXCEPT ![s] =
                           [name |-> catReq[h].body.name, slug |-> catReq[h].slug, status |-> status,
                            pictures |-> list, offered |-> offered]]
          /\ Stores(list, {})
  /\ Leave(h)
  /\ UNCHANGED <<calls, upcoming, crossed, slipped, mixed, raced>>

NewPictures(h) == IF catReq[h].body.pictures = "list" THEN SUBSET Pictures
                                                    ELSE {service[catReq[h].s].pictures}

Or(a, b) == IF a = "none" THEN b ELSE a
OffDuty(h) == catReq[h].body.status \in {"INACTIVE", "gone"}

UpdateRow(h) ==
  /\ In(h, {"update"}, "write")
  /\ LET s == catReq[h].s
         slug == catReq[h].slug
     IN IF s \notin Rows \/ (slug # << >> /\ SlugTaken(slug, s))
        THEN Leave(h) /\ UNCHANGED <<service, pictureVars, raced>>       \* no row, or the key
        ELSE \E list \in NewPictures(h) :
               /\ service' = [service EXCEPT ![s] =
                    [service[s] EXCEPT
                       !.name = Or(catReq[h].body.name, @),
                       !.slug = IF slug = << >> THEN @ ELSE slug,
                       !.status = Or(catReq[h].body.status, @),
                       !.pictures = list]]
               /\ Stores(list, service[s].pictures)
               /\ raced' = [raced EXCEPT ![s] = @ \/ (OffDuty(h) /\ upcoming[s] = "reading")]
               /\ catReq' = [catReq EXCEPT ![h].phase = "pictures",
                               ![h].seen = IF catReq[h].body.pictures = "none" THEN {} ELSE @ \ list]
  /\ UNCHANGED <<calls, upcoming, crossed, slipped, mixed>>

\* What the row showed when it was read, and the new list does not, goes; where Cloudinary
\* fails, a picture stays.
DropPictures(h) ==
  /\ In(h, {"update", "remove"}, "pictures")
  /\ \E dropped \in SUBSET catReq[h].seen : kept' = kept \ dropped
  /\ IF catReq[h].op = "remove" THEN Leave(h) ELSE Passes(h, "variants")
  /\ UNCHANGED <<calls, service, uploaded, resent, upcoming, crossed, slipped, mixed, raced>>

\* Variants that are not in the list become INACTIVE, one without a status keeps what it
\* has, a new one is ACTIVE.  A list without an active one is refused here, when the row
\* has been written.
UpdateVariants(h) ==
  /\ In(h, {"update"}, "variants")
  /\ LET s == catReq[h].s IN
     \E offered \in (CASE s \notin Rows                            -> {FALSE}
                       [] catReq[h].body.variants = "active"       -> {TRUE}
                       [] catReq[h].body.variants = "listed"       -> {FALSE, service[s].offered}
                       [] OTHER                                    -> {service[s].offered}) :
        service' = IF s \in Rows THEN [service EXCEPT ![s].offered = offered] ELSE service
  /\ Leave(h)
  /\ UNCHANGED <<calls, pictureVars, upcoming, crossed, slipped, mixed, raced>>

\* Variants go with the service, and items of bookings keep their names.
DeleteRow(h) ==
  /\ In(h, {"remove"}, "write")
  /\ LET s == catReq[h].s IN
     IF s \notin Rows THEN Leave(h) /\ UNCHANGED <<service, raced>>
     ELSE /\ service' = [service EXCEPT ![s] = Gone]
          /\ raced' = [raced EXCEPT ![s] = @ \/ upcoming[s] = "reading"]
          /\ Passes(h, "pictures")
  /\ UNCHANGED <<calls, pictureVars, upcoming, crossed, slipped, mixed>>

-----------------------------------------------------------------------------
\* The rows of the sheet by their name, without those whose very name is in the store.
ImportServices(h) ==
  \E sheet \in SUBSET Names \ {{}} :
     LET had == {service[s].name : s \in {t \in Rows : \E n \in sheet : Fold[service[t].name] = Fold[n]}}
     IN /\ sheet \ had # {}
        /\ Starts(h, Req("import", "slug", NoService, [names |-> sheet \ had]))

\* Slugs of all rows are read, and new ones made against these and one another.
ImportedRows(names, taken) ==
  FoldSet(LAMBDA name, rows : rows \cup
            {[name |-> name, slug |-> FreeSlug(name, taken \cup {r.slug : r \in rows})]},
          {}, names)

ReadSlugs(h) ==
  /\ In(h, {"import"}, "slug")
  /\ catReq' = [catReq EXCEPT ![h].phase = "write",
                              ![h].seen = ImportedRows(catReq[h].body.names, SlugsOf(Rows))]
  /\ UNCHANGED <<calls, service, pictureVars, upcoming, crossed, slipped, mixed, raced>>

\* One transaction for the sheet; the status of its variants is the sheet's.
InsertSheet(h) ==
  /\ In(h, {"import"}, "write")
  /\ LET rows == catReq[h].seen
         free == {s \in Services : service[s] = New}
     IN IF \E r \in rows : SlugTaken(r.slug, NoService) THEN UNCHANGED <<service, slipped>>
        ELSE /\ Cardinality(rows) <= Cardinality(free)
             /\ \E place \in [rows -> free], offered \in Offers :
                  /\ \A q, r \in rows : place[q] = place[r] => q = r
                  /\ service' = [s \in Services |->
                       IF \E r \in rows : place[r] = s
                       THEN LET r == CHOOSE q \in rows : place[q] = s
                            IN [name |-> r.name, slug |-> r.slug, status |-> "ACTIVE",
                                pictures |-> {}, offered |-> offered]
                       ELSE service[s]]
             /\ slipped' = (slipped \/ \E r \in rows : \/ ~CheckDuplicateName(r.name, {})
                                                       \/ \E q \in rows \ {r} : Fold[q.name] = Fold[r.name])
  /\ Leave(h)
  /\ UNCHANGED <<calls, pictureVars, upcoming, crossed, mixed, raced>>

-----------------------------------------------------------------------------
\* BookingsService reads the service in its transaction, without a lock on it.
ReadForBooking(s) ==
  /\ upcoming[s] \in {"none", "ended"} /\ s \in Rows /\ service[s].status = "ACTIVE"
  /\ upcoming' = [upcoming EXCEPT ![s] = "reading"]
  /\ UNCHANGED <<calls, service, pictureVars, catReq, crossed, slipped, mixed, raced>>

\* The item keeps the service by a foreign key: a row that is gone refuses it.
Book(s) ==
  /\ upcoming[s] = "reading"
  /\ upcoming' = [upcoming EXCEPT ![s] = IF s \in Rows THEN "booked" ELSE "none"]
  /\ raced' = [raced EXCEPT ![s] = @ \/ \E h \in Busy : catReq[h].s = s]
  /\ UNCHANGED <<calls, service, pictureVars, catReq, crossed, slipped, mixed>>

EndOfBooking(s) ==
  /\ UpcomingOf(s)
  /\ upcoming' = [upcoming EXCEPT ![s] = "ended"]
  /\ UNCHANGED <<calls, service, pictureVars, catReq, crossed, slipped, mixed, raced>>

\* A deposit that settles late makes an ended booking DEPOSIT_PAID again, whatever has become
\* of its service; an item whose service has been deleted names none.
Revive(s) ==
  /\ upcoming[s] = "ended" /\ s \in Rows
  /\ upcoming' = [upcoming EXCEPT ![s] = "revived"]
  /\ UNCHANGED <<calls, service, pictureVars, catReq, crossed, slipped, mixed, raced>>

CatNext ==
  \/ \E h \in CatReqs :
       \/ Create(h) \/ Update(h) \/ Remove(h) \/ BulkHardDelete(h) \/ ImportServices(h)
       \/ MakeSlug(h) \/ InsertService(h) \/ UpdateRow(h) \/ DropPictures(h) \/ UpdateVariants(h)
       \/ DeleteRow(h) \/ ReadSlugs(h) \/ InsertSheet(h)
  \/ \E s \in Bookable : ReadForBooking(s) \/ Book(s) \/ EndOfBooking(s) \/ Revive(s)

-----------------------------------------------------------------------------
\* A name stands for one service of the store, for the customer and the database alike,
\* unless two requests overlapped or an import compared by case.
NamesApart ==
  \A s, t \in Listed : s # t /\ Fold[service[s].name] = Fold[service[t].name] => crossed \/ slipped

\* What an upcoming booking names keeps its row, and is not made INACTIVE under it, unless the
\* booking was being made at that time.  DELETED it may become: update looks for bookings
\* only where the new status is INACTIVE.  And a booking that a late deposit brings
\* back finds its service as it is by then.
BookedIsKept ==
  \A s \in Services : upcoming[s] = "booked" /\ ~raced[s] => s \in Rows /\ service[s].status # "INACTIVE"

\* "Chi xoa anh cu tren Cloudinary SAU KHI DB update thanh cong": whatever fails on the
\* way, a service shows pictures that are there, unless two requests for it overlapped or a
\* client sent a URL that is neither shown by the row nor new.
PicturesAreThere ==
  \A s \in Rows : mixed[s] \/ service[s].pictures \subseteq kept \cup resent

CatalogueInOrder == NamesApart /\ BookedIsKept /\ PicturesAreThere

=============================================================================
