---------------------------- MODULE StoreApproval ----------------------------
(***************************************************************************)
(* The life of one store between its owner and the administrators:          *)
(* stores.service.ts and admin-stores.service.ts.                           *)
(*                                                                         *)
(* Every handler reads the store, decides, and writes by the id alone; an    *)
(* upload waits for Cloudinary in between.  The papers (identity card and    *)
(* licence, texts and scans) are a version number that a change raises.      *)
(***************************************************************************)
EXTENDS Integers

CONSTANTS StoreReqs,     \* requests under way at a time
          MaxPapers      \* bound: changes of the papers

ASSUME PapersBounded == MaxPapers \in Nat

StoreStatuses == {"PENDING", "ACTIVE", "INACTIVE", "BANNED"}
OwnerOps == {"upload", "edit", "rename", "depositOn", "depositOff", "upsert", "delete"}
AdminOps == {"approve", "reject", "lock", "unlock"}
NoStoreReq == [op |-> "none"]

VARIABLES shop,       \* the row: status, papers, depositPercent > 0
          payConfig,  \* the store has a StorePaymentConfig
          storeReq,   \* storeReq[h]: the request h, with the row it has read
          told,       \* the owner's last notification
          vouched,    \* ghost: the papers the last approval had before it
          locked,     \* ghost: an administrator has locked the store
          outdated    \* ghost: a request wrote on grounds that had changed since it read them

storeVars == <<shop, payConfig, storeReq, told, vouched, locked, outdated>>

StoreInit ==
  /\ shop = [status |-> "PENDING", papers |-> 0, deposit |-> FALSE]
  /\ payConfig = FALSE
  /\ storeReq = [h \in StoreReqs |-> NoStoreReq]
  /\ told = "nothing"
  /\ vouched = -1
  /\ locked = FALSE
  /\ outdated = FALSE

-----------------------------------------------------------------------------
\* Mutant: the owner of a locked store is let in.
OwnedAnyhow == TRUE
CheckOwnership == shop.status # "BANNED"

MayDecide(op) ==
  CASE op \in {"approve", "reject"} -> shop.status \in {"PENDING", "INACTIVE"}
    [] op = "lock"                  -> shop.status = "ACTIVE"
    [] op = "unlock"                -> shop.status = "BANNED"

\* Reading the row; a request that may not go on is refused and changes nothing.
Begin(h, op, phase) ==
  /\ storeReq[h] = NoStoreReq
  /\ storeReq' = [storeReq EXCEPT ![h] = [op |-> op, phase |-> phase, seen |-> shop]]
  /\ UNCHANGED <<shop, payConfig, told, vouched, locked, outdated>>

OwnerCalls(h) ==
  \E op \in OwnerOps :
     /\ CheckOwnership
     /\ Begin(h, op, IF op \in {"depositOn", "delete"} THEN "config" ELSE "write")

AdminCalls(h) == \E op \in AdminOps : MayDecide(op) /\ Begin(h, op, "write")

At(h, ops, phase) == /\ storeReq[h] # NoStoreReq
                     /\ storeReq[h].op \in ops /\ storeReq[h].phase = phase
Done(h) == storeReq' = [storeReq EXCEPT ![h] = NoStoreReq]
Turns(h, phase) == storeReq' = [storeReq EXCEPT ![h].phase = phase]

\* A deposit needs an account to pay it to; only a configuration that is there is deleted.
ReadConfig(h) ==
  /\ At(h, {"depositOn", "delete"}, "config")
  /\ IF payConfig THEN Turns(h, "write") ELSE Done(h)
  /\ UNCHANGED <<shop, payConfig, told, vouched, locked, outdated>>

\* Papers that were decided upon are decided upon again.
ReverificationData(seen) ==
  IF seen.status \in {"ACTIVE", "INACTIVE"} THEN "PENDING" ELSE shop.status

\* uploadCccdFront, uploadCccdBack, uploadBusinessLicense, and an update that changes a
\* field of hasVerificationChange.
WritePapers(h) ==
  /\ At(h, {"upload", "edit"}, "write")
  /\ shop.papers < MaxPapers
  /\ shop' = [shop EXCEPT !.papers = @ + 1, !.status = ReverificationData(storeReq[h].seen)]
  /\ outdated' = (outdated \/ storeReq[h].seen.status # shop.status)
  /\ Done(h)
  /\ UNCHANGED <<payConfig, told, vouched, locked>>

\* The picture does not reach Cloudinary, or the write fails.
GiveUp(h) ==
  /\ At(h, OwnerOps \cup AdminOps, "write")
  /\ Done(h)
  /\ UNCHANGED <<shop, payConfig, told, vouched, locked, outdated>>

\* The rest of update: fields that are nobody's concern but the owner's.
WriteFields(h) ==
  /\ At(h, {"rename", "depositOn", "depositOff"}, "write")
  /\ shop' = [shop EXCEPT !.deposit = CASE storeReq[h].op = "depositOn"  -> TRUE
                                        [] storeReq[h].op = "depositOff" -> FALSE
                                        [] OTHER                         -> @]
  /\ outdated' = (outdated \/ (storeReq[h].op = "depositOn" /\ ~payConfig))
  /\ Done(h)
  /\ UNCHANGED <<payConfig, told, vouched, locked>>

UpsertPaymentConfig(h) ==
  /\ At(h, {"upsert"}, "write")
  /\ payConfig' = TRUE
  /\ Done(h)
  /\ UNCHANGED <<shop, told, vouched, locked, outdated>>

\* One transaction: without an account there is no deposit.  A second delete finds no row,
\* and its transaction fails as a whole.
DeletePaymentConfig(h) ==
  /\ At(h, {"delete"}, "write")
  /\ payConfig' = FALSE
  /\ shop' = IF payConfig THEN [shop EXCEPT !.deposit = FALSE] ELSE shop
  /\ Done(h)
  /\ UNCHANGED <<told, vouched, locked, outdated>>

\* The four decisions, each a write of the status and, but for unlock, a notification in a
\* second statement.
Decide(h) ==
  /\ At(h, AdminOps, "write")
  /\ LET op == storeReq[h].op IN
     /\ shop' = [shop EXCEPT !.status = CASE op \in {"approve", "unlock"} -> "ACTIVE"
                                          [] op = "reject"                -> "INACTIVE"
                                          [] op = "lock"                  -> "BANNED"]
     /\ vouched' = IF op = "approve" THEN storeReq[h].seen.papers ELSE vouched
     /\ locked' = (op = "lock")
     /\ outdated' = (outdated \/ storeReq[h].seen.status # shop.status
                              \/ storeReq[h].seen.papers # shop.papers)
     /\ IF op = "unlock" THEN Done(h) ELSE Turns(h, "tell")
  /\ UNCHANGED <<payConfig, told>>

Tell(h) ==
  /\ At(h, AdminOps, "tell")
  /\ \/ told' = storeReq[h].op
     \/ UNCHANGED told               \* the insert fails; the decision stands
  /\ Done(h)
  /\ UNCHANGED <<shop, payConfig, vouched, locked, outdated>>

StoreNext ==
  \E h \in StoreReqs :
     \/ OwnerCalls(h) \/ AdminCalls(h) \/ ReadConfig(h) \/ GiveUp(h)
     \/ WritePapers(h) \/ WriteFields(h)
     \/ UpsertPaymentConfig(h) \/ DeletePaymentConfig(h)
     \/ Decide(h) \/ Tell(h)

-----------------------------------------------------------------------------
\* Unless a request has written on outdated grounds: a store in business has the papers
\* an administrator approved, a locked store is locked until it is unlocked, and a store
\* asks for deposits only when it can be paid.  The grounds do go stale: an upload that
\* began before a lock takes the store out of it, a paper that arrives during an approval
\* is approved unseen, a deposit may be asked for just as the account is deleted.
StoreStandsAsDecided ==
  ~outdated => /\ shop.status = "ACTIVE" => shop.papers = vouched
               /\ locked <=> shop.status = "BANNED"
               /\ shop.deposit => payConfig
=============================================================================
