------------------------------ MODULE Membership ------------------------------
(* Who works where: opening a store makes its owner a member, an invite sent by *)
(* mail lets a user join, the owner edits or removes members.  A membership is  *)
(* a staff row and the store role beside it; both change in one transaction,    *)
(* and the member's cached permissions are dropped after it.                    *)
EXTENDS PermissionCache

CONSTANTS
  MemReqs,            \* requests that change memberships
  Boss, Open,         \* the owner of the store that is open at the start
  InviteRows,         \* rows of the invite table
  MaxCalls,           \* bound: calls that change memberships in a behaviour
  MaxStoreRoles       \* 3 in the code

ASSUME BossIsUser == Boss \in Users

VARIABLES
  ownerOf,            \* [Stores -> user, Nobody before the store exists]
  staff,              \* [Users \X Stores -> status, None without a row]
  invites,            \* [InviteRows -> row or NoInvite]
  calls,              \* calls begun, up to MaxCalls; an invite's token is its call
  memReqs,
  touched             \* <<user, store>> whose status or roles were set by hand
memVars == <<ownerOf, staff, invites, calls, memReqs, touched>>

StaffStatuses == {"ACTIVE", "INACTIVE", "DELETED"}
None     == "none"
Nobody   == "nobody"
NoInvite == [status |-> "none"]
NoMemReq == [at |-> "idle"]
Owner    == "SHOP_OWNER"
Member   == "SHOP_STAFF"

\* Some users work at the open store from the start.
MemInit ==
  /\ PermInit
  /\ ownerOf = [s \in Stores |-> IF s = Open THEN Boss ELSE Nobody]
  /\ \E hired \in SUBSET (Users \ {Boss}) :
       /\ staff = [m \in Users \X Stores |->
                    IF m[2] = Open /\ m[1] \in hired \cup {Boss} THEN "ACTIVE" ELSE None]
       /\ userRoles = {<<Boss, Owner, Open>>, <<Boss, SuperAdmin, System>>}
                      \cup {<<u, Member, Open>> : u \in hired}
  /\ invites = [i \in InviteRows |-> NoInvite]
  /\ calls = 0
  /\ memReqs = [r \in MemReqs |-> NoMemReq]
  /\ touched = {}

Pending(u) == \E r \in MemReqs : memReqs[r].at = "forget" /\ memReqs[r].user = u

Goes(r, q)   == memReqs' = [memReqs EXCEPT ![r] = q]
Starts(r)    == memReqs[r] = NoMemReq /\ calls < MaxCalls /\ calls' = calls + 1
\* Variant: the cached permissions of a member are left as they are.
ForgetsNobody(r) == Goes(r, NoMemReq)
Forgets(r)   == Goes(r, [at |-> "forget", user |-> memReqs[r].user])
StoreRolesOf(u) == {row \in RowsOf(u) : row[3] # System}

(* ------------------------------- Inviting -------------------------------- *)

InvitesOf(u, s) == {i \in InviteRows : invites[i] # NoInvite
                                       /\ invites[i].user = u /\ invites[i].store = s}
Waiting(i) == invites[i].status = "PENDING"

\* The store is open and the caller's, the user is neither its owner nor a member, no invite runs.
Invite(r, u, s) ==
  /\ Starts(r)
  /\ s = Open /\ u # ownerOf[s]
  /\ staff[<<u, s>>] # "ACTIVE"
  /\ ~\E i \in InvitesOf(u, s) : Waiting(i) /\ invites[i].live
  /\ Goes(r, [at |-> "findInvite", user |-> u, store |-> s, token |-> calls'])
  /\ UNCHANGED <<ownerOf, staff, invites, touched, permVars>>

\* A row left pending is written over; no row is ever marked EXPIRED.
FindInvite(r) ==
  /\ memReqs[r].at = "findInvite"
  /\ LET q == memReqs[r]
         old == {i \in InvitesOf(q.user, q.store) : Waiting(i)}
     IN \E i \in IF old # {} THEN old ELSE {i \in InviteRows : invites[i] = NoInvite} :
          Goes(r, [at |-> IF old # {} THEN "renewInvite" ELSE "addInvite",
                   user |-> q.user, store |-> q.store, token |-> q.token, row |-> i])
  /\ UNCHANGED <<ownerOf, staff, invites, calls, touched, permVars>>

WriteInvite(r) ==
  /\ memReqs[r].at \in {"renewInvite", "addInvite"}
  /\ LET q == memReqs[r]
     IN \E i \in IF q.at = "renewInvite" THEN {q.row} ELSE {j \in InviteRows : invites[j] = NoInvite} :
          invites' = [invites EXCEPT ![i] =
            [status |-> "PENDING", user |-> q.user, store |-> q.store, token |-> q.token, live |-> TRUE]]
  /\ Goes(r, NoMemReq)
  /\ UNCHANGED <<ownerOf, staff, calls, touched, permVars>>

\* Seven days pass.
InviteExpires(i) ==
  /\ invites[i] # NoInvite /\ Waiting(i) /\ invites[i].live
  /\ invites' = [invites EXCEPT ![i].live = FALSE]
  /\ UNCHANGED <<ownerOf, staff, calls, memReqs, touched, permVars>>

AcceptInvite(r, i) ==
  /\ Starts(r)
  /\ invites[i] # NoInvite /\ Waiting(i) /\ invites[i].live
  /\ staff[<<invites[i].user, invites[i].store>>] # "ACTIVE"
  /\ Goes(r, [at |-> "join", user |-> invites[i].user, store |-> invites[i].store, row |-> i])
  /\ UNCHANGED <<ownerOf, staff, invites, touched, permVars>>

\* The transaction: staff row, role row, invite.  A role row that is there already undoes it.
MayJoin(q) == <<q.user, Member, q.store>> \notin userRoles
Join(r) ==
  LET q == memReqs[r]
  IN /\ q.at = "join"
     /\ MayJoin(q)
     /\ staff' = [staff EXCEPT ![<<q.user, q.store>>] = "ACTIVE"]
     /\ userRoles' = userRoles \cup {<<q.user, Member, q.store>>}
     /\ invites' = [invites EXCEPT ![q.row].status = "ACCEPTED"]
     /\ Forgets(r)
     /\ UNCHANGED <<ownerOf, calls, touched, grants, codeOf, permCache, permReqs, changes, excused>>
JoinFails(r) ==
  /\ memReqs[r].at = "join"
  /\ ~MayJoin(memReqs[r])
  /\ Goes(r, NoMemReq)
  /\ UNCHANGED <<ownerOf, staff, invites, calls, touched, permVars>>

(* --------------------------- Opening a store ------------------------------ *)

CreateStore(r, u, s) ==
  /\ Starts(r)
  /\ ownerOf[s] = Nobody
  /\ Cardinality(StoreRolesOf(u)) < MaxStoreRoles
  /\ Goes(r, [at |-> "create", user |-> u, store |-> s])
  /\ UNCHANGED <<ownerOf, staff, invites, touched, permVars>>

InsertStore(r) ==
  LET q == memReqs[r]
  IN /\ q.at = "create"
     /\ ownerOf[q.store] = Nobody
     /\ ownerOf' = [ownerOf EXCEPT ![q.store] = q.user]
     /\ userRoles' = userRoles \cup {<<q.user, Owner, q.store>>}
     /\ staff' = [staff EXCEPT ![<<q.user, q.store>>] = "ACTIVE"]
     /\ Forgets(r)
     /\ UNCHANGED <<invites, calls, touched, grants, codeOf, permCache, permReqs, changes, excused>>

\* The owner's profile page puts a missing or removed staff row of the owner back.
RestoreOwner(s) ==
  /\ ownerOf[s] # Nobody
  /\ staff[<<ownerOf[s], s>>] # "ACTIVE"
  /\ staff' = [staff EXCEPT ![<<ownerOf[s], s>>] = "ACTIVE"]
  /\ UNCHANGED <<ownerOf, invites, calls, memReqs, touched, permVars>>

(* ------------------------ Editing and removing ---------------------------- *)

Employed(u, s) == staff[<<u, s>>] \in {"ACTIVE", "INACTIVE"}
Find(r, at, u, s, x) ==
  /\ Starts(r)
  /\ ownerOf[s] # Nobody /\ Employed(u, s)
  /\ Goes(r, [at |-> at, user |-> u, store |-> s, status |-> x])
  /\ UNCHANGED <<ownerOf, staff, invites, touched, permVars>>

UpdateMember(r, u, s, x) == Find(r, "edit", u, s, x)
WriteMember(r) ==
  LET q == memReqs[r]
  IN /\ q.at = "edit"
     /\ staff' = [staff EXCEPT ![<<q.user, q.store>>] = q.status]
     /\ touched' = touched \cup {<<q.user, q.store>>}
     /\ Goes(r, NoMemReq)
     /\ UNCHANGED <<ownerOf, invites, calls, permVars>>

RemoveMember(r, u, s) == u # ownerOf[s] /\ Find(r, "remove", u, s, "DELETED")
\* Variant: the roles of a removed member stay.
DeleteKeepingRoles(r) ==
  /\ memReqs[r].at = "remove"
  /\ staff' = [staff EXCEPT ![<<memReqs[r].user, memReqs[r].store>>] = "DELETED"]
  /\ Forgets(r)
  /\ UNCHANGED <<ownerOf, invites, calls, touched, permVars>>
DeleteMember(r) ==
  LET q == memReqs[r]
  IN /\ q.at = "remove"
     /\ staff' = [staff EXCEPT ![<<q.user, q.store>>] = "DELETED"]
     /\ userRoles' = {row \in userRoles : ~(row[1] = q.user /\ row[3] = q.store)}
     /\ Forgets(r)
     /\ UNCHANGED <<ownerOf, invites, calls, touched, grants, codeOf, permCache, permReqs, changes, excused>>

\* The last thing of joining, opening and removing.
Forget(r) ==
  /\ memReqs[r].at = "forget"
  /\ InvalidateUser(memReqs[r].user)
  /\ Goes(r, NoMemReq)
  /\ UNCHANGED <<ownerOf, staff, invites, calls, touched, userRoles, grants, codeOf, permReqs, changes>>

(* ------------------------------ Next ------------------------------------- *)

\* An administrator's rewrite of roles knows nothing of staff rows.
PermStep ==
  /\ PermNext(ownerOf, Pending)
  /\ touched' = touched \cup
       {m \in Users \X Stores : {w \in userRoles : w[1] = m[1] /\ w[3] = m[2]}
                                # {w \in userRoles' : w[1] = m[1] /\ w[3] = m[2]}}
  /\ UNCHANGED <<ownerOf, staff, invites, calls, memReqs>>

MemNext ==
  \/ PermStep
  \/ \E s \in Stores : RestoreOwner(s)
  \/ \E i \in InviteRows : InviteExpires(i)
  \/ \E r \in MemReqs :
       \/ FindInvite(r) \/ WriteInvite(r) \/ Join(r) \/ JoinFails(r)
       \/ InsertStore(r) \/ WriteMember(r) \/ DeleteMember(r) \/ Forget(r)
       \/ \E i \in InviteRows : AcceptInvite(r, i)
       \/ \E u \in Users, s \in Stores :
            \/ Invite(r, u, s) \/ CreateStore(r, u, s) \/ RemoveMember(r, u, s)
            \/ \E x \in StaffStatuses : UpdateMember(r, u, s, x)

(* ---------------------------- Properties --------------------------------- *)

\* An active member of a store holds a role there and nobody else does, whichever joins,
\* removals and openings overlap; only a status set by hand or an administrator's rewrite
\* of roles tears the two apart (acceptInvite, remove, create against update and users.update).
MembersHoldRoles ==
  \A m \in (Users \X Stores) \ touched :
    staff[m] = "ACTIVE" <=> \E row \in userRoles : row[1] = m[1] /\ row[3] = m[2]

\* A cached answer of the guard that is not what the database says is about to be dropped, or
\* was left by a load that a change overtook, an error of Redis, or an administrator's rewrite.
CacheExplained == WrongEntries(Pending) \subseteq excused

\* What the README says of the cache: it is dropped whenever roles or permissions change.
CacheFollowsRoles == WrongEntries(Pending) = {}
=============================================================================
