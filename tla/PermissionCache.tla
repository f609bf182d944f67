--------------------------- MODULE PermissionCache ---------------------------
(* Who may do what.  A user holds roles, each at a store or system-wide; a role *)
(* grants permissions; the guard of every route reads the codes a user has at   *)
(* the store named by the request, from a cache in Redis or from the database.  *)
(* Whoever changes roles or permissions drops the cached answers afterwards,    *)
(* with errors of Redis swallowed on both sides.                                *)
EXTENDS Naturals, FiniteSets

CONSTANTS
  Users, Stores,
  Roles,              \* the template roles and the roles of a store
  Home,               \* Home[r]: the store a role belongs to, System for a template
  Perms, Codes,       \* rows of the permission table, and the codes they may carry
  Routes,             \* <<user, scope>> of the routes that are called
  PermReqs,           \* requests at the guard or changing roles and permissions
  Rewrites,           \* sets of <<role, store>> an administrator may assign
  MaxAssigned,        \* 3 in the code
  MaxChanges          \* bound: changes of roles and permissions in a behaviour

VARIABLES
  userRoles,          \* rows <<user, role, store or System>>
  grants,             \* [Roles -> SUBSET Perms], a removed role grants nothing
  codeOf,             \* [Perms -> code or Deleted]
  permCache,          \* [Users \X Scopes -> set of codes or NotCached]
  permReqs,
  changes,            \* changes made, up to MaxChanges
  excused             \* entries left wrong by a lost race, by Redis or by an administrator
permVars == <<userRoles, grants, codeOf, permCache, permReqs, changes, excused>>

System == "system"
ASSUME SystemIsNoStore == System \notin Stores
Scopes == Stores \cup {System}
NotCached == {"not cached"}
Deleted   == "deleted"
NoPermReq == [at |-> "idle"]
SuperAdmin == "SUPER_ADMIN"

RowsOf(u)       == {row \in userRoles : row[1] = u}
IsSuperAdmin(u) == <<u, SuperAdmin, System>> \in userRoles
CodesOfRoles(rs) == {codeOf[p] : p \in UNION {grants[r] : r \in rs}} \ {Deleted}

\* loadPermissionsFromDb
CodesInDb(u, s) ==
  CodesOfRoles({row[2] : row \in {w \in RowsOf(u) :
    w[3] = s \/ (w[3] = System /\ w[2] = SuperAdmin)}})

PermInit ==
  /\ grants = [r \in Roles |-> Perms]
  /\ codeOf \in {f \in [Perms -> Codes] : \A p, o \in Perms : f[p] = f[o] => p = o}
  /\ permCache = [e \in Users \X Scopes |-> NotCached]
  /\ permReqs = [r \in PermReqs |-> NoPermReq]
  /\ changes = 0
  /\ excused = {}

(* ----------------------------- The guard --------------------------------- *)

\* A request that finds nothing in the cache, or cannot read it, goes to the database.
ReadCache(r, u, s) ==
  /\ permReqs[r] = NoPermReq
  /\ permReqs' = [permReqs EXCEPT ![r] = [at |-> "load", user |-> u, scope |-> s]]
  /\ UNCHANGED <<userRoles, grants, codeOf, permCache, changes, excused>>

Load(r) ==
  /\ permReqs[r].at = "load"
  /\ permReqs' = [permReqs EXCEPT ![r] =
       [at |-> "store", user |-> @.user, scope |-> @.scope, codes |-> CodesInDb(@.user, @.scope)]]
  /\ UNCHANGED <<userRoles, grants, codeOf, permCache, changes, excused>>

\* Requests that have changed what the entries of user u should say, and have yet to drop them.
DroppingAll == {r \in PermReqs : permReqs[r].at = "dropAll"}

StoreCodes(r, pending) ==
  LET q == permReqs[r]
      e == <<q.user, q.scope>>
  IN /\ q.at = "store"
     /\ permCache' = [permCache EXCEPT ![e] = q.codes]
     /\ excused' = IF q.codes = CodesInDb(q.user, q.scope) \/ pending \/ DroppingAll # {}
                   THEN excused \ {e} ELSE excused \cup {e}
     /\ permReqs' = [permReqs EXCEPT ![r] = NoPermReq]
     /\ UNCHANGED <<userRoles, grants, codeOf, changes>>
StoreFails(r) ==
  /\ permReqs[r].at = "store"
  /\ permReqs' = [permReqs EXCEPT ![r] = NoPermReq]
  /\ UNCHANGED <<userRoles, grants, codeOf, permCache, changes, excused>>

\* The entry's 300 seconds are over.
CacheExpires(e) ==
  /\ permCache[e] # NotCached
  /\ permCache' = [permCache EXCEPT ![e] = NotCached]
  /\ excused' = excused \ {e}
  /\ UNCHANGED <<userRoles, grants, codeOf, permReqs, changes>>

(* ---------------------------- Invalidation ------------------------------- *)

\* An entry that is not what the database says.
Wrong(e) == permCache[e] # NotCached /\ permCache[e] # CodesInDb(e[1], e[2])

\* The keys are deleted one batch after another; an error leaves the rest, and is swallowed.
Invalidate(E) == \E D \in SUBSET {e \in E : permCache[e] # NotCached} :
  /\ permCache' = [e \in Users \X Scopes |-> IF e \in D THEN NotCached ELSE permCache[e]]
  /\ excused' = (excused \ D) \cup {e \in E \ D : Wrong(e)}
InvalidateUser(u) == Invalidate({u} \X Scopes)

InvalidateAll(r) ==
  /\ r \in DroppingAll
  /\ Invalidate(Users \X Scopes)
  /\ permReqs' = [permReqs EXCEPT ![r] = NoPermReq]
  /\ UNCHANGED <<userRoles, grants, codeOf, changes>>

(* ---------------------- Roles and permissions ---------------------------- *)

\* Templates are the super administrator's; a store's own role is also its owner's.
MayEditRole(actor, x, owners) == IsSuperAdmin(actor) \/ (Home[x] # System /\ owners[Home[x]] = actor)

Changes(r) == /\ permReqs[r] = NoPermReq
              /\ changes < MaxChanges
              /\ changes' = changes + 1
ThenDropAll(r) == permReqs' = [permReqs EXCEPT ![r] = [at |-> "dropAll"]]

UpdateRole(r, actor, x, ps, owners) ==
  /\ Changes(r)
  /\ MayEditRole(actor, x, owners)
  /\ grants' = [grants EXCEPT ![x] = ps]
  /\ ThenDropAll(r)
  /\ UNCHANGED <<userRoles, codeOf, permCache, excused>>

\* A role someone holds cannot be removed: its rows refer to it.
RemoveRole(r, actor, x, owners) ==
  /\ Changes(r)
  /\ MayEditRole(actor, x, owners)
  /\ ~\E row \in userRoles : row[2] = x
  /\ grants' = [grants EXCEPT ![x] = {}]
  /\ ThenDropAll(r)
  /\ UNCHANGED <<userRoles, codeOf, permCache, excused>>

UpdatePermission(r, p, c) ==
  /\ Changes(r)
  /\ codeOf[p] # Deleted
  /\ \A o \in Perms \ {p} : codeOf[o] # c
  /\ codeOf' = [codeOf EXCEPT ![p] = c]
  /\ ThenDropAll(r)
  /\ UNCHANGED <<userRoles, grants, permCache, excused>>

RemovePermission(r, p) ==
  /\ Changes(r)
  /\ codeOf[p] # Deleted
  /\ codeOf' = [codeOf EXCEPT ![p] = Deleted]
  /\ grants' = [x \in Roles |-> grants[x] \ {p}]
  /\ ThenDropAll(r)
  /\ UNCHANGED <<userRoles, permCache, excused>>

\* users.update replaces every role of the account and leaves the cache alone.
RewriteRoles(u, assigned) ==
  /\ changes < MaxChanges
  /\ changes' = changes + 1
  /\ Cardinality({a \in assigned : a[2] # System}) <= MaxAssigned
  /\ userRoles' = (userRoles \ RowsOf(u)) \cup {<<u, a[1], a[2]>> : a \in assigned}
  /\ UNCHANGED <<grants, codeOf, permCache, permReqs>>
  /\ excused' = excused \cup {e \in {u} \X Scopes : Wrong(e)'}

PermNext(owners, pending(_)) ==
  \/ \E r \in PermReqs :
       \/ \E a \in Routes : ReadCache(r, a[1], a[2])
       \/ Load(r) \/ StoreFails(r) \/ InvalidateAll(r)
       \/ permReqs[r].at = "store" /\ StoreCodes(r, pending(permReqs[r].user))
       \/ \E actor \in Users, x \in Roles :
            \/ \E ps \in SUBSET Perms : UpdateRole(r, actor, x, ps, owners)
            \/ RemoveRole(r, actor, x, owners)
       \/ \E p \in Perms : RemovePermission(r, p) \/ \E c \in Codes : UpdatePermission(r, p, c)
  \/ \E e \in Users \X Scopes : CacheExpires(e)
  \/ \E u \in Users, assigned \in Rewrites : RewriteRoles(u, assigned)

\* The cached answers that are not what the database says, no invalidation being due.
WrongEntries(pending(_)) ==
  {e \in Users \X Scopes : Wrong(e) /\ ~pending(e[1]) /\ DroppingAll = {}}
=============================================================================
