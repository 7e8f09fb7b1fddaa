----------------------------- MODULE Membership -----------------------------
(***************************************************************************)
(* Who may do what in one store (apps/backend/src/stores/invitation,       *)
(* stores/role, common/rbac, auth/mobile/services/snapshot.service.ts):    *)
(* invitations, role assignments, the permission matrix of a role, and the *)
(* two caches that answer from it, permissions in Redis with a time to     *)
(* live and signed snapshots pinned to users.permissions_version.          *)
(*                                                                         *)
(* A worker is one request.  One action is the code between two awaits     *)
(* that other requests can tell apart: the checks before a transaction,    *)
(* the statement that takes a lock, the reading of the members to bump,    *)
(* the commit, each invalidation.  Transactions are READ COMMITTED; what   *)
(* an open one has written shows in the worker, and when it commits in the *)
(* tables.                                                                 *)
(***************************************************************************)
EXTENDS Integers, FiniteSets

CONSTANTS
    Users, Roles, Invites,
    Grants,       \* (entity, action) pairs of the matrix of a role
    Workers,      \* bound: requests at once
    CriticalTtl,  \* TTL_CRITICAL_SECONDS
    StandardTtl,  \* TTL_STANDARD_SECONDS
    MaxVersion,   \* bound: permission versions, row versions
    NoOne

ASSUME MembershipAssumption ==
    /\ CriticalTtl \in Nat \ {0} /\ StandardTtl \in Nat /\ CriticalTtl <= StandardTtl
    /\ MaxVersion \in Nat \ {0}
    /\ NoOne \notin Users \cup Roles \cup Invites

VARIABLES
    role,     \* roles: [live, ver, grants], the active role_permissions with it
    mapping,  \* user_role_mappings: one row per user and role, revoked ones too
    invite,   \* invitations: [status, role, user], "lapsed" is pending past expires_at
    members,  \* account_users
    version,  \* users.permissions_version
    perm,     \* Redis: resolved permissions [got, age, ttl] of a user
    snap,     \* Redis: signed snapshot [ver, got] of a user
    req,      \* the requests
    left,     \* history: ticks since the user lost the role, 0 while he holds it
    taken,    \* history: ticks since the role lost the grant, 0 while it gives it
    late,     \* history: rows put on a role after it was deleted
    unseen    \* history: users whose grants changed without a new version

tables == <<role, mapping, invite, members, version>>
caches == <<perm, snap>>
fading == <<left, taken>>
history == <<fading, late, unseen>>
membersVars == <<tables, caches, req, history>>

Ticks == 0 .. StandardTtl + 2
Idle == [op |-> "none", at |-> "idle", user |-> NoOne, role |-> NoOne, inv |-> NoOne,
         roles |-> {}, want |-> {}, ver |-> 0, new |-> FALSE, bumped |-> {}, slow |-> FALSE]
None == [ver |-> 0, got |-> {}]
Miss == [got |-> {}, age |-> 0, ttl |-> 0]

MembersTypeOK ==
    /\ role \in [Roles -> [live : BOOLEAN, ver : 1 .. MaxVersion, grants : SUBSET Grants]]
    /\ mapping \in [Users \X Roles -> {"none", "active", "revoked"}]
    /\ \A i \in Invites :
          /\ invite[i].status \in {"none", "pending", "lapsed", "accepted", "revoked", "expired"}
          /\ invite[i].status # "none" => invite[i].user \in Users /\ invite[i].role \in Roles
    /\ members \subseteq Users /\ version \in [Users -> 1 .. MaxVersion]
    /\ perm \in [Users -> [got : SUBSET Grants, age : Ticks, ttl : {0, CriticalTtl, StandardTtl}]]
    /\ \A u \in Users : perm[u].age < perm[u].ttl \/ perm[u] = Miss
    /\ snap \in [Users -> [ver : 0 .. MaxVersion, got : SUBSET Grants]]
    /\ left \in [Users \X Roles -> Ticks] /\ taken \in [Roles \X Grants -> Ticks]
    /\ late \subseteq (Users \X Roles) \cup Invites /\ unseen \subseteq Users

\* findActiveRolesForUser: a deleted role is not held.
RolesOf(u) == {r \in Roles : role[r].live /\ mapping[<<u, r>>] = "active"}

MembersInit ==
    /\ role \in [Roles -> {[live |-> TRUE, ver |-> 1, grants |-> G] : G \in SUBSET Grants}]
    /\ members \in SUBSET Users
    /\ mapping \in {m \in [Users \X Roles -> {"none", "active"}] : \A p \in Users \X Roles :
                        m[p] = "active" => p[1] \in members}
    /\ invite = [i \in Invites |-> [status |-> "none", user |-> NoOne, role |-> NoOne]]
    /\ version = [u \in Users |-> 1]
    /\ perm = [u \in Users |-> Miss] /\ snap = [u \in Users |-> None]
    /\ req = [w \in Workers |-> Idle]
    /\ left = [p \in Users \X Roles |-> IF p[2] \in RolesOf(p[1]) THEN 0 ELSE StandardTtl + 2]
    /\ taken = [p \in Roles \X Grants |-> IF p[2] \in role[p[1]].grants THEN 0 ELSE StandardTtl + 2]
    /\ late = {} /\ unseen = {}

At(w, op, at) == req[w].op = op /\ req[w].at = at
Starts(w, r) == req[w].at = "idle" /\ req' = [req EXCEPT ![w] = r]
Goes(w, at) == req' = [req EXCEPT ![w].at = at]

\* What the invalidations still need of a request.
Committed(w) == req' = [req EXCEPT ![w].at = "unperm", ![w].new = FALSE, ![w].want = {}, ![w].ver = 0,
                            ![w].inv = NoOne, ![w].bumped = IF req[w].op = "update" THEN @ ELSE {}]

Ends(w) == req' = [req EXCEPT ![w] = Idle]
Holders(r) == {u \in Users : mapping[<<u, r>>] = "active"}
Pending(r, u, status) ==
    {i \in Invites : invite[i].status = status /\ invite[i].role = r /\ invite[i].user = u}

\* buildStoreAccessBlock does not look at roles.deleted_at.
Listed(u) == UNION {role[r].grants : r \in {x \in Roles : mapping[<<u, x>>] = "active"}}

\* Locks.  The insert of a mapping or an invitation holds FOR KEY SHARE on the
\* role (its foreign key), casUpdateRowVersion the row itself, lockStore the
\* store, markAccepted the invitation and revokeAssignment the mapping.
InTx(w) == req[w].at \in {"bump", "commit"}
Shares(w, r) == req[w].role = r /\ ((InTx(w) /\ req[w].new) \/ At(w, "invite", "commit"))
Writes(w, r) == req[w].role = r /\ req[w].op = "update" /\ InTx(w)

\* Mutant: deleteRole takes no lock.
RoleFreeAlways(r) == TRUE

RoleFree(r) == \A w \in Workers : ~Shares(w, r) /\ ~Writes(w, r)
RowFree(r) == \A w \in Workers : ~Writes(w, r)
StoreFree == \A w \in Workers : ~(req[w].op = "accept" /\ (InTx(w) \/ req[w].at \in {"role", "insert"}))
                                /\ ~At(w, "invite", "commit")
InviteFree(i) == \A w \in Workers : ~(req[w].op = "accept" /\ req[w].inv = i
                                      /\ (InTx(w) \/ req[w].at \in {"role", "insert"}))
MappingFree(u, r) == \A w \in Workers :
    ~(req[w].user = u /\ req[w].role = r /\ InTx(w) /\ (req[w].new \/ req[w].op = "revoke"))
-----------------------------------------------------------------------------
\* A commit that changes grants: the new tables, the versions it bumps, and
\* who got what just now.
Settles(roles, mappings, bumped, missed) ==
    /\ role' = roles /\ mapping' = mappings
    /\ \A u \in bumped : version[u] < MaxVersion
    /\ version' = [u \in Users |-> IF u \in bumped THEN version[u] + 1 ELSE version[u]]
    /\ left' = [p \in Users \X Roles |-> IF roles[p[2]].live /\ mappings[p] = "active" THEN 0 ELSE left[p]]
    /\ taken' = [p \in Roles \X Grants |-> IF p[2] \in roles[p[1]].grants THEN 0 ELSE taken[p]]
    /\ unseen' = (unseen \ bumped) \cup missed

\* Mutant: who is bumped is read before the row is written.
BumpedBefore(w) == Holders(req[w].role) \ {req[w].user}

\* findActiveMemberIds inside the transaction: its own row counts already, and
\* a user whose row it has just revoked is no member any more.
Bumped(w) ==
    CASE req[w].op = "revoke" -> Holders(req[w].role) \ {req[w].user}
      [] req[w].new -> Holders(req[w].role) \cup {req[w].user}
      [] OTHER -> Holders(req[w].role)

Bump(w) ==
    /\ req[w].at = "bump"
    /\ req' = [req EXCEPT ![w].at = "commit", ![w].bumped = Bumped(w)]
    /\ UNCHANGED <<tables, caches, history>>

\* assignRole: the checks; the insert, under an index that revoked rows fill
\* too; the commit.
AssignChecks(w, u, r) ==
    /\ role[r].live /\ u \in members /\ mapping[<<u, r>>] # "active"
    /\ Starts(w, [Idle EXCEPT !.op = "assign", !.at = "insert", !.user = u, !.role = r])
    /\ UNCHANGED <<tables, caches, history>>

Late(w) == IF role[req[w].role].live THEN {} ELSE {<<req[w].user, req[w].role>>}

AssignInserts(w) ==
    /\ At(w, "assign", "insert") /\ MappingFree(req[w].user, req[w].role)
    /\ IF mapping[<<req[w].user, req[w].role>>] = "none"
       THEN /\ req' = [req EXCEPT ![w].at = "bump", ![w].new = TRUE]
            /\ late' = late \cup Late(w)
       ELSE Ends(w) /\ UNCHANGED late
    /\ UNCHANGED <<tables, caches, fading, unseen>>

Joined(w) == IF req[w].new THEN [mapping EXCEPT ![<<req[w].user, req[w].role>>] = "active"] ELSE mapping

AssignCommits(w) ==
    /\ At(w, "assign", "commit") /\ Committed(w)
    /\ Settles(role, Joined(w), req[w].bumped, {})
    /\ UNCHANGED <<invite, members, caches, late>>

\* revokeRole: the revoked user's own version is not among those bumped.
RevokeChecks(w, u, r) ==
    /\ role[r].live
    /\ Starts(w, [Idle EXCEPT !.op = "revoke", !.at = "strike", !.user = u, !.role = r])
    /\ UNCHANGED <<tables, caches, history>>

RevokeStrikes(w) ==
    /\ At(w, "revoke", "strike") /\ MappingFree(req[w].user, req[w].role)
    /\ IF mapping[<<req[w].user, req[w].role>>] = "active" THEN Goes(w, "bump") ELSE Ends(w)
    /\ UNCHANGED <<tables, caches, history>>

RevokeCommits(w) ==
    /\ At(w, "revoke", "commit") /\ Committed(w)
    /\ Settles(role, [mapping EXCEPT ![<<req[w].user, req[w].role>>] = "revoked"],
               req[w].bumped, {req[w].user})
    /\ UNCHANGED <<invite, members, caches, late>>

\* updatePermissions: whoever joined after the members were read is missed.
UpdateChecks(w, r, G) ==
    /\ role[r].live /\ role[r].ver < MaxVersion
    /\ Starts(w, [Idle EXCEPT !.op = "update", !.at = "cas", !.role = r, !.want = G, !.ver = role[r].ver])
    /\ UNCHANGED <<tables, caches, history>>

UpdateClaims(w) ==
    /\ At(w, "update", "cas") /\ RowFree(req[w].role)
    /\ IF role[req[w].role].ver = req[w].ver THEN Goes(w, "bump") ELSE Ends(w)
    /\ UNCHANGED <<tables, caches, history>>

UpdateCommits(w) ==
    /\ At(w, "update", "commit") /\ Committed(w)
    /\ LET r == req[w].role
       IN  Settles([role EXCEPT ![r].ver = @ + 1, ![r].grants = req[w].want], mapping,
                   req[w].bumped, Holders(r) \ req[w].bumped)
    /\ UNCHANGED <<invite, members, caches, late>>

\* deleteRole: unlocked checks, then lockRole, the same counts again and the
\* soft delete.
Unused(r) == Holders(r) = {} /\ \A u \in Users : Pending(r, u, "pending") = {}

DeleteChecks(w, r) ==
    /\ role[r].live /\ Unused(r)
    /\ Starts(w, [Idle EXCEPT !.op = "delete", !.at = "drop", !.role = r])
    /\ UNCHANGED <<tables, caches, history>>

DeleteCommits(w) ==
    /\ At(w, "delete", "drop") /\ RoleFree(req[w].role) /\ Ends(w)
    /\ IF Unused(req[w].role)
       THEN Settles([role EXCEPT ![req[w].role].live = FALSE, ![req[w].role].grants = {}], mapping, {}, {})
       ELSE UNCHANGED <<role, mapping, version, fading, unseen>>
    /\ UNCHANGED <<invite, members, caches, late>>
-----------------------------------------------------------------------------
\* InvitationService.create: the checks; then, under lockStore, stale pending
\* invitations are swept and the new one is inserted, unless a live one is there
\* (or, a bound, there is no invitation left to use).
InviteChecks(w, i, u, r) ==
    /\ invite[i].status = "none"
    /\ role[r].live /\ Pending(r, u, "pending") = {}
    /\ Starts(w, [Idle EXCEPT !.op = "invite", !.at = "insert", !.inv = i, !.user = u, !.role = r])
    /\ UNCHANGED <<tables, caches, history>>

InviteInserts(w) ==
    /\ At(w, "invite", "insert") /\ StoreFree
    /\ IF Pending(req[w].role, req[w].user, "pending") = {} /\ invite[req[w].inv].status = "none"
       THEN /\ Goes(w, "commit")
            /\ late' = IF role[req[w].role].live THEN late ELSE late \cup {req[w].inv}
       ELSE Ends(w) /\ UNCHANGED late
    /\ UNCHANGED <<tables, caches, fading, unseen>>

InviteCommits(w) ==
    /\ At(w, "invite", "commit") /\ Ends(w)
    /\ invite' = [i \in Invites |->
            IF i = req[w].inv THEN [status |-> "pending", user |-> req[w].user, role |-> req[w].role]
            ELSE IF i \in Pending(req[w].role, req[w].user, "lapsed")
            THEN [invite[i] EXCEPT !.status = "expired"] ELSE invite[i]]
    /\ UNCHANGED <<role, mapping, members, version, caches, history>>

\* expires_at passes; the status stays pending until a sweep.
Lapse(i) ==
    /\ invite[i].status = "pending"
    /\ invite' = [invite EXCEPT ![i].status = "lapsed"]
    /\ UNCHANGED <<role, mapping, members, version, caches, req, history>>

\* accept and acceptById: whoever shows the token; an unlocked check first.
AcceptReads(w, i, u) ==
    /\ invite[i].status = "pending"
    /\ Starts(w, [Idle EXCEPT !.op = "accept", !.at = "cas", !.inv = i, !.user = u, !.role = invite[i].role])
    /\ UNCHANGED <<tables, caches, history>>

\* Mutant: the update does not ask for the status.
StillPendingAnyway(i) == TRUE

\* The compare-and-set of markAccepted and markRevoked.
StillPending(i) == invite[i].status \in {"pending", "lapsed"}

AcceptClaims(w) ==
    /\ At(w, "accept", "cas") /\ StoreFree
    /\ IF StillPending(req[w].inv) THEN Goes(w, "role") ELSE Ends(w)
    /\ UNCHANGED <<tables, caches, history>>

AcceptChecksRole(w) ==
    /\ At(w, "accept", "role")
    /\ IF role[req[w].role].live THEN Goes(w, "insert") ELSE Ends(w)
    /\ UNCHANGED <<tables, caches, history>>

\* insertAssignmentIfAbsent: nothing happens if there is a row, revoked or not.
AcceptInserts(w) ==
    /\ At(w, "accept", "insert") /\ MappingFree(req[w].user, req[w].role)
    /\ LET absent == mapping[<<req[w].user, req[w].role>>] = "none"
       IN  /\ req' = [req EXCEPT ![w].at = "bump", ![w].new = absent]
           /\ late' = IF absent THEN late \cup Late(w) ELSE late
    /\ UNCHANGED <<tables, caches, fading, unseen>>

AcceptCommits(w) ==
    /\ At(w, "accept", "commit") /\ Committed(w)
    /\ invite' = [invite EXCEPT ![req[w].inv].status = "accepted", ![req[w].inv].user = req[w].user]
    /\ members' = members \cup {req[w].user}
    /\ Settles(role, Joined(w), req[w].bumped, {})
    /\ UNCHANGED <<caches, late>>

\* reject and rejectById: an unlocked check, then one statement.
RejectReads(w, i) ==
    /\ StillPending(i)
    /\ Starts(w, [Idle EXCEPT !.op = "reject", !.at = "cas", !.inv = i])
    /\ UNCHANGED <<tables, caches, history>>

RejectClaims(w) ==
    /\ At(w, "reject", "cas") /\ InviteFree(req[w].inv) /\ Ends(w)
    /\ invite' = IF StillPending(req[w].inv) THEN [invite EXCEPT ![req[w].inv].status = "revoked"] ELSE invite
    /\ UNCHANGED <<role, mapping, members, version, caches, history>>
-----------------------------------------------------------------------------
\* After the commit: the permissions of the user, or of the members the role
\* has by now, and then the snapshots, are deleted from Redis.
Unperm(w) ==
    /\ req[w].at = "unperm" /\ Goes(w, "unsnap")
    /\ perm' = [u \in Users |->
            IF u = req[w].user \/ (req[w].op = "update" /\ u \in Holders(req[w].role)) THEN Miss ELSE perm[u]]
    /\ UNCHANGED <<tables, snap, history>>

Unsnap(w) ==
    /\ req[w].at = "unsnap"
    /\ snap' = [u \in Users |->
            IF u = req[w].user \/ (req[w].op = "update" /\ u \in req[w].bumped) THEN None ELSE snap[u]]
    /\ IF req[w].op = "accept" THEN Goes(w, "build") ELSE Ends(w)
    /\ UNCHANGED <<tables, perm, history>>

\* The process dies, or Redis refuses and the request fails.
InvalidationLost(w) ==
    /\ req[w].at \in {"unperm", "unsnap"} /\ Ends(w)
    /\ UNCHANGED <<tables, caches, history>>

\* SnapshotService.getOrBuild, for a login, a refresh or the answer of an accept.
Snapshot(w, u) ==
    /\ Starts(w, [Idle EXCEPT !.op = "snapshot", !.at = "build", !.user = u])
    /\ UNCHANGED <<tables, caches, history>>

\* A cached snapshot of the live version is handed out as it is.
SnapshotHit(w) ==
    /\ req[w].at = "build" /\ snap[req[w].user].ver = version[req[w].user] /\ Ends(w)
    /\ UNCHANGED <<tables, caches, history>>

\* build, when there was none, an old one or a Redis error: the version, the
\* stores with a role of the user, the grants.  (Another request may have filled
\* the cache since it was looked up.)
BuildReadsVersion(w) ==
    /\ req[w].at = "build"
    /\ req' = [req EXCEPT ![w].at = "stores", ![w].ver = version[req[w].user]]
    /\ UNCHANGED <<tables, caches, history>>

BuildReadsStores(w) ==
    /\ req[w].at = "stores"
    /\ req' = [req EXCEPT ![w].want = {},
            ![w].at = IF \E r \in Roles : mapping[<<req[w].user, r>>] = "active" THEN "list" ELSE "sign"]
    /\ UNCHANGED <<tables, caches, history>>

BuildReadsGrants(w) ==
    /\ req[w].at = "list"
    /\ req' = [req EXCEPT ![w].at = "sign", ![w].want = Listed(req[w].user)]
    /\ UNCHANGED <<tables, caches, history>>

BuildFills(w) ==
    /\ req[w].at = "sign" /\ Ends(w)
    /\ snap' = [snap EXCEPT ![req[w].user] = [ver |-> req[w].ver, got |-> req[w].want]]
    /\ UNCHANGED <<tables, perm, history>>
-----------------------------------------------------------------------------
\* RbacService.getCachedPermissions, for a standard or a critical operation.
Ttl(op) == IF op = "critical" THEN CriticalTtl ELSE StandardTtl

\* Mutant: any entry that is still there will do.
FreshAlways(op, u) == perm[u] # Miss
FreshEnough(op, u) == perm[u] # Miss /\ (op = "critical" => perm[u].age <= CriticalTtl)

PermReads(w, op, u) ==
    /\ Starts(w, IF FreshEnough(op, u)
                 THEN [Idle EXCEPT !.op = op, !.at = "answered", !.user = u, !.want = perm[u].got]
                 ELSE [Idle EXCEPT !.op = op, !.at = "resolve", !.user = u])
    /\ UNCHANGED <<tables, caches, history>>

\* resolveFromDb: the roles first, and then what those roles give by then,
\* whether the user still holds them or not.
PermReadsRoles(w) ==
    LET held == RolesOf(req[w].user)
    IN  /\ req[w].at = "resolve"
        /\ req' = [req EXCEPT ![w].at = IF held = {} THEN "fill" ELSE "grants",
                              ![w].roles = held, ![w].want = {}]
        /\ UNCHANGED <<tables, caches, history>>

PermReadsGrants(w) ==
    /\ req[w].at = "grants"
    /\ req' = [req EXCEPT ![w].at = "fill", ![w].roles = {},
                          ![w].want = UNION {role[r].grants : r \in req[w].roles}]
    /\ UNCHANGED <<tables, caches, history>>

\* resolvedAt is the time of the fill, not of the reading.
PermFills(w) ==
    /\ req[w].at = "fill" /\ req' = [req EXCEPT ![w].at = "answered", ![w].slow = FALSE]
    /\ perm' = [perm EXCEPT ![req[w].user] = [got |-> req[w].want, age |-> 0, ttl |-> Ttl(req[w].op)]]
    /\ UNCHANGED <<tables, snap, history>>

PermEnds(w) == req[w].at = "answered" /\ Ends(w) /\ UNCHANGED <<tables, caches, history>>

\* Time: an answer is used at once, and permissions are filled in within a tick
\* of the reading of the roles (bound).
Reading(w) == req[w].at \in {"grants", "fill"}
Later(n) == IF n < StandardTtl + 2 THEN n + 1 ELSE n
Tick ==
    /\ \A w \in Workers : req[w].at # "answered" /\ ~(Reading(w) /\ req[w].slow)
    /\ req' = [w \in Workers |-> IF Reading(w) THEN [req[w] EXCEPT !.slow = TRUE] ELSE req[w]]
    /\ perm' = [u \in Users |-> IF perm[u].age + 1 < perm[u].ttl THEN [perm[u] EXCEPT !.age = @ + 1] ELSE Miss]
    /\ left' = [p \in Users \X Roles |-> IF p[2] \in RolesOf(p[1]) THEN 0 ELSE Later(left[p])]
    /\ taken' = [p \in Roles \X Grants |-> IF p[2] \in role[p[1]].grants THEN 0 ELSE Later(taken[p])]
    /\ UNCHANGED <<tables, snap, late, unseen>>

AdminStep(w) ==
    \/ Bump(w) \/ AssignInserts(w) \/ AssignCommits(w) \/ RevokeStrikes(w) \/ RevokeCommits(w)
    \/ UpdateClaims(w) \/ UpdateCommits(w) \/ DeleteCommits(w) \/ InviteInserts(w) \/ InviteCommits(w)
    \/ AcceptClaims(w) \/ AcceptChecksRole(w) \/ AcceptInserts(w) \/ AcceptCommits(w) \/ RejectClaims(w)
    \/ Unperm(w) \/ Unsnap(w) \/ InvalidationLost(w)
    \/ \E r \in Roles : DeleteChecks(w, r) \/ \E G \in SUBSET Grants : UpdateChecks(w, r, G)
    \/ \E r \in Roles, u \in Users : AssignChecks(w, u, r) \/ RevokeChecks(w, u, r)
                                      \/ \E i \in Invites : InviteChecks(w, i, u, r)
    \/ \E i \in Invites : RejectReads(w, i) \/ \E u \in Users : AcceptReads(w, i, u)

CacheStep(w) ==
    \/ SnapshotHit(w) \/ BuildReadsVersion(w) \/ BuildReadsStores(w) \/ BuildReadsGrants(w) \/ BuildFills(w)
    \/ PermReadsRoles(w) \/ PermReadsGrants(w) \/ PermFills(w) \/ PermEnds(w)
    \/ \E u \in Users : Snapshot(w, u) \/ \E op \in {"standard", "critical"} : PermReads(w, op, u)

MembersNext == Tick \/ (\E i \in Invites : Lapse(i)) \/ \E w \in Workers : AdminStep(w) \/ CacheStep(w)

MembersSpec == MembersInit /\ [][MembersNext]_membersVars
-----------------------------------------------------------------------------
\* A deleted role leaves nobody behind: what was put on it before it was
\* deleted, committed or not, has stopped the delete.  (What comes after it
\* is late: neither assignRole nor create takes the lock.)
NoOrphans ==
    \A r \in Roles : ~role[r].live =>
        /\ \A u \in Holders(r) : <<u, r>> \in late
        /\ \A u \in Users : Pending(r, u, "pending") \subseteq late

\* A cached snapshot of the live version tells the truth, whatever fills and
\* invalidations overtake one another or are lost, except for users whose
\* version was not bumped when their grants changed: the revoked one himself,
\* and who joins a role while its matrix is being replaced.
SnapshotIsCurrent ==
    \A u \in Users \ unseen : snap[u].ver = version[u] => snap[u].got = Listed(u)

\* The types, no orphans, and no stale snapshot: what every request has to keep.
MembersInv == MembersTypeOK /\ NoOrphans /\ SnapshotIsCurrent

\* Not longer than n ticks ago the user held a role, and not longer than n ticks
\* ago the role gave the grant.
Lately(u, g, n) == \E r \in Roles : left[<<u, r>>] <= n /\ taken[<<r, g>>] <= n

\* What was taken away fades: a user who has lost a role uses none of its grants,
\* and nobody a grant the role has lost, longer than the window of the operation,
\* and a tick for the request that was reading when it went.  (A request that
\* reads the roles before a revocation and the grants after a later change of the
\* matrix joins the two: its user has never had what it answers.)
GrantsCatchUp ==
    \A w \in Workers : req[w].at = "answered" =>
        \A g \in req[w].want : Lately(req[w].user, g, Ttl(req[w].op) + 1)

\* An invitation is decided once: accepting and declining exclude each other,
\* from two devices at once, after it was swept or on a retry; and accepting it
\* makes him a member with the role, "atomically" (invitation.service.ts) -
\* unless the role was once taken from him: his revoked row is in the way.
DecidedOnce ==
    [][\A i \in Invites :
          /\ invite[i].status \in {"accepted", "revoked", "expired"} => invite'[i] = invite[i]
          /\ invite'[i].status = "accepted" /\ invite[i].status # "accepted" =>
                /\ invite'[i].user \in members'
                /\ mapping'[<<invite'[i].user, invite'[i].role>>] = "active"
                   \/ mapping[<<invite'[i].user, invite'[i].role>>] = "revoked"]_membersVars
=============================================================================
