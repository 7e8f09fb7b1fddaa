---------------------------- MODULE MCMembership ----------------------------
(***************************************************************************)
(* One user, one role with one grant, two invitations, two requests at     *)
(* once.                                                                   *)
(***************************************************************************)
EXTENDS Membership, TLC

Renaming == Permutations(Workers) \cup Permutations(Invites)

\* Bound: permissions are read, cached and forgotten in time while nobody is
\* invited; invitations meet assignments, roles and snapshots, none of which
\* looks at the age of anything.
NobodyInvited ==
    /\ \A i \in Invites : invite[i].status = "none"
    /\ \A w \in Workers : req[w].op # "invite"
NothingAges ==
    /\ \A u \in Users : perm[u] = Miss
    /\ \A w \in Workers : req[w].op \notin {"standard", "critical"}
    /\ \A p \in Users \X Roles : left[p] \in {0, StandardTtl + 2}
    /\ \A p \in Roles \X Grants : taken[p] \in {0, StandardTtl + 2}
Focus == NobodyInvited \/ NothingAges
=============================================================================
