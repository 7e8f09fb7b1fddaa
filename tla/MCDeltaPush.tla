---------------------------- MODULE MCDeltaPush ----------------------------
(***************************************************************************)
(* Small instances of DeltaPush.  Entity P does not exist yet and is       *)
(* created by newP; newK creates K as a child of P and its handler looks   *)
(* at other rows; Q exists in version 1, is edited twice from that version *)
(* and deleted once, and newQ tries to create it.                          *)
(***************************************************************************)
EXTENDS DeltaPush

CONSTANTS newP, newK, newQ, editA, editB, delQ, P, K, Q

MCGuuidOf == (newP :> P) @@ (newK :> K) @@ (newQ :> Q) @@ (editA :> Q) @@ (editB :> Q) @@ (delQ :> Q)
MCParentOf == (newK :> P) @@ [m \in {newP, newQ, editA, editB, delQ} |-> NoGuuid]
MCActionOf == (delQ :> "delete") @@ [m \in {newP, newK, newQ} |-> "create"]
                @@ [m \in {editA, editB} |-> "update"]
MCExpectedOf == [m \in {newP, newK, newQ, delQ} |-> 0] @@ [m \in {editA, editB} |-> 1]
MCQueuedAt == [m \in {newP, newK, newQ, editA, editB, delQ} |-> 0]
MCInitialRows == [g \in {P, K} |-> [version |-> 0, alive |-> FALSE]]
                    @@ (Q :> [version |-> 1, alive |-> TRUE])

On(f) == [m \in Mutations |-> f[m]]
MCGuuid == On(MCGuuidOf)
MCParent == On(MCParentOf)
MCAction == On(MCActionOf)
MCExpected == On(MCExpectedOf)
MCQueued == On(MCQueuedAt)

FamilyBatches == {<<newK, newP>>}
EditBatches == {<<editA>>, <<newQ>>, <<editB, delQ>>}

\* Bound: the create of a row that exists meets one of the edits, the second
\* edit and the delete meet the first without it.
Untouched(m) == idem[m] = NoRow /\ failures[m] = 0 /\ \A r \in Requests : exec[r][m] = Absent
EditFocus == Untouched(newQ) \/ (Untouched(editB) /\ Untouched(delQ))

RequestSymmetry == Permutations(Requests)
=============================================================================
