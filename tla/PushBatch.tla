----------------------------- MODULE PushBatch -----------------------------
(***************************************************************************)
(* Every batch of up to MaxBatch mutations over the entities, built one    *)
(* mutation at a time as the client's queue builds it: any guuid, any      *)
(* parent_guuid, and repeated mutation_ids; and what the order that Waves  *)
(* gives a batch promises.                                                 *)
(***************************************************************************)
EXTENDS Waves

CONSTANTS Entities, MaxBatch

VARIABLE batch

batchVars == <<batch>>

\* A mutation of a batch; NoMutation is none.
Mutation == [id : Nat, guuid : Entities \cup {NoGuuid}, parent : Entities \cup {NoGuuid}]

ASSUME BatchAssumption == NoMutation \notin Mutation

BatchInit == batch = <<>>

AddMutation ==
    \E g \in Entities \cup {NoGuuid}, p \in Entities \cup {NoGuuid} :
        batch' = Append(batch, [id |-> Len(batch) + 1, guuid |-> g, parent |-> p])

RepeatMutation == \E m \in ToSet(batch) : batch' = Append(batch, m)

BatchNext == Len(batch) < MaxBatch /\ (AddMutation \/ RepeatMutation)

BatchSpec == BatchInit /\ [][BatchNext]_batchVars
-----------------------------------------------------------------------------
\* Reference definition: m lies on a cycle of b iff following parents from m
\* comes back to m.
OnParentCycle(b, m) ==
    LET up[n \in 0 .. Len(b)] ==
          IF n = 0 THEN m
          ELSE IF up[n - 1] = NoMutation THEN NoMutation ELSE ParentIn(b, up[n - 1])
    IN  \E n \in 1 .. Len(b) : up[n] = m

plan == Dispatch(batch)

ClientOrder(m, n) ==
    SelectInSeq(batch, LAMBDA x: x = m) < SelectInSeq(batch, LAMBDA x: x = n)

\* findParentCycleMutationIds rejects exactly the mutations on a cycle, never
\* an acyclic child that hangs off one (the C3 rule of the doc comment); every
\* other mutation_id is executed, and once, whatever is repeated.
CyclesExactly ==
    /\ plan.cyclic = {m \in ToSet(batch) : OnParentCycle(batch, m)}
    /\ ToSet(plan.order) = ToSet(batch) \ plan.cyclic
    /\ IsInjective(plan.order)

\* A batch in which taking the cyclic mutations out uncovers no other mutation
\* of the same entity: byGuuid then means the same before and after.
SameLookup ==
    {c.guuid : c \in plan.cyclic} \cap {m.guuid : m \in ToSet(plan.order)} = {}

ParentEarlier(m) ==
    LET p == ParentIn(plan.order, m)
    IN  p \notin {NoMutation, m} => plan.wave[p] < plan.wave[m]

\* S-3a: a child runs in a later wave than its parent, so the parent's result
\* is known when the cascade check of the child reads failedGuuids; and the
\* waves have no hole for the call to die on.
ParentsInEarlierWave ==
    SameLookup => /\ ~plan.throws
                  /\ \A m \in ToSet(plan.order) : ParentEarlier(m)

\* Edits of one entity never share a wave and keep the client's order.
EntityEditsInOrder ==
    \A m, n \in ToSet(plan.order) :
        (m # n /\ m.guuid = n.guuid /\ m.guuid # NoGuuid /\ ClientOrder(m, n))
            => plan.wave[m] < plan.wave[n]
=============================================================================
