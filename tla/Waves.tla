------------------------------- MODULE Waves -------------------------------
(***************************************************************************)
(* How POST /sync/delta orders one batch (apps/backend/src/sync/push/      *)
(* delta.service.ts): parent_guuid cycles are taken out, the rest is sorted *)
(* parents first, and the sorted list is cut into waves.  Mutations of one *)
(* wave run concurrently, waves run one after the other.                   *)
(*                                                                         *)
(* A batch is a sequence of records [id, guuid, parent].  `id' is the       *)
(* mutation_id, `guuid' the entity the payload names (NoGuuid when the     *)
(* payload has none), `parent' the parent_guuid (NoGuuid when absent).     *)
(***************************************************************************)
EXTENDS Naturals, FiniteSets, Sequences, SequencesExt, FiniteSetsExt

CONSTANTS NoGuuid, NoMutation

\* byGuuid.get(g): the first mutation of the batch that names entity g.
ByGuuid(b, g) ==
    LET i == SelectInSeq(b, LAMBDA m: m.guuid = g)
    IN  IF g = NoGuuid \/ i = 0 THEN NoMutation ELSE b[i]

ParentIn(b, m) == ByGuuid(b, m.parent)

\* The walk up the parent chain that both findParentCycleMutationIds and
\* topoSort make: it ends at a root, at a mutation in `seen', or when it meets
\* its own path again.
Walk(b, start, seen) ==
    LET walk[n \in 0 .. Len(b)] ==
          IF n = 0 THEN [path |-> <<>>, cur |-> start]
          ELSE LET w == walk[n - 1]
               IN  IF w.cur \in {NoMutation} \cup seen \cup ToSet(w.path)
                   THEN w
                   ELSE [path |-> Append(w.path, w.cur), cur |-> ParentIn(b, w.cur)]
    IN  walk[Len(b)]

\* Mutant: the tail that leads into a loop counts as part of it.
LoopOfWholePath(w) == IF w.cur \in ToSet(w.path) THEN ToSet(w.path) ELSE {}

\* The part of a walk from the revisited node to the tail of the path.
LoopOf(w) ==
    LET Pos(m) == SelectInSeq(w.path, LAMBDA x: x = m)
    IN  IF w.cur \in ToSet(w.path)
        THEN {m \in ToSet(w.path) : Pos(m) >= Pos(w.cur)}
        ELSE {}

FindParentCycleMutationIds(b) ==
    LET Visit(acc, m) ==
          LET w == Walk(b, m, acc.settled)
          IN  IF m \in acc.settled THEN acc
              ELSE [settled |-> acc.settled \cup ToSet(w.path),
                    inCycle |-> acc.inCycle \cup LoopOf(w)]
    IN  FoldLeft(Visit, [settled |-> {}, inCycle |-> {}], b).inCycle

WithoutCyclic(b, cyclic) ==
    FoldLeft(LAMBDA out, m : IF m \in cyclic THEN out ELSE Append(out, m), <<>>, b)

\* A depth-first visit emits the not yet emitted ancestors, oldest first.
TopoSort(b) ==
    LET Visit(out, m) == out \o Reverse(Walk(b, m, ToSet(out)).path)
    IN  FoldLeft(Visit, <<>>, b)

\* Mutants: waves that ignore parents, that ignore the entity.
WavesWithoutParents(s) ==
    LET wave[i \in 1 .. Len(s)] ==
          LET same == {j \in 1 .. i - 1 : s[j].guuid = s[i].guuid /\ s[i].guuid # NoGuuid}
          IN  IF same = {} THEN 0 ELSE wave[Max(same)] + 1
    IN  wave

WavesWithoutEntities(s) ==
    LET wave[i \in 1 .. Len(s)] ==
          LET above == {j \in 1 .. i - 1 : s[j] = ParentIn(s, s[i])}
          IN  IF above = {} THEN 0 ELSE wave[Max(above)] + 1
    IN  wave

\* Wave of every position of a sorted, duplicate-free list.
ComputeWaves(s) ==
    LET ParentPos(i) == {j \in 1 .. Len(s) : s[j] = ParentIn(s, s[i]) /\ j # i}
        SameEntity(i) == {j \in 1 .. i - 1 : s[j].guuid = s[i].guuid /\ s[i].guuid # NoGuuid}
        wave[i \in 1 .. Len(s)] ==
          LET Of(j) == IF j < i THEN wave[j] ELSE 0
              last  == IF SameEntity(i) = {} THEN {} ELSE {Max(SameEntity(i))}
          IN  Max({0} \cup {Of(j) + 1 : j \in ParentPos(i) \cup last})
    IN  wave

\* A mutation placed after a parent that has no wave yet leaves a hole in the
\* array of waves, and iterating over it throws before anything is executed.
Sparse(wave) ==
    \E i \in DOMAIN wave : wave[i] > 0 /\ \A j \in DOMAIN wave : wave[j] # wave[i] - 1

\* What runMutationWaves derives from a batch: the mutations rejected as a
\* cycle, the execution order of the others, the wave each one is in, and
\* whether the call dies on a hole among the waves.
Dispatch(b) ==
    LET cyclic == FindParentCycleMutationIds(b)
        sorted == TopoSort(WithoutCyclic(b, cyclic))
        wave   == ComputeWaves(sorted)
    IN  [cyclic |-> cyclic,
         order  |-> sorted,
         throws |-> Sparse(wave),
         wave   |-> [m \in ToSet(sorted) |-> wave[SelectInSeq(sorted, LAMBDA x: x = m)]]]
=============================================================================
