---------------------------- MODULE Push_proofs ----------------------------
(***************************************************************************)
(* Proofs about the push half of the sync server:                          *)
(*                                                                         *)
(*   PushBatch  whatever batch a client sends, exactly the mutations on a  *)
(*              parent cycle are taken out, the others run once, parents   *)
(*              and earlier edits of the same entity in an earlier wave;   *)
(*   DeltaPush  for every set of mutations and calls, every batch and      *)
(*              every value of the limits: verdicts and writes agree, and  *)
(*              what was applied stays applied.                            *)
(***************************************************************************)
EXTENDS DeltaPush, PushBatch, FiniteSetTheorems, SequenceTheorems, WellFoundedInduction, TLAPS

\* A set of subsets of a finite set has a smallest one.
LEMMA SmallestSubset ==
  ASSUME NEW S, IsFiniteSet(S), NEW T, T \subseteq SUBSET S, T # {}
  PROVE  \E s \in T : \A u \in T : u \subseteq s => u = s
<1>1. SUBSET S = FiniteSubsetsOf(S)
  BY FS_FiniteSubsetsOfFinite
<1>2. IsWellFoundedOn(StrictSubsetOrdering(S), SUBSET S)
  BY <1>1, FS_StrictSubsetOrderingWellFounded
<1>3. PICK s \in T : \A u \in T : ~(<<u, s>> \in StrictSubsetOrdering(S))
  BY <1>2, WFMin
<1> QED BY <1>3 DEF StrictSubsetOrdering

\* A set of numbers has a smallest one.
LEMMA MinOf ==
  ASSUME NEW S, S \subseteq Nat, S # {}
  PROVE  Min(S) \in S /\ \A y \in S : Min(S) <= y
<1>1. PICK k \in S : k \in Nat
  OBVIOUS
<1> DEFINE D == {j \in S : j <= k}
           T == {0 .. j : j \in D}
<1>2. /\ \A j \in D : j \in Nat /\ 0 .. j \subseteq 0 .. k
      /\ k \in D /\ IsFiniteSet(0 .. k)
  BY <1>1, FS_Interval
<1>a. T \subseteq SUBSET (0 .. k) /\ 0 .. k \in T
  <2> HIDE DEF D
  <2> QED BY <1>2
<1>3. PICK s \in T : \A u \in T : u \subseteq s => u = s
  <2> HIDE DEF D, T
  <2>1. PICK K : K = 0 .. k
    OBVIOUS
  <2>2. T # {} /\ T \subseteq SUBSET K /\ IsFiniteSet(K)
    BY <1>2, <1>a, <2>1
  <2> QED BY <2>2, SmallestSubset
<1>4. PICK x \in D : s = 0 .. x
  <2> HIDE DEF D
  <2> QED BY <1>3
<1>5. ASSUME NEW y \in S, y < x PROVE FALSE
  <2>1. y \in D /\ y \in Nat /\ x \in Nat
    BY <1>1, <1>4, <1>5
  <2>2. 0 .. y \in T
    <3> HIDE DEF D
    <3> QED BY <2>1
  <2>3. 0 .. y \subseteq 0 .. x
    BY <1>5, <2>1
  <2>4. 0 .. y = 0 .. x
    <3> HIDE DEF T
    <3> QED BY <1>3, <1>4, <2>2, <2>3
  <2>5. x \in 0 .. x /\ x \notin 0 .. y
    BY <1>5, <2>1
  <2> QED BY <2>4, <2>5
<1>6. \A y \in S : x =< y
  BY <1>4, <1>5
<1> QED BY <1>4, <1>6 DEF Min

\* Induction on the naturals, over a set instead of a predicate.
LEMMA NatInd ==
  ASSUME NEW T, 0 \in T, \A n \in T : n \in Nat => n + 1 \in T
  PROVE  Nat \subseteq T
<1> DEFINE U == Nat \ T
<1>1. ASSUME U # {} PROVE FALSE
  <2>1. PICK x \in U : \A y \in U : x <= y
    <3>1. U \subseteq Nat
      OBVIOUS
    <3> HIDE DEF U
    <3> QED BY <1>1, <3>1, MinOf
  <2>2. x # 0 /\ x \in Nat /\ x \notin T
    OBVIOUS
  <2>3. x - 1 \in Nat /\ ~(x <= x - 1) /\ (x - 1) + 1 = x
    BY <2>2
  <2>4. x - 1 \in T
    BY <2>1, <2>3
  <2>5. (x - 1) + 1 \in T
    <3> HIDE DEF U
    <3> QED BY <2>3, <2>4
  <2> QED BY <2>2, <2>3, <2>5
<1> QED BY <1>1

\* A bounded set of numbers has a largest one.
LEMMA MaxOf ==
  ASSUME NEW n \in Nat, NEW S, S \subseteq 0 .. n, S # {}
  PROVE  Max(S) \in S /\ \A y \in S : y <= Max(S)
<1> DEFINE T == {k \in Nat : \A R \in SUBSET (0 .. k) : R # {} => \E x \in R : \A y \in R : x >= y}
<1>1. 0 \in T
  <2>1. 0 .. 0 = {0}
    OBVIOUS
  <2>2. ASSUME NEW R \in SUBSET (0 .. 0), R # {}
        PROVE  \E x \in R : \A y \in R : x >= y
    <3>1. 0 \in R /\ \A y \in R : y = 0
      BY <2>1, <2>2
    <3> QED BY <3>1
  <2> QED BY <2>2
<1>2. ASSUME NEW k \in T PROVE k + 1 \in T
  <2>1. k \in Nat
    OBVIOUS
  <2>2. ASSUME NEW R \in SUBSET (0 .. k + 1), R # {}
        PROVE  \E x \in R : \A y \in R : x >= y
    <3>1. CASE k + 1 \in R
      <4>1. \A y \in R : k + 1 >= y
        BY <2>1, <2>2
      <4> QED BY <3>1, <4>1
    <3>2. CASE k + 1 \notin R
      <4>1. R \in SUBSET (0 .. k)
        BY <2>1, <2>2, <3>2
      <4> QED BY <2>2, <4>1
    <3> QED BY <3>1, <3>2
  <2> QED BY <2>1, <2>2
<1>3. n \in T
  <2> HIDE DEF T
  <2> QED BY <1>1, <1>2, NatInd
<1>4. \E x \in S : \A y \in S : x >= y
  BY <1>3
<1>5. Max(S) \in S /\ \A y \in S : Max(S) >= y
  BY <1>4 DEF Max
<1> QED BY <1>5

\* Where a mutation is in a list.
Place(s, x) == SelectInSeq(s, LAMBDA y : y = x)

\* It is the first of the positions that hold it.
LEMMA PlaceOf ==
  ASSUME NEW S, NEW s \in Seq(S), NEW x \in ToSet(s)
  PROVE  /\ Place(s, x) \in 1 .. Len(s) /\ s[Place(s, x)] = x
         /\ \A j \in 1 .. Len(s) : s[j] = x => Place(s, x) <= j
<1> DEFINE I == {i \in 1 .. Len(s) : s[i] = x}
<1>1. I # {} /\ I \subseteq Nat
  BY DEF ToSet
<1>2. Place(s, x) = Min(I)
  BY <1>1 DEF Place, SelectInSeq
<1>3. Min(I) \in I /\ \A y \in I : Min(I) <= y
  <2> HIDE DEF I
  <2> QED BY <1>1, MinOf
<1> QED BY <1>2, <1>3

\* byGuuid: nothing, or the first mutation that names the entity.
LEMMA ByGuuidFinds ==
  ASSUME NEW S, NEW s \in Seq(S), NEW g
  PROVE  \/ /\ ByGuuid(s, g) = NoMutation
            /\ g = NoGuuid \/ \A i \in 1 .. Len(s) : s[i].guuid # g
         \/ /\ g # NoGuuid
            /\ \E i \in 1 .. Len(s) : /\ ByGuuid(s, g) = s[i] /\ s[i].guuid = g
                                      /\ \A j \in 1 .. Len(s) : s[j].guuid = g => i <= j
<1> DEFINE I == {i \in 1 .. Len(s) : s[i].guuid = g}
<1>1. CASE I = {} \/ g = NoGuuid
  BY <1>1 DEF ByGuuid, SelectInSeq
<1>2. CASE I # {} /\ g # NoGuuid
  <2>1. I \subseteq Nat
    OBVIOUS
  <2>2. Min(I) \in I /\ \A y \in I : Min(I) <= y
    <3> HIDE DEF I
    <3> QED BY <1>2, <2>1, MinOf
  <2>3. ByGuuid(s, g) = s[Min(I)]
    <3>1. Min(I) # 0
      BY <2>2
    <3> QED BY <1>2, <3>1 DEF ByGuuid, SelectInSeq
  <2> QED BY <1>2, <2>2, <2>3
<1> QED BY <1>1, <1>2

\* The parent of a mutation is a mutation of the batch or nothing.
LEMMA ParentType ==
  ASSUME NEW S, NEW s \in Seq(S), NEW m
  PROVE  ParentIn(s, m) \in ToSet(s) \cup {NoMutation}
BY ByGuuidFinds DEF ParentIn, ToSet

\* A list without repetition is no longer than the list its elements come
\* from, and holds all of them when it is as long.
LEMMA NoLonger ==
  ASSUME NEW S, NEW s \in Seq(S), NEW p \in Seq(ToSet(s)), IsInjective(p)
  PROVE  Len(p) <= Len(s) /\ (Len(p) = Len(s) => ToSet(p) = ToSet(s))
<1>1. IsFiniteSet(1 .. Len(s)) /\ Cardinality(1 .. Len(s)) = Len(s)
  BY FS_Interval
<1>2. IsFiniteSet(1 .. Len(p)) /\ Cardinality(1 .. Len(p)) = Len(p)
  <2>1. PICK k \in Nat : k = Len(p)
    OBVIOUS
  <2>2. IsFiniteSet(1 .. k) /\ Cardinality(1 .. k) = k
    BY FS_Interval
  <2> QED BY <2>1, <2>2
<1>3. s \in Surjection(1 .. Len(s), ToSet(s))
  <2>1. DOMAIN s = 1 .. Len(s) /\ s = [i \in 1 .. Len(s) |-> s[i]]
    OBVIOUS
  <2>2. \A m \in ToSet(s) : \E i \in 1 .. Len(s) : s[i] = m
    BY <2>1 DEF ToSet
  <2>3. \A i \in 1 .. Len(s) : s[i] \in ToSet(s)
    BY <2>1 DEF ToSet
  <2>4. s \in [1 .. Len(s) -> ToSet(s)]
    BY <2>1, <2>3, Zenon
  <2> QED BY <2>2, <2>4, Zenon DEF Surjection
<1>4. IsFiniteSet(ToSet(s)) /\ Cardinality(ToSet(s)) <= Len(s)
  BY <1>1, <1>3, FS_Surjection
<1>5. p \in Bijection(1 .. Len(p), ToSet(p))
  BY DEF Bijection, Injection, Surjection, ToSet, IsInjective
<1>6. ToSet(p) \subseteq ToSet(s)
  BY DEF ToSet
<1>7. IsFiniteSet(ToSet(p)) /\ Cardinality(ToSet(p)) = Len(p)
  <2>1. ExistsBijection(1 .. Len(p), ToSet(p))
    BY <1>5 DEF ExistsBijection
  <2> QED BY <1>2, <2>1, FS_Bijection
<1>8. /\ Cardinality(ToSet(p)) <= Cardinality(ToSet(s))
      /\ Cardinality(ToSet(p)) = Cardinality(ToSet(s)) => ToSet(p) = ToSet(s)
  BY <1>4, <1>6, FS_Subset
<1>9. Cardinality(ToSet(s)) \in Nat
  BY <1>4, FS_CardinalityType
<1> QED BY <1>4, <1>7, <1>8, <1>9
-----------------------------------------------------------------------------
\* g holds the values of a function applied again and again.
IsIteration(X, x0, F, n, g) ==
    g \in [0 .. n -> X] /\ g[0] = x0 /\ \A k \in 1 .. n : g[k] = F[g[k - 1]]

\* There is such a g.
LEMMA Iterates ==
  ASSUME NEW X, NEW x0 \in X, NEW F \in [X -> X], NEW n \in Nat
  PROVE  \E g : IsIteration(X, x0, F, n, g)
<1> DEFINE T == {j \in Nat : \E g \in [0 .. j -> X] :
                               g[0] = x0 /\ \A k \in 1 .. j : g[k] = F[g[k - 1]]}
<1>1. 0 \in T
  <2> DEFINE g == [k \in 0 .. 0 |-> x0]
  <2>1. g \in [0 .. 0 -> X] /\ g[0] = x0 /\ \A k \in 1 .. 0 : g[k] = F[g[k - 1]]
    OBVIOUS
  <2> QED BY <2>1
<1>2. ASSUME NEW j \in T PROVE j + 1 \in T
  <2>1. PICK g \in [0 .. j -> X] : g[0] = x0 /\ \A k \in 1 .. j : g[k] = F[g[k - 1]]
    OBVIOUS
  <2>2. j \in Nat
    OBVIOUS
  <2> DEFINE h == [k \in 0 .. j + 1 |-> IF k = j + 1 THEN F[g[j]] ELSE g[k]]
  <2>3. h \in [0 .. j + 1 -> X] /\ h[0] = x0
    BY <2>1, <2>2
  <2>4. ASSUME NEW k \in 1 .. j + 1 PROVE h[k] = F[h[k - 1]]
    <3>1. CASE k = j + 1
      BY <2>2, <3>1
    <3>2. CASE k # j + 1
      <4>1. k \in 1 .. j /\ k - 1 \in 0 .. j /\ k - 1 # j + 1 /\ k - 1 \in 0 .. j + 1
        BY <2>2, <3>2
      <4>2. h[k] = g[k] /\ h[k - 1] = g[k - 1]
        BY <2>2, <3>2, <4>1
      <4> HIDE DEF h
      <4> QED BY <2>1, <4>1, <4>2
    <3> QED BY <3>1, <3>2
  <2> HIDE DEF h
  <2> QED BY <2>2, <2>3, <2>4
<1>3. n \in T
  <2> HIDE DEF T
  <2> QED BY <1>1, <1>2, NatInd
<1> QED BY <1>3 DEF IsIteration

\* One step of the walk up the parent chain, and the walk as its iteration.
WalkStep(b, seen, w) ==
    IF w.cur \in {NoMutation} \cup seen \cup ToSet(w.path) THEN w
    ELSE [path |-> Append(w.path, w.cur), cur |-> ParentIn(b, w.cur)]

IsWalk(b, start, seen, g) ==
    g = [n \in 0 .. Len(b) |-> IF n = 0 THEN [path |-> <<>>, cur |-> start]
                               ELSE WalkStep(b, seen, g[n - 1])]

\* Walk is the value at the length of the batch of a function that satisfies
\* IsWalk.
LEMMA WalkDef ==
  ASSUME NEW b, NEW start, NEW seen
  PROVE  Walk(b, start, seen) = (CHOOSE g : IsWalk(b, start, seen, g))[Len(b)]
BY DEF Walk, WalkStep, IsWalk

\* What holds of a walk after n steps: the path is a parent chain without
\* repetition through mutations not seen before, and either the walk has
\* stopped or every step took one mutation.
WalkInv(b, start, seen, n, w) ==
    /\ w.path \in Seq(ToSet(b)) /\ w.cur \in ToSet(b) \cup {NoMutation}
    /\ IsInjective(w.path) /\ ToSet(w.path) \cap seen = {}
    /\ Len(w.path) <= n
    /\ Len(w.path) = n \/ w.cur \in {NoMutation} \cup seen \cup ToSet(w.path)
    /\ IF w.path = <<>> THEN w.cur = start
       ELSE w.path[1] = start /\ w.cur = ParentIn(b, w.path[Len(w.path)])
    /\ \A i \in 1 .. Len(w.path) - 1 : w.path[i + 1] = ParentIn(b, w.path[i])

\* One step keeps it.
LEMMA WalkStepInv ==
  ASSUME NEW S, NEW b \in Seq(S), NoMutation \notin S, NEW start, NEW seen, NEW n \in Nat, NEW w,
         WalkInv(b, start, seen, n, w)
  PROVE  WalkInv(b, start, seen, n + 1, WalkStep(b, seen, w))
<1>1. CASE w.cur \in {NoMutation} \cup seen \cup ToSet(w.path)
  <2>1. WalkStep(b, seen, w) = w
    BY <1>1 DEF WalkStep
  <2>2. Len(w.path) <= n + 1
    BY DEF WalkInv
  <2> QED BY <1>1, <2>1, <2>2 DEF WalkInv
<1>2. CASE w.cur \notin {NoMutation} \cup seen \cup ToSet(w.path)
  <2> DEFINE p == w.path
             q == Append(w.path, w.cur)
             v == [path |-> q, cur |-> ParentIn(b, w.cur)]
  <2>1. WalkStep(b, seen, w) = v
    BY <1>2 DEF WalkStep
  <2>2. p \in Seq(ToSet(b)) /\ w.cur \in ToSet(b) /\ Len(p) = n
    BY <1>2 DEF WalkInv
  <2>3. /\ q \in Seq(ToSet(b)) /\ Len(q) = Len(p) + 1 /\ q[Len(p) + 1] = w.cur
        /\ \A i \in 1 .. Len(p) : q[i] = p[i]
    BY <2>2, AppendProperties
  <2>4. ToSet(q) = ToSet(p) \cup {w.cur}
    <3> HIDE DEF p, q
    <3> QED BY <2>2, <2>3 DEF ToSet
  <2>5. IsInjective(q)
    <3>1. \A i, j \in 1 .. Len(p) : p[i] = p[j] => i = j
      BY <2>2 DEF WalkInv, IsInjective
    <3>2. \A i \in 1 .. Len(p) : p[i] # w.cur
      BY <1>2, <2>2 DEF ToSet
    <3>3. DOMAIN q = 1 .. Len(p) + 1
      BY <2>3
    <3> HIDE DEF p, q
    <3>4. \A i \in 1 .. Len(p) + 1 : i \in 1 .. Len(p) \/ i = Len(p) + 1
      BY <2>2
    <3> QED BY <2>2, <2>3, <3>1, <3>2, <3>3, <3>4 DEF IsInjective
  <2>6. ParentIn(b, w.cur) \in ToSet(b) \cup {NoMutation}
    BY ParentType
  <2>7. ToSet(q) \cap seen = {}
    BY <1>2, <2>4 DEF WalkInv
  <2>8. q # <<>> /\ q[1] = start
    <3>1. CASE p = <<>>
      <4>1. Len(p) = 0 /\ w.cur = start
        BY <3>1 DEF WalkInv
      <4> HIDE DEF p, q, v
      <4>2. Len(p) + 1 = 1
        BY <4>1
      <4>3. Len(q) = 1 /\ q[1] = start
        BY <2>3, <4>1, <4>2, Zenon
      <4>4. Len(<<>>) # 1
        OBVIOUS
      <4> QED BY <4>3, <4>4, Zenon
    <3>2. CASE p # <<>>
      <4>1. p[1] = start
        BY <3>2 DEF WalkInv
      <4> HIDE DEF p
      <4>2. 1 \in 1 .. Len(p)
        BY <2>2, <3>2
      <4> HIDE DEF q
      <4> QED BY <2>2, <2>3, <4>1, <4>2
    <3> QED BY <3>1, <3>2
  <2>9. \A i \in 1 .. Len(q) - 1 : q[i + 1] = ParentIn(b, q[i])
    <3>1. ASSUME NEW i \in 1 .. Len(q) - 1 PROVE q[i + 1] = ParentIn(b, q[i])
      <4>1. /\ \A j \in 1 .. Len(p) - 1 : p[j + 1] = ParentIn(b, p[j])
            /\ p # <<>> => w.cur = ParentIn(b, p[Len(p)])
        BY DEF WalkInv
      <4> HIDE DEF p, q
      <4>2. i \in 1 .. Len(p) /\ p # <<>>
        BY <2>2, <2>3
      <4>3. CASE i = Len(p)
        BY <2>3, <4>1, <4>2, <4>3
      <4>4. CASE i # Len(p)
        <5>1. i \in 1 .. Len(p) - 1 /\ i + 1 \in 1 .. Len(p)
          BY <2>2, <4>2, <4>4
        <5> QED BY <2>3, <4>1, <4>2, <5>1
      <4> QED BY <4>3, <4>4
    <3> QED BY <3>1
  <2> HIDE DEF q
  <2> QED BY <2>1, <2>2, <2>3, <2>5, <2>6, <2>7, <2>8, <2>9 DEF WalkInv
<1> QED BY <1>1, <1>2

\* The walk from a mutation of the batch: it has stopped.
LEMMA WalkEnds ==
  ASSUME NEW S, NEW b \in Seq(S), NoMutation \notin S, NEW start \in ToSet(b), NEW seen
  PROVE  LET w == Walk(b, start, seen)
         IN  /\ WalkInv(b, start, seen, Len(b), w)
             /\ w.cur \in {NoMutation} \cup seen \cup ToSet(w.path)
<1> DEFINE X == [path : Seq(ToSet(b)), cur : ToSet(b) \cup {NoMutation}]
           F == [w \in X |-> WalkStep(b, seen, w)]
           x0 == [path |-> <<>>, cur |-> start]
<1>1. F \in [X -> X]
  <2>1. ASSUME NEW w \in X PROVE WalkStep(b, seen, w) \in X
    <3>1. w.path \in Seq(ToSet(b)) /\ w.cur \in ToSet(b) \cup {NoMutation}
      OBVIOUS
    <3>2. ParentIn(b, w.cur) \in ToSet(b) \cup {NoMutation}
      BY ParentType
    <3> QED BY <3>1, <3>2 DEF WalkStep
  <2> QED BY <2>1
<1>2. x0 \in X /\ Len(b) \in Nat
  OBVIOUS
<1>3. \E g : IsWalk(b, start, seen, g)
  <2>1. PICK g \in [0 .. Len(b) -> X] : g[0] = x0 /\ \A k \in 1 .. Len(b) : g[k] = F[g[k - 1]]
    <3> HIDE DEF X, F, x0
    <3>1. PICK n \in Nat : n = Len(b)
      BY <1>2
    <3>2. \E g : IsIteration(X, x0, F, n, g)
      BY <1>1, <1>2, Iterates
    <3> QED BY <3>1, <3>2 DEF IsIteration
  <2>2. \A k \in 1 .. Len(b) : g[k] = WalkStep(b, seen, g[k - 1])
    <3> HIDE DEF X
    <3>1. \A k \in 1 .. Len(b) : k - 1 \in 0 .. Len(b)
      BY <1>2
    <3> QED BY <2>1, <3>1
  <2>3. g = [k \in 0 .. Len(b) |-> g[k]]
    BY <2>1
  <2>4. \A k \in 0 .. Len(b) : g[k] = IF k = 0 THEN x0 ELSE WalkStep(b, seen, g[k - 1])
    <3> HIDE DEF x0
    <3>1. \A k \in 0 .. Len(b) : k = 0 \/ k \in 1 .. Len(b)
      BY <1>2
    <3> QED BY <2>1, <2>2, <3>1
  <2>5. g = [k \in 0 .. Len(b) |-> IF k = 0 THEN x0 ELSE WalkStep(b, seen, g[k - 1])]
    <3> HIDE DEF x0
    <3> QED BY <2>3, <2>4
  <2> QED BY <2>5 DEF IsWalk
<1> DEFINE g == CHOOSE g : IsWalk(b, start, seen, g)
           T == {n \in Nat : n <= Len(b) => WalkInv(b, start, seen, n, g[n])}
<1>4. IsWalk(b, start, seen, g)
  BY <1>3
<1> HIDE DEF g
<1>5. /\ g[0] = x0
      /\ \A n \in Nat : n + 1 <= Len(b) => g[n + 1] = WalkStep(b, seen, g[n])
  <2>1. 0 \in 0 .. Len(b) /\ \A n \in Nat : n + 1 <= Len(b) => n + 1 \in 0 .. Len(b) /\ n + 1 # 0 /\ (n + 1) - 1 = n
    BY <1>2
  <2> QED BY <1>4, <2>1 DEF IsWalk
<1>6. 0 \in T
  <2>1. ToSet(<<>>) = {} /\ IsInjective(<<>>) /\ Len(<<>>) = 0 /\ <<>> \in Seq(ToSet(b))
    BY DEF ToSet, IsInjective
  <2>2. g[0].path = <<>> /\ g[0].cur = start
    BY <1>5
  <2>3. WalkInv(b, start, seen, 0, g[0])
    BY <2>1, <2>2 DEF WalkInv
  <2> QED BY <2>3
<1>7. ASSUME NEW n \in T, n \in Nat PROVE n + 1 \in T
  <2>1. ASSUME n + 1 <= Len(b) PROVE WalkInv(b, start, seen, n + 1, g[n + 1])
    <3>1. n <= Len(b)
      BY <1>2, <1>7, <2>1
    <3> QED BY <1>5, <1>7, <2>1, <3>1, WalkStepInv
  <2> QED BY <1>7, <2>1
<1>8. WalkInv(b, start, seen, Len(b), g[Len(b)])
  <2>1. Len(b) \in T
    <3> HIDE DEF T
    <3> QED BY <1>2, <1>6, <1>7, NatInd
  <2> QED BY <1>2, <2>1
<1>9. Walk(b, start, seen) = g[Len(b)]
  BY WalkDef DEF g
<1> DEFINE w == Walk(b, start, seen)
<1>10. WalkInv(b, start, seen, Len(b), w)
  BY <1>8, <1>9
<1> HIDE DEF w
<1>11. Len(w.path) = Len(b) => ToSet(w.path) = ToSet(b)
  BY <1>10, NoLonger DEF WalkInv
<1> QED BY <1>10, <1>11 DEF WalkInv, w
-----------------------------------------------------------------------------
\* The positions up to k + 1 are those up to k, and k + 1.
LEMMA OneMore == ASSUME NEW k \in Nat PROVE 1 .. k + 1 = (1 .. k) \cup {k + 1}
OBVIOUS

\* The largest of some positions up to k + 1, k + 1 among them, is k + 1.
LEMMA LastOf ==
  ASSUME NEW k \in Nat, NEW s \in SUBSET (1 .. k + 1), k + 1 \in s
  PROVE  Max(s) = k + 1
<1>1. s \subseteq 0 .. k + 1 /\ s # {} /\ k + 1 \in Nat
  OBVIOUS
<1>2. Max(s) \in s /\ \A y \in s : y <= Max(s)
  BY <1>1, MaxOf
<1>3. \A y \in s : y \in Nat /\ y <= k + 1
  OBVIOUS
<1>4. Max(s) \in Nat /\ Max(s) <= k + 1 /\ k + 1 <= Max(s)
  BY <1>2, <1>3
<1> QED BY <1>4

\* g folds F over the positions of a list, the last one applied last.
IsFold(X, x0, F, b, n, g) ==
    /\ g \in [SUBSET (1 .. n) -> X] /\ g[{}] = x0
    /\ \A s \in SUBSET (1 .. n) : s # {} => g[s] = F[g[s \ {Max(s)}]][b[Max(s)]]

\* There is such a g.
LEMMA FoldExists ==
  ASSUME NEW X, NEW x0 \in X, NEW M, NEW F \in [X -> [M -> X]], NEW n \in Nat,
         NEW b, \A i \in 1 .. n : b[i] \in M
  PROVE  \E g : IsFold(X, x0, F, b, n, g)
<1> DEFINE T == {k \in Nat : k <= n => \E g : IsFold(X, x0, F, b, k, g)}
<1>1. 0 \in T
  <2> DEFINE g == [s \in SUBSET (1 .. 0) |-> x0]
  <2>1. 1 .. 0 = {}
    OBVIOUS
  <2>2. g \in [SUBSET (1 .. 0) -> X] /\ g[{}] = x0 /\ \A s \in SUBSET (1 .. 0) : s = {}
    BY <2>1
  <2> HIDE DEF g
  <2>3. IsFold(X, x0, F, b, 0, g)
    BY <2>2 DEF IsFold
  <2> QED BY <2>3
<1>2. ASSUME NEW k \in T, k \in Nat PROVE k + 1 \in T
  <2>1. ASSUME k + 1 <= n PROVE \E g : IsFold(X, x0, F, b, k + 1, g)
    <3>1. PICK g : IsFold(X, x0, F, b, k, g)
      BY <1>2, <2>1
    <3> DEFINE h == [s \in SUBSET (1 .. k + 1) |->
                       IF k + 1 \in s THEN F[g[s \ {k + 1}]][b[k + 1]] ELSE g[s]]
    <3>2. b[k + 1] \in M
      BY <1>2, <2>1
    <3>3. \A s \in SUBSET (1 .. k + 1) : /\ s \ {k + 1} \in SUBSET (1 .. k)
                                         /\ k + 1 \notin s => s \in SUBSET (1 .. k)
      <4> HIDE DEF h, T
      <4>1. 1 .. k + 1 = (1 .. k) \cup {k + 1}
        BY <1>2, OneMore
      <4> QED BY <4>1
    <3>4. \A s \in SUBSET (1 .. k) : g[s] \in X
      BY <3>1 DEF IsFold
    <3>5. h \in [SUBSET (1 .. k + 1) -> X]
      <4>1. ASSUME NEW s \in SUBSET (1 .. k + 1)
            PROVE  (IF k + 1 \in s THEN F[g[s \ {k + 1}]][b[k + 1]] ELSE g[s]) \in X
        <5>1. g[s \ {k + 1}] \in X /\ (k + 1 \notin s => g[s] \in X)
          BY <3>3, <3>4
        <5> QED BY <3>2, <5>1
      <4> QED BY <4>1
    <3>6. h[{}] = x0
      <4>1. {} \in SUBSET (1 .. k + 1) /\ k + 1 \notin {}
        OBVIOUS
      <4>2. h[{}] = g[{}]
        BY <4>1
      <4> QED BY <3>1, <4>2 DEF IsFold
    <3>7. ASSUME NEW s \in SUBSET (1 .. k + 1), s # {}
          PROVE  h[s] = F[h[s \ {Max(s)}]][b[Max(s)]]
      <4>1. CASE k + 1 \in s
        <5>1. Max(s) = k + 1
          BY <1>2, <4>1, LastOf
        <5>2. h[s] = F[g[s \ {k + 1}]][b[k + 1]]
          BY <4>1
        <5>3. s \ {k + 1} \in SUBSET (1 .. k + 1) /\ k + 1 \notin s \ {k + 1}
          OBVIOUS
        <5>4. h[s \ {k + 1}] = g[s \ {k + 1}]
          BY <5>3
        <5> QED BY <5>1, <5>2, <5>4
      <4>2. CASE k + 1 \notin s
        <5>1. s \in SUBSET (1 .. k)
          BY <3>3, <4>2
        <5>2. g[s] = F[g[s \ {Max(s)}]][b[Max(s)]]
          BY <3>1, <3>7, <5>1 DEF IsFold
        <5>3. s \ {Max(s)} \in SUBSET (1 .. k + 1) /\ k + 1 \notin s \ {Max(s)}
          BY <4>2
        <5>4. h[s] = g[s]
          BY <4>2
        <5>5. h[s \ {Max(s)}] = g[s \ {Max(s)}]
          BY <5>3
        <5> QED BY <5>2, <5>4, <5>5
      <4> QED BY <4>1, <4>2
    <3> HIDE DEF h
    <3>8. IsFold(X, x0, F, b, k + 1, h)
      BY <3>5, <3>6, <3>7 DEF IsFold
    <3> QED BY <3>8
  <2> QED BY <1>2, <2>1
<1>3. n \in T
  <2> HIDE DEF T
  <2> QED BY <1>1, <1>2, NatInd
<1> QED BY <1>3

\* The values of a fold over the prefixes of the list.
LEMMA FoldPrefix ==
  ASSUME NEW k \in Nat
  PROVE  Max(1 .. k + 1) = k + 1 /\ (1 .. k + 1) \ {Max(1 .. k + 1)} = 1 .. k
<1>1. Max(1 .. k + 1) = k + 1
  <2>1. 1 .. k + 1 \in SUBSET (1 .. k + 1) /\ k + 1 \in 1 .. k + 1
    OBVIOUS
  <2> QED BY <2>1, LastOf
<1> QED BY <1>1

\* FindParentCycleMutationIds as the iteration of one visit.
CycleVisit(b, acc, m) ==
    LET w == Walk(b, m, acc.settled)
    IN  IF m \in acc.settled THEN acc
        ELSE [settled |-> acc.settled \cup ToSet(w.path), inCycle |-> acc.inCycle \cup LoopOf(w)]

NothingSettled == [settled |-> {}, inCycle |-> {}]

IsCycleFold(b, g) ==
    g = [s \in SUBSET DOMAIN b |-> IF s = {} THEN NothingSettled
                                   ELSE CycleVisit(b, g[s \ {Max(s)}], b[Max(s)])]

\* The recursive function FoldLeft chooses.
LEMMA CycleFoldDef ==
  ASSUME NEW b
  PROVE  FindParentCycleMutationIds(b) = (CHOOSE g : IsCycleFold(b, g))[DOMAIN b].inCycle
BY DEF FindParentCycleMutationIds, FoldLeft, MapThenFoldSet, IsCycleFold, CycleVisit, NothingSettled

\* The visits, one after the other: at[k] is what the first k leave.
LEMMA CycleVisits ==
  ASSUME NEW S, NEW b \in Seq(S), NoMutation \notin S
  PROVE  \E at : /\ at[0] = NothingSettled
                 /\ \A k \in Nat : k + 1 <= Len(b) => at[k + 1] = CycleVisit(b, at[k], b[k + 1])
                 /\ FindParentCycleMutationIds(b) = at[Len(b)].inCycle
<1> DEFINE M == ToSet(b)
           X == [settled : SUBSET M, inCycle : SUBSET M]
           F == [x \in X |-> [m \in M |-> CycleVisit(b, x, m)]]
<1>1. \A x \in X, m \in M : CycleVisit(b, x, m) \in X
  <2>1. ASSUME NEW x \in X, NEW m \in M PROVE CycleVisit(b, x, m) \in X
    <3> DEFINE w == Walk(b, m, x.settled)
    <3>1. w.path \in Seq(M)
      BY WalkEnds DEF WalkInv
    <3> HIDE DEF w
    <3>2. ToSet(w.path) \subseteq M
      BY <3>1 DEF ToSet
    <3>3. LoopOf(w) \subseteq M
      BY <3>2 DEF LoopOf
    <3> HIDE DEF M
    <3> QED BY <3>2, <3>3 DEF CycleVisit, w
  <2> QED BY <2>1
<1>2. F \in [X -> [M -> X]] /\ NothingSettled \in X
  BY <1>1 DEF NothingSettled
<1>3. PICK n \in Nat : n = Len(b) /\ DOMAIN b = 1 .. n
  OBVIOUS
<1>4. \A i \in 1 .. n : b[i] \in M
  BY <1>3 DEF ToSet
<1>5. PICK f : IsFold(X, NothingSettled, F, b, n, f)
  <2> HIDE DEF X, F, M
  <2> QED BY <1>2, <1>4, FoldExists
<1>6. IsCycleFold(b, f)
  <2> HIDE DEF X, M
  <2>1. \A s \in SUBSET (1 .. n) : f[s] \in X
    BY <1>5 DEF IsFold
  <2>2. \A s \in SUBSET (1 .. n) : s # {} => Max(s) \in s
    <3>1. \A s \in SUBSET (1 .. n) : s \subseteq 0 .. n
      OBVIOUS
    <3> QED BY <3>1, MaxOf
  <2>3. ASSUME NEW s \in SUBSET (1 .. n), s # {}
        PROVE  f[s] = CycleVisit(b, f[s \ {Max(s)}], b[Max(s)])
    <3>1. f[s] = F[f[s \ {Max(s)}]][b[Max(s)]]
      BY <1>5, <2>3 DEF IsFold
    <3>2. f[s \ {Max(s)}] \in X /\ b[Max(s)] \in M
      <4>1. s \ {Max(s)} \in SUBSET (1 .. n)
        OBVIOUS
      <4> QED BY <1>4, <2>1, <2>2, <2>3, <4>1
    <3> QED BY <3>1, <3>2
  <2>4. f[{}] = NothingSettled /\ f = [s \in SUBSET (1 .. n) |-> f[s]]
    BY <1>5 DEF IsFold
  <2> HIDE DEF F
  <2>5. \A s \in SUBSET (1 .. n) : f[s] = IF s = {} THEN NothingSettled
                                          ELSE CycleVisit(b, f[s \ {Max(s)}], b[Max(s)])
    BY <2>3, <2>4
  <2> QED BY <1>3, <2>4, <2>5 DEF IsCycleFold
<1> DEFINE g == CHOOSE g : IsCycleFold(b, g)
           at == [k \in 0 .. n |-> g[1 .. k]]
<1>7. IsCycleFold(b, g)
  BY <1>6
<1> HIDE DEF g
<1>8. /\ g[{}] = NothingSettled
      /\ \A s \in SUBSET (1 .. n) : s # {} => g[s] = CycleVisit(b, g[s \ {Max(s)}], b[Max(s)])
  BY <1>3, <1>7 DEF IsCycleFold
<1>9. at[0] = NothingSettled
  <2>1. 1 .. 0 = {} /\ 0 \in 0 .. n
    OBVIOUS
  <2> QED BY <1>8, <2>1
<1>10. ASSUME NEW k \in Nat, k + 1 <= Len(b) PROVE at[k + 1] = CycleVisit(b, at[k], b[k + 1])
  <2> HIDE DEF at, X, F, M
  <2>a. k \in 0 .. n /\ k + 1 \in 0 .. n /\ k + 1 \in 1 .. k + 1
    BY <1>3, <1>10
  <2>b. \A i \in 1 .. k + 1 : i \in 1 .. n
    BY <1>3, <1>10
  <2>1. k \in 0 .. n /\ k + 1 \in 0 .. n /\ 1 .. k + 1 \in SUBSET (1 .. n) /\ 1 .. k + 1 # {}
    BY <2>a, <2>b
  <2>2. g[1 .. k + 1] = CycleVisit(b, g[1 .. k], b[k + 1])
    BY <1>8, <2>1, FoldPrefix
  <2> QED BY <2>1, <2>2 DEF at
<1>11. FindParentCycleMutationIds(b) = at[Len(b)].inCycle
  <2>1. FindParentCycleMutationIds(b) = g[DOMAIN b].inCycle
    BY CycleFoldDef DEF g
  <2> QED BY <1>3, <2>1
<1> HIDE DEF at
<1> QED BY <1>9, <1>10, <1>11
-----------------------------------------------------------------------------
\* One step up the parent chain.
Up(b, c) == IF c = NoMutation THEN NoMutation ELSE ParentIn(b, c)

IsAscent(b, m, up) == up = [n \in 0 .. Len(b) |-> IF n = 0 THEN m ELSE Up(b, up[n - 1])]

\* OnParentCycle looks at the function IsAscent describes.
LEMMA AscentDef ==
  ASSUME NEW b, NEW m
  PROVE  OnParentCycle(b, m) <=> \E n \in 1 .. Len(b) : (CHOOSE up : IsAscent(b, m, up))[n] = m
BY DEF OnParentCycle, IsAscent, Up

\* The ascent, step by step.
LEMMA Ascent ==
  ASSUME NEW S, NEW b \in Seq(S), NEW m \in ToSet(b)
  PROVE  \E up : /\ up[0] = m
                 /\ \A n \in Nat : n + 1 <= Len(b) => up[n + 1] = Up(b, up[n])
                 /\ OnParentCycle(b, m) <=> \E n \in 1 .. Len(b) : up[n] = m
<1> DEFINE X == ToSet(b) \cup {NoMutation}
           F == [c \in X |-> Up(b, c)]
<1>1. F \in [X -> X] /\ m \in X
  BY ParentType DEF Up
<1>2. PICK k \in Nat : k = Len(b)
  OBVIOUS
<1>3. PICK f : IsIteration(X, m, F, k, f)
  <2> HIDE DEF X, F
  <2> QED BY <1>1, Iterates
<1>4. IsAscent(b, m, f)
  <2> HIDE DEF X
  <2>1. f \in [0 .. k -> X] /\ f[0] = m /\ \A n \in 1 .. k : f[n] = F[f[n - 1]]
    BY <1>3 DEF IsIteration
  <2>2. \A n \in 1 .. k : n - 1 \in 0 .. k
    OBVIOUS
  <2>3. \A n \in 1 .. k : f[n] = Up(b, f[n - 1])
    BY <2>1, <2>2
  <2>4. \A n \in 0 .. k : n = 0 \/ n \in 1 .. k
    OBVIOUS
  <2>5. \A n \in 0 .. k : f[n] = IF n = 0 THEN m ELSE Up(b, f[n - 1])
    BY <2>1, <2>3, <2>4
  <2>6. f = [n \in 0 .. k |-> f[n]]
    BY <2>1
  <2> QED BY <1>2, <2>5, <2>6 DEF IsAscent
<1> DEFINE up == CHOOSE up : IsAscent(b, m, up)
<1>5. IsAscent(b, m, up)
  BY <1>4
<1>6. OnParentCycle(b, m) <=> \E n \in 1 .. Len(b) : up[n] = m
  BY AscentDef
<1> HIDE DEF up
<1>7. up[0] = m /\ \A n \in Nat : n + 1 <= Len(b) => up[n + 1] = Up(b, up[n])
  <2>1. 0 \in 0 .. k
    OBVIOUS
  <2>2. \A n \in Nat : n + 1 <= k => n + 1 \in 0 .. k /\ n + 1 # 0 /\ (n + 1) - 1 = n
    OBVIOUS
  <2> QED BY <1>2, <1>5, <2>1, <2>2 DEF IsAscent
<1> QED BY <1>6, <1>7

\* A mutation whose ancestors stay in a closed set it is not in itself is on
\* no cycle.
LEMMA OffCycle ==
  ASSUME NEW S, NEW b \in Seq(S), NEW m \in ToSet(b),
         NEW C, NoMutation \in C, m \notin C, ParentIn(b, m) \in C,
         \A c \in C : c # NoMutation => ParentIn(b, c) \in C, NoMutation \notin S
  PROVE  ~OnParentCycle(b, m)
<1>1. PICK up : /\ up[0] = m
                /\ \A n \in Nat : n + 1 <= Len(b) => up[n + 1] = Up(b, up[n])
                /\ OnParentCycle(b, m) <=> \E n \in 1 .. Len(b) : up[n] = m
  BY Ascent
<1>2. m # NoMutation
  OBVIOUS
<1>3. PICK k \in Nat : k = Len(b)
  OBVIOUS
<1> DEFINE T == {n \in Nat : n + 1 <= k => up[n + 1] \in C}
<1>4. 0 \in T
  BY <1>1, <1>2, <1>3 DEF Up
<1>5. ASSUME NEW n \in T, n \in Nat PROVE n + 1 \in T
  <2>1. ASSUME (n + 1) + 1 <= k PROVE up[(n + 1) + 1] \in C
    <3>1. up[n + 1] \in C /\ n + 1 \in Nat
      BY <1>5, <2>1
    <3>2. up[(n + 1) + 1] = Up(b, up[n + 1])
      BY <1>1, <1>3, <2>1, <3>1
    <3> QED BY <3>1, <3>2 DEF Up
  <2> QED BY <1>5, <2>1
<1>6. Nat \subseteq T
  <2> HIDE DEF T
  <2> QED BY <1>4, <1>5, NatInd
<1>7. ASSUME NEW n \in 1 .. k PROVE up[n] # m
  <2>1. n - 1 \in T /\ (n - 1) + 1 = n /\ n <= k
    <3>1. n - 1 \in Nat
      OBVIOUS
    <3> QED BY <1>6, <3>1
  <2> QED BY <2>1
<1> QED BY <1>1, <1>3, <1>7

\* The end of a path that closes on the path is a cycle.
LEMMA OnLoop ==
  ASSUME NEW S, NEW b \in Seq(S), NoMutation \notin S, NEW p \in Seq(ToSet(b)), IsInjective(p),
         \A j \in 1 .. Len(p) - 1 : p[j + 1] = ParentIn(b, p[j]),
         NEW q \in 1 .. Len(p), ParentIn(b, p[Len(p)]) = p[q], NEW i \in q .. Len(p)
  PROVE  OnParentCycle(b, p[i])
<1>1. p[i] \in ToSet(b)
  OBVIOUS
<1>2. PICK up : /\ up[0] = p[i]
                /\ \A n \in Nat : n + 1 <= Len(b) => up[n + 1] = Up(b, up[n])
                /\ OnParentCycle(b, p[i]) <=> \E n \in 1 .. Len(b) : up[n] = p[i]
  BY <1>1, Ascent
<1>3. PICK k \in Nat, l \in Nat : k = Len(b) /\ l = Len(p) /\ l <= k
  BY NoLonger
<1>4. \A j \in 1 .. l : p[j] # NoMutation
  BY <1>3 DEF ToSet
<1> DEFINE T == {n \in Nat : n <= l - i => up[n] = p[i + n]}
<1>5. 0 \in T
  BY <1>2
<1>6. ASSUME NEW n \in T, n \in Nat PROVE n + 1 \in T
  <2>1. ASSUME n + 1 <= l - i PROVE up[n + 1] = p[i + (n + 1)]
    <3>0. /\ n \in Nat /\ i \in Nat /\ k \in Nat /\ l \in Nat /\ 1 <= i /\ l <= k
          /\ n <= l - i => up[n] = p[i + n]
      BY <1>3, <1>6
    <3> HIDE DEF T
    <3>1. /\ n <= l - i /\ n + 1 <= k /\ i + n \in 1 .. Len(p) - 1 /\ i + n \in 1 .. l
          /\ (i + n) + 1 = i + (n + 1)
      BY <1>3, <2>1, <3>0
    <3>2. up[n + 1] = Up(b, up[n]) /\ up[n] = p[i + n]
      BY <1>2, <1>3, <3>0, <3>1
    <3>3. p[(i + n) + 1] = ParentIn(b, p[i + n])
      BY <3>1
    <3> QED BY <1>4, <3>1, <3>2, <3>3 DEF Up
  <2> QED BY <1>6, <2>1
<1>7. Nat \subseteq T
  <2> HIDE DEF T
  <2> QED BY <1>5, <1>6, NatInd
<1> DEFINE e == (l - i) + 1
           U == {n \in Nat : n <= i - q => up[e + n] = p[q + n]}
<1>8. e \in Nat /\ l - i \in Nat /\ e + (i - q) = (l - q) + 1 /\ (l - q) + 1 \in 1 .. k /\ i - q \in Nat
  BY <1>3
<1>9. 0 \in U
  <2>1. up[l - i] = p[l]
    <3>1. l - i \in T /\ i + (l - i) = l
      BY <1>7, <1>8
    <3> QED BY <3>1
  <2>2. (l - i) + 1 <= k
    BY <1>3
  <2>3. up[e] = Up(b, p[l])
    BY <1>2, <1>3, <1>8, <2>1, <2>2
  <2>4. p[l] # NoMutation
    BY <1>3, <1>4
  <2>5. up[e] = p[q]
    BY <1>3, <2>3, <2>4 DEF Up
  <2>6. e + 0 = e /\ q + 0 = q
    BY <1>8
  <2> HIDE DEF e
  <2> QED BY <2>5, <2>6
<1>10. ASSUME NEW n \in U, n \in Nat PROVE n + 1 \in U
  <2>1. ASSUME n + 1 <= i - q PROVE up[e + (n + 1)] = p[q + (n + 1)]
    <3>1. /\ n <= i - q /\ e + n \in Nat /\ (e + n) + 1 <= k /\ q + n \in 1 .. Len(p) - 1
          /\ q + n \in 1 .. l /\ (q + n) + 1 = q + (n + 1) /\ (e + n) + 1 = e + (n + 1)
      BY <1>3, <1>10, <2>1
    <3>2. up[e + n] = p[q + n]
      BY <1>10, <3>1
    <3> HIDE DEF e, U, T
    <3>3. up[(e + n) + 1] = Up(b, p[q + n])
      BY <1>2, <1>3, <3>1, <3>2
    <3>4. p[(q + n) + 1] = ParentIn(b, p[q + n])
      BY <3>1
    <3> QED BY <1>4, <3>1, <3>3, <3>4 DEF Up
  <2> QED BY <1>10, <2>1
<1>11. i - q \in U
  <2> HIDE DEF U
  <2> QED BY <1>8, <1>9, <1>10, NatInd
<1>12. up[(l - q) + 1] = p[i]
  <2>1. q + (i - q) = i
    OBVIOUS
  <2>2. up[e + (i - q)] = p[q + (i - q)]
    <3> HIDE DEF e
    <3> QED BY <1>11
  <2> HIDE DEF e
  <2> QED BY <1>8, <2>1, <2>2
<1> QED BY <1>2, <1>3, <1>8, <1>12
-----------------------------------------------------------------------------
\* LoopOf in terms of places.
LEMMA LoopOfDef ==
  ASSUME NEW w
  PROVE  LoopOf(w) = IF w.cur \in ToSet(w.path)
                     THEN {m \in ToSet(w.path) : Place(w.path, m) >= Place(w.path, w.cur)} ELSE {}
BY DEF LoopOf, Place

\* A path without repetition has each element at one place.
LEMMA PlaceInPath ==
  ASSUME NEW S, NEW p \in Seq(S), IsInjective(p), NEW i \in 1 .. Len(p)
  PROVE  p[i] \in ToSet(p) /\ Place(p, p[i]) = i
<1>1. p[i] \in ToSet(p)
  BY DEF ToSet
<1>2. Place(p, p[i]) \in 1 .. Len(p) /\ p[Place(p, p[i])] = p[i]
  BY <1>1, PlaceOf
<1> QED BY <1>1, <1>2 DEF IsInjective

\* LoopOf is the part of the path from the mutation the walk came back to.
LEMMA LoopOfIs ==
  ASSUME NEW S, NEW w, w.path \in Seq(S), IsInjective(w.path),
         NEW q \in 1 .. Len(w.path), w.path[q] = w.cur
  PROVE  /\ LoopOf(w) \subseteq ToSet(w.path)
         /\ \A i \in 1 .. Len(w.path) : w.path[i] \in LoopOf(w) <=> i >= q
<1>1. \A i \in 1 .. Len(w.path) : w.path[i] \in ToSet(w.path) /\ Place(w.path, w.path[i]) = i
  BY PlaceInPath
<1>2. LoopOf(w) = {m \in ToSet(w.path) : Place(w.path, m) >= Place(w.path, w.cur)}
  BY <1>1, LoopOfDef
<1> QED BY <1>1, <1>2

\* What the first k visits of findParentCycleMutationIds have settled.
CycleInv(b, k, acc) ==
    /\ acc.settled \subseteq ToSet(b)
    /\ \A c \in acc.settled : ParentIn(b, c) \in acc.settled \cup {NoMutation}
    /\ \A i \in 1 .. k : b[i] \in acc.settled
    /\ acc.inCycle = {c \in acc.settled : OnParentCycle(b, c)}

\* On the path of a walk through mutations that are not settled, exactly the
\* mutations of the loop are on a cycle.
LEMMA PathCycles ==
  ASSUME NEW S, NEW b \in Seq(S), NoMutation \notin S, NEW start, NEW seen, NEW n, NEW w,
         WalkInv(b, start, seen, n, w), w.cur \in {NoMutation} \cup seen \cup ToSet(w.path),
         seen \subseteq ToSet(b), \A c \in seen : ParentIn(b, c) \in seen \cup {NoMutation},
         NEW i \in 1 .. Len(w.path)
  PROVE  OnParentCycle(b, w.path[i]) <=> w.path[i] \in LoopOf(w)
<1> DEFINE p == w.path
           l == Len(p)
<1>1. /\ p \in Seq(ToSet(b)) /\ IsInjective(p) /\ ToSet(p) \cap seen = {} /\ l \in Nat
      /\ w.cur = ParentIn(b, p[l])
      /\ \A j \in 1 .. l - 1 : p[j + 1] = ParentIn(b, p[j])
  <2>1. p # <<>>
    BY DEF WalkInv
  <2> QED BY <2>1 DEF WalkInv
<1>2. \A j \in 1 .. l : p[j] \in ToSet(p) /\ p[j] \in ToSet(b) /\ p[j] # NoMutation
  BY <1>1 DEF ToSet
<1>3. ASSUME w.cur \in ToSet(p) => \E q \in i + 1 .. l : p[q] = w.cur
      PROVE  ~OnParentCycle(b, p[i])
  <2> DEFINE C == {NoMutation} \cup seen \cup {p[j] : j \in i + 1 .. l}
  <2>1. w.cur \in C
    BY <1>3
  <2>2. p[i] \notin C
    <3>1. p[i] \notin seen /\ p[i] # NoMutation
      BY <1>1, <1>2
    <3>2. ASSUME NEW j \in i + 1 .. l PROVE p[i] # p[j]
      <4>1. j \in 1 .. l /\ i \in 1 .. l /\ i # j
        BY <1>1
      <4> QED BY <1>1, <4>1 DEF IsInjective
    <3> QED BY <3>1, <3>2
  <2>3. \A j \in i .. l : ParentIn(b, p[j]) \in C
    <3>1. ASSUME NEW j \in i .. l PROVE ParentIn(b, p[j]) \in C
      <4>1. CASE j = l
        BY <1>1, <2>1, <4>1
      <4>2. CASE j # l
        <5>1. j \in 1 .. l - 1 /\ j + 1 \in i + 1 .. l
          BY <1>1, <4>2
        <5>2. ParentIn(b, p[j]) = p[j + 1]
          BY <1>1, <5>1
        <5> QED BY <5>1, <5>2
      <4> QED BY <4>1, <4>2
    <3> QED BY <3>1
  <2>4. ParentIn(b, p[i]) \in C /\ \A c \in C : c # NoMutation => ParentIn(b, c) \in C
    <3>1. i \in i .. l
      BY <1>1
    <3>2. \A j \in i + 1 .. l : j \in i .. l
      BY <1>1
    <3>3. \A c \in seen : ParentIn(b, c) \in C
      OBVIOUS
    <3>4. \A j \in i + 1 .. l : ParentIn(b, p[j]) \in C
      BY <2>3, <3>2
    <3>5. \A c \in C : c = NoMutation \/ c \in seen \/ \E j \in i + 1 .. l : c = p[j]
      OBVIOUS
    <3> HIDE DEF C, p, l
    <3> QED BY <2>3, <3>1, <3>3, <3>4, <3>5
  <2>5. NoMutation \in C
    OBVIOUS
  <2> HIDE DEF C, p, l
  <2> QED BY <1>2, <2>2, <2>4, <2>5, OffCycle DEF p, l
<1>4. CASE w.cur \notin ToSet(p)
  BY <1>3, <1>4, LoopOfDef
<1>5. CASE w.cur \in ToSet(p)
  <2>1. PICK q \in 1 .. l : p[q] = w.cur
    <3>1. DOMAIN p = 1 .. l
      BY <1>1
    <3> HIDE DEF p, l
    <3> QED BY <1>5, <3>1 DEF ToSet
  <2>2. p[i] \in LoopOf(w) <=> i >= q
    BY <1>1, <2>1, LoopOfIs
  <2>3. CASE i >= q
    <3>1. i \in q .. l
      BY <2>3
    <3>2. OnParentCycle(b, p[i])
      BY <1>1, <2>1, <3>1, OnLoop
    <3> QED BY <2>2, <2>3, <3>2
  <2>4. CASE i < q
    <3>1. q \in i + 1 .. l
      BY <2>4
    <3> QED BY <1>3, <2>1, <2>2, <2>4, <3>1
  <2> QED BY <2>3, <2>4
<1> QED BY <1>4, <1>5

\* Visiting one more mutation.
LEMMA CycleVisitInv ==
  ASSUME NEW S, NEW b \in Seq(S), NoMutation \notin S, NEW k \in Nat, k + 1 <= Len(b), NEW acc,
         CycleInv(b, k, acc)
  PROVE  CycleInv(b, k + 1, CycleVisit(b, acc, b[k + 1]))
<1> DEFINE m == b[k + 1]
           w == Walk(b, m, acc.settled)
           seen == acc.settled
<1>1. k + 1 \in 1 .. Len(b) /\ m \in ToSet(b) /\ \A i \in 1 .. k + 1 : i = k + 1 \/ i \in 1 .. k
  BY DEF ToSet
<1>2. CASE m \in seen
  <2>1. CycleVisit(b, acc, m) = acc
    BY <1>2 DEF CycleVisit
  <2> QED BY <1>1, <1>2, <2>1 DEF CycleInv
<1>3. CASE m \notin seen
  <2>1. WalkInv(b, m, seen, Len(b), w) /\ w.cur \in {NoMutation} \cup seen \cup ToSet(w.path)
    BY <1>1, WalkEnds
  <2> HIDE DEF w, m
  <2> DEFINE p == w.path
             new == [settled |-> seen \cup ToSet(p), inCycle |-> acc.inCycle \cup LoopOf(w)]
  <2>2. CycleVisit(b, acc, m) = new
    BY <1>3 DEF CycleVisit, w
  <2>3. /\ p \in Seq(ToSet(b)) /\ IsInjective(p) /\ ToSet(p) \subseteq ToSet(b)
        /\ \A i \in 1 .. Len(p) : p[i] \in ToSet(p)
    <3>1. p \in Seq(ToSet(b)) /\ IsInjective(p)
      BY <2>1 DEF WalkInv
    <3> HIDE DEF p
    <3> QED BY <3>1 DEF ToSet
  <2>4. p # <<>> /\ p[1] = m /\ w.cur = ParentIn(b, p[Len(p)])
    <3>1. CASE p = <<>>
      <4>1. w.cur = m /\ ToSet(p) = {}
        BY <2>1, <3>1 DEF WalkInv, ToSet
      <4>2. m # NoMutation
        BY <1>1 DEF ToSet
      <4> QED BY <1>3, <2>1, <4>1, <4>2
    <3> QED BY <2>1, <3>1 DEF WalkInv
  <2>5. \A c \in ToSet(p) : ParentIn(b, c) \in seen \cup ToSet(p) \cup {NoMutation}
    <3>1. ASSUME NEW i \in 1 .. Len(p)
          PROVE  ParentIn(b, p[i]) \in seen \cup ToSet(p) \cup {NoMutation}
      <4>1. CASE i = Len(p)
        BY <2>1, <2>4, <4>1
      <4>2. CASE i # Len(p)
        <5>1. i \in 1 .. Len(p) - 1 /\ i + 1 \in 1 .. Len(p)
          BY <2>3, <4>2
        <5>2. p[i + 1] = ParentIn(b, p[i])
          BY <2>1, <5>1 DEF WalkInv
        <5> QED BY <2>3, <5>1, <5>2
      <4> QED BY <4>1, <4>2
    <3> HIDE DEF p, new
    <3>2. \A c \in ToSet(p) : \E i \in 1 .. Len(p) : p[i] = c
      BY <2>3 DEF ToSet
    <3> QED BY <3>1, <3>2
  <2>6. m \in ToSet(p)
    <3> HIDE DEF p
    <3>1. 1 \in 1 .. Len(p)
      BY <2>3, <2>4
    <3> QED BY <2>3, <2>4, <3>1
  <2>7. new.inCycle = {c \in seen \cup ToSet(p) : OnParentCycle(b, c)}
    <3>1. \A i \in 1 .. Len(p) : OnParentCycle(b, p[i]) <=> p[i] \in LoopOf(w)
      BY <2>1, PathCycles DEF CycleInv
    <3>2. LoopOf(w) \subseteq ToSet(p)
      BY LoopOfDef
    <3>3. \A c \in ToSet(p) : OnParentCycle(b, c) <=> c \in LoopOf(w)
      <4> HIDE DEF p, new
      <4>1. \A c \in ToSet(p) : \E i \in 1 .. Len(p) : p[i] = c
        BY <2>3 DEF ToSet
      <4> QED BY <3>1, <4>1
    <3>4. acc.inCycle = {c \in seen : OnParentCycle(b, c)}
      BY DEF CycleInv
    <3> HIDE DEF p
    <3> QED BY <3>2, <3>3, <3>4
  <2>8. new.settled \subseteq ToSet(b) /\ \A c \in new.settled : ParentIn(b, c) \in new.settled \cup {NoMutation}
    BY <2>3, <2>5 DEF CycleInv
  <2>9. \A i \in 1 .. k + 1 : b[i] \in new.settled
    <3>1. \A i \in 1 .. k : b[i] \in seen
      BY DEF CycleInv
    <3> QED BY <1>1, <2>6, <3>1 DEF m
  <2>10. new.inCycle = {c \in new.settled : OnParentCycle(b, c)}
    BY <2>7
  <2> HIDE DEF new
  <2>11. CycleInv(b, k + 1, new)
    BY <2>8, <2>9, <2>10 DEF CycleInv
  <2> QED BY <2>2, <2>11 DEF m
<1> QED BY <1>2, <1>3

\* findParentCycleMutationIds returns exactly the mutations on a cycle.
LEMMA CyclesFound ==
  ASSUME NEW S, NEW b \in Seq(S), NoMutation \notin S
  PROVE  FindParentCycleMutationIds(b) = {m \in ToSet(b) : OnParentCycle(b, m)}
<1>1. PICK at : /\ at[0] = NothingSettled
                /\ \A k \in Nat : k + 1 <= Len(b) => at[k + 1] = CycleVisit(b, at[k], b[k + 1])
                /\ FindParentCycleMutationIds(b) = at[Len(b)].inCycle
  BY CycleVisits
<1> DEFINE T == {k \in Nat : k <= Len(b) => CycleInv(b, k, at[k])}
<1>2. 0 \in T
  BY <1>1 DEF CycleInv, NothingSettled
<1>3. ASSUME NEW k \in T, k \in Nat PROVE k + 1 \in T
  <2>1. ASSUME k + 1 <= Len(b) PROVE CycleInv(b, k + 1, at[k + 1])
    <3>1. k <= Len(b)
      BY <1>3, <2>1
    <3> QED BY <1>1, <1>3, <2>1, <3>1, CycleVisitInv
  <2> QED BY <1>3, <2>1
<1>4. Len(b) \in T
  <2> HIDE DEF T
  <2> QED BY <1>2, <1>3, NatInd
<1>5. CycleInv(b, Len(b), at[Len(b)])
  BY <1>4
<1>6. at[Len(b)].settled = ToSet(b)
  BY <1>5 DEF CycleInv, ToSet
<1> QED BY <1>1, <1>5, <1>6 DEF CycleInv
-----------------------------------------------------------------------------
\* A place holds one mutation.
LEMMA PlaceOnce ==
  ASSUME NEW S, NEW s \in Seq(S), NEW m \in ToSet(s), NEW n \in ToSet(s), Place(s, m) = Place(s, n)
  PROVE  m = n
<1>1. s[Place(s, m)] = m /\ s[Place(s, n)] = n
  BY PlaceOf
<1> QED BY <1>1

\* byGuuid in terms of places: the mutation of the entity that comes first.
LEMMA ByGuuidFirst ==
  ASSUME NEW S, NEW s \in Seq(S), NoMutation \notin S, NEW g
  PROVE  /\ ByGuuid(s, g) # NoMutation =>
              /\ g # NoGuuid /\ ByGuuid(s, g) \in ToSet(s) /\ ByGuuid(s, g).guuid = g
              /\ \A m \in ToSet(s) : m.guuid = g => Place(s, ByGuuid(s, g)) <= Place(s, m)
         /\ \A m \in ToSet(s) : m.guuid = g /\ g # NoGuuid => ByGuuid(s, g) # NoMutation
<1>1. CASE ByGuuid(s, g) = NoMutation
  <2>1. g = NoGuuid \/ \A i \in 1 .. Len(s) : s[i].guuid # g
    <3>1. \A i \in 1 .. Len(s) : s[i] # NoMutation
      OBVIOUS
    <3> QED BY <1>1, <3>1, ByGuuidFinds
  <2> QED BY <1>1, <2>1 DEF ToSet
<1>2. CASE ByGuuid(s, g) # NoMutation
  <2> DEFINE p == ByGuuid(s, g)
  <2>1. g # NoGuuid /\ \E i \in 1 .. Len(s) : /\ p = s[i] /\ s[i].guuid = g
                                             /\ \A j \in 1 .. Len(s) : s[j].guuid = g => i <= j
    BY <1>2, ByGuuidFinds
  <2> HIDE DEF p
  <2>2. PICK i \in 1 .. Len(s) : /\ p = s[i] /\ s[i].guuid = g
                                 /\ \A j \in 1 .. Len(s) : s[j].guuid = g => i <= j
    BY <2>1
  <2>3. p \in ToSet(s)
    BY <2>2 DEF ToSet
  <2>4. Place(s, p) \in 1 .. Len(s) /\ Place(s, p) <= i
    BY <2>2, <2>3, PlaceOf
  <2>5. ASSUME NEW m \in ToSet(s), m.guuid = g PROVE Place(s, p) <= Place(s, m)
    <3>1. Place(s, m) \in 1 .. Len(s) /\ s[Place(s, m)] = m
      BY PlaceOf
    <3>2. i <= Place(s, m)
      BY <2>2, <2>5, <3>1
    <3> QED BY <2>4, <3>1, <3>2
  <2> QED BY <1>2, <2>1, <2>2, <2>3, <2>5 DEF p
<1> QED BY <1>1, <1>2

\* t keeps the order of s among the mutations of one entity.
SameEntity(m, n) == m.guuid = n.guuid /\ m.guuid # NoGuuid

KeepsOrder(s, t) ==
    \A m, n \in ToSet(t) : SameEntity(m, n) /\ Place(s, m) < Place(s, n) => Place(t, m) < Place(t, n)

\* Then byGuuid finds the same mutation in both, unless a mutation of the
\* entity was left out.
LEMMA SameFirst ==
  ASSUME NEW S, NEW s \in Seq(S), NEW t \in Seq(S), NoMutation \notin S, NEW g,
         ToSet(t) \subseteq ToSet(s), KeepsOrder(s, t),
         \A c \in ToSet(s) \ ToSet(t) : c.guuid # g
  PROVE  ByGuuid(t, g) = ByGuuid(s, g)
<1> DEFINE p == ByGuuid(s, g)
           q == ByGuuid(t, g)
<1>1. /\ p # NoMutation => /\ g # NoGuuid /\ p \in ToSet(s) /\ p.guuid = g
                           /\ \A m \in ToSet(s) : m.guuid = g => Place(s, p) <= Place(s, m)
      /\ \A m \in ToSet(s) : m.guuid = g /\ g # NoGuuid => p # NoMutation
  BY ByGuuidFirst
<1>2. /\ q # NoMutation => /\ g # NoGuuid /\ q \in ToSet(t) /\ q.guuid = g
                           /\ \A m \in ToSet(t) : m.guuid = g => Place(t, q) <= Place(t, m)
      /\ \A m \in ToSet(t) : m.guuid = g /\ g # NoGuuid => q # NoMutation
  BY ByGuuidFirst
<1> HIDE DEF p, q
<1>3. p # NoMutation <=> q # NoMutation
  BY <1>1, <1>2
<1>4. ASSUME p # NoMutation PROVE p = q
  <2>1. /\ p \in ToSet(s) /\ p \in ToSet(t) /\ q \in ToSet(s) /\ q \in ToSet(t)
        /\ p.guuid = g /\ q.guuid = g /\ g # NoGuuid
    BY <1>1, <1>2, <1>3, <1>4
  <2>2. Place(s, p) <= Place(s, q) /\ Place(t, q) <= Place(t, p)
    BY <1>1, <1>2, <1>3, <1>4, <2>1
  <2>3. Place(s, p) \in Nat /\ Place(s, q) \in Nat /\ Place(t, p) \in Nat /\ Place(t, q) \in Nat
    <3>1. Place(s, p) \in 1 .. Len(s) /\ Place(s, q) \in 1 .. Len(s)
      BY <2>1, PlaceOf
    <3>2. Place(t, p) \in 1 .. Len(t) /\ Place(t, q) \in 1 .. Len(t)
      BY <2>1, PlaceOf
    <3> QED BY <3>1, <3>2
  <2>4. ~(Place(s, p) < Place(s, q))
    BY <2>1, <2>2, <2>3 DEF KeepsOrder, SameEntity
  <2>5. Place(s, p) = Place(s, q)
    BY <2>2, <2>3, <2>4
  <2> QED BY <2>1, <2>5, PlaceOnce
<1> QED BY <1>3, <1>4 DEF p, q

\* WithoutCyclic as the iteration of one visit.
FilterVisit(C, out, m) == IF m \in C THEN out ELSE Append(out, m)

IsFilterFold(b, C, g) ==
    g = [s \in SUBSET DOMAIN b |-> IF s = {} THEN <<>>
                                   ELSE FilterVisit(C, g[s \ {Max(s)}], b[Max(s)])]

\* The recursive function FoldLeft chooses.
LEMMA FilterFoldDef ==
  ASSUME NEW b, NEW C
  PROVE  WithoutCyclic(b, C) = (CHOOSE g : IsFilterFold(b, C, g))[DOMAIN b]
BY DEF WithoutCyclic, FoldLeft, MapThenFoldSet, IsFilterFold, FilterVisit

\* The visits, one after the other.
LEMMA FilterVisits ==
  ASSUME NEW S, NEW b \in Seq(S), NEW C
  PROVE  \E at : /\ at[0] = <<>>
                 /\ \A k \in Nat : k + 1 <= Len(b) => at[k + 1] = FilterVisit(C, at[k], b[k + 1])
                 /\ WithoutCyclic(b, C) = at[Len(b)]
<1> DEFINE M == ToSet(b)
           X == Seq(M)
           F == [x \in X |-> [m \in M |-> FilterVisit(C, x, m)]]
<1>1. \A x \in X, m \in M : FilterVisit(C, x, m) \in X
  BY DEF FilterVisit
<1>2. F \in [X -> [M -> X]] /\ <<>> \in X
  BY <1>1
<1>3. PICK n \in Nat : n = Len(b) /\ DOMAIN b = 1 .. n
  OBVIOUS
<1>4. \A i \in 1 .. n : b[i] \in M
  BY <1>3 DEF ToSet
<1>5. PICK f : IsFold(X, <<>>, F, b, n, f)
  <2> HIDE DEF X, F, M
  <2> QED BY <1>2, <1>4, FoldExists
<1>6. IsFilterFold(b, C, f)
  <2> HIDE DEF X, M
  <2>1. \A s \in SUBSET (1 .. n) : f[s] \in X
    BY <1>5 DEF IsFold
  <2>2. \A s \in SUBSET (1 .. n) : s # {} => Max(s) \in s
    <3>1. \A s \in SUBSET (1 .. n) : s \subseteq 0 .. n
      OBVIOUS
    <3> QED BY <3>1, MaxOf
  <2>3. ASSUME NEW s \in SUBSET (1 .. n), s # {}
        PROVE  f[s] = FilterVisit(C, f[s \ {Max(s)}], b[Max(s)])
    <3>1. f[s] = F[f[s \ {Max(s)}]][b[Max(s)]]
      BY <1>5, <2>3 DEF IsFold
    <3>2. f[s \ {Max(s)}] \in X /\ b[Max(s)] \in M
      <4>1. s \ {Max(s)} \in SUBSET (1 .. n)
        OBVIOUS
      <4> QED BY <1>4, <2>1, <2>2, <2>3, <4>1
    <3> QED BY <3>1, <3>2
  <2>4. f[{}] = <<>> /\ f = [s \in SUBSET (1 .. n) |-> f[s]]
    BY <1>5 DEF IsFold
  <2> HIDE DEF F
  <2>5. \A s \in SUBSET (1 .. n) : f[s] = IF s = {} THEN <<>>
                                          ELSE FilterVisit(C, f[s \ {Max(s)}], b[Max(s)])
    BY <2>3, <2>4
  <2> QED BY <1>3, <2>4, <2>5 DEF IsFilterFold
<1> DEFINE g == CHOOSE g : IsFilterFold(b, C, g)
           at == [k \in 0 .. n |-> g[1 .. k]]
<1>7. IsFilterFold(b, C, g)
  BY <1>6
<1> HIDE DEF g
<1>8. /\ g[{}] = <<>>
      /\ \A s \in SUBSET (1 .. n) : s # {} => g[s] = FilterVisit(C, g[s \ {Max(s)}], b[Max(s)])
  BY <1>3, <1>7 DEF IsFilterFold
<1>9. at[0] = <<>>
  <2>1. 1 .. 0 = {} /\ 0 \in 0 .. n
    OBVIOUS
  <2> QED BY <1>8, <2>1
<1>10. ASSUME NEW k \in Nat, k + 1 <= Len(b) PROVE at[k + 1] = FilterVisit(C, at[k], b[k + 1])
  <2> HIDE DEF at, X, F, M
  <2>1. k \in 0 .. n /\ k + 1 \in 0 .. n /\ k + 1 \in 1 .. k + 1
    BY <1>3, <1>10
  <2>2. \A i \in 1 .. k + 1 : i \in 1 .. n
    BY <1>3, <1>10
  <2>3. 1 .. k + 1 \in SUBSET (1 .. n) /\ 1 .. k + 1 # {}
    BY <2>1, <2>2
  <2>4. g[1 .. k + 1] = FilterVisit(C, g[1 .. k], b[k + 1])
    BY <1>8, <2>3, FoldPrefix
  <2> QED BY <2>1, <2>4 DEF at
<1>11. WithoutCyclic(b, C) = at[Len(b)]
  <2>1. WithoutCyclic(b, C) = g[DOMAIN b]
    BY FilterFoldDef DEF g
  <2> QED BY <1>3, <2>1
<1> HIDE DEF at
<1> QED BY <1>9, <1>10, <1>11

\* The mutations kept of the first k, and where each of them was.
FilterInv(b, C, k, out, pos) ==
    /\ out \in Seq(ToSet(b)) /\ pos \in [1 .. Len(out) -> 1 .. k]
    /\ \A j \in 1 .. Len(out) : out[j] = b[pos[j]] /\ out[j] \notin C
    /\ \A i, j \in 1 .. Len(out) : i < j => pos[i] < pos[j]
    /\ \A i \in 1 .. k : b[i] \notin C => \E j \in 1 .. Len(out) : pos[j] = i

\* One more visit keeps it.
LEMMA FilterVisitInv ==
  ASSUME NEW S, NEW b \in Seq(S), NEW C, NEW k \in Nat, k + 1 <= Len(b),
         NEW out, NEW pos, FilterInv(b, C, k, out, pos)
  PROVE  \E new : FilterInv(b, C, k + 1, FilterVisit(C, out, b[k + 1]), new)
<1> DEFINE m == b[k + 1]
<1>1. k + 1 \in 1 .. Len(b) /\ m \in ToSet(b)
  BY DEF ToSet
<1>2. /\ out \in Seq(ToSet(b)) /\ pos \in [1 .. Len(out) -> 1 .. k] /\ Len(out) \in Nat
      /\ \A j \in 1 .. Len(out) : pos[j] \in 1 .. k /\ pos[j] \in 1 .. k + 1 /\ pos[j] < k + 1
  <2>1. out \in Seq(ToSet(b)) /\ pos \in [1 .. Len(out) -> 1 .. k]
    BY DEF FilterInv
  <2> QED BY <2>1
<1>3. \A i \in 1 .. k + 1 : i \in 1 .. k \/ i = k + 1
  OBVIOUS
<1>4. CASE m \in C
  <2>1. FilterVisit(C, out, m) = out
    BY <1>4 DEF FilterVisit
  <2>2. pos \in [1 .. Len(out) -> 1 .. k + 1]
    BY <1>2
  <2>3. FilterInv(b, C, k + 1, out, pos)
    BY <1>2, <1>3, <1>4, <2>2 DEF FilterInv
  <2> QED BY <2>1, <2>3
<1>5. CASE m \notin C
  <2> DEFINE l == Len(out)
             o == Append(out, m)
             new == [j \in 1 .. l + 1 |-> IF j = l + 1 THEN k + 1 ELSE pos[j]]
  <2>1. FilterVisit(C, out, m) = o
    BY <1>5 DEF FilterVisit
  <2>2. /\ o \in Seq(ToSet(b)) /\ Len(o) = l + 1 /\ o[l + 1] = m
        /\ \A j \in 1 .. l : o[j] = out[j]
    BY <1>1, <1>2, AppendProperties
  <2> HIDE DEF m, o
  <2>3. \A j \in 1 .. l + 1 : j = l + 1 \/ j \in 1 .. l
    BY <1>2
  <2>4. new[l + 1] = k + 1 /\ \A j \in 1 .. l : new[j] = pos[j]
    BY <1>2
  <2>5. new \in [1 .. l + 1 -> 1 .. k + 1]
    BY <1>2, <2>3
  <2> HIDE DEF new
  <2>6. \A j \in 1 .. l + 1 : o[j] = b[new[j]] /\ o[j] \notin C
    BY <1>2, <1>5, <2>2, <2>3, <2>4 DEF FilterInv, m
  <2>7. \A i, j \in 1 .. l + 1 : i < j => new[i] < new[j]
    <3>1. \A i, j \in 1 .. l : i < j => pos[i] < pos[j]
      BY DEF FilterInv
    <3>2. \A i \in 1 .. l + 1 : l + 1 < i => FALSE
      BY <1>2
    <3>3. \A i \in 1 .. l + 1, j \in 1 .. l : i < j => i \in 1 .. l
      BY <1>2
    <3> QED BY <1>2, <2>3, <2>4, <3>1, <3>2, <3>3
  <2>8. \A i \in 1 .. k + 1 : b[i] \notin C => \E j \in 1 .. l + 1 : new[j] = i
    <3>1. l + 1 \in 1 .. l + 1 /\ \A j \in 1 .. l : j \in 1 .. l + 1
      BY <1>2
    <3>2. \A i \in 1 .. k : b[i] \notin C => \E j \in 1 .. l : pos[j] = i
      BY DEF FilterInv
    <3>3. \A i \in 1 .. k : b[i] \notin C => \E j \in 1 .. l + 1 : new[j] = i
      BY <2>4, <3>1, <3>2
    <3> QED BY <1>3, <2>4, <3>1, <3>3
  <2>9. FilterInv(b, C, k + 1, o, new)
    <3>1. Len(o) = l + 1 /\ o \in Seq(ToSet(b))
      BY <2>2
    <3> HIDE DEF l
    <3> QED BY <2>5, <2>6, <2>7, <2>8, <3>1 DEF FilterInv
  <2> QED BY <2>1, <2>9 DEF m
<1> QED BY <1>4, <1>5

\* What is left of a batch: the mutations not taken out, in the same order.
LEMMA Filtered ==
  ASSUME NEW S, NEW b \in Seq(S), NEW C
  PROVE  LET t == WithoutCyclic(b, C)
         IN  t \in Seq(ToSet(b)) /\ ToSet(t) = ToSet(b) \ C /\ KeepsOrder(b, t)
<1>1. PICK at : /\ at[0] = <<>>
                /\ \A k \in Nat : k + 1 <= Len(b) => at[k + 1] = FilterVisit(C, at[k], b[k + 1])
                /\ WithoutCyclic(b, C) = at[Len(b)]
  BY FilterVisits
<1> DEFINE T == {k \in Nat : k <= Len(b) => \E pos : FilterInv(b, C, k, at[k], pos)}
<1>2. 0 \in T
  <2> DEFINE pos == [j \in 1 .. 0 |-> 0]
  <2>1. 1 .. 0 = {} /\ Len(<<>>) = 0 /\ <<>> \in Seq(ToSet(b))
    OBVIOUS
  <2>2. pos \in [1 .. 0 -> 1 .. 0]
    BY <2>1
  <2> HIDE DEF pos
  <2>3. FilterInv(b, C, 0, <<>>, pos)
    BY <2>1, <2>2 DEF FilterInv
  <2> QED BY <1>1, <2>3
<1>3. ASSUME NEW k \in T, k \in Nat PROVE k + 1 \in T
  <2>1. ASSUME k + 1 <= Len(b) PROVE \E pos : FilterInv(b, C, k + 1, at[k + 1], pos)
    <3>1. PICK pos : FilterInv(b, C, k, at[k], pos)
      BY <1>3, <2>1
    <3> QED BY <1>1, <1>3, <2>1, <3>1, FilterVisitInv
  <2> QED BY <1>3, <2>1
<1>4. Len(b) \in T
  <2> HIDE DEF T
  <2> QED BY <1>2, <1>3, NatInd
<1> DEFINE t == WithoutCyclic(b, C)
<1>5. PICK pos : FilterInv(b, C, Len(b), t, pos)
  BY <1>1, <1>4
<1> HIDE DEF t, T
<1>6. /\ t \in Seq(ToSet(b)) /\ t \in Seq(S)
      /\ \A j \in 1 .. Len(t) : pos[j] \in 1 .. Len(b) /\ t[j] = b[pos[j]] /\ t[j] \notin C
      /\ \A i \in 1 .. Len(b) : b[i] \notin C => \E j \in 1 .. Len(t) : pos[j] = i
  <2>1. ToSet(b) \subseteq S
    BY DEF ToSet
  <2> QED BY <1>5, <2>1 DEF FilterInv
<1>7. ToSet(t) = ToSet(b) \ C
  <2>1. ASSUME NEW m \in ToSet(t) PROVE m \in ToSet(b) \ C
    BY <1>6 DEF ToSet
  <2>2. ASSUME NEW m \in ToSet(b) \ C PROVE m \in ToSet(t)
    <3>1. PICK i \in 1 .. Len(b) : b[i] = m
      BY DEF ToSet
    <3>2. PICK j \in 1 .. Len(t) : pos[j] = i
      BY <1>6, <3>1
    <3>3. t[j] = m /\ j \in DOMAIN t
      BY <1>6, <3>1, <3>2
    <3> QED BY <3>3 DEF ToSet
  <2> QED BY <2>1, <2>2
<1>8. ASSUME NEW m \in ToSet(t), NEW n \in ToSet(t), Place(b, m) < Place(b, n)
      PROVE  Place(t, m) < Place(t, n)
  <2>1. m \in ToSet(b) /\ n \in ToSet(b) /\ m \notin C
    BY <1>7
  <2>2. /\ Place(b, m) \in 1 .. Len(b) /\ b[Place(b, m)] = m
        /\ Place(b, n) \in 1 .. Len(b) /\ \A j \in 1 .. Len(b) : b[j] = n => Place(b, n) <= j
    BY <2>1, PlaceOf
  <2>3. /\ Place(t, n) \in 1 .. Len(t) /\ t[Place(t, n)] = n
        /\ Place(t, m) \in 1 .. Len(t) /\ \A j \in 1 .. Len(t) : t[j] = m => Place(t, m) <= j
    BY <1>6, PlaceOf
  <2>4. PICK i \in 1 .. Len(t) : pos[i] = Place(b, m)
    BY <1>6, <2>1, <2>2
  <2>5. t[i] = m /\ Place(t, m) <= i
    BY <1>6, <2>2, <2>3, <2>4
  <2>6. Place(b, n) <= pos[Place(t, n)]
    BY <1>6, <2>2, <2>3
  <2>7. pos[i] < pos[Place(t, n)] /\ pos[Place(t, n)] \in 1 .. Len(b)
    BY <1>6, <1>8, <2>2, <2>3, <2>4, <2>6
  <2>8. i < Place(t, n)
    <3>1. \A x, y \in 1 .. Len(t) : x < y => pos[x] < pos[y]
      BY <1>5 DEF FilterInv
    <3>2. CASE i = Place(t, n)
      BY <1>6, <2>4, <2>7, <3>2
    <3>3. CASE Place(t, n) < i
      <4>1. pos[Place(t, n)] < pos[i]
        BY <2>3, <3>1, <3>3
      <4> QED BY <1>6, <2>4, <2>7, <4>1
    <3> QED BY <2>3, <3>2, <3>3
  <2> QED BY <2>3, <2>5, <2>8
<1> QED BY <1>6, <1>7, <1>8 DEF KeepsOrder, t
-----------------------------------------------------------------------------
\* A list backwards.
LEMMA ReverseOf ==
  ASSUME NEW S, NEW p \in Seq(S)
  PROVE  /\ Reverse(p) \in Seq(S) /\ Len(Reverse(p)) = Len(p)
         /\ \A i \in 1 .. Len(p) : Reverse(p)[i] = p[(Len(p) - i) + 1]
<1>1. \A i \in 1 .. Len(p) : (Len(p) - i) + 1 \in 1 .. Len(p)
  OBVIOUS
<1>2. \A i \in 1 .. Len(p) : p[(Len(p) - i) + 1] \in S
  BY <1>1
<1> QED BY <1>2 DEF Reverse

\* TopoSort as the iteration of one visit.
SortVisit(b, out, m) == out \o Reverse(Walk(b, m, ToSet(out)).path)

IsSortFold(b, g) ==
    g = [s \in SUBSET DOMAIN b |-> IF s = {} THEN <<>>
                                   ELSE SortVisit(b, g[s \ {Max(s)}], b[Max(s)])]

\* The recursive function FoldLeft chooses.
LEMMA SortFoldDef ==
  ASSUME NEW b
  PROVE  TopoSort(b) = (CHOOSE g : IsSortFold(b, g))[DOMAIN b]
BY DEF TopoSort, FoldLeft, MapThenFoldSet, IsSortFold, SortVisit

\* The visits, one after the other.
LEMMA SortVisits ==
  ASSUME NEW S, NEW b \in Seq(S), NoMutation \notin S
  PROVE  \E at : /\ at[0] = <<>>
                 /\ \A k \in Nat : k + 1 <= Len(b) => at[k + 1] = SortVisit(b, at[k], b[k + 1])
                 /\ TopoSort(b) = at[Len(b)]
<1> DEFINE M == ToSet(b)
           X == Seq(M)
           F == [x \in X |-> [m \in M |-> SortVisit(b, x, m)]]
<1>1. \A x \in X, m \in M : SortVisit(b, x, m) \in X
  <2>1. ASSUME NEW x \in X, NEW m \in M PROVE SortVisit(b, x, m) \in X
    <3> DEFINE w == Walk(b, m, ToSet(x))
    <3>1. w.path \in Seq(M)
      BY WalkEnds DEF WalkInv
    <3> HIDE DEF w, M
    <3>2. Reverse(w.path) \in Seq(M)
      BY <3>1, ReverseOf
    <3> QED BY <3>2 DEF SortVisit, w
  <2> QED BY <2>1
<1>2. F \in [X -> [M -> X]] /\ <<>> \in X
  BY <1>1
<1>3. PICK n \in Nat : n = Len(b) /\ DOMAIN b = 1 .. n
  OBVIOUS
<1>4. \A i \in 1 .. n : b[i] \in M
  BY <1>3 DEF ToSet
<1>5. PICK f : IsFold(X, <<>>, F, b, n, f)
  <2> HIDE DEF X, F, M
  <2> QED BY <1>2, <1>4, FoldExists
<1>6. IsSortFold(b, f)
  <2> HIDE DEF X, M
  <2>1. \A s \in SUBSET (1 .. n) : f[s] \in X
    BY <1>5 DEF IsFold
  <2>2. \A s \in SUBSET (1 .. n) : s # {} => Max(s) \in s
    <3>1. \A s \in SUBSET (1 .. n) : s \subseteq 0 .. n
      OBVIOUS
    <3> QED BY <3>1, MaxOf
  <2>3. ASSUME NEW s \in SUBSET (1 .. n), s # {}
        PROVE  f[s] = SortVisit(b, f[s \ {Max(s)}], b[Max(s)])
    <3>1. f[s] = F[f[s \ {Max(s)}]][b[Max(s)]]
      BY <1>5, <2>3 DEF IsFold
    <3>2. f[s \ {Max(s)}] \in X /\ b[Max(s)] \in M
      <4>1. s \ {Max(s)} \in SUBSET (1 .. n)
        OBVIOUS
      <4> QED BY <1>4, <2>1, <2>2, <2>3, <4>1
    <3> QED BY <3>1, <3>2
  <2>4. f[{}] = <<>> /\ f = [s \in SUBSET (1 .. n) |-> f[s]]
    BY <1>5 DEF IsFold
  <2> HIDE DEF F
  <2>5. \A s \in SUBSET (1 .. n) : f[s] = IF s = {} THEN <<>>
                                          ELSE SortVisit(b, f[s \ {Max(s)}], b[Max(s)])
    BY <2>3, <2>4
  <2> QED BY <1>3, <2>4, <2>5 DEF IsSortFold
<1> DEFINE g == CHOOSE g : IsSortFold(b, g)
           at == [k \in 0 .. n |-> g[1 .. k]]
<1>7. IsSortFold(b, g)
  BY <1>6
<1> HIDE DEF g
<1>8. /\ g[{}] = <<>>
      /\ \A s \in SUBSET (1 .. n) : s # {} => g[s] = SortVisit(b, g[s \ {Max(s)}], b[Max(s)])
  BY <1>3, <1>7 DEF IsSortFold
<1>9. at[0] = <<>>
  <2>1. 1 .. 0 = {} /\ 0 \in 0 .. n
    OBVIOUS
  <2> QED BY <1>8, <2>1
<1>10. ASSUME NEW k \in Nat, k + 1 <= Len(b) PROVE at[k + 1] = SortVisit(b, at[k], b[k + 1])
  <2> HIDE DEF at, X, F, M
  <2>1. k \in 0 .. n /\ k + 1 \in 0 .. n /\ k + 1 \in 1 .. k + 1
    BY <1>3, <1>10
  <2>2. \A i \in 1 .. k + 1 : i \in 1 .. n
    BY <1>3, <1>10
  <2>3. 1 .. k + 1 \in SUBSET (1 .. n) /\ 1 .. k + 1 # {}
    BY <2>1, <2>2
  <2>4. g[1 .. k + 1] = SortVisit(b, g[1 .. k], b[k + 1])
    BY <1>8, <2>3, FoldPrefix
  <2> QED BY <2>1, <2>4 DEF at
<1>11. TopoSort(b) = at[Len(b)]
  <2>1. TopoSort(b) = g[DOMAIN b]
    BY SortFoldDef DEF g
  <2> QED BY <1>3, <2>1
<1> HIDE DEF at
<1> QED BY <1>9, <1>10, <1>11

\* No parent chain of the list comes back to itself.
NoLoops(b) ==
    \A p \in Seq(ToSet(b)) :
        p # <<>> /\ IsInjective(p) /\ (\A i \in 1 .. Len(p) - 1 : p[i + 1] = ParentIn(b, p[i]))
            => ParentIn(b, p[Len(p)]) \notin ToSet(p)

\* What the first k visits of topoSort have emitted: each of them once, edits
\* of an entity in order, and parents first when there are no loops.
SortInv(b, k, out) ==
    /\ out \in Seq(ToSet(b)) /\ IsInjective(out)
    /\ \A i \in 1 .. k : b[i] \in ToSet(out)
    /\ \A j \in 1 .. Len(out), m \in ToSet(b) :
          SameEntity(m, out[j]) /\ Place(b, m) < Place(b, out[j]) => \E i \in 1 .. j - 1 : out[i] = m
    /\ NoLoops(b) => \A j \in 1 .. Len(out) :
          ParentIn(b, out[j]) = NoMutation \/ \E i \in 1 .. j - 1 : out[i] = ParentIn(b, out[j])

\* One more visit keeps it.
LEMMA SortVisitInv ==
  ASSUME NEW S, NEW b \in Seq(S), NoMutation \notin S, NEW k \in Nat, k + 1 <= Len(b), NEW out,
         SortInv(b, k, out)
  PROVE  SortInv(b, k + 1, SortVisit(b, out, b[k + 1]))
<1> DEFINE m == b[k + 1]
           seen == ToSet(out)
           w == Walk(b, m, seen)
           p == w.path
           l == Len(p)
           r == Reverse(p)
           o == Len(out)
           new == out \o r
<1>1. k + 1 \in 1 .. Len(b) /\ m \in ToSet(b) /\ \A i \in 1 .. k + 1 : i = k + 1 \/ i \in 1 .. k
  BY DEF ToSet
<1>2. WalkInv(b, m, seen, Len(b), w) /\ w.cur \in {NoMutation} \cup seen \cup ToSet(p)
  BY <1>1, WalkEnds
<1>3. SortVisit(b, out, m) = new
  BY DEF SortVisit
<1> HIDE DEF w, m
<1>4. /\ p \in Seq(ToSet(b)) /\ IsInjective(p) /\ l \in Nat /\ \A i \in 1 .. l : p[i] \in ToSet(p)
      /\ \A i \in 1 .. l : p[i] \notin seen
  <2>1. p \in Seq(ToSet(b)) /\ IsInjective(p) /\ ToSet(p) \cap seen = {}
    BY <1>2 DEF WalkInv
  <2> HIDE DEF p, seen
  <2>2. l \in Nat /\ \A i \in 1 .. l : p[i] \in ToSet(p)
    BY <2>1 DEF ToSet
  <2> QED BY <2>1, <2>2
<1>5. /\ out \in Seq(ToSet(b)) /\ IsInjective(out) /\ o \in Nat
      /\ \A i \in 1 .. o : out[i] \in seen
  BY DEF SortInv, ToSet
<1> HIDE DEF p
<1>6. r \in Seq(ToSet(b)) /\ Len(r) = l /\ \A i \in 1 .. l : r[i] = p[(l - i) + 1]
  BY <1>4, ReverseOf
<1> HIDE DEF r
<1>7. /\ new \in Seq(ToSet(b)) /\ Len(new) = o + l
      /\ \A i \in 1 .. o : new[i] = out[i]
      /\ \A c \in 1 .. l : new[(o + l - c) + 1] = p[c]
  <2>1. /\ new \in Seq(ToSet(b)) /\ Len(new) = o + l
        /\ \A i \in 1 .. o + l : new[i] = IF i <= o THEN out[i] ELSE r[i - o]
    <3>1. \A A : \A x, y \in Seq(A) : /\ x \o y \in Seq(A) /\ Len(x \o y) = Len(x) + Len(y)
                                      /\ \A i \in 1 .. Len(x) + Len(y) :
                                           (x \o y)[i] = IF i <= Len(x) THEN x[i] ELSE y[i - Len(x)]
      BY ConcatProperties
    <3> HIDE DEF l, seen
    <3>2. out \in Seq(ToSet(b)) /\ r \in Seq(ToSet(b)) /\ Len(r) = l
      BY <1>5, <1>6
    <3> QED BY <3>1, <3>2
  <2> HIDE DEF new, seen
  <2>2. \A i \in 1 .. o : new[i] = out[i]
    BY <1>4, <1>5, <2>1
  <2>3. ASSUME NEW c \in 1 .. l PROVE new[(o + l - c) + 1] = p[c]
    <3> DEFINE i == (o + l - c) + 1
    <3>1. i \in 1 .. o + l /\ ~(i <= o) /\ i - o \in 1 .. l /\ (l - (i - o)) + 1 = c
      BY <1>4, <1>5
    <3> HIDE DEF i
    <3>2. new[i] = r[i - o] /\ r[i - o] = p[c]
      BY <1>6, <2>1, <3>1
    <3> QED BY <3>2 DEF i
  <2> QED BY <2>1, <2>2, <2>3
<1> HIDE DEF new
<1>8. \A j \in 1 .. o + l : j \in 1 .. o \/ \E c \in 1 .. l : j = (o + l - c) + 1
  <2>1. ASSUME NEW j \in 1 .. o + l, j \notin 1 .. o PROVE \E c \in 1 .. l : j = (o + l - c) + 1
    <3>1. (o + l - j) + 1 \in 1 .. l /\ j = (o + l - ((o + l - j) + 1)) + 1
      BY <1>4, <1>5, <2>1
    <3> QED BY <3>1
  <2> QED BY <2>1
<1>9. ToSet(new) = seen \cup ToSet(p)
  <2>1. DOMAIN new = 1 .. o + l /\ DOMAIN out = 1 .. o /\ DOMAIN p = 1 .. l
    BY <1>4, <1>5, <1>7
  <2>2. \A c \in 1 .. l : (o + l - c) + 1 \in 1 .. o + l
    BY <1>4, <1>5
  <2>3. \A i \in 1 .. o : i \in 1 .. o + l
    BY <1>4, <1>5
  <2>4. ASSUME NEW x \in ToSet(new) PROVE x \in seen \cup ToSet(p)
    <3>1. PICK j \in 1 .. o + l : x = new[j]
      BY <2>1 DEF ToSet
    <3> HIDE DEF o, l, seen
    <3> QED BY <1>4, <1>5, <1>7, <1>8, <3>1
  <2>5. ASSUME NEW x \in seen PROVE x \in ToSet(new)
    <3>1. PICK j \in 1 .. o : x = out[j]
      BY <2>1, <2>5 DEF ToSet
    <3> HIDE DEF o, l
    <3> QED BY <1>7, <2>1, <2>3, <3>1 DEF ToSet
  <2>6. ASSUME NEW x \in ToSet(p) PROVE x \in ToSet(new)
    <3>1. PICK c \in 1 .. l : x = p[c]
      BY <2>1, <2>6 DEF ToSet
    <3> HIDE DEF o, l
    <3> QED BY <1>7, <2>1, <2>2, <3>1 DEF ToSet
  <2> QED BY <2>4, <2>5, <2>6
<1>10. IsInjective(new)
  <2>1. ASSUME NEW i \in 1 .. o + l, NEW j \in 1 .. o + l, new[i] = new[j] PROVE i = j
    <3>1. CASE i \in 1 .. o /\ j \in 1 .. o
      BY <1>5, <1>7, <2>1, <3>1 DEF IsInjective
    <3>2. CASE i \in 1 .. o /\ j \notin 1 .. o
      <4>1. PICK d \in 1 .. l : j = (o + l - d) + 1
        BY <1>8, <3>2
      <4>2. new[i] \in seen /\ new[j] \notin seen
        <5> HIDE DEF seen, o, l
        <5> QED BY <1>4, <1>5, <1>7, <3>2, <4>1
      <4> QED BY <2>1, <4>2
    <3>3. CASE i \notin 1 .. o /\ j \in 1 .. o
      <4>1. PICK d \in 1 .. l : i = (o + l - d) + 1
        BY <1>8, <3>3
      <4>2. new[j] \in seen /\ new[i] \notin seen
        <5> HIDE DEF seen, o, l
        <5> QED BY <1>4, <1>5, <1>7, <3>3, <4>1
      <4> QED BY <2>1, <4>2
    <3>4. CASE i \notin 1 .. o /\ j \notin 1 .. o
      <4>1. PICK c \in 1 .. l : i = (o + l - c) + 1
        BY <1>8, <3>4
      <4>2. PICK d \in 1 .. l : j = (o + l - d) + 1
        BY <1>8, <3>4
      <4>3. p[c] = p[d]
        BY <1>7, <2>1, <4>1, <4>2
      <4>4. c = d
        BY <1>4, <4>3 DEF IsInjective
      <4> QED BY <4>1, <4>2, <4>4
    <3> QED BY <3>1, <3>2, <3>3, <3>4
  <2>2. DOMAIN new = 1 .. o + l
    BY <1>7
  <2> QED BY <2>1, <2>2 DEF IsInjective
<1>11. m \in ToSet(new)
  <2>1. CASE p = <<>>
    <3>1. w.cur = m /\ ToSet(p) = {}
      BY <1>2, <2>1 DEF WalkInv, ToSet, p
    <3>2. m # NoMutation
      BY <1>1 DEF ToSet
    <3> QED BY <1>2, <1>9, <3>1, <3>2
  <2>2. CASE p # <<>>
    <3>1. p[1] = m
      BY <1>2, <2>2 DEF WalkInv, p
    <3>2. 1 \in 1 .. l
      BY <1>4, <2>2
    <3> QED BY <1>4, <1>9, <3>1, <3>2
  <2> QED BY <2>1, <2>2
<1>12. \A i \in 1 .. k + 1 : b[i] \in ToSet(new)
  <2>1. \A i \in 1 .. k : b[i] \in seen
    BY DEF SortInv
  <2> QED BY <1>1, <1>9, <1>11, <2>1 DEF m
<1>13. ASSUME NEW c \in 1 .. l
       PROVE  /\ c = 1 => p[c] = m
              /\ c > 1 => p[c] = ParentIn(b, p[c - 1])
              /\ ParentIn(b, p[c]) = IF c = l THEN w.cur ELSE p[c + 1]
  <2>1. p # <<>>
    BY <1>4
  <2>2. p[1] = m /\ w.cur = ParentIn(b, p[l])
    BY <1>2, <2>1 DEF WalkInv, p
  <2>3. \A i \in 1 .. l - 1 : p[i + 1] = ParentIn(b, p[i])
    BY <1>2 DEF WalkInv, p
  <2>4. c > 1 => c - 1 \in 1 .. l - 1 /\ (c - 1) + 1 = c
    BY <1>4
  <2>5. c # l => c \in 1 .. l - 1
    BY <1>4
  <2> QED BY <2>2, <2>3, <2>4, <2>5
<1>14. ASSUME NEW j \in 1 .. o + l, NEW x \in ToSet(b),
              SameEntity(x, new[j]), Place(b, x) < Place(b, new[j])
       PROVE  \E i \in 1 .. j - 1 : new[i] = x
  <2>1. CASE j \in 1 .. o
    <3>1. PICK i \in 1 .. j - 1 : out[i] = x
      <4>1. new[j] = out[j]
        BY <1>7, <2>1
      <4> QED BY <1>14, <2>1, <4>1 DEF SortInv
    <3>2. i \in 1 .. o
      BY <1>5, <2>1
    <3> QED BY <1>7, <3>1, <3>2
  <2>2. ASSUME NEW c \in 1 .. l, j = (o + l - c) + 1 PROVE \E i \in 1 .. j - 1 : new[i] = x
    <3>1. new[j] = p[c] /\ p[c] \in ToSet(b)
      BY <1>4, <1>7, <2>2
    <3>2. Place(b, x) \in 1 .. Len(b) /\ b[Place(b, x)] = x
      BY PlaceOf
    <3>3. CASE c = 1
      <4>1. p[c] = b[k + 1]
        BY <1>13, <3>3 DEF m
      <4>2. Place(b, p[c]) \in 1 .. Len(b) /\ Place(b, p[c]) <= k + 1
        BY <1>1, <3>1, <4>1, PlaceOf
      <4>3. Place(b, x) \in 1 .. k
        BY <1>14, <3>1, <3>2, <4>2
      <4>4. x \in seen
        BY <3>2, <4>3 DEF SortInv
      <4>5. PICK i \in 1 .. o : out[i] = x
        BY <1>5, <4>4 DEF ToSet
      <4>6. i \in 1 .. j - 1
        BY <1>4, <1>5, <2>2
      <4> QED BY <1>7, <4>5, <4>6
    <3>4. CASE c # 1
      <4>1. p[c] = ByGuuid(b, p[c - 1].parent)
        BY <1>13, <3>4 DEF ParentIn
      <4>2. p[c] # NoMutation
        BY <3>1 DEF ToSet
      <4>3. x.guuid = p[c].guuid
        BY <1>14, <3>1 DEF SameEntity
      <4>4. Place(b, p[c]) <= Place(b, x)
        <5> DEFINE g == p[c - 1].parent
        <5>1. ByGuuid(b, g) # NoMutation =>
                \A z \in ToSet(b) : z.guuid = g => Place(b, ByGuuid(b, g)) <= Place(b, z)
          BY ByGuuidFirst
        <5>2. ByGuuid(b, g) # NoMutation => ByGuuid(b, g).guuid = g
          BY ByGuuidFirst
        <5> HIDE DEF g
        <5> QED BY <4>1, <4>2, <4>3, <5>1, <5>2 DEF g
      <4>5. Place(b, p[c]) \in 1 .. Len(b)
        BY <3>1, PlaceOf
      <4> QED BY <1>14, <3>1, <3>2, <4>4, <4>5
    <3> QED BY <3>3, <3>4
  <2> QED BY <1>8, <2>1, <2>2
<1>15. ASSUME NoLoops(b), NEW j \in 1 .. o + l
       PROVE  ParentIn(b, new[j]) = NoMutation \/ \E i \in 1 .. j - 1 : new[i] = ParentIn(b, new[j])
  <2>1. CASE j \in 1 .. o
    <3>1. new[j] = out[j] /\ \A i \in 1 .. j - 1 : i \in 1 .. o /\ new[i] = out[i]
      BY <1>5, <1>7, <2>1
    <3>2. ParentIn(b, out[j]) = NoMutation \/ \E i \in 1 .. j - 1 : out[i] = ParentIn(b, out[j])
      BY <1>15, <2>1 DEF SortInv
    <3> QED BY <3>1, <3>2
  <2>2. ASSUME NEW c \in 1 .. l, j = (o + l - c) + 1
        PROVE  ParentIn(b, new[j]) = NoMutation \/ \E i \in 1 .. j - 1 : new[i] = ParentIn(b, new[j])
    <3>1. new[j] = p[c]
      BY <1>7, <2>2
    <3>2. CASE c = l
      <4>1. ParentIn(b, p[l]) = w.cur
        BY <1>13, <3>2
      <4>2. p # <<>>
        BY <1>4
      <4>3. \A i \in 1 .. Len(p) - 1 : p[i + 1] = ParentIn(b, p[i])
        BY <1>2 DEF WalkInv, p
      <4>4. w.cur \notin ToSet(p)
        BY <1>4, <1>15, <4>1, <4>2, <4>3 DEF NoLoops
      <4>5. CASE w.cur \in seen
        <5>1. PICK i \in 1 .. o : out[i] = w.cur
          BY <1>5, <4>5 DEF ToSet
        <5>2. i \in 1 .. j - 1
          BY <1>4, <1>5, <2>2
        <5> QED BY <1>7, <3>1, <3>2, <4>1, <5>1, <5>2
      <4> QED BY <1>2, <3>1, <3>2, <4>1, <4>4, <4>5
    <3>3. CASE c # l
      <4>1. ParentIn(b, p[c]) = p[c + 1] /\ c + 1 \in 1 .. l
        BY <1>4, <1>13, <3>3
      <4>2. (o + l - (c + 1)) + 1 = j - 1 /\ j - 1 \in 1 .. j - 1
        BY <1>4, <1>5, <2>2, <4>1
      <4>3. new[j - 1] = p[c + 1]
        BY <1>7, <4>1, <4>2
      <4> QED BY <3>1, <4>1, <4>2, <4>3
    <3> QED BY <3>2, <3>3
  <2> QED BY <1>8, <2>1, <2>2
<1>16. SortInv(b, k + 1, new)
  <2>1. Len(new) = o + l /\ new \in Seq(ToSet(b))
    BY <1>7
  <2> HIDE DEF o, l
  <2> QED BY <1>10, <1>12, <1>14, <1>15, <2>1 DEF SortInv
<1> QED BY <1>3, <1>16 DEF m

\* What topoSort returns.
LEMMA Sorted ==
  ASSUME NEW S, NEW b \in Seq(S), NoMutation \notin S
  PROVE  SortInv(b, Len(b), TopoSort(b)) /\ ToSet(TopoSort(b)) = ToSet(b) /\ KeepsOrder(b, TopoSort(b))
<1>1. PICK at : /\ at[0] = <<>>
                /\ \A k \in Nat : k + 1 <= Len(b) => at[k + 1] = SortVisit(b, at[k], b[k + 1])
                /\ TopoSort(b) = at[Len(b)]
  BY SortVisits
<1> DEFINE T == {k \in Nat : k <= Len(b) => SortInv(b, k, at[k])}
<1>2. 0 \in T
  <2>1. SortInv(b, 0, <<>>)
    BY DEF SortInv, IsInjective
  <2> QED BY <1>1, <2>1
<1>3. ASSUME NEW k \in T, k \in Nat PROVE k + 1 \in T
  <2>1. ASSUME k + 1 <= Len(b) PROVE SortInv(b, k + 1, at[k + 1])
    <3>1. k <= Len(b)
      BY <1>3, <2>1
    <3> QED BY <1>1, <1>3, <2>1, <3>1, SortVisitInv
  <2> QED BY <1>3, <2>1
<1>4. Len(b) \in T
  <2> HIDE DEF T
  <2> QED BY <1>2, <1>3, NatInd
<1> DEFINE t == TopoSort(b)
<1>5. SortInv(b, Len(b), t)
  BY <1>1, <1>4
<1> HIDE DEF t, T
<1>6. t \in Seq(ToSet(b)) /\ IsInjective(t)
  BY <1>5 DEF SortInv
<1>7. ToSet(t) = ToSet(b)
  <2>1. \A i \in 1 .. Len(b) : b[i] \in ToSet(t)
    BY <1>5 DEF SortInv
  <2>2. ToSet(b) \subseteq ToSet(t)
    BY <2>1 DEF ToSet
  <2>3. ToSet(t) \subseteq ToSet(b)
    BY <1>6 DEF ToSet
  <2> QED BY <2>2, <2>3
<1>8. ASSUME NEW m \in ToSet(t), NEW n \in ToSet(t), SameEntity(m, n), Place(b, m) < Place(b, n)
      PROVE  Place(t, m) < Place(t, n)
  <2>1. PICK j \in 1 .. Len(t) : t[j] = n
    BY <1>6 DEF ToSet
  <2>2. PICK i \in 1 .. j - 1 : t[i] = m
    BY <1>5, <1>7, <1>8, <2>1 DEF SortInv
  <2>3. i \in 1 .. Len(t) /\ i < j
    BY <1>6, <2>1
  <2>4. Place(t, m) = i /\ Place(t, n) = j
    BY <1>6, <2>1, <2>2, <2>3, PlaceInPath
  <2> QED BY <2>3, <2>4
<1> QED BY <1>5, <1>7, <1>8 DEF KeepsOrder, t
-----------------------------------------------------------------------------
\* The positions whose wave the wave of position i has to exceed.
EarlierEdits(s, i) == {j \in 1 .. i - 1 : s[j].guuid = s[i].guuid /\ s[i].guuid # NoGuuid}

Above(s, i) ==
    {j \in 1 .. Len(s) : s[j] = ParentIn(s, s[i]) /\ j # i}
        \cup (IF EarlierEdits(s, i) = {} THEN {} ELSE {Max(EarlierEdits(s, i))})

WaveOf(wave, i, j) == IF j < i THEN wave[j] ELSE 0

WaveAt(s, wave, i) == Max({0} \cup {WaveOf(wave, i, j) + 1 : j \in Above(s, i)})

IsWaves(s, n, wave) == wave = [i \in 1 .. n |-> WaveAt(s, wave, i)]

\* ComputeWaves chooses a function that satisfies IsWaves.
LEMMA WavesDef ==
  ASSUME NEW s
  PROVE  ComputeWaves(s) = CHOOSE wave : IsWaves(s, Len(s), wave)
BY DEF ComputeWaves, IsWaves, WaveAt, WaveOf, Above, EarlierEdits

\* The last earlier edit of the same entity is an earlier position.
LEMMA LastEdit ==
  ASSUME NEW S, NEW s \in Seq(S), NEW i \in 1 .. Len(s)
  PROVE  /\ EarlierEdits(s, i) # {} =>
              /\ Max(EarlierEdits(s, i)) \in EarlierEdits(s, i)
              /\ Max(EarlierEdits(s, i)) \in Above(s, i)
              /\ \A j \in EarlierEdits(s, i) : j <= Max(EarlierEdits(s, i))
         /\ Above(s, i) \subseteq 1 .. Len(s)
<1>1. EarlierEdits(s, i) \subseteq 0 .. i - 1 /\ EarlierEdits(s, i) \subseteq 1 .. Len(s) /\ i - 1 \in Nat
  BY DEF EarlierEdits
<1>2. EarlierEdits(s, i) # {} => /\ Max(EarlierEdits(s, i)) \in EarlierEdits(s, i)
                                 /\ \A j \in EarlierEdits(s, i) : j <= Max(EarlierEdits(s, i))
  BY <1>1, MaxOf
<1> QED BY <1>1, <1>2 DEF Above

\* The wave of a position from the waves of the positions before it.
LEMMA WaveAtFacts ==
  ASSUME NEW S, NEW s \in Seq(S), NEW i \in 1 .. Len(s), NEW wave,
         \A j \in 1 .. i - 1 : wave[j] \in 0 .. j
  PROVE  /\ WaveAt(s, wave, i) \in 0 .. i
         /\ \A j \in Above(s, i) : WaveOf(wave, i, j) + 1 <= WaveAt(s, wave, i)
         /\ WaveAt(s, wave, i) = 0 \/ \E j \in Above(s, i) : WaveAt(s, wave, i) = WaveOf(wave, i, j) + 1
<1> DEFINE A == Above(s, i)
           W(j) == WaveOf(wave, i, j) + 1
           R == {0} \cup {W(j) : j \in A}
<1>1. A \subseteq 1 .. Len(s)
  BY LastEdit
<1>2. \A j \in A : W(j) \in 0 .. i
  <2>1. ASSUME NEW j \in 1 .. Len(s) PROVE W(j) \in 0 .. i
    <3>1. CASE j < i
      <4>1. j \in 1 .. i - 1
        BY <3>1
      <4>2. wave[j] \in 0 .. j
        BY <4>1
      <4> QED BY <3>1, <4>2 DEF WaveOf
    <3>2. CASE ~(j < i)
      BY <3>2 DEF WaveOf
    <3> QED BY <3>1, <3>2
  <2> QED BY <1>1, <2>1
<1> HIDE DEF A, W
<1>3. R \subseteq 0 .. i /\ R # {} /\ i \in Nat
  BY <1>2
<1>4. WaveAt(s, wave, i) = Max(R)
  BY DEF WaveAt, A, W
<1>5. Max(R) \in R /\ \A y \in R : y <= Max(R)
  <2> HIDE DEF R
  <2> QED BY <1>3, MaxOf
<1>6. Max(R) \in 0 .. i
  <2> HIDE DEF R
  <2> QED BY <1>3, <1>5
<1>7. \A j \in A : W(j) <= Max(R)
  BY <1>5
<1>8. Max(R) = 0 \/ \E j \in A : Max(R) = W(j)
  BY <1>5
<1> HIDE DEF R
<1> QED BY <1>4, <1>6, <1>7, <1>8 DEF A, W

\* Only the waves of earlier positions count.
LEMMA WaveAtSame ==
  ASSUME NEW S, NEW s \in Seq(S), NEW i \in 1 .. Len(s), NEW g, NEW h,
         \A j \in 1 .. i - 1 : g[j] = h[j]
  PROVE  WaveAt(s, g, i) = WaveAt(s, h, i)
<1>1. \A j \in Above(s, i) : WaveOf(g, i, j) = WaveOf(h, i, j)
  <2>1. \A j \in 1 .. Len(s) : j < i => j \in 1 .. i - 1
    OBVIOUS
  <2>2. Above(s, i) \subseteq 1 .. Len(s)
    BY LastEdit
  <2> QED BY <2>1, <2>2 DEF WaveOf
<1>2. {WaveOf(g, i, j) + 1 : j \in Above(s, i)} = {WaveOf(h, i, j) + 1 : j \in Above(s, i)}
  BY <1>1
<1> QED BY <1>2 DEF WaveAt

\* There are waves for every prefix of the list.
LEMMA WavesExist ==
  ASSUME NEW S, NEW s \in Seq(S)
  PROVE  \E wave : IsWaves(s, Len(s), wave)
<1> DEFINE T == {n \in Nat : n <= Len(s) => \E g : IsWaves(s, n, g)}
<1>1. 0 \in T
  <2> DEFINE g == [i \in 1 .. 0 |-> 0]
  <2>1. 1 .. 0 = {}
    OBVIOUS
  <2>2. g = [i \in 1 .. 0 |-> WaveAt(s, g, i)]
    BY <2>1
  <2> HIDE DEF g
  <2> QED BY <2>2 DEF IsWaves
<1>2. ASSUME NEW n \in T, n \in Nat PROVE n + 1 \in T
  <2>1. ASSUME n + 1 <= Len(s) PROVE \E g : IsWaves(s, n + 1, g)
    <3>1. PICK g : IsWaves(s, n, g)
      BY <1>2, <2>1
    <3> DEFINE h == [i \in 1 .. n + 1 |-> IF i = n + 1 THEN WaveAt(s, g, n + 1) ELSE g[i]]
    <3>2. \A j \in 1 .. n : h[j] = g[j]
      BY <1>2
    <3>3. h[n + 1] = WaveAt(s, g, n + 1) /\ h = [i \in 1 .. n + 1 |-> h[i]]
      BY <1>2
    <3> HIDE DEF h
    <3>4. ASSUME NEW i \in 1 .. n + 1 PROVE h[i] = WaveAt(s, h, i)
      <4>1. i \in 1 .. Len(s) /\ \A j \in 1 .. i - 1 : j \in 1 .. n
        BY <1>2, <2>1
      <4>2. \A j \in 1 .. i - 1 : h[j] = g[j]
        BY <3>2, <4>1
      <4>3. WaveAt(s, h, i) = WaveAt(s, g, i)
        BY <4>1, <4>2, WaveAtSame
      <4>4. CASE i = n + 1
        BY <3>3, <4>3, <4>4
      <4>5. CASE i # n + 1
        <5>1. i \in 1 .. n
          BY <1>2, <4>5
        <5>2. g[i] = WaveAt(s, g, i)
          BY <3>1, <5>1 DEF IsWaves
        <5> QED BY <3>2, <4>3, <5>1, <5>2
      <4> QED BY <4>4, <4>5
    <3>5. IsWaves(s, n + 1, h)
      BY <3>3, <3>4 DEF IsWaves
    <3> QED BY <3>5
  <2> QED BY <1>2, <2>1
<1>3. Len(s) \in T
  <2> HIDE DEF T
  <2> QED BY <1>1, <1>2, NatInd
<1> QED BY <1>3

\* What computeWaves returns: numbers, each more than the waves that have to
\* come before, and one more than one of them unless it is zero.
LEMMA WaveFacts ==
  ASSUME NEW S, NEW s \in Seq(S), NEW wave, wave = ComputeWaves(s)
  PROVE  /\ DOMAIN wave = 1 .. Len(s)
         /\ \A i \in 1 .. Len(s) :
              /\ wave[i] \in Nat
              /\ \A j \in Above(s, i) : WaveOf(wave, i, j) + 1 <= wave[i]
              /\ wave[i] = 0 \/ \E j \in Above(s, i) : wave[i] = WaveOf(wave, i, j) + 1
<1>1. IsWaves(s, Len(s), wave)
  BY WavesDef, WavesExist
<1>2. DOMAIN wave = 1 .. Len(s) /\ \A i \in 1 .. Len(s) : wave[i] = WaveAt(s, wave, i)
  BY <1>1 DEF IsWaves
<1> DEFINE T == {n \in Nat : \A j \in 1 .. n : j <= Len(s) => wave[j] \in 0 .. j}
<1>3. 0 \in T
  OBVIOUS
<1>4. ASSUME NEW n \in T, n \in Nat PROVE n + 1 \in T
  <2>1. ASSUME n + 1 <= Len(s) PROVE wave[n + 1] \in 0 .. n + 1
    <3>1. n + 1 \in 1 .. Len(s) /\ \A j \in 1 .. (n + 1) - 1 : wave[j] \in 0 .. j
      BY <1>4, <2>1
    <3> QED BY <1>2, <3>1, WaveAtFacts
  <2>2. \A j \in 1 .. n + 1 : j = n + 1 \/ j \in 1 .. n
    OBVIOUS
  <2> QED BY <1>4, <2>1, <2>2
<1>5. Len(s) \in T
  <2> HIDE DEF T
  <2> QED BY <1>3, <1>4, NatInd
<1>6. \A i \in 1 .. Len(s) : wave[i] \in 0 .. i
  BY <1>5
<1>7. ASSUME NEW i \in 1 .. Len(s)
      PROVE  /\ wave[i] \in Nat
             /\ \A j \in Above(s, i) : WaveOf(wave, i, j) + 1 <= wave[i]
             /\ wave[i] = 0 \/ \E j \in Above(s, i) : wave[i] = WaveOf(wave, i, j) + 1
  <2>1. \A j \in 1 .. i - 1 : wave[j] \in 0 .. j
    BY <1>6
  <2>2. wave[i] = WaveAt(s, wave, i) /\ wave[i] \in 0 .. i
    BY <1>2, <1>6
  <2>3. /\ \A j \in Above(s, i) : WaveOf(wave, i, j) + 1 <= WaveAt(s, wave, i)
        /\ WaveAt(s, wave, i) = 0 \/ \E j \in Above(s, i) : WaveAt(s, wave, i) = WaveOf(wave, i, j) + 1
    BY <2>1, WaveAtFacts
  <2> QED BY <2>2, <2>3
<1> QED BY <1>2, <1>7

\* Edits of one entity are in waves of their order in the list.
LEMMA EntityWaves ==
  ASSUME NEW S, NEW s \in Seq(S), NEW wave, wave = ComputeWaves(s),
         NEW i \in 1 .. Len(s), NEW j \in 1 .. Len(s), i < j, SameEntity(s[i], s[j])
  PROVE  wave[i] < wave[j]
<1> DEFINE T == {n \in Nat : \A y \in 1 .. n : y <= Len(s) =>
                   \A x \in 1 .. y - 1 : SameEntity(s[x], s[y]) => wave[x] < wave[y]}
<1>1. 0 \in T
  OBVIOUS
<1>2. ASSUME NEW n \in T, n \in Nat PROVE n + 1 \in T
  <2> DEFINE y == n + 1
  <2>1. ASSUME y <= Len(s), NEW x \in 1 .. y - 1, SameEntity(s[x], s[y])
        PROVE  wave[x] < wave[y]
    <3>1. y \in 1 .. Len(s) /\ x \in 1 .. Len(s) /\ x \in EarlierEdits(s, y)
      BY <1>2, <2>1 DEF SameEntity, EarlierEdits
    <3> DEFINE z == Max(EarlierEdits(s, y))
    <3>2. z \in EarlierEdits(s, y) /\ z \in Above(s, y) /\ x <= z
      BY <3>1, LastEdit
    <3>3. z \in 1 .. y - 1 /\ z \in 1 .. Len(s) /\ z \in 1 .. n /\ SameEntity(s[z], s[y])
      BY <1>2, <3>1, <3>2 DEF EarlierEdits, SameEntity
    <3> HIDE DEF z
    <3>4. wave[z] + 1 <= wave[y] /\ wave[z] \in Nat /\ wave[y] \in Nat /\ wave[x] \in Nat
      <4>1. WaveOf(wave, y, z) + 1 <= wave[y] /\ wave[z] \in Nat /\ wave[y] \in Nat /\ wave[x] \in Nat
        BY <3>1, <3>2, <3>3, WaveFacts
      <4>2. WaveOf(wave, y, z) = wave[z]
        BY <3>3 DEF WaveOf
      <4> QED BY <4>1, <4>2
    <3>5. CASE x = z
      BY <3>4, <3>5
    <3>6. CASE x # z
      <4>1. x \in 1 .. z - 1 /\ z <= Len(s)
        BY <3>1, <3>2, <3>3, <3>6
      <4>2. SameEntity(s[x], s[z])
        BY <2>1, <3>3 DEF SameEntity
      <4>3. wave[x] < wave[z]
        BY <1>2, <3>3, <4>1, <4>2
      <4> QED BY <3>4, <4>3
    <3> QED BY <3>5, <3>6
  <2>2. \A v \in 1 .. n + 1 : v = n + 1 \/ v \in 1 .. n
    BY <1>2
  <2> QED BY <1>2, <2>1, <2>2
<1>3. Len(s) \in T
  <2> HIDE DEF T
  <2> QED BY <1>1, <1>2, NatInd
<1> QED BY <1>3

\* With every parent at an earlier position, its wave is earlier and there is
\* no hole among the waves.
LEMMA ParentWaves ==
  ASSUME NEW S, NEW s \in Seq(S), NoMutation \notin S, IsInjective(s), NEW wave, wave = ComputeWaves(s),
         \A i \in 1 .. Len(s) : ParentIn(s, s[i]) = NoMutation
                                  \/ \E j \in 1 .. i - 1 : s[j] = ParentIn(s, s[i])
  PROVE  /\ ~Sparse(wave)
         /\ \A i, j \in 1 .. Len(s) : s[j] = ParentIn(s, s[i]) => wave[j] < wave[i]
<1>1. ASSUME NEW i \in 1 .. Len(s), NEW j \in 1 .. Len(s), s[j] = ParentIn(s, s[i]) PROVE j < i
  <2>1. s[j] # NoMutation
    OBVIOUS
  <2>2. PICK k \in 1 .. i - 1 : s[k] = ParentIn(s, s[i])
    BY <1>1, <2>1
  <2>3. k \in 1 .. Len(s) /\ k < i
    OBVIOUS
  <2>4. k = j
    BY <1>1, <2>2, <2>3 DEF IsInjective
  <2> QED BY <2>3, <2>4
<1>2. ASSUME NEW i \in 1 .. Len(s), NEW j \in 1 .. Len(s), s[j] = ParentIn(s, s[i])
      PROVE  wave[j] < wave[i]
  <2>1. j < i
    BY <1>1, <1>2
  <2>2. j \in Above(s, i)
    BY <1>2, <2>1 DEF Above
  <2>3. WaveOf(wave, i, j) + 1 <= wave[i] /\ wave[i] \in Nat /\ wave[j] \in Nat
    BY <2>2, WaveFacts
  <2> QED BY <2>1, <2>3 DEF WaveOf
<1>3. ASSUME NEW i \in 1 .. Len(s), wave[i] > 0
      PROVE  \E j \in 1 .. Len(s) : wave[j] = wave[i] - 1
  <2>1. wave[i] # 0 /\ wave[i] \in Nat
    BY <1>3, WaveFacts
  <2>2. PICK j \in Above(s, i) : wave[i] = WaveOf(wave, i, j) + 1
    BY <2>1, WaveFacts
  <2>3. j \in 1 .. Len(s) /\ j < i
    <3>1. j \in 1 .. Len(s)
      BY LastEdit
    <3>2. CASE s[j] = ParentIn(s, s[i])
      BY <1>1, <3>1, <3>2
    <3>3. CASE s[j] # ParentIn(s, s[i])
      <4>1. EarlierEdits(s, i) # {} /\ j = Max(EarlierEdits(s, i))
        BY <3>1, <3>3 DEF Above
      <4>2. j \in EarlierEdits(s, i)
        BY <4>1, LastEdit
      <4> QED BY <3>1, <4>2 DEF EarlierEdits
    <3> QED BY <3>1, <3>2, <3>3
  <2>4. wave[i] = wave[j] + 1 /\ wave[j] \in Nat
    BY <2>2, <2>3, WaveFacts DEF WaveOf
  <2> QED BY <2>3, <2>4
<1>4. DOMAIN wave = 1 .. Len(s)
  BY WaveFacts
<1> QED BY <1>2, <1>3, <1>4 DEF Sparse
-----------------------------------------------------------------------------
\* The order and the waves Dispatch gives a batch.
LEMMA DispatchFacts ==
  ASSUME NEW S, NEW b \in Seq(S), NoMutation \notin S, NEW d, d = Dispatch(b)
  PROVE  /\ d.cyclic = {m \in ToSet(b) : OnParentCycle(b, m)}
         /\ d.order \in Seq(ToSet(b)) /\ ToSet(d.order) = ToSet(b) \ d.cyclic
         /\ IsInjective(d.order) /\ KeepsOrder(b, d.order)
         /\ d.throws = Sparse(ComputeWaves(d.order)) /\ DOMAIN d.wave = ToSet(d.order)
         /\ \A i \in 1 .. Len(d.order) : d.wave[d.order[i]] = ComputeWaves(d.order)[i]
<1> DEFINE C == FindParentCycleMutationIds(b)
           t == WithoutCyclic(b, C)
           s == TopoSort(t)
           waves == ComputeWaves(s)
<1>1. C = {m \in ToSet(b) : OnParentCycle(b, m)}
  BY CyclesFound
<1>2. t \in Seq(ToSet(b)) /\ ToSet(t) = ToSet(b) \ C /\ KeepsOrder(b, t)
  BY Filtered
<1>a. d = [cyclic |-> C, order |-> s, throws |-> Sparse(waves),
           wave |-> [m \in ToSet(s) |-> waves[Place(s, m)]]]
  BY DEF Dispatch, Place
<1> HIDE DEF C, t
<1>3. t \in Seq(S)
  <2>1. ToSet(b) \subseteq S
    BY DEF ToSet
  <2> QED BY <1>2, <2>1
<1>4. SortInv(t, Len(t), s) /\ ToSet(s) = ToSet(t) /\ KeepsOrder(t, s)
  BY <1>3, Sorted
<1> HIDE DEF s
<1>5. s \in Seq(ToSet(t)) /\ IsInjective(s)
  BY <1>4 DEF SortInv
<1>6. s \in Seq(ToSet(b))
  BY <1>2, <1>5
<1>7. KeepsOrder(b, s)
  BY <1>2, <1>4 DEF KeepsOrder
<1> HIDE DEF waves
<1>8. \A i \in 1 .. Len(s) : s[i] \in ToSet(s) /\ Place(s, s[i]) = i
  BY <1>5, PlaceInPath
<1>9. \A i \in 1 .. Len(s) : d.wave[s[i]] = waves[i]
  BY <1>a, <1>8
<1> QED BY <1>1, <1>2, <1>4, <1>5, <1>6, <1>7, <1>9, <1>a DEF waves

\* When no mutation of an executed entity is on a cycle, every parent is at an
\* earlier position of the order.
LEMMA DispatchParents ==
  ASSUME NEW S, NEW b \in Seq(S), NoMutation \notin S, NEW d, d = Dispatch(b),
         \A c \in d.cyclic, m \in ToSet(d.order) : c.guuid # m.guuid
  PROVE  \A i \in 1 .. Len(d.order) :
            ParentIn(d.order, d.order[i]) = NoMutation
              \/ \E j \in 1 .. i - 1 : d.order[j] = ParentIn(d.order, d.order[i])
<1> DEFINE C == FindParentCycleMutationIds(b)
           t == WithoutCyclic(b, C)
           s == TopoSort(t)
<1>1. C = {m \in ToSet(b) : OnParentCycle(b, m)}
  BY CyclesFound
<1>2. t \in Seq(ToSet(b)) /\ ToSet(t) = ToSet(b) \ C /\ KeepsOrder(b, t)
  BY Filtered
<1>3. d.cyclic = C /\ d.order = s
  BY DEF Dispatch
<1> HIDE DEF C, t
<1>4. t \in Seq(S)
  <2>1. ToSet(b) \subseteq S
    BY DEF ToSet
  <2> QED BY <1>2, <2>1
<1>5. SortInv(t, Len(t), s) /\ ToSet(s) = ToSet(t) /\ KeepsOrder(t, s)
  BY <1>4, Sorted
<1> HIDE DEF s
<1>6. s \in Seq(ToSet(t)) /\ s \in Seq(S)
  <2>1. s \in Seq(ToSet(t)) /\ ToSet(t) \subseteq S
    BY <1>2, <1>5 DEF SortInv, ToSet
  <2> QED BY <2>1
<1>7. \A g : ByGuuid(s, g) = ByGuuid(t, g)
  BY <1>4, <1>5, <1>6, SameFirst
<1>8. ASSUME NEW m, ParentIn(t, m) # NoMutation PROVE ParentIn(b, m) = ParentIn(t, m)
  <2> DEFINE g == m.parent
             q == ByGuuid(t, g)
  <2>1. q # NoMutation
    BY <1>8 DEF ParentIn
  <2>2. q \in ToSet(t) /\ q.guuid = g
    BY <1>4, <2>1, ByGuuidFirst
  <2>3. \A c \in ToSet(b) \ ToSet(t) : c.guuid # g
    BY <1>2, <1>3, <1>5, <2>2
  <2>4. ToSet(t) \subseteq ToSet(b)
    BY <1>2
  <2> HIDE DEF q, g
  <2>5. ByGuuid(t, g) = ByGuuid(b, g)
    BY <1>2, <1>4, <2>3, <2>4, SameFirst
  <2> QED BY <2>5 DEF ParentIn, g
<1>9. NoLoops(t)
  <2>1. ASSUME NEW p \in Seq(ToSet(t)), p # <<>>, IsInjective(p),
               \A i \in 1 .. Len(p) - 1 : p[i + 1] = ParentIn(t, p[i]),
               ParentIn(t, p[Len(p)]) \in ToSet(p)
        PROVE  FALSE
    <3>1. p \in Seq(ToSet(b)) /\ Len(p) \in Nat /\ Len(p) > 0
      BY <1>2, <2>1
    <3>2. \A i \in 1 .. Len(p) : p[i] \in ToSet(t) /\ p[i] \in ToSet(p)
      BY DEF ToSet
    <3>3. \A m \in ToSet(t) : m # NoMutation
      BY <1>4 DEF ToSet
    <3>4. PICK q \in 1 .. Len(p) : p[q] = ParentIn(t, p[Len(p)])
      BY <2>1 DEF ToSet
    <3>5. \A i \in 1 .. Len(p) - 1 : p[i + 1] = ParentIn(b, p[i])
      <4>1. \A i \in 1 .. Len(p) - 1 : i + 1 \in 1 .. Len(p)
        BY <3>1
      <4> QED BY <1>8, <2>1, <3>2, <3>3, <4>1
    <3>6. ParentIn(b, p[Len(p)]) = p[q]
      BY <1>8, <3>2, <3>3, <3>4
    <3>7. q \in q .. Len(p)
      BY <3>1
    <3>8. OnParentCycle(b, p[q])
      BY <2>1, <3>1, <3>5, <3>6, <3>7, OnLoop
    <3> QED BY <1>1, <1>2, <3>2, <3>8
  <2> QED BY <2>1 DEF NoLoops
<1>10. \A i \in 1 .. Len(s) : ParentIn(t, s[i]) = NoMutation \/ \E j \in 1 .. i - 1 : s[j] = ParentIn(t, s[i])
  BY <1>5, <1>9 DEF SortInv
<1>11. \A m : ParentIn(s, m) = ParentIn(t, m)
  BY <1>7 DEF ParentIn
<1> QED BY <1>3, <1>10, <1>11

\* Waves are numbers, and grow along the edits of one entity.
LEMMA DispatchWaves ==
  ASSUME NEW S, NEW b \in Seq(S), NoMutation \notin S, NEW d, d = Dispatch(b)
  PROVE  /\ \A m \in ToSet(d.order) : d.wave[m] \in Nat
         /\ \A m, n \in ToSet(d.order) : Place(d.order, m) < Place(d.order, n) /\ SameEntity(m, n)
                                          => d.wave[m] < d.wave[n]
<1> DEFINE s == d.order
           waves == ComputeWaves(s)
<1>1. s \in Seq(ToSet(b)) /\ \A i \in 1 .. Len(s) : d.wave[s[i]] = waves[i]
  BY DispatchFacts
<1> HIDE DEF s
<1>2. \A m \in ToSet(s) : Place(s, m) \in 1 .. Len(s) /\ s[Place(s, m)] = m
  BY <1>1, PlaceOf
<1>3. \A i \in 1 .. Len(s) : waves[i] \in Nat
  BY <1>1, WaveFacts
<1>4. \A i, j \in 1 .. Len(s) : i < j /\ SameEntity(s[i], s[j]) => waves[i] < waves[j]
  BY <1>1, EntityWaves
<1> HIDE DEF waves
<1>5. \A m \in ToSet(s) : d.wave[m] = waves[Place(s, m)]
  BY <1>1, <1>2
<1> QED BY <1>2, <1>3, <1>4, <1>5 DEF s

\* Edits of one entity never share a wave.
LEMMA DispatchEdits ==
  ASSUME NEW S, NEW b \in Seq(S), NoMutation \notin S, NEW d, d = Dispatch(b),
         NEW m \in ToSet(d.order), NEW n \in ToSet(d.order), m # n, SameEntity(m, n)
  PROVE  d.wave[m] # d.wave[n]
<1>1. d.order \in Seq(ToSet(b))
  BY DispatchFacts
<1>2. Place(d.order, m) \in Nat /\ Place(d.order, n) \in Nat /\ Place(d.order, m) # Place(d.order, n)
  BY <1>1, PlaceOf, PlaceOnce
<1>3. d.wave[m] \in Nat /\ d.wave[n] \in Nat
  BY DispatchWaves
<1>4. SameEntity(n, m)
  BY DEF SameEntity
<1>5. CASE Place(d.order, m) < Place(d.order, n)
  BY <1>3, <1>5, DispatchWaves
<1>6. CASE Place(d.order, n) < Place(d.order, m)
  BY <1>3, <1>4, <1>6, DispatchWaves
<1> QED BY <1>2, <1>5, <1>6

\* The first edit of the parent entity is in an earlier wave than the child.
LEMMA DispatchFirstEdit ==
  ASSUME NEW S, NEW b \in Seq(S), NoMutation \notin S, NEW d, d = Dispatch(b),
         \A c \in d.cyclic, m \in ToSet(d.order) : c.guuid # m.guuid,
         NEW m \in ToSet(d.order), NEW p \in ToSet(d.order),
         p # m, m.parent = p.guuid, p.guuid # NoGuuid,
         \A q \in ToSet(d.order) : q.guuid = p.guuid => d.wave[p] <= d.wave[q]
  PROVE  d.wave[p] < d.wave[m]
<1> DEFINE s == d.order
           waves == ComputeWaves(s)
           x == ByGuuid(s, p.guuid)
<1>1. /\ s \in Seq(ToSet(b)) /\ IsInjective(s)
      /\ \A i \in 1 .. Len(s) : d.wave[s[i]] = waves[i]
  BY DispatchFacts
<1>2. ToSet(b) \subseteq S
  BY DEF ToSet
<1>3. s \in Seq(S)
  BY <1>1, <1>2
<1>4. \A i \in 1 .. Len(s) : ParentIn(s, s[i]) = NoMutation \/ \E j \in 1 .. i - 1 : s[j] = ParentIn(s, s[i])
  BY DispatchParents
<1> HIDE DEF s
<1>5. \A i, j \in 1 .. Len(s) : s[j] = ParentIn(s, s[i]) => waves[j] < waves[i]
  BY <1>1, <1>3, <1>4, ParentWaves
<1> HIDE DEF waves
<1>6. m \in ToSet(s) /\ p \in ToSet(s)
  BY DEF s
<1>7. x \in ToSet(s) /\ x.guuid = p.guuid /\ Place(s, x) <= Place(s, p)
  BY <1>3, <1>6, ByGuuidFirst
<1>8. ParentIn(s, m) = x
  BY DEF ParentIn
<1> HIDE DEF x
<1>9. x = p
  <2>1. SUFFICES ASSUME x # p PROVE FALSE
    OBVIOUS
  <2>2. Place(s, x) \in Nat /\ Place(s, p) \in Nat /\ Place(s, x) # Place(s, p)
    BY <1>3, <1>6, <1>7, <2>1, PlaceOf, PlaceOnce
  <2>3. d.wave[x] < d.wave[p]
    BY <1>6, <1>7, <2>2, DispatchWaves DEF s, SameEntity
  <2>4. d.wave[x] \in Nat /\ d.wave[p] \in Nat /\ d.wave[p] <= d.wave[x]
    BY <1>6, <1>7, DispatchWaves DEF s
  <2> QED BY <2>3, <2>4
<1>10. /\ Place(s, m) \in 1 .. Len(s) /\ s[Place(s, m)] = m
       /\ Place(s, p) \in 1 .. Len(s) /\ s[Place(s, p)] = p
  BY <1>1, <1>6, PlaceOf
<1>11. waves[Place(s, p)] < waves[Place(s, m)]
  BY <1>5, <1>8, <1>9, <1>10
<1> QED BY <1>1, <1>10, <1>11

\* The batch is a list of mutations.
BatchOK == batch \in Seq(Mutation)

\* It stays one.
LEMMA BatchIsSequence == BatchSpec => []BatchOK
<1>1. BatchInit => BatchOK
  BY DEF BatchInit, BatchOK
<1>2. ASSUME BatchOK, [BatchNext]_batchVars PROVE BatchOK'
  <2>1. CASE AddMutation
    <3>1. PICK g \in Entities \cup {NoGuuid}, p \in Entities \cup {NoGuuid} :
             batch' = Append(batch, [id |-> Len(batch) + 1, guuid |-> g, parent |-> p])
      BY <2>1 DEF AddMutation
    <3>2. [id |-> Len(batch) + 1, guuid |-> g, parent |-> p] \in Mutation
      BY <1>2 DEF BatchOK, Mutation
    <3> QED BY <1>2, <3>1, <3>2 DEF BatchOK
  <2>2. CASE RepeatMutation
    <3>1. ToSet(batch) \subseteq Mutation
      BY <1>2 DEF BatchOK, ToSet
    <3> QED BY <1>2, <2>2, <3>1 DEF RepeatMutation, BatchOK
  <2>3. CASE UNCHANGED batchVars
    BY <1>2, <2>3 DEF BatchOK, batchVars
  <2> QED BY <1>2, <2>1, <2>2, <2>3 DEF BatchNext
<1> QED BY <1>1, <1>2, PTL DEF BatchSpec

\* Whatever the batch, findParentCycleMutationIds returns exactly the mutations
\* on a cycle, and topoSort each of the others once.
THEOREM CyclesAreExact == BatchSpec => []CyclesExactly
<1>1. BatchOK => CyclesExactly
  <2> SUFFICES ASSUME BatchOK PROVE CyclesExactly
    OBVIOUS
  <2>1. batch \in Seq(Mutation) /\ NoMutation \notin Mutation
    BY BatchAssumption DEF BatchOK
  <2>2. /\ plan.cyclic = {m \in ToSet(batch) : OnParentCycle(batch, m)}
        /\ ToSet(plan.order) = ToSet(batch) \ plan.cyclic /\ IsInjective(plan.order)
    BY <2>1, DispatchFacts DEF plan
  <2> QED BY <2>2 DEF CyclesExactly
<1> QED BY <1>1, BatchIsSequence, PTL

\* Whatever the batch, when the cyclic mutations uncover no other of their
\* entity, a parent is in an earlier wave than its child and no wave is empty.
THEOREM ParentsRunFirst == BatchSpec => []ParentsInEarlierWave
<1>1. BatchOK => ParentsInEarlierWave
  <2> SUFFICES ASSUME BatchOK, SameLookup
               PROVE  ~plan.throws /\ \A m \in ToSet(plan.order) : ParentEarlier(m)
    BY DEF ParentsInEarlierWave
  <2>1. batch \in Seq(Mutation) /\ NoMutation \notin Mutation
    BY BatchAssumption DEF BatchOK
  <2> DEFINE s == plan.order
             waves == ComputeWaves(s)
  <2>2. /\ s \in Seq(ToSet(batch)) /\ IsInjective(s) /\ plan.throws = Sparse(waves)
        /\ \A i \in 1 .. Len(s) : plan.wave[s[i]] = waves[i]
    BY <2>1, DispatchFacts DEF plan
  <2>3. \A c \in plan.cyclic, m \in ToSet(s) : c.guuid # m.guuid
    BY DEF SameLookup
  <2>4. \A i \in 1 .. Len(s) : ParentIn(s, s[i]) = NoMutation \/ \E j \in 1 .. i - 1 : s[j] = ParentIn(s, s[i])
    BY <2>1, <2>3, DispatchParents DEF plan
  <2>5. s \in Seq(Mutation)
    <3>1. ToSet(batch) \subseteq Mutation
      BY <2>1 DEF ToSet
    <3> QED BY <2>2, <3>1
  <2> HIDE DEF s
  <2>6. ~Sparse(waves) /\ \A i, j \in 1 .. Len(s) : s[j] = ParentIn(s, s[i]) => waves[j] < waves[i]
    BY <2>1, <2>2, <2>4, <2>5, ParentWaves
  <2> HIDE DEF waves
  <2>7. ASSUME NEW m \in ToSet(s) PROVE ParentEarlier(m)
    <3>1. PICK i \in 1 .. Len(s) : s[i] = m
      BY <2>2 DEF ToSet
    <3>2. CASE ParentIn(s, m) = NoMutation
      BY <3>2 DEF ParentEarlier, s
    <3>3. CASE ParentIn(s, m) # NoMutation
      <4>1. PICK j \in 1 .. i - 1 : s[j] = ParentIn(s, m)
        BY <2>4, <3>1, <3>3
      <4>2. j \in 1 .. Len(s)
        OBVIOUS
      <4>3. plan.wave[ParentIn(s, m)] < plan.wave[m]
        BY <2>2, <2>6, <3>1, <4>1, <4>2
      <4> QED BY <4>3 DEF ParentEarlier, s
    <3> QED BY <3>2, <3>3
  <2> QED BY <2>2, <2>6, <2>7 DEF s
<1> QED BY <1>1, BatchIsSequence, PTL

\* Whatever the batch, edits of one entity are in waves of the client's order.
THEOREM EditsKeepOrder == BatchSpec => []EntityEditsInOrder
<1>1. BatchOK => EntityEditsInOrder
  <2> SUFFICES ASSUME BatchOK, NEW m \in ToSet(plan.order), NEW n \in ToSet(plan.order),
                      SameEntity(m, n), ClientOrder(m, n)
               PROVE  plan.wave[m] < plan.wave[n]
    BY DEF EntityEditsInOrder, SameEntity
  <2>1. batch \in Seq(Mutation) /\ NoMutation \notin Mutation
    BY BatchAssumption DEF BatchOK
  <2> DEFINE s == plan.order
             waves == ComputeWaves(s)
  <2>2. /\ s \in Seq(ToSet(batch)) /\ IsInjective(s) /\ KeepsOrder(batch, s)
        /\ \A i \in 1 .. Len(s) : plan.wave[s[i]] = waves[i]
    BY <2>1, DispatchFacts DEF plan
  <2>3. Place(batch, m) < Place(batch, n)
    BY DEF ClientOrder, Place
  <2>4. Place(s, m) < Place(s, n)
    BY <2>2, <2>3 DEF KeepsOrder
  <2> HIDE DEF s
  <2>5. m \in ToSet(s) /\ n \in ToSet(s)
    BY DEF s
  <2>6. /\ Place(s, m) \in 1 .. Len(s) /\ s[Place(s, m)] = m
        /\ Place(s, n) \in 1 .. Len(s) /\ s[Place(s, n)] = n
    BY <2>2, <2>5, PlaceOf
  <2>7. waves[Place(s, m)] < waves[Place(s, n)]
    BY <2>2, <2>4, <2>6, EntityWaves
  <2> QED BY <2>2, <2>6, <2>7
<1> QED BY <1>1, BatchIsSequence, PTL
-----------------------------------------------------------------------------
\* One processOne invocation.
Exec == [pc : Steps, out : Outcomes, dup : BOOLEAN, at : Nat]

\* Steps of processOne that only move exec[r][m]: no table changes.
LocalStep(r, m) ==
    \/ FindLive(r, m) \/ FindExpired(r, m) \/ FindNothing(r, m)
    \/ PreflightRejects(r, m) \/ PreflightRetryLater(r, m) \/ PreflightPasses(r, m)
    \/ HandlerApplies(r, m) \/ HandlerConflicts(r, m) \/ HandlerDuplicate(r, m)
    \/ HandlerRejects(r, m) \/ HandlerCrashes(r, m)
    \/ ClaimWins(r, m) \/ ClaimLoses(r, m)
    \/ RecheckFindsWinner(r, m) \/ RecheckFindsNone(r, m) \/ PollFindsWinner(r, m)

\* Goto keeps exec well typed.
LEMMA GotoType ==
  ASSUME TypeOK, NEW r \in Requests, NEW m \in Mutations,
         NEW pc \in Steps, NEW out \in Outcomes, Goto(r, m, pc, out)
  PROVE  exec' \in [Requests -> [Mutations -> Exec]]
BY DEF TypeOK, Goto, Exec

\* Answer keeps exec well typed.
LEMMA AnswerType ==
  ASSUME TypeOK, NEW r \in Requests, NEW m \in Mutations,
         NEW out \in Outcomes, NEW dup \in BOOLEAN, Answer(r, m, out, dup)
  PROVE  exec' \in [Requests -> [Mutations -> Exec]]
BY DEF TypeOK, Answer, Exec, Steps

\* A stored status is an outcome.
LEMMA StatusIsOutcome ==
  ASSUME TypeOK, NEW m \in Mutations
  PROVE  idem[m].status \in Outcomes
BY DEF TypeOK, Outcomes

\* Before the first call no verdict is stored and no call is open.
LEMMA InitInductive == Init => Inductive
<1> SUFFICES ASSUME Init PROVE Inductive
  OBVIOUS
<1>1. TypeOK
  BY MutationAssumption, RowAssumption
     DEF Init, TypeOK, NoRow, Absent, Entering, IdleCall, Steps, Outcomes, Row
<1>2. \A r \in Requests, m \in Mutations :
          exec[r][m] = [pc |-> "absent", out |-> "none", dup |-> FALSE, at |-> 0]
  BY DEF Init, Absent, Entering
<1>3. \A m \in Mutations : idem[m].status = "none" /\ effects[m] = 0
  BY DEF Init, NoRow
<1>4. WithinWindow /\ Exclusive /\ AppliedAnswerIsTrue
      /\ \A r \in Requests, m \in Mutations : Reliable(r, m)
  BY <1>2, <1>3 DEF WithinWindow, Exclusive, AppliedAnswerIsTrue, Reliable, Active,
                    At, LocksRow
<1>5. AppliedIffEffect /\ ConflictIsForever
  BY <1>3 DEF AppliedIffEffect, ConflictIsForever
<1>6. \A g \in Guuids : rows[g].alive => rows[g].version > 0
  BY RowAssumption DEF Init
<1> QED BY <1>1, <1>4, <1>5, <1>6 DEF Inductive

\* What the invariant says of one processOne.
Cell(r, m) ==
    /\ Active(r, m) =>
        /\ QueuedAt[m] <= call[r].now /\ call[r].now <= clock
        /\ call[r].now - QueuedAt[m] <= ReplayWindow
        /\ exec[r][m].pc \in {"handler", "claim", "commit"} => QueuedAt[m] <= exec[r][m].at
    /\ Reliable(r, m)
    /\ (At(r, m, "done") /\ exec[r][m].out = "applied") => effects[m] = 1

\* ... and of the tables.
Tables ==
    /\ \A g \in Guuids : rows[g].alive => rows[g].version > 0
    /\ \A m \in Mutations : idem[m].status # "none" => QueuedAt[m] <= idem[m].at
    /\ AppliedIffEffect /\ ConflictIsForever

\* The invariant, taken apart: the type, the tables, the locks, and one
\* condition per processOne.
LEMMA InductiveParts ==
  Inductive <=> /\ TypeOK /\ Tables /\ Exclusive
                /\ \A r \in Requests, m \in Mutations : Cell(r, m)
BY DEF Inductive, Tables, Cell, WithinWindow, AppliedAnswerIsTrue

\* Every processOne has a cell.
LEMMA CellTypes ==
  ASSUME TypeOK
  PROVE  exec \in [Requests -> [Mutations -> Exec]]
BY DEF TypeOK, Exec

\* A step that replaces one cell and leaves the tables and the calls alone
\* leaves every other cell as it was.
LEMMA OtherCells ==
  ASSUME TypeOK, NEW r \in Requests, NEW m \in Mutations, NEW e \in Exec,
         exec' = [exec EXCEPT ![r][m] = e]
  PROVE  /\ exec' \in [Requests -> [Mutations -> Exec]]
         /\ exec'[r][m] = e
         /\ \A s \in Requests, n \in Mutations : <<s, n>> # <<r, m>> => exec'[s][n] = exec[s][n]
BY DEF TypeOK, Exec

\* What a step of (r, m) that moves its own cell and leaves the idempotency
\* table and the entities alone owes: a cell that is itself reliable.
LEMMA LocalFrame ==
  ASSUME Inductive, NEW r \in Requests, NEW m \in Mutations, NEW e \in Exec,
         exec' = [exec EXCEPT ![r][m] = e],
         UNCHANGED <<clock, idem, rows, effects, call>>, failures' \in [Mutations -> Nat],
         Cell(r, m)', Exclusive'
  PROVE  Inductive'
<1>1. TypeOK'
  BY OtherCells DEF Inductive, TypeOK, Exec
<1>2. Tables'
  BY DEF Inductive, WithinWindow, Tables, AppliedIffEffect, ConflictIsForever, Outdated, Row_
<1>3. ASSUME NEW s \in Requests, NEW n \in Mutations PROVE Cell(s, n)'
  <2>1. CASE <<s, n>> = <<r, m>>
    BY <2>1
  <2>2. CASE <<s, n>> # <<r, m>>
    <3>1. exec'[s][n] = exec[s][n]
      BY <2>2, OtherCells DEF Inductive
    <3>2. Cell(s, n)
      BY InductiveParts
    <3> QED
      BY <3>1, <3>2 DEF Cell, Active, At, Reliable, Outdated, Changes, Row_
  <2> QED BY <2>1, <2>2
<1> QED
  BY <1>1, <1>2, <1>3 DEF Inductive, Tables, Cell, WithinWindow, AppliedAnswerIsTrue

\* A cell that takes neither a row lock nor a claim keeps both exclusive.
LEMMA ExclusiveFrame ==
  ASSUME TypeOK, Exclusive, NEW r \in Requests, NEW m \in Mutations, NEW e \in Exec,
         exec' = [exec EXCEPT ![r][m] = e], e.pc # "commit",
         e.pc # "claim" \/ e.out # "applied"
  PROVE  Exclusive'
<1>1. ~At(r, m, "commit")' /\ ~LocksRow(r, m)'
  <2>1. exec'[r][m] = e
    BY OtherCells, Zenon
  <2> QED BY <2>1 DEF At, LocksRow
<1>2. \A s \in Requests, n \in Mutations :
        /\ At(s, n, "commit")' => At(s, n, "commit")
        /\ LocksRow(s, n)' => LocksRow(s, n)
  BY <1>1, OtherCells DEF At, LocksRow
<1> QED BY <1>2 DEF Exclusive

\* The two steps that take a lock look first whether it is free.
LEMMA ExclusiveTaken ==
  ASSUME TypeOK, Exclusive, NEW r \in Requests, NEW m \in Mutations,
         HandlerApplies(r, m) \/ ClaimWins(r, m)
  PROVE  Exclusive'
<1>1. CASE HandlerApplies(r, m)
  <2>1. \A s \in Requests, n \in Mutations :
          <<s, n>> # <<r, m>> => exec'[s][n] = exec[s][n]
    BY <1>1 DEF HandlerApplies, Goto, TypeOK
  <2>2. exec'[r][m].pc = "claim"
    BY <1>1 DEF HandlerApplies, Goto, TypeOK
  <2>3. \A s \in Requests, n \in Mutations : At(s, n, "commit")' => At(s, n, "commit")
    BY <2>1, <2>2 DEF At
  <2>4. \A s \in Requests, n \in Mutations :
          (LocksRow(s, n)' /\ <<s, n>> # <<r, m>>) => (LocksRow(s, n) /\ GuuidOf[n] # GuuidOf[m])
    BY <1>1, <2>1 DEF HandlerApplies, RowFree, LocksRow
  <2> QED BY <2>3, <2>4 DEF Exclusive
<1>2. CASE ClaimWins(r, m)
  <2>1. \A s \in Requests, n \in Mutations :
          <<s, n>> # <<r, m>> => exec'[s][n] = exec[s][n]
    BY <1>2 DEF ClaimWins, Goto, TypeOK
  <2>2. exec'[r][m].out = exec[r][m].out /\ exec[r][m].pc = "claim"
    BY <1>2 DEF ClaimWins, Goto, TypeOK, At
  <2>3. \A s \in Requests, n \in Mutations : LocksRow(s, n)' => LocksRow(s, n)
    BY <2>1, <2>2 DEF LocksRow
  <2>4. \A s \in Requests : s # r => ~At(s, m, "commit")'
    BY <1>2, <2>1 DEF ClaimWins, ClaimFree, At
  <2>5. \A s \in Requests, n \in Mutations :
          n # m => (At(s, n, "commit")' => At(s, n, "commit"))
    BY <2>1 DEF At
  <2> QED BY <2>3, <2>4, <2>5 DEF Exclusive
<1> QED BY <1>1, <1>2

\* A row found expired is a conflict row: `applied' and `rejected' outlive
\* every replay (S-35).
LEMMA OnlyConflictsExpire ==
  ASSUME Inductive, NEW r \in Requests, NEW m \in Mutations, Active(r, m),
         idem[m].status # "none", ~IsLive(m, call[r].now)
  PROVE  idem[m].status = "conflict"
<1>1. /\ idem[m].at \in Nat /\ call[r].now \in Nat /\ QueuedAt[m] \in Nat
      /\ idem[m].status \in {"none", "applied", "rejected", "conflict"}
  BY MutationAssumption DEF Inductive, TypeOK
<1>2. QueuedAt[m] <= idem[m].at /\ call[r].now - QueuedAt[m] <= ReplayWindow
  BY DEF Inductive, WithinWindow
<1> QED BY <1>1, <1>2, BoundAssumption DEF IsLive

\* The steps that only move a processOne on: look-ups, preflight, handler,
\* claim, recheck and a successful poll (LocalStep).
LEMMA LocalPreserves ==
  ASSUME Inductive, NEW r \in Requests, NEW m \in Mutations, LocalStep(r, m)
  PROVE  Inductive'
<1> USE DEF Inductive
<1>a. /\ exec[r][m].at \in Nat /\ exec[r][m] \in Exec /\ clock \in Nat
      /\ idem[m].status \in {"none", "applied", "rejected", "conflict"}
      /\ failures \in [Mutations -> Nat]
  BY DEF TypeOK, Exec
<1>b. Cell(r, m)
  BY InductiveParts
<1>c. UNCHANGED <<clock, idem, failures, rows, effects, call>>
  BY DEF LocalStep, FindLive, FindExpired, FindNothing, PreflightRejects,
         PreflightRetryLater, PreflightPasses, HandlerApplies, HandlerConflicts,
         HandlerDuplicate, HandlerRejects, HandlerCrashes, ClaimWins, ClaimLoses,
         RecheckFindsWinner, RecheckFindsNone, PollFindsWinner
\* processOne ends: the answer is true if it is "applied".
<1>1. ASSUME NEW out \in Outcomes, NEW dup \in BOOLEAN, Answer(r, m, out, dup),
             out = "applied" => effects[m] = 1
      PROVE  Inductive'
  <2> DEFINE e == [pc |-> "done", out |-> out, dup |-> dup, at |-> 0]
  <2>1. e \in Exec /\ exec' = [exec EXCEPT ![r][m] = e]
    BY <1>1 DEF Answer, Exec, Steps
  <2>2. exec'[r][m] = e
    BY <2>1, OtherCells, ZenonT(60)
  <2>3. Cell(r, m)'
    BY <1>1, <1>c, <2>2 DEF Cell, Active, Reliable, At
  <2>4. Exclusive'
    BY <2>1, ExclusiveFrame
  <2> QED BY <1>a, <1>c, <2>1, <2>3, <2>4, LocalFrame
\* processOne goes on at a step that relies on nothing yet.
<1>2. ASSUME NEW pc \in {"preflight", "recheck", "record", "bump", "poll", "handler"},
             NEW out \in Outcomes, NEW at \in Nat, QueuedAt[m] <= at \/ pc # "handler",
             Active(r, m),
             exec' = [exec EXCEPT ![r][m] = [pc |-> pc, out |-> out, dup |-> FALSE, at |-> at]]
      PROVE  Inductive'
  <2> DEFINE e == [pc |-> pc, out |-> out, dup |-> FALSE, at |-> at]
  <2>1. e \in Exec /\ exec' = [exec EXCEPT ![r][m] = e]
    BY <1>2 DEF Exec, Steps
  <2>2. exec'[r][m] = e
    BY <2>1, OtherCells, ZenonT(60)
  <2>3. Cell(r, m)'
    BY <1>2, <1>b, <1>c, <2>2 DEF Cell, Active, Reliable, At, Outdated, Row_
  <2>4. Exclusive'
    BY <2>1, ExclusiveFrame
  <2> QED BY <1>a, <1>c, <2>1, <2>3, <2>4, LocalFrame
<1>3. CASE FindLive(r, m)
  <2>1. idem[m].status = "applied" => effects[m] = 1
    BY DEF AppliedIffEffect
  <2> QED BY <1>1, <1>3, <2>1, StatusIsOutcome DEF FindLive
<1>4. CASE FindExpired(r, m)
  <2>1. Active(r, m)
    BY <1>4 DEF FindExpired, Startable, At, Active
  <2>2. Outdated(m) /\ idem[m].status # "applied"
    BY <1>4, <2>1, OnlyConflictsExpire DEF FindExpired, ConflictIsForever
  <2> DEFINE e == [pc |-> "remove", out |-> "none", dup |-> FALSE, at |-> exec[r][m].at]
  <2>3. e \in Exec /\ exec' = [exec EXCEPT ![r][m] = e]
    BY <1>4, <1>a DEF FindExpired, Goto, Exec, Steps, Outcomes
  <2>4. exec'[r][m] = e
    BY <2>3, OtherCells, ZenonT(60)
  <2>5. Cell(r, m)'
    BY <1>b, <1>c, <2>1, <2>2, <2>4 DEF Cell, Active, Reliable, At, Outdated, Row_
  <2>6. Exclusive'
    BY <2>3, ExclusiveFrame
  <2> QED BY <1>a, <1>c, <2>3, <2>5, <2>6, LocalFrame
<1>5. CASE FindNothing(r, m)
  BY <1>2, <1>5, <1>a DEF FindNothing, Startable, Goto, At, Active, Outcomes
<1>6. CASE PreflightRejects(r, m)
  BY <1>2, <1>6, <1>a DEF PreflightRejects, Goto, At, Active, Outcomes
<1>7. CASE PreflightRetryLater(r, m)
  BY <1>1, <1>7 DEF PreflightRetryLater, Outcomes
<1>8. CASE PreflightPasses(r, m)
  <2>1. Active(r, m)
    BY <1>8 DEF PreflightPasses, At, Active
  <2>2. QueuedAt[m] <= clock
    BY <2>1, <1>b, MutationAssumption DEF Cell, TypeOK
  <2> QED BY <1>2, <1>8, <1>a, <2>1, <2>2 DEF PreflightPasses, Outcomes
<1>9. CASE HandlerApplies(r, m) \/ HandlerConflicts(r, m)
  <2> DEFINE out == IF HandlerApplies(r, m) THEN "applied" ELSE "conflict"
  <2> DEFINE e == [pc |-> "claim", out |-> out, dup |-> FALSE, at |-> exec[r][m].at]
  <2>1. Active(r, m) /\ At(r, m, "handler")
    BY <1>9 DEF HandlerApplies, HandlerConflicts, At, Active
  <2>2. e \in Exec /\ exec' = [exec EXCEPT ![r][m] = e]
    BY <1>9, <1>a DEF HandlerApplies, HandlerConflicts, Goto, Exec, Steps, Outcomes
  <2>3. exec'[r][m] = e
    BY <2>2, OtherCells, ZenonT(60)
  <2>4. out = "applied" => Changes(m)
    BY DEF HandlerApplies
  <2>5. out = "conflict" => Outdated(m)
    <3>1. ActionOf[m] = "update" => /\ ExpectedOf[m] \in Nat /\ Row_(m).version \in Nat
                                    /\ ExpectedOf[m] <= Row_(m).version
      BY <1>b, <2>1, MutationAssumption DEF Cell, Reliable, TypeOK, Row, Row_
    <3> QED BY <1>9, <3>1 DEF HandlerConflicts, Stale, Outdated
  <2>6. Changes(m)' = Changes(m) /\ Outdated(m)' = Outdated(m) /\ Row_(m)' = Row_(m)
    BY <1>c DEF Changes, Outdated, Row_
  <2>7. Cell(r, m)'
    BY <1>b, <1>c, <2>1, <2>3, <2>4, <2>5, <2>6 DEF Cell, Active, Reliable, At
  <2>8. Exclusive'
    BY <1>9, <2>2, ExclusiveFrame, ExclusiveTaken
  <2> QED BY <1>a, <1>c, <2>2, <2>7, <2>8, LocalFrame
<1>10. CASE HandlerDuplicate(r, m)
  BY <1>2, <1>10, <1>a DEF HandlerDuplicate, Goto, At, Active, Outcomes
<1>11. CASE HandlerRejects(r, m)
  BY <1>2, <1>11, <1>a DEF HandlerRejects, Goto, At, Active, Outcomes
<1>12. CASE HandlerCrashes(r, m)
  BY <1>2, <1>12, <1>a DEF HandlerCrashes, Goto, Active, Outcomes
<1>13. CASE ClaimWins(r, m)
  <2> DEFINE e == [pc |-> "commit", out |-> exec[r][m].out, dup |-> FALSE, at |-> exec[r][m].at]
  <2>1. At(r, m, "claim") /\ Active(r, m) /\ idem[m].status = "none"
    BY <1>13 DEF ClaimWins, At, Active
  <2>2. e \in Exec /\ exec' = [exec EXCEPT ![r][m] = e]
    BY <1>13, <1>a DEF ClaimWins, Goto, Exec, Steps
  <2>3. exec'[r][m] = e
    BY <2>2, OtherCells, ZenonT(60)
  <2>4. Changes(m)' = Changes(m) /\ Outdated(m)' = Outdated(m) /\ Row_(m)' = Row_(m)
    BY <1>c DEF Changes, Outdated, Row_
  <2>5. Cell(r, m)'
    BY <1>b, <1>c, <2>1, <2>3, <2>4 DEF Cell, Active, Reliable, At
  <2>6. Exclusive'
    BY <1>13, ExclusiveTaken
  <2> QED BY <1>a, <1>c, <2>2, <2>5, <2>6, LocalFrame
<1>14. CASE ClaimLoses(r, m)
  BY <1>2, <1>14, <1>a DEF ClaimLoses, Goto, At, Active, Outcomes
<1>15. CASE RecheckFindsWinner(r, m)
  <2>1. idem[m].status = "applied" => effects[m] = 1
    BY DEF AppliedIffEffect
  <2> QED BY <1>1, <1>15, <2>1, StatusIsOutcome DEF RecheckFindsWinner
<1>16. CASE RecheckFindsNone(r, m)
  BY <1>2, <1>16, <1>a DEF RecheckFindsNone, Goto, At, Active, Outcomes
<1>17. CASE PollFindsWinner(r, m)
  <2>1. idem[m].status = "applied" => effects[m] = 1
    BY DEF AppliedIffEffect
  <2> QED BY <1>1, <1>17, <2>1, StatusIsOutcome DEF PollFindsWinner
<1> QED
  BY <1>3, <1>4, <1>5, <1>6, <1>7, <1>8, <1>9, <1>10, <1>11, <1>12, <1>13, <1>14,
     <1>15, <1>16, <1>17 DEF LocalStep

\* What any step of (r, m) that writes the idempotency row or an entity owes
\* to the other cells: versions do not go back, nobody's locked row or claim
\* is touched, and no "applied" is written under a removal.
LEMMA TableFrame ==
  ASSUME Inductive, NEW r \in Requests, NEW m \in Mutations, NEW e \in Exec,
         exec' = [exec EXCEPT ![r][m] = e],
         UNCHANGED <<clock, failures, call>>,
         TypeOK', Tables', Cell(r, m)', Exclusive',
         \A n \in Mutations : n # m => idem'[n] = idem[n] /\ effects'[n] = effects[n],
         effects[m] = 1 => effects'[m] = 1,
         \A g \in Guuids : rows'[g].version >= rows[g].version,
         \A s \in Requests, n \in Mutations :
            (<<s, n>> # <<r, m>> /\ LocksRow(s, n)) => rows'[GuuidOf[n]] = rows[GuuidOf[n]],
         \A s \in Requests : (s # r /\ At(s, m, "commit")) => idem'[m].status = "none",
         \A s \in Requests : (s # r /\ At(s, m, "remove")) => idem'[m].status # "applied"
  PROVE  Inductive'
<1>1. ASSUME NEW s \in Requests, NEW n \in Mutations PROVE Cell(s, n)'
  <2>1. CASE <<s, n>> = <<r, m>>
    BY <2>1
  <2>2. CASE <<s, n>> # <<r, m>>
    <3>1. exec'[s][n] = exec[s][n]
      BY <2>2, OtherCells DEF Inductive
    <3>2. Cell(s, n)
      BY InductiveParts
    <3>3. /\ GuuidOf[n] \in Guuids /\ ExpectedOf[n] \in Nat
          /\ Row_(n).version \in Nat /\ Row_(n)'.version \in Nat
          /\ Row_(n)'.version >= Row_(n).version
      BY MutationAssumption DEF Row_, Inductive, TypeOK, Row
    <3>4. Outdated(n) => Outdated(n)'
      BY <3>3 DEF Outdated
    <3>5. LocksRow(s, n) /\ Changes(n) => Changes(n)'
      BY <2>2 DEF Changes, Row_
    <3>6. Reliable(s, n)'
      <4>1. (Active(s, n)' /\ ActionOf[n] = "update") => ExpectedOf[n] <= Row_(n)'.version
        BY <3>1, <3>2, <3>3 DEF Cell, Reliable, Active
      <4>2. At(s, n, "remove")' => Outdated(n)' /\ idem'[n].status # "applied"
        BY <2>2, <3>1, <3>2, <3>4 DEF Cell, Reliable, At
      <4>3. exec'[s][n].pc \in {"claim", "commit"} =>
                \/ exec'[s][n].out = "applied" /\ Changes(n)'
                \/ exec'[s][n].out = "conflict" /\ Outdated(n)'
        BY <3>1, <3>2, <3>4, <3>5 DEF Cell, Reliable, LocksRow
      <4>4. At(s, n, "commit")' => idem'[n].status = "none"
        BY <2>2, <3>1, <3>2 DEF Cell, Reliable, At
      <4> QED BY <4>1, <4>2, <4>3, <4>4 DEF Reliable, At
    <3> QED
      BY <3>1, <3>2, <3>6 DEF Cell, Active, At
  <2> QED BY <2>1, <2>2
<1> QED BY <1>1 DEF Inductive, Tables, Cell, WithinWindow, AppliedAnswerIsTrue

\* The unconditional delete of an expired row hits a conflict row, or one
\* another repetition has written since; never an `applied' one.
LEMMA RemovePreserves ==
  ASSUME Inductive, NEW r \in Requests, NEW m \in Mutations, RemoveExpired(r, m)
  PROVE  Inductive'
<1> USE DEF Inductive
<1> DEFINE e == [pc |-> "preflight", out |-> "none", dup |-> FALSE, at |-> exec[r][m].at]
<1>1. e \in Exec /\ exec' = [exec EXCEPT ![r][m] = e]
  BY DEF RemoveExpired, Goto, TypeOK, Exec, Steps, Outcomes
<1>2. exec' \in [Requests -> [Mutations -> Exec]] /\ exec'[r][m] = e
  BY <1>1, OtherCells, ZenonT(60)
<1>3. Cell(r, m) /\ At(r, m, "remove") /\ UNCHANGED <<clock, failures, rows, effects, call>>
  BY InductiveParts DEF RemoveExpired
<1>4. idem' = [idem EXCEPT ![m] = [status |-> "none", at |-> 0]]
  BY DEF RemoveExpired, NoRow
<1>5. TypeOK'
  BY <1>2, <1>3, <1>4 DEF TypeOK, Exec
<1>6. idem[m].status # "applied"
  BY <1>3 DEF Cell, Reliable
<1>7. Tables'
  <2>1. \A n \in Mutations : idem'[n].status # "none" => idem'[n] = idem[n]
    BY <1>4 DEF TypeOK
  <2>2. \A n \in Mutations : (idem'[n].status = "applied") <=> (idem[n].status = "applied")
    BY <1>4, <1>6 DEF TypeOK
  <2>3. AppliedIffEffect' /\ ConflictIsForever'
    BY <1>3, <2>1, <2>2 DEF AppliedIffEffect, ConflictIsForever, Outdated, Row_
  <2> QED BY <1>3, <2>1, <2>3 DEF Tables, WithinWindow
<1>8. Cell(r, m)'
  BY <1>2, <1>3 DEF Cell, Active, Reliable, At, Row_
<1>9. Exclusive'
  BY <1>1, ExclusiveFrame
<1>10. \A n \in Mutations : n # m => idem'[n] = idem[n]
  BY <1>4 DEF TypeOK
<1>11. idem'[m].status = "none"
  BY <1>4 DEF TypeOK
<1>12. \A g \in Guuids : rows'[g].version >= rows[g].version
  BY <1>3 DEF TypeOK, Row
<1> QED BY <1>1, <1>3, <1>5, <1>7, <1>8, <1>9, <1>10, <1>11, <1>12, TableFrame

\* terminalReject writes a `rejected' row only where there is none.
LEMMA RecordPreserves ==
  ASSUME Inductive, NEW r \in Requests, NEW m \in Mutations, Record(r, m)
  PROVE  Inductive'
<1> USE DEF Inductive
<1> DEFINE e == [pc |-> "done", out |-> "rejected", dup |-> FALSE, at |-> 0]
<1>1. e \in Exec /\ exec' = [exec EXCEPT ![r][m] = e]
  BY DEF Record, Answer, Exec, Steps, Outcomes
<1>2. exec' \in [Requests -> [Mutations -> Exec]] /\ exec'[r][m] = e
  BY <1>1, OtherCells, ZenonT(60)
<1>3. Cell(r, m) /\ At(r, m, "record") /\ UNCHANGED <<clock, failures, rows, effects, call>>
  BY InductiveParts DEF Record
<1>4. idem' = IF idem[m].status = "none"
              THEN [idem EXCEPT ![m] = [status |-> "rejected", at |-> clock]]
              ELSE idem
  BY DEF Record
<1>5. TypeOK'
  BY <1>2, <1>3, <1>4 DEF TypeOK, Exec
<1>6. QueuedAt[m] <= clock
  BY <1>3, MutationAssumption DEF Cell, Active, At, TypeOK
<1>7. Tables'
  <2>1. \A n \in Mutations : \/ idem'[n] = idem[n]
                             \/ /\ n = m /\ idem[m].status = "none"
                                /\ idem'[m] = [status |-> "rejected", at |-> clock]
    BY <1>4 DEF TypeOK
  <2>2. AppliedIffEffect' /\ ConflictIsForever'
    BY <1>3, <2>1 DEF AppliedIffEffect, ConflictIsForever, Outdated, Row_
  <2> QED BY <1>3, <1>6, <2>1, <2>2 DEF Tables, WithinWindow
<1>8. Cell(r, m)'
  BY <1>2, <1>3 DEF Cell, Active, Reliable, At
<1>9. Exclusive'
  BY <1>1, ExclusiveFrame
<1>10. \A n \in Mutations : n # m => idem'[n] = idem[n]
  BY <1>4 DEF TypeOK
<1>11. \A s \in Requests : ~At(s, m, "commit")
  BY DEF Record, ClaimFree
<1>12. \A s \in Requests : At(s, m, "remove") => idem'[m].status # "applied"
  <2>1. \A s \in Requests : At(s, m, "remove") => idem[m].status # "applied"
    BY DEF Reliable
  <2> QED BY <1>4, <2>1 DEF TypeOK
<1>13. \A g \in Guuids : rows'[g].version >= rows[g].version
  BY <1>3 DEF TypeOK, Row
<1> QED
  BY <1>1, <1>3, <1>5, <1>7, <1>8, <1>9, <1>10, <1>11, <1>12, <1>13, TableFrame

\* The row a business transaction writes is at least as new as the one it
\* found, and outdates the version an update quoted.
LEMMA WrittenGrows ==
  ASSUME TypeOK, NEW m \in Mutations
  PROVE  /\ Written(m) \in Row
         /\ Written(m).version >= Row_(m).version
         /\ Changes(m) /\ Written(m).alive => Written(m).version > 0
<1>1. Row_(m) \in Row /\ ExpectedOf[m] \in Nat
  BY MutationAssumption DEF TypeOK, Row_
<1> QED BY <1>1 DEF Written, Row, Changes

\* The business transaction commits: the only step that writes an entity, and
\* the one all the locks are for.
LEMMA CommitPreserves ==
  ASSUME Inductive, NEW r \in Requests, NEW m \in Mutations, Commit(r, m)
  PROVE  Inductive'
<1> USE DEF Inductive
<1> DEFINE out == exec[r][m].out
           e == [pc |-> "done", out |-> out, dup |-> FALSE, at |-> 0]
<1>1. e \in Exec /\ exec' = [exec EXCEPT ![r][m] = e]
  BY DEF Commit, Answer, Exec, Steps, TypeOK
<1>2. exec' \in [Requests -> [Mutations -> Exec]] /\ exec'[r][m] = e
  BY <1>1, OtherCells, ZenonT(60)
<1>3. Cell(r, m) /\ At(r, m, "commit") /\ UNCHANGED <<clock, failures, call>>
  BY InductiveParts DEF Commit
<1>4. idem[m].status = "none" /\ effects[m] = 0
  BY <1>3 DEF Cell, Reliable, AppliedIffEffect
<1>5. \/ out = "applied" /\ Changes(m)
      \/ out = "conflict" /\ Outdated(m)
  BY <1>3 DEF Cell, Reliable, At
<1>6. /\ idem' = [idem EXCEPT ![m] = [status |-> out, at |-> exec[r][m].at]]
      /\ exec[r][m].at \in Nat /\ QueuedAt[m] <= exec[r][m].at
  BY <1>3 DEF Commit, Cell, Active, At, TypeOK
<1>7. \/ /\ out = "applied"
         /\ rows' = [rows EXCEPT ![GuuidOf[m]] = Written(m)]
         /\ effects' = [effects EXCEPT ![m] = @ + 1]
      \/ out = "conflict" /\ UNCHANGED <<rows, effects>>
  BY <1>5 DEF Commit
<1>8. GuuidOf[m] \in Guuids /\ Row_(m) = rows[GuuidOf[m]]
  BY MutationAssumption DEF Row_
<1>9. /\ rows' \in [Guuids -> Row] /\ effects' \in [Mutations -> Nat]
      /\ \A g \in Guuids : rows'[g].version >= rows[g].version
      /\ \A g \in Guuids : rows'[g].alive => rows'[g].version > 0
  <2>1. CASE UNCHANGED <<rows, effects>>
    BY <2>1 DEF TypeOK, Row
  <2>2. CASE /\ out = "applied"
             /\ rows' = [rows EXCEPT ![GuuidOf[m]] = Written(m)]
             /\ effects' = [effects EXCEPT ![m] = @ + 1]
    <3>1. Changes(m)
      BY <1>5, <2>2
    <3>2. /\ Written(m) \in Row /\ Written(m).version >= rows[GuuidOf[m]].version
          /\ Written(m).alive => Written(m).version > 0
      BY <1>8, <3>1, WrittenGrows
    <3>3. \A g \in Guuids : rows'[g] = IF g = GuuidOf[m] THEN Written(m) ELSE rows[g]
      BY <2>2 DEF TypeOK
    <3>4. rows' \in [Guuids -> Row] /\ effects' \in [Mutations -> Nat]
      BY <1>8, <2>2, <3>2 DEF TypeOK
    <3>5. \A g \in Guuids : rows[g].version \in Nat
      BY DEF TypeOK, Row
    <3> QED BY <3>2, <3>3, <3>4, <3>5
  <2> QED BY <1>7, <2>1, <2>2
<1>10. TypeOK'
  BY <1>2, <1>3, <1>5, <1>6, <1>9 DEF TypeOK, Exec
<1>11. effects'[m] = (IF out = "applied" THEN 1 ELSE 0) /\ idem'[m].status = out
       /\ idem'[m].at = exec[r][m].at
  BY <1>4, <1>6, <1>7 DEF TypeOK
<1>12. \A n \in Mutations : n # m => idem'[n] = idem[n] /\ effects'[n] = effects[n]
  BY <1>6, <1>7 DEF TypeOK
<1>13. \A n \in Mutations : Outdated(n) => Outdated(n)'
  <2>1. ASSUME NEW n \in Mutations
        PROVE  /\ Row_(n).version \in Nat /\ Row_(n)'.version \in Nat /\ ExpectedOf[n] \in Nat
               /\ Row_(n)'.version >= Row_(n).version
    BY <1>9, MutationAssumption DEF TypeOK, Row, Row_
  <2> QED BY <2>1 DEF Outdated
<1>14. Tables'
  <2>1. AppliedIffEffect'
    BY <1>11, <1>12 DEF AppliedIffEffect
  <2>2. ConflictIsForever'
    BY <1>5, <1>11, <1>12, <1>13 DEF ConflictIsForever
  <2>3. \A n \in Mutations : idem'[n].status # "none" => QueuedAt[n] <= idem'[n].at
    BY <1>6, <1>11, <1>12 DEF WithinWindow
  <2> QED BY <1>9, <2>1, <2>2, <2>3 DEF Tables
<1>15. Cell(r, m)'
  BY <1>2, <1>11 DEF Cell, Active, Reliable, At
<1>16. Exclusive'
  BY <1>1, ExclusiveFrame
<1>17. \A s \in Requests, n \in Mutations :
          (<<s, n>> # <<r, m>> /\ LocksRow(s, n)) => rows'[GuuidOf[n]] = rows[GuuidOf[n]]
  <2> SUFFICES ASSUME NEW s \in Requests, NEW n \in Mutations,
                      <<s, n>> # <<r, m>>, LocksRow(s, n)
               PROVE  rows'[GuuidOf[n]] = rows[GuuidOf[n]]
    OBVIOUS
  <2>1. CASE out = "conflict"
    BY <1>7, <2>1
  <2>2. CASE out = "applied"
    <3>1. LocksRow(r, m)
      BY <1>3, <2>2 DEF LocksRow, At
    <3>2. GuuidOf[n] # GuuidOf[m]
      BY <3>1 DEF Exclusive
    <3> QED BY <1>7, <2>2, <3>2, MutationAssumption DEF TypeOK
  <2> QED BY <1>5, <2>1, <2>2
<1>18. \A s \in Requests : s # r => ~At(s, m, "commit")
  BY <1>3 DEF Exclusive
<1>19. \A s \in Requests : At(s, m, "remove") => idem'[m].status # "applied"
  <2> SUFFICES ASSUME NEW s \in Requests, At(s, m, "remove") PROVE out # "applied"
    BY <1>11
  <2>1. Outdated(m)
    BY DEF Reliable
  <2>2. ActionOf[m] = "update" /\ Row_(m).version # ExpectedOf[m]
    BY <2>1, MutationAssumption DEF Outdated, TypeOK, Row, Row_
  <2> QED BY <1>5, <2>2 DEF Changes
<1>20. effects[m] = 1 => effects'[m] = 1
  BY <1>4
<1>21. \A s \in Requests : (s # r /\ At(s, m, "commit")) => idem'[m].status = "none"
  BY <1>18
<1>22. \A s \in Requests : (s # r /\ At(s, m, "remove")) => idem'[m].status # "applied"
  BY <1>19
<1>23. \A g \in Guuids : rows'[g].version >= rows[g].version
  BY <1>9
<1>24. UNCHANGED <<clock, failures, call>>
  BY <1>3
<1> HIDE DEF e, Inductive
<1> QED
  BY <1>1, <1>10, <1>12, <1>14, <1>15, <1>16, <1>17, <1>20, <1>21, <1>22, <1>23,
     <1>24, TableFrame

\* Counting a crash touches no idempotency row and no entity.
LEMMA BumpPreserves ==
  ASSUME Inductive, NEW r \in Requests, NEW m \in Mutations, Bump(r, m)
  PROVE  Inductive'
<1> USE DEF Inductive
<1> DEFINE e == IF failures[m] + 1 >= PoisonMax
                THEN [pc |-> "record", out |-> "rejected", dup |-> FALSE, at |-> exec[r][m].at]
                ELSE [pc |-> "done", out |-> "uncached", dup |-> FALSE, at |-> 0]
<1>1. e \in Exec /\ exec' = [exec EXCEPT ![r][m] = e]
  BY DEF Bump, Goto, Answer, Exec, Steps, Outcomes, TypeOK
<1>2. exec'[r][m] = e
  BY <1>1, OtherCells, ZenonT(60)
<1>3. /\ Cell(r, m) /\ At(r, m, "bump") /\ UNCHANGED <<clock, idem, rows, effects, call>>
      /\ failures' \in [Mutations -> Nat]
  BY InductiveParts DEF Bump, TypeOK
<1>4. Cell(r, m)'
  BY <1>2, <1>3 DEF Cell, Active, Reliable, At, Row_
<1>5. Exclusive'
  BY <1>1, ExclusiveFrame
<1> QED BY <1>1, <1>3, <1>4, <1>5, LocalFrame

\* Giving up on a race winner ends the call and claims nothing.
LEMMA PollTimesOutPreserves ==
  ASSUME Inductive, NEW r \in Requests, NEW m \in Mutations, PollTimesOut(r, m)
  PROVE  Inductive'
<1> USE DEF Inductive
<1> DEFINE e == [pc |-> "done", out |-> "unavailable", dup |-> FALSE, at |-> 0]
<1>1. e \in Exec /\ exec' = [exec EXCEPT ![r][m] = e]
  BY DEF PollTimesOut, Answer, Exec, Steps, Outcomes
<1>2. exec' \in [Requests -> [Mutations -> Exec]] /\ exec'[r][m] = e
  BY <1>1, OtherCells, ZenonT(60)
<1>3. UNCHANGED <<clock, idem, failures, rows, effects>>
      /\ call' = [call EXCEPT ![r].phase = "aborted"]
  BY DEF PollTimesOut
<1>4. /\ DOMAIN call' = Requests
      /\ \A s \in Requests : /\ DOMAIN call'[s] = DOMAIN call[s]
                             /\ call'[s].phase \in {"idle", "running", "aborted"}
                             /\ call'[s].now = call[s].now
  BY <1>3 DEF TypeOK
<1>5. TypeOK'
  BY <1>2, <1>3, <1>4 DEF TypeOK, Exec
<1>6. Tables'
  BY <1>3 DEF Tables, WithinWindow, AppliedIffEffect, ConflictIsForever, Outdated, Row_
<1>7. Exclusive'
  BY <1>1, ExclusiveFrame
<1>8. ASSUME NEW s \in Requests, NEW n \in Mutations PROVE Cell(s, n)'
  <2>1. CASE <<s, n>> = <<r, m>>
    BY <1>2, <2>1 DEF Cell, Active, Reliable, At
  <2>2. CASE <<s, n>> # <<r, m>>
    <3>1. exec'[s][n] = exec[s][n]
      BY <1>1, <2>2, OtherCells
    <3>2. Cell(s, n)
      BY InductiveParts
    <3> QED
      BY <1>3, <1>4, <3>1, <3>2 DEF Cell, Active, At, Reliable, Outdated, Changes, Row_
  <2> QED BY <2>1, <2>2
<1> QED
  BY <1>5, <1>6, <1>7, <1>8 DEF Tables, Cell, WithinWindow, AppliedAnswerIsTrue

\* A call that arrives, ends or dies replaces its own cells and no table.
LEMMA CallFrame ==
  ASSUME Inductive, NEW r \in Requests, NEW c, NEW f \in [Mutations -> Exec],
         call' = [call EXCEPT ![r] = c], exec' = [exec EXCEPT ![r] = f],
         UNCHANGED <<clock, idem, failures, rows, effects>>,
         DOMAIN c = {"phase", "now", "gate", "wave", "cyclic"},
         c.phase \in {"idle", "running", "aborted"}, c.now \in Nat,
         \A m \in Mutations : f[m].pc \in {"absent", "wait", "done"} /\ f[m].out # "applied",
         \A m \in Mutations : f[m].pc = "wait" =>
            /\ QueuedAt[m] <= c.now /\ c.now <= clock /\ c.now - QueuedAt[m] <= ReplayWindow
            /\ ActionOf[m] = "update" => ExpectedOf[m] <= Row_(m).version
  PROVE  Inductive'
<1> USE DEF Inductive
<1>1. /\ exec' \in [Requests -> [Mutations -> Exec]] /\ exec'[r] = f
      /\ \A s \in Requests : s # r => exec'[s] = exec[s] /\ call'[s] = call[s]
      /\ call'[r] = c /\ DOMAIN call' = Requests
  BY DEF TypeOK, Exec
<1>2. TypeOK'
  BY <1>1 DEF TypeOK, Exec
<1>3. Tables'
  BY DEF Tables, WithinWindow, AppliedIffEffect, ConflictIsForever, Outdated, Row_
<1>4. \A s \in Requests, n \in Mutations :
        /\ At(s, n, "commit")' => At(s, n, "commit")
        /\ LocksRow(s, n)' => LocksRow(s, n)
  BY <1>1 DEF At, LocksRow
<1>5. Exclusive'
  BY <1>4 DEF Exclusive
<1>6. ASSUME NEW s \in Requests, NEW n \in Mutations PROVE Cell(s, n)'
  <2>1. CASE s = r
    BY <1>1, <2>1 DEF Cell, Active, Reliable, At, Row_
  <2>2. CASE s # r
    <3>1. exec'[s][n] = exec[s][n] /\ call'[s] = call[s]
      BY <1>1, <2>2
    <3>2. Cell(s, n)
      BY InductiveParts
    <3> QED
      BY <3>1, <3>2 DEF Cell, Active, At, Reliable, Outdated, Changes, Row_
  <2> QED BY <2>1, <2>2
<1> QED
  BY <1>2, <1>3, <1>5, <1>6 DEF Tables, Cell, WithinWindow, AppliedAnswerIsTrue

\* A batch that arrives holds no lock and lies within the replay window.
LEMMA ArrivePreserves ==
  ASSUME Inductive, NEW r \in Requests, NEW b \in Batches, NEW gate, Arrive(r, b, gate)
  PROVE  Inductive'
<1> DEFINE dispatch == Dispatch([i \in DOMAIN b |-> Wire(b[i])])
           run == {m \in ToSet(b) : Wire(m) \in DOMAIN dispatch.wave /\ ~dispatch.throws}
           cyc == {m \in ToSet(b) : Wire(m) \in dispatch.cyclic}
           c == [phase |-> IF dispatch.throws THEN "aborted" ELSE "running",
                 now |-> clock, gate |-> gate,
                 wave |-> [m \in run |-> dispatch.wave[Wire(m)]], cyclic |-> cyc]
           f == [m \in Mutations |-> IF m \in run THEN Entering("wait", "none")
                                     ELSE IF m \in cyc THEN Entering("done", "uncached")
                                     ELSE Absent]
<1>1. /\ call' = [call EXCEPT ![r] = c] /\ exec' = [exec EXCEPT ![r] = f]
      /\ UNCHANGED <<clock, idem, failures, rows, effects>>
  BY DEF Arrive
<1>2. \A m \in run : /\ QueuedAt[m] <= clock /\ clock - QueuedAt[m] <= ReplayWindow
                     /\ ActionOf[m] = "update" => ExpectedOf[m] <= Row_(m).version
  BY DEF Arrive, Row_
<1>3. f \in [Mutations -> Exec]
  BY DEF Entering, Absent, Exec, Steps, Outcomes
<1>4. \A m \in Mutations :
        /\ f[m].pc \in {"absent", "wait", "done"} /\ f[m].out # "applied"
        /\ f[m].pc = "wait" => m \in run
  BY DEF Entering, Absent
<1>5. clock \in Nat /\ clock <= clock
  BY DEF Inductive, TypeOK
<1>6. /\ DOMAIN c = {"phase", "now", "gate", "wave", "cyclic"}
      /\ c.phase \in {"idle", "running", "aborted"} /\ c.now = clock
  OBVIOUS
<1> HIDE DEF c, f, run
<1>7. /\ DOMAIN c = {"phase", "now", "gate", "wave", "cyclic"}
      /\ c.phase \in {"idle", "running", "aborted"} /\ c.now \in Nat
  BY <1>5, <1>6
<1>8. \A m \in Mutations : f[m].pc \in {"absent", "wait", "done"} /\ f[m].out # "applied"
  BY <1>4
<1>9. \A m \in Mutations : f[m].pc = "wait" =>
          /\ QueuedAt[m] <= c.now /\ c.now <= clock /\ c.now - QueuedAt[m] <= ReplayWindow
          /\ ActionOf[m] = "update" => ExpectedOf[m] <= Row_(m).version
  BY <1>2, <1>4, <1>5, <1>6
<1>10. call' = [call EXCEPT ![r] = c] /\ exec' = [exec EXCEPT ![r] = f]
  BY <1>1
<1>11. UNCHANGED <<clock, idem, failures, rows, effects>>
  BY <1>1
<1> QED BY ONLY Inductive, <1>3, <1>7, <1>8, <1>9, <1>10, <1>11, CallFrame

\* A call that answers gives its cells up.
LEMMA RespondPreserves ==
  ASSUME Inductive, NEW r \in Requests, Respond(r)
  PROVE  Inductive'
<1> DEFINE f == [m \in Mutations |-> Absent]
<1>1. /\ call' = [call EXCEPT ![r] = IdleCall] /\ exec' = [exec EXCEPT ![r] = f]
      /\ UNCHANGED <<clock, idem, failures, rows, effects>>
  BY DEF Respond
<1>2. f \in [Mutations -> Exec] /\ \A m \in Mutations : f[m].pc = "absent" /\ f[m].out = "none"
  BY DEF Entering, Absent, Exec, Steps, Outcomes
<1>3. /\ DOMAIN IdleCall = {"phase", "now", "gate", "wave", "cyclic"}
      /\ IdleCall.phase = "idle" /\ IdleCall.now = 0
  BY DEF IdleCall
<1>4. \A m \in Mutations : f[m].pc \in {"absent", "wait", "done"} /\ f[m].out # "applied"
  BY <1>2
<1>5. \A m \in Mutations : f[m].pc = "wait" => FALSE
  BY <1>2
<1>6. IdleCall.phase \in {"idle", "running", "aborted"} /\ IdleCall.now \in Nat
  BY <1>3
<1> HIDE DEF f
<1> QED BY ONLY Inductive, <1>1, <1>2, <1>3, <1>4, <1>5, <1>6, CallFrame

\* A dead process holds no lock; what was committed stays.
LEMMA ServerCrashPreserves == Inductive /\ ServerCrash => Inductive'
<1> SUFFICES ASSUME Inductive, ServerCrash PROVE Inductive'
  OBVIOUS
<1> USE DEF Inductive
<1>1. \A s \in Requests, n \in Mutations :
         /\ exec'[s][n] = [pc |-> "absent", out |-> "none", dup |-> FALSE, at |-> 0]
         /\ call'[s] = IdleCall
  BY DEF ServerCrash, Absent, Entering
<1>2. TypeOK'
  BY DEF ServerCrash, TypeOK, Absent, Entering, IdleCall, Steps, Outcomes
<1>3. Tables'
  BY DEF ServerCrash, Tables, WithinWindow, AppliedIffEffect, ConflictIsForever, Outdated, Row_
<1>4. \A s \in Requests, n \in Mutations : Cell(s, n)'
  BY <1>1 DEF Cell, Active, At, Reliable
<1>5. Exclusive'
  BY <1>1 DEF Exclusive, LocksRow, At
<1> QED
  BY <1>2, <1>3, <1>4, <1>5 DEF Tables, Cell, WithinWindow, AppliedAnswerIsTrue

\* Time only widens the distance between a row and the clock, and a call
\* compares rows with the clock it read when it began.
LEMMA TickPreserves == Inductive /\ Tick => Inductive'
<1> SUFFICES ASSUME Inductive, Tick PROVE Inductive'
  OBVIOUS
<1> USE DEF Inductive
<1>1. /\ clock \in Nat /\ clock' \in Nat /\ clock <= clock'
      /\ UNCHANGED <<idem, failures, rows, effects, call, exec>>
  BY DEF Tick, TypeOK
<1>2. TypeOK'
  BY <1>1 DEF TypeOK
<1>3. Tables'
  BY <1>1 DEF Tables, WithinWindow, AppliedIffEffect, ConflictIsForever, Outdated, Row_
<1>4. ASSUME NEW s \in Requests, NEW n \in Mutations PROVE Cell(s, n)'
  <2>1. Cell(s, n) /\ call[s].now \in Nat
    BY InductiveParts DEF TypeOK
  <2> QED BY <1>1, <2>1 DEF Cell, Active, At, Reliable, Outdated, Changes, Row_
<1>5. Exclusive'
  BY <1>1 DEF Exclusive, LocksRow, At
<1> QED
  BY <1>2, <1>3, <1>4, <1>5 DEF Tables, Cell, WithinWindow, AppliedAnswerIsTrue

\* Nothing changes when nothing happens.
LEMMA StutterPreserves == Inductive /\ UNCHANGED vars => Inductive'
BY DEF vars, Inductive, TypeOK, WithinWindow, Exclusive, AppliedIffEffect,
       ConflictIsForever, AppliedAnswerIsTrue, Outdated, Row_, Active, At, Reliable,
       Changes, LocksRow

\* Every step keeps the invariant.
LEMMA NextInductive == Inductive /\ [Next]_vars => Inductive'
<1> SUFFICES ASSUME Inductive, [Next]_vars PROVE Inductive'
  OBVIOUS
<1>1. ASSUME NEW r \in Requests, NEW b \in Batches, NEW gate, Arrive(r, b, gate)
      PROVE  Inductive'
  BY <1>1, ArrivePreserves
<1>2. ASSUME NEW r \in Requests, NEW m \in Mutations, ServerStep(r, m) \/ HandlerCrashes(r, m)
      PROVE  Inductive'
  <2>1. \/ LocalStep(r, m) \/ RemoveExpired(r, m) \/ Commit(r, m) \/ Record(r, m)
        \/ Bump(r, m) \/ PollTimesOut(r, m)
    BY <1>2 DEF ServerStep, LocalStep
  <2> QED
    BY <2>1, LocalPreserves, RemovePreserves, CommitPreserves, RecordPreserves,
       BumpPreserves, PollTimesOutPreserves
<1>3. ASSUME NEW r \in Requests, Respond(r) PROVE Inductive'
  BY <1>3, RespondPreserves
<1> QED
  BY <1>1, <1>2, <1>3, ServerCrashPreserves, TickPreserves, StutterPreserves DEF Next

\* The inductive invariant holds in every reachable state.
THEOREM InductiveHolds == Spec => []Inductive
BY InitInductive, NextInductive, PTL DEF Spec

\* Every variable keeps its type, whatever batches clients send.
THEOREM TypeCorrect == Spec => []TypeOK
<1>1. Inductive => TypeOK
  BY DEF Inductive
<1> QED BY <1>1, InductiveHolds, PTL

\* Section 10 of the sync design: the idempotency row says `applied' exactly
\* when the business write has committed, and it has committed once, however
\* many calls repeat the mutation and wherever a transaction or the process
\* dies (delta.service.ts execute, runHandlerInSavepoint, mapExecuteFailure).
THEOREM AppliedExactlyOnce == Spec => []AppliedIffEffect
<1>1. Inductive => AppliedIffEffect
  BY DEF Inductive
<1> QED BY <1>1, InductiveHolds, PTL

\* A conflict row that expires and is forgotten cannot turn into a write.
THEOREM ConflictStaysConflict == Spec => []ConflictIsForever
<1>1. Inductive => ConflictIsForever
  BY DEF Inductive
<1> QED BY <1>1, InductiveHolds, PTL

\* Whoever reads `applied' in a response, first hand or replayed, has its write.
THEOREM AppliedAnswersAreTrue == Spec => []AppliedAnswerIsTrue
<1>1. Inductive => AppliedAnswerIsTrue
  BY DEF Inductive
<1> QED BY <1>1, InductiveHolds, PTL

-----------------------------------------------------------------------------
\* What a committing business transaction relies on.
LEMMA CommitFacts ==
  ASSUME Inductive, NEW r \in Requests, NEW m \in Mutations, Commit(r, m)
  PROVE  /\ idem[m].status = "none" /\ GuuidOf[m] \in Guuids
         /\ idem' = [idem EXCEPT ![m] = [status |-> exec[r][m].out, at |-> exec[r][m].at]]
         /\ \/ /\ exec[r][m].out = "applied" /\ Changes(m)
               /\ rows' = [rows EXCEPT ![GuuidOf[m]] = Written(m)]
               /\ effects' = [effects EXCEPT ![m] = @ + 1]
            \/ exec[r][m].out = "conflict" /\ UNCHANGED <<rows, effects>>
<1>1. At(r, m, "commit") /\ Reliable(r, m)
  BY DEF Commit, Inductive
<1>2. \/ exec[r][m].out = "applied" /\ Changes(m)
      \/ exec[r][m].out = "conflict"
  BY <1>1 DEF Reliable, At
<1> QED BY <1>1, <1>2, MutationAssumption DEF Commit, Reliable

\* A step that writes neither an idempotency row nor an entity.
Silent == UNCHANGED <<idem, rows, effects>>

\* Only three steps write either of them.
LEMMA StepKinds ==
  ASSUME [Next]_vars
  PROVE  \/ Silent
         \/ \E r \in Requests, m \in Mutations :
                RemoveExpired(r, m) \/ Record(r, m) \/ Commit(r, m)
<1>1. CASE UNCHANGED vars
  BY <1>1 DEF vars, Silent
<1>2. ASSUME NEW r \in Requests, NEW b \in Batches, NEW gate, Arrive(r, b, gate)
      PROVE  Silent
  BY <1>2 DEF Arrive, Silent
<1>3. ASSUME NEW r \in Requests, NEW m \in Mutations, ServerStep(r, m) \/ HandlerCrashes(r, m),
             ~RemoveExpired(r, m), ~Record(r, m), ~Commit(r, m)
      PROVE  Silent
  BY <1>3 DEF ServerStep, Silent, FindLive, FindExpired, FindNothing, PreflightRejects,
         PreflightRetryLater, PreflightPasses, HandlerApplies, HandlerConflicts,
         HandlerDuplicate, HandlerRejects, HandlerCrashes, ClaimWins, ClaimLoses, Bump,
         RecheckFindsWinner, RecheckFindsNone, PollFindsWinner, PollTimesOut
<1>4. ASSUME NEW r \in Requests, Respond(r) PROVE Silent
  BY <1>4 DEF Respond, Silent
<1>5. ServerCrash \/ Tick => Silent
  BY DEF ServerCrash, Tick, Silent
<1> QED BY <1>1, <1>2, <1>3, <1>4, <1>5 DEF Next

\* No step takes back an `applied' verdict, lowers a row version or revives a
\* deleted row.
THEOREM AppliedStaysApplied == Spec => AppliedIsFinal
<1> DEFINE Final ==
      /\ \A m \in Mutations : idem[m].status = "applied" => idem'[m].status = "applied"
      /\ \A g \in Guuids : /\ rows'[g].version >= rows[g].version
                           /\ (rows[g].version > 0 /\ ~rows[g].alive) => ~rows'[g].alive
<1>1. Inductive /\ [Next]_vars => [Final]_vars
  <2> SUFFICES ASSUME Inductive, [Next]_vars PROVE Final
    OBVIOUS
  <2>1. TypeOK /\ \A g \in Guuids : rows[g].version \in Nat
    BY DEF Inductive, TypeOK, Row
  <2>2. CASE Silent
    BY <2>1, <2>2 DEF Silent
  <2>3. ASSUME NEW r \in Requests, NEW m \in Mutations, RemoveExpired(r, m) PROVE Final
    <3>1. idem[m].status # "applied"
      BY <2>3 DEF RemoveExpired, Inductive, Reliable
    <3> QED BY <2>1, <2>3, <3>1 DEF RemoveExpired, TypeOK
  <2>4. ASSUME NEW r \in Requests, NEW m \in Mutations, Record(r, m) PROVE Final
    BY <2>1, <2>4 DEF Record, TypeOK
  <2>5. ASSUME NEW r \in Requests, NEW m \in Mutations, Commit(r, m) PROVE Final
    <3>1. \A n \in Mutations : idem[n].status = "applied" => idem'[n].status = "applied"
      BY <2>1, <2>5, CommitFacts DEF TypeOK
    <3>2. CASE UNCHANGED rows
      BY <2>1, <3>1, <3>2
    <3>3. CASE Changes(m) /\ rows' = [rows EXCEPT ![GuuidOf[m]] = Written(m)]
      <4>1. Row_(m) = rows[GuuidOf[m]] /\ GuuidOf[m] \in Guuids
        BY <2>5, CommitFacts DEF Row_
      <4>2. Written(m).version >= rows[GuuidOf[m]].version
        BY <2>1, <3>3, <4>1, WrittenGrows
      <4>3. (Row_(m).version > 0 /\ ~Row_(m).alive) => ~Written(m).alive
        <5>1. (Row_(m).version > 0 /\ ~Row_(m).alive) => ActionOf[m] = "delete"
          BY <2>1, <3>3, <4>1 DEF Changes
        <5>2. ActionOf[m] = "delete" => ~Written(m).alive
          BY DEF Written
        <5> QED BY <5>1, <5>2
      <4>4. \A g \in Guuids : rows'[g] = IF g = GuuidOf[m] THEN Written(m) ELSE rows[g]
        BY <2>1, <3>3 DEF TypeOK
      <4> QED BY <2>1, <3>1, <4>1, <4>2, <4>3, <4>4
    <3> QED BY <2>5, <3>2, <3>3, CommitFacts
  <2> QED BY <2>2, <2>3, <2>4, <2>5, StepKinds
<1> QED BY <1>1, InductiveHolds, PTL DEF Spec, AppliedIsFinal

\* The pipeline implements the ledger: seen from the idempotency row and the
\* committed effects, each step of it is one ledger step or none.
THEOREM PipelineImplementsLedger == Spec => RefinesLedger
<1> DEFINE verdict == [m \in Mutations |-> idem[m].status]
<1>1. Init => Ledger!Init
  BY DEF Init, Ledger!Init, NoRow
<1>2. Inductive /\ [Next]_vars => [Ledger!Next]_(Ledger!ledgerVars)
  <2> SUFFICES ASSUME Inductive, [Next]_vars
               PROVE  Ledger!Next \/ UNCHANGED <<verdict, effects>>
    BY DEF Ledger!ledgerVars
  <2>1. TypeOK
    BY DEF Inductive
  <2>2. CASE Silent
    BY <2>2 DEF Silent
  <2>3. ASSUME NEW r \in Requests, NEW m \in Mutations, RemoveExpired(r, m)
        PROVE  Ledger!Next \/ UNCHANGED <<verdict, effects>>
    <3>1. idem[m].status # "applied" /\ UNCHANGED effects
      BY <2>3 DEF RemoveExpired, Inductive, Reliable
    <3>2. verdict' = [verdict EXCEPT ![m] = "none"]
      BY <2>1, <2>3 DEF RemoveExpired, TypeOK, NoRow
    <3>3. CASE verdict[m] = "none"
      BY <3>1, <3>2, <3>3
    <3>4. CASE verdict[m] # "none"
      <4>1. verdict[m] \in {"rejected", "conflict"}
        BY <2>1, <3>1, <3>4 DEF TypeOK
      <4> QED BY <3>1, <3>2, <4>1 DEF Ledger!Next, Ledger!Forget
    <3> QED BY <3>3, <3>4
  <2>4. ASSUME NEW r \in Requests, NEW m \in Mutations, Record(r, m)
        PROVE  Ledger!Next \/ UNCHANGED <<verdict, effects>>
    <3>1. CASE idem[m].status = "none"
      <4>1. verdict' = [verdict EXCEPT ![m] = "rejected"] /\ UNCHANGED effects
        BY <2>1, <2>4, <3>1 DEF Record, TypeOK
      <4> QED BY <3>1, <4>1 DEF Ledger!Next, Ledger!Refuse
    <3>2. CASE idem[m].status # "none"
      BY <2>4, <3>2 DEF Record
    <3> QED BY <3>1, <3>2
  <2>5. ASSUME NEW r \in Requests, NEW m \in Mutations, Commit(r, m)
        PROVE  Ledger!Next \/ UNCHANGED <<verdict, effects>>
    <3>1. /\ verdict[m] = "none"
          /\ verdict' = [verdict EXCEPT ![m] = exec[r][m].out]
      <4>1. /\ idem[m].status = "none"
            /\ idem' = [idem EXCEPT ![m] = [status |-> exec[r][m].out, at |-> exec[r][m].at]]
        BY <2>5, CommitFacts
      <4> QED BY <2>1, <4>1 DEF TypeOK
    <3>2. CASE exec[r][m].out = "applied" /\ effects' = [effects EXCEPT ![m] = @ + 1]
      BY <3>1, <3>2 DEF Ledger!Next, Ledger!Apply
    <3>3. CASE exec[r][m].out = "conflict" /\ UNCHANGED effects
      BY <3>1, <3>3 DEF Ledger!Next, Ledger!Refuse
    <3> QED BY <2>5, <3>2, <3>3, CommitFacts
  <2> QED BY <2>2, <2>3, <2>4, <2>5, StepKinds
<1> QED BY <1>1, <1>2, InductiveHolds, PTL DEF Spec, RefinesLedger, Ledger!Spec
-----------------------------------------------------------------------------
\* A processOne in its business transaction, or about to count its crash.
InHandler(r, m) == exec[r][m].pc \in {"handler", "claim", "commit", "bump"}

\* What a step of (r, m) may make of its cell: it is neither over nor not there;
\* it starts after the earlier waves; it enters its handler only past every
\* check of the preflight, and answers a fresh `applied' only from a commit.
Moves(r, m, e) ==
  /\ exec[r][m].pc \notin {"absent", "done"} /\ e.pc \notin {"absent", "wait"}
  /\ At(r, m, "wait") => EarlierWavesEnded(r, m)
  /\ e.pc = "handler" => ~Refused(r, m)
  /\ e.pc = "bump" => InHandler(r, m)
  /\ e.pc \in {"claim", "commit"} => exec[r][m].pc \in {"handler", "claim"}
  /\ (e.pc = "done" /\ e.out = "applied" /\ ~e.dup) => At(r, m, "commit")

\* Every step of a processOne moves one cell in this way; only a crash that is
\* counted raises the count, by one, and leaves the handler.
LEMMA CellStep ==
  ASSUME TypeOK, NEW r \in Requests, NEW m \in Mutations, ServerStep(r, m) \/ HandlerCrashes(r, m)
  PROVE  \E e \in Exec :
           /\ exec' = [exec EXCEPT ![r][m] = e] /\ Moves(r, m, e)
           /\ \/ failures' = failures
              \/ /\ failures' = [failures EXCEPT ![m] = failures[m] + 1]
                 /\ InHandler(r, m) /\ e.pc \in {"record", "done"}
           /\ \A s \in Requests : call'[s].wave = call[s].wave /\ call'[s].cyclic = call[s].cyclic
<1>0. exec[r][m] \in Exec /\ idem[m].status \in Outcomes /\ clock \in Nat /\ failures \in [Mutations -> Nat]
  BY DEF TypeOK, Exec, Outcomes
<1>1. ASSUME NEW pc \in Steps, NEW out \in Outcomes, Goto(r, m, pc, out), failures' = failures, call' = call,
             exec[r][m].pc \notin {"absent", "done"}, pc \notin {"absent", "wait", "done", "handler"},
             At(r, m, "wait") => EarlierWavesEnded(r, m),
             pc = "bump" => InHandler(r, m),
             pc \in {"claim", "commit"} => exec[r][m].pc \in {"handler", "claim"}
      PROVE  \E e \in Exec : exec' = [exec EXCEPT ![r][m] = e] /\ Moves(r, m, e)
  <2>1. PICK e : e = [pc |-> pc, out |-> out, dup |-> FALSE, at |-> exec[r][m].at]
    OBVIOUS
  <2>2. e \in Exec /\ e.pc = pc /\ exec' = [exec EXCEPT ![r][m] = e]
    BY <1>0, <1>1, <2>1 DEF Goto, Exec
  <2> QED BY <1>1, <2>2 DEF Moves
<1>2. ASSUME NEW out \in Outcomes, NEW dup \in BOOLEAN, Answer(r, m, out, dup),
             exec[r][m].pc \notin {"absent", "done"},
             At(r, m, "wait") => EarlierWavesEnded(r, m),
             out = "applied" /\ ~dup => At(r, m, "commit")
      PROVE  \E e \in Exec : exec' = [exec EXCEPT ![r][m] = e] /\ Moves(r, m, e) /\ e.pc = "done"
  <2>1. PICK e : e = [pc |-> "done", out |-> out, dup |-> dup, at |-> 0]
    OBVIOUS
  <2>2. e \in Exec /\ e.pc = "done" /\ e.out = out /\ e.dup = dup /\ exec' = [exec EXCEPT ![r][m] = e]
    BY <1>2, <2>1 DEF Answer, Exec, Steps
  <2> QED BY <1>2, <2>2 DEF Moves
<1>3. CASE FindLive(r, m)
  BY <1>0, <1>2, <1>3 DEF FindLive, Startable, At
<1>4. CASE FindExpired(r, m) \/ FindNothing(r, m)
  BY <1>1, <1>4 DEF FindExpired, FindNothing, Startable, At, Steps, Outcomes
<1>5. CASE RemoveExpired(r, m) \/ PreflightRejects(r, m) \/ HandlerDuplicate(r, m) \/ HandlerRejects(r, m)
           \/ ClaimLoses(r, m) \/ RecheckFindsNone(r, m)
  BY <1>1, <1>5 DEF RemoveExpired, PreflightRejects, HandlerDuplicate, HandlerRejects, ClaimLoses,
                    RecheckFindsNone, At, Steps, Outcomes
<1>6. CASE PreflightRetryLater(r, m)
  BY <1>2, <1>6 DEF PreflightRetryLater, At, Outcomes
<1>7. CASE PreflightPasses(r, m)
  <2>1. PICK e : e = [pc |-> "handler", out |-> "none", dup |-> FALSE, at |-> clock]
    OBVIOUS
  <2>2. e \in Exec /\ e.pc = "handler" /\ exec' = [exec EXCEPT ![r][m] = e]
    BY <1>0, <1>7, <2>1 DEF PreflightPasses, Exec, Steps, Outcomes
  <2>3. Moves(r, m, e)
    BY <1>7, <2>2 DEF PreflightPasses, Moves, At
  <2> QED BY <1>7, <2>2, <2>3 DEF PreflightPasses
<1>8. CASE HandlerApplies(r, m) \/ HandlerConflicts(r, m) \/ HandlerCrashes(r, m)
  BY <1>1, <1>8 DEF HandlerApplies, HandlerConflicts, HandlerCrashes, At, InHandler, Steps, Outcomes
<1>9. CASE ClaimWins(r, m)
  BY <1>0, <1>1, <1>9 DEF ClaimWins, At, InHandler, Steps, Exec
<1>10. CASE Commit(r, m)
  BY <1>0, <1>2, <1>10 DEF Commit, At, Exec
<1>11. CASE RecheckFindsWinner(r, m) \/ PollFindsWinner(r, m)
  BY <1>0, <1>2, <1>11 DEF RecheckFindsWinner, PollFindsWinner, At
<1>12. CASE Record(r, m)
  BY <1>2, <1>12 DEF Record, At, Outcomes
<1>13. CASE PollTimesOut(r, m)
  <2>1. Answer(r, m, "unavailable", FALSE) /\ At(r, m, "poll") /\ failures' = failures
    BY <1>13 DEF PollTimesOut
  <2>2. \A s \in Requests : call'[s].wave = call[s].wave /\ call'[s].cyclic = call[s].cyclic
    BY <1>13 DEF PollTimesOut, TypeOK
  <2> QED BY <1>2, <2>1, <2>2 DEF At, Outcomes
<1>14. CASE Bump(r, m)
  <2>1. /\ At(r, m, "bump") /\ failures' = [failures EXCEPT ![m] = failures[m] + 1]
        /\ UNCHANGED call
        /\ Goto(r, m, "record", "rejected") \/ Answer(r, m, "uncached", FALSE)
    BY <1>14 DEF Bump
  <2>2. CASE Goto(r, m, "record", "rejected")
    <3>1. PICK e : e = [pc |-> "record", out |-> "rejected", dup |-> FALSE, at |-> exec[r][m].at]
      OBVIOUS
    <3>2. e \in Exec /\ e.pc = "record" /\ exec' = [exec EXCEPT ![r][m] = e]
      BY <1>0, <2>2, <3>1 DEF Goto, Exec, Steps, Outcomes
    <3> QED BY <2>1, <3>2 DEF Moves, At, InHandler
  <2>3. CASE Answer(r, m, "uncached", FALSE)
    BY <1>2, <2>1, <2>3 DEF At, InHandler, Outcomes
  <2> QED BY <2>1, <2>2, <2>3
<1> QED BY <1>3, <1>4, <1>5, <1>6, <1>7, <1>8, <1>9, <1>10, <1>11, <1>12, <1>13, <1>14 DEF ServerStep

\* What a call owes a mutation whose wave has started: the earlier waves are
\* over, and a child that is past its checks has no parent among the failed.
Family(r, m) ==
  /\ exec[r][m].pc \notin {"absent", "wait"} => EarlierWavesEnded(r, m)
  /\ exec[r][m].pc \in {"handler", "claim", "commit"}
       \/ (At(r, m, "done") /\ exec[r][m].out = "applied" /\ ~exec[r][m].dup)
     => ParentOf[m] \notin FailedGuuids(r, m)
Families == \A r \in Requests : \A m \in DOMAIN call[r].wave : m \in Mutations /\ Family(r, m)

\* A step of one processOne keeps the families: it is over for no later wave.
LEMMA FamilyStep ==
  ASSUME TypeOK, Families, NEW r \in Requests, NEW m \in Mutations,
         ServerStep(r, m) \/ HandlerCrashes(r, m)
  PROVE  Families'
<1>1. PICK e \in Exec :
           /\ exec' = [exec EXCEPT ![r][m] = e] /\ Moves(r, m, e)
           /\ \A s \in Requests : call'[s].wave = call[s].wave /\ call'[s].cyclic = call[s].cyclic
  BY CellStep
<1>2. /\ exec'[r][m] = e
      /\ \A s \in Requests, n \in Mutations : <<s, n>> # <<r, m>> => exec'[s][n] = exec[s][n]
  <2>1. exec' = [exec EXCEPT ![r][m] = e]
    BY <1>1
  <2>2. exec \in [Requests -> [Mutations -> Exec]]
    BY CellTypes, Zenon
  <2>3. exec' = [exec EXCEPT ![r] = [exec[r] EXCEPT ![m] = e]] /\ exec[r] \in [Mutations -> Exec]
    BY <2>1, <2>2
  <2>4. \A s \in Requests : exec'[s] = IF s = r THEN [exec[r] EXCEPT ![m] = e] ELSE exec[s]
    BY <2>2, <2>3
  <2> QED BY <2>3, <2>4
<1>3. ASSUME NEW s \in Requests, NEW n \in DOMAIN call[s].wave PROVE n \in Mutations /\ Family(s, n)'
  <2>1. n \in Mutations /\ \A p \in DOMAIN call[s].wave : p \in Mutations
    BY DEF Families
  <2>2. Family(s, n)
    BY DEF Families
  <2>3. SUFFICES ASSUME exec'[s][n].pc \notin {"absent", "wait"} PROVE Family(s, n)'
    BY <2>1 DEF Family, At
  <2>4. EarlierWavesEnded(s, n)
    <3>1. CASE <<s, n>> = <<r, m>>
      BY <1>1, <2>1, <2>2, <3>1 DEF Moves, Family, At
    <3>2. CASE <<s, n>> # <<r, m>>
      BY <1>2, <2>1, <2>2, <2>3, <3>2 DEF Family
    <3> QED BY <3>1, <3>2
  <2>5. \A p \in DOMAIN call[s].wave : call[s].wave[p] < call[s].wave[n] => exec'[s][p] = exec[s][p]
    BY <1>1, <1>2, <2>1, <2>4 DEF EarlierWavesEnded, Moves, At
  <2>6. EarlierWavesEnded(s, n)'
    BY <1>1, <2>4, <2>5 DEF EarlierWavesEnded, At
  <2>7. FailedGuuids(s, n)' = FailedGuuids(s, n)
    BY <1>1, <2>5 DEF FailedGuuids
  <2>8. ASSUME \/ exec'[s][n].pc \in {"handler", "claim", "commit"}
               \/ At(s, n, "done")' /\ exec'[s][n].out = "applied" /\ ~exec'[s][n].dup
        PROVE  ParentOf[n] \notin FailedGuuids(s, n)
    <3>1. CASE <<s, n>> = <<r, m>>
      BY <1>1, <1>2, <2>2, <2>8, <3>1 DEF Moves, Family, InHandler, Refused, At
    <3>2. CASE <<s, n>> # <<r, m>>
      BY <1>2, <2>1, <2>2, <2>8, <3>2 DEF Family, At
    <3> QED BY <3>1, <3>2
  <2> QED BY <2>1, <2>6, <2>7, <2>8 DEF Family
<1> QED BY <1>1, <1>3 DEF Families

\* A call that arrives has started nothing.
LEMMA FamilyArrive ==
  ASSUME TypeOK, Families, NEW r \in Requests, NEW b \in Batches, NEW gate, Arrive(r, b, gate)
  PROVE  Families'
<1>. DEFINE dispatch == Dispatch([i \in DOMAIN b |-> Wire(b[i])])
            run == {m \in ToSet(b) : Wire(m) \in DOMAIN dispatch.wave /\ ~dispatch.throws}
            cyc == {m \in ToSet(b) : Wire(m) \in dispatch.cyclic}
            c == [phase |-> IF dispatch.throws THEN "aborted" ELSE "running",
                  now |-> clock, gate |-> gate,
                  wave |-> [m \in run |-> dispatch.wave[Wire(m)]], cyclic |-> cyc]
            f == [m \in Mutations |-> IF m \in run THEN Entering("wait", "none")
                                      ELSE IF m \in cyc THEN Entering("done", "uncached")
                                      ELSE Absent]
<1>1. call' = [call EXCEPT ![r] = c] /\ exec' = [exec EXCEPT ![r] = f]
  BY DEF Arrive
<1>2. run \subseteq Mutations
  BY MutationAssumption DEF ToSet
<1>3. DOMAIN c.wave = run
  OBVIOUS
<1>4. \A m \in run : f[m].pc = "wait"
  BY <1>2 DEF Entering
<1> HIDE DEF c, f, run
<1>5. /\ call'[r] = c /\ exec'[r] = f
      /\ \A s \in Requests : s # r => call'[s] = call[s] /\ exec'[s] = exec[s]
  BY <1>1 DEF TypeOK
<1>6. ASSUME NEW s \in Requests, NEW n \in DOMAIN call'[s].wave PROVE n \in Mutations /\ Family(s, n)'
  <2>1. CASE s = r
    BY <1>2, <1>3, <1>4, <1>5, <1>6, <2>1 DEF Family, At
  <2>2. CASE s # r
    BY <1>5, <1>6, <2>2 DEF Families, Family, At, EarlierWavesEnded, FailedGuuids
  <2> QED BY <2>1, <2>2
<1> QED BY <1>6 DEF Families

\* Every step keeps the families.
LEMMA FamilyNext == ASSUME TypeOK, Families, [Next]_vars PROVE Families'
<1>1. ASSUME NEW r \in Requests, Respond(r) PROVE Families'
  <2>1. /\ call'[r] = IdleCall /\ \A m \in Mutations : exec'[r][m] = Absent
        /\ \A s \in Requests : s # r => call'[s] = call[s] /\ exec'[s] = exec[s]
    BY <1>1 DEF Respond, TypeOK
  <2>2. DOMAIN IdleCall.wave = {}
    BY DEF IdleCall
  <2>3. ASSUME NEW s \in Requests, NEW n \in DOMAIN call'[s].wave PROVE n \in Mutations /\ Family(s, n)'
    BY <2>1, <2>2, <2>3 DEF Families, Family, At, EarlierWavesEnded, FailedGuuids
  <2> QED BY <2>3 DEF Families
<1>2. CASE ServerCrash
  <2>1. \A s \in Requests : DOMAIN call'[s].wave = {}
    BY <1>2 DEF ServerCrash, IdleCall
  <2> QED BY <2>1 DEF Families
<1>3. CASE Tick \/ UNCHANGED vars
  <2>1. call' = call /\ exec' = exec
    BY <1>3 DEF Tick, vars
  <2> QED BY <2>1 DEF Families, Family, At, EarlierWavesEnded, FailedGuuids
<1> QED BY <1>1, <1>2, <1>3, FamilyStep, FamilyArrive DEF Next

\* What the waves of a call promise: whatever runs has one, edits of one entity
\* have different ones, the first edit of a parent has an earlier one.
Planned(r) ==
  /\ \A m \in Mutations : exec[r][m].pc \notin {"absent", "done"} => m \in DOMAIN call[r].wave
  /\ \A m \in DOMAIN call[r].wave : m \in Mutations /\ call[r].wave[m] \in Nat
  /\ \A m, n \in DOMAIN call[r].wave : m # n =>
       /\ GuuidOf[m] = GuuidOf[n] => call[r].wave[m] # call[r].wave[n]
       /\ (ParentOf[m] = GuuidOf[n] /\ Untangled(r) /\ FirstEdit(r, n))
              => call[r].wave[n] < call[r].wave[m]
Plans == \A r \in Requests : Planned(r)

\* What Dispatch gives the mutations of a batch, in terms of their ids.
LEMMA BatchPlan ==
  ASSUME NEW b \in Seq(Mutations), NEW d, d = Dispatch([i \in DOMAIN b |-> Wire(b[i])])
  PROVE  /\ \A m \in Mutations : Wire(m) \in DOMAIN d.wave => d.wave[Wire(m)] \in Nat
         /\ \A m, n \in Mutations :
              (m # n /\ Wire(m) \in DOMAIN d.wave /\ Wire(n) \in DOMAIN d.wave) =>
                /\ GuuidOf[m] = GuuidOf[n] => d.wave[Wire(m)] # d.wave[Wire(n)]
                /\ (/\ ParentOf[m] = GuuidOf[n]
                    /\ \A c, q \in ToSet(b) : Wire(c) \in d.cyclic /\ Wire(q) \in DOMAIN d.wave
                                                 => GuuidOf[c] # GuuidOf[q]
                    /\ \A q \in ToSet(b) : Wire(q) \in DOMAIN d.wave /\ GuuidOf[q] = GuuidOf[n]
                                              => d.wave[Wire(n)] <= d.wave[Wire(q)])
                   => d.wave[Wire(n)] < d.wave[Wire(m)]
<1> DEFINE R == [id : Mutations, guuid : Guuids, parent : Guuids \cup {NoGuuid}]
           wb == [i \in DOMAIN b |-> Wire(b[i])]
<1>1. \A m \in Mutations : /\ Wire(m) \in R /\ Wire(m).id = m
                            /\ Wire(m).guuid = GuuidOf[m] /\ Wire(m).parent = ParentOf[m]
                            /\ GuuidOf[m] # NoGuuid
  BY MutationAssumption DEF Wire
<1>2. NoMutation \notin R
  BY MutationAssumption
<1>3. wb \in Seq(R) /\ Len(wb) = Len(b) /\ \A i \in 1 .. Len(b) : wb[i] = Wire(b[i])
  <2>1. \A i \in 1 .. Len(b) : Wire(b[i]) \in R
    BY <1>1
  <2> HIDE DEF R
  <2> QED BY <2>1
<1>4. d = Dispatch(wb)
  OBVIOUS
<1> HIDE DEF R, wb
<1>5. ToSet(d.order) = ToSet(wb) \ d.cyclic /\ d.cyclic \subseteq ToSet(wb) /\ DOMAIN d.wave = ToSet(d.order)
  <2>1. /\ ToSet(d.order) = ToSet(wb) \ d.cyclic /\ DOMAIN d.wave = ToSet(d.order)
        /\ d.cyclic = {m \in ToSet(wb) : OnParentCycle(wb, m)}
    BY <1>2, <1>3, <1>4, DispatchFacts
  <2> QED BY <2>1
<1>6. \A w \in ToSet(wb) : \E m \in ToSet(b) : w = Wire(m)
  <2> SUFFICES ASSUME NEW w \in ToSet(wb) PROVE \E m \in ToSet(b) : w = Wire(m)
    OBVIOUS
  <2>1. PICK i \in 1 .. Len(wb) : wb[i] = w
    BY <1>3 DEF ToSet
  <2>2. w = Wire(b[i]) /\ b[i] \in ToSet(b)
    BY <1>3, <2>1 DEF ToSet
  <2> QED BY <2>2
<1>7. ToSet(b) \subseteq Mutations
  BY DEF ToSet
<1>8. \A m \in Mutations : Wire(m) \in DOMAIN d.wave => d.wave[Wire(m)] \in Nat
  BY <1>2, <1>3, <1>4, <1>5, DispatchWaves
<1>9. ASSUME NEW m \in Mutations, NEW n \in Mutations, m # n,
             Wire(m) \in ToSet(d.order), Wire(n) \in ToSet(d.order)
      PROVE  /\ GuuidOf[m] = GuuidOf[n] => d.wave[Wire(m)] # d.wave[Wire(n)]
             /\ (/\ ParentOf[m] = GuuidOf[n]
                 /\ \A c, q \in ToSet(b) : Wire(c) \in d.cyclic /\ Wire(q) \in DOMAIN d.wave
                                              => GuuidOf[c] # GuuidOf[q]
                 /\ \A q \in ToSet(b) : Wire(q) \in DOMAIN d.wave /\ GuuidOf[q] = GuuidOf[n]
                                           => d.wave[Wire(n)] <= d.wave[Wire(q)])
                => d.wave[Wire(n)] < d.wave[Wire(m)]
  <2>1. Wire(m) # Wire(n)
    BY <1>1, <1>9
  <2>2. ASSUME GuuidOf[m] = GuuidOf[n] PROVE d.wave[Wire(m)] # d.wave[Wire(n)]
    <3>1. SameEntity(Wire(m), Wire(n))
      BY <1>1, <2>2 DEF SameEntity
    <3> QED BY <1>2, <1>3, <1>4, <1>9, <2>1, <3>1, DispatchEdits
  <2>3. ASSUME ParentOf[m] = GuuidOf[n],
               \A c, q \in ToSet(b) : Wire(c) \in d.cyclic /\ Wire(q) \in DOMAIN d.wave
                                            => GuuidOf[c] # GuuidOf[q],
               \A q \in ToSet(b) : Wire(q) \in DOMAIN d.wave /\ GuuidOf[q] = GuuidOf[n]
                                         => d.wave[Wire(n)] <= d.wave[Wire(q)]
        PROVE  d.wave[Wire(n)] < d.wave[Wire(m)]
    <3>1. \A c \in d.cyclic, w \in ToSet(d.order) : c.guuid # w.guuid
      <4> SUFFICES ASSUME NEW c \in d.cyclic, NEW w \in ToSet(d.order) PROVE c.guuid # w.guuid
        OBVIOUS
      <4>1. PICK k \in ToSet(b) : c = Wire(k)
        BY <1>5, <1>6
      <4>2. PICK q \in ToSet(b) : w = Wire(q)
        BY <1>5, <1>6
      <4> QED BY <1>1, <1>5, <1>7, <2>3, <4>1, <4>2
    <3>2. \A w \in ToSet(d.order) : w.guuid = Wire(n).guuid => d.wave[Wire(n)] <= d.wave[w]
      <4> SUFFICES ASSUME NEW w \in ToSet(d.order), w.guuid = Wire(n).guuid
                   PROVE  d.wave[Wire(n)] <= d.wave[w]
        OBVIOUS
      <4>1. PICK q \in ToSet(b) : w = Wire(q)
        BY <1>5, <1>6
      <4> QED BY <1>1, <1>5, <1>7, <2>3, <4>1
    <3>3. Wire(m).parent = Wire(n).guuid /\ Wire(n).guuid # NoGuuid
      BY <1>1, <2>3
    <3> QED BY <1>2, <1>3, <1>4, <1>9, <2>1, <3>1, <3>2, <3>3, DispatchFirstEdit
  <2> QED BY <2>2, <2>3
<1> QED BY <1>5, <1>8, <1>9

\* A call that arrives is planned by Dispatch.
LEMMA PlanArrive ==
  ASSUME TypeOK, Plans, NEW r \in Requests, NEW b \in Batches, NEW gate, Arrive(r, b, gate)
  PROVE  Plans'
<1> DEFINE d == Dispatch([i \in DOMAIN b |-> Wire(b[i])])
           run == {m \in ToSet(b) : Wire(m) \in DOMAIN d.wave /\ ~d.throws}
           cyc == {m \in ToSet(b) : Wire(m) \in d.cyclic}
           c == [phase |-> IF d.throws THEN "aborted" ELSE "running",
                 now |-> clock, gate |-> gate,
                 wave |-> [m \in run |-> d.wave[Wire(m)]], cyclic |-> cyc]
           f == [m \in Mutations |-> IF m \in run THEN Entering("wait", "none")
                                     ELSE IF m \in cyc THEN Entering("done", "uncached")
                                     ELSE Absent]
<1>1. call' = [call EXCEPT ![r] = c] /\ exec' = [exec EXCEPT ![r] = f]
  BY DEF Arrive
<1>2. b \in Seq(Mutations) /\ ToSet(b) \subseteq Mutations
  BY MutationAssumption DEF ToSet
<1>3. /\ \A m \in Mutations : Wire(m) \in DOMAIN d.wave => d.wave[Wire(m)] \in Nat
      /\ \A m, n \in Mutations :
           (m # n /\ Wire(m) \in DOMAIN d.wave /\ Wire(n) \in DOMAIN d.wave) =>
             /\ GuuidOf[m] = GuuidOf[n] => d.wave[Wire(m)] # d.wave[Wire(n)]
             /\ (/\ ParentOf[m] = GuuidOf[n]
                 /\ \A k, q \in ToSet(b) : Wire(k) \in d.cyclic /\ Wire(q) \in DOMAIN d.wave
                                              => GuuidOf[k] # GuuidOf[q]
                 /\ \A q \in ToSet(b) : Wire(q) \in DOMAIN d.wave /\ GuuidOf[q] = GuuidOf[n]
                                           => d.wave[Wire(n)] <= d.wave[Wire(q)])
                => d.wave[Wire(n)] < d.wave[Wire(m)]
  BY <1>2, BatchPlan
<1> HIDE DEF d
<1>4. \A m \in Mutations : f[m].pc \notin {"absent", "done"} => m \in run
  BY DEF Entering, Absent
<1>5. /\ DOMAIN c.wave = run /\ c.cyclic = cyc
      /\ \A m \in run : c.wave[m] = d.wave[Wire(m)]
  OBVIOUS
<1> HIDE DEF c, f
<1>6. /\ call'[r] = c /\ exec'[r] = f
      /\ \A s \in Requests : s # r => call'[s] = call[s] /\ exec'[s] = exec[s]
  BY <1>1 DEF TypeOK
<1>7. Planned(r)'
  <2>1. \A m \in Mutations : exec'[r][m].pc \notin {"absent", "done"} => m \in run
    BY <1>4, <1>6
  <2>2. \A m \in run : m \in Mutations /\ d.wave[Wire(m)] \in Nat
    BY <1>2, <1>3
  <2>3. ASSUME NEW m \in run, NEW n \in run, m # n
        PROVE  /\ GuuidOf[m] = GuuidOf[n] => d.wave[Wire(m)] # d.wave[Wire(n)]
               /\ (ParentOf[m] = GuuidOf[n] /\ Untangled(r)' /\ FirstEdit(r, n)')
                      => d.wave[Wire(n)] < d.wave[Wire(m)]
    <3>1. m \in Mutations /\ n \in Mutations /\ ~d.throws
      BY <1>2
    <3>2. ASSUME Untangled(r)'
          PROVE  \A k, q \in ToSet(b) : Wire(k) \in d.cyclic /\ Wire(q) \in DOMAIN d.wave
                                           => GuuidOf[k] # GuuidOf[q]
      BY <1>5, <1>6, <3>1, <3>2 DEF Untangled
    <3>3. ASSUME FirstEdit(r, n)'
          PROVE  \A q \in ToSet(b) : Wire(q) \in DOMAIN d.wave /\ GuuidOf[q] = GuuidOf[n]
                                        => d.wave[Wire(n)] <= d.wave[Wire(q)]
      BY <1>5, <1>6, <3>1, <3>3 DEF FirstEdit
    <3> QED BY <1>3, <2>3, <3>1, <3>2, <3>3
  <2> HIDE DEF run
  <2> QED BY <1>5, <1>6, <2>1, <2>2, <2>3 DEF Planned
<1>8. ASSUME NEW s \in Requests, s # r PROVE Planned(s)'
  <2>1. Planned(s)
    BY DEF Plans
  <2> QED BY <1>6, <1>8, <2>1 DEF Planned, Untangled, FirstEdit
<1> QED BY <1>7, <1>8 DEF Plans

\* Every step keeps the plans: nothing starts again that is over or not there.
LEMMA PlanNext == ASSUME TypeOK, Plans, [Next]_vars PROVE Plans'
<1>1. ASSUME \A s \in Requests : /\ call'[s].wave = call[s].wave /\ call'[s].cyclic = call[s].cyclic
                                 /\ \A m \in Mutations : exec'[s][m].pc \notin {"absent", "done"}
                                                          => exec[s][m].pc \notin {"absent", "done"}
      PROVE  Plans'
  <2> SUFFICES ASSUME NEW s \in Requests PROVE Planned(s)'
    BY DEF Plans
  <2>1. Planned(s)
    BY DEF Plans
  <2>2. (Untangled(s)' <=> Untangled(s)) /\ \A n : FirstEdit(s, n)' <=> FirstEdit(s, n)
    BY <1>1 DEF Untangled, FirstEdit
  <2> QED BY <1>1, <2>1, <2>2 DEF Planned
<1>2. ASSUME NEW r \in Requests, NEW m \in Mutations, ServerStep(r, m) \/ HandlerCrashes(r, m) PROVE Plans'
  <2>1. PICK e \in Exec :
           /\ exec' = [exec EXCEPT ![r][m] = e] /\ Moves(r, m, e)
           /\ \A s \in Requests : call'[s].wave = call[s].wave /\ call'[s].cyclic = call[s].cyclic
    BY <1>2, CellStep
  <2>2. exec \in [Requests -> [Mutations -> Exec]]
    BY CellTypes, Zenon
  <2>3. exec' = [exec EXCEPT ![r] = [exec[r] EXCEPT ![m] = e]] /\ exec[r] \in [Mutations -> Exec]
    BY <2>1, <2>2
  <2>4. \A s \in Requests, n \in Mutations : <<s, n>> # <<r, m>> => exec'[s][n] = exec[s][n]
    BY <2>2, <2>3
  <2>5. exec[r][m].pc \notin {"absent", "done"}
    BY <2>1 DEF Moves
  <2>6. \A s \in Requests, n \in Mutations : exec'[s][n].pc \notin {"absent", "done"}
                                              => exec[s][n].pc \notin {"absent", "done"}
    BY <2>4, <2>5
  <2> QED BY <1>1, <2>1, <2>6
<1>3. ASSUME NEW r \in Requests, Respond(r) PROVE Plans'
  <2>1. /\ call'[r] = IdleCall /\ \A m \in Mutations : exec'[r][m] = Absent
        /\ \A s \in Requests : s # r => call'[s] = call[s] /\ exec'[s] = exec[s]
    BY <1>3 DEF Respond, TypeOK
  <2>2. Planned(r)'
    BY <2>1 DEF Planned, IdleCall, Absent, Entering
  <2>3. ASSUME NEW s \in Requests, s # r PROVE Planned(s)'
    <3>1. Planned(s)
      BY DEF Plans
    <3> QED BY <2>1, <2>3, <3>1 DEF Planned, Untangled, FirstEdit
  <2> QED BY <2>2, <2>3 DEF Plans
<1>4. CASE ServerCrash
  <2>1. \A s \in Requests : call'[s] = IdleCall /\ \A m \in Mutations : exec'[s][m] = Absent
    BY <1>4 DEF ServerCrash
  <2>2. \A s \in Requests : Planned(s)'
    BY <2>1 DEF Planned, IdleCall, Absent, Entering
  <2> QED BY <2>2 DEF Plans
<1>5. CASE Tick \/ UNCHANGED vars
  BY <1>1, <1>5 DEF Tick, vars
<1> QED BY <1>2, <1>3, <1>4, <1>5, PlanArrive DEF Next

\* In every behaviour the calls are planned and their families in order.
LEMMA PlansHold == Spec => [](TypeOK /\ Families /\ Plans)
<1>1. Init => Families /\ Plans
  <2> SUFFICES ASSUME Init PROVE Families /\ Plans
    OBVIOUS
  <2>1. \A r \in Requests : call[r] = IdleCall /\ \A m \in Mutations : exec[r][m] = Absent
    BY DEF Init
  <2>2. DOMAIN IdleCall.wave = {} /\ Absent.pc = "absent"
    BY DEF IdleCall, Absent, Entering
  <2> QED BY <2>1, <2>2 DEF Families, Plans, Planned
<1>2. TypeOK /\ Families /\ Plans /\ [Next]_vars => Families' /\ Plans'
  BY FamilyNext, PlanNext
<1> QED BY <1>1, <1>2, TypeCorrect, PTL DEF Spec

\* A child is written by a call, or told so, only after its parent, when the
\* batch holds it, has ended in that call and has not failed: the parent's
\* first edit, in whatever order the batch lists the two, and every earlier one
\* (runMutationWaves, failedGuuids, step 5 of preflight).
THEOREM ParentsComeFirst == Spec => []ChildAfterParent
<1>1. Families /\ Plans => ChildAfterParent
  <2> SUFFICES ASSUME Families, Plans, NEW r \in Requests,
                      NEW m \in DOMAIN call[r].wave, NEW p \in DOMAIN call[r].wave,
                      ParentOf[m] = GuuidOf[p], p # m,
                      call[r].wave[p] < call[r].wave[m] \/ (Untangled(r) /\ FirstEdit(r, p)),
                      LocksRow(r, m) \/ (At(r, m, "done") /\ exec[r][m].out = "applied" /\ ~exec[r][m].dup)
               PROVE  /\ At(r, p, "done") /\ exec[r][p].out \notin {"rejected", "uncached"}
                      /\ exec[r][p].out = "conflict" => exec[r][p].dup
    BY DEF ChildAfterParent
  <2>1. EarlierWavesEnded(r, m) /\ ParentOf[m] \notin FailedGuuids(r, m)
    BY DEF Families, Family, LocksRow, At
  <2>2. call[r].wave[p] < call[r].wave[m]
    BY DEF Plans, Planned
  <2> QED BY <2>1, <2>2 DEF EarlierWavesEnded, FailedGuuids
<1> QED BY <1>1, PlansHold, PTL

\* The workers of a call never hold two edits of one entity at once, whatever
\* the batch and the number of workers (computeWaves, runBounded).
THEOREM EditsRunAlone == Spec => []OneEditAtATime
<1>1. Families /\ Plans => OneEditAtATime
  <2> SUFFICES ASSUME Families, Plans, NEW r \in Requests, NEW m \in Mutations, NEW n \in Mutations,
                      Running(r, m), Running(r, n), GuuidOf[m] = GuuidOf[n], m # n
               PROVE  FALSE
    BY DEF OneEditAtATime
  <2>1. m \in DOMAIN call[r].wave /\ n \in DOMAIN call[r].wave
    BY DEF Plans, Planned, Running
  <2>2. /\ call[r].wave[m] \in Nat /\ call[r].wave[n] \in Nat
        /\ call[r].wave[m] # call[r].wave[n]
    BY <2>1 DEF Plans, Planned
  <2>3. EarlierWavesEnded(r, m) /\ EarlierWavesEnded(r, n)
    BY <2>1 DEF Families, Family, Running
  <2>4. ~At(r, m, "done") /\ ~At(r, n, "done")
    BY DEF Running, At
  <2>5. call[r].wave[m] < call[r].wave[n] \/ call[r].wave[n] < call[r].wave[m]
    BY <2>2
  <2> QED BY <2>1, <2>3, <2>4, <2>5 DEF EarlierWavesEnded
<1> QED BY <1>1, PlansHold, PTL
-----------------------------------------------------------------------------
\* The calls that may still raise the failure count of m.
Counting(m) == {r \in Requests : InHandler(r, m)}
Bounded(m) == failures[m] + Cardinality(Counting(m)) <= PoisonMax - 1 + Cardinality(Requests)

\* The calls are finitely many, those that count no more than all.
LEMMA CountingFinite ==
  ASSUME NEW m
  PROVE  /\ IsFiniteSet(Counting(m)) /\ Cardinality(Counting(m)) \in Nat /\ Cardinality(Requests) \in Nat
         /\ Cardinality(Counting(m)) <= Cardinality(Requests)
<1>1. Counting(m) \subseteq Requests /\ IsFiniteSet(Requests)
  BY BoundAssumption DEF Counting
<1> QED BY <1>1, FS_Subset, FS_CardinalityType

\* A step of one processOne keeps the bound: it enters the handler below the
\* cap only, and leaves it when it counts.
LEMMA BoundedStep ==
  ASSUME TypeOK, NEW r \in Requests, NEW m \in Mutations, ServerStep(r, m) \/ HandlerCrashes(r, m),
         NEW n \in Mutations, Bounded(n)
  PROVE  Bounded(n)'
<1>1. PICK e \in Exec :
           /\ exec' = [exec EXCEPT ![r][m] = e] /\ Moves(r, m, e)
           /\ \/ failures' = failures
              \/ /\ failures' = [failures EXCEPT ![m] = failures[m] + 1]
                 /\ InHandler(r, m) /\ e.pc \in {"record", "done"}
  BY CellStep
<1>2. /\ exec'[r][m] = e
      /\ \A s \in Requests, k \in Mutations : <<s, k>> # <<r, m>> => exec'[s][k] = exec[s][k]
  <2>1. exec' = [exec EXCEPT ![r][m] = e]
    BY <1>1
  <2>2. exec \in [Requests -> [Mutations -> Exec]]
    BY CellTypes, Zenon
  <2>3. exec' = [exec EXCEPT ![r] = [exec[r] EXCEPT ![m] = e]] /\ exec[r] \in [Mutations -> Exec]
    BY <2>1, <2>2
  <2>4. \A s \in Requests : exec'[s] = IF s = r THEN [exec[r] EXCEPT ![m] = e] ELSE exec[s]
    BY <2>2, <2>3
  <2> QED BY <2>3, <2>4
<1>3. failures \in [Mutations -> Nat] /\ PoisonMax \in Nat \ {0}
  BY BoundAssumption DEF TypeOK
<1>4. CASE n # m
  <2>1. Counting(n)' = Counting(n) /\ failures'[n] = failures[n]
    BY <1>1, <1>2, <1>3, <1>4 DEF Counting, InHandler
  <2> QED BY <2>1 DEF Bounded
<1>5. CASE n = m
  <2>1. \A s \in Requests : s # r => (InHandler(s, m)' <=> InHandler(s, m))
    BY <1>2 DEF InHandler
  <2>2. CASE failures' # failures
    <3>1. failures'[m] = failures[m] + 1 /\ InHandler(r, m) /\ ~InHandler(r, m)'
      BY <1>1, <1>2, <1>3, <2>2 DEF InHandler
    <3>2. Counting(m)' = Counting(m) \ {r} /\ r \in Counting(m)
      BY <2>1, <3>1 DEF Counting
    <3>3. Cardinality(Counting(m) \ {r}) = Cardinality(Counting(m)) - 1
      BY <3>2, CountingFinite, FS_RemoveElement
    <3> QED BY <1>3, <1>5, <3>1, <3>2, <3>3, CountingFinite DEF Bounded
  <2>3. CASE failures' = failures /\ (InHandler(r, m) \/ ~InHandler(r, m)')
    <3>1. Counting(m)' \subseteq Counting(m)
      BY <2>1, <2>3 DEF Counting
    <3>2. Cardinality(Counting(m)') <= Cardinality(Counting(m)) /\ Cardinality(Counting(m)') \in Nat
      BY <3>1, CountingFinite, FS_Subset, FS_CardinalityType
    <3> QED BY <1>3, <1>5, <2>3, <3>2, CountingFinite DEF Bounded
  <2>4. CASE failures' = failures /\ ~InHandler(r, m) /\ InHandler(r, m)'
    <3>1. failures[m] <= PoisonMax - 1
      BY <1>1, <1>2, <1>3, <2>4 DEF Moves, InHandler, Refused
    <3>2. Counting(m)' \subseteq Requests
      BY DEF Counting
    <3>3. Cardinality(Counting(m)') <= Cardinality(Requests) /\ Cardinality(Counting(m)') \in Nat
      BY <3>2, BoundAssumption, FS_Subset, FS_CardinalityType
    <3> QED BY <1>3, <1>5, <2>4, <3>1, <3>3, CountingFinite DEF Bounded
  <2> QED BY <2>2, <2>3, <2>4
<1> QED BY <1>4, <1>5

\* Every step keeps the bound.
LEMMA BoundedNext == ASSUME TypeOK, [Next]_vars, NEW n \in Mutations, Bounded(n) PROVE Bounded(n)'
<1>1. ASSUME UNCHANGED failures, \A s \in Requests : InHandler(s, n)' => InHandler(s, n) PROVE Bounded(n)'
  <2>1. Counting(n)' \subseteq Counting(n)
    BY <1>1 DEF Counting
  <2>2. Cardinality(Counting(n)') <= Cardinality(Counting(n)) /\ Cardinality(Counting(n)') \in Nat
    BY <2>1, CountingFinite, FS_Subset, FS_CardinalityType
  <2>3. failures[n] \in Nat /\ PoisonMax \in Nat
    BY BoundAssumption DEF TypeOK
  <2> QED BY <1>1, <2>2, <2>3, CountingFinite DEF Bounded
<1>2. ASSUME NEW r \in Requests, NEW b \in Batches, NEW gate, Arrive(r, b, gate) PROVE Bounded(n)'
  <2>1. exec'[r][n].pc \in {"wait", "done", "absent"} /\ \A s \in Requests : s # r => exec'[s] = exec[s]
    BY <1>2 DEF Arrive, TypeOK, Entering, Absent
  <2>2. UNCHANGED failures
    BY <1>2 DEF Arrive
  <2> QED BY <1>1, <2>1, <2>2 DEF InHandler
<1>3. ASSUME NEW r \in Requests, Respond(r) PROVE Bounded(n)'
  <2>1. exec'[r][n].pc = "absent" /\ \A s \in Requests : s # r => exec'[s] = exec[s]
    BY <1>3 DEF Respond, TypeOK, Entering, Absent
  <2>2. UNCHANGED failures
    BY <1>3 DEF Respond
  <2> QED BY <1>1, <2>1, <2>2 DEF InHandler
<1>4. CASE ServerCrash
  <2>1. UNCHANGED failures /\ \A s \in Requests : exec'[s][n].pc = "absent"
    BY <1>4 DEF ServerCrash, Entering, Absent
  <2> QED BY <1>1, <2>1 DEF InHandler
<1>5. CASE Tick \/ UNCHANGED vars
  BY <1>1, <1>5 DEF Tick, vars, InHandler
<1> QED BY <1>2, <1>3, <1>4, <1>5, BoundedStep DEF Next

\* A poison mutation enters its handler a bounded number of times, whatever
\* calls repeat it at once (preflight, mapExecuteFailure of delta.service.ts).
THEOREM PoisonIsBounded == Spec => []PoisonBounded
<1> DEFINE AllBounded == \A m \in Mutations : Bounded(m)
<1>1. Init => AllBounded
  <2> SUFFICES ASSUME Init, NEW m \in Mutations PROVE Bounded(m)
    OBVIOUS
  <2>1. failures[m] = 0 /\ Counting(m) = {}
    BY DEF Init, Counting, InHandler, Entering, Absent
  <2>2. Cardinality({}) = 0
    BY FS_EmptySet
  <2> QED BY <2>1, <2>2, CountingFinite, BoundAssumption DEF Bounded
<1>2. TypeOK /\ AllBounded /\ [Next]_vars => AllBounded'
  BY BoundedNext
<1>3. TypeOK /\ AllBounded => PoisonBounded
  BY CountingFinite, BoundAssumption DEF Bounded, PoisonBounded, TypeOK
<1> HIDE DEF AllBounded
<1> QED BY <1>1, <1>2, <1>3, TypeCorrect, PTL DEF Spec
=============================================================================
