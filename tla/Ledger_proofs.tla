---------------------------- MODULE Ledger_proofs ----------------------------
(***************************************************************************)
(* Proofs about Ledger, for every cart, credit limit, number of sales,     *)
(* bills and transactions at once: the numbering of the invoices, exact    *)
(* refunds, the two books, and what may raise or settle a debt.            *)
(***************************************************************************)
EXTENDS Ledger, FiniteSetTheorems, TLAPS

(***************************************************************************)
(* Sums.  Sum is a recursive function on the subsets of its second         *)
(* argument, defined by CHOOSE; the lemmas show that it exists, what one   *)
(* step of it is, and with minimal counterexamples the algebra the proofs  *)
(* need.                                                                   *)
(***************************************************************************)
First(s) == CHOOSE x \in s : TRUE
Partial(f, S, g) == g = [s \in SUBSET S |-> IF s = {} THEN 0 ELSE f[First(s)] + g[s \ {First(s)}]]

Cut(g, V) == [s \in SUBSET V |-> g[s]]

\* Sum(f, S) is the value at S of a function that satisfies Partial.
LEMMA SumDef ==
  ASSUME NEW f, NEW S
  PROVE  Sum(f, S) = (CHOOSE g : Partial(f, S, g))[S]
BY DEF Sum, Partial, First, MapThenSumSet, MapThenFoldSet

\* The element taken first is an element.
LEMMA FirstIn ==
  ASSUME NEW s, s # {}
  PROVE  First(s) \in s
BY DEF First

\* A set of subsets of a finite set has a smallest one: the form in which the
\* proofs about sums use induction.
LEMMA SmallestSubset ==
  ASSUME NEW S, IsFiniteSet(S), NEW T, T \subseteq SUBSET S, T # {}
  PROVE  \E s \in T : \A u \in T : u \subseteq s => u = s
<1>1. SUBSET S = FiniteSubsetsOf(S)
  BY FS_FiniteSubsetsOfFinite
<1>2. IsWellFoundedOn(StrictSubsetOrdering(S), SUBSET S)
  BY <1>1, FS_StrictSubsetOrderingWellFounded
<1>3. PICK s \in T : \A u \in T : ~(<<u, s>> \in StrictSubsetOrdering(S))
  BY <1>2, WFMin
<1> QED BY <1>3 DEF StrictSubsetOrdering

\* There is one function that satisfies Partial at most,
LEMMA PartialUnique ==
  ASSUME NEW f, NEW S, IsFiniteSet(S), NEW g, NEW h, Partial(f, S, g), Partial(f, S, h)
  PROVE  g = h
<1> DEFINE T == {s \in SUBSET S : g[s] # h[s]}
<1>1. ASSUME T # {} PROVE FALSE
  <2>1. PICK s \in T : \A u \in T : u \subseteq s => u = s
    <3>1. T \subseteq SUBSET S
      OBVIOUS
    <3> HIDE DEF T
    <3> QED BY <1>1, <3>1, SmallestSubset
  <2>2. s # {}
    BY <2>1 DEF Partial
  <2>3. First(s) \in s
    BY <2>2, FirstIn
  <2>4. s \ {First(s)} \notin T
    BY <2>1, <2>3
  <2>5. g[s \ {First(s)}] = h[s \ {First(s)}]
    BY <2>4
  <2>6. g[s] = f[First(s)] + g[s \ {First(s)}] /\ h[s] = f[First(s)] + h[s \ {First(s)}]
    BY <2>2 DEF Partial
  <2> QED BY <2>1, <2>5, <2>6
<1>2. \A s \in SUBSET S : g[s] = h[s]
  BY <1>1
<1>3. g = [s \in SUBSET S |-> g[s]] /\ h = [s \in SUBSET S |-> h[s]]
  BY DEF Partial
<1> QED BY <1>2, <1>3

\* it satisfies Partial on the subsets of a smaller set too,
LEMMA PartialRestrict ==
  ASSUME NEW f, NEW S, NEW V, V \subseteq S, NEW g, Partial(f, S, g)
  PROVE  Partial(f, V, Cut(g, V))
<1> DEFINE h == Cut(g, V)
<1> USE DEF Cut
<1>1. \A s \in SUBSET V : h[s] = IF s = {} THEN 0 ELSE f[First(s)] + h[s \ {First(s)}]
  <2> TAKE s \in SUBSET V
  <2>1. g[s] = IF s = {} THEN 0 ELSE f[First(s)] + g[s \ {First(s)}]
    BY DEF Partial
  <2>2. s \ {First(s)} \in SUBSET V
    OBVIOUS
  <2>3. h[s] = g[s] /\ h[s \ {First(s)}] = g[s \ {First(s)}]
    BY <2>2
  <2> QED BY <2>1, <2>3
<1>2. h = [s \in SUBSET V |-> IF s = {} THEN 0 ELSE f[First(s)] + h[s \ {First(s)}]]
  BY <1>1
<1> QED BY <1>2 DEF Partial

\* and there is one.
LEMMA PartialExists ==
  ASSUME NEW f, NEW S, IsFiniteSet(S)
  PROVE  \E g : Partial(f, S, g)
<1> DEFINE T == {U \in SUBSET S : ~ \E g : Partial(f, U, g)}
           G(U) == CHOOSE g : Partial(f, U, g)
<1>1. ASSUME T # {} PROVE FALSE
  <2>1. PICK U \in T : \A V \in T : V \subseteq U => V = U
    <3>1. T \subseteq SUBSET S
      OBVIOUS
    <3> HIDE DEF T
    <3> QED BY <1>1, <3>1, SmallestSubset
  <2> DEFINE h == [s \in SUBSET U |-> IF s = {} THEN 0 ELSE f[First(s)] + G(s \ {First(s)})[s \ {First(s)}]]
  <2>2. \A V \in SUBSET U : V # U => Partial(f, V, G(V))
    BY <2>1
  <2>3. ASSUME NEW s \in SUBSET U, s # {}
        PROVE  h[s \ {First(s)}] = G(s \ {First(s)})[s \ {First(s)}]
    <3> DEFINE r == s \ {First(s)}
               q == r \ {First(r)}
    <3>1. First(s) \in s /\ r \in SUBSET U /\ r # U
      BY <2>3, FirstIn
    <3>2. Partial(f, r, G(r))
      BY <2>2, <3>1
    <3>3. CASE r = {}
      BY <3>1, <3>2, <3>3 DEF Partial
    <3>4. CASE r # {}
      <4>1. First(r) \in r /\ q \in SUBSET r /\ q \in SUBSET U /\ q # U
        BY <3>1, <3>4, FirstIn
      <4>2. Partial(f, q, G(q))
        BY <2>2, <4>1
      <4>3. Partial(f, q, Cut(G(r), q))
        BY <3>2, <4>1, PartialRestrict
      <4>4. IsFiniteSet(q)
        BY <4>1, <3>1, FS_Subset
      <4>5. G(q) = Cut(G(r), q)
        BY <4>2, <4>3, <4>4, PartialUnique
      <4>6. G(q)[q] = G(r)[q]
        BY <4>5 DEF Cut
      <4>7. G(r)[r] = f[First(r)] + G(r)[q]
        BY <3>2, <3>4 DEF Partial
      <4>8. h[r] = f[First(r)] + G(q)[q]
        BY <3>1, <3>4
      <4> QED BY <4>6, <4>7, <4>8
    <3> QED BY <3>3, <3>4
  <2>4. \A s \in SUBSET U : h[s] = IF s = {} THEN 0 ELSE f[First(s)] + h[s \ {First(s)}]
    <3> TAKE s \in SUBSET U
    <3>1. CASE s = {}
      BY <3>1
    <3>2. CASE s # {}
      <4>1. h[s] = f[First(s)] + G(s \ {First(s)})[s \ {First(s)}]
        BY <3>2
      <4>2. h[s \ {First(s)}] = G(s \ {First(s)})[s \ {First(s)}]
        BY <2>3, <3>2
      <4> HIDE DEF h
      <4> QED BY <3>2, <4>1, <4>2
    <3> QED BY <3>1, <3>2
  <2>4a. DOMAIN h = SUBSET U /\ h = [s \in SUBSET U |-> h[s]]
    OBVIOUS
  <2> HIDE DEF h
  <2>5. h = [s \in SUBSET U |-> IF s = {} THEN 0 ELSE f[First(s)] + h[s \ {First(s)}]]
    BY <2>4, <2>4a
  <2>6. Partial(f, U, h)
    BY <2>5 DEF Partial
  <2> QED BY <2>1, <2>6
<1> QED BY <1>1

\* One step of a sum: the first element, and the sum of the others.
LEMMA SumRec ==
  ASSUME NEW f, NEW S, IsFiniteSet(S)
  PROVE  Sum(f, S) = IF S = {} THEN 0 ELSE f[First(S)] + Sum(f, S \ {First(S)})
<1> DEFINE R == S \ {First(S)}
           g == CHOOSE g : Partial(f, S, g)
           h == CHOOSE h : Partial(f, R, h)
<1>1. Partial(f, S, g)
  BY PartialExists
<1>2. IsFiniteSet(R) /\ Partial(f, R, h)
  BY PartialExists, FS_Subset
<1>a. R \subseteq S
  OBVIOUS
<1> HIDE DEF g, h, R
<1>3. Partial(f, R, Cut(g, R))
  BY <1>a, <1>1, PartialRestrict
<1>4. h = Cut(g, R)
  BY <1>2, <1>3, PartialUnique
<1>5. h[R] = g[R]
  BY <1>4 DEF Cut
<1>6. g[S] = IF S = {} THEN 0 ELSE f[First(S)] + g[R]
  BY <1>1 DEF Partial, R
<1>7. Sum(f, S) = g[S] /\ Sum(f, R) = h[R]
  BY SumDef DEF g, h
<1> QED BY <1>5, <1>6, <1>7 DEF R

\* A sum of integers is an integer.
LEMMA SumInt ==
  ASSUME NEW f, NEW S, IsFiniteSet(S), \A x \in S : f[x] \in Int
  PROVE  Sum(f, S) \in Int
<1> DEFINE T == {U \in SUBSET S : Sum(f, U) \notin Int}
<1>1. ASSUME T # {} PROVE FALSE
  <2>1. PICK U \in T : \A V \in T : V \subseteq U => V = U
    <3>1. T \subseteq SUBSET S
      OBVIOUS
    <3> HIDE DEF T
    <3> QED BY <1>1, <3>1, SmallestSubset
  <2> DEFINE a == First(U)
             R == U \ {a}
  <2>2. IsFiniteSet(U) /\ U \subseteq S
    BY <2>1, FS_Subset
  <2>3. Sum(f, U) = IF U = {} THEN 0 ELSE f[a] + Sum(f, R)
    BY <2>2, SumRec
  <2>4. U # {} => a \in U
    BY FirstIn
  <2>5. U # {} => Sum(f, R) \in Int /\ f[a] \in Int
    BY <2>1, <2>2, <2>4
  <2> HIDE DEF a, R
  <2> QED BY <2>1, <2>3, <2>5
<1> QED BY <1>1

\* A sum depends on the values of its function on the set only.
LEMMA SumSame ==
  ASSUME NEW f, NEW g, NEW S, IsFiniteSet(S), \A x \in S : f[x] = g[x]
  PROVE  Sum(f, S) = Sum(g, S)
<1> DEFINE T == {U \in SUBSET S : Sum(f, U) # Sum(g, U)}
<1>1. ASSUME T # {} PROVE FALSE
  <2>1. PICK U \in T : \A V \in T : V \subseteq U => V = U
    <3>1. T \subseteq SUBSET S
      OBVIOUS
    <3> HIDE DEF T
    <3> QED BY <1>1, <3>1, SmallestSubset
  <2> DEFINE a == First(U)
             R == U \ {a}
  <2>2. IsFiniteSet(U) /\ U \subseteq S
    BY <2>1, FS_Subset
  <2>3. /\ Sum(f, U) = IF U = {} THEN 0 ELSE f[a] + Sum(f, R)
        /\ Sum(g, U) = IF U = {} THEN 0 ELSE g[a] + Sum(g, R)
    BY <2>2, SumRec
  <2>4. U # {} => a \in U
    BY FirstIn
  <2>5. U # {} => Sum(f, R) = Sum(g, R) /\ f[a] = g[a]
    BY <2>1, <2>2, <2>4
  <2> HIDE DEF a, R
  <2> QED BY <2>1, <2>3, <2>5
<1> QED BY <1>1

\* The sum of a sum of functions.
LEMMA SumPlus ==
  ASSUME NEW f, NEW g, NEW h, NEW S, IsFiniteSet(S),
         \A x \in S : f[x] \in Int /\ g[x] \in Int /\ h[x] = f[x] + g[x]
  PROVE  Sum(h, S) = Sum(f, S) + Sum(g, S)
<1> DEFINE T == {U \in SUBSET S : Sum(h, U) # Sum(f, U) + Sum(g, U)}
<1>1. ASSUME T # {} PROVE FALSE
  <2>1. PICK U \in T : \A V \in T : V \subseteq U => V = U
    <3>1. T \subseteq SUBSET S
      OBVIOUS
    <3> HIDE DEF T
    <3> QED BY <1>1, <3>1, SmallestSubset
  <2> DEFINE a == First(U)
             R == U \ {a}
  <2>2. IsFiniteSet(U) /\ U \subseteq S
    BY <2>1, FS_Subset
  <2>3. /\ Sum(f, U) = IF U = {} THEN 0 ELSE f[a] + Sum(f, R)
        /\ Sum(g, U) = IF U = {} THEN 0 ELSE g[a] + Sum(g, R)
        /\ Sum(h, U) = IF U = {} THEN 0 ELSE h[a] + Sum(h, R)
    BY <2>2, SumRec
  <2>4. U # {} => a \in U
    BY FirstIn
  <2>5. U # {} => /\ Sum(h, R) = Sum(f, R) + Sum(g, R)
                  /\ h[a] = f[a] + g[a] /\ f[a] \in Int /\ g[a] \in Int
    BY <2>1, <2>2, <2>4
  <2>6. U # {} => Sum(f, R) \in Int /\ Sum(g, R) \in Int
    <3>1. IsFiniteSet(R) /\ R \subseteq S
      BY <2>2, FS_Subset
    <3>2. (\A x \in R : f[x] \in Int) /\ (\A x \in R : g[x] \in Int)
      BY <3>1
    <3> HIDE DEF R
    <3> QED BY <3>1, <3>2, SumInt
  <2>7. Sum(h, U) # Sum(f, U) + Sum(g, U)
    BY <2>1
  <2> HIDE DEF a, R
  <2> QED BY <2>3, <2>5, <2>6, <2>7
<1> QED BY <1>1

\* Any element can be taken out first.
LEMMA SumPull ==
  ASSUME NEW f, NEW S, IsFiniteSet(S), \A x \in S : f[x] \in Int
  PROVE  \A b \in S : Sum(f, S) = f[b] + Sum(f, S \ {b})
<1> DEFINE T == {U \in SUBSET S : \E b \in U : Sum(f, U) # f[b] + Sum(f, U \ {b})}
<1>1. ASSUME T # {} PROVE FALSE
  <2>1. PICK U \in T : \A V \in T : V \subseteq U => V = U
    <3>1. T \subseteq SUBSET S
      OBVIOUS
    <3> HIDE DEF T
    <3> QED BY <1>1, <3>1, SmallestSubset
  <2>2. PICK b \in U : Sum(f, U) # f[b] + Sum(f, U \ {b})
    BY <2>1
  <2> DEFINE a == First(U)
             R == U \ {a}
             C == U \ {b}
             D == R \ {b}
  <2>3. IsFiniteSet(U) /\ U \subseteq S /\ b \in U /\ a \in U
    BY <2>1, <2>2, FS_Subset, FirstIn
  <2>4. Sum(f, U) = f[a] + Sum(f, R)
    BY <2>3, SumRec
  <2>5. a # b /\ b \in R /\ a \in C /\ C \ {a} = D
    BY <2>2, <2>3, <2>4
  <2>6. \A V \in SUBSET U : V # U => V \notin T
    BY <2>1
  <2>7. R \in SUBSET S /\ R \notin T /\ C \in SUBSET S /\ C \notin T
    BY <2>3, <2>5, <2>6
  <2>8. Sum(f, R) = f[b] + Sum(f, D)
    BY <2>5, <2>7
  <2>9. Sum(f, C) = f[a] + Sum(f, D)
    BY <2>5, <2>7
  <2>10. IsFiniteSet(D) /\ (\A x \in D : f[x] \in Int) /\ f[a] \in Int /\ f[b] \in Int
    BY <2>3, FS_Subset
  <2> HIDE DEF a, R, C, D
  <2>11. Sum(f, D) \in Int
    BY <2>10, SumInt
  <2> QED BY <2>2, <2>4, <2>8, <2>9, <2>10, <2>11 DEF C
<1> QED BY <1>1

\* A function changed at one element changes its sum by as much.
LEMMA SumBump ==
  ASSUME NEW f, NEW g, NEW S, IsFiniteSet(S), NEW b \in S,
         \A x \in S : f[x] \in Int /\ g[x] \in Int,
         \A x \in S \ {b} : f[x] = g[x]
  PROVE  Sum(g, S) = Sum(f, S) - f[b] + g[b]
<1> DEFINE R == S \ {b}
<1>1. IsFiniteSet(R) /\ (\A x \in R : f[x] \in Int /\ f[x] = g[x])
  BY FS_Subset
<1>2. Sum(f, S) = f[b] + Sum(f, R) /\ Sum(g, S) = g[b] + Sum(g, R)
  BY SumPull
<1> HIDE DEF R
<1>3. Sum(f, R) = Sum(g, R) /\ Sum(f, R) \in Int
  BY <1>1, SumSame, SumInt
<1> QED BY <1>2, <1>3

\* One more summand.
LEMMA SumAdd ==
  ASSUME NEW f, NEW g, NEW S, IsFiniteSet(S), NEW b, b \notin S, NEW U, U = S \cup {b},
         \A x \in S : f[x] \in Int, \A x \in S : g[x] = f[x], g[b] \in Int
  PROVE  Sum(g, U) = Sum(f, S) + g[b]
<1>1. IsFiniteSet(U)
  BY FS_AddElement
<1>2. \A x \in U : g[x] \in Int
  OBVIOUS
<1>3. Sum(g, U) = g[b] + Sum(g, U \ {b})
  BY <1>1, <1>2, SumPull
<1>4. U \ {b} = S
  OBVIOUS
<1>5. Sum(g, S) = Sum(f, S) /\ Sum(f, S) \in Int
  BY SumSame, SumInt
<1>6. Sum(g, U) = g[b] + Sum(g, S)
  BY <1>3, <1>4
<1> DEFINE m == Sum(f, S)
           n == g[b]
<1>7. m \in Int /\ n \in Int /\ Sum(g, U) = n + m
  BY <1>5, <1>6
<1> HIDE DEF m, n
<1>8. Sum(g, U) = m + n
  BY <1>7
<1> QED BY <1>8 DEF m, n

\* Sums of naturals are naturals.
LEMMA SumNat ==
  ASSUME NEW f, NEW S, IsFiniteSet(S), \A x \in S : f[x] \in Nat
  PROVE  Sum(f, S) \in Nat
<1> DEFINE T == {U \in SUBSET S : Sum(f, U) \notin Nat}
<1>1. ASSUME T # {} PROVE FALSE
  <2>1. PICK U \in T : \A V \in T : V \subseteq U => V = U
    <3>1. T \subseteq SUBSET S
      OBVIOUS
    <3> HIDE DEF T
    <3> QED BY <1>1, <3>1, SmallestSubset
  <2> DEFINE a == First(U)
             R == U \ {a}
  <2>2. IsFiniteSet(U) /\ U \subseteq S
    BY <2>1, FS_Subset
  <2>3. Sum(f, U) = IF U = {} THEN 0 ELSE f[a] + Sum(f, R)
    BY <2>2, SumRec
  <2>4. U # {} => a \in U
    BY FirstIn
  <2>5. U # {} => Sum(f, R) \in Nat /\ f[a] \in Nat
    BY <2>1, <2>2, <2>4
  <2> HIDE DEF a, R
  <2> QED BY <2>1, <2>3, <2>5
<1> QED BY <1>1
-----------------------------------------------------------------------------
(***************************************************************************)
(* Rounding.                                                               *)
(***************************************************************************)

\* The quotient of a rounded division, by its defining inequalities.
LEMMA RoundedBounds ==
  ASSUME NEW x \in Nat, NEW b \in Nat \ {0}
  PROVE  /\ Rounded(x, b) \in Nat
         /\ 2 * b * Rounded(x, b) <= 2 * x + b
         /\ 2 * x + b < 2 * b * Rounded(x, b) + 2 * b
<1> DEFINE n == 2 * x + b
           d == 2 * b
           q == n \div d
<1>1. n \in Nat /\ d \in Nat \ {0}
  OBVIOUS
<1> HIDE DEF n, d
<1>2. q \in Nat /\ d * q <= n /\ n < d * q + d
  BY <1>1
<1> QED BY <1>2 DEF Rounded, n, d

\* All of it rounds to all of it.
LEMMA RoundedWhole ==
  ASSUME NEW c \in Nat, NEW b \in Nat \ {0}
  PROVE  Rounded(b * c, b) = c
<1> DEFINE q == Rounded(b * c, b)
<1>1. b * c \in Nat
  OBVIOUS
<1>2. q \in Nat /\ 2 * b * q <= 2 * (b * c) + b /\ 2 * (b * c) + b < 2 * b * q + 2 * b
  BY <1>1, RoundedBounds
<1> HIDE DEF q
<1>3. ASSUME q < c PROVE FALSE
  <2>1. b * (q + 1) <= b * c
    BY <1>2, <1>3
  <2> QED BY <1>2, <2>1
<1>4. ASSUME q > c PROVE FALSE
  <2>1. b * (c + 1) <= b * q
    BY <1>2, <1>4
  <2> QED BY <1>2, <2>1
<1>5. q = c
  BY <1>2, <1>3, <1>4
<1> QED BY <1>5 DEF q

\* A product grows with its factor.
LEMMA TimesGrows ==
  ASSUME NEW b \in Nat, NEW i \in Nat, NEW j \in Nat, i <= j
  PROVE  b * i <= b * j
<1> DEFINE k == j - i
<1>1. k \in Nat /\ j = i + k
  OBVIOUS
<1> HIDE DEF k
<1>2. b * j = b * i + b * k /\ b * k >= 0
  BY <1>1
<1>3. b * i \in Nat
  OBVIOUS
<1> QED BY <1>1, <1>2, <1>3

\* A share of at most the whole grows, and never by more than what is shared.
LEMMA RoundedShare ==
  ASSUME NEW b \in Nat \ {0}, NEW c \in 0 .. b, NEW m \in Nat, NEW n \in Nat, m <= n
  PROVE  /\ Rounded(m * c, b) \in Nat /\ Rounded(n * c, b) \in Nat
         /\ Rounded(m * c, b) <= Rounded(n * c, b)
         /\ Rounded(n * c, b) <= Rounded(m * c, b) + (n - m)
<1> DEFINE q == Rounded(m * c, b)
           r == Rounded(n * c, b)
           x == m * c
           y == n * c
           k == n - m
<1>1. x \in Nat /\ y \in Nat /\ k \in Nat
  OBVIOUS
<1> HIDE DEF x, y, k
<1>2. q \in Nat /\ 2 * b * q <= 2 * x + b /\ 2 * x + b < 2 * b * q + 2 * b
  BY <1>1, RoundedBounds DEF x
<1>3. r \in Nat /\ 2 * b * r <= 2 * y + b /\ 2 * y + b < 2 * b * r + 2 * b
  BY <1>1, RoundedBounds DEF y
<1>4. b * k \in Nat
  BY <1>1
<1>5. x <= y /\ y <= x + b * k
  <2> USE DEF x, y, k
  <2>1. y = x + k * c
    OBVIOUS
  <2>2. k * c >= 0 /\ k * c <= b * k
    BY <1>1
  <2> QED BY <1>1, <2>1, <2>2
<1> HIDE DEF q, r
<1>6. ASSUME q > r PROVE FALSE
  <2>1. r + 1 <= q /\ b \in Nat
    BY <1>2, <1>3, <1>6
  <2>2. b * (r + 1) <= b * q
    BY <1>2, <1>3, <2>1, TimesGrows
  <2>3. b * r + b <= b * q /\ b * r \in Nat /\ b * q \in Nat
    BY <1>2, <1>3, <2>2
  <2> QED BY <1>1, <1>2, <1>3, <1>5, <2>3
<1>7. ASSUME r > q + k PROVE FALSE
  <2>1. q + k + 1 <= r /\ q + k + 1 \in Nat /\ b \in Nat
    BY <1>1, <1>2, <1>3, <1>7
  <2>2. b * (q + k + 1) <= b * r
    BY <1>2, <1>3, <2>1, TimesGrows
  <2>3. b * q + b * k + b <= b * r /\ b * r \in Nat /\ b * q \in Nat
    BY <1>1, <1>2, <1>3, <2>2
  <2> QED BY <1>1, <1>2, <1>3, <1>4, <1>5, <2>3
<1> QED BY <1>1, <1>2, <1>3, <1>6, <1>7 DEF q, r, k
-----------------------------------------------------------------------------
(***************************************************************************)
(* The inductive invariant: what an open transaction is, what it still     *)
(* relies on, and how far the documents of a sale have gone.               *)
(***************************************************************************)
Readings == [lines : [Lines -> [qty : Nat, paise : Nat]], noted : Nat]

Numbered == [pc : {"numbered"}, on : Sales, ask : Credits, seen : Nat]
Flagged == [pc : {"flagged"}, on : Sales, ask : [credit : Credits, flagged : BOOLEAN], seen : Nat]
Refunding == [pc : {"refund"}, on : Sales, ask : [Lines -> Nat], seen : Readings]
Paying == [pc : {"payment"}, on : Targets, ask : Sums, seen : [cap : Int, already : Nat]]
Transactions == {Idle} \cup Numbered \cup Flagged \cup Refunding \cup Paying

Selling(w) == tx[w].pc \in {"numbered", "flagged"}

\* The row lock of the store is held by the one transaction that writes a sale.
LockOK == \A w \in Workers : lock = w <=> Selling(w)

\* A sale under way has the next number and has seen the debt it adds to; what
\* is refunded or settled has been sold.
TxOK(w) ==
  /\ Selling(w) => tx[w].seen = counter + 1 /\ sold[tx[w].on].no = 0
  /\ tx[w].pc = "flagged" => (OverLimit(tx[w].ask.credit) => tx[w].ask.flagged)
  /\ tx[w].pc = "refund" => sold[tx[w].on].no > 0
  /\ tx[w].pc = "payment" /\ tx[w].on \in Sales => sold[tx[w].on].no > 0

AllBack(s) == \A l \in Lines : back[s][l].qty = QtyOf[l]

\* What refunds keep of a sale that no two of them wrote to at once: each line
\* that is back is back in full, and the credit note is its rounded share.
ExactOK(s) ==
  /\ \A l \in Lines : /\ back[s][l].qty <= QtyOf[l]
                      /\ back[s][l].qty = QtyOf[l] => back[s][l].paise = PaiseOf[l]
  /\ PaiseBack(back[s]) <= Total
  /\ notes[s] = Rounded(PaiseBack(back[s]) * sold[s].credit, Total)
  /\ AllBack(s) => status[s] = "refunded"

SaleOK(s) ==
  /\ sold[s].no = 0 => sold[s].credit = 0 /\ back[s] = Nothing /\ notes[s] = 0 /\ paid[s] = 0
  /\ s \notin raced => ExactOK(s)

IInv ==
  /\ TypeOK /\ tx \in [Workers -> Transactions] /\ LockOK
  /\ \A w \in Workers : TxOK(w)
  /\ \A s \in Sales : SaleOK(s)
  /\ InvoicesDense /\ BooksAgree
-----------------------------------------------------------------------------
(***************************************************************************)
(* What the constants give: a cart costs something, a credit portion is at *)
(* most what it costs, and a refund asks for a number of pieces.           *)
(***************************************************************************)
LEMMA Constants ==
  /\ IsFiniteSet(Sales) /\ IsFiniteSet(Bills) /\ IsFiniteSet(Lines)
  /\ Total \in Nat \ {0}
  /\ \A c \in Credits \cup {0} : c \in Nat /\ c <= Total
  /\ Returns \subseteq [Lines -> Nat]
<1>1. IsFiniteSet(Sales) /\ IsFiniteSet(Bills) /\ IsFiniteSet(Lines)
  BY LedgerAssumption
<1>2. \A l \in Lines : PaiseOf[l] \in Nat \ {0}
  BY LedgerAssumption
<1>3. PICK b \in Lines : TRUE
  BY LedgerAssumption
<1>4. Total \in Nat \ {0}
  <2> DEFINE R == Lines \ {b}
  <2>1. Sum(PaiseOf, Lines) = PaiseOf[b] + Sum(PaiseOf, R)
    BY <1>1, <1>2, SumPull
  <2>2. IsFiniteSet(R) /\ \A l \in R : PaiseOf[l] \in Nat
    BY <1>1, <1>2, FS_Subset
  <2> HIDE DEF R
  <2>3. Sum(PaiseOf, R) \in Nat
    BY <2>2, SumNat
  <2> QED BY <1>2, <2>1, <2>3 DEF Total
<1>5. \A c \in Credits \cup {0} : c \in Nat /\ c <= Total
  BY <1>4, CreditsAssumption
<1>6. Returns \subseteq [Lines -> Nat]
  <2>1. ASSUME NEW m PROVE 0 .. m \subseteq Nat
    OBVIOUS
  <2> QED BY <2>1 DEF Returns
<1> QED BY <1>1, <1>4, <1>5, <1>6

\* What the invariant says of the types, and that the sales made are finitely many.
LEMMA Types ==
  ASSUME IInv
  PROVE  /\ counter \in Nat /\ till \in Int /\ owes \in Int
         /\ sold \in [Sales -> [no : Nat, credit : Credits \cup {0}, flagged : BOOLEAN]]
         /\ back \in [Sales -> [Lines -> [qty : Nat, paise : Nat]]]
         /\ notes \in [Sales -> Nat] /\ paid \in [Targets -> Nat]
         /\ raced \subseteq Targets /\ DOMAIN status = Targets
         /\ Sold \subseteq Sales /\ IsFiniteSet(Sold)
         /\ \A s \in Sales : sold[s].credit \in Nat /\ sold[s].credit <= Total
<1>1. Sold \subseteq Sales
  BY DEF Sold
<1>2. IsFiniteSet(Sold)
  BY <1>1, Constants, FS_Subset
<1> QED BY <1>1, <1>2, Constants DEF IInv, TypeOK

\* A refund of nothing yet gives nothing back.
LEMMA NothingBack == PaiseBack(Nothing) = 0
<1> DEFINE z == [l \in Lines |-> Nothing[l].paise]
<1>1. \A l \in Lines : z[l] = 0
  BY DEF Nothing
<1>2. IsFiniteSet(Lines)
  BY Constants
<1> HIDE DEF z
<1>3. Sum(z, Lines) = Sum(z, Lines) + Sum(z, Lines)
  BY <1>1, <1>2, SumPlus
<1>4. Sum(z, Lines) \in Nat
  BY <1>1, <1>2, SumNat
<1> DEFINE n == Sum(z, Lines)
<1>5. n \in Nat /\ n = n + n
  BY <1>3, <1>4
<1> HIDE DEF n
<1>6. n = 0
  BY <1>5
<1> QED BY <1>6 DEF PaiseBack, z, n

\* What is given back, and so what the books should say, are integers.
LEMMA BackNat ==
  ASSUME NEW r \in [Lines -> [qty : Nat, paise : Nat]]
  PROVE  PaiseBack(r) \in Nat
<1> DEFINE z == [l \in Lines |-> r[l].paise]
<1>1. \A l \in Lines : z[l] \in Nat
  OBVIOUS
<1> HIDE DEF z
<1>2. Sum(z, Lines) \in Nat
  BY <1>1, Constants, SumNat
<1> QED BY <1>2 DEF PaiseBack, z

\* What the books should say is an integer.
LEMMA SumTypes ==
  ASSUME IInv
  PROVE  /\ \A s \in Sales : PaiseBack(back[s]) \in Nat /\ Debt[s] \in Int /\ Money[s] \in Int
         /\ \A t \in Targets : paid[t] \in Nat
         /\ Sum(Debt, Sold) \in Int /\ Sum(Money, Sold) \in Int /\ Sum(paid, Bills) \in Int
<1>1. \A s \in Sales : PaiseBack(back[s]) \in Nat
  BY Types, BackNat
<1>2. \A s \in Sales : Debt[s] \in Int /\ Money[s] \in Int
  BY <1>1, Types, Constants DEF Debt, Money, Targets
<1>3. \A t \in Targets : paid[t] \in Nat
  BY Types
<1>4. Sum(Debt, Sold) \in Int /\ Sum(Money, Sold) \in Int
  BY <1>2, Types, SumInt
<1>5. Sum(paid, Bills) \in Int
  <2>1. \A t \in Bills : paid[t] \in Int
    BY <1>3 DEF Targets
  <2> QED BY <2>1, Constants, SumInt
<1> QED BY <1>1, <1>2, <1>3, <1>4, <1>5
-----------------------------------------------------------------------------
(***************************************************************************)
(* Each action keeps the invariant.                                        *)
(***************************************************************************)
\* Before the first sale the invariant holds.
LEMMA InitInv == Init => IInv
<1> SUFFICES ASSUME Init PROVE IInv
  OBVIOUS
<1> USE DEF Init
<1>1. TypeOK
  BY LedgerAssumption DEF TypeOK, Targets, Nothing, Idle
<1>2. tx \in [Workers -> Transactions]
  BY DEF Transactions
<1>3. LockOK
  BY LedgerAssumption DEF LockOK, Selling, Idle
<1>4. \A w \in Workers : TxOK(w)
  BY DEF TxOK, Selling, Idle
<1>5. ASSUME NEW s \in Sales PROVE SaleOK(s)
  <2>1. \A l \in Lines : back[s][l].qty < QtyOf[l]
    BY LedgerAssumption DEF Nothing
  <2>2. ~ AllBack(s)
    BY <2>1, LedgerAssumption DEF AllBack, Nothing
  <2>3. PaiseBack(back[s]) = 0
    BY NothingBack
  <2>4. Rounded(0, Total) = 0
    BY Constants, RoundedWhole
  <2>5. ExactOK(s)
    BY <2>1, <2>2, <2>3, <2>4, Constants, LedgerAssumption DEF ExactOK, Nothing
  <2> QED BY <2>5 DEF SaleOK, Targets
<1>6. Sold = {}
  BY DEF Sold
<1>7. InvoicesDense
  BY <1>6, FS_EmptySet DEF InvoicesDense
<1>8. BooksAgree
  <2>1. Sum(Debt, {}) = 0 /\ Sum(Money, {}) = 0
    BY FS_EmptySet, SumRec
  <2>2. \A t \in Bills : paid[t] = 0
    BY DEF Targets
  <2>3. Sum(paid, Bills) = Sum(paid, Bills) + Sum(paid, Bills)
    BY <2>2, Constants, SumPlus
  <2>4. Sum(paid, Bills) \in Nat
    BY <2>2, Constants, SumNat
  <2> DEFINE n == Sum(paid, Bills)
  <2>5. n \in Nat /\ n = n + n
    BY <2>3, <2>4
  <2> HIDE DEF n
  <2>6. n = 0
    BY <2>5
  <2> QED BY <1>6, <2>1, <2>6 DEF BooksAgree, n
<1> QED BY <1>1, <1>2, <1>3, <1>4, <1>5, <1>7, <1>8 DEF IInv

\* The documents and the books are untouched when only a transaction moves.
LEMMA BooksKept ==
  ASSUME IInv, UNCHANGED books
  PROVE  (\A s \in Sales : SaleOK(s))' /\ InvoicesDense' /\ BooksAgree'
<1> USE DEF books, IInv
<1>1. Sold' = Sold /\ Debt' = Debt /\ Money' = Money
  BY DEF Sold, Debt, Money
<1>2. (\A s \in Sales : SaleOK(s))'
  BY DEF SaleOK, ExactOK, AllBack
<1>3. InvoicesDense'
  BY <1>1 DEF InvoicesDense
<1>4. BooksAgree'
  BY <1>1 DEF BooksAgree
<1> QED BY <1>2, <1>3, <1>4

\* A transaction ends.
LEMMA RollBackInv == ASSUME IInv, NEW w \in Workers, RollBack(w) PROVE IInv'
<1> USE DEF RollBack, Ends, At, Released, books
<1>1. tx' \in [Workers -> Transactions] /\ tx'[w] = Idle /\ \A v \in Workers \ {w} : tx'[v] = tx[v]
  BY DEF IInv, Transactions
<1>2. TypeOK'
  BY <1>1 DEF IInv, TypeOK, LockOK, Selling, Idle
<1>3. LockOK'
  BY <1>1, LedgerAssumption DEF IInv, LockOK, Selling, Idle
<1>4. (\A v \in Workers : TxOK(v))'
  BY <1>1 DEF IInv, TxOK, Selling, Idle, OverLimit
<1> QED BY <1>1, <1>2, <1>3, <1>4, BooksKept DEF IInv

\* A sale takes the lock and the next number.
LEMMA SaleNumberInv ==
  ASSUME IInv, NEW w \in Workers, NEW s \in Sales, NEW credit \in Credits, SaleNumber(w, s, credit)
  PROVE  IInv'
<1> USE DEF SaleNumber, Goes, At, StoreFree, books
<1>1. [pc |-> "numbered", on |-> s, ask |-> credit, seen |-> counter + 1] \in Numbered
  BY Types DEF Numbered
<1>2. /\ tx' \in [Workers -> Transactions]
      /\ tx'[w] = [pc |-> "numbered", on |-> s, ask |-> credit, seen |-> counter + 1]
      /\ \A v \in Workers \ {w} : tx'[v] = tx[v]
  BY <1>1 DEF IInv, Transactions
<1>3. TypeOK'
  BY <1>2 DEF IInv, TypeOK
<1>4. LockOK'
  BY <1>2, LedgerAssumption DEF IInv, LockOK, Selling
<1>5. (\A v \in Workers : TxOK(v))'
  BY <1>2 DEF IInv, TxOK, Selling, OverLimit
<1> QED BY <1>2, <1>3, <1>4, <1>5, BooksKept DEF IInv

\* What the review flag does to an open transaction.
LEMMA Flagging ==
  ASSUME NEW r \in Numbered, NEW a
  PROVE  [r EXCEPT !.pc = "flagged", !.ask = a] = [pc |-> "flagged", on |-> r.on, ask |-> a, seen |-> r.seen]
<1> DEFINE q == [r EXCEPT !.pc = "flagged"]
<1>1. q = [pc |-> "flagged", on |-> r.on, ask |-> r.ask, seen |-> r.seen]
  BY DEF Numbered
<1>2. [r EXCEPT !.pc = "flagged", !.ask = a] = [q EXCEPT !.ask = a]
  OBVIOUS
<1> HIDE DEF q
<1>3. [q EXCEPT !.ask = a] = [pc |-> "flagged", on |-> r.on, ask |-> a, seen |-> r.seen]
  BY <1>1
<1> QED BY <1>2, <1>3

\* The flag of a sale is what its debt calls for.
LEMMA SaleFlagInv == ASSUME IInv, NEW w \in Workers, SaleFlag(w) PROVE IInv'
<1> USE DEF SaleFlag, At, books
<1> DEFINE o == OverLimit(tx[w].ask)
           t == [pc |-> "flagged", on |-> tx[w].on,
                 ask |-> [credit |-> tx[w].ask, flagged |-> o], seen |-> tx[w].seen]
<1>0. o \in BOOLEAN /\ (o <=> OverLimit(tx[w].ask))
  BY DEF OverLimit
<1>1. tx[w] \in Numbered
  BY DEF IInv, Transactions, Numbered, Flagged, Refunding, Paying, Idle
<1>2. t \in Flagged
  BY <1>1 DEF Numbered, Flagged, OverLimit
<1>3. tx' = [tx EXCEPT ![w] = t]
  <2> DEFINE u == [tx[w] EXCEPT !.pc = "flagged", !.ask = t.ask]
  <2>1. tx' = [tx EXCEPT ![w] = u]
    OBVIOUS
  <2>2. u = t
    BY <1>1, Flagging
  <2> QED BY <2>1, <2>2
<1> HIDE DEF SaleFlag, t, o
<1>4. /\ tx' \in [Workers -> Transactions] /\ tx'[w] = t
      /\ \A v \in Workers \ {w} : tx'[v] = tx[v]
  BY <1>2, <1>3 DEF IInv, Transactions
<1>5. tx[w].pc = "numbered" /\ lock' = lock /\ UNCHANGED books
  BY DEF SaleFlag
<1>6. TypeOK'
  <2>1. tx'[w].pc = "flagged" /\ \A v \in Workers : v # w => tx'[v].pc = tx[v].pc
    BY <1>0, <1>4, <1>5 DEF t, OverLimit, books
  <2> QED BY <1>5, <2>1 DEF IInv, TypeOK, books
<1>7. LockOK'
  BY <1>4, <1>5 DEF IInv, LockOK, Selling, t
<1>8. (\A v \in Workers : TxOK(v))'
  <2>1. /\ tx'[w].pc = "flagged" /\ tx'[w].on = tx[w].on /\ tx'[w].seen = tx[w].seen
        /\ OverLimit(tx'[w].ask.credit) => tx'[w].ask.flagged
    BY <1>0, <1>4, <1>5 DEF t, OverLimit, books
  <2> HIDE DEF books
  <2>2. TxOK(w)'
    BY <1>5, <2>1 DEF IInv, TxOK, Selling, OverLimit, books
  <2>3. ASSUME NEW v \in Workers \ {w} PROVE TxOK(v)'
    BY <1>4, <1>5, <2>3 DEF IInv, TxOK, Selling, OverLimit, books
  <2> QED BY <2>2, <2>3
<1> QED BY <1>4, <1>6, <1>7, <1>8, <1>5, BooksKept DEF IInv

\* A sale is written: the next invoice, the debt and the money it brings.
LEMMA SaleCommitInv == ASSUME IInv, NEW w \in Workers, SaleCommit(w) PROVE IInv'
<1>0. PICK s, credit, flagged, r :
        /\ s = tx[w].on /\ credit = tx[w].ask.credit /\ flagged = tx[w].ask.flagged
        /\ r = [no |-> tx[w].seen, credit |-> credit, flagged |-> flagged]
  OBVIOUS
<1>1. tx[w] \in Flagged
  BY DEF IInv, Transactions, Numbered, Flagged, Refunding, Paying, Idle, SaleCommit, At
<1>2. s \in Sales /\ credit \in Credits /\ credit \in Nat /\ tx[w].seen \in Nat /\ r \in [no : Nat, credit : Credits \cup {0}, flagged : BOOLEAN]
  BY <1>0, <1>1, Constants DEF Flagged
<1>3. lock = w /\ tx[w].seen = counter + 1 /\ sold[s].no = 0
  BY <1>0 DEF IInv, SaleCommit, At, LockOK, TxOK, Selling
<1>4. /\ sold' = [sold EXCEPT ![s] = r] /\ till' = till + Total - credit /\ owes' = owes + credit
      /\ counter' = counter + 1 /\ lock' = NoOne /\ tx' = [tx EXCEPT ![w] = Idle]
      /\ UNCHANGED <<back, notes, paid, status, raced>>
  BY <1>0, <1>3 DEF SaleCommit, Ends, Released
<1>5. r.no = counter + 1 /\ r.credit = credit
  BY <1>0, <1>3
<1>6. sold' \in [Sales -> [no : Nat, credit : Credits \cup {0}, flagged : BOOLEAN]] /\ sold'[s] = r /\ \A x \in Sales \ {s} : sold'[x] = sold[x]
  BY <1>2, <1>4, Types
<1>7. tx' \in [Workers -> Transactions] /\ tx'[w] = Idle /\ \A v \in Workers \ {w} : tx'[v] = tx[v]
  BY <1>4 DEF IInv, Transactions
<1>8. TypeOK'
  <2>1. till' \in Int /\ owes' \in Int /\ counter' \in Nat
    BY <1>2, <1>4, Types, Constants
  <2>2. \A v \in Workers : tx'[v].pc \in {"idle", "numbered", "flagged", "refund", "payment"}
    BY <1>7 DEF IInv, TypeOK, Idle
  <2> QED BY <1>4, <1>6, <2>1, <2>2 DEF IInv, TypeOK
<1>9. LockOK'
  BY <1>3, <1>4, <1>7, LedgerAssumption DEF IInv, LockOK, Selling, Idle
<1>10. (\A v \in Workers : TxOK(v))'
  <2>1. TxOK(w)'
    BY <1>7 DEF TxOK, Selling, Idle
  <2>2. ASSUME NEW v \in Workers \ {w} PROVE TxOK(v)'
    <3>1. ~ Selling(v)
      BY <1>3, <2>2 DEF IInv, LockOK
    <3>2. \A x \in Sales : sold[x].no > 0 => sold'[x].no > 0
      <4>1. counter + 1 > 0
        BY Types
      <4> QED BY <1>5, <1>6, <4>1
    <3>3. tx[v] \in Transactions
      BY <2>2 DEF IInv
    <3>4. tx[v].pc = "refund" => tx[v].on \in Sales
      BY <3>3 DEF Transactions, Idle, Numbered, Flagged, Refunding, Paying
    <3> QED BY <1>7, <2>2, <3>1, <3>2, <3>4 DEF IInv, TxOK, Selling
  <2> QED BY <2>1, <2>2
<1>11. (\A x \in Sales : SaleOK(x))'
  <2>1. SaleOK(s)'
    <3>1. back[s] = Nothing /\ notes[s] = 0
      BY <1>2, <1>3 DEF IInv, SaleOK
    <3>2. PaiseBack(back[s]) = 0
      BY <3>1, NothingBack
    <3>3. 0 * credit = 0 /\ Rounded(0, Total) = 0
      BY <1>2, Constants, RoundedWhole
    <3>4. s \notin raced => ExactOK(s)
      BY <1>2 DEF IInv, SaleOK
    <3>5. s \notin raced => ExactOK(s)'
      BY <1>4, <1>5, <1>6, <3>1, <3>2, <3>3, <3>4 DEF ExactOK, AllBack
    <3> QED BY <1>4, <1>5, <1>6, <3>5, Types DEF SaleOK
  <2>2. ASSUME NEW x \in Sales \ {s} PROVE SaleOK(x)'
    <3>1. SaleOK(x)
      BY <2>2 DEF IInv
    <3> QED BY <1>4, <1>6, <2>2, <3>1 DEF SaleOK, ExactOK, AllBack
  <2> QED BY <2>1, <2>2
<1>12. Sold' = Sold \cup {s} /\ s \notin Sold
  BY <1>2, <1>3, <1>5, <1>6, Types DEF Sold
<1>13. InvoicesDense'
  <2>1. Cardinality(Sold') = Cardinality(Sold) + 1
    BY <1>12, Types, FS_AddElement
  <2>2. {sold[x].no : x \in Sold} = 1 .. counter /\ counter = Cardinality(Sold)
    BY DEF IInv, InvoicesDense
  <2>3. {sold'[x].no : x \in Sold'} = {sold[x].no : x \in Sold} \cup {counter + 1}
    BY <1>5, <1>6, <1>12, Types
  <2>4. 1 .. counter + 1 = (1 .. counter) \cup {counter + 1}
    BY Types
  <2>5. {sold'[x].no : x \in Sold'} = 1 .. counter'
    BY <1>4, <2>2, <2>3, <2>4
  <2> QED BY <1>4, <2>1, <2>2, <2>5 DEF InvoicesDense
<1>14. BooksAgree'
  <2> SUFFICES ASSUME raced = {}
               PROVE  owes' = Sum(Debt', Sold') /\ till' = Sum(Money', Sold') - Sum(paid', Bills)
    BY <1>4 DEF BooksAgree
  <2>1. back[s] = Nothing /\ notes[s] = 0 /\ paid[s] = 0
    BY <1>2, <1>3 DEF IInv, SaleOK
  <2>2. PaiseBack(back[s]) = 0
    BY <2>1, NothingBack
  <2>3. Debt'[s] = credit /\ Money'[s] = Total - credit
    BY <1>2, <1>4, <1>5, <1>6, <2>1, <2>2, Constants DEF Debt, Money
  <2>4. \A x \in Sold : Debt'[x] = Debt[x] /\ Money'[x] = Money[x]
    BY <1>4, <1>6, <1>12, Types DEF Debt, Money
  <2>5. \A x \in Sold : Debt[x] \in Int /\ Money[x] \in Int
    BY SumTypes, Types
  <2>6. Sum(Debt', Sold') = Sum(Debt, Sold) + credit
    <3> DEFINE f == Debt
               g == Debt'
               S == Sold
               U == Sold'
    <3>1. IsFiniteSet(S) /\ s \notin S /\ U = S \cup {s}
      BY <1>12, Types
    <3>2. (\A x \in S : f[x] \in Int) /\ \A x \in S : g[x] = f[x]
      BY <2>4, <2>5
    <3>3. g[s] = credit /\ g[s] \in Int
      BY <1>2, <2>3
    <3> HIDE DEF f, g, S, U
    <3>4. Sum(g, U) = Sum(f, S) + g[s]
      BY <3>1, <3>2, <3>3, SumAdd
    <3> QED BY <3>3, <3>4 DEF f, g, S, U
  <2>7. Sum(Money', Sold') = Sum(Money, Sold) + (Total - credit)
    <3> DEFINE f == Money
               g == Money'
               S == Sold
               U == Sold'
    <3>1. IsFiniteSet(S) /\ s \notin S /\ U = S \cup {s}
      BY <1>12, Types
    <3>2. (\A x \in S : f[x] \in Int) /\ \A x \in S : g[x] = f[x]
      BY <2>4, <2>5
    <3>3. g[s] = (Total - credit) /\ g[s] \in Int
      BY <1>2, <2>3, Constants
    <3> HIDE DEF f, g, S, U
    <3>4. Sum(g, U) = Sum(f, S) + g[s]
      BY <3>1, <3>2, <3>3, SumAdd
    <3> QED BY <3>3, <3>4 DEF f, g, S, U
  <2>8. owes = Sum(Debt, Sold) /\ till = Sum(Money, Sold) - Sum(paid, Bills)
    BY DEF IInv, BooksAgree
  <2> QED BY <1>2, <1>4, <2>6, <2>7, <2>8, SumTypes, Types, Constants
<1> QED BY <1>7, <1>8, <1>9, <1>10, <1>11, <1>13, <1>14 DEF IInv

\* A refund reads what is already back.
LEMMA RefundReadInv ==
  ASSUME IInv, NEW w \in Workers, NEW s \in Sales, NEW qty \in Returns, RefundRead(w, s, qty)
  PROVE  IInv'
<1>1. PICK r : r = [pc |-> "refund", on |-> s, ask |-> qty, seen |-> RefundReading(s)]
  OBVIOUS
<1>2. r \in Refunding
  BY <1>1, Types, Constants DEF Refunding, Readings, RefundReading
<1>3. tx' = [tx EXCEPT ![w] = r] /\ lock' = lock /\ UNCHANGED books /\ tx[w].pc = "idle" /\ sold[s].no > 0
  BY <1>1 DEF RefundRead, Goes, At
<1>4. /\ tx' \in [Workers -> Transactions] /\ tx'[w] = r
      /\ \A v \in Workers \ {w} : tx'[v] = tx[v]
  BY <1>2, <1>3 DEF IInv, Transactions
<1>5. r.pc = "refund" /\ r.on = s
  BY <1>1
<1>6. TypeOK'
  BY <1>3, <1>4, <1>5 DEF IInv, TypeOK, books
<1>7. LockOK'
  BY <1>3, <1>4, <1>5 DEF IInv, LockOK, Selling
<1>8. (\A v \in Workers : TxOK(v))'
  BY <1>3, <1>4, <1>5 DEF IInv, TxOK, Selling, OverLimit, books
<1> QED BY <1>3, <1>4, <1>6, <1>7, <1>8, BooksKept DEF IInv

\* A settlement reads what is left to settle.
LEMMA PaymentReadInv ==
  ASSUME IInv, NEW w \in Workers, NEW t \in Targets, NEW sum \in Sums, PaymentRead(w, t, sum)
  PROVE  IInv'
<1>1. PICK r : r = [pc |-> "payment", on |-> t, ask |-> sum, seen |-> PaymentReading(t)]
  OBVIOUS
<1>2. r \in Paying
  <2>1. paid[t] \in Nat
    BY Types
  <2>2. Cap(t) \in Int
    BY Types, LedgerAssumption DEF Cap, Targets
  <2> QED BY <1>1, <2>1, <2>2 DEF Paying, PaymentReading
<1>3. /\ tx' = [tx EXCEPT ![w] = r] /\ lock' = lock /\ UNCHANGED books /\ tx[w].pc = "idle"
      /\ t \in Sales => sold[t].no > 0
  BY <1>1 DEF PaymentRead, Goes, At
<1>4. /\ tx' \in [Workers -> Transactions] /\ tx'[w] = r
      /\ \A v \in Workers \ {w} : tx'[v] = tx[v]
  BY <1>2, <1>3 DEF IInv, Transactions
<1>5. r.pc = "payment" /\ r.on = t
  BY <1>1
<1>6. TypeOK'
  BY <1>3, <1>4, <1>5 DEF IInv, TypeOK, books
<1>7. LockOK'
  BY <1>3, <1>4, <1>5 DEF IInv, LockOK, Selling
<1>8. (\A v \in Workers : TxOK(v))'
  BY <1>3, <1>4, <1>5 DEF IInv, TxOK, Selling, OverLimit, books
<1> QED BY <1>3, <1>4, <1>6, <1>7, <1>8, BooksKept DEF IInv

\* A settlement is written, of a sale or of a bill.
LEMMA PaymentCommitInv == ASSUME IInv, NEW w \in Workers, PaymentCommit(w) PROVE IInv'
<1>0. PICK t, sum, seen : t = tx[w].on /\ sum = tx[w].ask /\ seen = tx[w].seen
  OBVIOUS
<1>1. tx[w] \in Paying
  BY DEF IInv, Transactions, Numbered, Flagged, Refunding, Paying, Idle, PaymentCommit, At
<1>2. t \in Targets /\ sum \in Sums /\ sum \in Nat \ {0} /\ seen.already \in Nat /\ seen.cap \in Int
  BY <1>0, <1>1, LedgerAssumption DEF Paying
<1>3. t \in Sales => sold[t].no > 0
  BY <1>0 DEF IInv, TxOK, PaymentCommit, At
<1>4. /\ paid' = [paid EXCEPT ![t] = @ + sum] /\ tx' = [tx EXCEPT ![w] = Idle]
      /\ t \in Sales => till' = till + sum /\ owes' = owes - sum /\ status' = status
      /\ t \notin Sales => till' = till - sum /\ owes' = owes
      /\ raced' = raced \/ raced' = raced \cup {t}
      /\ UNCHANGED <<lock, counter, sold, back, notes>>
  BY <1>0 DEF PaymentCommit, Ends
<1>4a. \E x : x \in {"paid", "partially_paid"} /\ (t \notin Sales => status' = [status EXCEPT ![t] = x])
  BY <1>0 DEF PaymentCommit
<1>5. /\ paid' \in [Targets -> Nat] /\ paid'[t] = paid[t] + sum
      /\ \A x \in Targets \ {t} : paid'[x] = paid[x]
  BY <1>2, <1>4, Types
<1>6. tx' \in [Workers -> Transactions] /\ tx'[w] = Idle /\ \A v \in Workers \ {w} : tx'[v] = tx[v]
  BY <1>4 DEF IInv, Transactions
<1>7. \A s \in Sales : status'[s] = status[s]
  <2>1. CASE t \in Sales
    BY <1>4, <2>1
  <2>2. CASE t \notin Sales
    BY <1>4a, <2>2, Types DEF Targets
  <2> QED BY <2>1, <2>2
<1>8. TypeOK'
  <2>1. till' \in Int /\ owes' \in Int
    BY <1>2, <1>4, Types
  <2>2. \A v \in Workers : tx'[v].pc \in {"idle", "numbered", "flagged", "refund", "payment"}
    BY <1>6 DEF IInv, TypeOK, Idle
  <2>3. lock' # NoOne => tx'[lock'].pc \in {"numbered", "flagged"}
    BY <1>4, <1>6 DEF IInv, LockOK, Selling, TypeOK, PaymentCommit, At
  <2>4. status' \in [Targets -> {"completed", "partially_refunded", "refunded", "open", "partially_paid", "paid"}]
    <3>1. status \in [Targets -> {"completed", "partially_refunded", "refunded", "open", "partially_paid", "paid"}]
      BY DEF IInv, TypeOK
    <3> QED BY <1>2, <1>4, <1>4a, <3>1
  <2> QED BY <1>2, <1>4, <1>5, <2>1, <2>2, <2>3, <2>4 DEF IInv, TypeOK
<1>9. LockOK'
  BY <1>4, <1>6 DEF IInv, LockOK, Selling, Idle, PaymentCommit, At
<1>10. (\A v \in Workers : TxOK(v))'
  <2>1. TxOK(w)'
    BY <1>6 DEF TxOK, Selling, Idle
  <2>2. ASSUME NEW v \in Workers \ {w} PROVE TxOK(v)'
    <3>1. TxOK(v) /\ tx[v] \in Transactions
      BY <2>2 DEF IInv
    <3>2. tx[v].pc = "flagged" => tx[v].ask.credit \in Nat
      BY <3>1, Constants DEF Transactions, Idle, Numbered, Flagged, Refunding, Paying
    <3>3. owes' <= owes /\ owes' \in Int /\ owes \in Int /\ Limit \in Nat
      BY <1>2, <1>4, Types, LedgerAssumption
    <3> QED BY <1>4, <1>6, <2>2, <3>1, <3>2, <3>3 DEF TxOK, Selling, OverLimit
  <2> QED BY <2>1, <2>2
<1>11. ASSUME NEW s \in Sales PROVE SaleOK(s)'
  <2>1. SaleOK(s)
    BY DEF IInv
  <2>2. s \notin raced' => s \notin raced
    BY <1>4
  <2>3. sold[s].no = 0 => paid'[s] = paid[s]
    BY <1>3, <1>5 DEF Targets
  <2> QED BY <1>4, <1>7, <2>1, <2>2, <2>3 DEF SaleOK, ExactOK, AllBack
<1>12. Sold' = Sold
  BY <1>4 DEF Sold
<1>13. InvoicesDense'
  BY <1>4, <1>12 DEF IInv, InvoicesDense
<1>14. BooksAgree'
  <2> SUFFICES ASSUME raced' = {}
               PROVE  owes' = Sum(Debt', Sold) /\ till' = Sum(Money', Sold) - Sum(paid', Bills)
    BY <1>12 DEF BooksAgree
  <2>0. raced = {}
    BY <1>4
  <2>1. owes = Sum(Debt, Sold) /\ till = Sum(Money, Sold) - Sum(paid, Bills)
    BY <2>0 DEF IInv, BooksAgree
  <2>2. CASE t \in Sales
    <3>1. t \in Sold /\ t \notin Bills
      BY <1>3, <2>2, LedgerAssumption DEF Sold
    <3>2. Debt'[t] = Debt[t] - sum /\ Money'[t] = Money[t] + sum
      BY <1>2, <1>4, <1>5, <2>2, Types, SumTypes, Constants DEF Debt, Money
    <3>3. \A x \in Sold \ {t} : Debt'[x] = Debt[x] /\ Money'[x] = Money[x]
      BY <1>4, <1>5, Types DEF Debt, Money, Targets
    <3>4. \A x \in Sold : Debt[x] \in Int /\ Money[x] \in Int /\ Debt'[x] \in Int /\ Money'[x] \in Int
      <4>1. \A x \in Sold : Debt[x] \in Int /\ Money[x] \in Int
        BY SumTypes, Types
      <4>2. Debt'[t] \in Int /\ Money'[t] \in Int
        BY <1>2, <3>1, <3>2, <4>1
      <4> QED BY <3>3, <4>1, <4>2
    <3>5. Sum(Debt', Sold) = Sum(Debt, Sold) - Debt[t] + Debt'[t]
      <4> DEFINE f == Debt
                 g == Debt'
                 S == Sold
      <4>1. IsFiniteSet(S) /\ t \in S /\ (\A x \in S : f[x] \in Int /\ g[x] \in Int) /\ \A x \in S \ {t} : f[x] = g[x]
        BY <3>1, <3>3, <3>4, Types
      <4> HIDE DEF f, g, S
      <4>2. Sum(g, S) = Sum(f, S) - f[t] + g[t]
        BY <4>1, SumBump
      <4> QED BY <4>2 DEF f, g, S
    <3>6. Sum(Money', Sold) = Sum(Money, Sold) - Money[t] + Money'[t]
      <4> DEFINE f == Money
                 g == Money'
                 S == Sold
      <4>1. IsFiniteSet(S) /\ t \in S /\ (\A x \in S : f[x] \in Int /\ g[x] \in Int) /\ \A x \in S \ {t} : f[x] = g[x]
        BY <3>1, <3>3, <3>4, Types
      <4> HIDE DEF f, g, S
      <4>2. Sum(g, S) = Sum(f, S) - f[t] + g[t]
        BY <4>1, SumBump
      <4> QED BY <4>2 DEF f, g, S
    <3>7. Sum(paid', Bills) = Sum(paid, Bills)
      <4>1. \A x \in Bills : paid'[x] = paid[x]
        BY <1>5, <3>1 DEF Targets
      <4> DEFINE g == paid'
      <4>2. \A x \in Bills : g[x] = paid[x]
        BY <4>1
      <4> HIDE DEF g
      <4>3. Sum(g, Bills) = Sum(paid, Bills)
        BY <4>2, Constants, SumSame
      <4> QED BY <4>3 DEF g
    <3> QED BY <1>2, <1>4, <2>1, <2>2, <3>1, <3>2, <3>4, <3>5, <3>6, <3>7, SumTypes
  <2>3. CASE t \notin Sales
    <3>1. t \in Bills
      BY <1>2, <2>3 DEF Targets
    <3>2. \A x \in Sales : Debt'[x] = Debt[x] /\ Money'[x] = Money[x]
      BY <1>4, <1>5, <2>3 DEF Debt, Money, Targets
    <3>3. Debt' = Debt /\ Money' = Money
      BY <3>2 DEF Debt, Money
    <3>4. Sum(paid', Bills) = Sum(paid, Bills) + sum
      <4> DEFINE g == paid'
      <4>1. (\A x \in Bills : paid[x] \in Int /\ g[x] \in Int) /\ \A x \in Bills \ {t} : paid[x] = g[x]
        BY <1>5, Types DEF Targets
      <4>2. g[t] = paid[t] + sum /\ paid[t] \in Nat
        BY <1>2, <1>5, Types
      <4> HIDE DEF g
      <4>3. Sum(g, Bills) = Sum(paid, Bills) - paid[t] + g[t]
        BY <3>1, <4>1, Constants, SumBump
      <4>4. Sum(g, Bills) = Sum(paid, Bills) + sum
        BY <1>2, <4>2, <4>3, SumTypes
      <4> QED BY <4>4 DEF g
    <3> QED BY <1>2, <1>4, <2>1, <2>3, <3>3, <3>4, SumTypes
  <2> QED BY <2>2, <2>3
<1> QED BY <1>6, <1>8, <1>9, <1>10, <1>11, <1>13, <1>14 DEF IInv

\* What a refund is about to write, as a record the step names once.
RefundFacts(w, s, qty, seen, amount, sum, given, credit) ==
  /\ s = tx[w].on /\ qty = tx[w].ask /\ seen = tx[w].seen
  /\ amount = [l \in Lines |-> IF qty[l] = 0 THEN 0 ELSE LineAmount(l, seen.lines[l], qty[l])]
  /\ sum = Sum(amount, Lines)
  /\ given = PaiseBack(seen.lines) + sum
  /\ credit = IF sold[s].credit > 0 THEN CreditShare(s, given, seen.noted) ELSE 0

\* The amounts of a refund are amounts, whatever it has read.
LEMMA RefundAmounts ==
  ASSUME IInv, NEW w \in Workers, RefundCommit(w),
         NEW s, NEW qty, NEW seen, NEW amount, NEW sum, NEW given, NEW credit,
         RefundFacts(w, s, qty, seen, amount, sum, given, credit)
  PROVE  /\ s \in Sales /\ qty \in [Lines -> Nat] /\ seen \in Readings /\ sold[s].no > 0
         /\ amount \in [Lines -> Nat] /\ sum \in Nat /\ given \in Nat /\ credit \in Int
         /\ WithinQty(seen, qty) /\ given <= Total /\ \A l \in Lines : qty[l] > 0 => amount[l] > 0
         /\ back' = [back EXCEPT ![s] = [l \in Lines |->
                       [qty |-> @[l].qty + qty[l], paise |-> @[l].paise + amount[l]]]]
         /\ notes' = [notes EXCEPT ![s] = @ + Max0(credit)] /\ owes' = owes - Max0(credit)
         /\ till' = till - Max0(sum - credit)
         /\ status' = [status EXCEPT ![s] = IF given >= Total THEN "refunded" ELSE "partially_refunded"]
         /\ raced' = IF seen = RefundReading(s) THEN raced ELSE raced \cup {s}
         /\ tx' = [tx EXCEPT ![w] = Idle] /\ UNCHANGED <<lock, counter, sold, paid>>
         /\ tx[w].pc = "refund"
<1>1. tx[w] \in Refunding /\ tx[w].pc = "refund"
  <2>1. tx[w] \in Transactions
    BY DEF IInv
  <2>2. tx[w].pc = "refund"
    BY DEF RefundCommit, At
  <2> QED BY <2>1, <2>2 DEF Transactions, Numbered, Flagged, Refunding, Paying, Idle
<1>2. s \in Sales /\ qty \in [Lines -> Nat] /\ seen \in Readings /\ sold[s].no > 0
  BY <1>1 DEF RefundFacts, Refunding, IInv, TxOK
<1>3. /\ WithinQty(seen, qty) /\ given <= Total /\ \A l \in Lines : qty[l] > 0 => amount[l] > 0
      /\ back' = [back EXCEPT ![s] = [l \in Lines |->
                    [qty |-> @[l].qty + qty[l], paise |-> @[l].paise + amount[l]]]]
      /\ notes' = [notes EXCEPT ![s] = @ + Max0(credit)] /\ owes' = owes - Max0(credit)
      /\ till' = till - Max0(sum - credit)
      /\ status' = [status EXCEPT ![s] = IF given >= Total THEN "refunded" ELSE "partially_refunded"]
      /\ raced' = IF seen = RefundReading(s) THEN raced ELSE raced \cup {s}
      /\ tx' = [tx EXCEPT ![w] = Idle] /\ UNCHANGED <<lock, counter, sold, paid>>
  BY DEF RefundFacts, RefundCommit, Ends, CashShare
<1>4. ASSUME NEW l \in Lines PROVE amount[l] \in Nat
  <2>1. CASE qty[l] = 0
    BY <2>1 DEF RefundFacts
  <2>2. CASE qty[l] # 0
    <3>1. amount[l] = LineAmount(l, seen.lines[l], qty[l]) /\ amount[l] > 0
      <4>1. qty[l] \in Nat /\ qty[l] > 0
        BY <1>2, <2>2
      <4>2. amount[l] = LineAmount(l, seen.lines[l], qty[l])
        BY <2>2 DEF RefundFacts
      <4> QED BY <1>3, <4>1, <4>2
    <3>2. seen.lines[l] \in [qty : Nat, paise : Nat] /\ qty[l] \in Nat
      BY <1>2 DEF Readings
    <3>3. PaiseOf[l] \in Nat /\ QtyOf[l] \in Nat \ {0}
      BY LedgerAssumption
    <3> DEFINE n == seen.lines[l].qty + qty[l]
    <3>4. n \in Nat /\ n * PaiseOf[l] \in Nat
      BY <3>2, <3>3
    <3>5. Rounded(n * PaiseOf[l], QtyOf[l]) \in Nat
      BY <3>3, <3>4, RoundedBounds
    <3>6. LineAmount(l, seen.lines[l], qty[l]) \in Int
      BY <3>2, <3>3, <3>5 DEF LineAmount
    <3> QED BY <3>1, <3>6
  <2> QED BY <2>1, <2>2
<1>5. amount \in [Lines -> Nat]
  BY <1>4 DEF RefundFacts
<1>6. sum \in Nat
  BY <1>4, Constants, SumNat DEF RefundFacts
<1>7. given \in Nat
  <2>1. PaiseBack(seen.lines) \in Nat
    BY <1>2, BackNat DEF Readings
  <2> QED BY <1>6, <2>1 DEF RefundFacts
<1>8. credit \in Int
  <2>1. sold[s].credit \in Nat /\ given * sold[s].credit \in Nat /\ seen.noted \in Nat
    BY <1>2, <1>7, Types DEF Readings
  <2>2. Rounded(given * sold[s].credit, Total) \in Nat
    BY <2>1, Constants, RoundedBounds
  <2> QED BY <2>1, <2>2 DEF RefundFacts, CreditShare
<1> QED BY <1>1, <1>2, <1>3, <1>5, <1>6, <1>7, <1>8

\* A refund that no other one overlapped gives back a rounded share of the
\* debt: never less than before, never more than it gives back in all.
LEMMA RefundShare ==
  ASSUME IInv, NEW w \in Workers, RefundCommit(w),
         NEW s, NEW qty, NEW seen, NEW amount, NEW sum, NEW given, NEW credit,
         RefundFacts(w, s, qty, seen, amount, sum, given, credit), s \notin raced'
  PROVE  /\ s \notin raced /\ seen = RefundReading(s)
         /\ given = PaiseBack(back[s]) + sum /\ PaiseBack(back'[s]) = given
         /\ credit \in 0 .. sum
         /\ notes[s] + credit = Rounded(given * sold[s].credit, Total)
<1>1. s \in Sales /\ s \notin raced /\ seen = RefundReading(s)
  BY RefundAmounts
<1>2. seen.lines = back[s] /\ seen.noted = notes[s]
  BY <1>1 DEF RefundReading
<1>3. given = PaiseBack(back[s]) + sum
  BY <1>2 DEF RefundFacts
<1>4. PaiseBack(back'[s]) = given
  <2> DEFINE f == [l \in Lines |-> back[s][l].paise]
             h == [l \in Lines |-> back'[s][l].paise]
  <2>1. \A l \in Lines : back'[s][l].paise = back[s][l].paise + amount[l]
    BY <1>1, RefundAmounts, Types
  <2>2. \A l \in Lines : f[l] \in Int /\ amount[l] \in Int /\ h[l] = f[l] + amount[l]
    BY <1>1, <2>1, RefundAmounts, Types
  <2> HIDE DEF f, h
  <2>3. Sum(h, Lines) = Sum(f, Lines) + Sum(amount, Lines)
    BY <2>2, Constants, SumPlus
  <2> QED BY <1>3, <2>3 DEF f, h, PaiseBack, RefundFacts
<1>5. PICK c, m, n : c = sold[s].credit /\ m = PaiseBack(back[s]) /\ n = given
  OBVIOUS
<1>6. /\ c \in 0 .. Total /\ m \in Nat /\ n \in Nat /\ m <= n /\ n <= Total /\ n - m = sum
      /\ sum \in Nat /\ Total \in Nat \ {0} /\ notes[s] \in Nat
  BY <1>1, <1>3, <1>5, Types, SumTypes, RefundAmounts, Constants
<1>7. notes[s] = Rounded(m * c, Total)
  BY <1>1, <1>5 DEF IInv, SaleOK, ExactOK
<1>8. /\ Rounded(m * c, Total) <= Rounded(n * c, Total)
      /\ Rounded(n * c, Total) <= Rounded(m * c, Total) + (n - m)
      /\ Rounded(n * c, Total) \in Nat
  BY <1>6, RoundedShare
<1>9. credit = Rounded(n * c, Total) - notes[s]
  <2>1. CASE c > 0
    <3>1. credit = (IF n >= Total THEN c ELSE Rounded(n * c, Total)) - notes[s]
      BY <1>2, <1>5, <2>1 DEF RefundFacts, CreditShare
    <3>2. CASE n >= Total
      <4>1. n = Total /\ c \in Nat
        BY <1>6, <3>2
      <4>2. Rounded(n * c, Total) = c
        BY <1>6, <4>1, RoundedWhole
      <4> QED BY <3>1, <3>2, <4>2
    <3>3. CASE ~(n >= Total)
      BY <3>1, <3>3
    <3> QED BY <3>2, <3>3
  <2>2. CASE c = 0
    <3>1. m * c = 0 /\ n * c = 0
      BY <1>6, <2>2
    <3>2. credit = 0
      BY <1>5, <2>2 DEF RefundFacts
    <3> QED BY <1>6, <1>7, <1>8, <3>1, <3>2
  <2> QED BY <1>6, <2>1, <2>2
<1>10. credit \in 0 .. sum
  BY <1>6, <1>7, <1>8, <1>9
<1>11. notes[s] + credit = Rounded(n * c, Total)
  BY <1>6, <1>8, <1>9
<1> QED BY <1>1, <1>3, <1>4, <1>5, <1>10, <1>11

\* A refund is written: the lines, the credit note, the debt and the money.
LEMMA RefundCommitInv == ASSUME IInv, NEW w \in Workers, RefundCommit(w) PROVE IInv'
<1>0. PICK s, qty, seen, amount, sum, given, credit : RefundFacts(w, s, qty, seen, amount, sum, given, credit)
  BY DEF RefundFacts
<1>1. /\ s \in Sales /\ qty \in [Lines -> Nat] /\ seen \in Readings /\ sold[s].no > 0
      /\ amount \in [Lines -> Nat] /\ sum \in Nat /\ given \in Nat /\ credit \in Int
      /\ WithinQty(seen, qty) /\ given <= Total /\ \A l \in Lines : qty[l] > 0 => amount[l] > 0
  BY <1>0, RefundAmounts
<1>2. /\ back' = [back EXCEPT ![s] = [l \in Lines |->
                    [qty |-> @[l].qty + qty[l], paise |-> @[l].paise + amount[l]]]]
      /\ notes' = [notes EXCEPT ![s] = @ + Max0(credit)] /\ owes' = owes - Max0(credit)
      /\ till' = till - Max0(sum - credit)
      /\ status' = [status EXCEPT ![s] = IF given >= Total THEN "refunded" ELSE "partially_refunded"]
      /\ raced' = IF seen = RefundReading(s) THEN raced ELSE raced \cup {s}
      /\ tx' = [tx EXCEPT ![w] = Idle] /\ UNCHANGED <<lock, counter, sold, paid>>
      /\ tx[w].pc = "refund"
  BY <1>0, RefundAmounts
<1>3. PICK k, n : k = Max0(credit) /\ n = Max0(sum - credit) /\ k \in Nat /\ n \in Nat
  BY <1>1 DEF Max0
<1>4. /\ back' \in [Sales -> [Lines -> [qty : Nat, paise : Nat]]]
      /\ \A l \in Lines : back'[s][l].qty = back[s][l].qty + qty[l] /\ back'[s][l].paise = back[s][l].paise + amount[l]
      /\ \A x \in Sales \ {s} : back'[x] = back[x]
  BY <1>1, <1>2, Types
<1>5. /\ notes' \in [Sales -> Nat] /\ notes'[s] = notes[s] + k /\ \A x \in Sales \ {s} : notes'[x] = notes[x]
      /\ owes' = owes - k /\ till' = till - n
  BY <1>1, <1>2, <1>3, Types
<1>6. tx' \in [Workers -> Transactions] /\ tx'[w] = Idle /\ \A v \in Workers \ {w} : tx'[v] = tx[v]
  BY <1>2 DEF IInv, Transactions
<1>7. TypeOK'
  <2>1. till' \in Int /\ owes' \in Int
    BY <1>3, <1>5, Types
  <2>2. \A v \in Workers : tx'[v].pc \in {"idle", "numbered", "flagged", "refund", "payment"}
    BY <1>6 DEF IInv, TypeOK, Idle
  <2>3. lock' # NoOne => tx'[lock'].pc \in {"numbered", "flagged"}
    BY <1>2, <1>6 DEF IInv, LockOK, Selling, TypeOK
  <2>4. status' \in [Targets -> {"completed", "partially_refunded", "refunded", "open", "partially_paid", "paid"}]
    <3>1. status \in [Targets -> {"completed", "partially_refunded", "refunded", "open", "partially_paid", "paid"}]
      BY DEF IInv, TypeOK
    <3> QED BY <1>2, <3>1
  <2>5. raced' \subseteq Targets
    BY <1>1, <1>2, Types DEF Targets
  <2> QED BY <1>2, <1>4, <1>5, <2>1, <2>2, <2>3, <2>4, <2>5 DEF IInv, TypeOK
<1>8. LockOK'
  BY <1>2, <1>6 DEF IInv, LockOK, Selling, Idle
<1>9. (\A v \in Workers : TxOK(v))'
  <2>1. TxOK(w)'
    BY <1>6 DEF TxOK, Selling, Idle
  <2>2. ASSUME NEW v \in Workers \ {w} PROVE TxOK(v)'
    <3>1. TxOK(v) /\ tx[v] \in Transactions
      BY <2>2 DEF IInv
    <3>2. tx[v].pc = "flagged" => tx[v].ask.credit \in Nat
      BY <3>1, Constants DEF Transactions, Idle, Numbered, Flagged, Refunding, Paying
    <3>3. owes' <= owes /\ owes' \in Int /\ owes \in Int /\ Limit \in Nat
      BY <1>3, <1>5, Types, LedgerAssumption
    <3> QED BY <1>2, <1>6, <2>2, <3>1, <3>2, <3>3 DEF TxOK, Selling, OverLimit
  <2> QED BY <2>1, <2>2
<1>10. s \notin raced' =>
         /\ s \notin raced /\ seen = RefundReading(s)
         /\ PaiseBack(back'[s]) = given /\ given = PaiseBack(back[s]) + sum
         /\ credit \in 0 .. sum /\ k = credit /\ n = sum - credit
         /\ notes[s] + credit = Rounded(given * sold[s].credit, Total)
  BY <1>0, <1>1, <1>3, RefundShare DEF Max0
<1>11. ASSUME NEW x \in Sales PROVE SaleOK(x)'
  <2>1. CASE x # s
    <3>1. SaleOK(x)
      BY DEF IInv
    <3>2. status'[x] = status[x] /\ (x \notin raced' => x \notin raced)
      BY <1>2, <2>1, Types DEF Targets
    <3> QED BY <1>2, <1>4, <1>5, <2>1, <3>1, <3>2 DEF SaleOK, ExactOK, AllBack
  <2>2. CASE x = s
    <3> SUFFICES ASSUME s \notin raced' PROVE ExactOK(s)'
      BY <1>1, <1>2, <2>2 DEF SaleOK
    <3>1. ExactOK(s)
      BY <1>1, <1>10 DEF IInv, SaleOK
    <3>2. ASSUME NEW l \in Lines
          PROVE  /\ back'[s][l].qty <= QtyOf[l]
                 /\ back'[s][l].qty = QtyOf[l] => back'[s][l].paise = PaiseOf[l]
      <4>1. back[s][l] \in [qty : Nat, paise : Nat] /\ qty[l] \in Nat /\ QtyOf[l] \in Nat /\ PaiseOf[l] \in Nat
        BY <1>1, Types, LedgerAssumption
      <4>2. back[s][l].qty + qty[l] <= QtyOf[l]
        BY <1>1, <1>10 DEF RefundReading, WithinQty
      <4>3. CASE qty[l] = 0
        <5>1. amount[l] = 0
          BY <1>0, <4>3 DEF RefundFacts
        <5> QED BY <1>4, <3>1, <4>1, <4>2, <4>3, <5>1 DEF ExactOK
      <4>4. CASE qty[l] # 0
        <5>1. back[s][l].qty + qty[l] = QtyOf[l] => amount[l] = PaiseOf[l] - back[s][l].paise
          <6>1. amount[l] = LineAmount(l, seen.lines[l], qty[l])
            BY <1>0, <4>4 DEF RefundFacts
          <6>2. seen.lines[l] = back[s][l]
            BY <1>10 DEF RefundReading
          <6> QED BY <6>1, <6>2 DEF LineAmount
        <5> QED BY <1>4, <4>1, <4>2, <5>1
      <4> QED BY <4>3, <4>4
    <3>3. PaiseBack(back'[s]) <= Total
      BY <1>1, <1>10
    <3>4. notes'[s] = Rounded(PaiseBack(back'[s]) * sold[s].credit, Total)
      BY <1>5, <1>10
    <3>5. ASSUME \A l \in Lines : back'[s][l].qty = QtyOf[l] PROVE status'[s] = "refunded"
      <4> DEFINE h == [l \in Lines |-> back'[s][l].paise]
      <4>1. \A l \in Lines : h[l] = PaiseOf[l]
        BY <3>2, <3>5
      <4> HIDE DEF h
      <4>2. Sum(h, Lines) = Total
        BY <4>1, Constants, SumSame DEF Total
      <4>3. given = Total
        BY <1>10, <4>2 DEF h, PaiseBack
      <4> QED BY <1>1, <1>2, <4>3, Constants, Types DEF Targets
    <3> QED BY <1>2, <3>2, <3>3, <3>4, <3>5 DEF ExactOK, AllBack
  <2> QED BY <2>1, <2>2
<1>12. Sold' = Sold
  BY <1>2 DEF Sold
<1>13. InvoicesDense'
  BY <1>2, <1>12 DEF IInv, InvoicesDense
<1>14. BooksAgree'
  <2> SUFFICES ASSUME raced' = {}
               PROVE  owes' = Sum(Debt', Sold) /\ till' = Sum(Money', Sold) - Sum(paid, Bills)
    BY <1>2, <1>12 DEF BooksAgree
  <2>0. raced = {} /\ s \notin raced'
    BY <1>2
  <2>1. owes = Sum(Debt, Sold) /\ till = Sum(Money, Sold) - Sum(paid, Bills)
    BY <2>0 DEF IInv, BooksAgree
  <2>2. k = credit /\ n = sum - credit /\ PaiseBack(back'[s]) = PaiseBack(back[s]) + sum
    BY <1>10, <2>0
  <2>3. s \in Sold
    BY <1>1 DEF Sold
  <2>4. Debt'[s] = Debt[s] - k
    BY <1>1, <1>2, <1>3, <1>5, Types DEF Debt, Targets
  <2>5. Money'[s] = Money[s] - n
    <3>1. /\ Money[s] = Total - sold[s].credit - (PaiseBack(back[s]) - notes[s]) + paid[s]
          /\ Money'[s] = Total - sold[s].credit - (PaiseBack(back'[s]) - (notes[s] + k)) + paid[s]
      BY <1>1, <1>2, <1>5 DEF Money
    <3>2. PaiseBack(back[s]) \in Nat /\ notes[s] \in Nat /\ paid[s] \in Nat /\ sold[s].credit \in Nat /\ Total \in Nat
      BY <1>1, Types, SumTypes, Constants DEF Targets
    <3> QED BY <1>1, <1>3, <2>2, <3>1, <3>2
  <2>6. \A x \in Sold \ {s} : Debt'[x] = Debt[x] /\ Money'[x] = Money[x]
    BY <1>2, <1>4, <1>5, Types DEF Debt, Money
  <2>7. \A x \in Sold : Debt[x] \in Int /\ Money[x] \in Int
    BY SumTypes, Types
  <2>8. Debt'[s] \in Int /\ Money'[s] \in Int
    BY <1>3, <2>3, <2>4, <2>5, <2>7
  <2>9. Sum(Debt', Sold) = Sum(Debt, Sold) - Debt[s] + Debt'[s]
    <3> DEFINE f == Debt
               g == Debt'
               S == Sold
    <3>1. IsFiniteSet(S) /\ s \in S /\ (\A x \in S : f[x] \in Int /\ g[x] \in Int) /\ \A x \in S \ {s} : f[x] = g[x]
      BY <2>3, <2>6, <2>7, <2>8, Types
    <3> HIDE DEF f, g, S
    <3>2. Sum(g, S) = Sum(f, S) - f[s] + g[s]
      BY <3>1, SumBump
    <3> QED BY <3>2 DEF f, g, S
  <2>10. Sum(Money', Sold) = Sum(Money, Sold) - Money[s] + Money'[s]
    <3> DEFINE f == Money
               g == Money'
               S == Sold
    <3>1. IsFiniteSet(S) /\ s \in S /\ (\A x \in S : f[x] \in Int /\ g[x] \in Int) /\ \A x \in S \ {s} : f[x] = g[x]
      BY <2>3, <2>6, <2>7, <2>8, Types
    <3> HIDE DEF f, g, S
    <3>2. Sum(g, S) = Sum(f, S) - f[s] + g[s]
      BY <3>1, SumBump
    <3> QED BY <3>2 DEF f, g, S
  <2> QED BY <1>3, <1>5, <2>1, <2>3, <2>4, <2>5, <2>7, <2>9, <2>10, SumTypes
<1> QED BY <1>6, <1>7, <1>8, <1>9, <1>11, <1>13, <1>14 DEF IInv
-----------------------------------------------------------------------------
\* Every step keeps the invariant.
LEMMA NextInv == IInv /\ [Next]_vars => IInv'
<1> SUFFICES ASSUME IInv, [Next]_vars PROVE IInv'
  OBVIOUS
<1>1. ASSUME NEW w \in Workers, RollBack(w) PROVE IInv'
  BY <1>1, RollBackInv
<1>2. ASSUME NEW w \in Workers, SaleFlag(w) PROVE IInv'
  BY <1>2, SaleFlagInv
<1>3. ASSUME NEW w \in Workers, SaleCommit(w) PROVE IInv'
  BY <1>3, SaleCommitInv
<1>4. ASSUME NEW w \in Workers, RefundCommit(w) PROVE IInv'
  BY <1>4, RefundCommitInv
<1>5. ASSUME NEW w \in Workers, PaymentCommit(w) PROVE IInv'
  BY <1>5, PaymentCommitInv
<1>6. ASSUME NEW w \in Workers, NEW s \in Sales, NEW credit \in Credits, SaleNumber(w, s, credit) PROVE IInv'
  BY <1>6, SaleNumberInv
<1>7. ASSUME NEW w \in Workers, NEW s \in Sales, NEW qty \in Returns, RefundRead(w, s, qty) PROVE IInv'
  BY <1>7, RefundReadInv
<1>8. ASSUME NEW w \in Workers, NEW t \in Targets, NEW sum \in Sums, PaymentRead(w, t, sum) PROVE IInv'
  BY <1>8, PaymentReadInv
<1>9. CASE UNCHANGED vars
  <2>1. UNCHANGED books /\ tx' = tx /\ lock' = lock
    BY <1>9 DEF vars
  <2>2. TypeOK'
    BY <2>1 DEF IInv, TypeOK, books
  <2>3. LockOK'
    BY <2>1 DEF IInv, LockOK, Selling
  <2>4. (\A v \in Workers : TxOK(v))'
    BY <2>1 DEF IInv, TxOK, Selling, OverLimit, books
  <2> QED BY <2>1, <2>2, <2>3, <2>4, BooksKept DEF IInv
<1> QED BY <1>1, <1>2, <1>3, <1>4, <1>5, <1>6, <1>7, <1>8, <1>9 DEF Next

\* The invariant holds in every reachable state.
THEOREM Invariant == Spec => []IInv
BY InitInv, NextInv, PTL DEF Spec

\* In every run the books have their types, and the invoices of the store are
\* numbered 1, 2, 3 without a gap or a repetition, whatever overlaps and
\* whatever is rolled back.
THEOREM InvoicesAreDense == Spec => []Inv
<1>1. IInv => Inv
  BY DEF IInv, Inv
<1> QED BY Invariant, <1>1, PTL

\* Unless two refunds of it overlapped, a sale gives back at most what was
\* sold, and when all of it is back exactly what it cost, in money and as a
\* credit note, however the refunds were split and rounded.
THEOREM RefundsAreExact == Spec => []ReturnsAreExact
<1>1. ASSUME IInv PROVE ReturnsAreExact
  <2> SUFFICES ASSUME NEW s \in Sold \ raced
               PROVE  /\ \A l \in Lines : back[s][l].qty <= QtyOf[l]
                      /\ PaiseBack(back[s]) <= Total /\ notes[s] <= sold[s].credit
                      /\ (\A l \in Lines : back[s][l].qty = QtyOf[l]) =>
                            PaiseBack(back[s]) = Total /\ notes[s] = sold[s].credit /\ status[s] = "refunded"
    BY DEF ReturnsAreExact
  <2>1. s \in Sales /\ ExactOK(s)
    BY <1>1 DEF IInv, SaleOK, Sold
  <2>2. PICK c, m : c = sold[s].credit /\ m = PaiseBack(back[s])
    OBVIOUS
  <2>3. c \in 0 .. Total /\ c \in Nat /\ m \in Nat /\ m <= Total /\ Total \in Nat \ {0}
    BY <1>1, <2>1, <2>2, Types, SumTypes, Constants DEF ExactOK
  <2>4. Rounded(Total * c, Total) = c
    BY <2>3, RoundedWhole
  <2>5. Rounded(m * c, Total) <= Rounded(Total * c, Total)
    BY <2>3, RoundedShare
  <2>6. notes[s] <= c
    BY <2>1, <2>2, <2>4, <2>5 DEF ExactOK
  <2>7. ASSUME \A l \in Lines : back[s][l].qty = QtyOf[l]
        PROVE  m = Total /\ notes[s] = c /\ status[s] = "refunded"
    <3> DEFINE h == [l \in Lines |-> back[s][l].paise]
    <3>1. \A l \in Lines : h[l] = PaiseOf[l]
      BY <2>1, <2>7 DEF ExactOK
    <3> HIDE DEF h
    <3>2. Sum(h, Lines) = Total
      BY <3>1, Constants, SumSame DEF Total
    <3>3. m = Total
      BY <2>2, <3>2 DEF h, PaiseBack
    <3> QED BY <2>1, <2>2, <2>4, <2>7, <3>3 DEF ExactOK, AllBack
  <2> QED BY <2>1, <2>2, <2>3, <2>6, <2>7 DEF ExactOK
<1> QED BY Invariant, <1>1, PTL

\* The customer's ledger and the accounts agree with the sales, refunds and
\* settlements they were posted from, unless two transactions overlapped on
\* one of them.
THEOREM TheBooksAgree == Spec => []BooksAgree
<1>1. IInv => BooksAgree
  BY DEF IInv
<1> QED BY Invariant, <1>1, PTL

\* What a step may do to the debts.
DebtStep ==
  /\ owes' > owes /\ owes' > Limit => \E s \in Sales : sold[s].no = 0 /\ sold'[s].flagged
  /\ \A t \in Targets \ raced' : paid'[t] > paid[t] =>
        paid'[t] <= IF t \in Bills THEN BillPaise ELSE sold[t].credit - notes[t]

\* An unchanged debt and unchanged settlements are no business of DebtStep.
LEMMA DebtsKept == ASSUME IInv, owes' = owes, paid' = paid PROVE DebtStep
BY Types, SumTypes DEF DebtStep

\* A sale that takes the customer over the limit is flagged: it saw the debt
\* with the store locked, and since then others have only lowered it.
LEMMA SaleDebt == ASSUME IInv, NEW w \in Workers, SaleCommit(w) PROVE DebtStep
<1>0. PICK s, credit : s = tx[w].on /\ credit = tx[w].ask.credit
  OBVIOUS
<1>1. tx[w] \in Flagged /\ tx[w].pc = "flagged"
  BY DEF IInv, Transactions, Numbered, Flagged, Refunding, Paying, Idle, SaleCommit, At
<1>2. s \in Sales /\ credit \in Nat
  BY <1>0, <1>1, Constants DEF Flagged
<1>3. sold[s].no = 0 /\ (OverLimit(credit) => tx[w].ask.flagged)
  BY <1>0, <1>1 DEF IInv, TxOK, Selling
<1>4. owes' = owes + credit /\ paid' = paid /\ sold'[s].flagged = tx[w].ask.flagged
  BY <1>0, <1>2, Types DEF SaleCommit
<1>5. owes' > owes /\ owes' > Limit => sold[s].no = 0 /\ sold'[s].flagged
  BY <1>2, <1>3, <1>4, Types DEF OverLimit
<1> QED BY <1>2, <1>4, <1>5, SumTypes DEF DebtStep

\* A refund never raises a debt.
LEMMA RefundDebt == ASSUME IInv, NEW w \in Workers, RefundCommit(w) PROVE DebtStep
<1>0. PICK s, qty, seen, amount, sum, given, credit : RefundFacts(w, s, qty, seen, amount, sum, given, credit)
  BY DEF RefundFacts
<1>1. credit \in Int /\ owes' = owes - Max0(credit) /\ paid' = paid
  BY <1>0, RefundAmounts
<1>2. ~(owes' > owes)
  BY <1>1, Types DEF Max0
<1> QED BY <1>1, <1>2, SumTypes DEF DebtStep

\* A settlement whose reading still holds takes at most what is left.
LEMMA PaymentDebt == ASSUME IInv, NEW w \in Workers, PaymentCommit(w) PROVE DebtStep
<1>0. PICK t, sum, seen : t = tx[w].on /\ sum = tx[w].ask /\ seen = tx[w].seen
  OBVIOUS
<1>1. tx[w] \in Paying
  BY DEF IInv, Transactions, Numbered, Flagged, Refunding, Paying, Idle, PaymentCommit, At
<1>2. t \in Targets /\ sum \in Nat \ {0}
  BY <1>0, <1>1, LedgerAssumption DEF Paying
<1>3. /\ seen.already + sum <= seen.cap /\ paid' = [paid EXCEPT ![t] = @ + sum]
      /\ owes' = owes \/ owes' = owes - sum
      /\ raced' = IF seen = PaymentReading(t) THEN raced ELSE raced \cup {t}
  BY <1>0 DEF PaymentCommit
<1>4. ~(owes' > owes)
  BY <1>2, <1>3, Types
<1>5. ASSUME NEW x \in Targets \ raced', paid'[x] > paid[x]
      PROVE  paid'[x] <= IF x \in Bills THEN BillPaise ELSE sold[x].credit - notes[x]
  <2>1. x = t /\ paid'[t] = paid[t] + sum
    BY <1>2, <1>3, <1>5, SumTypes, Types
  <2>2. seen = PaymentReading(t)
    BY <1>3, <2>1
  <2>3. seen.already = paid[t] /\ seen.cap = Cap(t)
    BY <2>2 DEF PaymentReading
  <2> QED BY <1>3, <2>1, <2>3 DEF Cap
<1> QED BY <1>4, <1>5 DEF DebtStep

\* Debts go up and down with control: a sale that takes the customer over the
\* limit is flagged for review, also when another sale on credit is being
\* written, and a settlement takes no more than what is still owed on the
\* sale, refunds counted, or on the bill, unless another one overlapped it.
THEOREM DebtStaysInHand == Spec => DebtInHand
<1>1. ASSUME IInv, [Next]_vars PROVE [DebtStep]_vars
  <2>1. ASSUME NEW w \in Workers, RollBack(w) PROVE DebtStep
    BY <1>1, <2>1, DebtsKept DEF RollBack, books
  <2>2. ASSUME NEW w \in Workers, SaleFlag(w) PROVE DebtStep
    BY <1>1, <2>2, DebtsKept DEF SaleFlag, books
  <2>3. ASSUME NEW w \in Workers, SaleCommit(w) PROVE DebtStep
    BY <1>1, <2>3, SaleDebt
  <2>4. ASSUME NEW w \in Workers, RefundCommit(w) PROVE DebtStep
    BY <1>1, <2>4, RefundDebt
  <2>5. ASSUME NEW w \in Workers, PaymentCommit(w) PROVE DebtStep
    BY <1>1, <2>5, PaymentDebt
  <2>6. ASSUME NEW w \in Workers, NEW s \in Sales, NEW credit \in Credits, SaleNumber(w, s, credit) PROVE DebtStep
    BY <1>1, <2>6, DebtsKept DEF SaleNumber, books
  <2>7. ASSUME NEW w \in Workers, NEW s \in Sales, NEW qty \in Returns, RefundRead(w, s, qty) PROVE DebtStep
    BY <1>1, <2>7, DebtsKept DEF RefundRead, books
  <2>8. ASSUME NEW w \in Workers, NEW t \in Targets, NEW sum \in Sums, PaymentRead(w, t, sum) PROVE DebtStep
    BY <1>1, <2>8, DebtsKept DEF PaymentRead, books
  <2>9. Next => DebtStep
    BY <2>1, <2>2, <2>3, <2>4, <2>5, <2>6, <2>7, <2>8 DEF Next
  <2> QED BY <1>1, <2>9
<1>2. [][DebtStep]_vars => DebtInHand
  BY DEF DebtStep, DebtInHand
<1> QED BY Invariant, <1>1, <1>2, PTL DEF Spec
=============================================================================
