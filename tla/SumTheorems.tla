------------------------------ MODULE SumTheorems -----------------------------
(***************************************************************************)
(* Facts about the prefix sums of Sums.tla.  The induction principle of    *)
(* NaturalsInduction takes an operator, so it is restated here for sets:   *)
(* a property P is proved for every natural number by applying             *)
(* NatSetInduction to {n \in Nat : P(n)}.                                  *)
(***************************************************************************)
EXTENDS Sums, WellFoundedInduction, FiniteSetTheorems, TLAPS

\* Every nonempty set of natural numbers has a least element.
LEMMA LeastNat ==
  ASSUME NEW T \in SUBSET Nat, T # {}
  PROVE  \E m \in T : \A k \in T : m <= k
<1> DEFINE Less == {x \in Nat \X Nat : x[1] < x[2]}
<1>1. OpToRel(<, Nat) = Less
  BY DEF OpToRel
<1>2. IsWellFoundedOn(Less, Nat)
  BY <1>1, NatLessThanWellFounded
<1>3. PICK m \in T : \A k \in T : ~ (<<k, m>> \in Less)
  BY <1>2, WFMin
<1>4. ASSUME NEW k \in T PROVE m <= k
  <2>1. ~ (<<k, m>> \in Less)
    BY <1>3
  <2> QED
    BY <2>1
<1> QED
  BY <1>4

\* Induction over the natural numbers, for the set of numbers with a property.
LEMMA NatSetInduction ==
  ASSUME NEW S, 0 \in S, \A n \in Nat : n \in S => n + 1 \in S
  PROVE  \A n \in Nat : n \in S
<1>1. SUFFICES ASSUME NEW n \in Nat, n \notin S PROVE FALSE
  OBVIOUS
<1> DEFINE T == {k \in Nat : k \notin S}
<1>2. PICK m \in T : \A k \in T : m <= k
  BY <1>1, LeastNat
<1>3. m # 0 /\ m - 1 \in Nat /\ (m - 1) + 1 = m
  BY <1>2
<1>4. m - 1 \in S
  BY <1>2, <1>3
<1> QED
  BY <1>2, <1>3, <1>4

------------------------------------------------------------------------------
\* g is the function the recursion in SumTo(f, n) describes.
IsPartial(g, f, n) ==
  g = [i \in 0..n |-> IF i = 0 THEN 0 ELSE g[i - 1] + f[i]]

\* The recursion has a solution, with integer values if f has.
LEMMA PartialExists ==
  ASSUME NEW f, NEW n \in Nat, \A i \in 1..n : f[i] \in Int
  PROVE  \E g \in [0..n -> Int] : IsPartial(g, f, n)
<1> DEFINE S == {k \in Nat : k <= n => \E g \in [0..k -> Int] : IsPartial(g, f, k)}
<1>1. 0 \in S
  <2> DEFINE g == [i \in 0..0 |-> 0]
  <2>1. g \in [0..0 -> Int] /\ IsPartial(g, f, 0)
    BY DEF IsPartial
  <2> QED
    BY <2>1
<1>2. ASSUME NEW k \in Nat, k \in S PROVE k + 1 \in S
  <2>1. SUFFICES ASSUME k + 1 <= n
                 PROVE  \E g \in [0..(k + 1) -> Int] : IsPartial(g, f, k + 1)
    OBVIOUS
  <2>2. PICK h \in [0..k -> Int] : IsPartial(h, f, k)
    BY <1>2, <2>1
  <2> DEFINE g == [i \in 0..(k + 1) |-> IF i = k + 1 THEN h[k] + f[k + 1] ELSE h[i]]
  <2>3. g \in [0..(k + 1) -> Int]
    <3>1. ASSUME NEW i \in 0..(k + 1) PROVE g[i] \in Int
      <4>1. CASE i = k + 1
        <5>1. f[k + 1] \in Int /\ h[k] \in Int
          BY <2>1
        <5> QED
          BY <4>1, <5>1
      <4>2. CASE i # k + 1
        BY <4>2
      <4> QED
        BY <4>1, <4>2
    <3> QED
      BY <3>1
  <2>4. ASSUME NEW i \in 0..(k + 1)
        PROVE  g[i] = IF i = 0 THEN 0 ELSE g[i - 1] + f[i]
    <3>1. CASE i = k + 1
      BY <3>1
    <3>2. CASE i # k + 1 /\ i # 0
      <4>1. i \in 0..k /\ i - 1 \in 0..k
        BY <3>2
      <4>2. h[i] = h[i - 1] + f[i]
        BY <2>2, <4>1, <3>2 DEF IsPartial
      <4> QED
        BY <3>2, <4>1, <4>2
    <3>3. CASE i = 0
      BY <3>3, <2>2 DEF IsPartial
    <3> QED
      BY <3>1, <3>2, <3>3
  <2>5. IsPartial(g, f, k + 1)
    BY <2>4 DEF IsPartial
  <2> QED
    BY <2>3, <2>5
<1> HIDE DEF S
<1>3. n \in S
  BY <1>1, <1>2, NatSetInduction
<1> QED
  BY <1>3 DEF S

\* Two solutions, possibly of different lengths and for families that agree
\* on 1..m, agree up to m.
LEMMA PartialUnique ==
  ASSUME NEW f, NEW g, NEW n \in Nat, NEW k \in Nat, NEW m \in Nat,
         m <= n, m <= k, \A i \in 1..m : f[i] = g[i],
         NEW F, IsPartial(F, f, n), NEW G, IsPartial(G, g, k)
  PROVE  F[m] = G[m]
<1> DEFINE S == {i \in Nat : i <= m => F[i] = G[i]}
<1>1. 0 \in S
  BY DEF IsPartial
<1>2. ASSUME NEW i \in Nat, i \in S PROVE i + 1 \in S
  <2>1. SUFFICES ASSUME i + 1 <= m PROVE F[i + 1] = G[i + 1]
    OBVIOUS
  <2>2. i + 1 \in 0..n /\ i + 1 \in 0..k /\ i + 1 \in 1..m /\ i + 1 # 0 /\ (i + 1) - 1 = i
    BY <2>1
  <2>3. F[i + 1] = F[i] + f[i + 1]
    BY <2>2 DEF IsPartial
  <2>4. G[i + 1] = G[i] + g[i + 1]
    BY <2>2 DEF IsPartial
  <2> QED
    BY <1>2, <2>1, <2>2, <2>3, <2>4
<1> HIDE DEF S
<1>3. m \in S
  BY <1>1, <1>2, NatSetInduction
<1> QED
  BY <1>3 DEF S

\* SumTo is the value of a solution.
LEMMA SumIsPartial ==
  ASSUME NEW f, NEW n \in Nat, \A i \in 1..n : f[i] \in Int
  PROVE  \E g \in [0..n -> Int] : IsPartial(g, f, n) /\ SumTo(f, n) = g[n]
<1> DEFINE g == CHOOSE h : IsPartial(h, f, n)
<1>1. PICK h \in [0..n -> Int] : IsPartial(h, f, n)
  BY PartialExists
<1>2. IsPartial(g, f, n)
  BY <1>1
<1>3. SumTo(f, n) = g[n]
  BY DEF SumTo, IsPartial
<1>4. ASSUME NEW i \in 0..n PROVE g[i] = h[i]
  BY <1>1, <1>2, PartialUnique
<1>5. g \in [0..n -> Int]
  <2>1. g = [i \in 0..n |-> g[i]]
    BY <1>2 DEF IsPartial
  <2> HIDE DEF g
  <2> QED
    BY <2>1, <1>4
<1> QED
  BY <1>2, <1>3, <1>5

------------------------------------------------------------------------------
\* The equations of SumTo; later proofs use these and never its definition.
LEMMA SumZero ==
  ASSUME NEW f
  PROVE  SumTo(f, 0) = 0
<1>1. \E g \in [0..0 -> Int] : IsPartial(g, f, 0) /\ SumTo(f, 0) = g[0]
  BY SumIsPartial
<1> QED
  BY <1>1 DEF IsPartial

LEMMA SumCongruence ==
  ASSUME NEW f, NEW g, NEW n \in Nat,
         \A i \in 1..n : f[i] \in Int, \A i \in 1..n : f[i] = g[i]
  PROVE  SumTo(f, n) = SumTo(g, n)
<1>1. PICK F \in [0..n -> Int] : IsPartial(F, f, n) /\ SumTo(f, n) = F[n]
  BY SumIsPartial
<1>2. PICK G \in [0..n -> Int] : IsPartial(G, g, n) /\ SumTo(g, n) = G[n]
  <2>1. \A i \in 1..n : g[i] \in Int
    OBVIOUS
  <2> QED
    BY <2>1, SumIsPartial
<1>3. F[n] = G[n]
  <2>1. n <= n
    OBVIOUS
  <2>2. IsPartial(G, f, n)
    <3>1. G = [i \in 0..n |-> IF i = 0 THEN 0 ELSE G[i - 1] + g[i]]
      BY <1>2 DEF IsPartial
    <3>2. ASSUME NEW i \in 0..n PROVE (IF i = 0 THEN 0 ELSE G[i - 1] + g[i])
                                     = (IF i = 0 THEN 0 ELSE G[i - 1] + f[i])
      OBVIOUS
    <3> QED
      BY <3>1, <3>2 DEF IsPartial
  <2> QED
    BY <1>1, <2>1, <2>2, PartialUnique
<1> QED
  BY <1>1, <1>2, <1>3

LEMMA SumStep ==
  ASSUME NEW f, NEW n \in Nat, \A i \in 1..(n + 1) : f[i] \in Int
  PROVE  SumTo(f, n + 1) = SumTo(f, n) + f[n + 1]
<1>1. PICK F \in [0..n -> Int] : IsPartial(F, f, n) /\ SumTo(f, n) = F[n]
  <2>1. \A i \in 1..n : f[i] \in Int
    OBVIOUS
  <2> QED
    BY <2>1, SumIsPartial
<1>2. PICK G \in [0..(n + 1) -> Int] : IsPartial(G, f, n + 1) /\ SumTo(f, n + 1) = G[n + 1]
  <2>1. n + 1 \in Nat
    OBVIOUS
  <2> QED
    BY <2>1, SumIsPartial
<1>3. F[n] = G[n]
  <2>1. n + 1 \in Nat /\ n <= n + 1
    OBVIOUS
  <2> QED
    BY <1>1, <1>2, <2>1, PartialUnique
<1>4. G[n + 1] = G[n] + f[n + 1]
  <2>1. n + 1 \in 0..(n + 1) /\ n + 1 # 0 /\ (n + 1) - 1 = n
    OBVIOUS
  <2> QED
    BY <1>2, <2>1 DEF IsPartial
<1> QED
  BY <1>1, <1>2, <1>3, <1>4

LEMMA SumType ==
  ASSUME NEW f, NEW n \in Nat, \A i \in 1..n : f[i] \in Int
  PROVE  SumTo(f, n) \in Int
<1>1. PICK F \in [0..n -> Int] : SumTo(f, n) = F[n]
  BY SumIsPartial
<1> QED
  BY <1>1

\* A family of zeros has total 0.
LEMMA SumOfZeros ==
  ASSUME NEW f, NEW n \in Nat, \A i \in 1..n : f[i] = 0
  PROVE  SumTo(f, n) = 0
<1> DEFINE S == {k \in Nat : k <= n => SumTo(f, k) = 0}
<1>1. 0 \in S
  BY SumZero
<1>2. ASSUME NEW k \in Nat, k \in S PROVE k + 1 \in S
  <2>1. SUFFICES ASSUME k + 1 <= n PROVE SumTo(f, k + 1) = 0
    OBVIOUS
  <2>2. SumTo(f, k + 1) = SumTo(f, k) + f[k + 1]
    BY <2>1, SumStep
  <2>3. SumTo(f, k) = 0 /\ f[k + 1] = 0
    BY <1>2, <2>1
  <2> QED
    BY <2>2, <2>3
<1> HIDE DEF S
<1>3. n \in S
  BY <1>1, <1>2, NatSetInduction
<1> QED
  BY <1>3 DEF S

\* Totals are monotone in the family.
LEMMA SumMonotone ==
  ASSUME NEW f, NEW g, NEW n \in Nat,
         \A i \in 1..n : f[i] \in Int /\ g[i] \in Int /\ f[i] <= g[i]
  PROVE  SumTo(f, n) <= SumTo(g, n)
<1> DEFINE S == {k \in Nat : k <= n => SumTo(f, k) <= SumTo(g, k)}
<1>1. 0 \in S
  BY SumZero
<1>2. ASSUME NEW k \in Nat, k \in S PROVE k + 1 \in S
  <2>1. SUFFICES ASSUME k + 1 <= n PROVE SumTo(f, k + 1) <= SumTo(g, k + 1)
    OBVIOUS
  <2>2. SumTo(f, k) <= SumTo(g, k)
    BY <1>2, <2>1
  <2>3. /\ SumTo(f, k + 1) = SumTo(f, k) + f[k + 1]
        /\ SumTo(g, k + 1) = SumTo(g, k) + g[k + 1]
    BY <2>1, SumStep
  <2>4. SumTo(f, k) \in Int /\ SumTo(g, k) \in Int
    BY <2>1, SumType
  <2>5. f[k + 1] \in Int /\ g[k + 1] \in Int /\ f[k + 1] <= g[k + 1]
    BY <2>1
  <2> QED
    BY <2>2, <2>3, <2>4, <2>5
<1> HIDE DEF S
<1>3. n \in S
  BY <1>1, <1>2, NatSetInduction
<1> QED
  BY <1>3 DEF S

\* A total of amounts that are not negative is not negative.
LEMMA SumNat ==
  ASSUME NEW f, NEW n \in Nat, \A i \in 1..n : f[i] \in Nat
  PROVE  SumTo(f, n) \in Nat
<1> DEFINE S == {k \in Nat : k <= n => SumTo(f, k) \in Nat}
<1>1. 0 \in S
  BY SumZero
<1>2. ASSUME NEW k \in Nat, k \in S PROVE k + 1 \in S
  <2>1. SUFFICES ASSUME k + 1 <= n PROVE SumTo(f, k + 1) \in Nat
    OBVIOUS
  <2>2. SumTo(f, k + 1) = SumTo(f, k) + f[k + 1]
    BY <2>1, SumStep
  <2>3. SumTo(f, k) \in Nat /\ f[k + 1] \in Nat
    BY <1>2, <2>1
  <2> QED
    BY <2>2, <2>3
<1> HIDE DEF S
<1>3. n \in S
  BY <1>1, <1>2, NatSetInduction
<1> QED
  BY <1>3 DEF S

\* Changing one member of the family changes the total by the difference.
LEMMA SumPoint ==
  ASSUME NEW f, NEW g, NEW n \in Nat, NEW j \in 1..n,
         \A i \in 1..n : f[i] \in Int /\ g[i] \in Int,
         \A i \in 1..n : i # j => f[i] = g[i]
  PROVE  SumTo(g, n) = SumTo(f, n) + g[j] - f[j]
<1> DEFINE S == {k \in Nat : k <= n =>
                  SumTo(g, k) = SumTo(f, k) + (IF j <= k THEN g[j] - f[j] ELSE 0)}
<1>1. 0 \in S
  BY SumZero
<1>2. ASSUME NEW k \in Nat, k \in S PROVE k + 1 \in S
  <2>1. SUFFICES ASSUME k + 1 <= n
        PROVE SumTo(g, k + 1) = SumTo(f, k + 1) + (IF j <= k + 1 THEN g[j] - f[j] ELSE 0)
    OBVIOUS
  <2>2. SumTo(g, k) = SumTo(f, k) + (IF j <= k THEN g[j] - f[j] ELSE 0)
    BY <1>2, <2>1
  <2>3. /\ SumTo(f, k + 1) = SumTo(f, k) + f[k + 1]
        /\ SumTo(g, k + 1) = SumTo(g, k) + g[k + 1]
    BY <2>1, SumStep
  <2>4. SumTo(f, k) \in Int /\ SumTo(g, k) \in Int
    BY <2>1, SumType
  <2>5. /\ f[k + 1] \in Int /\ g[k + 1] \in Int /\ f[j] \in Int /\ g[j] \in Int
        /\ k + 1 # j => f[k + 1] = g[k + 1]
    BY <2>1
  <2>6. CASE j = k + 1
    BY <2>2, <2>3, <2>4, <2>5, <2>6
  <2>7. CASE j # k + 1
    BY <2>2, <2>3, <2>4, <2>5, <2>7
  <2> QED
    BY <2>6, <2>7
<1> HIDE DEF S
<1>3. n \in S
  BY <1>1, <1>2, NatSetInduction
<1>4. SumTo(f, n) \in Int
  BY SumType
<1> QED
  BY <1>3, <1>4 DEF S

\* The total of a masked family grows by one member when one index joins.
LEMMA MaskedJoin ==
  ASSUME NEW n \in Nat, NEW f \in [1..n -> Int], NEW S, NEW j \in (1..n) \ S
  PROVE  SumTo(Masked(f, S \cup {j}), n) = SumTo(Masked(f, S), n) + f[j]
<1> DEFINE before == Masked(f, S)
           after == Masked(f, S \cup {j})
<1>1. \A i \in 1..n : before[i] \in Int /\ after[i] \in Int
  BY DEF Masked
<1>2. \A i \in 1..n : i # j => before[i] = after[i]
  BY DEF Masked
<1>3. after[j] = f[j] /\ before[j] = 0
  BY DEF Masked
<1> HIDE DEF before, after
<1>4. SumTo(after, n) = SumTo(before, n) + after[j] - before[j]
  BY <1>1, <1>2, SumPoint
<1>5. SumTo(before, n) \in Int
  BY <1>1, SumType
<1> QED
  BY <1>3, <1>4, <1>5 DEF before, after

\* Split a masked total along a subset of the mask.
LEMMA MaskedSplit ==
  ASSUME NEW n \in Nat, NEW f \in [1..n -> Int], NEW S, NEW T \in SUBSET S
  PROVE  SumTo(Masked(f, S), n) = SumTo(Masked(f, S \ T), n) + SumTo(Masked(f, T), n)
<1> DEFINE a == Masked(f, S)
           b == Masked(f, S \ T)
           c == Masked(f, T)
           K == {k \in Nat : k <= n => SumTo(a, k) = SumTo(b, k) + SumTo(c, k)}
<1>1. \A i \in 1..n : a[i] \in Int /\ b[i] \in Int /\ c[i] \in Int /\ a[i] = b[i] + c[i]
  BY DEF Masked
<1> HIDE DEF a, b, c
<1>2. 0 \in K
  BY SumZero
<1>3. ASSUME NEW k \in Nat, k \in K PROVE k + 1 \in K
  <2>1. SUFFICES ASSUME k + 1 <= n PROVE SumTo(a, k + 1) = SumTo(b, k + 1) + SumTo(c, k + 1)
    OBVIOUS
  <2>2. SumTo(a, k) = SumTo(b, k) + SumTo(c, k)
    BY <1>3, <2>1
  <2>3. /\ SumTo(a, k + 1) = SumTo(a, k) + a[k + 1]
        /\ SumTo(b, k + 1) = SumTo(b, k) + b[k + 1]
        /\ SumTo(c, k + 1) = SumTo(c, k) + c[k + 1]
    BY <1>1, <2>1, SumStep
  <2>4. SumTo(b, k) \in Int /\ SumTo(c, k) \in Int
    BY <1>1, <2>1, SumType
  <2>5. /\ b[k + 1] \in Int /\ c[k + 1] \in Int /\ a[k + 1] = b[k + 1] + c[k + 1]
    BY <1>1, <2>1
  <2> QED
    BY <2>2, <2>3, <2>4, <2>5
<1> HIDE DEF K
<1>4. n \in K
  BY <1>2, <1>3, NatSetInduction
<1> QED
  BY <1>4 DEF K, a, b, c

------------------------------------------------------------------------------
\* Sums over a finite set.  The folds of the community modules are recursive
\* functions of the subsets of a set, which take out one element at a time:
\* pick[s] is the element taken out of s.
Picks(pick, S) == pick \in [(SUBSET S) \ {{}} -> S] /\ \A s \in DOMAIN pick : pick[s] \in s

\* g is the solution of such a recursion that accumulates values of A with F.
IsFold(g, S, A, base, pick, F) ==
  /\ g \in [SUBSET S -> A]
  /\ \A s \in SUBSET S : g[s] = IF s = {} THEN base ELSE F[g[s \ {pick[s]}]][pick[s]]

\* Such a recursion has a solution, whatever is accumulated.
LEMMA FoldExists ==
  ASSUME NEW S, IsFiniteSet(S), NEW A, NEW base \in A, NEW pick, Picks(pick, S),
         NEW F \in [A -> [S -> A]]
  PROVE  \E g : IsFold(g, S, A, base, pick, F)
<1> DEFINE Small(n) == {s \in SUBSET S : Cardinality(s) <= n}
           Solves(g, n) == \A s \in Small(n) :
             g[s] = IF s = {} THEN base ELSE F[g[s \ {pick[s]}]][pick[s]]
           K == {n \in Nat : \E g \in [Small(n) -> A] : Solves(g, n)}
<1>1. \A s \in SUBSET S : IsFiniteSet(s) /\ Cardinality(s) \in Nat
  BY FS_Subset, FS_CardinalityType
<1>2. \A s \in SUBSET S : s # {} => pick[s] \in s /\ pick[s] \in S
  BY DEF Picks
<1>3. \A s \in SUBSET S : s # {} => Cardinality(s \ {pick[s]}) = Cardinality(s) - 1
  BY <1>1, <1>2, FS_RemoveElement
<1>4. 0 \in K
  <2> DEFINE g == [s \in Small(0) |-> base]
  <2>1. \A s \in Small(0) : s = {}
    BY <1>1, FS_EmptySet
  <2>2. g \in [Small(0) -> A] /\ Solves(g, 0)
    BY <2>1
  <2> HIDE DEF Solves
  <2> QED
    BY <2>2
<1>5. ASSUME NEW n \in Nat, n \in K PROVE n + 1 \in K
  <2>1. PICK h \in [Small(n) -> A] : Solves(h, n)
    BY <1>5
  <2> DEFINE g == [s \in Small(n + 1) |->
                     IF Cardinality(s) <= n THEN h[s] ELSE F[h[s \ {pick[s]}]][pick[s]]]
  <2>2. ASSUME NEW s \in Small(n + 1), s # {}
        PROVE  /\ s \ {pick[s]} \in Small(n) /\ s \ {pick[s]} \in Small(n + 1)
               /\ pick[s] \in S
    <3>1. Cardinality(s) \in Nat /\ Cardinality(s \ {pick[s]}) = Cardinality(s) - 1
      BY <1>1, <1>3, <2>2
    <3> QED
      BY <1>2, <2>2, <3>1
  <2>3. g \in [Small(n + 1) -> A]
    <3> SUFFICES ASSUME NEW s \in Small(n + 1) PROVE g[s] \in A
      OBVIOUS
    <3>1. CASE Cardinality(s) <= n
      <4>1. s \in Small(n)
        BY <3>1
      <4> QED
        BY <3>1, <4>1
    <3>2. CASE ~(Cardinality(s) <= n)
      <4>1. s # {}
        BY <1>1, <3>2, FS_EmptySet
      <4>2. h[s \ {pick[s]}] \in A /\ pick[s] \in S
        BY <2>2, <4>1
      <4>3. PICK a \in A, x \in S : a = h[s \ {pick[s]}] /\ x = pick[s]
        BY <4>2
      <4>4. F[a] \in [S -> A] /\ F[a][x] \in A
        OBVIOUS
      <4> QED
        BY <3>2, <4>3, <4>4
    <3> QED
      BY <3>1, <3>2
  <2>4. Solves(g, n + 1)
    <3> SUFFICES ASSUME NEW s \in Small(n + 1)
                 PROVE  g[s] = IF s = {} THEN base ELSE F[g[s \ {pick[s]}]][pick[s]]
      OBVIOUS
    <3>1. CASE s = {}
      <4>1. Cardinality(s) <= n
        BY <3>1, FS_EmptySet
      <4>2. s \in Small(n)
        BY <4>1
      <4> QED
        BY <2>1, <3>1, <4>1, <4>2
    <3>2. CASE s # {}
      <4>1. s \ {pick[s]} \in Small(n) /\ s \ {pick[s]} \in Small(n + 1)
        BY <2>2, <3>2
      <4>2. Cardinality(s \ {pick[s]}) <= n
        BY <4>1
      <4>3. g[s \ {pick[s]}] = h[s \ {pick[s]}]
        BY <4>1, <4>2
      <4>4. CASE Cardinality(s) <= n
        <5>1. s \in Small(n)
          BY <4>4
        <5>2. g[s] = h[s]
          BY <4>4
        <5> QED
          BY <2>1, <3>2, <4>3, <5>1, <5>2
      <4>5. CASE ~(Cardinality(s) <= n)
        BY <3>2, <4>3, <4>5
      <4> QED
        BY <4>4, <4>5
    <3> QED
      BY <3>1, <3>2
  <2> HIDE DEF g, Small, Solves
  <2> QED
    BY <2>3, <2>4
<1> HIDE DEF K
<1>6. Cardinality(S) \in K
  BY <1>1, <1>4, <1>5, NatSetInduction
<1>7. Small(Cardinality(S)) = SUBSET S
  <2>1. \A s \in SUBSET S : Cardinality(s) <= Cardinality(S)
    BY FS_Subset
  <2> QED
    BY <2>1
<1> QED
  BY <1>6, <1>7 DEF K, IsFold

Choice(s) == CHOOSE x \in s : TRUE

\* g is the function the recursion in a fold of f with + describes.
IsTotal(g, f, S) ==
  g = [s \in SUBSET S |-> IF s = {} THEN 0 ELSE f[Choice(s)] + g[s \ {Choice(s)}]]

\* The sum of f over S.
Total(f, S) == (CHOOSE g : IsTotal(g, f, S))[S]

\* Induction over the subsets of a finite set, for the set of those with a
\* property: one that takes out an element leads to a smaller set.
LEMMA SubsetInduction ==
  ASSUME NEW S, IsFiniteSet(S), NEW P, {} \in P,
         \A s \in SUBSET S : s # {} /\ (\A x \in s : s \ {x} \in P) => s \in P
  PROVE  \A s \in SUBSET S : s \in P
<1> DEFINE K == {n \in Nat : \A s \in SUBSET S : Cardinality(s) = n => s \in P}
<1>1. \A s \in SUBSET S : IsFiniteSet(s) /\ Cardinality(s) \in Nat
  BY FS_Subset, FS_CardinalityType
<1>2. \A s \in SUBSET S : Cardinality(s) = 0 => s = {}
  BY <1>1, FS_EmptySet
<1>3. 0 \in K
  BY <1>2
<1>4. ASSUME NEW n \in Nat, n \in K PROVE n + 1 \in K
  <2>1. SUFFICES ASSUME NEW s \in SUBSET S, Cardinality(s) = n + 1 PROVE s \in P
    OBVIOUS
  <2>2. s # {}
    BY <2>1, FS_EmptySet
  <2>3. \A x \in s : s \ {x} \in SUBSET S /\ Cardinality(s \ {x}) = n
    BY <1>1, <2>1, FS_RemoveElement
  <2>4. \A x \in s : s \ {x} \in P
    BY <1>4, <2>3
  <2> QED
    BY <2>2, <2>4
<1> HIDE DEF K
<1>5. \A n \in Nat : n \in K
  BY <1>3, <1>4, NatSetInduction
<1> QED
  BY <1>1, <1>5 DEF K

\* One function gives the sums of f over all subsets of S.
GivesTotals(g, f, S) ==
  /\ g \in [SUBSET S -> Int]
  /\ \A s \in SUBSET S : g[s] = Total(f, s)
  /\ \A s \in SUBSET S : g[s] = IF s = {} THEN 0 ELSE f[Choice(s)] + g[s \ {Choice(s)}]

LEMMA TotalOfSubsets ==
  ASSUME NEW S, IsFiniteSet(S), NEW f, \A x \in S : f[x] \in Int
  PROVE  \E g : GivesTotals(g, f, S)
<1>1. \A s \in SUBSET S : s # {} => Choice(s) \in s
  BY DEF Choice
<1>2. ASSUME NEW T \in SUBSET S
      PROVE  \E g \in [SUBSET T -> Int] : \A s \in SUBSET T :
               g[s] = IF s = {} THEN 0 ELSE f[Choice(s)] + g[s \ {Choice(s)}]
  <2>a. PICK pick : pick = [s \in (SUBSET T) \ {{}} |-> Choice(s)]
    OBVIOUS
  <2>b. PICK F : F = [n \in Int |-> [x \in T |-> f[x] + n]]
    OBVIOUS
  <2>1. IsFiniteSet(T)
    BY FS_Subset
  <2>2. Picks(pick, T)
    BY <1>1, <2>a DEF Picks
  <2>3. F \in [Int -> [T -> Int]]
    BY <2>b
  <2>4. \A n \in Int, x \in T : F[n][x] = f[x] + n
    BY <2>b
  <2>5. \A s \in SUBSET T : s # {} => pick[s] = Choice(s) /\ Choice(s) \in T
    BY <1>1, <2>a
  <2>6. PICK g : IsFold(g, T, Int, 0, pick, F)
    <3>1. PICK zero \in Int : zero = 0
      OBVIOUS
    <3>2. zero \in Int
      BY <3>1
    <3>3. \E g : IsFold(g, T, Int, zero, pick, F)
      BY <2>1, <2>2, <2>3, <3>2, FoldExists, Zenon
    <3> QED
      BY <3>1, <3>3
  <2>7. ASSUME NEW s \in SUBSET T, s # {}
        PROVE  g[s] = f[Choice(s)] + g[s \ {Choice(s)}]
    <3>1. s \ {Choice(s)} \in SUBSET T
      OBVIOUS
    <3>2. g[s \ {Choice(s)}] \in Int /\ g[s] = F[g[s \ {Choice(s)}]][Choice(s)]
      BY <2>5, <2>6, <2>7, <3>1 DEF IsFold
    <3> QED
      BY <2>4, <2>5, <2>7, <3>2
  <2> QED
    BY <2>6, <2>7 DEF IsFold
<1>3. ASSUME NEW T \in SUBSET S
      PROVE  \E g \in [SUBSET T -> Int] : /\ g = CHOOSE h : IsTotal(h, f, T)
                                          /\ \A s \in SUBSET T : g[s] = IF s = {} THEN 0
                                               ELSE f[Choice(s)] + g[s \ {Choice(s)}]
  <2>1. PICK g \in [SUBSET T -> Int] : \A s \in SUBSET T :
          g[s] = IF s = {} THEN 0 ELSE f[Choice(s)] + g[s \ {Choice(s)}]
    BY <1>2
  <2>2. IsTotal(g, f, T)
    BY <2>1 DEF IsTotal
  <2>3. PICK h : h = CHOOSE k : IsTotal(k, f, T)
    OBVIOUS
  <2>4. IsTotal(h, f, T)
    BY <2>2, <2>3
  <2>5. /\ DOMAIN h = SUBSET T /\ h = [s \in SUBSET T |-> h[s]]
        /\ \A s \in SUBSET T : h[s] = IF s = {} THEN 0 ELSE f[Choice(s)] + h[s \ {Choice(s)}]
    BY <2>4 DEF IsTotal
  <2> DEFINE P == {s \in SUBSET T : h[s] = g[s]}
  <2>6. {} \in P
    BY <2>1, <2>5
  <2>7. ASSUME NEW s \in SUBSET T, s # {}, \A x \in s : s \ {x} \in P PROVE s \in P
    <3>1. s \ {Choice(s)} \in P
      BY <1>1, <2>7
    <3>2. h[s] = f[Choice(s)] + h[s \ {Choice(s)}] /\ g[s] = f[Choice(s)] + g[s \ {Choice(s)}]
      BY <2>1, <2>5, <2>7
    <3> QED
      BY <3>1, <3>2
  <2>8. \A s \in SUBSET T : s \in P
    <3>1. IsFiniteSet(T)
      BY FS_Subset
    <3> HIDE DEF P
    <3> QED
      BY <2>6, <2>7, <3>1, SubsetInduction
  <2>9. h \in [SUBSET T -> Int]
    BY <2>5, <2>8
  <2> QED
    BY <2>3, <2>5, <2>9
<1>4. PICK g \in [SUBSET S -> Int] : \A s \in SUBSET S :
        g[s] = IF s = {} THEN 0 ELSE f[Choice(s)] + g[s \ {Choice(s)}]
  BY <1>2
<1>5. ASSUME NEW T \in SUBSET S PROVE g[T] = Total(f, T)
  <2>1. PICK h \in [SUBSET T -> Int] :
          /\ h = CHOOSE k : IsTotal(k, f, T)
          /\ \A s \in SUBSET T : h[s] = IF s = {} THEN 0 ELSE f[Choice(s)] + h[s \ {Choice(s)}]
    BY <1>3
  <2> DEFINE P == {s \in SUBSET T : h[s] = g[s]}
  <2>2. {} \in P
    BY <2>1, <1>4
  <2>3. ASSUME NEW s \in SUBSET T, s # {}, \A x \in s : s \ {x} \in P PROVE s \in P
    <3>1. s \ {Choice(s)} \in P
      BY <1>1, <2>3
    <3>2. h[s] = f[Choice(s)] + h[s \ {Choice(s)}] /\ g[s] = f[Choice(s)] + g[s \ {Choice(s)}]
      BY <1>4, <2>1, <2>3
    <3> QED
      BY <3>1, <3>2
  <2>4. \A s \in SUBSET T : s \in P
    <3>1. IsFiniteSet(T)
      BY FS_Subset
    <3> HIDE DEF P
    <3> QED
      BY <2>2, <2>3, <3>1, SubsetInduction
  <2> QED
    BY <2>1, <2>4 DEF Total
<1> QED
  BY <1>4, <1>5 DEF GivesTotals

LEMMA TotalEmpty == ASSUME NEW f PROVE Total(f, {}) = 0
<1>1. IsFiniteSet({}) /\ \A x \in {} : f[x] \in Int
  BY FS_EmptySet
<1>2. \A s \in SUBSET {} : s = {}
  OBVIOUS
<1>3. PICK none : none = {}
  OBVIOUS
<1>4. PICK g : GivesTotals(g, f, none)
  BY <1>1, <1>3, TotalOfSubsets
<1>5. none \in SUBSET none
  OBVIOUS
<1> QED
  BY <1>3, <1>4, <1>5 DEF GivesTotals

LEMMA TotalType ==
  ASSUME NEW S, IsFiniteSet(S), NEW f, \A x \in S : f[x] \in Int
  PROVE  Total(f, S) \in Int
<1>1. PICK g : GivesTotals(g, f, S)
  BY TotalOfSubsets
<1>2. S \in SUBSET S
  OBVIOUS
<1> QED
  BY <1>1, <1>2 DEF GivesTotals

\* Any element may be taken out first: + is associative and commutative.
LEMMA TotalTake ==
  ASSUME NEW S, IsFiniteSet(S), NEW f, \A x \in S : f[x] \in Int, NEW x \in S
  PROVE  Total(f, S) = f[x] + Total(f, S \ {x})
<1>0. PICK g : GivesTotals(g, f, S)
  BY TotalOfSubsets
<1>1. /\ g \in [SUBSET S -> Int]
      /\ \A s \in SUBSET S : g[s] = Total(f, s)
      /\ \A s \in SUBSET S : g[s] = IF s = {} THEN 0 ELSE f[Choice(s)] + g[s \ {Choice(s)}]
  BY <1>0 DEF GivesTotals
<1> DEFINE P == {s \in SUBSET S : \A y \in s : g[s] = f[y] + g[s \ {y}]}
<1>2. {} \in P
  OBVIOUS
<1>3. ASSUME NEW s \in SUBSET S, s # {}, \A y \in s : s \ {y} \in P PROVE s \in P
  <2>1. SUFFICES ASSUME NEW y \in s PROVE g[s] = f[y] + g[s \ {y}]
    OBVIOUS
  <2>2. PICK c \in s : c = Choice(s)
    BY <1>3 DEF Choice
  <2>3. g[s] = f[c] + g[s \ {c}]
    BY <1>1, <1>3, <2>2
  <2>4. CASE y = c
    BY <2>3, <2>4
  <2>5. CASE y # c
    <3>1. s \ {c} \in P /\ s \ {y} \in P
      BY <1>3
    <3>2. y \in s \ {c} /\ c \in s \ {y}
      BY <2>5
    <3>3. /\ g[s \ {c}] = f[y] + g[(s \ {c}) \ {y}]
          /\ g[s \ {y}] = f[c] + g[(s \ {y}) \ {c}]
      BY <3>1, <3>2
    <3>4. (s \ {c}) \ {y} = (s \ {y}) \ {c} /\ (s \ {y}) \ {c} \in SUBSET S
      OBVIOUS
    <3>5. PICK rest \in Int : rest = g[(s \ {y}) \ {c}]
      BY <1>1, <3>4
    <3>6. g[s \ {c}] = f[y] + rest /\ g[s \ {y}] = f[c] + rest
      BY <3>3, <3>4, <3>5
    <3>7. f[c] \in Int /\ f[y] \in Int
      OBVIOUS
    <3> QED
      BY <2>3, <3>5, <3>6, <3>7
  <2> QED
    BY <2>4, <2>5
<1>4. \A s \in SUBSET S : s \in P
  <2> HIDE DEF P
  <2> QED
    BY <1>2, <1>3, SubsetInduction
<1>5. S \in P /\ S \ {x} \in SUBSET S
  BY <1>4
<1>6. g[S] = f[x] + g[S \ {x}]
  BY <1>5
<1>7. g[S] = Total(f, S) /\ g[S \ {x}] = Total(f, S \ {x})
  BY <1>1, <1>5
<1> QED
  BY <1>6, <1>7

\* So a fold that takes the elements out in any order gives the same sum.
LEMMA TotalInAnyOrder ==
  ASSUME NEW S, IsFiniteSet(S), NEW f, \A x \in S : f[x] \in Int,
         NEW g, g[{}] = 0,
         \A s \in SUBSET S : s # {} =>
           \E x \in s : g[s \ {x}] \in Int => g[s] = f[x] + g[s \ {x}]
  PROVE  g[S] = Total(f, S)
<1> DEFINE P == {s \in SUBSET S : g[s] = Total(f, s)}
<1>1. {} \in P
  BY TotalEmpty
<1>2. ASSUME NEW s \in SUBSET S, s # {}, \A x \in s : s \ {x} \in P PROVE s \in P
  <2>1. PICK x \in s : g[s \ {x}] \in Int => g[s] = f[x] + g[s \ {x}]
    BY <1>2
  <2>2. g[s \ {x}] = Total(f, s \ {x})
    BY <1>2
  <2>3. /\ IsFiniteSet(s) /\ \A y \in s : f[y] \in Int
        /\ IsFiniteSet(s \ {x}) /\ \A y \in s \ {x} : f[y] \in Int
    BY FS_Subset
  <2>4. Total(f, s) = f[x] + Total(f, s \ {x}) /\ Total(f, s \ {x}) \in Int
    BY <2>3, TotalTake, TotalType
  <2> QED
    BY <2>1, <2>2, <2>4
<1>3. \A s \in SUBSET S : s \in P
  <2> HIDE DEF P
  <2> QED
    BY <1>1, <1>2, SubsetInduction
<1>4. S \in P
  BY <1>3
<1> QED
  BY <1>4

LEMMA TotalCongruence ==
  ASSUME NEW S, IsFiniteSet(S), NEW f, NEW g, \A x \in S : f[x] \in Int, \A x \in S : f[x] = g[x]
  PROVE  Total(f, S) = Total(g, S)
<1> DEFINE P == {s \in SUBSET S : Total(f, s) = Total(g, s)}
<1>1. {} \in P
  BY TotalEmpty
<1>2. ASSUME NEW s \in SUBSET S, s # {}, \A x \in s : s \ {x} \in P PROVE s \in P
  <2>1. PICK x \in s : TRUE
    BY <1>2
  <2>2. IsFiniteSet(s) /\ (\A y \in s : f[y] \in Int) /\ (\A y \in s : g[y] \in Int)
    BY FS_Subset
  <2>3. Total(f, s) = f[x] + Total(f, s \ {x}) /\ Total(g, s) = g[x] + Total(g, s \ {x})
    BY <2>2, TotalTake
  <2>4. Total(f, s \ {x}) = Total(g, s \ {x}) /\ f[x] = g[x]
    BY <1>2
  <2> QED
    BY <2>3, <2>4
<1>3. \A s \in SUBSET S : s \in P
  <2> HIDE DEF P
  <2> QED
    BY <1>1, <1>2, SubsetInduction
<1>4. S \in P
  BY <1>3
<1> QED
  BY <1>4

\* One value changes.
LEMMA TotalPoint ==
  ASSUME NEW S, IsFiniteSet(S), NEW f, NEW g, NEW j \in S,
         \A x \in S : f[x] \in Int /\ g[x] \in Int, \A x \in S : x # j => f[x] = g[x]
  PROVE  Total(g, S) = Total(f, S) + g[j] - f[j]
<1>1. /\ Total(f, S) = f[j] + Total(f, S \ {j}) /\ Total(g, S) = g[j] + Total(g, S \ {j})
      /\ IsFiniteSet(S \ {j})
  BY TotalTake, FS_Subset
<1>2. Total(f, S \ {j}) = Total(g, S \ {j}) /\ Total(f, S \ {j}) \in Int
  BY <1>1, TotalCongruence, TotalType
<1> QED
  BY <1>1, <1>2

\* The same of a function whose value for j is replaced by n.
LEMMA TotalExcept ==
  ASSUME NEW S, IsFiniteSet(S), NEW f, NEW j \in S, NEW n \in Int
  PROVE  f \in [S -> Int] => /\ Total([f EXCEPT ![j] = n], S) = Total(f, S) + n - f[j]
                            /\ Total(f, S) \in Int
<1>1. SUFFICES ASSUME f \in [S -> Int]
               PROVE  /\ Total([f EXCEPT ![j] = n], S) = Total(f, S) + n - f[j]
                      /\ Total(f, S) \in Int
  OBVIOUS
<1>2. PICK g : g = [f EXCEPT ![j] = n]
  OBVIOUS
<1>3. /\ \A x \in S : f[x] \in Int /\ g[x] \in Int
      /\ \A x \in S : x # j => f[x] = g[x]
  BY <1>1, <1>2
<1>4. Total(g, S) = Total(f, S) + g[j] - f[j]
  BY <1>3, TotalPoint
<1>5. Total(f, S) \in Int
  BY <1>3, TotalType
<1> QED
  BY <1>1, <1>2, <1>4, <1>5

\* Sums of sums, and of sums that are ordered.
LEMMA TotalPlus ==
  ASSUME NEW S, IsFiniteSet(S), NEW f, NEW g, NEW h,
         \A x \in S : f[x] \in Int /\ g[x] \in Int /\ h[x] = f[x] + g[x]
  PROVE  Total(h, S) = Total(f, S) + Total(g, S)
<1> DEFINE P == {s \in SUBSET S : Total(h, s) = Total(f, s) + Total(g, s)}
<1>1. {} \in P
  BY TotalEmpty
<1>2. ASSUME NEW s \in SUBSET S, s # {}, \A x \in s : s \ {x} \in P PROVE s \in P
  <2>1. PICK x \in s : TRUE
    BY <1>2
  <2>2. /\ IsFiniteSet(s) /\ IsFiniteSet(s \ {x})
        /\ \A y \in s : f[y] \in Int /\ g[y] \in Int /\ h[y] \in Int
    BY FS_Subset
  <2>3. /\ Total(f, s) = f[x] + Total(f, s \ {x}) /\ Total(g, s) = g[x] + Total(g, s \ {x})
        /\ Total(h, s) = h[x] + Total(h, s \ {x})
    BY <2>2, TotalTake
  <2>4. Total(f, s \ {x}) \in Int /\ Total(g, s \ {x}) \in Int
    BY <2>2, TotalType
  <2>5. Total(h, s \ {x}) = Total(f, s \ {x}) + Total(g, s \ {x}) /\ h[x] = f[x] + g[x]
    BY <1>2
  <2>6. f[x] \in Int /\ g[x] \in Int
    OBVIOUS
  <2>7. Total(h, s) = Total(f, s) + Total(g, s)
    BY <2>3, <2>4, <2>5, <2>6
  <2> QED
    BY <2>7
<1>3. \A s \in SUBSET S : s \in P
  <2> HIDE DEF P
  <2> QED
    BY <1>1, <1>2, SubsetInduction
<1>4. S \in P
  BY <1>3
<1> QED
  BY <1>4

LEMMA TotalMonotone ==
  ASSUME NEW S, IsFiniteSet(S), NEW f, NEW g,
         \A x \in S : f[x] \in Int /\ g[x] \in Int /\ f[x] <= g[x]
  PROVE  Total(f, S) <= Total(g, S)
<1> DEFINE P == {s \in SUBSET S : Total(f, s) <= Total(g, s)}
<1>1. {} \in P
  BY TotalEmpty
<1>2. ASSUME NEW s \in SUBSET S, s # {}, \A x \in s : s \ {x} \in P PROVE s \in P
  <2>1. PICK x \in s : TRUE
    BY <1>2
  <2>2. IsFiniteSet(s) /\ IsFiniteSet(s \ {x}) /\ \A y \in s : f[y] \in Int /\ g[y] \in Int
    BY FS_Subset
  <2>3. Total(f, s) = f[x] + Total(f, s \ {x}) /\ Total(g, s) = g[x] + Total(g, s \ {x})
    BY <2>2, TotalTake
  <2>4. Total(f, s \ {x}) \in Int /\ Total(g, s \ {x}) \in Int
    BY <2>2, TotalType
  <2>5. Total(f, s \ {x}) <= Total(g, s \ {x}) /\ f[x] <= g[x]
    BY <1>2
  <2>6. f[x] \in Int /\ g[x] \in Int
    OBVIOUS
  <2>7. Total(f, s) <= Total(g, s)
    BY <2>3, <2>4, <2>5, <2>6
  <2> QED
    BY <2>7
<1>3. \A s \in SUBSET S : s \in P
  <2> HIDE DEF P
  <2> QED
    BY <1>1, <1>2, SubsetInduction
<1>4. S \in P
  BY <1>3
<1> QED
  BY <1>4

LEMMA TotalOfZeros ==
  ASSUME NEW S, IsFiniteSet(S), NEW f, \A x \in S : f[x] = 0
  PROVE  Total(f, S) = 0
<1> DEFINE P == {s \in SUBSET S : Total(f, s) = 0}
<1>1. {} \in P
  BY TotalEmpty
<1>2. ASSUME NEW s \in SUBSET S, s # {}, \A x \in s : s \ {x} \in P PROVE s \in P
  <2>1. PICK x \in s : TRUE
    BY <1>2
  <2>2. IsFiniteSet(s) /\ \A y \in s : f[y] \in Int
    BY FS_Subset
  <2>3. Total(f, s) = f[x] + Total(f, s \ {x})
    BY <2>2, TotalTake
  <2>4. Total(f, s \ {x}) = 0 /\ f[x] = 0
    BY <1>2
  <2> QED
    BY <2>3, <2>4
<1>3. \A s \in SUBSET S : s \in P
  <2> HIDE DEF P
  <2> QED
    BY <1>1, <1>2, SubsetInduction
<1>4. S \in P
  BY <1>3
<1> QED
  BY <1>4

LEMMA TotalNat ==
  ASSUME NEW S, IsFiniteSet(S), NEW f, \A x \in S : f[x] \in Nat
  PROVE  Total(f, S) \in Nat
<1> DEFINE none == [x \in S |-> 0]
<1>1. \A x \in S : none[x] \in Int /\ f[x] \in Int /\ none[x] <= f[x] /\ none[x] = 0
  OBVIOUS
<1> HIDE DEF none
<1>2. Total(none, S) = 0 /\ Total(none, S) <= Total(f, S) /\ Total(f, S) \in Int
  BY <1>1, TotalOfZeros, TotalMonotone, TotalType
<1> QED
  BY <1>2

\* Every number times c, and numbers that are not above b.
LEMMA TotalScale ==
  ASSUME NEW S, IsFiniteSet(S), NEW c \in Int, NEW f, NEW h,
         \A x \in S : f[x] \in Int /\ h[x] = c * f[x]
  PROVE  Total(h, S) = c * Total(f, S)
<1> DEFINE P == {s \in SUBSET S : Total(h, s) = c * Total(f, s)}
<1>1. {} \in P
  BY TotalEmpty
<1>2. ASSUME NEW s \in SUBSET S, s # {}, \A x \in s : s \ {x} \in P PROVE s \in P
  <2>1. PICK x \in s : TRUE
    BY <1>2
  <2>2. /\ IsFiniteSet(s) /\ IsFiniteSet(s \ {x})
        /\ \A y \in s : f[y] \in Int /\ h[y] \in Int
    BY FS_Subset
  <2>3. Total(f, s) = f[x] + Total(f, s \ {x}) /\ Total(h, s) = h[x] + Total(h, s \ {x})
    BY <2>2, TotalTake
  <2>4. PICK a \in Int, b \in Int : a = f[x] /\ b = Total(f, s \ {x})
    BY <2>2, TotalType
  <2>5. Total(h, s \ {x}) = c * b /\ h[x] = c * a
    BY <1>2, <2>4
  <2>6. c * (a + b) = c * a + c * b
    OBVIOUS
  <2>7. Total(h, s) = c * Total(f, s)
    BY <2>3, <2>4, <2>5, <2>6
  <2> QED
    BY <2>7
<1>3. \A s \in SUBSET S : s \in P
  <2> HIDE DEF P
  <2> QED
    BY <1>1, <1>2, SubsetInduction
<1>4. S \in P
  BY <1>3
<1> QED
  BY <1>4

LEMMA TotalBounded ==
  ASSUME NEW S, IsFiniteSet(S), NEW b \in Nat, NEW f, \A x \in S : f[x] \in 0..b
  PROVE  Total(f, S) \in Nat /\ Total(f, S) <= b * Cardinality(S)
<1> DEFINE P == {s \in SUBSET S : Total(f, s) <= b * Cardinality(s)}
<1>1. {} \in P
  BY TotalEmpty, FS_EmptySet
<1>2. ASSUME NEW s \in SUBSET S, s # {}, \A x \in s : s \ {x} \in P PROVE s \in P
  <2>1. PICK x \in s : TRUE
    BY <1>2
  <2>2. /\ IsFiniteSet(s) /\ IsFiniteSet(s \ {x}) /\ \A y \in s : f[y] \in Int
    BY FS_Subset
  <2>3. Total(f, s) = f[x] + Total(f, s \ {x})
    BY <2>2, TotalTake
  <2>4. PICK a \in Int, t \in Int : a = f[x] /\ t = Total(f, s \ {x}) /\ a <= b
    BY <2>2, TotalType
  <2>5. Cardinality(s \ {x}) = Cardinality(s) - 1 /\ Cardinality(s) \in Nat
    BY <2>2, FS_RemoveElement, FS_CardinalityType
  <2>6. PICK k \in Nat, m \in Int : k = Cardinality(s) /\ m = Cardinality(s \ {x}) /\ m = k - 1
    BY <2>5
  <2>7. t <= b * m
    BY <1>2, <2>4, <2>6
  <2>8. b * m = b * k - b
    BY <2>6
  <2>9. Total(f, s) <= b * Cardinality(s)
    BY <2>3, <2>4, <2>6, <2>7, <2>8
  <2> QED
    BY <2>9
<1>3. \A s \in SUBSET S : s \in P
  <2> HIDE DEF P
  <2> QED
    BY <1>1, <1>2, SubsetInduction
<1>4. S \in P
  BY <1>3
<1>5. \A x \in S : f[x] \in Nat
  OBVIOUS
<1>6. Total(f, S) \in Nat
  BY <1>5, TotalNat
<1> QED
  BY <1>4, <1>6

\* The numbers of I, sorted by their keys, have the same total: summing what
\* each key has gives the sum of all.
Keyed(s, key, a) == {x \in s : key[x] = a}

LEMMA TotalByKey ==
  ASSUME NEW I, IsFiniteSet(I), NEW A, IsFiniteSet(A), NEW f, \A x \in I : f[x] \in Int,
         NEW key, \A x \in I : key[x] \in A
  PROVE  Total([a \in A |-> Total(f, Keyed(I, key, a))], A) = Total(f, I)
<1> DEFINE Each(s) == [a \in A |-> Total(f, Keyed(s, key, a))]
           P == {s \in SUBSET I : Total(Each(s), A) = Total(f, s)}
<1>1. {} \in P
  <2>1. \A a \in A : Each({})[a] = 0
    BY TotalEmpty DEF Keyed
  <2> HIDE DEF Each
  <2>2. Total(Each({}), A) = 0 /\ Total(f, {}) = 0
    BY <2>1, TotalOfZeros, TotalEmpty
  <2> QED
    BY <2>2
<1>2. ASSUME NEW s \in SUBSET I, s # {}, \A x \in s : s \ {x} \in P PROVE s \in P
  <2>1. PICK x \in s : TRUE
    BY <1>2
  <2>2. \A a : /\ IsFiniteSet(Keyed(s, key, a)) /\ IsFiniteSet(Keyed(s \ {x}, key, a))
               /\ \A y \in Keyed(s, key, a) : f[y] \in Int
               /\ \A y \in Keyed(s \ {x}, key, a) : f[y] \in Int
    <3>1. \A a : Keyed(s, key, a) \in SUBSET I /\ Keyed(s \ {x}, key, a) \in SUBSET I
      BY DEF Keyed
    <3> QED
      BY <3>1, FS_Subset
  <2>3. key[x] \in A /\ f[x] \in Int /\ IsFiniteSet(s) /\ \A y \in s : f[y] \in Int
    BY FS_Subset
  <2>4. \A a \in A : a # key[x] => Keyed(s, key, a) = Keyed(s \ {x}, key, a)
    BY DEF Keyed
  <2>5. /\ x \in Keyed(s, key, key[x])
        /\ Keyed(s, key, key[x]) \ {x} = Keyed(s \ {x}, key, key[x])
    BY DEF Keyed
  <2>6. Total(f, Keyed(s, key, key[x])) = f[x] + Total(f, Keyed(s \ {x}, key, key[x]))
    <3>1. PICK K : K = Keyed(s, key, key[x])
      OBVIOUS
    <3>2. IsFiniteSet(K) /\ (\A y \in K : f[y] \in Int) /\ x \in K
      BY <2>2, <2>5, <3>1
    <3>3. Total(f, K) = f[x] + Total(f, K \ {x})
      BY <3>2, TotalTake
    <3> QED
      BY <2>5, <3>1, <3>3
  <2>7. /\ \A a \in A : Each(s)[a] \in Int /\ Each(s \ {x})[a] \in Int
        /\ \A a \in A : a # key[x] => Each(s \ {x})[a] = Each(s)[a]
    <3>1. ASSUME NEW a
          PROVE  Total(f, Keyed(s, key, a)) \in Int /\ Total(f, Keyed(s \ {x}, key, a)) \in Int
      <4>1. PICK K, L : K = Keyed(s, key, a) /\ L = Keyed(s \ {x}, key, a)
        OBVIOUS
      <4>2. K \in SUBSET I /\ L \in SUBSET I
        BY <4>1 DEF Keyed
      <4>3. /\ IsFiniteSet(K) /\ \A y \in K : f[y] \in Int
            /\ IsFiniteSet(L) /\ \A y \in L : f[y] \in Int
        BY <4>2, FS_Subset
      <4>4. Total(f, K) \in Int /\ Total(f, L) \in Int
        BY <4>3, TotalType
      <4> QED
        BY <4>1, <4>4
    <3> QED
      BY <2>4, <3>1
  <2>8. Each(s)[key[x]] = f[x] + Each(s \ {x})[key[x]]
    BY <2>3, <2>6
  <2> HIDE DEF Each
  <2>9. Total(Each(s), A) = Total(Each(s \ {x}), A) + Each(s)[key[x]] - Each(s \ {x})[key[x]]
    <3>1. PICK g, h, k : g = Each(s \ {x}) /\ h = Each(s) /\ k = key[x]
      OBVIOUS
    <3>2. /\ \A a \in A : g[a] \in Int /\ h[a] \in Int
          /\ \A a \in A : a # k => g[a] = h[a]
      BY <2>7, <3>1
    <3>3. k \in A
      BY <2>3, <3>1
    <3>4. Total(h, A) = Total(g, A) + h[k] - g[k]
      BY <3>2, <3>3, TotalPoint
    <3> QED
      BY <3>1, <3>4
  <2>10. Total(Each(s \ {x}), A) = Total(f, s \ {x})
    BY <1>2
  <2>11. Total(f, s) = f[x] + Total(f, s \ {x})
    BY <2>3, TotalTake
  <2>12. Total(Each(s \ {x}), A) \in Int /\ Each(s \ {x})[key[x]] \in Int
    BY <2>3, <2>7, TotalType
  <2>13. Total(Each(s), A) = Total(f, s)
    BY <2>3, <2>8, <2>9, <2>10, <2>11, <2>12
  <2> QED
    BY <2>13
<1>3. \A s \in SUBSET I : s \in P
  <2> HIDE DEF P
  <2> QED
    BY <1>1, <1>2, SubsetInduction
<1>4. I \in P
  BY <1>3
<1> QED
  BY <1>4

\* Whoever keeps a number for each key and adds to it what the key has adds all of it.
LEMMA TotalAddedByKey ==
  ASSUME NEW I, IsFiniteSet(I), NEW A, IsFiniteSet(A), NEW f, \A x \in I : f[x] \in Int,
         NEW key, \A x \in I : key[x] \in A,
         NEW old, \A a \in A : old[a] \in Int,
         NEW new, \A a \in A : new[a] = old[a] + Total(f, Keyed(I, key, a))
  PROVE  Total(new, A) = Total(old, A) + Total(f, I)
<1>1. PICK part : part = [a \in A |-> Total(f, Keyed(I, key, a))]
  OBVIOUS
<1>2. Total(part, A) = Total(f, I)
  BY <1>1, TotalByKey
<1>3. ASSUME NEW a \in A
      PROVE  old[a] \in Int /\ part[a] \in Int /\ new[a] = old[a] + part[a]
  <2>1. PICK K \in SUBSET I : K = Keyed(I, key, a)
    BY DEF Keyed
  <2>2. IsFiniteSet(K) /\ \A y \in K : f[y] \in Int
    BY <2>1, FS_Subset
  <2>3. Total(f, K) \in Int
    BY <2>2, TotalType
  <2> QED
    BY <1>1, <2>1, <2>3
<1>4. Total(new, A) = Total(old, A) + Total(part, A)
  BY <1>3, TotalPlus
<1> QED
  BY <1>2, <1>4

------------------------------------------------------------------------------
\* Folds of a sequence take out the greatest index first.
Greatest(s) == CHOOSE x \in s : \A y \in s : x >= y

LEMMA GreatestIn ==
  ASSUME NEW n \in Nat, NEW s \in SUBSET (1..n), s # {}
  PROVE  Greatest(s) \in s /\ \A y \in s : Greatest(s) >= y
<1> DEFINE T == {n - x : x \in s}
<1>1. T \in SUBSET Nat /\ T # {}
  <2>1. \A x \in s : x \in 1..n
    OBVIOUS
  <2>2. \A x \in s : n - x \in Nat
    BY <2>1
  <2>3. PICK x \in s : n - x \in T
    OBVIOUS
  <2> QED
    BY <2>2, <2>3
<1>2. PICK m \in T : \A k \in T : m <= k
  BY <1>1, LeastNat
<1>3. PICK x \in s : m = n - x
  BY <1>2
<1>4. ASSUME NEW y \in s PROVE x >= y
  <2>1. n - y \in T /\ y \in 1..n /\ x \in 1..n
    OBVIOUS
  <2>2. n - x <= n - y
    BY <1>2, <1>3, <2>1
  <2> QED
    BY <2>1, <2>2
<1> QED
  BY <1>4 DEF Greatest

LEMMA GreatestOfPrefix ==
  ASSUME NEW k \in Nat, k # 0
  PROVE  Greatest(1..k) = k /\ (1..k) \ {k} = 1..(k - 1)
<1>1. 1..k \in SUBSET (1..k) /\ 1..k # {} /\ k \in 1..k
  OBVIOUS
<1>2. Greatest(1..k) \in 1..k /\ Greatest(1..k) >= k
  BY <1>1, GreatestIn
<1> QED
  BY <1>2

\* g is the function the recursion in FoldLeft over a sequence of length n
\* describes: F[a][i] is what its operator makes of a and the i-th element.
IsLeftFold(g, n, base, F) ==
  g = [s \in SUBSET (1..n) |->
         IF s = {} THEN base ELSE F[g[s \ {Greatest(s)}]][Greatest(s)]]

LEMMA LeftFoldExists ==
  ASSUME NEW n \in Nat, NEW A, NEW base \in A, NEW F \in [A -> [1..n -> A]]
  PROVE  \E g : g \in [SUBSET (1..n) -> A] /\ IsLeftFold(g, n, base, F)
<1>1. PICK pick : pick = [s \in (SUBSET (1..n)) \ {{}} |-> Greatest(s)]
  OBVIOUS
<1>2. Picks(pick, 1..n)
  BY <1>1, GreatestIn DEF Picks
<1>3. PICK S : S = 1..n
  OBVIOUS
<1>4. IsFiniteSet(S) /\ Picks(pick, S) /\ F \in [A -> [S -> A]]
  BY <1>2, <1>3, FS_Interval
<1>5. PICK g : IsFold(g, S, A, base, pick, F)
  BY <1>4, FoldExists, Zenon
<1>6. /\ g \in [SUBSET (1..n) -> A]
      /\ \A s \in SUBSET (1..n) : g[s] = IF s = {} THEN base ELSE F[g[s \ {pick[s]}]][pick[s]]
  BY <1>3, <1>5 DEF IsFold
<1>7. \A s \in SUBSET (1..n) : s # {} => pick[s] = Greatest(s)
  BY <1>1
<1>8. IsLeftFold(g, n, base, F)
  BY <1>6, <1>7 DEF IsLeftFold
<1> QED
  BY <1>6, <1>8

\* So it accumulates from the left.
LEMMA LeftFoldSteps ==
  ASSUME NEW n \in Nat, NEW base, NEW F, NEW g, IsLeftFold(g, n, base, F)
  PROVE  /\ g[{}] = base /\ g[1..0] = base
         /\ \A k \in 1..n : g[1..k] = F[g[1..(k - 1)]][k]
<1>1. {} \in SUBSET (1..n) /\ 1..0 = {}
  OBVIOUS
<1>2. g[{}] = base /\ g[1..0] = base
  BY <1>1 DEF IsLeftFold
<1>3. ASSUME NEW k \in 1..n PROVE g[1..k] = F[g[1..(k - 1)]][k]
  <2>1. /\ Greatest(1..k) = k /\ (1..k) \ {k} = 1..(k - 1)
        /\ 1..k \in SUBSET (1..n) /\ 1..k # {}
    BY GreatestOfPrefix
  <2>2. g[1..k] = F[g[(1..k) \ {Greatest(1..k)}]][Greatest(1..k)]
    BY <2>1 DEF IsLeftFold
  <2> QED
    BY <2>1, <2>2
<1> QED
  BY <1>2, <1>3

------------------------------------------------------------------------------
\* Division rounds down.

LEMMA IntDivision ==
  ASSUME NEW x \in Int, NEW d \in Nat \ {0}
  PROVE  /\ x \div d \in Int /\ x % d \in 0..(d - 1)
         /\ x = d * (x \div d) + (x % d)
OBVIOUS

LEMMA QuotientUnique ==
  ASSUME NEW x \in Int, NEW d \in Nat \ {0}, NEW q \in Int, NEW r \in 0..(d - 1),
         x = d * q + r
  PROVE  x \div d = q
<1>1. PICK p \in Int, y \in 0..(d - 1) : p = x \div d /\ x = d * p + y
  BY IntDivision
<1>2. PICK u \in Int, v \in Int : u = d * p /\ v = d * q
  OBVIOUS
<1>3. d * (p - q) = r - y
  <2>1. d * (p - q) = u - v
    BY <1>2
  <2>2. u + y = v + r
    BY <1>1, <1>2
  <2> QED
    BY <1>1, <2>1, <2>2
<1>4. PICK z \in Int : z = p - q
  OBVIOUS
<1>5. z >= 1 => d * z >= d
  OBVIOUS
<1>6. z <= -1 => d * z <= -d
  OBVIOUS
<1>7. d * z = r - y
  BY <1>3, <1>4
<1>8. PICK w \in Int : w = d * z
  OBVIOUS
<1>9. w < d /\ w > -d
  BY <1>1, <1>7, <1>8
<1>10. z = 0
  BY <1>5, <1>6, <1>8, <1>9
<1> QED
  BY <1>1, <1>4, <1>10

LEMMA DivMonotone ==
  ASSUME NEW x \in Nat, NEW y \in Nat, NEW t \in Nat \ {0}, x <= y
  PROVE  x \div t <= y \div t
<1> DEFINE p == x \div t
           q == y \div t
<1>1. p \in Nat /\ x >= t * p
  OBVIOUS
<1>2. q \in Nat /\ y < t * (q + 1)
  OBVIOUS
<1> HIDE DEF p, q
<1>3. t * p < t * (q + 1)
  BY <1>1, <1>2
<1>4. p < q + 1
  BY <1>1, <1>2, <1>3
<1>5. p <= q
  BY <1>1, <1>2, <1>4
<1> QED
  BY <1>5 DEF p, q

\* Dividing by h and then by k is dividing by h * k.
LEMMA NestedDivision ==
  ASSUME NEW x \in Nat, NEW h \in Nat \ {0}, NEW k \in Nat \ {0}
  PROVE  (x \div h) \div k = x \div (h * k)
<1>1. PICK q \in Int, r \in 0..(h - 1) : q = x \div h /\ x = h * q + r
  BY IntDivision
<1>2. PICK p \in Int, s \in 0..(k - 1) : p = q \div k /\ q = k * p + s
  BY IntDivision
<1>3. PICK d \in Nat \ {0} : d = h * k
  OBVIOUS
<1>4. h * s + r \in 0..(d - 1)
  <2>1. h * s >= 0 /\ h * s <= h * (k - 1)
    OBVIOUS
  <2>2. h * (k - 1) = d - h
    BY <1>3
  <2>3. h * s \in Int
    OBVIOUS
  <2> QED
    BY <2>1, <2>2, <2>3
<1>5. x = d * p + (h * s + r)
  <2>1. h * q = h * (k * p) + h * s
    BY <1>2
  <2>2. h * (k * p) = d * p
    BY <1>3
  <2> QED
    BY <1>1, <2>1, <2>2
<1>6. x \div d = p
  BY <1>4, <1>5, QuotientUnique
<1> QED
  BY <1>1, <1>2, <1>3, <1>6

\* Shares of t in parts of d that are all of d, each rounded down: together they
\* are not more than t, and fall short of it by less than one for each share.
LEMMA SharesOfAll ==
  ASSUME NEW S, IsFiniteSet(S), NEW t \in Nat, NEW d \in Nat \ {0},
         NEW part, \A x \in S : part[x] \in Nat, Total(part, S) = d,
         NEW share, \A x \in S : share[x] = (t * part[x]) \div d
  PROVE  /\ \A x \in S : share[x] \in Nat
         /\ Total(share, S) \in Nat /\ Total(share, S) <= t
         /\ t - Total(share, S) < Cardinality(S)
<1> DEFINE whole == [x \in S |-> t * part[x]]
           floor == [x \in S |-> d * share[x]]
           rest == [x \in S |-> (t * part[x]) % d]
<1>1. ASSUME NEW x \in S
      PROVE  /\ share[x] \in Nat /\ rest[x] \in 0..(d - 1)
             /\ floor[x] \in Int /\ whole[x] = floor[x] + rest[x]
  <2>1. PICK p \in Nat : p = part[x]
    OBVIOUS
  <2>2. PICK w \in Nat : w = t * p
    OBVIOUS
  <2>3. w \div d \in Int /\ w % d \in 0..(d - 1) /\ w = d * (w \div d) + (w % d)
    BY <2>2, IntDivision
  <2>4. w \div d \in Nat
    BY <2>2
  <2>5. share[x] = w \div d /\ rest[x] = w % d /\ whole[x] = w /\ floor[x] = d * (w \div d)
    BY <2>1, <2>2
  <2>6. d * (w \div d) \in Int
    BY <2>3
  <2> QED
    BY <2>3, <2>4, <2>5, <2>6
<1>2. \A x \in S : part[x] \in Int /\ whole[x] = t * part[x]
  OBVIOUS
<1>3. \A x \in S : share[x] \in Int /\ floor[x] = d * share[x]
  BY <1>1
<1> HIDE DEF whole, floor, rest
<1>4. Total(whole, S) = t * d
  BY <1>2, TotalScale
<1>5. Total(floor, S) = d * Total(share, S)
  BY <1>3, TotalScale
<1>6. Total(whole, S) = Total(floor, S) + Total(rest, S)
  <2>1. \A x \in S : floor[x] \in Int /\ rest[x] \in Int /\ whole[x] = floor[x] + rest[x]
    BY <1>1
  <2> QED
    BY <2>1, TotalPlus
<1>7. Total(rest, S) \in Nat /\ Total(rest, S) <= (d - 1) * Cardinality(S)
  <2>1. d - 1 \in Nat /\ \A x \in S : rest[x] \in 0..(d - 1)
    BY <1>1
  <2> QED
    BY <2>1, TotalBounded
<1>8. PICK q \in Nat, r \in Nat, n \in Nat :
        q = Total(share, S) /\ r = Total(rest, S) /\ n = Cardinality(S)
  BY <1>1, <1>7, TotalNat, FS_CardinalityType
<1>9. t * d = d * q + r /\ r <= (d - 1) * n
  BY <1>4, <1>5, <1>6, <1>7, <1>8
<1>10. q <= t
  <2>1. SUFFICES ASSUME q >= t + 1 PROVE FALSE
    OBVIOUS
  <2>2. d * q >= d * (t + 1)
    BY <2>1
  <2>3. d * (t + 1) = t * d + d
    OBVIOUS
  <2> QED
    BY <1>9, <2>2, <2>3
<1>11. n # 0
  BY <1>8, TotalEmpty, FS_EmptySet
<1>12. t - q < n
  <2>1. SUFFICES ASSUME t >= q + n PROVE FALSE
    OBVIOUS
  <2>2. t * d >= (q + n) * d
    BY <2>1
  <2>3. (q + n) * d = d * q + d * n /\ (d - 1) * n = d * n - n
    OBVIOUS
  <2> QED
    BY <1>9, <1>11, <2>2, <2>3
<1> QED
  BY <1>1, <1>8, <1>10, <1>12

------------------------------------------------------------------------------
\* A total over a set is one over a part of it and one over the rest.
LEMMA TotalSplit ==
  ASSUME NEW T, IsFiniteSet(T), NEW S \in SUBSET T, NEW f, \A x \in T : f[x] \in Int
  PROVE  Total(f, T) = Total(f, S) + Total(f, T \ S)
<1>1. PICK key : key = [x \in T |-> IF x \in S THEN 1 ELSE 0]
  OBVIOUS
<1>2. PICK h : h = [a \in {0, 1} |-> Total(f, Keyed(T, key, a))]
  OBVIOUS
<1>3. IsFiniteSet({0, 1})
  <2>1. PICK a \in Int, b \in Int : a = 0 /\ b = 1
    OBVIOUS
  <2>2. IsFiniteSet(a..b)
    BY FS_Interval
  <2>3. {0, 1} = a..b
    BY <2>1
  <2> QED
    BY <2>2, <2>3
<1>4. \A x \in T : key[x] \in {0, 1}
  BY <1>1
<1>5. Total(h, {0, 1}) = Total(f, T)
  BY <1>2, <1>3, <1>4, TotalByKey
<1>6. Keyed(T, key, 1) = S /\ Keyed(T, key, 0) = T \ S
  BY <1>1 DEF Keyed
<1>7. h[0] = Total(f, T \ S) /\ h[1] = Total(f, S)
  BY <1>2, <1>6
<1>8. Total(f, T \ S) \in Int /\ Total(f, S) \in Int
  BY FS_Subset, TotalType
<1>9. Total(h, {0, 1}) = h[1] + Total(h, {0, 1} \ {1})
  BY <1>3, <1>7, <1>8, TotalTake
<1>10. PICK Z : Z = {0, 1} \ {1}
  OBVIOUS
<1>11. Total(h, Z) = h[0] + Total(h, Z \ {0})
  <2>1. IsFiniteSet(Z) /\ 0 \in Z /\ \A a \in Z : h[a] \in Int
    BY <1>3, <1>7, <1>8, <1>10, FS_Subset
  <2> QED
    BY <2>1, TotalTake
<1>12. Z \ {0} = {}
  BY <1>10
<1>13. Total(h, {}) = 0
  BY TotalEmpty
<1>14. PICK p \in Int, q \in Int : p = h[1] /\ q = h[0]
  BY <1>7, <1>8
<1>15. Total(h, Z) = q
  BY <1>11, <1>12, <1>13, <1>14
<1>16. Total(h, {0, 1}) = p + q
  BY <1>9, <1>10, <1>14, <1>15
<1> QED
  BY <1>5, <1>7, <1>14, <1>16

\* A part of natural numbers adds up to no more than all of them.
LEMMA TotalOfPart ==
  ASSUME NEW T, IsFiniteSet(T), NEW S \in SUBSET T, NEW f, \A x \in T : f[x] \in Nat
  PROVE  Total(f, S) \in Nat /\ Total(f, S) <= Total(f, T)
<1>1. \A x \in T : f[x] \in Int
  OBVIOUS
<1>2. Total(f, T) = Total(f, S) + Total(f, T \ S)
  BY <1>1, TotalSplit
<1>3. IsFiniteSet(S) /\ IsFiniteSet(T \ S)
  BY FS_Subset
<1>4. Total(f, S) \in Nat /\ Total(f, T \ S) \in Nat
  BY <1>3, TotalNat
<1> QED
  BY <1>2, <1>4

\* Whoever gives up a number and hands out shares to the others by key, together no
\* more than that number, does not raise the total; a share keyed to the giver is
\* lost.
LEMMA TotalHandedOut ==
  ASSUME NEW I, IsFiniteSet(I), NEW A, IsFiniteSet(A), NEW o \in A,
         NEW share, \A x \in I : share[x] \in Nat,
         NEW key, \A x \in I : key[x] \in A,
         NEW old, \A a \in A : old[a] \in Int,
         Total(share, I \ Keyed(I, key, o)) <= old[o],
         NEW new, new[o] = 0,
         \A a \in A \ {o} : new[a] = old[a] + Total(share, Keyed(I, key, a))
  PROVE  Total(new, A) <= Total(old, A)
<1>1. PICK J \in SUBSET I : J = I \ Keyed(I, key, o)
  OBVIOUS
<1>2. PICK B \in SUBSET A : B = A \ {o}
  OBVIOUS
<1>3. IsFiniteSet(J) /\ IsFiniteSet(B)
  BY FS_Subset
<1>4. \A x \in J : key[x] \in B /\ share[x] \in Int
  BY <1>1, <1>2 DEF Keyed
<1>5. \A a \in B : Keyed(J, key, a) = Keyed(I, key, a)
  BY <1>1, <1>2 DEF Keyed
<1>6. \A a \in B : old[a] \in Int /\ new[a] = old[a] + Total(share, Keyed(J, key, a))
  BY <1>2, <1>5
<1>7. Total(new, B) = Total(old, B) + Total(share, J)
  BY <1>3, <1>4, <1>6, TotalAddedByKey
<1>8. Total(old, A) = old[o] + Total(old, B)
  BY <1>2, TotalTake
<1>9. Total(share, J) \in Int /\ Total(old, B) \in Int
  BY <1>2, <1>3, <1>4, TotalType
<1>10. \A a \in A : new[a] \in Int
  <2>1. SUFFICES ASSUME NEW a \in B PROVE new[a] \in Int
    BY <1>2
  <2>2. PICK K \in SUBSET J : K = Keyed(J, key, a)
    BY DEF Keyed
  <2>3. Total(share, K) \in Int
    BY <1>3, <1>4, <2>2, FS_Subset, TotalType
  <2> QED
    BY <1>6, <2>2, <2>3
<1>11. Total(new, A) = new[o] + Total(new, B)
  BY <1>2, <1>10, TotalTake
<1> QED
  BY <1>1, <1>7, <1>8, <1>9, <1>11

LEMMA TotalOfPrefix ==
  ASSUME NEW n \in Nat, NEW f, \A i \in 1..n : f[i] \in Int
  PROVE  /\ Total(f, 1..0) = 0
         /\ \A k \in 0..n : Total(f, 1..k) \in Int
         /\ \A k \in 1..n : Total(f, 1..k) = Total(f, 1..(k - 1)) + f[k]
<1>1. 1..0 = {}
  OBVIOUS
<1>2. ASSUME NEW k \in 0..n PROVE Total(f, 1..k) \in Int
  <2>1. PICK K : K = 1..k
    OBVIOUS
  <2>2. IsFiniteSet(K) /\ \A i \in K : f[i] \in Int
    BY <2>1, FS_Interval
  <2> QED
    BY <2>1, <2>2, TotalType
<1>3. ASSUME NEW k \in 1..n PROVE Total(f, 1..k) = Total(f, 1..(k - 1)) + f[k]
  <2>1. k \in 1..k /\ IsFiniteSet(1..k) /\ \A i \in 1..k : f[i] \in Int
    BY FS_Interval
  <2>2. Total(f, 1..k) = f[k] + Total(f, (1..k) \ {k})
    BY <2>1, TotalTake
  <2>3. (1..k) \ {k} = 1..(k - 1)
    OBVIOUS
  <2>4. k - 1 \in 0..n
    OBVIOUS
  <2>5. PICK a \in Int, b \in Int : a = Total(f, 1..(k - 1)) /\ b = f[k]
    BY <1>2, <2>4
  <2>6. Total(f, (1..k) \ {k}) = a
    BY <2>3, <2>5
  <2> QED
    BY <2>2, <2>5, <2>6
<1> QED
  BY <1>1, <1>2, <1>3, TotalEmpty
===============================================================================
