---------------------------- MODULE SumTheorems ----------------------------
(***************************************************************************)
(* Facts about SumFunctionOnSet, the sum of a function over a finite set,  *)
(* that the proofs about ledgers, stock and counters need.  The operator   *)
(* is a fold, which the library defines as a function that calls itself on *)
(* smaller sets: that such a function exists is proved here first, from    *)
(* the least element that a set of subsets of a finite set has.  And facts *)
(* about finite sets of numbers: least, greatest, in ascending order.      *)
(***************************************************************************)
EXTENDS Integers, FiniteSets, Functions, FiniteSetTheorems, TLAPS

\* The element the fold takes out next, and what it makes of a set.
Pick(s) == CHOOSE x \in s : TRUE
Folded(g, f, s) == IF s = {} THEN 0 ELSE f[Pick(s)] + g[s \ {Pick(s)}]
AddsUp(g, f, S) == g = [s \in SUBSET S |-> Folded(g, f, s)]

-----------------------------------------------------------------------------
\* A collection of subsets of a finite set has a member with no smaller one in
\* it: induction on finite sets, stated about a set of counterexamples.
LEMMA MinimalSubset ==
    ASSUME NEW S, IsFiniteSet(S), NEW B, B \subseteq SUBSET S, B # {}
    PROVE  \E T \in B : \A U \in B : U \subseteq T => U = T
<1> DEFINE R == StrictSubsetOrdering(S)
           D == FiniteSubsetsOf(S)
<1>1. IsWellFoundedOn(R, D)
  BY FS_StrictSubsetOrderingWellFounded
<1>2. D = SUBSET S
  BY FS_FiniteSubsetsOfFinite
<1>3. \E x \in B : \A y \in B : ~ (<<y, x>> \in R)
  <2> HIDE DEF R, D
  <2>1. B \subseteq D
    BY <1>2
  <2>2. QED
    BY <1>1, <2>1, WFMin
<1>4. QED
  BY <1>3 DEF StrictSubsetOrdering

\* The element taken out is one of the set.
LEMMA PickIn == ASSUME NEW s, s # {} PROVE Pick(s) \in s
  BY DEF Pick

\* Two functions that fold agree wherever both are defined.
LEMMA AddsUpAgree ==
    ASSUME NEW f, NEW S, IsFiniteSet(S), NEW T,
           NEW g, AddsUp(g, f, S), NEW h, AddsUp(h, f, T),
           NEW s, s \subseteq S, s \subseteq T
    PROVE  g[s] = h[s]
<1> DEFINE B == {r \in SUBSET S : r \subseteq T /\ g[r] # h[r]}
<1>1. SUFFICES ASSUME B # {} PROVE FALSE
  <2>1. s \in SUBSET S /\ s \notin B
    BY <1>1
  <2>2. QED
    BY <2>1
<1>2. PICK r \in B : \A U \in B : U \subseteq r => U = r
  <2>1. B \subseteq SUBSET S
    OBVIOUS
  <2> HIDE DEF B
  <2>2. QED
    BY <1>1, <2>1, MinimalSubset
<1>3. r \in SUBSET S /\ r \in SUBSET T /\ g[r] # h[r]
  BY <1>2
<1>4. g[r] = Folded(g, f, r) /\ h[r] = Folded(h, f, r)
  BY <1>3 DEF AddsUp
<1>5. r # {}
  BY <1>3, <1>4 DEF Folded
<1> DEFINE q == r \ {Pick(r)}
<1>6. q \notin B
  BY <1>2, <1>5, PickIn
<1>7. g[q] = h[q]
  BY <1>6, <1>3
<1>8. QED
  BY <1>3, <1>4, <1>5, <1>7 DEF Folded

\* A function that folds exists over every finite set.
LEMMA AddsUpExists ==
    ASSUME NEW f, NEW S, IsFiniteSet(S)
    PROVE  \E g : AddsUp(g, f, S)
<1> DEFINE B == {r \in SUBSET S : ~ \E g : AddsUp(g, f, r)}
<1>1. SUFFICES ASSUME B # {} PROVE FALSE
  <2>1. S \in SUBSET S /\ S \notin B
    BY <1>1
  <2>2. QED
    BY <2>1
<1>2. PICK r \in B : \A U \in B : U \subseteq r => U = r
  <2>1. B \subseteq SUBSET S
    OBVIOUS
  <2> HIDE DEF B
  <2>2. QED
    BY <1>1, <2>1, MinimalSubset
<1>3. r \in SUBSET S /\ ~ \E g : AddsUp(g, f, r)
  BY <1>2
<1> DEFINE part(q) == CHOOSE g : AddsUp(g, f, q)
           whole == [s \in SUBSET r |->
                       IF s = {} THEN 0
                       ELSE f[Pick(s)] + part(s \ {Pick(s)})[s \ {Pick(s)}]]
<1>4. \A q \in SUBSET r : q # r => AddsUp(part(q), f, q)
  <2>1. \A q \in SUBSET r : q # r => \E g : AddsUp(g, f, q)
    BY <1>2, <1>3
  <2>2. QED
    BY <2>1
<1>5. ASSUME NEW s \in SUBSET r, s # {}
      PROVE  whole[s \ {Pick(s)}] = part(s \ {Pick(s)})[s \ {Pick(s)}]
  <2> DEFINE q == s \ {Pick(s)}
             p == q \ {Pick(q)}
  <2>1. q \in SUBSET r /\ q # r
    BY <1>5, PickIn
  <2>2. AddsUp(part(q), f, q)
    BY <2>1, <1>4
  <2>3. part(q)[q] = Folded(part(q), f, q)
    <3>1. q \in SUBSET q
      OBVIOUS
    <3> HIDE DEF part, q
    <3>2. QED
      BY <2>2, <3>1 DEF AddsUp
  <2>4. CASE q = {}
    <3>1. whole[q] = 0
      BY <2>1, <2>4
    <3>2. part(q)[q] = 0
      BY <2>3, <2>4 DEF Folded
    <3>3. QED
      BY <3>1, <3>2
  <2>5. CASE q # {}
    <3>1. whole[q] = f[Pick(q)] + part(p)[p]
      BY <2>1, <2>5
    <3>2. part(q)[q] = f[Pick(q)] + part(q)[p]
      <4> HIDE DEF part, q
      <4>1. QED
        BY <2>3, <2>5 DEF Folded
    <3>3. p \in SUBSET r /\ p # r /\ p \subseteq q
      BY <2>1
    <3>4. AddsUp(part(p), f, p)
      BY <3>3, <1>4
    <3>5. IsFiniteSet(q)
      <4>1. q \in SUBSET S
        BY <2>1, <1>3
      <4>2. QED
        BY <4>1, FS_Subset
    <3>6. part(q)[p] = part(p)[p]
      <4>1. p \subseteq p
        OBVIOUS
      <4> HIDE DEF part, p, q
      <4>2. QED
        BY <2>2, <3>3, <3>4, <3>5, <4>1, AddsUpAgree
    <3>7. QED
      BY <3>1, <3>2, <3>6
  <2>6. QED
    BY <2>4, <2>5
<1>6. whole = [s \in SUBSET r |-> Folded(whole, f, s)]
  <2>1. ASSUME NEW s \in SUBSET r PROVE whole[s] = Folded(whole, f, s)
    <3>1. CASE s = {}
      BY <3>1 DEF Folded
    <3>2. CASE s # {}
      <4>1. whole[s] = f[Pick(s)] + part(s \ {Pick(s)})[s \ {Pick(s)}]
        BY <3>2
      <4>2. whole[s \ {Pick(s)}] = part(s \ {Pick(s)})[s \ {Pick(s)}]
        BY <3>2, <1>5
      <4> HIDE DEF whole, part
      <4>3. QED
        BY <4>1, <4>2, <3>2 DEF Folded
    <3>3. QED
      BY <3>1, <3>2
  <2>2. whole = [s \in SUBSET r |-> whole[s]]
    OBVIOUS
  <2> HIDE DEF whole
  <2>3. QED
    BY <2>1, <2>2
<1>7. QED
  <2> HIDE DEF whole
  <2>1. QED
    BY <1>3, <1>6 DEF AddsUp

-----------------------------------------------------------------------------
\* The sum is what such a function makes of the whole set.
LEMMA SumIsFold ==
    ASSUME NEW f, NEW S, IsFiniteSet(S), NEW g, AddsUp(g, f, S)
    PROVE  SumFunctionOnSet(f, S) = g[S]
<1> DEFINE h == CHOOSE k : AddsUp(k, f, S)
<1>1. SumFunctionOnSet(f, S) = h[S]
  BY DEF SumFunctionOnSet, FoldFunctionOnSet, MapThenFoldSet, AddsUp, Folded, Pick
<1>2. AddsUp(h, f, S)
  OBVIOUS
<1> HIDE DEF h
<1>3. S \subseteq S
  OBVIOUS
<1>4. h[S] = g[S]
  BY <1>2, <1>3, AddsUpAgree
<1>5. QED
  BY <1>1, <1>4

\* Nothing adds up to zero.
LEMMA SumEmpty == ASSUME NEW f PROVE SumFunctionOnSet(f, {}) = 0
<1>1. IsFiniteSet({})
  BY FS_EmptySet
<1>2. PICK g : AddsUp(g, f, {})
  BY <1>1, AddsUpExists
<1>3. g[{}] = 0
  BY <1>2 DEF AddsUp, Folded
<1>4. QED
  BY <1>1, <1>2, <1>3, SumIsFold

\* One step of the fold.
LEMMA SumPick ==
    ASSUME NEW f, NEW S, IsFiniteSet(S), S # {}
    PROVE  SumFunctionOnSet(f, S) = f[Pick(S)] + SumFunctionOnSet(f, S \ {Pick(S)})
<1> DEFINE T == S \ {Pick(S)}
<1>1. IsFiniteSet(T)
  BY FS_RemoveElement
<1>2. PICK g : AddsUp(g, f, S)
  BY AddsUpExists
<1>3. PICK h : AddsUp(h, f, T)
  BY <1>1, AddsUpExists
<1>4. g[T] = h[T]
  <2>1. T \subseteq S /\ T \subseteq T
    OBVIOUS
  <2> HIDE DEF T
  <2>2. QED
    BY <1>2, <1>3, <2>1, AddsUpAgree
<1>5. SumFunctionOnSet(f, S) = g[S]
  BY <1>2, SumIsFold
<1>6. SumFunctionOnSet(f, T) = h[T]
  BY <1>1, <1>3, SumIsFold
<1>7. g[S] = f[Pick(S)] + g[T]
  BY <1>2 DEF AddsUp, Folded
<1>8. QED
  BY <1>4, <1>5, <1>6, <1>7

\* A sum of integers is an integer, and a sum of natural numbers is one.
LEMMA SumType ==
    ASSUME NEW f, NEW S, IsFiniteSet(S), NEW D, D \in {Int, Nat}, \A x \in S : f[x] \in D
    PROVE  SumFunctionOnSet(f, S) \in D
<1> DEFINE B == {r \in SUBSET S : SumFunctionOnSet(f, r) \notin D}
<1>1. SUFFICES ASSUME B # {} PROVE FALSE
  <2>1. S \in SUBSET S /\ S \notin B
    BY <1>1
  <2>2. QED
    BY <2>1
<1>2. PICK r \in B : \A U \in B : U \subseteq r => U = r
  <2>1. B \subseteq SUBSET S
    OBVIOUS
  <2> HIDE DEF B
  <2>2. QED
    BY <1>1, <2>1, MinimalSubset
<1>3. r \in SUBSET S /\ SumFunctionOnSet(f, r) \notin D /\ IsFiniteSet(r)
  BY <1>2, FS_Subset
<1>0. 0 \in D /\ \A a, b \in D : a + b \in D
  <2>1. CASE D = Int
    BY <2>1
  <2>2. CASE D = Nat
    BY <2>2
  <2>3. QED
    BY <2>1, <2>2
<1>4. r # {}
  BY <1>0, <1>3, SumEmpty
<1> DEFINE q == r \ {Pick(r)}
<1>5. Pick(r) \in r /\ q \in SUBSET S /\ q \notin B
  BY <1>2, <1>3, <1>4, PickIn
<1>6. SumFunctionOnSet(f, q) \in D /\ f[Pick(r)] \in D
  BY <1>5, <1>3
<1>7. SumFunctionOnSet(f, r) = f[Pick(r)] + SumFunctionOnSet(f, q)
  BY <1>3, <1>4, SumPick
<1>8. QED
  <2> HIDE DEF q
  <2>1. QED
    BY <1>0, <1>3, <1>6, <1>7

\* The sum does not depend on the order: any element can be taken out first.
LEMMA SumRemove ==
    ASSUME NEW f, NEW S, IsFiniteSet(S), \A x \in S : f[x] \in Int, NEW x \in S
    PROVE  SumFunctionOnSet(f, S) = f[x] + SumFunctionOnSet(f, S \ {x})
<1> DEFINE sum(r) == SumFunctionOnSet(f, r)
           B == {r \in SUBSET S : \E y \in r : sum(r) # f[y] + sum(r \ {y})}
<1>1. SUFFICES ASSUME B # {} PROVE FALSE
  <2>1. S \in SUBSET S /\ S \notin B
    BY <1>1
  <2>2. QED
    BY <2>1
<1>2. PICK r \in B : \A U \in B : U \subseteq r => U = r
  <2>1. B \subseteq SUBSET S
    OBVIOUS
  <2> HIDE DEF B
  <2>2. QED
    BY <1>1, <2>1, MinimalSubset
<1>3. r \in SUBSET S /\ IsFiniteSet(r)
  BY <1>2, FS_Subset
<1>4. PICK y \in r : sum(r) # f[y] + sum(r \ {y})
  BY <1>2
<1> DEFINE z == Pick(r)
<1>5. z \in r /\ sum(r) = f[z] + sum(r \ {z})
  BY <1>3, <1>4, PickIn, SumPick
<1>6. y # z
  BY <1>4, <1>5
<1>7. sum(r \ {z}) = f[y] + sum((r \ {z}) \ {y})
  <2>1. r \ {z} \in SUBSET S /\ r \ {z} \notin B /\ y \in r \ {z}
    BY <1>2, <1>3, <1>5, <1>6
  <2>2. QED
    BY <2>1
<1>8. sum(r \ {y}) = f[z] + sum((r \ {y}) \ {z})
  <2>1. r \ {y} \in SUBSET S /\ r \ {y} \notin B /\ z \in r \ {y}
    BY <1>2, <1>3, <1>4, <1>5, <1>6
  <2>2. QED
    BY <2>1
<1>9. (r \ {z}) \ {y} = (r \ {y}) \ {z}
  OBVIOUS
<1>10. sum((r \ {z}) \ {y}) \in Int
  <2>1. (r \ {z}) \ {y} \in SUBSET S
    BY <1>3
  <2>2. IsFiniteSet((r \ {z}) \ {y})
    BY <2>1, FS_Subset
  <2>3. QED
    BY <2>1, <2>2, SumType
<1>11. f[y] \in Int /\ f[z] \in Int
  BY <1>3, <1>4, <1>5
<1>12. QED
  <2> DEFINE rest == sum((r \ {z}) \ {y})
  <2>1. sum(r) = f[z] + (f[y] + rest) /\ sum(r \ {y}) = f[z] + rest
    BY <1>5, <1>7, <1>8, <1>9
  <2>2. rest \in Int
    BY <1>10
  <2> HIDE DEF rest, z
  <2>3. f[z] + (f[y] + rest) = f[y] + (f[z] + rest)
    BY <1>11, <2>2
  <2>4. QED
    BY <1>4, <2>1, <2>3

\* Two functions that agree on the set have the same sum.
LEMMA SumSame ==
    ASSUME NEW f, NEW g, NEW S, IsFiniteSet(S), \A x \in S : f[x] = g[x]
    PROVE  SumFunctionOnSet(f, S) = SumFunctionOnSet(g, S)
<1> DEFINE B == {r \in SUBSET S : SumFunctionOnSet(f, r) # SumFunctionOnSet(g, r)}
<1>1. SUFFICES ASSUME B # {} PROVE FALSE
  <2>1. S \in SUBSET S /\ S \notin B
    BY <1>1
  <2>2. QED
    BY <2>1
<1>2. PICK r \in B : \A U \in B : U \subseteq r => U = r
  <2>1. B \subseteq SUBSET S
    OBVIOUS
  <2> HIDE DEF B
  <2>2. QED
    BY <1>1, <2>1, MinimalSubset
<1>3. r \in SUBSET S /\ IsFiniteSet(r) /\ SumFunctionOnSet(f, r) # SumFunctionOnSet(g, r)
  BY <1>2, FS_Subset
<1>4. r # {}
  BY <1>3, SumEmpty
<1>5. Pick(r) \in r /\ r \ {Pick(r)} \in SUBSET S /\ r \ {Pick(r)} \notin B
  BY <1>2, <1>3, <1>4, PickIn
<1>6. SumFunctionOnSet(f, r \ {Pick(r)}) = SumFunctionOnSet(g, r \ {Pick(r)}) /\ f[Pick(r)] = g[Pick(r)]
  BY <1>5, <1>3
<1>7. /\ SumFunctionOnSet(f, r) = f[Pick(r)] + SumFunctionOnSet(f, r \ {Pick(r)})
      /\ SumFunctionOnSet(g, r) = g[Pick(r)] + SumFunctionOnSet(g, r \ {Pick(r)})
  BY <1>3, <1>4, SumPick
<1>8. QED
  BY <1>3, <1>6, <1>7

\* A change at one place changes the sum by as much.
LEMMA SumChange ==
    ASSUME NEW S, IsFiniteSet(S), NEW f, NEW g, NEW x \in S,
           \A y \in S : f[y] \in Int /\ g[y] \in Int,
           \A y \in S \ {x} : g[y] = f[y]
    PROVE  SumFunctionOnSet(g, S) = SumFunctionOnSet(f, S) + g[x] - f[x]
<1> DEFINE T == S \ {x}
<1>1. IsFiniteSet(T)
  BY FS_RemoveElement
<1>2. SumFunctionOnSet(f, T) = SumFunctionOnSet(g, T)
  <2>1. \A y \in T : f[y] = g[y]
    OBVIOUS
  <2> HIDE DEF T
  <2>2. QED
    BY <1>1, <2>1, SumSame
<1>3. SumFunctionOnSet(f, T) \in Int
  BY <1>1, SumType
<1>4. /\ SumFunctionOnSet(f, S) = f[x] + SumFunctionOnSet(f, T)
      /\ SumFunctionOnSet(g, S) = g[x] + SumFunctionOnSet(g, T)
  BY SumRemove
<1> HIDE DEF T
<1>5. QED
  BY <1>2, <1>3, <1>4

\* Zeros add up to zero.
LEMMA SumZero ==
    ASSUME NEW f, NEW S, IsFiniteSet(S), \A x \in S : f[x] = 0
    PROVE  SumFunctionOnSet(f, S) = 0
<1> DEFINE B == {r \in SUBSET S : SumFunctionOnSet(f, r) # 0}
<1>1. SUFFICES ASSUME B # {} PROVE FALSE
  <2>1. S \in SUBSET S /\ S \notin B
    BY <1>1
  <2>2. QED
    BY <2>1
<1>2. PICK r \in B : \A U \in B : U \subseteq r => U = r
  <2>1. B \subseteq SUBSET S
    OBVIOUS
  <2> HIDE DEF B
  <2>2. QED
    BY <1>1, <2>1, MinimalSubset
<1>3. r \in SUBSET S /\ IsFiniteSet(r) /\ SumFunctionOnSet(f, r) # 0
  BY <1>2, FS_Subset
<1>4. r # {}
  BY <1>3, SumEmpty
<1>5. Pick(r) \in r /\ r \ {Pick(r)} \in SUBSET S /\ r \ {Pick(r)} \notin B
  BY <1>2, <1>3, <1>4, PickIn
<1>6. SumFunctionOnSet(f, r \ {Pick(r)}) = 0 /\ f[Pick(r)] = 0
  BY <1>5, <1>3
<1>7. QED
  BY <1>3, <1>4, <1>6, SumPick

\* A natural number is at most a sum it is part of.
LEMMA SumMember ==
    ASSUME NEW S, IsFiniteSet(S), NEW f, \A y \in S : f[y] \in Nat, NEW x \in S
    PROVE  f[x] <= SumFunctionOnSet(f, S)
<1>1. IsFiniteSet(S \ {x})
  BY FS_RemoveElement
<1>2. SumFunctionOnSet(f, S \ {x}) \in Nat
  BY <1>1, SumType
<1>3. SumFunctionOnSet(f, S) = f[x] + SumFunctionOnSet(f, S \ {x})
  BY SumRemove
<1>4. QED
  BY <1>2, <1>3

-----------------------------------------------------------------------------
\* A set of natural numbers has a least one.
LEMMA LeastNat ==
    ASSUME NEW B, B \subseteq Nat, B # {}
    PROVE  \E m \in B : \A k \in B : m <= k
<1> DEFINE R == OpToRel(<, Nat)
<1>1. IsWellFoundedOn(R, Nat)
  BY NatLessThanWellFounded
<1>2. \E m \in B : \A k \in B : ~ (<<k, m>> \in R)
  <2> HIDE DEF R
  <2>1. QED
    BY <1>1, WFMin
<1>3. \A k, m \in Nat : k < m => <<k, m>> \in R
  BY DEF OpToRel
<1> HIDE DEF R
<1>4. PICK m \in B : \A k \in B : ~ (<<k, m>> \in R)
  BY <1>2
<1>5. ASSUME NEW k \in B PROVE m <= k
  <2>1. k \in Nat /\ m \in Nat
    BY <1>4
  <2>2. ~ (k < m)
    BY <1>3, <1>4, <2>1, Zenon
  <2>3. QED
    BY <2>1, <2>2
<1>6. QED
  BY <1>5

\* total \div n, and one more for each of the first total % n, n times over, is
\* the total: nothing is lost in the division.
LEMMA SplitSum ==
    ASSUME NEW total \in Nat, NEW n \in Nat \ {0},
           NEW f, f = [i \in 1..n |-> total \div n + IF i <= total % n THEN 1 ELSE 0]
    PROVE  SumFunctionOnSet(f, 1..n) = total
<1> DEFINE q == total \div n
           r == total % n
           upTo(k) == k * q + IF k <= r THEN k ELSE r
           B == {k \in 0..n : SumFunctionOnSet(f, 1..k) # upTo(k)}
<1>1. q \in Nat /\ r \in 0..(n - 1) /\ total = n * q + r
  OBVIOUS
<1>2. B = {}
  <2> HIDE DEF q, r
  <2>1. SUFFICES ASSUME B # {} PROVE FALSE
    OBVIOUS
  <2>2. PICK m \in B : \A k \in B : m <= k
    <3>1. B \subseteq Nat
      OBVIOUS
    <3> HIDE DEF B
    <3>2. QED
      BY <2>1, <3>1, LeastNat
  <2>3. m \in 0..n /\ SumFunctionOnSet(f, 1..m) # upTo(m)
    BY <2>2
  <2>4. m # 0
    <3>1. 1..0 = {} /\ upTo(0) = 0
      BY <1>1
    <3>2. QED
      BY <2>3, <3>1, SumEmpty
  <2>5. SumFunctionOnSet(f, 1..(m - 1)) = upTo(m - 1)
    <3>1. m - 1 \in 0..n /\ m - 1 \notin B
      BY <2>2, <2>3, <2>4
    <3>2. QED
      BY <3>1
  <2>6. SumFunctionOnSet(f, 1..m) = f[m] + SumFunctionOnSet(f, 1..(m - 1))
    <3>1. IsFiniteSet(1..m)
      BY <2>3, FS_Interval
    <3>2. \A i \in 1..m : f[i] \in Int
      BY <1>1, <2>3 DEF q, r
    <3>3. m \in 1..m /\ (1..m) \ {m} = 1..(m - 1)
      BY <2>3, <2>4
    <3>4. QED
      BY <3>1, <3>2, <3>3, SumRemove
  <2>7. f[m] = q + IF m <= r THEN 1 ELSE 0
    BY <2>3, <2>4 DEF q, r
  <2>8. m * q = (m - 1) * q + q
    BY <1>1, <2>3
  <2>9. (m - 1) * q \in Int /\ m * q \in Int
    BY <1>1, <2>3
  <2>10. upTo(m) = f[m] + upTo(m - 1)
    <3> DEFINE a == m * q
               b == (m - 1) * q
    <3>1. a = b + q /\ a \in Int /\ b \in Int
      BY <2>8, <2>9
    <3> HIDE DEF a, b
    <3>2. a + (IF m <= r THEN m ELSE r)
            = (q + IF m <= r THEN 1 ELSE 0) + (b + IF m - 1 <= r THEN m - 1 ELSE r)
      BY <3>1, <1>1, <2>3
    <3>3. QED
      BY <3>2, <2>7 DEF a, b
  <2>11. QED
    BY <2>3, <2>5, <2>6, <2>10
<1>3. SumFunctionOnSet(f, 1..n) = upTo(n)
  <2>1. n \in 0..n
    OBVIOUS
  <2>2. QED
    BY <1>2, <2>1
<1>4. QED
  <2> HIDE DEF q, r
  <2>1. QED
    BY <1>1, <1>3

-----------------------------------------------------------------------------
\* A function into the natural numbers has its greatest value on a finite set.
LEMMA GreatestValue ==
    ASSUME NEW S, IsFiniteSet(S), S # {}, NEW f, \A x \in S : f[x] \in Nat
    PROVE  \E m \in S : \A k \in S : f[k] <= f[m]
<1>1. PICK total : total = SumFunctionOnSet(f, S)
  OBVIOUS
<1>2. total \in Nat
  BY <1>1, SumType
<1>3. \A x \in S : f[x] <= total
  BY <1>1, SumMember
<1>4. PICK B : B = {total - f[x] : x \in S}
  OBVIOUS
<1>5. B \subseteq Nat /\ B # {}
  <2>1. \A x \in S : total - f[x] \in Nat
    BY <1>2, <1>3
  <2>2. QED
    BY <1>4, <2>1
<1>6. PICK b \in B : \A c \in B : b <= c
  BY <1>5, LeastNat
<1>7. PICK m \in S : b = total - f[m]
  BY <1>4
<1>8. \A k \in S : total - f[m] <= total - f[k]
  BY <1>4, <1>6, <1>7
<1>9. QED
  BY <1>2, <1>8

LEMMA GreatestNat ==
    ASSUME NEW S, S \subseteq Nat, IsFiniteSet(S), S # {}
    PROVE  \E m \in S : \A k \in S : k <= m
<1>1. PICK f : f = [x \in S |-> x]
  OBVIOUS
<1>2. \A x \in S : f[x] \in Nat /\ f[x] = x
  BY <1>1
<1>3. PICK m \in S : \A k \in S : f[k] <= f[m]
  BY <1>2, GreatestValue
<1>4. QED
  BY <1>2, <1>3

Rises(f, n) == \A i, k \in 1..n : i < k => f[i] < f[k]

Sortable(T) == \E f \in [1..Cardinality(T) -> T] : Rises(f, Cardinality(T))

\* ORDER BY: a finite set of natural numbers can be put in ascending order.
LEMMA AscendingExists ==
    ASSUME NEW S, S \subseteq Nat, IsFiniteSet(S)
    PROVE  \E f \in [1..Cardinality(S) -> S] : Rises(f, Cardinality(S))
<1>1. SUFFICES ASSUME ~Sortable(S) PROVE FALSE
  BY DEF Sortable
<1>2. PICK B : B = {T \in SUBSET S : ~Sortable(T)}
  OBVIOUS
<1>3. B \subseteq SUBSET S /\ B # {}
  BY <1>1, <1>2
<1>4. PICK T \in B : \A U \in B : U \subseteq T => U = T
  <2>1. B \subseteq SUBSET S
    BY <1>3
  <2>2. B # {}
    BY <1>3
  <2>3. IsFiniteSet(S)
    OBVIOUS
  <2>4. QED
    BY ONLY <2>1, <2>2, <2>3, MinimalSubset, SMT
<1>5. T \subseteq S /\ ~Sortable(T)
  BY <1>2, <1>4
<1>6. IsFiniteSet(T) /\ T \subseteq Nat
  BY <1>5, FS_Subset
<1>7. T # {}
  <2>1. ASSUME T = {} PROVE FALSE
    <3>1. Cardinality(T) = 0
      BY <2>1, FS_EmptySet
    <3>2. PICK f : f = [i \in 1..0 |-> i]
      OBVIOUS
    <3>3. f \in [1..Cardinality(T) -> T] /\ Rises(f, Cardinality(T))
      BY <3>1, <3>2 DEF Rises
    <3>4. QED
      BY <1>5, <3>3 DEF Sortable
  <2>2. QED
    BY <2>1
<1>8. PICK m \in T : \A k \in T : k <= m
  BY <1>6, <1>7, GreatestNat
<1>9. PICK U : U = T \ {m}
  OBVIOUS
<1>10. PICK n : n = Cardinality(U)
  OBVIOUS
<1>11. IsFiniteSet(U) /\ n \in Nat /\ Cardinality(T) = n + 1
  <2>1. IsFiniteSet(U) /\ Cardinality(U) = Cardinality(T) - 1
    BY <1>6, <1>8, <1>9, FS_RemoveElement
  <2>2. Cardinality(T) \in Nat /\ Cardinality(U) \in Nat
    BY <1>6, <2>1, FS_CardinalityType
  <2>3. QED
    BY <1>10, <2>1, <2>2
<1>12. U \notin B /\ U \in SUBSET S
  BY <1>4, <1>5, <1>8, <1>9
<1>13. Sortable(U)
  BY <1>2, <1>12
<1>14. PICK f \in [1..n -> U] : Rises(f, n)
  BY <1>10, <1>13 DEF Sortable
<1>15. PICK g : g = [i \in 1..(n + 1) |-> IF i = n + 1 THEN m ELSE f[i]]
  OBVIOUS
<1>16. \A i \in 1..n : g[i] = f[i] /\ f[i] \in U
  BY <1>11, <1>14, <1>15
<1>17. g[n + 1] = m
  BY <1>11, <1>15
<1>18. g \in [1..(n + 1) -> T]
  <2>1. \A i \in 1..(n + 1) : g[i] \in T
    BY <1>8, <1>9, <1>11, <1>16, <1>17
  <2>2. QED
    BY <1>15, <2>1
<1>19. Rises(g, n + 1)
  <2>1. SUFFICES ASSUME NEW i \in 1..(n + 1), NEW k \in 1..(n + 1), i < k PROVE g[i] < g[k]
    BY DEF Rises
  <2>2. i \in 1..n /\ g[i] = f[i] /\ f[i] \in U
    BY <1>11, <1>16, <2>1
  <2>3. CASE k = n + 1
    <3>1. f[i] \in Nat /\ m \in Nat /\ f[i] <= m /\ f[i] # m
      BY <1>6, <1>8, <1>9, <2>2
    <3>2. g[i] = f[i] /\ g[k] = m
      BY <1>17, <2>2, <2>3
    <3>3. QED
      BY <3>1, <3>2
  <2>4. CASE k # n + 1
    <3>1. k \in 1..n
      BY <1>11, <2>1, <2>4
    <3>2. f[i] < f[k]
      BY <1>14, <2>1, <2>2, <3>1 DEF Rises
    <3>3. QED
      BY <1>16, <2>2, <3>1, <3>2
  <2>5. QED
    BY <2>3, <2>4
<1>20. QED
  BY <1>5, <1>11, <1>18, <1>19 DEF Sortable
=============================================================================
