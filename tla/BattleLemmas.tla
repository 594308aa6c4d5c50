---------------------------- MODULE BattleLemmas ----------------------------
(***************************************************************************)
(* Facts about numbers, sums and orders that the proofs of BattleRun rest  *)
(* on.  Nothing here is about the battle.                                  *)
(*                                                                         *)
(* Induction is over sets of numbers (Least, Induct), since an induction   *)
(* theorem with a predicate as its parameter cannot be instantiated by the *)
(* provers at hand.                                                        *)
(***************************************************************************)
EXTENDS Integers, Sequences, FiniteSets, SequencesExt, FiniteSetTheorems, WellFoundedInduction,
        TLAPS

-----------------------------------------------------------------------------
(* A set of naturals has a least one.                                      *)
LEMMA Least ==
  ASSUME NEW T \in SUBSET Nat, T # {}
  PROVE  \E n \in T : \A m \in T : n <= m
<1>1. PICK x \in T : \A y \in T : ~(<<y, x>> \in OpToRel(<, Nat))
  BY NatLessThanWellFounded, WFMin
<1>2. \A y \in T : ~(y < x)
  BY <1>1 DEF OpToRel
<1>3. QED
  BY <1>2

(* A set that holds 0 and with every number the next holds them all.       *)
LEMMA Induct ==
  ASSUME NEW T, 0 \in T, \A n \in Nat : n \in T => n + 1 \in T
  PROVE  Nat \subseteq T
<1>1. SUFFICES ASSUME Nat \ T # {} PROVE FALSE
  OBVIOUS
<1>2. PICK n \in Nat \ T : \A m \in Nat \ T : n <= m
  BY <1>1, Least
<1>3. n # 0 /\ n - 1 \in Nat
  BY <1>2
<1>4. n - 1 \in T
  BY <1>2, <1>3
<1>5. QED
  BY <1>2, <1>3, <1>4

(* FiniteSetsExt's Min.                                                    *)
LEMMA MinIsLeast ==
  ASSUME NEW S \in SUBSET Nat, S # {}
  PROVE  Min(S) \in S /\ \A y \in S : Min(S) <= y
<1>1. \E x \in S : \A y \in S : x =< y
  BY Least
<1>2. QED
  BY <1>1 DEF Min

-----------------------------------------------------------------------------
(* SumFunction of the community modules adds the values of a function in   *)
(* the order of a recursive function on the subsets of its domain.  Adds   *)
(* says that g is such a function for f.                                   *)
Chosen(s) == CHOOSE x \in s : TRUE
Step(f, g, s) == IF s = {} THEN 0 ELSE f[Chosen(s)] + g[s \ {Chosen(s)}]
Adds(f, g) == g = [s \in SUBSET DOMAIN f |-> Step(f, g, s)]
AddsUpTo(f, g, n) ==
    /\ g = [s \in SUBSET DOMAIN f |-> g[s]]
    /\ \A s \in SUBSET DOMAIN f : Cardinality(s) <= n => g[s] = Step(f, g, s)

LEMMA SumIsAdded ==
  ASSUME NEW f
  PROVE  SumFunction(f) = (CHOOSE g : Adds(f, g))[DOMAIN f]
BY DEF SumFunction, SumFunctionOnSet, FoldFunctionOnSet, MapThenFoldSet, Adds, Step, Chosen

(* Of a finite set, an element and the rest.                               *)
LEMMA OneLess ==
  ASSUME NEW D, IsFiniteSet(D), NEW s \in SUBSET D, s # {}
  PROVE  /\ Chosen(s) \in s
         /\ s \ {Chosen(s)} \in SUBSET D
         /\ IsFiniteSet(s)
         /\ Cardinality(s) \in Nat \ {0}
         /\ Cardinality(s \ {Chosen(s)}) = Cardinality(s) - 1
<1>1. Chosen(s) \in s
  BY DEF Chosen
<1>2. IsFiniteSet(s)
  BY FS_Subset
<1>3. Cardinality(s) \in Nat /\ Cardinality(s) # 0
  BY <1>2, FS_CardinalityType, FS_EmptySet
<1>4. QED
  BY <1>1, <1>2, <1>3, FS_RemoveElement

(* Adding up to n elements is defined; from n to n + 1 by one more step.   *)
LEMMA AddingExists ==
  ASSUME NEW f, IsFiniteSet(DOMAIN f)
  PROVE  \E g : Adds(f, g)
<1> DEFINE D == DOMAIN f
           T == {n \in Nat : \E g : AddsUpTo(f, g, n)}
<1>1. \A s \in SUBSET D : IsFiniteSet(s) /\ Cardinality(s) \in Nat /\ Cardinality(s) <= Cardinality(D)
  BY FS_Subset, FS_CardinalityType
<1>2. 0 \in T
  <2>1. PICK g : g = [s \in SUBSET D |-> 0]
    OBVIOUS
  <2>2. ASSUME NEW s \in SUBSET D, Cardinality(s) <= 0 PROVE g[s] = Step(f, g, s)
    <3>1. s = {}
      BY <1>1, <2>2, FS_EmptySet
    <3>2. QED
      BY <2>1, <3>1 DEF Step
  <2>3. AddsUpTo(f, g, 0)
    BY <2>1, <2>2 DEF AddsUpTo
  <2>4. QED
    BY <2>3
<1>3. ASSUME NEW n \in Nat, n \in T PROVE n + 1 \in T
  <2>1. PICK g : AddsUpTo(f, g, n)
    BY <1>3
  <2>2. PICK h : h = [s \in SUBSET D |-> Step(f, g, s)]
    OBVIOUS
  <2>3. ASSUME NEW s \in SUBSET D, Cardinality(s) <= n + 1 PROVE h[s] = Step(f, h, s)
    <3>1. CASE s = {}
      BY <2>2, <3>1 DEF Step
    <3>2. CASE s # {}
      <4>0. PICK r : r = s \ {Chosen(s)}
        OBVIOUS
      <4>1. r \in SUBSET D /\ r = s \ {Chosen(s)} /\ Cardinality(r) <= n
        <5>1. Cardinality(s) \in Nat \ {0} /\ Cardinality(r) = Cardinality(s) - 1
          BY <3>2, <4>0, OneLess
        <5>2. QED
          BY <2>3, <4>0, <5>1
      <4>2. g[r] = Step(f, g, r)
        BY <2>1, <4>1 DEF AddsUpTo
      <4>3. h[r] = g[r]
        BY <2>2, <4>1, <4>2
      <4>4. h[s] = f[Chosen(s)] + g[r]
        BY <2>2, <3>2, <4>1 DEF Step
      <4>5. QED
        BY <3>2, <4>1, <4>3, <4>4 DEF Step
    <3>3. QED
      BY <3>1, <3>2
  <2>4. AddsUpTo(f, h, n + 1)
    BY <2>2, <2>3 DEF AddsUpTo
  <2>5. QED
    BY <2>4
<1>4. Nat \subseteq T
  <2> HIDE DEF T
  <2> QED
    BY <1>2, <1>3, Induct
<1>5. PICK g : AddsUpTo(f, g, Cardinality(D))
  BY <1>1, <1>4
<1>6. \A s \in SUBSET D : g[s] = Step(f, g, s)
  BY <1>1, <1>5 DEF AddsUpTo
<1>7. QED
  BY <1>5, <1>6 DEF Adds, AddsUpTo

Totals(f, D, g) ==
    /\ SumFunction(f) = g[D]
    /\ g[{}] = 0
    /\ \A s \in SUBSET D : s # {} => g[s] = f[Chosen(s)] + g[s \ {Chosen(s)}]

LEMMA SumSteps ==
  ASSUME NEW D, IsFiniteSet(D), NEW f, DOMAIN f = D
  PROVE  \E g : Totals(f, D, g)
<1>1. PICK g : g = CHOOSE h : Adds(f, h)
  OBVIOUS
<1>2. Adds(f, g)
  BY <1>1, AddingExists
<1>3. SumFunction(f) = g[DOMAIN f]
  BY <1>1, SumIsAdded
<1>4. \A s \in SUBSET DOMAIN f : g[s] = Step(f, g, s)
  BY <1>2 DEF Adds
<1>5. g[{}] = 0
  <2>1. {} \in SUBSET DOMAIN f
    OBVIOUS
  <2>2. g[{}] = Step(f, g, {})
    BY <1>4, <2>1
  <2>3. Step(f, g, {}) = 0
    BY DEF Step
  <2>4. QED
    BY <2>2, <2>3
<1>6. ASSUME NEW s \in SUBSET DOMAIN f, s # {}
      PROVE  g[s] = f[Chosen(s)] + g[s \ {Chosen(s)}]
  BY <1>4, <1>6 DEF Step
<1>7. QED
  BY <1>3, <1>5, <1>6 DEF Totals

(* A property of finite sets that the empty set has and that every other   *)
(* set takes from itself without its chosen element: here, that the number *)
(* T gives it is TRUE.                                                     *)
LEMMA SubsetInduct ==
  ASSUME NEW D, IsFiniteSet(D), NEW T \in SUBSET SUBSET D, {} \in T,
         \A s \in SUBSET D : s # {} /\ s \ {Chosen(s)} \in T => s \in T
  PROVE  D \in T
<1> DEFINE N == {n \in Nat : \A s \in SUBSET D : Cardinality(s) = n => s \in T}
<1>1. 0 \in N
  BY FS_Subset, FS_EmptySet
<1>2. ASSUME NEW n \in Nat, n \in N PROVE n + 1 \in N
  <2>1. ASSUME NEW s \in SUBSET D, Cardinality(s) = n + 1 PROVE s \in T
    <3>1. s # {}
      <4>1. Cardinality({}) = 0
        BY FS_EmptySet
      <4>2. n + 1 # 0
        OBVIOUS
      <4>3. QED
        BY <2>1, <4>1, <4>2
    <3>2. /\ s \ {Chosen(s)} \in SUBSET D
          /\ Cardinality(s \ {Chosen(s)}) = Cardinality(s) - 1
      BY <3>1, OneLess
    <3>3. Cardinality(s \ {Chosen(s)}) = n
      BY <2>1, <3>2
    <3>4. QED
      BY <1>2, <3>1, <3>2, <3>3
  <2>2. QED
    BY <2>1
<1>3. Nat \subseteq N
  <2> HIDE DEF N
  <2> QED
    BY <1>1, <1>2, Induct
<1>4. QED
  BY <1>3, FS_CardinalityType

(* A sum of integers is one.                                               *)
LEMMA SumInt ==
  ASSUME NEW D, IsFiniteSet(D), NEW f \in [D -> Int]
  PROVE  SumFunction(f) \in Int
<1>1. PICK g : Totals(f, D, g)
  <2>1. DOMAIN f = D
    OBVIOUS
  <2>2. QED
    BY <2>1, SumSteps
<1> DEFINE T == {s \in SUBSET D : g[s] \in Int}
<1>2. {} \in T
  BY <1>1 DEF Totals
<1>3. ASSUME NEW s \in SUBSET D, s # {}, s \ {Chosen(s)} \in T PROVE s \in T
  <2>1. PICK r, x : r = s \ {x} /\ x = Chosen(s)
    OBVIOUS
  <2>2. x \in D /\ r \in SUBSET D
    BY <1>3, <2>1, OneLess
  <2>3. g[s] = f[x] + g[r]
    BY <1>1, <1>3, <2>1 DEF Totals
  <2>4. QED
    BY <1>3, <2>1, <2>2, <2>3
<1>4. D \in T
  <2>1. T \in SUBSET SUBSET D
    OBVIOUS
  <2> HIDE DEF T
  <2> QED
    BY <1>2, <1>3, <2>1, SubsetInduct
<1>5. QED
  BY <1>1, <1>4 DEF Totals

(* Greater summands make no smaller sum.                                   *)
LEMMA SumLeq ==
  ASSUME NEW D, IsFiniteSet(D), NEW f \in [D -> Int], NEW h \in [D -> Int],
         \A x \in D : f[x] <= h[x]
  PROVE  SumFunction(f) <= SumFunction(h)
<1>1. PICK g : Totals(f, D, g)
  <2>1. DOMAIN f = D
    OBVIOUS
  <2>2. QED
    BY <2>1, SumSteps
<1>2. PICK k : Totals(h, D, k)
  <2>1. DOMAIN h = D
    OBVIOUS
  <2>2. QED
    BY <2>1, SumSteps
<1> DEFINE T == {s \in SUBSET D : g[s] \in Int /\ k[s] \in Int /\ g[s] <= k[s]}
<1>3. {} \in T
  BY <1>1, <1>2 DEF Totals
<1>4. ASSUME NEW s \in SUBSET D, s # {}, s \ {Chosen(s)} \in T PROVE s \in T
  <2>1. PICK r, x : r = s \ {x} /\ x = Chosen(s)
    OBVIOUS
  <2>2. x \in D /\ r \in SUBSET D
    BY <1>4, <2>1, OneLess
  <2>3. g[s] = f[x] + g[r] /\ k[s] = h[x] + k[r]
    BY <1>1, <1>2, <1>4, <2>1 DEF Totals
  <2>4. g[r] \in Int /\ k[r] \in Int /\ g[r] <= k[r]
    BY <1>4, <2>1
  <2>5. f[x] \in Int /\ h[x] \in Int /\ f[x] <= h[x]
    BY <2>2
  <2>6. QED
    BY <2>3, <2>4, <2>5
<1>5. D \in T
  <2>1. T \in SUBSET SUBSET D
    OBVIOUS
  <2> HIDE DEF T
  <2> QED
    BY <1>3, <1>4, <2>1, SubsetInduct
<1>6. QED
  BY <1>1, <1>2, <1>5 DEF Totals

(* Nothing adds up to nothing.                                             *)
LEMMA SumZero ==
  ASSUME NEW D, IsFiniteSet(D), NEW f \in [D -> Int], \A x \in D : f[x] = 0
  PROVE  SumFunction(f) = 0
<1>1. PICK g : Totals(f, D, g)
  <2>1. DOMAIN f = D
    OBVIOUS
  <2>2. QED
    BY <2>1, SumSteps
<1> DEFINE T == {s \in SUBSET D : g[s] = 0}
<1>2. {} \in T
  BY <1>1 DEF Totals
<1>3. ASSUME NEW s \in SUBSET D, s # {}, s \ {Chosen(s)} \in T PROVE s \in T
  <2>1. PICK r, x : r = s \ {x} /\ x = Chosen(s)
    OBVIOUS
  <2>2. x \in D /\ r \in SUBSET D
    BY <1>3, <2>1, OneLess
  <2>3. g[s] = f[x] + g[r]
    BY <1>1, <1>3, <2>1 DEF Totals
  <2>4. QED
    BY <1>3, <2>1, <2>2, <2>3
<1>4. D \in T
  <2>1. T \in SUBSET SUBSET D
    OBVIOUS
  <2> HIDE DEF T
  <2> QED
    BY <1>2, <1>3, <2>1, SubsetInduct
<1>5. QED
  BY <1>1, <1>4 DEF Totals

-----------------------------------------------------------------------------
(* The rounded division of nextActor: d ticks of speed s are enough for    *)
(* need, and d - 1 are not.                                                *)
LEMMA RoundedUp ==
  ASSUME NEW need \in Nat \ {0}, NEW s \in Nat \ {0}, NEW d, d = (need + s - 1) \div s
  PROVE  d \in Nat \ {0} /\ d * s >= need /\ (d - 1) * s < need
<1>1. d \in Int
  OBVIOUS
<1>2. d * s <= need + s - 1 /\ need + s - 1 < (d + 1) * s
  OBVIOUS
<1>3. (d + 1) * s = d * s + s /\ (d - 1) * s = d * s - s
  BY <1>1
<1>4. d * s >= need /\ (d - 1) * s < need
  BY <1>1, <1>2, <1>3
<1>5. d > 0
  <2>1. SUFFICES ASSUME d <= 0 PROVE FALSE
    BY <1>1
  <2>2. d * s <= 0
    BY <1>1, <2>1
  <2>3. QED
    BY <1>1, <1>4, <2>2
<1>6. QED
  BY <1>1, <1>4, <1>5

(* Fewer ticks fill less.                                                  *)
LEMMA FewerTicks ==
  ASSUME NEW a \in Int, NEW b \in Int, NEW s \in Nat, a <= b
  PROVE  a * s <= b * s
OBVIOUS

(* Position k of n places for each of m.                                   *)
LEMMA PlaceOf ==
  ASSUME NEW m \in Nat, NEW n \in Nat, NEW k \in 1 .. m * n
  PROVE  /\ ((k - 1) \div n) + 1 \in 1 .. m
         /\ ((k - 1) % n) + 1 \in 1 .. n
<1>1. n > 0
  <2>1. SUFFICES ASSUME n = 0 PROVE FALSE
    OBVIOUS
  <2>2. m * n = 0
    BY <2>1
  <2>3. QED
    BY <2>2
<1>2. PICK q : q = (k - 1) \div n
  OBVIOUS
<1>3. q \in Int /\ q * n <= k - 1 /\ k - 1 < (q + 1) * n
  BY <1>1, <1>2
<1>4. q >= 0
  <2>1. SUFFICES ASSUME q + 1 <= 0 PROVE FALSE
    BY <1>3
  <2>2. (q + 1) * n <= 0
    BY <1>1, <1>3, <2>1
  <2>3. QED
    BY <1>3, <2>2
<1>5. q < m
  <2>1. SUFFICES ASSUME m <= q PROVE FALSE
    BY <1>3
  <2>2. m * n <= q * n
    BY <1>3, <2>1, FewerTicks
  <2>3. q * n \in Int /\ m * n \in Int
    BY <1>3
  <2>4. QED
    BY <1>3, <2>2, <2>3
<1>6. (k - 1) % n \in 0 .. n - 1
  BY <1>1
<1>7. QED
  BY <1>2, <1>3, <1>4, <1>5, <1>6

-----------------------------------------------------------------------------
(* A strict order on S, as the set of its pairs; and one in which any two  *)
(* elements are comparable.                                                *)
Strict(R, S) ==
    /\ \A x \in S : <<x, x>> \notin R
    /\ \A x, y, z \in S : <<x, y>> \in R /\ <<y, z>> \in R => <<x, z>> \in R
Linear(R, S) ==
    /\ Strict(R, S)
    /\ \A x, y \in S : x = y \/ <<x, y>> \in R \/ <<y, x>> \in R
IsFirst(R, S, x) == x \in S /\ \A y \in S : <<y, x>> \notin R

(* A finite set has a first element: if a smallest counterexample had      *)
(* none, what is first without one of its elements would be first.         *)
LEMMA FirstExists ==
  ASSUME NEW S, IsFiniteSet(S), S # {}, NEW R, Strict(R, S)
  PROVE  \E x : IsFirst(R, S, x)
<1> DEFINE Bad(A) == A # {} /\ \A x : ~IsFirst(R, A, x)
           T == {n \in Nat : \E A \in SUBSET S : Bad(A) /\ Cardinality(A) = n}
<1>1. \A A \in SUBSET S : IsFiniteSet(A) /\ Cardinality(A) \in Nat
  BY FS_Subset, FS_CardinalityType
<1>2. SUFFICES ASSUME Bad(S) PROVE FALSE
  OBVIOUS
<1>3. T # {} /\ T \subseteq Nat
  BY <1>1, <1>2
<1>4. PICK n \in T : \A m \in T : n <= m
  <2> HIDE DEF T
  <2> QED
    BY <1>3, Least
<1>5. PICK A \in SUBSET S : Bad(A) /\ Cardinality(A) = n
  BY <1>4
<1>6. PICK x : x \in A
  BY <1>5
<1>7. PICK y : y \in A /\ <<y, x>> \in R
  BY <1>5, <1>6 DEF IsFirst
<1>8. PICK B : B = A \ {x}
  OBVIOUS
<1>9. B \in SUBSET S /\ Cardinality(B) = n - 1 /\ n \in Nat
  BY <1>1, <1>5, <1>6, <1>8, FS_RemoveElement
<1>10. y \in B
  BY <1>5, <1>6, <1>7, <1>8 DEF Strict
<1>11. ~Bad(B)
  <2>1. SUFFICES ASSUME Bad(B) PROVE FALSE
    OBVIOUS
  <2>2. Cardinality(B) \in T
    BY <1>1, <1>9, <2>1
  <2>3. n <= Cardinality(B)
    BY <1>4, <2>2
  <2>4. QED
    BY <1>9, <2>3
<1>12. PICK m : IsFirst(R, B, m)
  BY <1>10, <1>11
<1>13. <<x, m>> \in R
  BY <1>5, <1>8, <1>12 DEF IsFirst
<1>14. <<y, m>> \in R
  BY <1>5, <1>6, <1>7, <1>8, <1>12, <1>13 DEF IsFirst, Strict
<1>15. QED
  BY <1>10, <1>12, <1>14 DEF IsFirst

(* If any two are comparable there is one first element.                   *)
LEMMA OneFirst ==
  ASSUME NEW S, IsFiniteSet(S), S # {}, NEW R, Linear(R, S)
  PROVE  Cardinality({x \in S : \A y \in S : <<y, x>> \notin R}) = 1
<1>1. PICK x : IsFirst(R, S, x)
  BY FirstExists DEF Linear
<1>2. {z \in S : \A y \in S : <<y, z>> \notin R} = {x}
  BY <1>1 DEF IsFirst, Linear
<1>3. QED
  BY <1>2, FS_Singleton

(* The sequences of the elements of S in which none precedes a smaller     *)
(* one.                                                                    *)
InOrder(R, S) ==
    {q \in SetToSeqs(S) : \A i, j \in DOMAIN q : i < j => <<q[j], q[i]>> \notin R}

LEMMA InOrderMeans ==
  ASSUME NEW S, NEW R, NEW q
  PROVE  q \in InOrder(R, S) <=>
           /\ q \in [1 .. Cardinality(S) -> S]
           /\ \A i, j \in 1 .. Cardinality(S) : i # j => q[i] # q[j]
           /\ \A i, j \in 1 .. Cardinality(S) : i < j => <<q[j], q[i]>> \notin R
BY DEF InOrder, SetToSeqs

LEMMA OrderExists ==
  ASSUME NEW S, IsFiniteSet(S), NEW R, Strict(R, S)
  PROVE  \E q : q \in InOrder(R, S)
<1> DEFINE T == {n \in Nat : \A A \in SUBSET S : Cardinality(A) = n => \E q : q \in InOrder(R, A)}
<1>1. \A A \in SUBSET S : IsFiniteSet(A) /\ Cardinality(A) \in Nat
  BY FS_Subset, FS_CardinalityType
<1>2. 0 \in T
  <2>1. ASSUME NEW A \in SUBSET S, Cardinality(A) = 0 PROVE \E q : q \in InOrder(R, A)
    <3>1. PICK q : q = [i \in 1 .. 0 |-> i]
      OBVIOUS
    <3>2. q \in [1 .. 0 -> A] /\ \A i \in 1 .. 0 : FALSE
      BY <3>1
    <3>3. q \in InOrder(R, A)
      BY <2>1, <3>2, InOrderMeans
    <3>4. QED
      BY <3>3
  <2>2. QED
    BY <2>1
<1>3. ASSUME NEW n \in Nat, n \in T PROVE n + 1 \in T
  <2>1. ASSUME NEW A \in SUBSET S, Cardinality(A) = n + 1 PROVE \E q : q \in InOrder(R, A)
    <3>1. A # {}
      <4>1. Cardinality({}) = 0
        BY FS_EmptySet
      <4>2. n + 1 # 0
        OBVIOUS
      <4>3. QED
        BY <2>1, <4>1, <4>2
    <3>2. Strict(R, A)
      BY DEF Strict
    <3>3. PICK x : IsFirst(R, A, x)
      BY <1>1, <3>1, <3>2, FirstExists
    <3>4. PICK B : B = A \ {x}
      OBVIOUS
    <3>5. x \in A /\ \A y \in A : <<y, x>> \notin R
      BY <3>3 DEF IsFirst
    <3>6. B \in SUBSET S /\ Cardinality(B) = n
      BY <1>1, <2>1, <3>4, <3>5, FS_RemoveElement
    <3>7. PICK p : p \in InOrder(R, B)
      BY <1>3, <3>6
    <3>8. /\ p \in [1 .. n -> B]
          /\ \A i, j \in 1 .. n : i # j => p[i] # p[j]
          /\ \A i, j \in 1 .. n : i < j => <<p[j], p[i]>> \notin R
      BY <3>6, <3>7, InOrderMeans
    <3>9. PICK q : q = [i \in 1 .. n + 1 |-> IF i = 1 THEN x ELSE p[i - 1]]
      OBVIOUS
    <3>10. \A i \in 1 .. n + 1 : i = 1 \/ i - 1 \in 1 .. n
      OBVIOUS
    <3>11. q \in [1 .. n + 1 -> A]
      BY <3>4, <3>5, <3>8, <3>9, <3>10
    <3>12. \A i \in 1 .. n + 1 : IF i = 1 THEN q[i] = x
                                          ELSE i - 1 \in 1 .. n /\ q[i] = p[i - 1] /\ q[i] \in B
      BY <3>8, <3>9, <3>10
    <3>13. ASSUME NEW i \in 1 .. n + 1, NEW j \in 1 .. n + 1, i # j PROVE q[i] # q[j]
      BY <3>4, <3>8, <3>12, <3>13
    <3>14. ASSUME NEW i \in 1 .. n + 1, NEW j \in 1 .. n + 1, i < j
           PROVE  <<q[j], q[i]>> \notin R
      <4>1. CASE i = 1
        BY <3>5, <3>11, <3>12, <4>1
      <4>2. CASE i # 1
        <5>1. j # 1 /\ i - 1 < j - 1
          BY <3>14, <4>2
        <5>2. QED
          BY <3>8, <3>12, <4>2, <5>1
      <4>3. QED
        BY <4>1, <4>2
    <3>15. q \in InOrder(R, A)
      BY <2>1, <3>11, <3>13, <3>14, InOrderMeans
    <3>16. QED
      BY <3>15
  <2>2. QED
    BY <2>1
<1>4. Nat \subseteq T
  <2> HIDE DEF T
  <2> QED
    BY <1>2, <1>3, Induct
<1>5. QED
  BY <1>1, <1>4

(* If any two are comparable there is one such sequence: at the first      *)
(* place where two differ, each has the other's element later.             *)
LEMMA OneOrder ==
  ASSUME NEW S, IsFiniteSet(S), NEW R, Linear(R, S)
  PROVE  Cardinality(InOrder(R, S)) = 1
<1> DEFINE N == Cardinality(S)
<1>1. N \in Nat
  BY FS_CardinalityType
<1>2. PICK q : q \in InOrder(R, S)
  BY OrderExists DEF Linear
<1>3. ASSUME NEW p, p \in InOrder(R, S), p # q PROVE FALSE
  <2>1. /\ q \in [1 .. N -> S] /\ \A i, j \in 1 .. N : i # j => q[i] # q[j]
        /\ \A i, j \in 1 .. N : i < j => <<q[j], q[i]>> \notin R
    BY <1>2, InOrderMeans
  <2>2. /\ p \in [1 .. N -> S] /\ \A i, j \in 1 .. N : i # j => p[i] # p[j]
        /\ \A i, j \in 1 .. N : i < j => <<p[j], p[i]>> \notin R
    BY <1>3, InOrderMeans
  <2>3. PICK D : D = {i \in 1 .. N : q[i] # p[i]}
    OBVIOUS
  <2>4. D \in SUBSET Nat /\ D # {}
    BY <1>1, <1>3, <2>1, <2>2, <2>3
  <2>5. PICK i \in D : \A j \in D : i <= j
    BY <2>4, Least
  <2>6. i \in 1 .. N /\ \A j \in 1 .. N : j < i => q[j] = p[j]
    BY <1>1, <2>3, <2>5
  <2>7. IsFiniteSet(1 .. N) /\ Cardinality(1 .. N) = N
    BY <1>1, FS_Interval
  <2>8. /\ q \in Injection(1 .. N, S)
        /\ p \in Injection(1 .. N, S)
    BY <2>1, <2>2 DEF Injection, IsInjective
  <2>9. q \in Surjection(1 .. N, S) /\ p \in Surjection(1 .. N, S)
    BY <2>7, <2>8, FS_Injection
  <2>10. PICK j \in 1 .. N : p[j] = q[i]
    BY <2>1, <2>6, <2>9 DEF Surjection
  <2>11. PICK k \in 1 .. N : q[k] = p[i]
    BY <2>2, <2>6, <2>9 DEF Surjection
  <2>12. q[i] # p[i]
    BY <2>3, <2>5
  <2>13. i < j /\ i < k
    BY <1>1, <2>1, <2>2, <2>6, <2>10, <2>11, <2>12
  <2>14. <<q[i], p[i]>> \notin R /\ <<p[i], q[i]>> \notin R
    BY <2>1, <2>2, <2>6, <2>10, <2>11, <2>13
  <2>15. q[i] \in S /\ p[i] \in S
    BY <2>1, <2>2, <2>6
  <2>16. QED
    BY <2>12, <2>14, <2>15 DEF Linear
<1>4. InOrder(R, S) = {q}
  BY <1>2, <1>3
<1>5. QED
  BY <1>4, FS_Singleton

-----------------------------------------------------------------------------
(* Fractions, compared by multiplying crosswise: a/x <= b/y <= c/z.        *)
LEMMA Crosswise ==
  ASSUME NEW a \in Nat, NEW b \in Nat, NEW c \in Nat,
         NEW x \in Nat \ {0}, NEW y \in Nat \ {0}, NEW z \in Nat \ {0},
         a * y <= b * x, b * z <= c * y
  PROVE  /\ a * z <= c * x
         /\ a * y < b * x \/ b * z < c * y => a * z < c * x
<1>1. PICK p \in Int, q \in Int, r \in Int, s \in Int, l \in Int, m \in Int :
        /\ p = a * y /\ q = b * x /\ r = b * z /\ s = c * y /\ l = a * z /\ m = c * x
        /\ p * z = l * y /\ q * z = r * x /\ s * x = m * y
  OBVIOUS
<1>2. p * z <= q * z /\ r * x <= s * x
  BY <1>1, FewerTicks
<1>3. l * y <= m * y
  BY <1>1, <1>2
<1>4. l <= m
  <2>1. SUFFICES ASSUME m + 1 <= l PROVE FALSE
    BY <1>1
  <2>2. (m + 1) * y <= l * y
    BY <1>1, <2>1, FewerTicks
  <2>3. (m + 1) * y = m * y + y /\ m * y \in Int /\ l * y \in Int
    BY <1>1
  <2>4. QED
    BY <1>3, <2>2, <2>3
<1>5. ASSUME p < q \/ r < s PROVE l < m
  <2>1. SUFFICES ASSUME l = m PROVE FALSE
    BY <1>1, <1>4
  <2>2. /\ p * z \in Int /\ q * z \in Int /\ r * x \in Int /\ s * x \in Int
        /\ (p + 1) * z = p * z + z /\ (r + 1) * x = r * x + x
    BY <1>1
  <2>3. p * z = q * z /\ r * x = s * x
    BY <1>1, <1>2, <2>1, <2>2
  <2>4. CASE p < q
    <3>1. (p + 1) * z <= q * z
      BY <1>1, <2>4, FewerTicks
    <3>2. QED
      BY <2>2, <2>3, <3>1
  <2>5. CASE r < s
    <3>1. (r + 1) * x <= s * x
      BY <1>1, <2>5, FewerTicks
    <3>2. QED
      BY <2>2, <2>3, <3>1
  <2>6. QED
    BY <1>5, <2>4, <2>5
<1>6. QED
  BY <1>1, <1>4, <1>5
=============================================================================
