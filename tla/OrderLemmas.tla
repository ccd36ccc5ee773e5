---------------------------- MODULE OrderLemmas ----------------------------
(***************************************************************************)
(* Facts about ordered sets that the proofs of several modules need: the   *)
(* largest and the smallest of a set of numbers, and the ranks of the      *)
(* elements of a finite set.                                               *)
(***************************************************************************)
EXTENDS Integers, FiniteSetsExt, FiniteSetTheorems, WellFoundedInduction, TLAPS

\* The largest element of a set of numbers that has a bound.
LEMMA LargestIsThere ==
    ASSUME NEW n \in Nat, NEW S \in SUBSET (0 .. n), S # {}
    PROVE  Max(S) \in S /\ \A x \in S : x <= Max(S)
<1> DEFINE T == {0 .. m : m \in {k \in 0 .. n : S \subseteq 0 .. k}}
           R == StrictSubsetOrdering(0 .. n)
<1>1. IsFiniteSet(0 .. n)
  BY FS_Interval
<1>2. IsWellFoundedOn(R, SUBSET (0 .. n))
  BY <1>1, FS_StrictSubsetOrderingWellFounded, FS_FiniteSubsetsOfFinite
<1>3. T \subseteq SUBSET (0 .. n) /\ 0 .. n \in T
  BY SMT
<1>4. PICK U \in T : \A V \in T : <<V, U>> \notin R
  <2> HIDE DEF T, R
  <2> QED BY <1>2, <1>3, WFMin
<1>5. PICK m \in 0 .. n : U = 0 .. m /\ S \subseteq 0 .. m
  OBVIOUS
<1>6. m \in S
  <2> SUFFICES ASSUME m \notin S PROVE FALSE
    OBVIOUS
  <2>1. m # 0
    <3>1. PICK x \in S : x \in 0 .. m /\ x # m
      BY <1>5
    <3> HIDE DEF T, R
    <3> QED BY <3>1
  <2>2. S \subseteq 0 .. m - 1 /\ m - 1 \in 0 .. n
    <3> HIDE DEF T, R
    <3>1. m \in Nat /\ m <= n /\ \A x \in S : x \in 0 .. m /\ x # m
      BY <1>5
    <3> QED BY <2>1, <3>1
  <2>3. 0 .. m - 1 \in T
    BY <2>2
  <2>4. 0 .. m - 1 \subseteq 0 .. m /\ 0 .. m - 1 # 0 .. m /\ 0 .. m \subseteq 0 .. n
    BY <1>5
  <2>5. ASSUME NEW V, NEW W, V \subseteq U, V # U, U \subseteq W
        PROVE  <<V, U>> \in StrictSubsetOrdering(W)
    BY <2>5, Zenon DEF StrictSubsetOrdering
  <2>6. <<0 .. m - 1, U>> \in R
    BY <1>5, <2>4, <2>5
  <2> HIDE DEF T, R
  <2> QED BY <1>4, <2>3, <2>6
<1>7. \A x \in S : m >= x /\ x \in Nat
  BY <1>5
<1>8. Max(S) \in S /\ \A y \in S : Max(S) >= y
  BY <1>6, <1>7 DEF Max
<1> QED BY <1>7, <1>8

\* The smallest of a set of numbers.
LEMMA SmallestIsThere ==
    ASSUME NEW S \in SUBSET Nat, S # {}
    PROVE  Min(S) \in S /\ \A x \in S : Min(S) <= x
<1>1. PICK n \in S : TRUE
  OBVIOUS
<1> DEFINE T == {n - x : x \in {y \in S : y <= n}}
<1>2. n \in Nat /\ T \in SUBSET (0 .. n) /\ n - n \in T
  BY <1>1
<1>3. Max(T) \in T /\ \A x \in T : x <= Max(T)
  <2> HIDE DEF T
  <2> QED BY <1>2, LargestIsThere
<1>4. PICK m \in S : m <= n /\ Max(T) = n - m
  BY <1>3
<1>5. ASSUME NEW x \in S PROVE m <= x
  <2>1. CASE x <= n
    <3>1. n - x \in T
      BY <2>1
    <3>2. n - x <= n - m
      BY <3>1, <1>3, <1>4
    <3> QED BY <3>2, <1>2
  <2>2. CASE ~(x <= n)
    BY <2>2, <1>2, <1>4
  <2> QED BY <2>1, <2>2
<1> QED BY <1>5 DEF Min

\* The ranks of the elements of a finite set under a total order: counted from one,
\* without gaps and without repetitions.
Rank(S, R) == [x \in S |-> 1 + Cardinality({y \in S : <<y, x>> \in R})]
IsTotalOrder(S, R) ==
    /\ \A x \in S : <<x, x>> \notin R
    /\ \A x, y, z \in S : <<x, y>> \in R /\ <<y, z>> \in R => <<x, z>> \in R
    /\ \A x, y \in S : x = y \/ <<x, y>> \in R \/ <<y, x>> \in R

\* Numbers that are a bijection to the first ones, and follow the order.
IsRanking(rank, S, R) ==
    /\ \A x \in S : rank[x] \in 1 .. Cardinality(S)
    /\ \A x, y \in S : <<x, y>> \in R => rank[x] < rank[y]
    /\ \A x, y \in S : rank[x] = rank[y] => x = y
    /\ \A k \in 1 .. Cardinality(S) : \E x \in S : rank[x] = k

\* Ranks are such numbers.
LEMMA RanksAreABijection ==
    ASSUME NEW S, IsFiniteSet(S), NEW R, IsTotalOrder(S, R)
    PROVE  IsRanking(Rank(S, R), S, R)
<1> DEFINE Before(x) == {y \in S : <<y, x>> \in R}
           N == Cardinality(S)
           rank == Rank(S, R)
<1>1. N \in Nat
  BY FS_CardinalityType
<1>2. ASSUME NEW x \in S
      PROVE  IsFiniteSet(Before(x)) /\ Cardinality(Before(x)) \in Nat /\ Cardinality(Before(x)) <= N - 1
  <2>1. Before(x) \in SUBSET (S \ {x})
    BY DEF IsTotalOrder
  <2>2. IsFiniteSet(S \ {x}) /\ Cardinality(S \ {x}) = N - 1
    BY FS_RemoveElement
  <2> HIDE DEF Before
  <2>3. IsFiniteSet(Before(x)) /\ Cardinality(Before(x)) <= N - 1
    BY <2>1, <2>2, FS_Subset
  <2> QED BY <2>3, FS_CardinalityType
<1>3. \A x \in S : rank[x] = 1 + Cardinality(Before(x))
  BY DEF Rank
<1>4. \A x \in S : rank[x] \in 1 .. N
  <2> HIDE DEF Before, rank
  <2> QED BY <1>1, <1>2, <1>3
<1>5. ASSUME NEW x \in S, NEW y \in S, <<x, y>> \in R
      PROVE  rank[x] < rank[y]
  <2>1. Before(x) \cup {x} \in SUBSET Before(y) /\ x \notin Before(x)
    BY <1>5 DEF IsTotalOrder
  <2> HIDE DEF Before, rank
  <2>2. Cardinality(Before(x) \cup {x}) = Cardinality(Before(x)) + 1
    BY <1>2, <2>1, FS_AddElement
  <2>3. Cardinality(Before(x) \cup {x}) <= Cardinality(Before(y))
    BY <1>2, <2>1, FS_Subset
  <2> QED BY <1>2, <1>3, <2>2, <2>3
<1>6. ASSUME NEW x \in S, NEW y \in S, rank[x] = rank[y]
      PROVE  x = y
  <2>1. rank[x] \in Int /\ rank[y] \in Int
    BY <1>4
  <2>2. <<x, y>> \notin R
    <3> HIDE DEF rank
    <3> QED BY <1>5, <1>6, <2>1
  <2>3. <<y, x>> \notin R
    <3> HIDE DEF rank
    <3> QED BY <1>5, <1>6, <2>1
  <2> QED BY <2>2, <2>3 DEF IsTotalOrder
<1>7. rank \in Injection(S, 1 .. N)
  BY <1>4, <1>6 DEF Rank, Injection, IsInjective
<1>8. rank \in Surjection(S, 1 .. N)
  <2>1. IsFiniteSet(1 .. N) /\ Cardinality(1 .. N) = N
    BY <1>1, FS_Interval
  <2> HIDE DEF rank
  <2> QED BY <1>7, <2>1, FS_Injection
<1>9. \A k \in 1 .. N : \E x \in S : rank[x] = k
  BY <1>8 DEF Surjection
<1> QED BY <1>4, <1>5, <1>6, <1>9 DEF IsRanking
=============================================================================
