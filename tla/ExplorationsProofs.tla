--------------------------- MODULE ExplorationsProofs ---------------------------
(***************************************************************************)
(* Proofs about Explorations: joins keep the rows of the base table, queries *)
(* have the aliases worked out for them, pages are no longer than the limit, *)
(* and the count given with them is of the rows they hold.                   *)
(***************************************************************************)
EXTENDS Explorations, OrderLemmas, SequenceTheorems

-----------------------------------------------------------------------------
\* Lists.

LEMMA ListsHaveElements ==
    ASSUME NEW X, NEW s \in Seq(X)
    PROVE  DOMAIN s = 1 .. Len(s) /\ Len(s) \in Nat /\ s \in [1 .. Len(s) -> X] /\ \A i \in DOMAIN s : s[i] \in X
OBVIOUS
LEMMA ElementsMakeAList ==
    ASSUME NEW X, NEW n \in Nat, NEW s \in [1 .. n -> X]
    PROVE  s \in Seq(X) /\ Len(s) = n
OBVIOUS
LEMMA OneMakesAList ==
    ASSUME NEW X, NEW x \in X
    PROVE  <<x>> \in Seq(X) /\ Len(<<x>>) = 1
OBVIOUS

\* A finite set is sorted into a list that has each of its elements once.
LEMMA SortedIsAList ==
    ASSUME NEW S, IsFiniteSet(S), NEW number \in [S -> Int],
           \A x, y \in S : number[x] = number[y] => x = y
    PROVE  Sorted(S, number) \in Seq(S) /\ Len(Sorted(S, number)) = Cardinality(S)
<1> DEFINE R == {xy \in S \X S : number[xy[1]] < number[xy[2]]}
           N == Cardinality(S)
<1>0. N \in Nat
  BY FS_CardinalityType
<1>1. \A x, y \in S : <<x, y>> \in R <=> number[x] < number[y]
  OBVIOUS
<1>2. IsTotalOrder(S, R)
  <2>1. \A x \in S : number[x] \in Int
    OBVIOUS
  <2> HIDE DEF R
  <2> QED BY <1>1, <2>1, Z3 DEF IsTotalOrder
<1>3. IsRanking(Rank(S, R), S, R)
  <2> HIDE DEF R
  <2> QED BY <1>2, RanksAreABijection
<1>4. ASSUME NEW n \in 1 .. N
      PROVE  \E x \in S : Cardinality({y \in S : number[y] < number[x]}) = n - 1
  <2>1. PICK x \in S : Rank(S, R)[x] = n
    <3> HIDE DEF R
    <3> QED BY <1>3, <1>4 DEF IsRanking
  <2>2. {y \in S : <<y, x>> \in R} = {y \in S : number[y] < number[x]}
    BY <1>1
  <2>3. Rank(S, R)[x] = 1 + Cardinality({y \in S : <<y, x>> \in R})
    <3> HIDE DEF R
    <3> QED BY DEF Rank
  <2>4. IsFiniteSet({y \in S : number[y] < number[x]})
    BY FS_Subset
  <2>5. Cardinality({y \in S : number[y] < number[x]}) \in Nat
    BY <2>4, FS_CardinalityType
  <2>6. n \in Nat
    BY <1>0
  <2>7. 1 + Cardinality({y \in S : number[y] < number[x]}) = n
    <3> HIDE DEF R, N
    <3> QED BY <2>1, <2>2, <2>3, Zenon
  <2>8. ASSUME NEW c \in Nat, 1 + c = n PROVE c = n - 1
    BY <2>6, <2>8
  <2> HIDE DEF R, N
  <2> QED BY <2>5, <2>7, <2>8
<1>5. Sorted(S, number) \in [1 .. N -> S]
  BY <1>4 DEF Sorted
<1> QED BY <1>0, <1>5

\* What is taken from positions of a list is a list, of as many elements.
LEMMA AtIsAList ==
    ASSUME NEW X, NEW s \in Seq(X), NEW at \in SUBSET DOMAIN s
    PROVE  At(s, at) \in Seq(X) /\ Len(At(s, at)) = Cardinality(at)
<1> DEFINE sorted == Sorted(at, [i \in at |-> i])
<1>1. IsFiniteSet(at) /\ at \subseteq Int
  <2>1. DOMAIN s = 1 .. Len(s) /\ Len(s) \in Nat
    OBVIOUS
  <2>2. IsFiniteSet(1 .. Len(s))
    BY <2>1, FS_Interval
  <2> QED BY <2>1, <2>2, FS_Subset
<1>2. [i \in at |-> i] \in [at -> Int] /\ \A x, y \in at : [i \in at |-> i][x] = [i \in at |-> i][y] => x = y
  BY <1>1
<1>3. sorted \in Seq(at) /\ Len(sorted) = Cardinality(at)
  BY <1>1, <1>2, SortedIsAList
<1>4. At(s, at) = [n \in DOMAIN sorted |-> s[sorted[n]]]
  BY DEF At
<1>5. \A n \in DOMAIN sorted : sorted[n] \in at /\ s[sorted[n]] \in X
  <2> HIDE DEF sorted
  <2> QED BY <1>3
<1>6. DOMAIN sorted = 1 .. Len(sorted) /\ Len(sorted) \in Nat
  <2> HIDE DEF sorted
  <2> QED BY <1>3
<1> HIDE DEF sorted
<1>7. At(s, at) \in [1 .. Len(sorted) -> X]
  BY <1>4, <1>5, <1>6
<1> QED BY <1>3, <1>6, <1>7

LEMMA SetToSeqIsAList ==
    ASSUME NEW S, IsFiniteSet(S)
    PROVE  SetToSeq(S) \in Seq(S)
<1>1. Cardinality(S) \in Nat
  BY FS_CardinalityType
<1>2. \E f : f \in Bijection(1 .. Cardinality(S), S)
  BY FS_CardinalityType DEF ExistsBijection
<1>3. \E f \in [1 .. Cardinality(S) -> S] : IsInjective(f)
  BY <1>2 DEF Bijection, Injection, IsInjective
<1>4. SetToSeq(S) \in [1 .. Cardinality(S) -> S]
  BY <1>3 DEF SetToSeq
<1> QED BY <1>1, <1>4

\* The lists of a list one after the other.
Flattened(seqs, f) ==
    f = [i \in 1 .. Len(seqs) |-> IF i = 1 THEN seqs[i] ELSE f[i - 1] \o seqs[i]]

\* FlattenSeq is the last of such lists: the function that its definition asks for is there.
LEMMA FlattenedIsThere ==
    ASSUME NEW X, NEW seqs \in Seq(Seq(X)), Len(seqs) # 0
    PROVE  \E f : Flattened(seqs, f) /\ FlattenSeq(seqs) = f[Len(seqs)]
<1> DEFINE Upto(n) == {f \in [1 .. n -> Seq(X)] : \A i \in 1 .. n : f[i] = IF i = 1 THEN seqs[i] ELSE f[i - 1] \o seqs[i]}
           Missing_ == {n \in 1 .. Len(seqs) : Upto(n) = {}}
<1>0. Len(seqs) \in Nat /\ \A i \in 1 .. Len(seqs) : seqs[i] \in Seq(X)
  OBVIOUS
<1>1. ASSUME Missing_ # {} PROVE FALSE
  <2>1. PICK n \in Missing_ : \A m \in Missing_ : n <= m
    <3>1. Missing_ \in SUBSET Nat
      <4>1. Missing_ \subseteq 1 .. Len(seqs)
        OBVIOUS
      <4> HIDE DEF Missing_
      <4> QED BY <1>0, <4>1
    <3> HIDE DEF Missing_
    <3> QED BY <1>1, <3>1, SmallestIsThere
  <2>2. n \in 1 .. Len(seqs) /\ n \in Nat /\ Upto(n) = {}
    <3>1. n \in 1 .. Len(seqs) /\ Upto(n) = {}
      OBVIOUS
    <3> HIDE DEF Upto, Missing_
    <3> QED BY <1>0, <3>1
  <2>3. n # 1
    <3>1. [i \in 1 .. 1 |-> seqs[1]] \in Upto(1)
      BY <1>0, <2>2
    <3> HIDE DEF Upto
    <3> QED BY <2>2, <3>1
  <2>4. n - 1 \in 1 .. Len(seqs) /\ n - 1 \notin Missing_
    <3> HIDE DEF Missing_
    <3> QED BY <1>0, <2>1, <2>2, <2>3
  <2>5. PICK f \in Upto(n - 1) : TRUE
    <3> HIDE DEF Upto
    <3> QED BY <2>4
  <2> DEFINE g == [i \in 1 .. n |-> IF i = n THEN f[n - 1] \o seqs[n] ELSE f[i]]
  <2>6. f \in [1 .. n - 1 -> Seq(X)]
    OBVIOUS
  <2>7. f[n - 1] \o seqs[n] \in Seq(X)
    BY <1>0, <2>2, <2>3, <2>6
  <2>8. g \in [1 .. n -> Seq(X)]
    BY <2>2, <2>6, <2>7
  <2>9. ASSUME NEW i \in 1 .. n
        PROVE  g[i] = IF i = 1 THEN seqs[i] ELSE g[i - 1] \o seqs[i]
    <3>1. CASE i = n
      <4>1. n - 1 \in 1 .. n /\ n - 1 # n /\ n \in 1 .. n
        BY <2>2, <2>3
      <4>2. g[n] = f[n - 1] \o seqs[n] /\ g[n - 1] = f[n - 1]
        BY <4>1
      <4> HIDE DEF g, Upto
      <4> QED BY <2>3, <3>1, <4>2
    <3>2. CASE i # n
      <4>1. i \in 1 .. n - 1 /\ (i = 1 \/ i - 1 \in 1 .. n - 1)
        BY <2>2, <3>2
      <4>2. g[i] = f[i] /\ (i # 1 => g[i - 1] = f[i - 1])
        BY <2>2, <3>2, <4>1
      <4>3. f[i] = IF i = 1 THEN seqs[i] ELSE f[i - 1] \o seqs[i]
        BY <4>1
      <4> QED BY <4>2, <4>3
    <3> QED BY <3>1, <3>2
  <2>10. g \in Upto(n)
    <3> HIDE DEF g
    <3> QED BY <2>8, <2>9
  <2> HIDE DEF Upto, g
  <2> QED BY <2>2, <2>10
<1>2. PICK f \in Upto(Len(seqs)) : TRUE
  <2>1. Len(seqs) \in 1 .. Len(seqs)
    BY <1>0
  <2> HIDE DEF Upto
  <2> QED BY <1>1, <2>1
<1>3. Flattened(seqs, f)
  BY <1>2 DEF Flattened
<1>4. FlattenSeq(seqs) = (CHOOSE g : Flattened(seqs, g))[Len(seqs)]
  BY DEF FlattenSeq, Flattened
<1>5. Flattened(seqs, CHOOSE g : Flattened(seqs, g))
  BY <1>3
<1> QED BY <1>4, <1>5

LEMMA FlattenIsAList ==
    ASSUME NEW X, NEW seqs \in Seq(Seq(X))
    PROVE  FlattenSeq(seqs) \in Seq(X) /\ ((\A i \in DOMAIN seqs : Len(seqs[i]) = 1) => Len(FlattenSeq(seqs)) = Len(seqs))
<1>1. CASE Len(seqs) = 0
  <2>1. seqs = <<>> /\ FlattenSeq(seqs) = <<>>
    BY <1>1 DEF FlattenSeq
  <2> QED BY <2>1, EmptySeq
<1>2. CASE Len(seqs) # 0
  <2>0. Len(seqs) \in Nat /\ \A i \in 1 .. Len(seqs) : seqs[i] \in Seq(X)
    OBVIOUS
  <2>1. PICK f : Flattened(seqs, f) /\ FlattenSeq(seqs) = f[Len(seqs)]
    BY <1>2, FlattenedIsThere
  <2>2. \A i \in 1 .. Len(seqs) : f[i] = IF i = 1 THEN seqs[i] ELSE f[i - 1] \o seqs[i]
    BY <2>1 DEF Flattened
  <2> DEFINE Good(i) == f[i] \in Seq(X) /\ ((\A j \in DOMAIN seqs : Len(seqs[j]) = 1) => Len(f[i]) = i)
             Bad == {i \in 1 .. Len(seqs) : ~Good(i)}
  <2>3. ASSUME Bad # {} PROVE FALSE
    <3>1. PICK n \in Bad : \A m \in Bad : n <= m
      <4>1. Bad \in SUBSET Nat
        BY <2>0
      <4> HIDE DEF Bad
      <4> QED BY <2>3, <4>1, SmallestIsThere
    <3>2. n \in 1 .. Len(seqs) /\ ~Good(n)
      OBVIOUS
    <3>3. DOMAIN seqs = 1 .. Len(seqs)
      OBVIOUS
    <3>4. CASE n = 1
      <4>1. f[n] = seqs[n]
        BY <2>2, <3>2, <3>4
      <4> QED BY <2>0, <3>2, <3>3, <3>4, <4>1
    <3>5. CASE n # 1
      <4>1. n - 1 \in 1 .. Len(seqs) /\ Good(n - 1)
        <5>1. n - 1 \in 1 .. Len(seqs) /\ n - 1 \notin Bad
          <6> HIDE DEF Bad
          <6> QED BY <2>0, <3>1, <3>2, <3>5
        <5> HIDE DEF Good
        <5> QED BY <5>1
      <4>2. f[n] = f[n - 1] \o seqs[n]
        BY <2>2, <3>2, <3>5
      <4>3. f[n - 1] \in Seq(X) /\ seqs[n] \in Seq(X)
        BY <2>0, <3>2, <4>1
      <4>4. f[n] \in Seq(X) /\ Len(f[n]) = Len(f[n - 1]) + Len(seqs[n])
        BY <4>2, <4>3, ConcatProperties
      <4>5. (\A j \in DOMAIN seqs : Len(seqs[j]) = 1) => Len(f[n]) = n
        <5>1. (\A j \in DOMAIN seqs : Len(seqs[j]) = 1) => Len(f[n - 1]) = n - 1 /\ Len(seqs[n]) = 1
          <6> HIDE DEF Bad
          <6> QED BY <3>2, <3>3, <4>1
        <5>2. n \in Nat /\ (n - 1) + 1 = n
          BY <2>0, <3>2
        <5> HIDE DEF Good, Bad
        <5> QED BY <4>4, <5>1, <5>2
      <4> QED BY <3>2, <4>4, <4>5
    <3> QED BY <3>4, <3>5
  <2>4. Good(Len(seqs))
    <3>1. Len(seqs) \in 1 .. Len(seqs)
      BY <1>2, <2>0
    <3> HIDE DEF Good
    <3> QED BY <2>3, <3>1
  <2> QED BY <2>1, <2>4
<1> QED BY <1>1, <1>2

-----------------------------------------------------------------------------
\* Joins.

\* What a reference refers to is one row at most: foreign keys refer to unique columns.
LEMMA ReferredIsOneRow ==
    ASSUME NEW X, NEW db, NEW p, NEW joined, db[TableOf(Last(p)[2])] \in Seq(X)
    PROVE  /\ Referred(db, p, joined) \in Seq(X)
           /\ IsUnique(db[TableOf(Last(p)[2])], {Last(p)[2]}) => Len(Referred(db, p, joined)) \in {0, 1}
<1> DEFINE left == joined[Front(p)]
           jp == Last(p)
           v == IF left = None THEN None ELSE left[jp[1][2]]
           rows == db[TableOf(jp[2])]
           at == {i \in DOMAIN rows : v # None /\ rows[i][jp[2][2]] = v}
<1>1. Referred(db, p, joined) = At(rows, at)
  BY DEF Referred, Those
<1>2. IsUnique(rows, {jp[2]}) => \A i, j \in at : i = j
  BY DEF IsUnique
<1>3. at \in SUBSET DOMAIN rows /\ rows \in Seq(X)
  OBVIOUS
<1> HIDE DEF at, rows
<1>4. Referred(db, p, joined) \in Seq(X) /\ Len(Referred(db, p, joined)) = Cardinality(at)
  BY <1>1, <1>3, AtIsAList
<1>5. CASE at = {}
  BY <1>4, <1>5, FS_EmptySet
<1>6. CASE at # {} /\ ~IsUnique(rows, {jp[2]})
  BY <1>4, <1>6 DEF rows
<1>7. CASE at # {} /\ IsUnique(rows, {jp[2]})
  <2>1. PICK i \in at : at = {i}
    BY <1>2, <1>7
  <2> QED BY <1>4, <2>1, FS_Singleton
<1> QED BY <1>5, <1>6, <1>7

\* A join is a list of rows; along a reference to a unique column it has one for each
\* that there was.
LEMMA JoinKeepsLength ==
    ASSUME NEW X, NEW db, NEW p, NEW J, NEW joins \in Seq(J), db[TableOf(Last(p)[2])] \in Seq(X)
    PROVE  /\ IsUnique(db[TableOf(Last(p)[2])], {Last(p)[2]}) => Len(Join(db, joins, p)) = Len(joins)
           /\ \E K : Join(db, joins, p) \in Seq(K)
<1> DEFINE Unique == IsUnique(db[TableOf(Last(p)[2])], {Last(p)[2]})
           Rows(joined) == IF Referred(db, p, joined) = <<>> THEN <<None>> ELSE Referred(db, p, joined)
           Line(joined) == [k \in DOMAIN Rows(joined) |-> joined ++ Single(p, Rows(joined)[k])]
           lines == [j \in DOMAIN joins |-> Line(joins[j])]
           K == {joined ++ Single(p, row) : joined \in J, row \in X \cup {None}}
<1>1. Join(db, joins, p) = FlattenSeq(lines)
  BY DEF Join, Each
<1>2. ASSUME NEW joined \in J
      PROVE  Line(joined) \in Seq(K) /\ (Unique => Len(Line(joined)) = 1)
  <2>1. Rows(joined) \in Seq(X \cup {None}) /\ (Unique => Len(Rows(joined)) = 1)
    <3>1. Referred(db, p, joined) \in Seq(X) /\ (Unique => Len(Referred(db, p, joined)) \in {0, 1})
      BY ReferredIsOneRow
    <3> HIDE DEF Unique
    <3>2. CASE Referred(db, p, joined) = <<>>
      <4>1. Rows(joined) = <<None>>
        BY <3>2
      <4> HIDE DEF Rows
      <4> QED BY <4>1, OneMakesAList
    <3>3. CASE Referred(db, p, joined) # <<>>
      <4>1. Rows(joined) = Referred(db, p, joined)
        BY <3>3
      <4> HIDE DEF Rows
      <4>2. Rows(joined) \in Seq(X) /\ (Unique => Len(Rows(joined)) = 1)
        BY <3>1, <3>3, <4>1, EmptySeq
      <4>3. Rows(joined) \in Seq(X \cup {None})
        BY <4>2
      <4> QED BY <4>2, <4>3
    <3> QED BY <3>2, <3>3
  <2> HIDE DEF Rows, Unique
  <2> DEFINE n == Len(Rows(joined))
  <2>2. DOMAIN Rows(joined) = 1 .. n /\ n \in Nat /\ \A k \in 1 .. n : Rows(joined)[k] \in X \cup {None}
    BY <2>1, ListsHaveElements
  <2> HIDE DEF n
  <2>3. \A k \in 1 .. n : joined ++ Single(p, Rows(joined)[k]) \in K
    BY <2>2
  <2> HIDE DEF K
  <2>4. Line(joined) \in [1 .. n -> K]
    BY <2>2, <2>3
  <2> HIDE DEF Line
  <2>5. Line(joined) \in Seq(K) /\ Len(Line(joined)) = n
    BY <2>2, <2>4, ElementsMakeAList
  <2> QED BY <2>1, <2>5 DEF n
<1> HIDE DEF Unique
<1>3. lines \in Seq(Seq(K)) /\ Len(lines) = Len(joins) /\ (Unique => \A j \in DOMAIN lines : Len(lines[j]) = 1)
  <2>1. Len(joins) \in Nat /\ DOMAIN joins = 1 .. Len(joins) /\ \A j \in 1 .. Len(joins) : joins[j] \in J
    OBVIOUS
  <2> HIDE DEF Line, K
  <2>2. lines \in [1 .. Len(joins) -> Seq(K)] /\ (Unique => \A j \in 1 .. Len(joins) : Len(lines[j]) = 1)
    BY <1>2, <2>1
  <2> HIDE DEF lines
  <2> QED BY <2>1, <2>2
<1> HIDE DEF lines, K
<1>4. FlattenSeq(lines) \in Seq(K) /\ (Unique => Len(FlattenSeq(lines)) = Len(lines))
  BY <1>3, FlattenIsAList
<1> QED BY <1>1, <1>3, <1>4 DEF Unique

\* A step of a listing: what it asks of the relation there is.
ListingStep(p, fallback, x, step) ==
    IF x = Broken THEN x
    ELSE CASE step = "filter" /\ p.filter # {} -> Filtered(x, The(p.filter))
           [] step = "duplicates" /\ p.duplicates # {} -> DuplicateOnly(x, p.duplicates)
           [] step = "group" /\ p.group # {} -> GroupedBy(x, The(p.group))
           [] step = "order" /\ (p.order # <<>> \/ fallback) -> Ordered(x, p.order)
           [] step = "search" /\ p.search # {} -> Searched(x, The(p.search))
           [] OTHER -> x
\* What is done with one element of a list after the other, with something given: a path
\* is joined, a transformation applied, the aliases it gives are found, a listing's step.
StepOf(kind, given, sofar, x) ==
    IF kind = "join" THEN Join(given, sofar, x)
    ELSE IF kind = "apply" THEN Apply(sofar, x)
    ELSE IF kind = "aliases" THEN OutputAliases(x, sofar)
    ELSE ListingStep(given[1], given[2], sofar, x)
\* A fold of such steps, by the sets of positions that it goes through.
AreSteps(kind, db, base, ps, f) ==
    f = [s \in SUBSET DOMAIN ps |-> IF s = {} THEN base ELSE StepOf(kind, db, f[s \ {Max(s)}], ps[Max(s)])]

LEMMA StepsAreThere ==
    ASSUME NEW kind, NEW db, NEW base, NEW P, NEW ps \in Seq(P)
    PROVE  \E f : AreSteps(kind, db, base, ps, f)
<1> DEFINE D == DOMAIN ps
           N == Len(ps)
           Next_(f, s) == IF s = {} THEN base ELSE StepOf(kind, db, f[s \ {Max(s)}], ps[Max(s)])
           Below(m) == {s \in SUBSET D : Cardinality(s) < m}
           Good(m) == \E f : f = [s \in Below(m) |-> Next_(f, s)]
           Bad == {m \in 0 .. N + 1 : ~Good(m)}
<1>0. D = 1 .. N /\ N \in Nat
  BY ListsHaveElements
<1>1. IsFiniteSet(D) /\ Cardinality(D) = N
  BY <1>0, FS_Interval
<1>2. ASSUME NEW s \in SUBSET D
      PROVE  /\ IsFiniteSet(s) /\ Cardinality(s) \in Nat /\ Cardinality(s) <= N
             /\ s # {} => s \ {Max(s)} \in SUBSET D /\ Cardinality(s \ {Max(s)}) = Cardinality(s) - 1
  <2>1. IsFiniteSet(s) /\ Cardinality(s) \in Nat /\ Cardinality(s) <= N
    BY <1>1, FS_Subset, FS_CardinalityType
  <2>2. ASSUME s # {} PROVE s \ {Max(s)} \in SUBSET D /\ Cardinality(s \ {Max(s)}) = Cardinality(s) - 1
    <3>1. s \in SUBSET (0 .. N)
      BY <1>0
    <3>2. Max(s) \in s
      BY <1>0, <2>2, <3>1, LargestIsThere
    <3> QED BY <2>1, <3>2, FS_RemoveElement
  <2> QED BY <2>1, <2>2
<1>21. \A s \in SUBSET D : Cardinality(s) \in Nat /\ Cardinality(s) <= N
  <2> HIDE DEF D, N
  <2> QED BY <1>2
<1>22. \A s \in SUBSET D : s # {} => s \ {Max(s)} \in SUBSET D /\ Cardinality(s \ {Max(s)}) = Cardinality(s) - 1
  <2> HIDE DEF D, N
  <2> QED BY <1>2
<1>3. ASSUME NEW m \in Nat, Good(m)
      PROVE  Good(m + 1)
  <2>1. PICK f : f = [s \in Below(m) |-> Next_(f, s)]
    BY <1>3
  <2> DEFINE g == [s \in Below(m + 1) |-> Next_(f, s)]
  <2> HIDE DEF Next_
  <2>2. ASSUME NEW s \in Below(m)
        PROVE  s \in Below(m + 1) /\ g[s] = f[s]
    <3>1. s \in Below(m + 1)
      <4>1. s \in SUBSET D /\ Cardinality(s) < m
        OBVIOUS
      <4>2. Cardinality(s) < m + 1
        <5> HIDE DEF D, N, Below
        <5> QED BY <1>21, <4>1
      <4> QED BY <4>1, <4>2
    <3>2. f[s] = Next_(f, s)
      <4> HIDE DEF Below
      <4> QED BY <2>1
    <3> HIDE DEF Below
    <3> QED BY <3>1, <3>2
  <2>3. ASSUME NEW s \in Below(m + 1)
        PROVE  Next_(f, s) = Next_(g, s)
    <3>1. CASE s = {}
      BY <3>1 DEF Next_
    <3>2. CASE s # {}
      <4>1. s \ {Max(s)} \in Below(m)
        <5>1. s \in SUBSET D /\ Cardinality(s) < m + 1
          OBVIOUS
        <5>2. s \ {Max(s)} \in SUBSET D /\ Cardinality(s \ {Max(s)}) < m
          <6> HIDE DEF D, N, Below
          <6> QED BY <1>21, <1>22, <3>2, <5>1
        <5> QED BY <5>2
      <4> HIDE DEF Below, g
      <4>2. f[s \ {Max(s)}] = g[s \ {Max(s)}]
        BY <2>2, <4>1
      <4> QED BY <4>2 DEF Next_
    <3> QED BY <3>1, <3>2
  <2>4. g = [s \in Below(m + 1) |-> Next_(g, s)]
    <3> HIDE DEF Below
    <3> QED BY <2>3
  <2> HIDE DEF g, Below
  <2> QED BY <2>4
<1>4. Good(0)
  <2>1. Below(0) = {}
    <3>1. \A s \in SUBSET D : ~(Cardinality(s) < 0)
      <4> HIDE DEF D, N
      <4> QED BY <1>21
    <3> QED BY <3>1, Zenon
  <2> DEFINE f == [s \in {} |-> base]
  <2>2. f = [s \in {} |-> Next_(f, s)]
    OBVIOUS
  <2> HIDE DEF Below, Next_, f
  <2> QED BY <2>1, <2>2
<1>5. Bad = {}
  <2> SUFFICES ASSUME Bad # {} PROVE FALSE
    OBVIOUS
  <2>1. Bad \subseteq 0 .. N + 1
    OBVIOUS
  <2>2. PICK m \in Bad : \A k \in Bad : m <= k
    <3> HIDE DEF Bad
    <3>1. Bad \in SUBSET Nat
      BY <1>0, <2>1
    <3> QED BY <3>1, SmallestIsThere
  <2>3. ~Good(m) /\ m \in 0 .. N + 1
    <3> HIDE DEF Good
    <3> QED OBVIOUS
  <2>4. m # 0
    <3> HIDE DEF Good
    <3> QED BY <1>4, <2>3
  <2>5. m - 1 \in Nat /\ m - 1 \in 0 .. N + 1 /\ m - 1 < m /\ (m - 1) + 1 = m
    <3> HIDE DEF Good, Bad
    <3> QED BY <1>0, <2>3, <2>4
  <2>6. m - 1 \notin Bad
    <3> HIDE DEF Bad
    <3> QED BY <1>0, <2>2, <2>3, <2>5
  <2>7. Good(m - 1)
    <3> HIDE DEF Good
    <3> QED BY <2>5, <2>6
  <2> HIDE DEF Good, Bad
  <2> QED BY <1>3, <2>3, <2>5, <2>7
<1>6. Good(N + 1)
  <2>1. N + 1 \in 0 .. N + 1
    BY <1>0
  <2> HIDE DEF Good
  <2> QED BY <1>5, <2>1
<1>7. Below(N + 1) = SUBSET D
  <2>1. \A s \in SUBSET D : Cardinality(s) < N + 1
    <3> HIDE DEF D
    <3>1. N \in Nat
      BY <1>0
    <3> HIDE DEF N
    <3> QED BY <1>21, <3>1
  <2> QED BY <2>1, Zenon
<1>8. PICK f : f = [s \in SUBSET D |-> Next_(f, s)]
  <2> HIDE DEF Below, Next_
  <2> QED BY <1>6, <1>7
<1> QED BY <1>8 DEF AreSteps

\* Folds of these steps.
JoinAll(db, base, ps) == FoldLeft(LAMBDA joins, p : Join(db, joins, p), base, ps)
AliasesAfter(aliases, ts) == FoldLeft(LAMBDA sofar, t : OutputAliases(t, sofar), aliases, ts)
ListedAfter(p, fallback, r, steps) == FoldLeft(LAMBDA x, step : ListingStep(p, fallback, x, step), r, steps)
FoldOf(kind, given, base, ps) ==
    IF kind = "join" THEN JoinAll(given, base, ps)
    ELSE IF kind = "apply" THEN ApplyAll(base, ps)
    ELSE IF kind = "aliases" THEN AliasesAfter(base, ps)
    ELSE ListedAfter(given[1], given[2], base, ps)

\* A fold takes the steps one after the other.
LEMMA FoldsGoStepByStep ==
    ASSUME NEW kind, NEW db, NEW base, NEW P, NEW ps \in Seq(P)
    PROVE  \E g : /\ g[0] = base
                  /\ \A k \in 1 .. Len(ps) : g[k] = StepOf(kind, db, g[k - 1], ps[k])
                  /\ FoldOf(kind, db, base, ps) = g[Len(ps)]
<1> DEFINE f == CHOOSE f : AreSteps(kind, db, base, ps, f)
           N == Len(ps)
           g == [k \in 0 .. N |-> f[1 .. k]]
<1>0. DOMAIN ps = 1 .. N /\ N \in Nat /\ \A i \in 1 .. N : ps[i] \in P
  BY ListsHaveElements
<1>1. FoldOf(kind, db, base, ps) = f[1 .. N]
  <2>1. FoldOf(kind, db, base, ps) = f[DOMAIN ps]
    <3>1. CASE kind = "join"
      BY <3>1 DEF FoldOf, JoinAll, FoldLeft, MapThenFoldSet, AreSteps, StepOf
    <3>2. CASE kind = "apply"
      <4> DEFINE h == CHOOSE e : e = [s \in SUBSET DOMAIN ps |-> IF s = {} THEN base ELSE Apply(e[s \ {Max(s)}], ps[Max(s)])]
      <4>1. ApplyAll(base, ps) = h[DOMAIN ps]
        BY DEF ApplyAll, FoldLeft, MapThenFoldSet
      <4>2. f = h
        BY <3>2 DEF AreSteps, StepOf
      <4> HIDE DEF f, h
      <4> QED BY <3>2, <4>1, <4>2 DEF FoldOf
    <3>3. CASE kind = "aliases"
      <4> DEFINE h == CHOOSE e : e = [s \in SUBSET DOMAIN ps |-> IF s = {} THEN base ELSE OutputAliases(ps[Max(s)], e[s \ {Max(s)}])]
      <4>1. AliasesAfter(base, ps) = h[DOMAIN ps]
        BY DEF AliasesAfter, FoldLeft, MapThenFoldSet
      <4>2. f = h
        BY <3>3 DEF AreSteps, StepOf
      <4> HIDE DEF f, h
      <4> QED BY <3>3, <4>1, <4>2 DEF FoldOf
    <3>4. CASE kind \notin {"join", "apply", "aliases"}
      <4> DEFINE h == CHOOSE e : e = [s \in SUBSET DOMAIN ps |-> IF s = {} THEN base ELSE ListingStep(db[1], db[2], e[s \ {Max(s)}], ps[Max(s)])]
      <4>1. ListedAfter(db[1], db[2], base, ps) = h[DOMAIN ps]
        BY DEF ListedAfter, FoldLeft, MapThenFoldSet
      <4>2. f = h
        BY <3>4 DEF AreSteps, StepOf
      <4> HIDE DEF f, h
      <4> QED BY <3>4, <4>1, <4>2 DEF FoldOf
    <3> QED BY <3>1, <3>2, <3>3, <3>4
  <2> HIDE DEF f
  <2> QED BY <1>0, <2>1
<1>2. AreSteps(kind, db, base, ps, f)
  BY StepsAreThere
<1> HIDE DEF f
<1>3. \A s \in SUBSET (1 .. N) : f[s] = IF s = {} THEN base ELSE StepOf(kind, db, f[s \ {Max(s)}], ps[Max(s)])
  <2>1. f = [s \in SUBSET DOMAIN ps |-> IF s = {} THEN base ELSE StepOf(kind, db, f[s \ {Max(s)}], ps[Max(s)])]
    BY <1>2 DEF AreSteps
  <2>2. ASSUME NEW s \in SUBSET DOMAIN ps
        PROVE  f[s] = IF s = {} THEN base ELSE StepOf(kind, db, f[s \ {Max(s)}], ps[Max(s)])
    BY <2>1
  <2> QED BY <1>0, <2>2, Zenon
<1>4. g[0] = base
  <2>1. 1 .. 0 = {} /\ 0 \in 0 .. N
    BY <1>0
  <2>2. f[{}] = base
    BY <1>3
  <2> QED BY <2>1, <2>2
<1>5. ASSUME NEW k \in 1 .. N
      PROVE  g[k] = StepOf(kind, db, g[k - 1], ps[k])
  <2>0. N \in Nat /\ k \in 1 .. N
    BY <1>0
  <2>1. 1 .. k \in SUBSET (0 .. N) /\ k \in 1 .. k /\ 1 .. k # {} /\ 1 .. k \in SUBSET (1 .. N)
    <3> HIDE DEF N, g
    <3>1. k \in Nat /\ 1 <= k /\ k <= N
      BY <2>0
    <3> QED BY <2>0, <3>1
  <2>2. Max(1 .. k) = k
    <3>1. Max(1 .. k) \in 1 .. k /\ k <= Max(1 .. k)
      BY <1>0, <2>1, LargestIsThere
    <3> QED BY <1>0, <3>1
  <2>3. (1 .. k) \ {k} = 1 .. (k - 1)
    BY <1>0
  <2>4. f[1 .. k] = StepOf(kind, db, f[1 .. (k - 1)], ps[k])
    BY <1>3, <2>1, <2>2, <2>3
  <2>5. k \in 0 .. N /\ k - 1 \in 0 .. N
    BY <1>0
  <2> QED BY <2>4, <2>5
<1>6. g[N] = f[1 .. N]
  <2>1. N \in 0 .. N
    BY <1>0
  <2> QED BY <2>1
<1> HIDE DEF g
<1> QED BY <1>1, <1>4, <1>5, <1>6

\* What the first steps keep, all do.
LEMMA StepsKeep ==
    ASSUME NEW N \in Nat, NEW Good, 0 \in Good, \A k \in 1 .. N : k - 1 \in Good => k \in Good
    PROVE  N \in Good
<1> DEFINE Bad == {k \in 0 .. N : k \notin Good}
<1>1. Bad = {}
  <2> SUFFICES ASSUME Bad # {} PROVE FALSE
    OBVIOUS
  <2>1. Bad \in SUBSET Nat
    OBVIOUS
  <2>2. PICK m \in Bad : \A k \in Bad : m <= k
    <3> HIDE DEF Bad
    <3> QED BY <2>1, SmallestIsThere
  <2>3. m \in 1 .. N /\ m - 1 \in 0 .. N /\ m - 1 < m /\ m \in Nat
    OBVIOUS
  <2>4. m - 1 \notin Bad
    <3> HIDE DEF Bad
    <3> QED BY <2>2, <2>3
  <2> QED BY <2>3, <2>4
<1> QED BY <1>1

\* Joins give a list of rows; along references to unique columns they keep the number.
LEMMA JoinsKeepLength ==
    ASSUME NEW db, NEW J, NEW base \in Seq(J), NEW P, NEW ps \in Seq(P),
           \A p \in P : \E X : db[TableOf(Last(p)[2])] \in Seq(X)
    PROVE  /\ (\A p \in P : IsUnique(db[TableOf(Last(p)[2])], {Last(p)[2]})) => Len(JoinAll(db, base, ps)) = Len(base)
           /\ \E K : JoinAll(db, base, ps) \in Seq(K)
<1> DEFINE N == Len(ps)
           Unique == \A p \in P : IsUnique(db[TableOf(Last(p)[2])], {Last(p)[2]})
<1>0. N \in Nat /\ \A i \in 1 .. N : ps[i] \in P
  BY ListsHaveElements
<1>1. PICK g : /\ g[0] = base
               /\ \A k \in 1 .. N : g[k] = StepOf("join", db, g[k - 1], ps[k])
               /\ FoldOf("join", db, base, ps) = g[N]
  BY FoldsGoStepByStep
<1> DEFINE Good == {k \in 0 .. N : (Unique => Len(g[k]) = Len(base)) /\ \E K : g[k] \in Seq(K)}
<1> HIDE DEF Unique
<1>2. 0 \in Good
  BY <1>0, <1>1
<1>3. ASSUME NEW k \in 1 .. N, k - 1 \in Good
      PROVE  k \in Good
  <2>1. Unique => Len(g[k - 1]) = Len(base)
    BY <1>3
  <2>2. PICK K : g[k - 1] \in Seq(K)
    BY <1>3
  <2>3. g[k] = Join(db, g[k - 1], ps[k])
    BY <1>1 DEF StepOf
  <2>4. PICK X : db[TableOf(Last(ps[k])[2])] \in Seq(X)
    BY <1>0
  <2>5. Unique => IsUnique(db[TableOf(Last(ps[k])[2])], {Last(ps[k])[2]})
    BY <1>0 DEF Unique
  <2>6. (Unique => Len(Join(db, g[k - 1], ps[k])) = Len(g[k - 1])) /\ \E L : Join(db, g[k - 1], ps[k]) \in Seq(L)
    <3>1. /\ IsUnique(db[TableOf(Last(ps[k])[2])], {Last(ps[k])[2]}) => Len(Join(db, g[k - 1], ps[k])) = Len(g[k - 1])
          /\ \E L : Join(db, g[k - 1], ps[k]) \in Seq(L)
      BY <2>2, <2>4, JoinKeepsLength
    <3> QED BY <2>5, <3>1
  <2>7. k \in 0 .. N
    BY <1>0
  <2> QED BY <2>1, <2>3, <2>6, <2>7
<1>4. N \in Good
  <2> HIDE DEF Good, N
  <2> QED BY <1>0, <1>2, <1>3, StepsKeep
<1> QED BY <1>1, <1>4 DEF FoldOf, Unique

\* A query that can be asked: columns and paths are lists, and its base table is there.
IsQuery(db, q) ==
    /\ DOMAIN q = {"base", "initial", "transformations"}
    /\ q.base \in DOMAIN db
    /\ q.initial \in Seq(ToSet(q.initial))
    /\ \A c \in ToSet(q.initial) : c.path \in Seq(ToSet(c.path))
    /\ q.transformations \in Seq(ToSet(q.transformations))
    /\ \A t \in ToSet(q.transformations) : IsTransformation(t)
\* Tables whose constraints hold.
IsDatabase(db, left) ==
    /\ left \subseteq Columns
    /\ {TableOf(c) : c \in Columns} \subseteq DOMAIN db
    /\ \A t \in DOMAIN db : db[t] \in Seq(ToSet(db[t]))
    /\ ConstraintsHold(db, left)

\* The joins made are those of the columns' paths.
Steps(q) == UNION {ToSet(q.initial[i].path) : i \in DOMAIN q.initial}
LEMMA JoinPathsAreAList ==
    ASSUME NEW db, NEW q, IsQuery(db, q)
    PROVE  JoinPaths(q) \in Seq({p \in Seq(Steps(q)) : p # <<>> /\ Last(p) \in Steps(q)})
<1> DEFINE X == {p \in Seq(Steps(q)) : p # <<>> /\ Last(p) \in Steps(q)}
           each == [i \in DOMAIN q.initial |-> Subpaths(q.initial[i].path)]
           all == FlattenSeq(each)
           at == {i \in DOMAIN all : \A j \in 1..(i - 1) : all[j] # all[i]}
           N == Len(q.initial)
<1>1. JoinPaths(q) = At(all, at)
  BY DEF JoinPaths, Each
<1>2. DOMAIN q.initial = 1 .. N /\ N \in Nat
  BY ListsHaveElements DEF IsQuery
<1>3. ASSUME NEW i \in DOMAIN q.initial
      PROVE  Subpaths(q.initial[i].path) \in Seq(X)
  <2> DEFINE path == q.initial[i].path
             S == Steps(q)
  <2>1. path \in Seq(ToSet(path)) /\ ToSet(path) \subseteq S
    BY DEF IsQuery, ToSet, Steps
  <2> HIDE DEF path, S
  <2>2. path \in Seq(S)
    BY <2>1
  <2>3. DOMAIN path = 1 .. Len(path) /\ Len(path) \in Nat /\ \A n \in 1 .. Len(path) : path[n] \in S
    BY <2>2, ListsHaveElements
  <2>4. ASSUME NEW n \in 1 .. Len(path)
        PROVE  SubSeq(path, 1, n) \in Seq(S) /\ SubSeq(path, 1, n) # <<>> /\ Last(SubSeq(path, 1, n)) \in S
    <3>1. SubSeq(path, 1, n) \in Seq(S) /\ Len(SubSeq(path, 1, n)) = n /\ SubSeq(path, 1, n)[n] = path[n]
      BY <2>2, <2>3
    <3> QED BY <2>3, <3>1 DEF Last
  <2>5. [n \in DOMAIN path |-> SubSeq(path, 1, n)] \in [1 .. Len(path) -> X]
    BY <2>3, <2>4 DEF S
  <2> HIDE DEF X
  <2>6. [n \in DOMAIN path |-> SubSeq(path, 1, n)] \in Seq(X)
    BY <2>3, <2>5, ElementsMakeAList
  <2> QED BY <2>6 DEF Subpaths, path
<1> HIDE DEF X
<1>4. each \in [1 .. N -> Seq(X)]
  BY <1>2, <1>3
<1>5. each \in Seq(Seq(X))
  <2> HIDE DEF each
  <2> QED BY <1>2, <1>4, ElementsMakeAList
<1>6. all \in Seq(X)
  <2> HIDE DEF each
  <2> QED BY <1>5, FlattenIsAList
<1>7. at \in SUBSET DOMAIN all
  OBVIOUS
<1>8. At(all, at) \in Seq(X)
  <2> HIDE DEF all, at
  <2> QED BY <1>6, <1>7, AtIsAList
<1> QED BY <1>1, <1>8 DEF X

\* Joins give a list of rows; from the referring to the referred rows they keep those of
\* the base table.
LEMMA JoinedKeepsLength ==
    ASSUME NEW db, NEW left, NEW q, IsDatabase(db, left), IsQuery(db, q),
           Uses(q) \subseteq left
    PROVE  (ForwardOnly(q) => Len(Joined(db, q)) = Len(db[q.base])) /\ \E K : Joined(db, q) \in Seq(K)
<1> DEFINE S == Steps(q)
           P == {p \in Seq(S) : p # <<>> /\ Last(p) \in S}
           rows == db[q.base]
           base == [i \in DOMAIN rows |-> Single(<<>>, rows[i])]
           J == {Single(<<>>, row) : row \in ToSet(rows)}
<1>1. Joined(db, q) = JoinAll(db, base, JoinPaths(q))
  BY DEF Joined, Each, JoinAll
<1>2. JoinPaths(q) \in Seq(P)
  BY JoinPathsAreAList
<1>3. base \in Seq(J) /\ Len(base) = Len(rows)
  <2>1. rows \in Seq(ToSet(rows))
    BY DEF IsDatabase, IsQuery
  <2> HIDE DEF rows
  <2>2. DOMAIN rows = 1 .. Len(rows) /\ Len(rows) \in Nat /\ \A i \in 1 .. Len(rows) : rows[i] \in ToSet(rows)
    BY <2>1, ListsHaveElements
  <2>3. base \in [1 .. Len(rows) -> J]
    BY <2>2
  <2> HIDE DEF base, J
  <2> QED BY <2>2, <2>3, ElementsMakeAList
<1>4. ASSUME NEW p \in P
      PROVE  /\ \E X : db[TableOf(Last(p)[2])] \in Seq(X)
             /\ ForwardOnly(q) => IsUnique(db[TableOf(Last(p)[2])], {Last(p)[2]})
  <2> DEFINE c == Last(p)[2]
  <2>1. c \in left
    BY DEF Uses, Steps
  <2>2. ForwardOnly(q) => {c} \in Constraints
    <3>1. ForwardOnly(q) => Last(p) \in ForeignKeys
      BY DEF ForwardOnly, Steps
    <3> QED BY <3>1, ContentsAssumption
  <2>3. TableOf(c) \in DOMAIN db
    <3> HIDE DEF c
    <3> QED BY <2>1 DEF IsDatabase
  <2> HIDE DEF c
  <2>4. ForwardOnly(q) => IsUnique(db[TableOf(c)], {c})
    BY <2>1, <2>2, <2>3 DEF IsDatabase, ConstraintsHold
  <2>5. db[TableOf(c)] \in Seq(ToSet(db[TableOf(c)]))
    BY <2>3 DEF IsDatabase
  <2> QED BY <2>4, <2>5 DEF c
<1> HIDE DEF P, base, J, rows
<1>5. (ForwardOnly(q) => Len(JoinAll(db, base, JoinPaths(q))) = Len(base)) /\ \E K : JoinAll(db, base, JoinPaths(q)) \in Seq(K)
  <2>1. \A p \in P : \E X : db[TableOf(Last(p)[2])] \in Seq(X)
    BY <1>4
  <2>2. ForwardOnly(q) => \A p \in P : IsUnique(db[TableOf(Last(p)[2])], {Last(p)[2]})
    BY <1>4
  <2>3. /\ (\A p \in P : IsUnique(db[TableOf(Last(p)[2])], {Last(p)[2]})) => Len(JoinAll(db, base, JoinPaths(q))) = Len(base)
        /\ \E K : JoinAll(db, base, JoinPaths(q)) \in Seq(K)
    BY <1>2, <1>3, <2>1, JoinsKeepLength
  <2> QED BY <2>2, <2>3
<1> QED BY <1>1, <1>3, <1>5 DEF rows

\* No transformations leave a relation as it is.
LEMMA NothingApplied ==
    ASSUME NEW db, NEW left, NEW q
    PROVE  Transformed(db, left, q, <<>>) = InitialRelation(db, left, q)
<1> DEFINE r == InitialRelation(db, left, q)
           Fold(f) == f = [s \in SUBSET DOMAIN <<>> |-> IF s = {} THEN r ELSE Apply(f[s \ {Max(s)}], <<>>[Max(s)])]
<1>1. Transformed(db, left, q, <<>>) = (CHOOSE f : Fold(f))[DOMAIN <<>>]
  BY DEF Transformed, ApplyAll, FoldLeft, MapThenFoldSet
<1>2. SUBSET DOMAIN <<>> = {{}} /\ DOMAIN <<>> = {}
  OBVIOUS
<1> HIDE DEF r
<1>3. Fold([s \in {{}} |-> r])
  BY <1>2
<1>4. Fold(CHOOSE f : Fold(f))
  <2> HIDE DEF Fold
  <2> QED BY <1>3
<1>5. (CHOOSE f : Fold(f))[{}] = r
  <2> DEFINE g == CHOOSE f : Fold(f)
  <2>1. g = [s \in SUBSET DOMAIN <<>> |-> IF s = {} THEN r ELSE Apply(g[s \ {Max(s)}], <<>>[Max(s)])]
    BY <1>4
  <2> HIDE DEF g
  <2> QED BY <1>2, <2>1 DEF g
<1> HIDE DEF Fold
<1> QED BY <1>1, <1>2, <1>5 DEF r

\* So does the initial relation, unless the database refuses it.
LEMMA InitialRelationKeepsLength ==
    ASSUME NEW db, NEW left, NEW q, IsDatabase(db, left), IsQuery(db, q), ForwardOnly(q),
           Transformed(db, left, q, <<>>) # Broken
    PROVE  Len(Transformed(db, left, q, <<>>).rows) = Len(db[q.base])
<1> DEFINE r == InitialRelation(db, left, q)
<1>1. Transformed(db, left, q, <<>>) = r
  BY NothingApplied
<1>2. Uses(q) \subseteq left /\ Len(r.rows) = Len(Joined(db, q))
  <2>1. Uses(q) \subseteq left
    BY <1>1 DEF InitialRelation
  <2> DEFINE Value(joined, c) == IF joined[c.path] = None THEN None ELSE joined[c.path][c.column[2]]
             ColumnOf(alias) == q.initial[CHOOSE i \in DOMAIN q.initial : q.initial[i].alias = alias]
             Line(joined) == Row([alias \in ToSet(Aliases(q)) |-> Value(joined, ColumnOf(alias))])
  <2>2. r.rows = [i \in DOMAIN Joined(db, q) |-> Line(Joined(db, q)[i])]
    BY <2>1 DEF InitialRelation, Relation, Each
  <2> HIDE DEF Line, r
  <2>3. PICK K : Joined(db, q) \in Seq(K)
    BY <2>1, JoinedKeepsLength
  <2>4. r.rows \in [1 .. Len(Joined(db, q)) -> {Line(Joined(db, q)[i]) : i \in 1 .. Len(Joined(db, q))}] /\ Len(Joined(db, q)) \in Nat
    BY <2>2, <2>3, ListsHaveElements
  <2> QED BY <2>1, <2>4, ElementsMakeAList
<1> QED BY <1>1, <1>2, JoinedKeepsLength

-----------------------------------------------------------------------------
\* Previews.

LEMMA ColumnsAreFinite == IsFiniteSet(Columns) /\ IsFiniteSet(ForeignKeys)
<1>1. IsFiniteSet(Columns) /\ ForeignKeys \subseteq Columns \X Columns
  BY PreviewsAssumption
<1>2. IsFiniteSet(Columns \X Columns)
  BY <1>1, FS_Product
<1> QED BY <1>1, <1>2, FS_Subset

LEMMA ColumnsOfIsAList ==
    ASSUME NEW left \in SUBSET Columns, NEW t
    PROVE  ColumnsOf(left, t) \in Seq(Columns)
<1> DEFINE of == {c \in left : TableOf(c) = t}
           number == [c \in of |-> c[2]]
<1>1. IsFiniteSet(of) /\ of \subseteq Columns
  BY ColumnsAreFinite, FS_Subset
<1>2. number \in [of -> Int] /\ \A x, y \in of : number[x] = number[y] => x = y
  <2>1. \A c \in of : c = <<c[1], c[2]>> /\ c[2] \in Int /\ c[1] = t
    BY PreviewsAssumption DEF TableOf
  <2> HIDE DEF of
  <2>2. number \in [of -> Int]
    BY <2>1
  <2>3. ASSUME NEW x \in of, NEW y \in of, number[x] = number[y] PROVE x = y
    <3>1. x[2] = y[2]
      BY <2>3
    <3>2. x = <<t, x[2]>> /\ y = <<t, y[2]>>
      BY <2>1
    <3> HIDE DEF number
    <3> QED BY <3>1, <3>2
  <2> HIDE DEF number
  <2> QED BY <2>2, <2>3
<1>3. ColumnsOf(left, t) = Sorted(of, number)
  BY DEF ColumnsOf
<1> HIDE DEF of, number
<1>4. Sorted(of, number) \in Seq(of)
  BY <1>1, <1>2, SortedIsAList
<1> QED BY <1>1, <1>3, <1>4, SeqMonotonic

LEMMA TemplateIsAList ==
    ASSUME NEW left \in SUBSET Columns, NEW t
    PROVE  Template(left, t) \in Seq(Columns)
<1>1. CASE t \in DOMAIN Templates
  BY <1>1, PreviewsAssumption DEF Template
<1>2. CASE t \notin DOMAIN Templates
  <2> DEFINE all == ColumnsOf(left, t)
             at == {i \in DOMAIN all : all[i] \notin PrimaryKeys}
             others == At(all, at)
  <2>1. all \in Seq(Columns) /\ at \in SUBSET DOMAIN all
    BY ColumnsOfIsAList
  <2>2. Template(left, t) = IF others # <<>> THEN <<Head(others)>> ELSE IF all # <<>> THEN <<Last(all)>> ELSE <<>>
    BY <1>2 DEF Template, compute_default_preview_template, Those
  <2> HIDE DEF all, at
  <2>3. others \in Seq(Columns)
    BY <2>1, AtIsAList
  <2> HIDE DEF others
  <2>4. CASE others # <<>>
    <3>1. Head(others) \in Columns
      BY <2>3, <2>4
    <3> QED BY <2>2, <2>4, <3>1, OneMakesAList
  <2>5. CASE others = <<>> /\ all # <<>>
    <3>1. Last(all) \in Columns
      BY <2>1, <2>5 DEF Last
    <3> QED BY <2>2, <2>5, <3>1, OneMakesAList
  <2>6. CASE others = <<>> /\ all = <<>>
    BY <2>2, <2>6, EmptySeq
  <2> QED BY <2>4, <2>5, <2>6
<1> QED BY <1>1, <1>2

\* The columns that are fetched for previews.
PreviewColumns ==
    {InitialColumn(compute_path_str(p, c), c, 0, p) : p \in Seq(ForeignKeys), c \in Columns}

\* Previews of references give a list of columns if what they refer to does.
LEMMA PreviewStepGivesAList ==
    ASSUME NEW left \in SUBSET Columns, NEW t, NEW path \in Seq(ForeignKeys), NEW referents,
           DOMAIN referents = Followed(left, t, path),
           \A k \in DOMAIN referents : referents[k].columns \in Seq(PreviewColumns)
    PROVE  _preview_info_by_column_id(left, path, referents).columns \in Seq(PreviewColumns)
<1> DEFINE keys == DOMAIN referents
           of == [k \in keys |-> PreviewOf(Template(left, TableOf(k[2])), referents[k], Append(path, k))]
           s == SetToSeq(keys)
           each == [i \in DOMAIN s |-> of[s[i]].columns]
<1>1. _preview_info_by_column_id(left, path, referents).columns = FlattenSeq(each)
  BY DEF _preview_info_by_column_id, Each
<1>2. IsFiniteSet(keys) /\ keys \subseteq ForeignKeys
  BY ColumnsAreFinite, FS_Subset DEF Followed
<1>3. ASSUME NEW k \in keys
      PROVE  of[k].columns \in Seq(PreviewColumns)
  <2> DEFINE template == Template(left, TableOf(k[2]))
             at == {i \in DOMAIN template : template[i] \notin DOMAIN referents[k].info}
             own == At(template, at)
             there == Append(path, k)
             fetched == [i \in DOMAIN own |-> InitialColumn(compute_path_str(there, own[i]), own[i], 0, there)]
  <2>1. of[k].columns = referents[k].columns \o fetched
    BY DEF PreviewOf, Those, Each
  <2>2. template \in Seq(Columns) /\ at \in SUBSET DOMAIN template
    BY TemplateIsAList
  <2>3. there \in Seq(ForeignKeys)
    BY <1>2
  <2>4. own \in Seq(Columns)
    <3> HIDE DEF template, at
    <3> QED BY <2>2, AtIsAList
  <2> HIDE DEF own, there, of
  <2>5. DOMAIN own = 1 .. Len(own) /\ Len(own) \in Nat /\ \A i \in DOMAIN own : own[i] \in Columns
    BY <2>4, ListsHaveElements
  <2>6. fetched \in [1 .. Len(own) -> PreviewColumns]
    BY <2>3, <2>5 DEF PreviewColumns
  <2>7. fetched \in Seq(PreviewColumns)
    <3> HIDE DEF fetched
    <3> QED BY <2>5, <2>6, ElementsMakeAList
  <2> HIDE DEF fetched
  <2> QED BY <2>1, <2>7, ConcatProperties
<1>4. s \in Seq(keys)
  BY <1>2, SetToSeqIsAList
<1> HIDE DEF s, of, keys
<1>5. DOMAIN s = 1 .. Len(s) /\ Len(s) \in Nat /\ \A i \in DOMAIN s : s[i] \in keys
  BY <1>4, ListsHaveElements
<1>6. each \in [1 .. Len(s) -> Seq(PreviewColumns)]
  BY <1>3, <1>5
<1>7. each \in Seq(Seq(PreviewColumns))
  <2> HIDE DEF each
  <2> QED BY <1>5, <1>6, ElementsMakeAList
<1> HIDE DEF each
<1> QED BY <1>1, <1>7, FlattenIsAList

\* What get_preview_info asks of the function it defines.
ArePreviews(left, t, f) ==
    f = [path \in Seq(ForeignKeys) |->
            _preview_info_by_column_id(left, path, [k \in Followed(left, t, path) |-> f[Append(path, k)]])]

\* There is one: no foreign key is followed twice on a path.
LEMMA PreviewsAreThere ==
    ASSUME NEW left, NEW t
    PROVE  ArePreviews(left, t, get_preview_info(left, t))
<1> DEFINE N == Cardinality(ForeignKeys)
           Left(path) == Cardinality(ForeignKeys \ ToSet(path))
           Next_(f, path) == _preview_info_by_column_id(left, path, [k \in Followed(left, t, path) |-> f[Append(path, k)]])
           Below(m) == {path \in Seq(ForeignKeys) : Left(path) < m}
           Good(m) == \E f : f = [path \in Below(m) |-> Next_(f, path)]
           Bad == {m \in 0 .. N + 1 : ~Good(m)}
<1>0. N \in Nat
  BY ColumnsAreFinite, FS_CardinalityType
<1>1. ASSUME NEW path \in Seq(ForeignKeys)
      PROVE  /\ Left(path) \in Nat /\ Left(path) <= N
             /\ \A k \in Followed(left, t, path) :
                   Append(path, k) \in Seq(ForeignKeys) /\ Left(Append(path, k)) = Left(path) - 1
  <2> DEFINE S == ForeignKeys \ ToSet(path)
  <2>1. S \subseteq ForeignKeys
    OBVIOUS
  <2>2. IsFiniteSet(S) /\ Cardinality(S) \in Nat /\ Cardinality(S) <= N
    <3> HIDE DEF S
    <3> QED BY <2>1, ColumnsAreFinite, FS_Subset, FS_CardinalityType
  <2>3. ASSUME NEW k \in Followed(left, t, path)
        PROVE  Append(path, k) \in Seq(ForeignKeys) /\ Left(Append(path, k)) = Left(path) - 1
    <3>1. k \in ForeignKeys /\ k \notin ToSet(path)
      BY DEF Followed
    <3>2. Append(path, k) \in Seq(ForeignKeys)
      BY <3>1
    <3>3. ToSet(Append(path, k)) = ToSet(path) \cup {k}
      <4>1. DOMAIN path = 1 .. Len(path) /\ Len(path) \in Nat
        OBVIOUS
      <4>2. DOMAIN Append(path, k) = 1 .. Len(path) + 1
        BY <3>1
      <4>3. \A i \in 1 .. Len(path) + 1 : Append(path, k)[i] = IF i = Len(path) + 1 THEN k ELSE path[i]
        BY <3>1
      <4>4. Len(path) + 1 \in 1 .. Len(path) + 1 /\ \A i \in 1 .. Len(path) : i \in 1 .. Len(path) + 1 /\ i # Len(path) + 1
        BY <4>1
      <4>5. \A i \in 1 .. Len(path) + 1 : i = Len(path) + 1 \/ i \in 1 .. Len(path)
        BY <4>1
      <4> QED BY <4>1, <4>2, <4>3, <4>4, <4>5, Zenon DEF ToSet
    <3>4. ForeignKeys \ ToSet(Append(path, k)) = S \ {k} /\ k \in S
      BY <3>1, <3>3
    <3> HIDE DEF S
    <3>5. Cardinality(S \ {k}) = Cardinality(S) - 1
      BY <2>2, <3>4, FS_RemoveElement
    <3> QED BY <3>2, <3>4, <3>5 DEF S
  <2> QED BY <2>2, <2>3
<1> HIDE DEF N, Left
<1>3. ASSUME NEW m \in Nat, Good(m)
      PROVE  Good(m + 1)
  <2>1. PICK f : f = [path \in Below(m) |-> Next_(f, path)]
    BY <1>3
  <2> DEFINE g == [path \in Below(m + 1) |-> Next_(f, path)]
  <2> HIDE DEF Next_
  <2>2. ASSUME NEW path \in Below(m)
        PROVE  path \in Below(m + 1) /\ g[path] = f[path]
    <3>1. path \in Below(m + 1)
      BY <1>1
    <3>2. f[path] = Next_(f, path)
      <4> HIDE DEF Below
      <4> QED BY <2>1
    <3> HIDE DEF Below
    <3> QED BY <3>1, <3>2
  <2>3. ASSUME NEW path \in Below(m + 1)
        PROVE  Next_(f, path) = Next_(g, path)
    <3>1. \A k \in Followed(left, t, path) : Append(path, k) \in Below(m)
      BY <1>1
    <3> HIDE DEF Below, g
    <3>2. \A k \in Followed(left, t, path) : f[Append(path, k)] = g[Append(path, k)]
      BY <2>2, <3>1
    <3>3. [k \in Followed(left, t, path) |-> f[Append(path, k)]] = [k \in Followed(left, t, path) |-> g[Append(path, k)]]
      BY <3>2
    <3> QED BY <3>3 DEF Next_
  <2>4. g = [path \in Below(m + 1) |-> Next_(g, path)]
    <3> HIDE DEF Below
    <3> QED BY <2>3
  <2> HIDE DEF g, Below
  <2> QED BY <2>4
<1>4. Good(0)
  <2>1. Below(0) = {}
    BY <1>1
  <2> DEFINE f == [path \in {} |-> <<>>]
  <2>2. f = [path \in {} |-> Next_(f, path)]
    OBVIOUS
  <2> HIDE DEF Below, Next_, f
  <2> QED BY <2>1, <2>2
<1>5. Bad = {}
  <2> SUFFICES ASSUME Bad # {} PROVE FALSE
    OBVIOUS
  <2>1. Bad \subseteq 0 .. N + 1
    OBVIOUS
  <2>2. PICK m \in Bad : \A k \in Bad : m <= k
    <3> HIDE DEF Bad
    <3>1. Bad \in SUBSET Nat
      BY <1>0, <2>1
    <3> QED BY <3>1, SmallestIsThere
  <2>3. ~Good(m) /\ m \in 0 .. N + 1
    <3> HIDE DEF Good
    <3> QED OBVIOUS
  <2>4. m # 0
    <3> HIDE DEF Good
    <3> QED BY <1>4, <2>3
  <2>5. m - 1 \in Nat /\ m - 1 \in 0 .. N + 1 /\ m - 1 < m /\ (m - 1) + 1 = m
    <3> HIDE DEF Good, Bad
    <3> QED BY <1>0, <2>3, <2>4
  <2>6. m - 1 \notin Bad
    <3> HIDE DEF Bad
    <3> QED BY <1>0, <2>2, <2>3, <2>5
  <2>7. Good(m - 1)
    <3> HIDE DEF Good
    <3> QED BY <2>5, <2>6
  <2> HIDE DEF Good, Bad
  <2> QED BY <1>3, <2>3, <2>5, <2>7
<1>6. Good(N + 1)
  <2>1. N + 1 \in 0 .. N + 1
    BY <1>0
  <2> HIDE DEF Good
  <2> QED BY <1>5, <2>1
<1>7. Below(N + 1) = Seq(ForeignKeys)
  <2>1. \A path \in Seq(ForeignKeys) : Left(path) < N + 1
    BY <1>0, <1>1
  <2> QED BY <2>1, Zenon
<1>8. PICK f : f = [path \in Seq(ForeignKeys) |-> Next_(f, path)]
  <2> HIDE DEF Below, Next_
  <2> QED BY <1>6, <1>7
<1>9. ArePreviews(left, t, f)
  BY <1>8 DEF ArePreviews
<1>10. get_preview_info(left, t) = CHOOSE g : ArePreviews(left, t, g)
  BY DEF get_preview_info, ArePreviews
<1> QED BY <1>9, <1>10

\* The columns that are fetched for the records of tables.
FetchedColumns == PreviewColumns \cup {InitialColumn(Named(c), c, 0, <<>>) : c \in Columns}

\* Each has an alias of its own: that of a preview tells the path it was reached by.
LEMMA FetchedColumnsDiffer ==
    /\ \A c \in FetchedColumns : c.path \in Seq(ForeignKeys)
    /\ \A c, d \in FetchedColumns : c.alias = d.alias => c = d
<1> DEFINE Preview(c, p, x) == p \in Seq(ForeignKeys) /\ c = InitialColumn(compute_path_str(p, x), x, 0, p)
           Own(c, x) == c = InitialColumn(Named(x), x, 0, <<>>)
<1>1. <<>> \in Seq(ForeignKeys)
  BY EmptySeq
<1>2. ASSUME NEW c \in FetchedColumns
      PROVE  (\E p, x : Preview(c, p, x)) \/ \E x : Own(c, x)
  <2>1. CASE c \in PreviewColumns
    BY <2>1 DEF PreviewColumns
  <2>2. CASE c \notin PreviewColumns
    BY <2>2 DEF FetchedColumns
  <2> QED BY <2>1, <2>2
<1>3. ASSUME NEW c, NEW p, NEW x, Preview(c, p, x)
      PROVE  c.path = p /\ c.alias[1] = "preview" /\ c.alias[2] = p /\ c.alias[3] = x
  <2>1. c.path = p /\ c.alias = compute_path_str(p, x)
    BY <1>3 DEF InitialColumn
  <2>2. compute_path_str(p, x)[1] = "preview" /\ compute_path_str(p, x)[2] = p /\ compute_path_str(p, x)[3] = x
    BY DEF compute_path_str
  <2> QED BY <2>1, <2>2
<1>4. ASSUME NEW c, NEW x, Own(c, x)
      PROVE  c.path = <<>> /\ c.alias[1] = "column" /\ c.alias[2] = x
  <2>1. c.path = <<>> /\ c.alias = Named(x)
    BY <1>4 DEF InitialColumn
  <2>2. Named(x)[1] = "column" /\ Named(x)[2] = x
    BY DEF Named
  <2> QED BY <2>1, <2>2
<1>5. ASSUME NEW c \in FetchedColumns PROVE c.path \in Seq(ForeignKeys)
  <2>1. \A p, x : Preview(c, p, x) => p \in Seq(ForeignKeys)
    OBVIOUS
  <2> HIDE DEF Own, Preview
  <2>2. CASE \E p, x : Preview(c, p, x)
    <3>1. PICK p, x : Preview(c, p, x)
      BY <2>2
    <3>2. c.path = p
      BY <1>3, <3>1
    <3> QED BY <2>1, <3>1, <3>2
  <2>3. CASE \E x : Own(c, x)
    <3>1. PICK x : Own(c, x)
      BY <2>3
    <3>2. c.path = <<>>
      BY <1>4, <3>1
    <3> QED BY <1>1, <3>2
  <2> QED BY <1>2, <2>2, <2>3
<1>6. ASSUME NEW c \in FetchedColumns, NEW d \in FetchedColumns, c.alias = d.alias PROVE c = d
  <2>1. ASSUME NEW p, NEW x, Preview(c, p, x) PROVE c = d
    <3>1. c.alias[1] = "preview" /\ c.alias[2] = p /\ c.alias[3] = x
      BY <1>3, <2>1
    <3>2. \A y : ~Own(d, y)
      <4> HIDE DEF Own
      <4> QED BY <1>4, <1>6, <3>1
    <3>3. PICK q, y : Preview(d, q, y)
      <4> HIDE DEF Own, Preview
      <4> QED BY <1>2, <3>2
    <3>4. q = p /\ y = x
      BY <1>3, <1>6, <3>1, <3>3
    <3> QED BY <2>1, <3>3, <3>4
  <2>2. ASSUME NEW x, Own(c, x) PROVE c = d
    <3>1. c.alias[1] = "column" /\ c.alias[2] = x
      BY <1>4, <2>2
    <3>2. \A q, y : ~Preview(d, q, y)
      <4> HIDE DEF Preview
      <4> QED BY <1>3, <1>6, <3>1
    <3>3. PICK y : Own(d, y)
      <4> HIDE DEF Own, Preview
      <4> QED BY <1>2, <3>2
    <3>4. y = x
      BY <1>4, <1>6, <3>1, <3>3
    <3> QED BY <2>2, <3>3, <3>4
  <2> HIDE DEF Own, Preview
  <2> QED BY <1>2, <2>1, <2>2
<1> QED BY <1>5, <1>6

\* The columns fetched for the records of a table are a list, and their paths are too.
LEMMA ColumnsToFetchAreAList ==
    ASSUME NEW left \in SUBSET Columns, NEW t
    PROVE  /\ ColumnsToFetch(left, t) \in Seq(ToSet(ColumnsToFetch(left, t)))
           /\ ToSet(ColumnsToFetch(left, t)) \subseteq FetchedColumns
           /\ \A c \in ToSet(ColumnsToFetch(left, t)) : c.path \in Seq(ToSet(c.path))
<1> DEFINE f == get_preview_info(left, t)
           N == Cardinality(ForeignKeys)
           Left(path) == Cardinality(ForeignKeys \ ToSet(path))
           Bad == {path \in Seq(ForeignKeys) : f[path].columns \notin Seq(PreviewColumns)}
           lefts == {Left(path) : path \in Bad}
<1>1. ASSUME NEW path \in Seq(ForeignKeys)
      PROVE  f[path] = _preview_info_by_column_id(left, path, [k \in Followed(left, t, path) |-> f[Append(path, k)]])
  <2>1. ArePreviews(left, t, f)
    BY PreviewsAreThere
  <2> HIDE DEF f
  <2> QED BY <2>1 DEF ArePreviews
<1> HIDE DEF f
<1>2. ASSUME NEW path \in Seq(ForeignKeys)
      PROVE  Left(path) \in Nat
  <2>1. IsFiniteSet(ForeignKeys \ ToSet(path))
    BY ColumnsAreFinite, FS_Subset
  <2> QED BY <2>1, FS_CardinalityType
<1>3. ASSUME NEW path \in Seq(ForeignKeys), NEW k \in Followed(left, t, path)
      PROVE  Append(path, k) \in Seq(ForeignKeys) /\ Left(Append(path, k)) < Left(path)
  <2>1. k \in ForeignKeys /\ k \notin ToSet(path)
    BY DEF Followed
  <2>2. Append(path, k) \in Seq(ForeignKeys)
    BY <2>1
  <2>3. k \in ToSet(Append(path, k)) /\ ToSet(path) \subseteq ToSet(Append(path, k))
    <3>1. DOMAIN path = 1 .. Len(path) /\ Len(path) \in Nat /\ DOMAIN Append(path, k) = 1 .. Len(path) + 1
      BY <2>1
    <3>2. Append(path, k)[Len(path) + 1] = k /\ \A i \in 1 .. Len(path) : Append(path, k)[i] = path[i]
      BY <2>1
    <3>3. Len(path) + 1 \in DOMAIN Append(path, k) /\ \A i \in DOMAIN path : i \in DOMAIN Append(path, k)
      BY <3>1
    <3> QED BY <3>1, <3>2, <3>3, Zenon DEF ToSet
  <2> DEFINE S == ForeignKeys \ ToSet(path)
             T == ForeignKeys \ ToSet(Append(path, k))
  <2>4. T \subseteq S \ {k} /\ k \in S /\ IsFiniteSet(S)
    BY <2>1, <2>3, ColumnsAreFinite, FS_Subset
  <2>5. Left(path) = Cardinality(S) /\ Left(Append(path, k)) = Cardinality(T)
    OBVIOUS
  <2> HIDE DEF S, T, Left
  <2>6. Cardinality(S \ {k}) = Cardinality(S) - 1 /\ IsFiniteSet(S \ {k}) /\ Cardinality(S) \in Nat
    BY <2>4, FS_RemoveElement, FS_CardinalityType
  <2>7. Cardinality(T) <= Cardinality(S \ {k}) /\ Cardinality(T) \in Nat
    BY <2>4, <2>6, FS_Subset, FS_CardinalityType
  <2> QED BY <2>2, <2>5, <2>6, <2>7
<1> HIDE DEF Left
<1>4. ASSUME Bad # {} PROVE FALSE
  <2>1. lefts # {} /\ lefts \in SUBSET Nat
    BY <1>2, <1>4
  <2>2. PICK m \in lefts : \A n \in lefts : m <= n
    <3> HIDE DEF lefts
    <3> QED BY <2>1, SmallestIsThere
  <2>3. PICK path \in Bad : m = Left(path)
    OBVIOUS
  <2> DEFINE referents == [k \in Followed(left, t, path) |-> f[Append(path, k)]]
  <2>4. path \in Seq(ForeignKeys) /\ f[path].columns \notin Seq(PreviewColumns)
    OBVIOUS
  <2>5. ASSUME NEW k \in Followed(left, t, path)
        PROVE  referents[k].columns \in Seq(PreviewColumns)
    <3>1. Append(path, k) \in Seq(ForeignKeys) /\ Left(Append(path, k)) < Left(path)
      BY <1>3, <2>4
    <3>2. Append(path, k) \notin Bad
      <4> SUFFICES ASSUME Append(path, k) \in Bad PROVE FALSE
        OBVIOUS
      <4>1. Left(Append(path, k)) \in lefts
        OBVIOUS
      <4>2. Left(path) <= Left(Append(path, k)) /\ Left(path) \in Nat /\ Left(Append(path, k)) \in Nat
        <5> HIDE DEF lefts, Bad
        <5> QED BY <1>2, <2>2, <2>3, <2>4, <3>1, <4>1
      <4> QED BY <3>1, <4>2
    <3> QED BY <3>1, <3>2
  <2>6. DOMAIN referents = Followed(left, t, path)
    OBVIOUS
  <2>7. f[path] = _preview_info_by_column_id(left, path, referents)
    BY <1>1, <2>4
  <2> HIDE DEF referents, Bad
  <2> QED BY <2>4, <2>5, <2>6, <2>7, PreviewStepGivesAList
<1>5. f[<<>>].columns \in Seq(PreviewColumns)
  <2>1. <<>> \in Seq(ForeignKeys)
    BY EmptySeq
  <2> QED BY <1>4, <2>1
<1> DEFINE own == ColumnsOf(left, t)
           fetched == [i \in DOMAIN own |-> InitialColumn(Named(own[i]), own[i], 0, <<>>)]
<1>6. ColumnsToFetch(left, t) = fetched \o f[<<>>].columns
  BY DEF ColumnsToFetch, TablePreviews, Each, f
<1>7. fetched \in Seq(FetchedColumns)
  <2>1. own \in Seq(Columns)
    BY ColumnsOfIsAList
  <2> HIDE DEF own
  <2>2. DOMAIN own = 1 .. Len(own) /\ Len(own) \in Nat /\ \A i \in DOMAIN own : own[i] \in Columns
    BY <2>1, ListsHaveElements
  <2>3. fetched \in [1 .. Len(own) -> FetchedColumns]
    BY <2>2 DEF FetchedColumns
  <2> HIDE DEF fetched
  <2> QED BY <2>2, <2>3, ElementsMakeAList
<1>8. f[<<>>].columns \in Seq(FetchedColumns)
  BY <1>5, SeqMonotonic DEF FetchedColumns
<1>9. \A c \in FetchedColumns : c.path \in Seq(ToSet(c.path))
  <2>1. \A p \in Seq(ForeignKeys) : p \in Seq(ToSet(p))
    <3> SUFFICES ASSUME NEW p \in Seq(ForeignKeys) PROVE p \in Seq(ToSet(p))
      OBVIOUS
    <3>1. Len(p) \in Nat /\ p \in [1 .. Len(p) -> ForeignKeys] /\ DOMAIN p = 1 .. Len(p)
      BY ListsHaveElements
    <3>2. p \in [1 .. Len(p) -> ToSet(p)]
      BY <3>1 DEF ToSet
    <3> QED BY <3>1, <3>2, ElementsMakeAList
  <2>3. \A c \in FetchedColumns : c.path \in Seq(ForeignKeys)
    BY FetchedColumnsDiffer
  <2> QED BY <2>1, <2>3
<1> DEFINE s == ColumnsToFetch(left, t)
<1>10. s \in Seq(FetchedColumns)
  <2> HIDE DEF fetched, s
  <2>1. fetched \o f[<<>>].columns \in Seq(FetchedColumns)
    BY <1>7, <1>8, ConcatProperties
  <2> QED BY <1>6, <2>1 DEF s
<1> HIDE DEF s
<1>11. Len(s) \in Nat /\ s \in [1 .. Len(s) -> FetchedColumns] /\ DOMAIN s = 1 .. Len(s)
  BY <1>10, ListsHaveElements
<1>12. s \in [1 .. Len(s) -> ToSet(s)] /\ ToSet(s) \subseteq FetchedColumns
  BY <1>11 DEF ToSet
<1>13. s \in Seq(ToSet(s))
  BY <1>11, <1>12, ElementsMakeAList
<1> QED BY <1>9, <1>12, <1>13 DEF s

-----------------------------------------------------------------------------
\* The state.

\* What others may do to the tables: their constraints hold, and those that
\* queries start from stay.
DatabaseInv ==
    /\ IsDatabase(tables, columns)
    /\ \A q \in Queries : IsQuery(tables, q)
    /\ \A x \in TableListings : x[1] \in DOMAIN tables
\* Explorations are saved, and asked for, as they can be asked.
RequestInv ==
    /\ \A e \in Saved : saved[e] \subseteq Queries
    /\ saved = [e \in Saved |-> saved[e]]
    /\ phase # "idle" => /\ request = [x \in DOMAIN request |-> request[x]] /\ "query" \in DOMAIN request
                         /\ IsQuery(tables, request.query)
JoinsInv == DatabaseInv /\ RequestInv

\* The tables and the queries are as they should be at first.
LEMMA JoinsInvAtFirst == Init => JoinsInv
<1> SUFFICES ASSUME Init PROVE JoinsInv
  OBVIOUS
<1>1. tables \in Contents /\ columns = Columns /\ saved = [e \in Saved |-> {}] /\ phase = "idle"
  BY DEF Init
<1>2. IsDatabase(tables, columns)
  BY <1>1, ContentsAssumption DEF IsDatabase
<1>3. \A q \in Queries : IsQuery(tables, q)
  BY <1>1, QueriesAssumption DEF IsQuery
<1>4. \A x \in TableListings : x[1] \in DOMAIN tables
  BY <1>1, QueriesAssumption
<1>5. RequestInv
  BY <1>1 DEF RequestInv
<1> QED BY <1>2, <1>3, <1>4, <1>5 DEF JoinsInv, DatabaseInv

\* Others change rows and columns only as the constraints allow.
LEMMA ChangesKeepJoinsInv ==
    ASSUME JoinsInv, IsDatabase(tables', columns'), DOMAIN tables' = DOMAIN tables,
           UNCHANGED <<saved, request, phase>>
    PROVE  JoinsInv'
<1>1. \A q : IsQuery(tables, q) => IsQuery(tables', q)
  BY DEF IsQuery
<1> QED BY <1>1 DEF JoinsInv, DatabaseInv, RequestInv

LEMMA InsertRowKeepsDatabase ==
    ASSUME NEW t, NEW row, JoinsInv, InsertRow(t, row)
    PROVE  IsDatabase(tables', columns') /\ DOMAIN tables' = DOMAIN tables
<1>1. tables' = [tables EXCEPT ![t] = Append(@, row)] /\ ConstraintsHold(tables', columns) /\ columns' = columns
  BY DEF InsertRow
<1>2. IsDatabase(tables, columns)
  BY DEF JoinsInv, DatabaseInv
<1>3. DOMAIN tables' = DOMAIN tables
  BY <1>1
<1>4. ASSUME NEW u \in DOMAIN tables
      PROVE  tables'[u] \in Seq(ToSet(tables'[u]))
  <2>1. tables[u] \in Seq(ToSet(tables[u]))
    BY <1>2 DEF IsDatabase
  <2>2. CASE u = t
    <3> DEFINE s == tables[t]
               X == ToSet(s) \cup {row}
    <3>1. s \in Seq(X) /\ row \in X
      BY <2>1, <2>2, SeqMonotonic
    <3>2. tables'[u] = Append(s, row)
      BY <1>1, <2>2
    <3> HIDE DEF s, X
    <3>3. Append(s, row) \in Seq(X)
      BY <3>1
    <3> DEFINE r == Append(s, row)
    <3> HIDE DEF r
    <3>4. Len(r) \in Nat /\ r \in [1 .. Len(r) -> X] /\ DOMAIN r = 1 .. Len(r)
      BY <3>3, ListsHaveElements DEF r
    <3>5. r \in [1 .. Len(r) -> ToSet(r)]
      BY <3>4 DEF ToSet
    <3> QED BY <3>2, <3>4, <3>5, ElementsMakeAList DEF r
  <2>3. CASE u # t
    BY <1>1, <2>1, <2>3
  <2> QED BY <2>2, <2>3
<1> QED BY <1>1, <1>2, <1>3, <1>4 DEF IsDatabase

LEMMA DeleteRowKeepsDatabase ==
    ASSUME NEW t \in DOMAIN tables, NEW n \in DOMAIN tables[t], JoinsInv, DeleteRow(t, n)
    PROVE  IsDatabase(tables', columns') /\ DOMAIN tables' = DOMAIN tables
<1> DEFINE s == tables[t]
           r == RemoveAt(s, n)
           From(i) == IF i < n THEN i ELSE i + 1
<1>1. tables' = [tables EXCEPT ![t] = r] /\ columns' = columns
  BY DEF DeleteRow
<1>2. IsDatabase(tables, columns)
  BY DEF JoinsInv, DatabaseInv
<1>3. s \in Seq(ToSet(s)) /\ DOMAIN s = 1 .. Len(s) /\ Len(s) \in Nat /\ n \in 1 .. Len(s)
  <2>1. s \in Seq(ToSet(s))
    BY <1>2 DEF IsDatabase
  <2> HIDE DEF s
  <2> QED BY <2>1, ListsHaveElements DEF s
<1>4. r \in Seq(ToSet(s)) /\ Len(r) = Len(s) - 1 /\ \A i \in 1 .. Len(r) : r[i] = s[From(i)] /\ From(i) \in 1 .. Len(s)
  <2> DEFINE a == SubSeq(s, 1, n - 1)
             b == SubSeq(s, n + 1, Len(s))
  <2>1. r = a \o b
    BY DEF RemoveAt
  <2> HIDE DEF s
  <2>2. a \in Seq(ToSet(s)) /\ Len(a) = n - 1 /\ \A i \in 1 .. n - 1 : a[i] = s[i]
    BY <1>3
  <2>3. b \in Seq(ToSet(s)) /\ Len(b) = Len(s) - n /\ \A i \in 1 .. Len(s) - n : b[i] = s[n + i]
    BY <1>3
  <2> HIDE DEF a, b, r
  <2>4. r \in Seq(ToSet(s)) /\ Len(r) = Len(s) - 1
    <3>1. r \in Seq(ToSet(s)) /\ Len(r) = Len(a) + Len(b)
      BY <2>1, <2>2, <2>3, ConcatProperties
    <3>2. (n - 1) + (Len(s) - n) = Len(s) - 1
      BY <1>3
    <3> QED BY <2>2, <2>3, <3>1, <3>2
  <2>5. ASSUME NEW i \in 1 .. Len(s) - 1
        PROVE  r[i] = s[From(i)] /\ From(i) \in 1 .. Len(s)
    <3>1. CASE i < n
      <4>1. (a \o b)[i] = a[i] /\ i \in 1 .. n - 1
        BY <1>3, <2>2, <2>3, <3>1
      <4> QED BY <1>3, <2>1, <2>2, <3>1, <4>1
    <3>2. CASE ~(i < n)
      <4>1. i \in n .. Len(s) - 1 /\ i - (n - 1) \in 1 .. Len(s) - n
        BY <1>3, <3>2
      <4>2. (a \o b)[i] = b[i - (n - 1)]
        BY <1>3, <2>2, <2>3, <4>1
      <4>3. b[i - (n - 1)] = s[n + (i - (n - 1))] /\ n + (i - (n - 1)) = i + 1
        BY <1>3, <2>3, <4>1
      <4> QED BY <1>3, <2>1, <3>2, <4>1, <4>2, <4>3
    <3> QED BY <3>1, <3>2
  <2> HIDE DEF From
  <2> QED BY <2>4, <2>5
<1>5. \A i, j \in 1 .. Len(r) : From(i) = From(j) => i = j
  <2> HIDE DEF r, s
  <2> QED BY <1>3, <1>4
<1>6. \A u \in DOMAIN tables : tables'[u] = IF u = t THEN r ELSE tables[u]
  BY <1>1
<1>7. DOMAIN tables' = DOMAIN tables
  BY <1>1
<1>8. r \in Seq(ToSet(r)) /\ DOMAIN r = 1 .. Len(r)
  <2> HIDE DEF r, s
  <2>1. Len(r) \in Nat /\ r \in [1 .. Len(r) -> ToSet(s)] /\ DOMAIN r = 1 .. Len(r)
    BY <1>4, ListsHaveElements
  <2>2. r \in [1 .. Len(r) -> ToSet(r)]
    BY <2>1 DEF ToSet
  <2> QED BY <2>1, <2>2, ElementsMakeAList
<1>9. ASSUME NEW u, IsUnique(s, u)
      PROVE  IsUnique(r, u)
  <2> HIDE DEF r, s, From
  <2> SUFFICES ASSUME NEW i \in 1 .. Len(r), NEW j \in 1 .. Len(r),
                      \A c \in u : r[i][c[2]] # None /\ r[i][c[2]] = r[j][c[2]]
               PROVE  i = j
    BY <1>8 DEF IsUnique
  <2>1. \A c \in u : s[From(i)][c[2]] # None /\ s[From(i)][c[2]] = s[From(j)][c[2]]
    BY <1>4
  <2>2. From(i) = From(j)
    <3>1. From(i) \in DOMAIN s /\ From(j) \in DOMAIN s
      BY <1>3, <1>4
    <3>2. \A x, y \in DOMAIN s : (\A c \in u : s[x][c[2]] # None /\ s[x][c[2]] = s[y][c[2]]) => x = y
      BY <1>9 DEF IsUnique
    <3> QED BY <2>1, <3>1, <3>2
  <2> QED BY <1>5, <2>2
<1> HIDE DEF r, From
<1>10. ConstraintsHold(tables', columns')
  BY <1>1, <1>2, <1>6, <1>7, <1>9 DEF ConstraintsHold, IsDatabase
<1> QED BY <1>1, <1>2, <1>6, <1>7, <1>8, <1>10 DEF IsDatabase

LEMMA DropColumnKeepsDatabase ==
    ASSUME NEW c, JoinsInv, DropColumn(c)
    PROVE  IsDatabase(tables', columns') /\ DOMAIN tables' = DOMAIN tables
BY DEF JoinsInv, DatabaseInv, IsDatabase, DropColumn, ConstraintsHold

\* Asking for records of a query that can be asked.
LEMMA AskKeepsJoinsInv ==
    ASSUME JoinsInv, NEW kind, NEW q, NEW listing, NEW previews, NEW first,
           Ask(kind, q, listing, previews, first), IsQuery(tables, q)
    PROVE  JoinsInv'
BY DEF Ask, JoinsInv, DatabaseInv, RequestInv, database

\* Steps of a request keep its query and everything else that matters here.
LEMMA RequestKeepsJoinsInv ==
    ASSUME JoinsInv, UNCHANGED <<tables, columns, saved>>, phase # "idle",
           \/ UNCHANGED request
           \/ \E x : request' = [request EXCEPT !.offset = x]
           \/ \E x : request' = [request EXCEPT !.names = x]
    PROVE  JoinsInv'
<1>1. request = [x \in DOMAIN request |-> request[x]] /\ "query" \in DOMAIN request /\ IsQuery(tables, request.query)
  BY DEF JoinsInv, RequestInv
<1>2. request' = [x \in DOMAIN request' |-> request'[x]] /\ "query" \in DOMAIN request' /\ request'.query = request.query
  BY <1>1
<1> QED BY <1>1, <1>2 DEF JoinsInv, DatabaseInv, RequestInv

LEMMA JoinsInvIsKept == JoinsInv /\ [Next]_vars => JoinsInv'
<1> SUFFICES ASSUME JoinsInv, [Next]_vars PROVE JoinsInv'
  OBVIOUS
<1>0. /\ \A q \in Queries : IsQuery(tables, q)
      /\ \A e \in Saved : saved[e] \subseteq Queries
      /\ saved = [e \in Saved |-> saved[e]]
      /\ columns \in SUBSET Columns
  BY DEF JoinsInv, DatabaseInv, RequestInv, IsDatabase
<1>1. ASSUME NEW e \in Saved, NEW q \in SavedQueries, SaveExploration(e, q) \/ ReplaceExploration(e, q)
      PROVE  JoinsInv'
  <2>1. saved' = [saved EXCEPT ![e] = {q}] /\ q \in Queries /\ UNCHANGED <<tables, columns, request, phase>>
    BY <1>1, ExplorationsAssumption DEF SaveExploration, ReplaceExploration, database
  <2>2. (\A f \in Saved : saved'[f] \subseteq Queries) /\ saved' = [f \in Saved |-> saved'[f]]
    BY <1>0, <2>1
  <2> QED BY <2>1, <2>2 DEF JoinsInv, DatabaseInv, RequestInv
<1>2. ASSUME NEW e \in Saved, DeleteExploration(e)
      PROVE  JoinsInv'
  <2>1. saved' = [saved EXCEPT ![e] = {}] /\ UNCHANGED <<tables, columns, request, phase>>
    BY <1>2 DEF DeleteExploration, database
  <2>2. (\A f \in Saved : saved'[f] \subseteq Queries) /\ saved' = [f \in Saved |-> saved'[f]]
    BY <1>0, <2>1
  <2> QED BY <2>1, <2>2 DEF JoinsInv, DatabaseInv, RequestInv
<1>3. ASSUME NEW e \in Saved, RunSavedExploration(e)
      PROVE  JoinsInv'
  <2>1. The(saved[e]) \in saved[e]
    BY <1>3 DEF RunSavedExploration, The
  <2>2. IsQuery(tables, The(saved[e]))
    BY <1>0, <2>1
  <2> QED BY <1>3, <2>2, AskKeepsJoinsInv DEF RunSavedExploration
<1>4. ASSUME NEW q \in Queries, RunExploration(q) \/ RunQuery(q) \/ \E l \in Listings : ListRecords(q, l)
      PROVE  JoinsInv'
  BY <1>0, <1>4, AskKeepsJoinsInv DEF RunExploration, RunQuery, ListRecords
<1>5. ASSUME NEW x \in TableListings, ListTableRecords(x[1], x[2])
      PROVE  JoinsInv'
  <2> DEFINE q == Query(x[1], ColumnsToFetch(columns, x[1]), <<>>)
  <2>1. IsQuery(tables, q)
    <3>1. DOMAIN q = {"base", "initial", "transformations"} /\ q.base = x[1] /\ q.initial = ColumnsToFetch(columns, x[1]) /\ q.transformations = <<>>
      BY DEF Query
    <3>2. x[1] \in DOMAIN tables
      BY DEF JoinsInv, DatabaseInv
    <3> HIDE DEF q
    <3>3. ToSet(q.transformations) = {} /\ q.transformations \in Seq(ToSet(q.transformations))
      <4>1. DOMAIN <<>> = {}
        OBVIOUS
      <4>2. ToSet(<<>>) = {}
        BY <4>1, Zenon DEF ToSet
      <4>3. <<>> \in Seq({})
        OBVIOUS
      <4> QED BY <3>1, <4>2, <4>3
    <3> QED BY <1>0, <3>1, <3>2, <3>3, ColumnsToFetchAreAList DEF IsQuery
  <2> HIDE DEF q
  <2> QED BY <1>5, <2>1, AskKeepsJoinsInv DEF ListTableRecords, q
<1>6. ASSUME FinishSummaries \/ ProcessTransformations \/ FetchRecords \/ DescribeColumns \/ CountRecords \/ NextPage
      PROVE  JoinsInv'
  <2>1. UNCHANGED <<tables, columns, saved>> /\ phase # "idle"
    BY <1>6 DEF FinishSummaries, ProcessTransformations, FetchRecords, DescribeColumns, CountRecords, NextPage, database
  <2>2. \/ UNCHANGED request
        \/ \E x : request' = [request EXCEPT !.offset = x]
        \/ \E x : request' = [request EXCEPT !.names = x]
    BY <1>6 DEF FinishSummaries, ProcessTransformations, FetchRecords, DescribeColumns, CountRecords, NextPage
  <2> QED BY <2>1, <2>2, RequestKeepsJoinsInv
<1>7. CASE Close
  BY <1>7 DEF Close, JoinsInv, DatabaseInv, RequestInv, database
<1>8. ASSUME NEW i \in Insertions, InsertRow(i[1], i[2])
      PROVE  JoinsInv'
  <2>1. UNCHANGED <<saved, request, phase>>
    BY <1>8 DEF InsertRow, Change
  <2> QED BY <1>8, <2>1, InsertRowKeepsDatabase, ChangesKeepJoinsInv
<1>9. ASSUME NEW t \in DOMAIN tables, NEW n \in DOMAIN tables[t], DeleteRow(t, n)
      PROVE  JoinsInv'
  <2>1. UNCHANGED <<saved, request, phase>>
    BY <1>9 DEF DeleteRow, Change
  <2> QED BY <1>9, <2>1, DeleteRowKeepsDatabase, ChangesKeepJoinsInv
<1>10. ASSUME NEW c \in columns, DropColumn(c)
      PROVE  JoinsInv'
  <2>1. UNCHANGED <<saved, request, phase>>
    BY <1>10 DEF DropColumn, Change
  <2> QED BY <1>10, <2>1, DropColumnKeepsDatabase, ChangesKeepJoinsInv
<1>11. CASE UNCHANGED vars
  BY <1>11 DEF vars, database, JoinsInv, DatabaseInv, RequestInv
<1> QED BY <1>1, <1>2, <1>3, <1>4, <1>5, <1>6, <1>7, <1>8, <1>9, <1>10, <1>11 DEF Next

\* The constraints of the tables hold whatever others change, and what is asked for
\* can be asked.
THEOREM DatabasesStaySound == Spec => []JoinsInv
<1> QED BY JoinsInvAtFirst, JoinsInvIsKept, PTL DEF Spec

\* Joining along foreign keys from the referring to the referred rows neither loses a
\* row of the base table nor repeats one, for every database, exploration and listing:
\* the joins are outer ones, and what a foreign key refers to stays unique.
THEOREM JoinsKeepBaseRowsHolds == Spec => []JoinsKeepBaseRows
<1>1. JoinsInv => JoinsKeepBaseRows
  <2> SUFFICES ASSUME JoinsInv, phase \in {"records", "count"}, ForwardOnly(request.query), Current(<<>>) # Broken
               PROVE  Len(Current(<<>>).rows) = Len(tables[request.query.base])
    BY DEF JoinsKeepBaseRows
  <2>1. IsDatabase(tables, columns) /\ IsQuery(tables, request.query)
    BY DEF JoinsInv, DatabaseInv, RequestInv
  <2>2. Current(<<>>) = Transformed(tables, columns, request.query, <<>>)
    BY DEF Current
  <2> QED BY <2>1, <2>2, InitialRelationKeepsLength
<1> QED BY <1>1, DatabasesStaySound, PTL

-----------------------------------------------------------------------------
\* Aliases.

\* The outputs of a list are a list of as many.
LEMMA OutputsAreAList ==
    ASSUME NEW X, NEW s \in Seq(X)
    PROVE  /\ Outputs(s) \in Seq(ToSet(Outputs(s))) /\ Len(Outputs(s)) = Len(s)
           /\ \A i \in 1 .. Len(s) : Outputs(s)[i] = s[i].out
<1> DEFINE r == [i \in DOMAIN s |-> s[i].out]
<1>1. DOMAIN s = 1 .. Len(s) /\ Len(s) \in Nat
  BY ListsHaveElements
<1>2. Outputs(s) = r
  BY DEF Outputs, Each
<1>3. r \in [1 .. Len(s) -> ToSet(r)]
  BY <1>1 DEF ToSet
<1>4. r \in Seq(ToSet(r)) /\ Len(r) = Len(s)
  <2> HIDE DEF r
  <2> QED BY <1>1, <1>3, ElementsMakeAList
<1> QED BY <1>1, <1>2, <1>4

\* Aliases that carry over are the same ones.
LEMMA SameKeepsAliases ==
    ASSUME NEW X, NEW s \in Seq(X)
    PROVE  Outputs(Same(s)) = s
<1>1. DOMAIN s = 1 .. Len(s) /\ Len(s) \in Nat /\ s = [i \in 1 .. Len(s) |-> s[i]]
  BY ListsHaveElements
<1>2. \A a : Carry(a, a).out = a
  BY DEF Carry
<1>3. Outputs(Same(s)) = [i \in DOMAIN [j \in DOMAIN s |-> Carry(s[j], s[j])] |-> [j \in DOMAIN s |-> Carry(s[j], s[j])][i].out]
  BY DEF Outputs, Same, Each
<1>4. Outputs(Same(s)) = [i \in DOMAIN s |-> s[i]]
  BY <1>2, <1>3
<1> QED BY <1>1, <1>4

\* The outputs of two lists, one after the other.
LEMMA OutputsOfBoth ==
    ASSUME NEW X, NEW Y, NEW g \in Seq(X), NEW a \in Seq(Y)
    PROVE  Outputs(Each(LAMBDA s : Carry(s.in, s.out), g) \o Each(LAMBDA s : Carry(None, s.out), a))
               = Outputs(g) \o Outputs(a)
<1> DEFINE u == [i \in DOMAIN g |-> Carry(g[i].in, g[i].out)]
           v == [i \in DOMAIN a |-> Carry(None, a[i].out)]
           C == ToSet(u) \cup ToSet(v)
<1>1. DOMAIN g = 1 .. Len(g) /\ Len(g) \in Nat /\ DOMAIN a = 1 .. Len(a) /\ Len(a) \in Nat
  BY ListsHaveElements
<1>2. u \in [1 .. Len(g) -> C] /\ v \in [1 .. Len(a) -> C]
  BY <1>1 DEF ToSet
<1>3. u \in Seq(C) /\ Len(u) = Len(g) /\ v \in Seq(C) /\ Len(v) = Len(a)
  <2> HIDE DEF u, v, C
  <2> QED BY <1>1, <1>2, ElementsMakeAList
<1>4. \A i \in 1 .. Len(g) : u[i].out = g[i].out
  BY <1>1 DEF Carry
<1>5. \A i \in 1 .. Len(a) : v[i].out = a[i].out
  BY <1>1 DEF Carry
<1> HIDE DEF u, v, C
<1> DEFINE left == Outputs(u \o v)
           right == Outputs(g) \o Outputs(a)
           N == Len(g) + Len(a)
<1>6. u \o v \in Seq(C) /\ Len(u \o v) = N
  <2>1. u \in Seq(C) /\ v \in Seq(C)
    BY <1>3
  <2>2. u \o v \in Seq(C) /\ Len(u \o v) = Len(u) + Len(v)
    BY <2>1, ConcatProperties, Z3
  <2> QED BY <1>3, <2>2
<1>7. left \in Seq(ToSet(left)) /\ Len(left) = N /\ \A i \in 1 .. N : left[i] = (u \o v)[i].out
  BY <1>6, OutputsAreAList
<1>8. /\ Outputs(g) \in Seq(ToSet(Outputs(g))) /\ Len(Outputs(g)) = Len(g) /\ \A i \in 1 .. Len(g) : Outputs(g)[i] = g[i].out
      /\ Outputs(a) \in Seq(ToSet(Outputs(a))) /\ Len(Outputs(a)) = Len(a) /\ \A i \in 1 .. Len(a) : Outputs(a)[i] = a[i].out
  BY OutputsAreAList
<1> DEFINE O == ToSet(Outputs(g)) \cup ToSet(Outputs(a))
<1>9. right \in Seq(O) /\ Len(right) = N
  <2>1. Outputs(g) \in Seq(O) /\ Outputs(a) \in Seq(O)
    BY <1>8, SeqMonotonic
  <2>2. Len(right) = Len(Outputs(g)) + Len(Outputs(a)) /\ right \in Seq(O)
    <3> HIDE DEF O
    <3> QED BY <2>1, ConcatProperties
  <2> QED BY <1>8, <2>2
<1>10. ASSUME NEW i \in 1 .. N
       PROVE  left[i] = right[i]
  <2>1. CASE i <= Len(g)
    <3>1. i \in 1 .. Len(g)
      BY <1>1, <2>1
    <3>2. (u \o v)[i] = u[i]
      BY <1>3, <3>1
    <3>3. right[i] = Outputs(g)[i]
      BY <1>8, <3>1
    <3> HIDE DEF left, right
    <3> QED BY <1>4, <1>7, <1>8, <3>1, <3>2, <3>3
  <2>2. CASE ~(i <= Len(g))
    <3>1. i \in Len(g) + 1 .. N /\ i - Len(g) \in 1 .. Len(a)
      BY <1>1, <2>2
    <3>2. (u \o v)[i] = v[i - Len(g)]
      BY <1>3, <3>1
    <3>3. right[i] = Outputs(a)[i - Len(g)]
      BY <1>8, <3>1
    <3> HIDE DEF left, right
    <3> QED BY <1>5, <1>7, <1>8, <3>1, <3>2, <3>3
  <2> QED BY <2>1, <2>2
<1>11. left = right
  <2> HIDE DEF left, right, O
  <2>1. left = [i \in 1 .. N |-> left[i]] /\ right = [i \in 1 .. N |-> right[i]]
    BY <1>7, <1>9, ListsHaveElements
  <2> QED BY <1>10, <2>1
<1> QED BY <1>11 DEF Each, u, v

\* Nothing is selected from an empty list.
LEMMA NothingIsNotHidden ==
    ASSUME NEW h
    PROVE  NotHidden(<<>>, h) = <<>>
<1> DEFINE at == {i \in DOMAIN <<>> : <<>>[i] \notin h}
           sorted == Sorted(at, [i \in at |-> i])
<1>1. at = {}
  OBVIOUS
<1>2. Cardinality(at) = 0
  BY <1>1, FS_EmptySet
<1>3. DOMAIN sorted = {}
  BY <1>2 DEF Sorted
<1>4. NotHidden(<<>>, h) = [n \in DOMAIN sorted |-> <<>>[sorted[n]]]
  BY DEF NotHidden, Those, At
<1> HIDE DEF sorted, at
<1> QED BY <1>3, <1>4

\* Hiding aliases leaves a list of the others.
LEMMA NotHiddenIsAList ==
    ASSUME NEW X, NEW s \in Seq(X), NEW h
    PROVE  NotHidden(s, h) \in Seq(X)
<1> DEFINE at == {i \in DOMAIN s : s[i] \notin h}
<1>1. NotHidden(s, h) = At(s, at)
  BY DEF NotHidden, Those
<1> QED BY <1>1, AtIsAList

\* A relation as queries make them: a record whose columns are listed.
IsRelation(r) == r = Relation(r.cols, r.rows, r.json, r.keys) /\ \E X : r.cols \in Seq(X)
\* Aliases worked out without the query: its columns, unless nothing is known of them.
AreAliasesOf(aliases, r) == r = Broken \/ aliases = <<>> \/ aliases = r.cols

\* A transformation that looks for no duplicates gives the columns it says it gives.
LEMMA TransformationGivesItsAliases ==
    ASSUME NEW r, NEW t, NEW aliases, IsTransformation(t), ~Is(t, "duplicate_only"),
           IsRelation(r), AreAliasesOf(aliases, r)
    PROVE  IsRelation(Apply(r, t)) /\ AreAliasesOf(OutputAliases(t, aliases), Apply(r, t))
<1> DEFINE Goal == IsRelation(Apply(r, t)) /\ AreAliasesOf(OutputAliases(t, aliases), Apply(r, t))
<1>0. IsRelation(Broken)
  BY DEF IsRelation, Broken, Relation
<1>1. CASE Apply(r, t) = Broken
  BY <1>0, <1>1 DEF AreAliasesOf
<1> SUFFICES ASSUME Apply(r, t) # Broken PROVE Goal
  BY <1>1
<1>2. r # Broken
  BY DEF Apply
<1>3. PICK X : r.cols \in Seq(X)
  BY DEF IsRelation
<1>4. aliases = <<>> \/ aliases = r.cols
  BY <1>2 DEF AreAliasesOf
<1>41. \E Y : aliases \in Seq(Y)
  <2>1. <<>> \in Seq({})
    OBVIOUS
  <2> QED BY <1>3, <1>4, <2>1
<1>5. OutputAliases(t, aliases) = Outputs(UniqueMappings(t, aliases))
  BY DEF OutputAliases
<1>6. CASE \E kind \in {"filter", "order", "search"} : DOMAIN t = {kind}
  <2>1. ~Is(t, "summarize") /\ ~Is(t, "hide") /\ ~Is(t, "select")
    BY <1>6 DEF Is
  <2>2. OutputAliases(t, aliases) = aliases
    BY <1>41, <1>5, <2>1, SameKeepsAliases DEF UniqueMappings
  <2>3. \E rows : Apply(r, t) = [r EXCEPT !.rows = rows]
    <3>1. CASE DOMAIN t = {"filter"}
      BY <1>2, <3>1 DEF Apply, Is, Filtered
    <3>2. CASE DOMAIN t = {"order"}
      BY <1>2, <3>2 DEF Apply, Is, Ordered
    <3>3. CASE DOMAIN t = {"search"}
      BY <1>2, <3>3 DEF Apply, Is, Searched
    <3> QED BY <1>6, <3>1, <3>2, <3>3
  <2>4. IsRelation(Apply(r, t)) /\ Apply(r, t).cols = r.cols
    BY <1>3, <2>3 DEF IsRelation, Relation
  <2> QED BY <1>4, <2>2, <2>4 DEF AreAliasesOf
<1>7. CASE DOMAIN t = {"select"}
  <2>1. Is(t, "select") /\ ~Is(t, "summarize") /\ ~Is(t, "hide") /\ ~Is(t, "filter") /\ ~Is(t, "order") /\ ~Is(t, "search")
    BY <1>7 DEF Is
  <2>2. t.select \in Seq(ToSet(t.select))
    BY <2>1 DEF IsTransformation
  <2>3. OutputAliases(t, aliases) = t.select
    BY <1>5, <2>1, <2>2, SameKeepsAliases DEF UniqueMappings
  <2>4. Apply(r, t) = Selected(r, t.select)
    BY <1>2, <2>1 DEF Apply
  <2>5. CASE t.select = <<>>
    <3>1. Apply(r, t) = r
      BY <2>4, <2>5 DEF Selected
    <3> QED BY <2>3, <2>5, <3>1 DEF AreAliasesOf
  <2>6. CASE t.select # <<>>
    <3>1. \E rows, keys : Apply(r, t) = Relation(t.select, rows, r.json, keys)
      BY <2>4, <2>6 DEF Selected
    <3>2. IsRelation(Apply(r, t)) /\ Apply(r, t).cols = t.select
      BY <2>2, <3>1 DEF IsRelation, Relation
    <3> QED BY <2>3, <3>2 DEF AreAliasesOf
  <2> QED BY <2>5, <2>6
<1>8. CASE DOMAIN t = {"hide"}
  <2>1. Is(t, "hide") /\ ~Is(t, "summarize") /\ ~Is(t, "select") /\ ~Is(t, "filter") /\ ~Is(t, "order") /\ ~Is(t, "search")
    BY <1>8 DEF Is
  <2> DEFINE left == NotHidden(r.cols, t.hide)
  <2>2. left \in Seq(X)
    BY <1>3, NotHiddenIsAList
  <2>3. OutputAliases(t, aliases) = NotHidden(aliases, t.hide)
    <3>1. PICK Y : NotHidden(aliases, t.hide) \in Seq(Y)
      BY <1>41, NotHiddenIsAList
    <3>2. OutputAliases(t, aliases) = Outputs(Same(NotHidden(aliases, t.hide)))
      BY <1>5, <2>1 DEF UniqueMappings
    <3> QED BY <3>1, <3>2, SameKeepsAliases
  <2>4. OutputAliases(t, aliases) = <<>> \/ OutputAliases(t, aliases) = left
    BY <1>4, <2>3, NothingIsNotHidden
  <2>5. Apply(r, t) = Selected(r, left)
    BY <1>2, <2>1 DEF Apply
  <2> HIDE DEF left
  <2>6. CASE left = <<>>
    <3>1. Apply(r, t) = r
      BY <2>5, <2>6 DEF Selected
    <3> QED BY <2>4, <2>6, <3>1 DEF AreAliasesOf
  <2>7. CASE left # <<>>
    <3>1. \E rows, keys : Apply(r, t) = Relation(left, rows, r.json, keys)
      BY <2>5, <2>7 DEF Selected
    <3>2. IsRelation(Apply(r, t)) /\ Apply(r, t).cols = left
      BY <2>2, <3>1 DEF IsRelation, Relation
    <3> QED BY <2>4, <3>2 DEF AreAliasesOf
  <2> QED BY <2>6, <2>7
<1>9. CASE DOMAIN t = {"summarize"}
  <2>1. Is(t, "summarize") /\ ~Is(t, "hide") /\ ~Is(t, "select") /\ ~Is(t, "filter") /\ ~Is(t, "order") /\ ~Is(t, "search")
    BY <1>9 DEF Is
  <2> DEFINE g == t.summarize.grouping
             a == t.summarize.aggregation
             out == Outputs(g) \o Outputs(a)
  <2>2. g \in Seq(ToSet(g)) /\ a \in Seq(ToSet(a))
    BY <2>1 DEF IsTransformation
  <2>3. UniqueMappings(t, aliases) = Each(LAMBDA s : Carry(s.in, s.out), g) \o Each(LAMBDA s : Carry(None, s.out), a)
    BY <2>1 DEF UniqueMappings
  <2>4. OutputAliases(t, aliases) = out
    BY <1>5, <2>2, <2>3, OutputsOfBoth
  <2>5. Apply(r, t) = Summarized(r, t.summarize)
    BY <1>2, <2>1 DEF Apply
  <2>6. \E rows, keys : Apply(r, t) = Relation(out, rows, {}, keys)
    BY <2>5 DEF Summarized
  <2>7. \E O : out \in Seq(O)
    <3> HIDE DEF g, a
    <3> DEFINE O == ToSet(Outputs(g)) \cup ToSet(Outputs(a))
    <3>1. Outputs(g) \in Seq(ToSet(Outputs(g))) /\ Outputs(a) \in Seq(ToSet(Outputs(a)))
      BY <2>2, OutputsAreAList
    <3>2. Outputs(g) \in Seq(O) /\ Outputs(a) \in Seq(O)
      BY <3>1, SeqMonotonic
    <3> HIDE DEF O
    <3>3. out \in Seq(O)
      BY <3>2, ConcatProperties
    <3> QED BY <3>3
  <2> HIDE DEF out
  <2>8. IsRelation(Apply(r, t)) /\ Apply(r, t).cols = out
    BY <2>6, <2>7 DEF IsRelation, Relation
  <2> QED BY <2>4, <2>8 DEF AreAliasesOf
<1>10. \E kind \in {"filter", "order", "search", "select", "hide", "summarize"} : DOMAIN t = {kind}
  <2>1. PICK kind \in {"filter", "order", "duplicate_only", "search", "select", "hide", "summarize"} : DOMAIN t = {kind}
    BY DEF IsTransformation
  <2>2. kind # "duplicate_only"
    BY <2>1 DEF Is
  <2> QED BY <2>1, <2>2
<1> HIDE DEF Goal
<1> QED
  <2>1. CASE \E kind \in {"filter", "order", "search"} : DOMAIN t = {kind}
    BY <1>6, <2>1 DEF Goal
  <2>2. CASE DOMAIN t = {"select"}
    BY <1>7, <2>2 DEF Goal
  <2>3. CASE DOMAIN t = {"hide"}
    BY <1>8, <2>3 DEF Goal
  <2>4. CASE DOMAIN t = {"summarize"}
    BY <1>9, <2>4 DEF Goal
  <2> QED BY <1>10, <2>1, <2>2, <2>3, <2>4

\* A list is one of its own elements.
LEMMA ListsAreOfTheirElements ==
    ASSUME NEW X, NEW s \in Seq(X)
    PROVE  s \in Seq(ToSet(s)) /\ ToSet(s) \subseteq X /\ \A i \in 1 .. Len(s) : s[i] \in ToSet(s)
<1>1. Len(s) \in Nat /\ s \in [1 .. Len(s) -> X] /\ DOMAIN s = 1 .. Len(s)
  BY ListsHaveElements
<1>2. s \in [1 .. Len(s) -> ToSet(s)] /\ ToSet(s) \subseteq X
  BY <1>1 DEF ToSet
<1> QED BY <1>1, <1>2, ElementsMakeAList

\* The aliases a query starts with are listed.
LEMMA AliasesAreAList ==
    ASSUME NEW X, NEW q, q.initial \in Seq(X)
    PROVE  Aliases(q) \in Seq(ToSet(Aliases(q)))
<1> DEFINE r == [i \in DOMAIN q.initial |-> q.initial[i].alias]
<1>1. DOMAIN q.initial = 1 .. Len(q.initial) /\ Len(q.initial) \in Nat
  BY ListsHaveElements
<1>2. Aliases(q) = r
  BY DEF Aliases, Each
<1>3. r \in [1 .. Len(q.initial) -> ToSet(r)]
  BY <1>1 DEF ToSet
<1> HIDE DEF r
<1> QED BY <1>1, <1>2, <1>3, ElementsMakeAList

LEMMA InitialRelationIsOne ==
    ASSUME NEW X, NEW db, NEW left, NEW q, q.initial \in Seq(X)
    PROVE  IsRelation(InitialRelation(db, left, q)) /\ AreAliasesOf(Aliases(q), InitialRelation(db, left, q))
<1>1. Aliases(q) \in Seq(ToSet(Aliases(q)))
  BY AliasesAreAList
<1>2. InitialRelation(db, left, q) = Broken \/ \E rows, json, keys : InitialRelation(db, left, q) = Relation(Aliases(q), rows, json, keys)
  BY DEF InitialRelation
<1>3. CASE InitialRelation(db, left, q) = Broken
  BY <1>3 DEF IsRelation, AreAliasesOf, Broken, Relation
<1>4. CASE \E rows, json, keys : InitialRelation(db, left, q) = Relation(Aliases(q), rows, json, keys)
  BY <1>1, <1>4 DEF IsRelation, AreAliasesOf, Relation
<1> QED BY <1>2, <1>3, <1>4

\* Transformations, one after the other, give the columns that are worked out for them.
LEMMA TransformationsGiveTheirAliases ==
    ASSUME NEW r, NEW aliases, NEW P, NEW ts \in Seq(P), \A t \in P : IsTransformation(t) /\ ~Is(t, "duplicate_only"),
           IsRelation(r), AreAliasesOf(aliases, r)
    PROVE  AreAliasesOf(AliasesAfter(aliases, ts), ApplyAll(r, ts))
<1> DEFINE N == Len(ts)
<1>0. N \in Nat /\ \A i \in 1 .. N : ts[i] \in P
  BY ListsHaveElements
<1>1. PICK g : /\ g[0] = r
               /\ \A k \in 1 .. N : g[k] = StepOf("apply", 0, g[k - 1], ts[k])
               /\ FoldOf("apply", 0, r, ts) = g[N]
  BY FoldsGoStepByStep
<1>2. PICK h : /\ h[0] = aliases
               /\ \A k \in 1 .. N : h[k] = StepOf("aliases", 0, h[k - 1], ts[k])
               /\ FoldOf("aliases", 0, aliases, ts) = h[N]
  BY FoldsGoStepByStep
<1> DEFINE Good == {k \in 0 .. N : IsRelation(g[k]) /\ AreAliasesOf(h[k], g[k])}
<1>3. 0 \in Good
  BY <1>0, <1>1, <1>2
<1>4. ASSUME NEW k \in 1 .. N, k - 1 \in Good
      PROVE  k \in Good
  <2>1. IsRelation(g[k - 1]) /\ AreAliasesOf(h[k - 1], g[k - 1])
    BY <1>4
  <2>2. g[k] = Apply(g[k - 1], ts[k]) /\ h[k] = OutputAliases(ts[k], h[k - 1])
    BY <1>1, <1>2 DEF StepOf
  <2>3. IsTransformation(ts[k]) /\ ~Is(ts[k], "duplicate_only")
    BY <1>0
  <2>4. IsRelation(g[k]) /\ AreAliasesOf(h[k], g[k])
    BY <2>1, <2>2, <2>3, TransformationGivesItsAliases
  <2>5. k \in 0 .. N
    BY <1>0
  <2> QED BY <2>4, <2>5
<1>5. N \in Good
  <2> HIDE DEF Good, N
  <2> QED BY <1>0, <1>3, <1>4, StepsKeep
<1>6. FoldOf("apply", 0, r, ts) = ApplyAll(r, ts) /\ FoldOf("aliases", 0, aliases, ts) = AliasesAfter(aliases, ts)
  BY DEF FoldOf
<1> QED BY <1>1, <1>2, <1>5, <1>6

\* Aliases that transformations give are listed.
LEMMA OutputAliasesAreAList ==
    ASSUME NEW t, IsTransformation(t), NEW X, NEW aliases \in Seq(X)
    PROVE  \E Y : OutputAliases(t, aliases) \in Seq(Y)
<1>1. CASE Is(t, "summarize")
  <2> DEFINE g == t.summarize.grouping
             a == t.summarize.aggregation
             out == Outputs(g) \o Outputs(a)
             O == ToSet(Outputs(g)) \cup ToSet(Outputs(a))
  <2>1. g \in Seq(ToSet(g)) /\ a \in Seq(ToSet(a))
    BY <1>1 DEF IsTransformation
  <2>2. UniqueMappings(t, aliases) = Each(LAMBDA s : Carry(s.in, s.out), g) \o Each(LAMBDA s : Carry(None, s.out), a)
    <3>1. ~Is(t, "hide") /\ ~Is(t, "select")
      BY <1>1 DEF IsTransformation, Is
    <3> QED BY <1>1, <3>1 DEF UniqueMappings
  <2>3. OutputAliases(t, aliases) = out
    BY <2>1, <2>2, OutputsOfBoth DEF OutputAliases
  <2> HIDE DEF g, a
  <2>4. Outputs(g) \in Seq(ToSet(Outputs(g))) /\ Outputs(a) \in Seq(ToSet(Outputs(a)))
    BY <2>1, OutputsAreAList
  <2>5. Outputs(g) \in Seq(O) /\ Outputs(a) \in Seq(O)
    BY <2>4, SeqMonotonic
  <2> HIDE DEF O
  <2>6. out \in Seq(O)
    BY <2>5, ConcatProperties
  <2> QED BY <2>3, <2>6
<1>2. CASE Is(t, "hide")
  <2>1. UniqueMappings(t, aliases) = Same(NotHidden(aliases, t.hide))
    BY <1>2 DEF UniqueMappings, IsTransformation, Is
  <2>2. NotHidden(aliases, t.hide) \in Seq(X)
    BY NotHiddenIsAList
  <2>3. OutputAliases(t, aliases) = NotHidden(aliases, t.hide)
    BY <2>1, <2>2, SameKeepsAliases DEF OutputAliases
  <2> QED BY <2>2, <2>3
<1>3. CASE Is(t, "select")
  <2>1. UniqueMappings(t, aliases) = Same(t.select) /\ t.select \in Seq(ToSet(t.select))
    BY <1>3 DEF UniqueMappings, IsTransformation, Is
  <2>2. OutputAliases(t, aliases) = t.select
    BY <2>1, SameKeepsAliases DEF OutputAliases
  <2> QED BY <2>1, <2>2
<1>4. CASE ~Is(t, "summarize") /\ ~Is(t, "hide") /\ ~Is(t, "select")
  <2>1. OutputAliases(t, aliases) = aliases
    BY <1>4, SameKeepsAliases DEF OutputAliases, UniqueMappings
  <2> QED BY <2>1
<1> QED BY <1>1, <1>2, <1>3, <1>4

LEMMA AliasesAfterAreAList ==
    ASSUME NEW P, NEW ts \in Seq(P), \A t \in P : IsTransformation(t), NEW X, NEW aliases \in Seq(X)
    PROVE  \E Y : AliasesAfter(aliases, ts) \in Seq(Y)
<1> DEFINE N == Len(ts)
<1>0. N \in Nat /\ \A i \in 1 .. N : ts[i] \in P
  BY ListsHaveElements
<1>2. PICK h : /\ h[0] = aliases
               /\ \A k \in 1 .. N : h[k] = StepOf("aliases", 0, h[k - 1], ts[k])
               /\ FoldOf("aliases", 0, aliases, ts) = h[N]
  BY FoldsGoStepByStep
<1> DEFINE Good == {k \in 0 .. N : \E Y : h[k] \in Seq(Y)}
<1>3. 0 \in Good
  BY <1>0, <1>2
<1>4. ASSUME NEW k \in 1 .. N, k - 1 \in Good
      PROVE  k \in Good
  <2>1. PICK Y : h[k - 1] \in Seq(Y)
    BY <1>4
  <2>2. h[k] = OutputAliases(ts[k], h[k - 1])
    BY <1>2 DEF StepOf
  <2>3. IsTransformation(ts[k])
    BY <1>0
  <2>4. \E Z : h[k] \in Seq(Z)
    BY <2>1, <2>2, <2>3, OutputAliasesAreAList
  <2>5. k \in 0 .. N
    BY <1>0
  <2> QED BY <2>4, <2>5
<1>5. N \in Good
  <2> HIDE DEF Good, N
  <2> QED BY <1>0, <1>3, <1>4, StepsKeep
<1>6. FoldOf("aliases", 0, aliases, ts) = AliasesAfter(aliases, ts)
  BY DEF FoldOf
<1> QED BY <1>2, <1>5, <1>6

\* Finishing the summaries leaves a list of transformations.
LEMMA FinishedAreTransformations ==
    ASSUME NEW db, NEW q, IsQuery(db, q)
    PROVE  /\ Finished(q) \in Seq(ToSet(Finished(q)))
           /\ \A t \in ToSet(Finished(q)) : IsTransformation(t)
<1> DEFINE ts == q.transformations
           r == Finished(q)
<1>0. ts \in Seq(ToSet(ts)) /\ q.initial \in Seq(ToSet(q.initial)) /\ \A t \in ToSet(ts) : IsTransformation(t)
  BY DEF IsQuery
<1>1. DOMAIN ts = 1 .. Len(ts) /\ Len(ts) \in Nat /\ \A i \in 1 .. Len(ts) : ts[i] \in ToSet(ts)
  <2> HIDE DEF ts
  <2> QED BY <1>0, ListsHaveElements
<1>2. ASSUME NEW ix \in 1 .. Len(ts)
      PROVE  IsTransformation(r[ix])
  <2>1. r[ix] = IF ~Is(ts[ix], "summarize") THEN ts[ix] ELSE Transform("summarize", Finish(q, ix))
    BY <1>1 DEF Finished
  <2>2. IsTransformation(ts[ix])
    BY <1>0, <1>1
  <2>3. CASE ~Is(ts[ix], "summarize")
    BY <2>1, <2>2, <2>3
  <2>4. CASE Is(ts[ix], "summarize")
    <3> DEFINE before == SubSeq(ts, 1, ix - 1)
               s == ts[ix].summarize
               missing == Missing(q, ix)
    <3>1. before \in Seq(ToSet(ts))
      <4> HIDE DEF ts
      <4>1. ix - 1 \in Nat /\ \A i \in 1 .. ix - 1 : i \in 1 .. Len(ts)
        BY <1>1
      <4> QED BY <1>0, <1>1, <4>1
    <3>2. PICK Y : InputAliases(q, ix) \in Seq(Y)
      <4>1. Aliases(q) \in Seq(ToSet(Aliases(q)))
        BY <1>0, AliasesAreAList
      <4>2. InputAliases(q, ix) = AliasesAfter(Aliases(q), before)
        BY DEF InputAliases, AliasesAfter
      <4> HIDE DEF before, ts
      <4> QED BY <1>0, <3>1, <4>1, <4>2, AliasesAfterAreAList
    <3>3. missing \in Seq(Y)
      <4> DEFINE mentioned == ToSet(Inputs(s.grouping) \o Inputs(s.aggregation))
                 all == InputAliases(q, ix)
                 at == {i \in DOMAIN all : all[i] \notin mentioned}
      <4>1. missing = At(all, at)
        BY DEF Missing, Those
      <4> HIDE DEF all, mentioned, missing
      <4> QED BY <3>2, <4>1, AtIsAList DEF all
    <3>4. PICK grouped : Finish(q, ix) = Completed(s, Split(missing, s.base, grouped))
      BY DEF Finish, FinishWith
    <3> DEFINE split == Split(missing, s.base, grouped)
    <3>5. split.grouped \in Seq(Y) /\ split.aggregated \in Seq(Y)
      <4> DEFINE first == At(missing, {i \in DOMAIN missing : missing[i] = s.base})
                 more == At(missing, {i \in DOMAIN missing : missing[i] # s.base /\ grouped[missing[i]]})
                 others == At(missing, {i \in DOMAIN missing : missing[i] # s.base /\ ~grouped[missing[i]]})
      <4>1. split = [grouped |-> first \o more, aggregated |-> others]
        BY DEF Split, Those
      <4> HIDE DEF missing
      <4>2. first \in Seq(Y) /\ more \in Seq(Y) /\ others \in Seq(Y)
        BY <3>3, AtIsAList
      <4> HIDE DEF first, more, others, split
      <4>3. first \o more \in Seq(Y)
        BY <4>2, ConcatProperties
      <4> QED BY <4>1, <4>2, <4>3
    <3> DEFINE g == [i \in DOMAIN split.grouped |-> Grouping(split.grouped[i], Append(split.grouped[i], "grouped"), "none")]
               a == [i \in DOMAIN split.aggregated |->
                        Aggregation(split.aggregated[i], Append(split.aggregated[i], "agged"), "distinct_aggregate_to_array")]
               f == Completed(s, split)
    <3>6. /\ DOMAIN s = {"base", "grouping", "aggregation"}
          /\ s.grouping \in Seq(ToSet(s.grouping)) /\ s.aggregation \in Seq(ToSet(s.aggregation))
      BY <2>2, <2>4 DEF IsTransformation
    <3>7. f = [[s EXCEPT !.grouping = s.grouping \o g] EXCEPT !.aggregation = [s EXCEPT !.grouping = s.grouping \o g].aggregation \o a]
      BY DEF Completed, WithAggregation, WithGrouping, Each
    <3> HIDE DEF f, s, split
    <3>8. DOMAIN f = {"base", "grouping", "aggregation"} /\ f.grouping = s.grouping \o g /\ f.aggregation = s.aggregation \o a
      <4> HIDE DEF g, a
      <4> QED BY <3>6, <3>7
    <3>9. g \in Seq(ToSet(g)) /\ a \in Seq(ToSet(a))
      <4>1. g \in [1 .. Len(split.grouped) -> ToSet(g)] /\ Len(split.grouped) \in Nat
        BY <3>5, ListsHaveElements DEF ToSet
      <4>2. a \in [1 .. Len(split.aggregated) -> ToSet(a)] /\ Len(split.aggregated) \in Nat
        BY <3>5, ListsHaveElements DEF ToSet
      <4> HIDE DEF g, a
      <4> QED BY <4>1, <4>2, ElementsMakeAList
    <3> HIDE DEF g, a
    <3>10. f.grouping \in Seq(ToSet(f.grouping)) /\ f.aggregation \in Seq(ToSet(f.aggregation))
      <4> DEFINE G == ToSet(s.grouping) \cup ToSet(g)
                 A == ToSet(s.aggregation) \cup ToSet(a)
      <4>1. s.grouping \in Seq(G) /\ g \in Seq(G) /\ s.aggregation \in Seq(A) /\ a \in Seq(A)
        BY <3>6, <3>9, SeqMonotonic
      <4> HIDE DEF G, A
      <4>2. f.grouping \in Seq(G) /\ f.aggregation \in Seq(A)
        BY <3>8, <4>1, ConcatProperties
      <4> QED BY <4>2, ListsAreOfTheirElements
    <3>11. r[ix] = [k \in {"summarize"} |-> f]
      BY <2>1, <2>4, <3>4 DEF Transform, f, split
    <3> HIDE DEF r
    <3>12. DOMAIN r[ix] = {"summarize"} /\ r[ix].summarize = f
      BY <3>11
    <3> QED BY <3>8, <3>10, <3>12 DEF IsTransformation, Is
  <2> QED BY <2>3, <2>4
<1>3. DOMAIN r = 1 .. Len(ts) /\ r = [ix \in DOMAIN r |-> r[ix]]
  BY <1>1 DEF Finished
<1> HIDE DEF r, ts
<1>4. r \in [1 .. Len(ts) -> ToSet(r)] /\ \A t \in ToSet(r) : \E ix \in 1 .. Len(ts) : t = r[ix]
  BY <1>3 DEF ToSet
<1>5. r \in Seq(ToSet(r))
  BY <1>1, <1>4, ElementsMakeAList
<1> QED BY <1>2, <1>4, <1>5 DEF r

\* The transformations a request goes through are such, finished or not.
AreTransformations(ts) == ts \in Seq(ToSet(ts)) /\ \A t \in ToSet(ts) : IsTransformation(t)
SpecInv == phase # "idle" => AreTransformations(spec)

LEMMA SpecInvIsKept == JoinsInv /\ SpecInv /\ [Next]_vars => SpecInv'
<1> SUFFICES ASSUME JoinsInv, SpecInv, [Next]_vars PROVE SpecInv'
  OBVIOUS
<1>1. \A db, q : IsQuery(db, q) => AreTransformations(q.transformations) /\ AreTransformations(Finished(q))
  BY FinishedAreTransformations DEF IsQuery, AreTransformations
<1>2. /\ \A q \in Queries : IsQuery(tables, q)
      /\ \A e \in Saved : saved[e] \subseteq Queries
      /\ phase # "idle" => IsQuery(tables, request.query)
  BY DEF JoinsInv, DatabaseInv, RequestInv
<1>3. ASSUME NEW kind, NEW q, NEW listing, NEW previews, NEW first,
             Ask(kind, q, listing, previews, first), AreTransformations(q.transformations)
      PROVE  SpecInv'
  BY <1>3 DEF Ask, SpecInv, AreTransformations
<1>4. CASE UNCHANGED <<phase, spec>>
  BY <1>4 DEF SpecInv, AreTransformations
<1>5. CASE phase # "idle" /\ spec' = spec
  BY <1>5 DEF SpecInv, AreTransformations
<1>6. CASE FinishSummaries \/ ProcessTransformations
  <2>1. phase # "idle" /\ (spec' = Finished(request.query) \/ spec' = spec)
    BY <1>6 DEF FinishSummaries, ProcessTransformations
  <2>2. CASE spec' = Finished(request.query)
    BY <1>1, <1>2, <2>1, <2>2 DEF SpecInv, AreTransformations
  <2> QED BY <1>5, <2>1, <2>2
<1>7. ASSUME NEW e \in Saved, RunSavedExploration(e)
      PROVE  SpecInv'
  <2>1. The(saved[e]) \in saved[e]
    BY <1>7 DEF RunSavedExploration, The
  <2>2. AreTransformations(The(saved[e]).transformations)
    BY <1>1, <1>2, <2>1
  <2> QED BY <1>3, <1>7, <2>2 DEF RunSavedExploration
<1>8. ASSUME NEW q \in Queries, RunExploration(q) \/ RunQuery(q) \/ \E l \in Listings : ListRecords(q, l)
      PROVE  SpecInv'
  <2>1. AreTransformations(q.transformations)
    BY <1>1, <1>2
  <2> QED BY <1>3, <1>8, <2>1 DEF RunExploration, RunQuery, ListRecords
<1>9. ASSUME NEW x \in TableListings, ListTableRecords(x[1], x[2])
      PROVE  SpecInv'
  <2>1. AreTransformations(<<>>)
    <3>1. DOMAIN <<>> = {} /\ <<>> \in Seq({})
      OBVIOUS
    <3>2. ToSet(<<>>) = {}
      BY <3>1, Zenon DEF ToSet
    <3> QED BY <3>1, <3>2 DEF AreTransformations
  <2>2. Query(x[1], ColumnsToFetch(columns, x[1]), <<>>).transformations = <<>>
    BY DEF Query
  <2> QED BY <1>3, <1>9, <2>1, <2>2 DEF ListTableRecords
<1>10. CASE Close
  BY <1>10 DEF Close, SpecInv
<1>11. CASE FetchRecords \/ DescribeColumns \/ CountRecords \/ NextPage
  BY <1>5, <1>11 DEF FetchRecords, DescribeColumns, CountRecords, NextPage
<1>12. ASSUME NEW e \in Saved, NEW q, SaveExploration(e, q) \/ ReplaceExploration(e, q) \/ DeleteExploration(e)
       PROVE  SpecInv'
  BY <1>4, <1>12 DEF SaveExploration, ReplaceExploration, DeleteExploration
<1>13. CASE Change
  BY <1>4, <1>13 DEF Change
<1>14. CASE UNCHANGED vars
  BY <1>4, <1>14 DEF vars
<1> QED BY <1>6, <1>7, <1>8, <1>9, <1>10, <1>11, <1>12, <1>13, <1>14 DEF Next, InsertRow, DeleteRow, DropColumn

\* While a request is served, what it takes for its transformations are transformations
\* the library knows, summaries the server has completed included.
THEOREM SpecsAreTransformations == Spec => []SpecInv
<1>1. Init => SpecInv
  BY DEF Init, SpecInv
<1> QED BY <1>1, SpecInvIsKept, DatabasesStaySound, PTL DEF Spec

\* The aliases that the server works out for a query are, for every query, the columns
\* that the query has once it is transformed (unless it looks for duplicates).
THEOREM OutputAliasesAreColumnsHolds == Spec => []OutputAliasesAreColumns
<1>1. JoinsInv /\ SpecInv => OutputAliasesAreColumns
  <2> DEFINE q == [request.query EXCEPT !.transformations = spec]
             aliases == InputAliases(q, Len(spec) + 1)
  <2> SUFFICES ASSUME JoinsInv, SpecInv, phase \in {"records", "count"}, Current(spec) # Broken,
                      \A i \in DOMAIN spec : ~Is(spec[i], "duplicate_only"), aliases # <<>>
               PROVE  aliases = Current(spec).cols
    BY DEF OutputAliasesAreColumns
  <2>1. spec \in Seq(ToSet(spec)) /\ \A t \in ToSet(spec) : IsTransformation(t) /\ ~Is(t, "duplicate_only")
    BY DEF SpecInv, AreTransformations, ToSet
  <2>2. request.query.initial \in Seq(ToSet(request.query.initial)) /\ "transformations" \in DOMAIN request.query
    BY DEF JoinsInv, RequestInv, IsQuery
  <2> DEFINE r == InitialRelation(tables, columns, request.query)
             a == Aliases(request.query)
  <2>3. IsRelation(r) /\ AreAliasesOf(a, r)
    BY <2>2, InitialRelationIsOne
  <2>4. AreAliasesOf(AliasesAfter(a, spec), ApplyAll(r, spec))
    BY <2>1, <2>3, TransformationsGiveTheirAliases
  <2>5. ApplyAll(r, spec) = Current(spec)
    BY DEF Current, Transformed
  <2>6. q.initial = request.query.initial /\ q.transformations = spec
    BY <2>2
  <2>7. SubSeq(spec, 1, (Len(spec) + 1) - 1) = spec
    BY <2>1
  <2>8. aliases = AliasesAfter(a, spec)
    <3>1. Aliases(q) = a
      BY <2>6 DEF Aliases
    <3>2. aliases = FoldLeft(LAMBDA sofar, t : OutputAliases(t, sofar), Aliases(q), SubSeq(q.transformations, 1, (Len(spec) + 1) - 1))
      BY DEF InputAliases
    <3> HIDE DEF q, aliases
    <3> QED BY <2>6, <2>7, <3>1, <3>2 DEF AliasesAfter
  <2> HIDE DEF aliases, r
  <2> QED BY <2>4, <2>5, <2>8 DEF AreAliasesOf
<1> QED BY <1>1, DatabasesStaySound, SpecsAreTransformations, PTL

-----------------------------------------------------------------------------
\* Rows.

\* What has the positions of a list is one, as long.
LEMMA SamePositionsMakeAList ==
    ASSUME NEW X, NEW s \in Seq(X), NEW f, DOMAIN f = DOMAIN s, f = [i \in DOMAIN s |-> f[i]]
    PROVE  f \in Seq(ToSet(f)) /\ Len(f) = Len(s)
<1>1. DOMAIN s = 1 .. Len(s) /\ Len(s) \in Nat
  BY ListsHaveElements
<1>2. f \in [1 .. Len(s) -> ToSet(f)]
  BY <1>1 DEF ToSet
<1> QED BY <1>1, <1>2, ElementsMakeAList

\* A relation whose rows are listed.
HasRows(r) == r = Relation(r.cols, r.rows, r.json, r.keys) /\ \E X : r.rows \in Seq(X)
LEMMA BrokenHasRows == HasRows(Broken)
BY DEF HasRows, Broken, Relation
LEMMA OtherRows ==
    ASSUME NEW r, HasRows(r), NEW rows, NEW X, rows \in Seq(X)
    PROVE  HasRows([r EXCEPT !.rows = rows])
BY DEF HasRows, Relation
LEMMA NewRows ==
    ASSUME NEW cols, NEW rows, NEW json, NEW keys, NEW X, rows \in Seq(X)
    PROVE  HasRows(Relation(cols, rows, json, keys))
BY DEF HasRows, Relation

\* Filters, orders, searches and what looks for duplicates leave lists of rows.
LEMMA FilteredHasRows ==
    ASSUME NEW r, HasRows(r), NEW f
    PROVE  HasRows(Filtered(r, f))
<1>1. PICK X : r.rows \in Seq(X)
  BY DEF HasRows
<1> DEFINE at == {i \in DOMAIN r.rows : r.rows[i].vals[f.field] = f.value}
<1>2. Filtered(r, f) = Broken \/ Filtered(r, f) = [r EXCEPT !.rows = At(r.rows, at)]
  BY DEF Filtered, Those
<1>3. At(r.rows, at) \in Seq(X)
  BY <1>1, AtIsAList
<1> QED BY <1>2, <1>3, BrokenHasRows, OtherRows

LEMMA OrderedHasRows ==
    ASSUME NEW r, HasRows(r), NEW order
    PROVE  HasRows(Ordered(r, order))
<1>1. PICK X : r.rows \in Seq(X)
  BY DEF HasRows
<1> DEFINE orders == SetToSeq(Deterministic(r, order))
           Before(row, keys) == {i \in DOMAIN r.rows : RowBefore(r.rows[i], row, keys)}
           Ranks(row) == [n \in DOMAIN orders |-> Cardinality(Before(row, orders[n]))]
           rows == [i \in DOMAIN r.rows |-> [r.rows[i] EXCEPT !.rank = Ranks(r.rows[i])]]
<1>2. Ordered(r, order) = Broken \/ Ordered(r, order) = [r EXCEPT !.rows = rows]
  BY DEF Ordered, Each
<1>3. DOMAIN rows = DOMAIN r.rows /\ rows = [i \in DOMAIN r.rows |-> rows[i]]
  OBVIOUS
<1> HIDE DEF rows
<1>4. rows \in Seq(ToSet(rows))
  BY <1>1, <1>3, SamePositionsMakeAList
<1> QED BY <1>2, <1>4, BrokenHasRows, OtherRows

LEMMA DuplicateOnlyHasRows ==
    ASSUME NEW r, HasRows(r), NEW cols
    PROVE  HasRows(DuplicateOnly(r, cols))
<1>1. PICK X : r.rows \in Seq(X)
  BY DEF HasRows
<1> DEFINE Alike_(a, b) == \A c \in cols : a.vals[c] = b.vals[c]
           at == {i \in DOMAIN r.rows : Cardinality({j \in DOMAIN r.rows : Alike_(r.rows[j], r.rows[i])}) > 1}
           left == At(r.rows, at)
           rows == [i \in DOMAIN left |-> [left[i] EXCEPT !.vals = Single(IsDupe, <<1>>) ++ left[i].vals, !.rank = <<0>>]]
<1>2. DuplicateOnly(r, cols) = Broken \/ DuplicateOnly(r, cols) = [r EXCEPT !.cols = Append(r.cols, IsDupe), !.rows = rows]
  BY DEF DuplicateOnly, Each, Those
<1>3. left \in Seq(X)
  <2> HIDE DEF Alike_
  <2> QED BY <1>1, AtIsAList
<1>4. DOMAIN rows = DOMAIN left /\ rows = [i \in DOMAIN left |-> rows[i]]
  OBVIOUS
<1> HIDE DEF rows, left
<1>5. rows \in Seq(ToSet(rows))
  BY <1>3, <1>4, SamePositionsMakeAList
<1>6. HasRows([r EXCEPT !.cols = Append(r.cols, IsDupe), !.rows = rows])
  <2> DEFINE new == Append(r.cols, IsDupe)
             one == [r EXCEPT !.cols = new]
             both == [r EXCEPT !.cols = new, !.rows = rows]
  <2> HIDE DEF new
  <2>1. r = [cols |-> r.cols, rows |-> r.rows, json |-> r.json, keys |-> r.keys]
    BY DEF HasRows, Relation
  <2>2. one = [cols |-> new, rows |-> r.rows, json |-> r.json, keys |-> r.keys]
    BY <2>1
  <2>3. both = [one EXCEPT !.rows = rows]
    BY <2>1
  <2>4. both = [cols |-> new, rows |-> rows, json |-> r.json, keys |-> r.keys]
    <3> HIDE DEF one, both
    <3> QED BY <2>2, <2>3
  <2>5. HasRows(both)
    <3> HIDE DEF both
    <3> QED BY <1>5, <2>4, NewRows DEF Relation
  <2> QED BY <2>5 DEF new
<1> QED BY <1>2, <1>6, BrokenHasRows

LEMMA SearchedHasRows ==
    ASSUME NEW r, HasRows(r), NEW search
    PROVE  HasRows(Searched(r, search))
<1>1. PICK X : r.rows \in Seq(X)
  BY DEF HasRows
<1> DEFINE Total(row) == SumOf(DOMAIN search, LAMBDA c : Score(row.vals[c], search[c]))
           at == {i \in DOMAIN r.rows : Total(r.rows[i]) > 0}
           left == At(r.rows, at)
           rows == [i \in DOMAIN left |-> [left[i] EXCEPT !.rank = <<4 * Cardinality(DOMAIN search) - Total(left[i])>>]]
<1>2. Searched(r, search) = Broken \/ Searched(r, search) = [r EXCEPT !.rows = rows]
  BY DEF Searched, Each, Those
<1>3. left \in Seq(X)
  <2> HIDE DEF Total
  <2> QED BY <1>1, AtIsAList
<1>4. DOMAIN rows = DOMAIN left /\ rows = [i \in DOMAIN left |-> rows[i]]
  OBVIOUS
<1> HIDE DEF rows, left
<1>5. rows \in Seq(ToSet(rows))
  BY <1>3, <1>4, SamePositionsMakeAList
<1> QED BY <1>2, <1>5, BrokenHasRows, OtherRows

\* So do selecting columns, summarizing and grouping.
LEMMA SelectedHasRows ==
    ASSUME NEW r, HasRows(r), NEW aliases
    PROVE  HasRows(Selected(r, aliases))
<1>1. PICK X : r.rows \in Seq(X)
  BY DEF HasRows
<1> DEFINE rows == [i \in DOMAIN r.rows |-> [r.rows[i] EXCEPT !.vals = Restrict(r.rows[i].vals, ToSet(aliases))]]
           keys == r.keys \intersect ToSet(aliases)
<1>2. Selected(r, aliases) \in {Broken, r, Relation(aliases, rows, r.json, keys)}
  BY DEF Selected, Each
<1>3. DOMAIN rows = DOMAIN r.rows /\ rows = [i \in DOMAIN r.rows |-> rows[i]]
  OBVIOUS
<1> HIDE DEF rows
<1>4. rows \in Seq(ToSet(rows))
  BY <1>1, <1>3, SamePositionsMakeAList
<1>5. HasRows(Relation(aliases, rows, r.json, keys))
  BY <1>4, NewRows
<1> QED BY <1>2, <1>5, BrokenHasRows

LEMMA SummarizedHasRows ==
    ASSUME NEW r, HasRows(r), NEW s
    PROVE  HasRows(Summarized(r, s))
<1>1. PICK X : r.rows \in Seq(X)
  BY DEF HasRows
<1> DEFINE g == s.grouping
           a == s.aggregation
           KeyOf(row) == Each(LAMBDA x : Preprocessed(x.preproc, row.vals[x.in]), g)
           Members(k) == SelectSeq(r.rows, LAMBDA row : KeyOf(row) = k)
           Values(k, x) == Each(LAMBDA row : row.vals[x.in], Members(k))
           out == Outputs(g) \o Outputs(a)
           Summary(k) == Row([alias \in ToSet(out) |->
               LET i == CHOOSE n \in DOMAIN out : out[n] = alias
               IN IF i <= Len(g) THEN k[i]
                  ELSE Aggregate(a[i - Len(g)].function, Values(k, a[i - Len(g)]))])
           keys == {KeyOf(r.rows[i]) : i \in DOMAIN r.rows}
<1>2. Summarized(r, s) = Broken
      \/ \E cols, f, left :
                      /\ Summarized(r, s) = Relation(cols, f, {}, left)
                      /\ DOMAIN f = DOMAIN SetToSeq(keys) /\ f = [i \in DOMAIN SetToSeq(keys) |-> f[i]]
  <2> DEFINE f == Each(Summary, SetToSeq(keys))
  <2>1. Summarized(r, s) = Broken \/ Summarized(r, s) = Relation(out, f, {}, KeysGroupedBy(r, g))
    BY DEF Summarized
  <2>2. f = [i \in DOMAIN SetToSeq(keys) |-> Summary(SetToSeq(keys)[i])]
    BY DEF Each
  <2> HIDE DEF Summary, out, keys
  <2>3. DOMAIN f = DOMAIN SetToSeq(keys) /\ f = [i \in DOMAIN SetToSeq(keys) |-> f[i]]
    BY <2>2
  <2> HIDE DEF f
  <2> QED BY <2>1, <2>3
<1>3. IsFiniteSet(keys)
  <2>1. DOMAIN r.rows = 1 .. Len(r.rows) /\ Len(r.rows) \in Nat
    BY <1>1, ListsHaveElements
  <2>2. IsFiniteSet(DOMAIN r.rows)
    BY <2>1, FS_Interval
  <2> DEFINE f == [i \in DOMAIN r.rows |-> KeyOf(r.rows[i])]
  <2> HIDE DEF KeyOf
  <2>3. f \in Surjection(DOMAIN r.rows, keys)
    BY DEF Surjection
  <2> HIDE DEF f, keys
  <2> QED BY <2>2, <2>3, FS_Surjection
<1> HIDE DEF keys
<1>4. SetToSeq(keys) \in Seq(keys)
  BY <1>3, SetToSeqIsAList
<1>5. CASE Summarized(r, s) = Broken
  BY <1>5, BrokenHasRows
<1>6. ASSUME NEW cols, NEW f, NEW left, Summarized(r, s) = Relation(cols, f, {}, left),
             DOMAIN f = DOMAIN SetToSeq(keys), f = [i \in DOMAIN SetToSeq(keys) |-> f[i]]
      PROVE  HasRows(Summarized(r, s))
  <2>1. f \in Seq(ToSet(f))
    BY <1>4, <1>6, SamePositionsMakeAList
  <2> QED BY <1>6, <2>1, NewRows
<1> QED BY <1>2, <1>5, <1>6

LEMMA GroupedHasRows ==
    ASSUME NEW r, HasRows(r), NEW g
    PROVE  HasRows(GroupedBy(r, g))
<1>1. PICK X : r.rows \in Seq(X)
  BY DEF HasRows
<1> DEFINE left == RowsInGroups(r.rows, g)
           at == {i \in DOMAIN r.rows : GroupKey(r.rows, r.rows[i], g) # <<None>>}
           rows == WithKeys(r.rows, left, g)
           cols == IF g.mode \in Ranged THEN SetToSeq(ToSet(g.columns)) ELSE r.cols
<1>2. left \in Seq(X)
  <2>1. left = r.rows \/ left = At(r.rows, at)
    BY DEF RowsInGroups, Those
  <2>2. At(r.rows, at) \in Seq(X)
    BY <1>1, AtIsAList
  <2> QED BY <1>1, <2>1, <2>2
<1>3. DOMAIN rows = DOMAIN left /\ rows = [i \in DOMAIN left |-> rows[i]]
  <2> HIDE DEF left
  <2> QED BY DEF WithKeys, WithGroups
<1>4. GroupedBy(r, g) = Broken \/ GroupedBy(r, g) = [Selected(r, cols) EXCEPT !.rows = rows]
  BY DEF GroupedBy, Grouped
<1> HIDE DEF rows, left, cols
<1>5. rows \in Seq(ToSet(rows))
  BY <1>2, <1>3, SamePositionsMakeAList
<1>6. HasRows(Selected(r, cols))
  BY SelectedHasRows
<1> QED BY <1>4, <1>5, <1>6, BrokenHasRows, OtherRows

\* The initial relation, transformed and listed, has a list of rows.
LEMMA InitialRelationHasRows ==
    ASSUME NEW db, NEW left, NEW q, IsDatabase(db, left), IsQuery(db, q)
    PROVE  HasRows(InitialRelation(db, left, q))
<1>1. CASE ~(Uses(q) \subseteq left)
  BY <1>1, BrokenHasRows DEF InitialRelation
<1>2. CASE Uses(q) \subseteq left
  <2> DEFINE Value(joined, c) == IF joined[c.path] = None THEN None ELSE joined[c.path][c.column[2]]
             ColumnOf(alias) == q.initial[CHOOSE i \in DOMAIN q.initial : q.initial[i].alias = alias]
             Line(joined) == Row([alias \in ToSet(Aliases(q)) |-> Value(joined, ColumnOf(alias))])
             rows == [i \in DOMAIN Joined(db, q) |-> Line(Joined(db, q)[i])]
             json == {a \in ToSet(Aliases(q)) : ColumnOf(a).column \in JsonColumns}
             keys == {a \in ToSet(Aliases(q)) : ColumnOf(a).column \in PrimaryKeys}
  <2>1. InitialRelation(db, left, q) = Relation(Aliases(q), rows, json, keys)
    BY <1>2 DEF InitialRelation, Each
  <2> HIDE DEF Line, json, keys
  <2>2. PICK K : Joined(db, q) \in Seq(K)
    BY <1>2, JoinedKeepsLength
  <2>3. DOMAIN rows = DOMAIN Joined(db, q) /\ rows = [i \in DOMAIN Joined(db, q) |-> rows[i]]
    OBVIOUS
  <2> HIDE DEF rows
  <2>4. rows \in Seq(ToSet(rows))
    BY <2>2, <2>3, SamePositionsMakeAList
  <2> QED BY <2>1, <2>4, NewRows
<1> QED BY <1>1, <1>2

LEMMA AppliedHasRows ==
    ASSUME NEW r, HasRows(r), NEW t, IsTransformation(t)
    PROVE  HasRows(Apply(r, t))
<1>1. CASE r = Broken
  BY <1>1, BrokenHasRows DEF Apply
<1>2. CASE r # Broken
  <2>1. PICK kind \in {"filter", "order", "duplicate_only", "search", "select", "hide", "summarize"} : DOMAIN t = {kind}
    BY DEF IsTransformation
  <2>2. Apply(r, t) \in {Filtered(r, t.filter), Ordered(r, t.order), DuplicateOnly(r, t.duplicate_only),
                         Searched(r, t.search), Selected(r, t.select), Selected(r, NotHidden(r.cols, t.hide)),
                         Summarized(r, t.summarize)}
    <3>1. kind = "filter" \/ kind = "order" \/ kind = "duplicate_only" \/ kind = "search"
          \/ kind = "select" \/ kind = "hide" \/ kind = "summarize"
      BY <2>1
    <3>2. CASE kind = "filter"
      BY <1>2, <2>1, <3>2 DEF Apply, Is
    <3>3. CASE kind = "order"
      BY <1>2, <2>1, <3>3 DEF Apply, Is
    <3>4. CASE kind = "duplicate_only"
      BY <1>2, <2>1, <3>4 DEF Apply, Is
    <3>5. CASE kind = "search"
      BY <1>2, <2>1, <3>5 DEF Apply, Is
    <3>6. CASE kind = "select"
      BY <1>2, <2>1, <3>6 DEF Apply, Is
    <3>7. CASE kind = "hide"
      BY <1>2, <2>1, <3>7 DEF Apply, Is
    <3>8. CASE kind = "summarize"
      BY <1>2, <2>1, <3>8 DEF Apply, Is
    <3> QED BY <3>1, <3>2, <3>3, <3>4, <3>5, <3>6, <3>7, <3>8
  <2> QED BY <2>2, FilteredHasRows, OrderedHasRows, DuplicateOnlyHasRows, SearchedHasRows, SelectedHasRows, SummarizedHasRows
<1> QED BY <1>1, <1>2

LEMMA TransformedHasRows ==
    ASSUME NEW db, NEW left, NEW q, IsDatabase(db, left), IsQuery(db, q), NEW ts, AreTransformations(ts)
    PROVE  HasRows(Transformed(db, left, q, ts))
<1> DEFINE N == Len(ts)
           r == InitialRelation(db, left, q)
<1>0. ts \in Seq(ToSet(ts)) /\ N \in Nat /\ \A i \in 1 .. N : IsTransformation(ts[i])
  BY ListsHaveElements DEF AreTransformations
<1>1. PICK g : /\ g[0] = r
               /\ \A k \in 1 .. N : g[k] = StepOf("apply", 0, g[k - 1], ts[k])
               /\ FoldOf("apply", 0, r, ts) = g[N]
  <2> HIDE DEF r, N
  <2>1. ts \in Seq(ToSet(ts))
    BY <1>0
  <2>2. \E g : /\ g[0] = r
               /\ \A k \in 1 .. Len(ts) : g[k] = StepOf("apply", 0, g[k - 1], ts[k])
               /\ FoldOf("apply", 0, r, ts) = g[Len(ts)]
    BY <2>1, FoldsGoStepByStep
  <2> QED BY <2>2 DEF N
<1> DEFINE Good == {k \in 0 .. N : HasRows(g[k])}
<1>3. 0 \in Good
  BY <1>0, <1>1, InitialRelationHasRows
<1>4. ASSUME NEW k \in 1 .. N, k - 1 \in Good
      PROVE  k \in Good
  <2>1. HasRows(g[k - 1])
    BY <1>4
  <2>2. g[k] = Apply(g[k - 1], ts[k])
    BY <1>1 DEF StepOf
  <2>3. HasRows(g[k])
    BY <1>0, <2>1, <2>2, AppliedHasRows
  <2>4. k \in 0 .. N
    BY <1>0
  <2> QED BY <2>3, <2>4
<1>5. N \in Good
  <2> HIDE DEF Good, N
  <2> QED BY <1>0, <1>3, <1>4, StepsKeep
<1> QED BY <1>1, <1>5 DEF FoldOf, Transformed

LEMMA ListedHasRows ==
    ASSUME NEW r, HasRows(r), NEW p, NEW fallback
    PROVE  HasRows(Listed(r, p, fallback))
<1> DEFINE steps == <<"filter", "duplicates", "group", "order", "search">>
           S == {"filter", "duplicates", "group", "order", "search"}
           given == <<p, fallback>>
<1>0. steps \in Seq(S) /\ Len(steps) = 5
  OBVIOUS
<1>1. given[1] = p /\ given[2] = fallback
  OBVIOUS
<1>2. Listed(r, p, fallback) = ListedAfter(p, fallback, r, steps)
  BY DEF Listed, ListedAfter, ListingStep
<1> HIDE DEF steps, given
<1>3. PICK g : /\ g[0] = r
               /\ \A k \in 1 .. 5 : g[k] = StepOf("listing", given, g[k - 1], steps[k])
               /\ FoldOf("listing", given, r, steps) = g[5]
  <2>1. steps \in Seq(S)
    BY <1>0
  <2>2. \E g : /\ g[0] = r
               /\ \A k \in 1 .. Len(steps) : g[k] = StepOf("listing", given, g[k - 1], steps[k])
               /\ FoldOf("listing", given, r, steps) = g[Len(steps)]
    BY <2>1, FoldsGoStepByStep
  <2> QED BY <1>0, <2>2
<1>4. ASSUME NEW x, HasRows(x), NEW step
      PROVE  HasRows(ListingStep(p, fallback, x, step))
  <2>1. ListingStep(p, fallback, x, step) \in
            {x, Filtered(x, The(p.filter)), DuplicateOnly(x, p.duplicates), GroupedBy(x, The(p.group)),
             Ordered(x, p.order), Searched(x, The(p.search))}
    BY DEF ListingStep
  <2> QED BY <1>4, <2>1, FilteredHasRows, DuplicateOnlyHasRows, GroupedHasRows, OrderedHasRows, SearchedHasRows
<1> DEFINE Good == {k \in 0 .. 5 : HasRows(g[k])}
<1>5. 0 \in Good
  BY <1>3
<1>6. ASSUME NEW k \in 1 .. 5, k - 1 \in Good
      PROVE  k \in Good
  <2>1. HasRows(g[k - 1])
    BY <1>6
  <2>2. g[k] = ListingStep(p, fallback, g[k - 1], steps[k])
    BY <1>1, <1>3 DEF StepOf
  <2>3. HasRows(g[k])
    BY <1>4, <2>1, <2>2
  <2> QED BY <2>3
<1>7. 5 \in Good
  <2> HIDE DEF Good
  <2> QED BY <1>5, <1>6, StepsKeep
<1> QED BY <1>1, <1>2, <1>3, <1>7 DEF FoldOf

-----------------------------------------------------------------------------
\* Pages.

LEMMA MinOfTwo ==
    ASSUME NEW a \in Int, NEW b \in Int
    PROVE  Min({a, b}) \in {a, b} /\ Min({a, b}) <= a /\ Min({a, b}) <= b
<1>1. \E m \in {a, b} : \A k \in {a, b} : m <= k
  OBVIOUS
<1> QED BY <1>1 DEF Min

\* A slice is no longer than the limit.
LEMMA SlicesAreLimited ==
    ASSUME NEW X, NEW s \in Seq(X), NEW offset \in Nat
    PROVE  /\ Slice(s, offset) \in Seq(X)
           /\ Len(Slice(s, offset)) <= Limit
<1> DEFINE m == offset + 1
           n == Min({offset + Limit, Len(s)})
<1>1. Len(s) \in Nat /\ DOMAIN s = 1 .. Len(s) /\ \A i \in 1 .. Len(s) : s[i] \in X
  BY ListsHaveElements
<1>2. Limit \in Nat
  BY ExplorationsAssumption
<1>3. m \in Nat /\ 1 <= m /\ n \in Int /\ n <= offset + Limit /\ n <= Len(s)
  <2>1. offset + Limit \in Int /\ Len(s) \in Int
    BY <1>1, <1>2
  <2>2. n \in {offset + Limit, Len(s)} /\ n <= offset + Limit /\ n <= Len(s)
    BY <2>1, MinOfTwo
  <2> HIDE DEF n
  <2> QED BY <2>1, <2>2
<1>4. Slice(s, offset) = SubSeq(s, m, n)
  BY DEF Slice
<1> HIDE DEF n
<1>5. SubSeq(s, m, n) \in Seq(X) /\ Len(SubSeq(s, m, n)) = IF m <= n THEN n - m + 1 ELSE 0
  <2>1. \A i \in m .. n : s[i] \in X
    BY <1>1, <1>3
  <2> HIDE DEF m
  <2> QED BY <1>1, <1>3, <2>1
<1> QED BY <1>2, <1>3, <1>4, <1>5

LEMMA PagesAreLimited ==
    ASSUME NEW r, HasRows(r), NEW p, NEW offset \in Nat, NEW page \in Pages(r, p, offset)
    PROVE  Len(page) <= Limit /\ Len(page) \in Nat /\ \E X : page \in Seq(X)
<1>1. PICK X : r.rows \in Seq(X)
  BY DEF HasRows
<1>2. PICK a \in Arrangements(r.rows) : page = Slice(IF p.search = {} THEN a ELSE Slice(a, 0), offset)
  BY DEF Pages
<1>3. a \in Seq(ToSet(a))
  <2>1. DOMAIN a = DOMAIN r.rows /\ a = [i \in DOMAIN r.rows |-> a[i]]
    BY <1>2 DEF Arrangements
  <2> QED BY <1>1, <2>1, SamePositionsMakeAList
<1>4. Slice(a, 0) \in Seq(ToSet(a))
  BY <1>3, SlicesAreLimited
<1>5. page \in Seq(ToSet(a)) /\ Len(page) <= Limit
  BY <1>2, <1>3, <1>4, SlicesAreLimited
<1> QED BY <1>5, ListsHaveElements

\* Taking the previews out leaves a page as long as it was.
LEMMA WithoutPreviewsIsAsLong ==
    ASSUME NEW info, NEW X, NEW page \in Seq(X)
    PROVE  Len(WithoutPreviews(info, page)) = Len(page)
<1> DEFINE f == [i \in DOMAIN page |-> [page[i] EXCEPT !.vals = Restrict(page[i].vals, DOMAIN page[i].vals \ PreviewAliases(info))]]
<1>1. WithoutPreviews(info, page) = f
  BY DEF WithoutPreviews, Each
<1>2. DOMAIN f = DOMAIN page /\ f = [i \in DOMAIN page |-> f[i]]
  OBVIOUS
<1> HIDE DEF f
<1> QED BY <1>1, <1>2, SamePositionsMakeAList

-----------------------------------------------------------------------------
\* Type correctness.

\* A request counts and fetches what is there: lists of rows.
Counting == Counted(Transformed(tables, columns, CountedQuery, spec), request.listing)
LEMMA ResultsHaveRows ==
    ASSUME JoinsInv, SpecInv, phase # "idle"
    PROVE  HasRows(Result) /\ HasRows(Counting)
<1>1. IsDatabase(tables, columns) /\ IsQuery(tables, request.query) /\ AreTransformations(spec)
  BY DEF JoinsInv, DatabaseInv, RequestInv, SpecInv
<1>2. HasRows(Result)
  <2>1. HasRows(Current(spec))
    BY <1>1, TransformedHasRows DEF Current
  <2> QED BY <2>1, ListedHasRows DEF Result
<1>3. IsQuery(tables, CountedQuery)
  <2> DEFINE q == request.query
             all == q.initial
             at == {i \in DOMAIN all : all[i].path = <<>>}
             initial == IF request.kind = "table" THEN At(all, at) ELSE all
  <2>1. CountedQuery = [q EXCEPT !.initial = initial]
    BY DEF CountedQuery, Those
  <2>2. /\ DOMAIN q = {"base", "initial", "transformations"}
        /\ all \in Seq(ToSet(all)) /\ \A c \in ToSet(all) : c.path \in Seq(ToSet(c.path))
    BY <1>1 DEF IsQuery
  <2>3. initial \in Seq(ToSet(initial)) /\ ToSet(initial) \subseteq ToSet(all)
    <3>1. At(all, at) \in Seq(ToSet(all))
      <4> HIDE DEF all
      <4> QED BY <2>2, AtIsAList
    <3>2. initial \in Seq(ToSet(all))
      BY <2>2, <3>1
    <3> HIDE DEF initial, all
    <3> QED BY <3>2, ListsAreOfTheirElements
  <2> HIDE DEF initial, all
  <2>4. DOMAIN CountedQuery = DOMAIN q /\ CountedQuery.initial = initial
        /\ CountedQuery.base = q.base /\ CountedQuery.transformations = q.transformations
    BY <2>1, <2>2
  <2> HIDE DEF q
  <2> QED BY <1>1, <2>2, <2>3, <2>4 DEF IsQuery, q
<1>4. HasRows(Counting)
  <2>1. HasRows(Transformed(tables, columns, CountedQuery, spec))
    BY <1>1, <1>3, TransformedHasRows
  <2> QED BY <2>1, ListedHasRows DEF Counting, Counted
<1> QED BY <1>2, <1>4

PagesInv ==
    /\ count \in Nat
    /\ pages \in Seq(ToSet(pages)) /\ \A page \in ToSet(pages) : Len(page.rows) <= Limit
    /\ phase # "idle" => "offset" \in DOMAIN request /\ request.offset \in Nat
SavedInv == \A e \in Saved : saved[e] \subseteq SavedQueries /\ Cardinality(saved[e]) <= 1
PhaseInv == phase \in Phases /\ (phase = "idle" <=> request = NoRequest)
ChangesInv == columns \subseteq Columns /\ changes \in 0..MaxChanges /\ quiet \in BOOLEAN
LEMMA TypesFollow == SavedInv /\ PhaseInv /\ ChangesInv /\ PagesInv => TypeOK
<1> SUFFICES ASSUME SavedInv, PhaseInv, ChangesInv, PagesInv PROVE TypeOK
  OBVIOUS
<1>1. \A i \in DOMAIN pages : Len(pages[i].rows) <= Limit
  BY DEF PagesInv, ToSet
<1> QED BY <1>1 DEF SavedInv, PhaseInv, ChangesInv, PagesInv, TypeOK

LEMMA FetchKeepsPagesInv ==
    ASSUME JoinsInv, SpecInv, PagesInv, FetchRecords
    PROVE  PagesInv'
<1>1. phase = "records" /\ UNCHANGED <<request, count>>
  BY DEF FetchRecords
<1>2. HasRows(Result) /\ request.offset \in Nat
  BY <1>1, ResultsHaveRows DEF PagesInv
<1>3. CASE UNCHANGED pages
  BY <1>1, <1>3 DEF PagesInv
<1>4. ASSUME NEW page \in Pages(Result, request.listing, request.offset), AnswerPage(page), ~UNCHANGED pages
      PROVE  PagesInv'
  <2> DEFINE new == [rows |-> WithoutPreviews(request.previews, page),
                     groups |-> GroupsOfPage(page),
                     previews |-> PreviewsOfPage(request.previews, page)]
             X == ToSet(pages) \cup {new}
  <2>1. pages' = Append(pages, new)
    BY <1>4 DEF AnswerPage
  <2>2. Len(new.rows) <= Limit
    <3>1. Len(page) <= Limit /\ \E Y : page \in Seq(Y)
      BY <1>2, PagesAreLimited
    <3>2. Len(WithoutPreviews(request.previews, page)) <= Limit
      BY <3>1, WithoutPreviewsIsAsLong
    <3> QED BY <3>2
  <2> HIDE DEF new
  <2>3. pages \in Seq(X) /\ new \in X /\ \A p \in X : Len(p.rows) <= Limit
    BY <2>2, SeqMonotonic DEF PagesInv
  <2> HIDE DEF X
  <2>4. pages' \in Seq(X)
    BY <2>1, <2>3
  <2>5. pages' \in Seq(ToSet(pages')) /\ ToSet(pages') \subseteq X
    BY <2>4, ListsAreOfTheirElements
  <2> QED BY <1>1, <2>3, <2>5 DEF PagesInv, ToSet
<1> QED BY <1>3, <1>4 DEF FetchRecords

LEMMA CountKeepsPagesInv ==
    ASSUME JoinsInv, SpecInv, PagesInv, CountRecords
    PROVE  PagesInv'
<1>1. phase = "count" /\ UNCHANGED <<request, pages>>
  BY DEF CountRecords
<1>2. UNCHANGED count \/ count' = Len(Counting.rows)
  BY DEF CountRecords, Counting
<1>3. Len(Counting.rows) \in Nat
  <2>1. HasRows(Counting)
    BY <1>1, ResultsHaveRows
  <2> QED BY <2>1, ListsHaveElements DEF HasRows
<1> QED BY <1>1, <1>2, <1>3 DEF PagesInv, ToSet

LEMMA PagesInvIsKept == JoinsInv /\ SpecInv /\ PagesInv /\ [Next]_vars => PagesInv'
<1> SUFFICES ASSUME JoinsInv, SpecInv, PagesInv, [Next]_vars PROVE PagesInv'
  OBVIOUS
<1>1. CASE UNCHANGED <<count, pages, request, phase>>
  BY <1>1 DEF PagesInv, ToSet
<1>2. ASSUME UNCHANGED <<count, pages>>, "offset" \in DOMAIN request' /\ request'.offset \in Nat
      PROVE  PagesInv'
  BY <1>2 DEF PagesInv, ToSet
<1>3. ASSUME NEW kind, NEW q, NEW listing, NEW previews, NEW first, Ask(kind, q, listing, previews, first)
      PROVE  PagesInv'
  <2>1. UNCHANGED <<count, pages>> /\ DOMAIN request' = {"kind", "query", "listing", "offset", "names", "previews"} /\ request'.offset = 0
    BY <1>3 DEF Ask, answers
  <2> QED BY <1>2, <2>1
<1>4. CASE Change
  BY <1>1, <1>4 DEF Change, answers
<1>5. CASE Close
  <2>1. count' = 0 /\ pages' = <<>> /\ phase' = "idle"
    BY <1>5 DEF Close
  <2>2. <<>> \in Seq(ToSet(<<>>)) /\ ToSet(<<>>) = {}
    BY DEF ToSet
  <2> QED BY <2>1, <2>2 DEF PagesInv
<1>6. CASE FinishSummaries \/ DescribeColumns
  <2>1. phase # "idle" /\ UNCHANGED <<count, pages, request>>
    BY <1>6 DEF FinishSummaries, DescribeColumns, answers
  <2> QED BY <1>2, <2>1 DEF PagesInv
<1>7. CASE ProcessTransformations \/ NextPage
  <2>1. phase # "idle" /\ UNCHANGED <<count, pages>>
    BY <1>7 DEF ProcessTransformations, NextPage, answers
  <2>2. "offset" \in DOMAIN request /\ request.offset \in Nat /\ Limit \in Nat
    BY <2>1, ExplorationsAssumption DEF PagesInv
  <2>3. request' = request \/ (\E x : request' = [request EXCEPT !.names = x]) \/ request' = [request EXCEPT !.offset = request.offset + Limit]
    BY <1>7 DEF ProcessTransformations, NextPage
  <2>4. "offset" \in DOMAIN request' /\ request'.offset \in {request.offset, request.offset + Limit}
    BY <2>2, <2>3
  <2> QED BY <1>2, <2>1, <2>2, <2>4
<1>8. ASSUME NEW e \in Saved, NEW q, SaveExploration(e, q) \/ ReplaceExploration(e, q) \/ DeleteExploration(e)
      PROVE  PagesInv'
  BY <1>1, <1>8 DEF SaveExploration, ReplaceExploration, DeleteExploration, answers
<1>9. CASE UNCHANGED vars
  BY <1>1, <1>9 DEF vars, answers
<1> QED BY <1>3, <1>4, <1>5, <1>6, <1>7, <1>8, <1>9, FetchKeepsPagesInv, CountKeepsPagesInv
       DEF Next, InsertRow, DeleteRow, DropColumn, RunSavedExploration, RunExploration, RunQuery, ListRecords, ListTableRecords

LEMMA SavedInvIsKept == JoinsInv /\ SavedInv /\ [Next]_vars => SavedInv'
<1> SUFFICES ASSUME JoinsInv, SavedInv, [Next]_vars PROVE SavedInv'
  OBVIOUS
<1>1. saved = [e \in Saved |-> saved[e]]
  BY DEF JoinsInv, RequestInv
<1>2. CASE UNCHANGED saved
  BY <1>2 DEF SavedInv
<1>3. ASSUME NEW e \in Saved, NEW q \in SavedQueries, SaveExploration(e, q) \/ ReplaceExploration(e, q)
      PROVE  SavedInv'
  <2>1. saved' = [saved EXCEPT ![e] = {q}]
    BY <1>3 DEF SaveExploration, ReplaceExploration
  <2>2. {q} \subseteq SavedQueries /\ Cardinality({q}) <= 1
    BY FS_Singleton
  <2>3. \A f \in Saved : saved'[f] = IF f = e THEN {q} ELSE saved[f]
    BY <1>1, <2>1
  <2> QED BY <2>2, <2>3 DEF SavedInv
<1>4. ASSUME NEW e \in Saved, DeleteExploration(e)
      PROVE  SavedInv'
  <2>1. saved' = [saved EXCEPT ![e] = {}]
    BY <1>4 DEF DeleteExploration
  <2>2. Cardinality({}) <= 1
    BY FS_EmptySet
  <2>3. \A f \in Saved : saved'[f] = IF f = e THEN {} ELSE saved[f]
    BY <1>1, <2>1
  <2> QED BY <2>2, <2>3 DEF SavedInv
<1>5. ASSUME NEW kind, NEW q, NEW listing, NEW previews, NEW first, Ask(kind, q, listing, previews, first)
      PROVE  UNCHANGED saved
  BY <1>5 DEF Ask
<1>6. CASE FinishSummaries \/ ProcessTransformations \/ FetchRecords \/ DescribeColumns \/ CountRecords \/ NextPage \/ Close \/ Change
  BY <1>2, <1>6 DEF FinishSummaries, ProcessTransformations, FetchRecords, DescribeColumns, CountRecords, NextPage, Close, Change
<1>7. CASE UNCHANGED vars
  BY <1>2, <1>7 DEF vars
<1> QED BY <1>2, <1>3, <1>4, <1>5, <1>6, <1>7
       DEF Next, InsertRow, DeleteRow, DropColumn, RunSavedExploration, RunExploration, RunQuery, ListRecords, ListTableRecords

LEMMA PhaseInvIsKept == JoinsInv /\ PhaseInv /\ [Next]_vars => PhaseInv'
<1> SUFFICES ASSUME JoinsInv, PhaseInv, [Next]_vars PROVE PhaseInv'
  OBVIOUS
<1>1. CASE UNCHANGED <<phase, request>>
  BY <1>1 DEF PhaseInv
<1>2. ASSUME "query" \in DOMAIN request', phase' \in Phases \ {"idle"}
      PROVE  PhaseInv'
  <2>1. request' # NoRequest
    BY <1>2 DEF NoRequest
  <2> QED BY <1>2, <2>1 DEF PhaseInv
<1>3. ASSUME NEW kind, NEW q, NEW listing, NEW previews, NEW first \in {"specify", "count", "failed"},
             Ask(kind, q, listing, previews, first)
      PROVE  PhaseInv'
  <2>1. phase' = first /\ DOMAIN request' = {"kind", "query", "listing", "offset", "names", "previews"}
    BY <1>3 DEF Ask
  <2> QED BY <1>2, <2>1 DEF Phases
<1>4. ASSUME FinishSummaries \/ ProcessTransformations \/ FetchRecords \/ DescribeColumns \/ CountRecords \/ NextPage
      PROVE  PhaseInv'
  <2>1. phase # "idle" /\ phase' \in Phases \ {"idle"}
    <3>1. FinishSummaries => phase # "idle" /\ phase' \in Phases \ {"idle"}
      BY DEF FinishSummaries, Phases
    <3>2. ProcessTransformations => phase # "idle" /\ phase' \in Phases \ {"idle"}
      BY DEF ProcessTransformations, Phases
    <3>3. FetchRecords => phase # "idle" /\ phase' \in Phases \ {"idle"}
      BY DEF FetchRecords, AnswerPage, Phases
    <3>4. DescribeColumns => phase # "idle" /\ phase' \in Phases \ {"idle"}
      BY DEF DescribeColumns, Phases
    <3>5. CountRecords => phase # "idle" /\ phase' \in Phases \ {"idle"}
      BY DEF CountRecords, Phases
    <3>6. NextPage => phase # "idle" /\ phase' \in Phases \ {"idle"}
      BY DEF NextPage, Phases
    <3> QED BY <1>4, <3>1, <3>2, <3>3, <3>4, <3>5, <3>6
  <2>2. "query" \in DOMAIN request
    BY <2>1 DEF JoinsInv, RequestInv
  <2>3. \/ UNCHANGED request
        \/ \E x : request' = [request EXCEPT !.offset = x]
        \/ \E x : request' = [request EXCEPT !.names = x]
    BY <1>4 DEF FinishSummaries, ProcessTransformations, FetchRecords, DescribeColumns, CountRecords, NextPage
  <2>4. "query" \in DOMAIN request'
    BY <2>2, <2>3
  <2> QED BY <1>2, <2>1, <2>4
<1>5. CASE Close
  BY <1>5 DEF Close, PhaseInv, Phases
<1>6. CASE Change
  BY <1>1, <1>6 DEF Change
<1>7. ASSUME NEW e \in Saved, NEW q, SaveExploration(e, q) \/ ReplaceExploration(e, q) \/ DeleteExploration(e)
      PROVE  PhaseInv'
  BY <1>1, <1>7 DEF SaveExploration, ReplaceExploration, DeleteExploration
<1>8. CASE UNCHANGED vars
  BY <1>1, <1>8 DEF vars
<1>9. ASSUME NEW e \in Saved, RunSavedExploration(e)
      PROVE  PhaseInv'
  BY <1>3, <1>9 DEF RunSavedExploration
<1> QED BY <1>3, <1>4, <1>5, <1>6, <1>7, <1>8, <1>9
       DEF Next, InsertRow, DeleteRow, DropColumn, RunExploration, RunQuery, ListRecords, ListTableRecords

LEMMA ChangesInvIsKept == ChangesInv /\ [Next]_vars => ChangesInv'
<1> SUFFICES ASSUME ChangesInv, [Next]_vars PROVE ChangesInv'
  OBVIOUS
<1>1. CASE UNCHANGED <<columns, changes>> /\ quiet' \in {TRUE, quiet}
  BY <1>1 DEF ChangesInv
<1>2. CASE Change /\ columns' \subseteq columns
  <2>1. changes \in 0 .. MaxChanges /\ MaxChanges \in Nat /\ changes < MaxChanges /\ changes' = changes + 1
    BY <1>2, ExplorationsAssumption DEF ChangesInv, Change
  <2>2. changes' \in 0 .. MaxChanges
    BY <2>1
  <2> QED BY <1>2, <2>2 DEF ChangesInv, Change
<1>3. ASSUME NEW kind, NEW q, NEW listing, NEW previews, NEW first, Ask(kind, q, listing, previews, first)
      PROVE  ChangesInv'
  BY <1>1, <1>3 DEF Ask, database
<1>4. CASE FinishSummaries \/ ProcessTransformations \/ FetchRecords \/ DescribeColumns \/ CountRecords \/ NextPage \/ Close
  BY <1>1, <1>4 DEF FinishSummaries, ProcessTransformations, FetchRecords, DescribeColumns, CountRecords, NextPage, Close, database
<1>5. ASSUME NEW e \in Saved, NEW q, SaveExploration(e, q) \/ ReplaceExploration(e, q) \/ DeleteExploration(e)
      PROVE  ChangesInv'
  BY <1>1, <1>5 DEF SaveExploration, ReplaceExploration, DeleteExploration, database
<1>6. CASE UNCHANGED vars
  BY <1>1, <1>6 DEF vars, database
<1>7. ASSUME NEW t, NEW x, InsertRow(t, x) \/ DeleteRow(t, x) \/ DropColumn(x)
      PROVE  ChangesInv'
  BY <1>2, <1>7 DEF InsertRow, DeleteRow, DropColumn
<1> QED BY <1>3, <1>4, <1>5, <1>6, <1>7
       DEF Next, RunSavedExploration, RunExploration, RunQuery, ListRecords, ListTableRecords

\* Types, and pages of no more rows than the limit: every relation that transformations,
\* groupings and listings make is a list of rows, whatever else they do to it.
THEOREM PagesAreNeverTooLong == Spec => []TypeOK
<1>1. Init => SavedInv /\ PhaseInv /\ ChangesInv /\ PagesInv
  <2> SUFFICES ASSUME Init PROVE SavedInv /\ PhaseInv /\ ChangesInv /\ PagesInv
    OBVIOUS
  <2>1. SavedInv
    BY FS_EmptySet DEF Init, SavedInv
  <2>2. PhaseInv
    BY DEF Init, PhaseInv, Phases
  <2>3. ChangesInv
    BY ExplorationsAssumption DEF Init, ChangesInv
  <2>4. PagesInv
    <3>1. <<>> \in Seq(ToSet(<<>>)) /\ ToSet(<<>>) = {}
      BY DEF ToSet
    <3> QED BY <3>1 DEF Init, PagesInv
  <2> QED BY <2>1, <2>2, <2>3, <2>4
<1> QED BY <1>1, SavedInvIsKept, PhaseInvIsKept, ChangesInvIsKept, PagesInvIsKept, TypesFollow,
           DatabasesStaySound, SpecsAreTransformations, PTL DEF Spec

-----------------------------------------------------------------------------
\* The count.

\* A listing is its steps one after the other.
LEMMA ListedStepByStep ==
    ASSUME NEW r, NEW p, NEW fallback
    PROVE  Listed(r, p, fallback) =
             ListingStep(p, fallback, ListingStep(p, fallback, ListingStep(p, fallback,
               ListingStep(p, fallback, ListingStep(p, fallback, r, "filter"), "duplicates"), "group"), "order"), "search")
<1> DEFINE steps == <<"filter", "duplicates", "group", "order", "search">>
           S == {"filter", "duplicates", "group", "order", "search"}
           given == <<p, fallback>>
<1>0. steps \in Seq(S) /\ Len(steps) = 5 /\ given[1] = p /\ given[2] = fallback
  OBVIOUS
<1>1. steps[1] = "filter" /\ steps[2] = "duplicates" /\ steps[3] = "group" /\ steps[4] = "order" /\ steps[5] = "search"
  OBVIOUS
<1>2. Listed(r, p, fallback) = ListedAfter(p, fallback, r, steps)
  BY DEF Listed, ListedAfter, ListingStep
<1> HIDE DEF steps, given
<1>3. PICK g : /\ g[0] = r
               /\ \A k \in 1 .. Len(steps) : g[k] = StepOf("listing", given, g[k - 1], steps[k])
               /\ FoldOf("listing", given, r, steps) = g[Len(steps)]
  <2>1. steps \in Seq(S)
    BY <1>0
  <2> QED BY <2>1, FoldsGoStepByStep
<1>4. \A k \in 1 .. 5 : g[k] = ListingStep(p, fallback, g[k - 1], steps[k])
  BY <1>0, <1>3 DEF StepOf
<1>5. /\ g[1] = ListingStep(p, fallback, r, "filter") /\ g[2] = ListingStep(p, fallback, g[1], "duplicates")
      /\ g[3] = ListingStep(p, fallback, g[2], "group") /\ g[4] = ListingStep(p, fallback, g[3], "order")
      /\ g[5] = ListingStep(p, fallback, g[4], "search")
  BY <1>1, <1>3, <1>4
<1>6. Listed(r, p, fallback) = g[5]
  BY <1>0, <1>2, <1>3 DEF FoldOf
<1> QED BY <1>5, <1>6

\* Orders and groups that are no ranges leave the rows there are.
LEMMA OrderedKeepsLength ==
    ASSUME NEW r, HasRows(r), NEW order, Ordered(r, order) # Broken
    PROVE  Len(Ordered(r, order).rows) = Len(r.rows)
<1>1. PICK X : r.rows \in Seq(X)
  BY DEF HasRows
<1> DEFINE orders == SetToSeq(Deterministic(r, order))
           Before(row, keys) == {i \in DOMAIN r.rows : RowBefore(r.rows[i], row, keys)}
           Ranks(row) == [n \in DOMAIN orders |-> Cardinality(Before(row, orders[n]))]
           rows == [i \in DOMAIN r.rows |-> [r.rows[i] EXCEPT !.rank = Ranks(r.rows[i])]]
<1>2. Ordered(r, order) = [r EXCEPT !.rows = rows]
  BY DEF Ordered, Each
<1>3. DOMAIN rows = DOMAIN r.rows /\ rows = [i \in DOMAIN r.rows |-> rows[i]]
  OBVIOUS
<1> HIDE DEF rows
<1>4. Len(rows) = Len(r.rows)
  BY <1>1, <1>3, SamePositionsMakeAList
<1> QED BY <1>2, <1>4 DEF HasRows, Relation

LEMMA GroupedKeepsLength ==
    ASSUME NEW r, HasRows(r), NEW g, g.mode \notin Ranged, GroupedBy(r, g) # Broken
    PROVE  Len(GroupedBy(r, g).rows) = Len(r.rows)
<1>1. PICK X : r.rows \in Seq(X)
  BY DEF HasRows
<1> DEFINE left == RowsInGroups(r.rows, g)
           rows == WithKeys(r.rows, left, g)
<1>2. left = r.rows
  BY DEF RowsInGroups
<1>3. GroupedBy(r, g) = [Selected(r, r.cols) EXCEPT !.rows = rows]
  BY DEF GroupedBy, Grouped
<1> HIDE DEF left
<1>6. DOMAIN rows = DOMAIN left /\ rows = [i \in DOMAIN left |-> rows[i]]
  BY DEF WithKeys, WithGroups
<1> HIDE DEF rows
<1>4. Len(rows) = Len(r.rows)
  BY <1>1, <1>2, <1>6, SamePositionsMakeAList
<1>5. HasRows(Selected(r, r.cols))
  BY SelectedHasRows
<1> QED BY <1>3, <1>4, <1>5 DEF HasRows, Relation

\* What is counted passes the filter, if no texts are searched.
LEMMA CountedIsFiltered ==
    ASSUME NEW r, NEW p, p.search = {}
    PROVE  Counted(r, p) = IF r = Broken THEN r ELSE IF p.filter # {} THEN Filtered(r, The(p.filter)) ELSE r
<1> DEFINE a == ListingStep(p, FALSE, r, "filter")
           pp == [NoListing EXCEPT !.filter = p.filter, !.search = p.search]
<1>1. Counted(r, p) = Listed(r, pp, FALSE)
  BY DEF Counted
<1>2. pp.filter = p.filter /\ pp.search = {} /\ pp.duplicates = {} /\ pp.group = {} /\ pp.order = <<>>
  BY DEF NoListing
<1> HIDE DEF pp
<1>3. ListingStep(pp, FALSE, r, "filter") = a
  BY <1>2 DEF ListingStep
<1>4. a = IF r = Broken THEN r ELSE IF p.filter # {} THEN Filtered(r, The(p.filter)) ELSE r
  BY DEF ListingStep
<1> HIDE DEF a
<1>5. /\ a = ListingStep(pp, FALSE, a, "duplicates") /\ a = ListingStep(pp, FALSE, a, "group")
      /\ a = ListingStep(pp, FALSE, a, "order") /\ a = ListingStep(pp, FALSE, a, "search")
  BY <1>2 DEF ListingStep
<1>6. Listed(r, pp, FALSE) =
        ListingStep(pp, FALSE, ListingStep(pp, FALSE, ListingStep(pp, FALSE,
          ListingStep(pp, FALSE, ListingStep(pp, FALSE, r, "filter"), "duplicates"), "group"), "order"), "search")
  BY ListedStepByStep
<1> QED BY <1>1, <1>3, <1>4, <1>5, <1>6

\* The count is of the rows that are listed, unless duplicates are looked for, texts are
\* searched, or ranges leave rows out: what passes the filter is counted and listed.
LEMMA CountedIsListed ==
    ASSUME NEW r, HasRows(r), NEW p, NEW fallback, p.search = {}, p.duplicates = {},
           p.group # {} => The(p.group).mode \notin Ranged, Listed(r, p, fallback) # Broken
    PROVE  /\ Counted(r, p) # Broken
           /\ Len(Counted(r, p).rows) = Len(Listed(r, p, fallback).rows)
<1> DEFINE a == ListingStep(p, fallback, r, "filter")
           b == ListingStep(p, fallback, a, "duplicates")
           c == ListingStep(p, fallback, b, "group")
           d == ListingStep(p, fallback, c, "order")
           e == ListingStep(p, fallback, d, "search")
<1>1. Listed(r, p, fallback) = e
  BY ListedStepByStep
<1>2. Counted(r, p) = a
  BY CountedIsFiltered DEF ListingStep
<1>3. HasRows(a)
  BY FilteredHasRows DEF ListingStep
<1> HIDE DEF a
<1>4. b = a
  BY DEF ListingStep
<1>5. c = b \/ (c = GroupedBy(b, The(p.group)) /\ p.group # {})
  BY DEF ListingStep
<1>6. b = Broken => c = Broken
  BY DEF ListingStep
<1> HIDE DEF b, c
<1>7. d = c \/ d = Ordered(c, p.order)
  BY DEF ListingStep
<1>8. c = Broken => d = Broken
  BY DEF ListingStep
<1> HIDE DEF d
<1>9. e = d
  BY DEF ListingStep
<1> HIDE DEF e
<1>10. a # Broken /\ b # Broken /\ c # Broken /\ d # Broken
  BY <1>1, <1>4, <1>6, <1>8, <1>9
<1>11. HasRows(c) /\ Len(c.rows) = Len(b.rows)
  BY <1>3, <1>4, <1>5, <1>10, GroupedHasRows, GroupedKeepsLength
<1>12. Len(d.rows) = Len(c.rows)
  BY <1>7, <1>10, <1>11, OrderedKeepsLength
<1> QED BY <1>1, <1>2, <1>4, <1>9, <1>10, <1>11, <1>12

\* The rows of a page that begins behind so many, of a result of n rows.
PageLength(n, offset) ==
    IF n <= offset THEN 0 ELSE IF offset + Limit <= n THEN Limit ELSE n - offset

LEMMA SlicesAreAsLong ==
    ASSUME NEW X, NEW s \in Seq(X), NEW offset \in Nat
    PROVE  Len(Slice(s, offset)) = PageLength(Len(s), offset)
<1> DEFINE m == offset + 1
           n == Min({offset + Limit, Len(s)})
<1>1. Len(s) \in Nat /\ DOMAIN s = 1 .. Len(s) /\ \A i \in 1 .. Len(s) : s[i] \in X
  BY ListsHaveElements
<1>2. Limit \in Nat
  BY ExplorationsAssumption
<1>3. m \in Nat /\ 1 <= m /\ n \in Int /\ n <= offset + Limit /\ n <= Len(s)
  <2>1. offset + Limit \in Int /\ Len(s) \in Int
    BY <1>1, <1>2
  <2>2. n \in {offset + Limit, Len(s)} /\ n <= offset + Limit /\ n <= Len(s)
    BY <2>1, MinOfTwo
  <2> HIDE DEF n
  <2> QED BY <2>1, <2>2
<1>6. n = offset + Limit \/ n = Len(s)
  <2>1. offset + Limit \in Int /\ Len(s) \in Int
    BY <1>1, <1>2
  <2> QED BY <2>1, MinOfTwo
<1>4. Slice(s, offset) = SubSeq(s, m, n)
  BY DEF Slice
<1> HIDE DEF n
<1>5. SubSeq(s, m, n) \in Seq(X) /\ Len(SubSeq(s, m, n)) = IF m <= n THEN n - m + 1 ELSE 0
  <2>1. \A i \in m .. n : s[i] \in X
    BY <1>1, <1>3
  <2> HIDE DEF m
  <2> QED BY <1>1, <1>3, <2>1
<1>7. (IF m <= n THEN n - m + 1 ELSE 0) = PageLength(Len(s), offset)
  <2> DEFINE l == Len(s)
  <2>1. l \in Nat /\ n \in Int /\ n <= offset + Limit /\ n <= l /\ (n = offset + Limit \/ n = l) /\ m = offset + 1
    BY <1>1, <1>3, <1>6
  <2> SUFFICES (IF m <= n THEN n - m + 1 ELSE 0) = PageLength(l, offset)
    OBVIOUS
  <2> HIDE DEF l, m
  <2>2. CASE l <= offset
    <3>1. ~(m <= n) /\ PageLength(l, offset) = 0
      BY <2>1, <2>2 DEF PageLength
    <3> QED BY <3>1
  <2>3. CASE ~(l <= offset) /\ offset + Limit <= l
    <3>1. PageLength(l, offset) = Limit
      BY <2>3 DEF PageLength
    <3>2. n = offset + Limit
      BY <1>2, <2>1, <2>3
    <3>3. CASE Limit = 0
      <4>1. ~(m <= n)
        BY <2>1, <3>2, <3>3
      <4> QED BY <3>1, <3>3, <4>1
    <3>4. CASE Limit # 0
      <4>1. m <= n /\ n - m + 1 = Limit
        BY <1>2, <2>1, <3>2, <3>4
      <4> QED BY <3>1, <4>1
    <3> QED BY <3>3, <3>4
  <2>4. CASE ~(l <= offset) /\ ~(offset + Limit <= l)
    <3>1. PageLength(l, offset) = l - offset
      BY <2>4 DEF PageLength
    <3>2. m <= n /\ n - m + 1 = l - offset
      BY <1>2, <2>1, <2>4
    <3> QED BY <3>1, <3>2
  <2> QED BY <2>2, <2>3, <2>4
<1> QED BY <1>4, <1>5, <1>7

LEMMA PagesAreAsLong ==
    ASSUME NEW r, HasRows(r), NEW p, p.search = {}, NEW offset \in Nat, NEW page \in Pages(r, p, offset)
    PROVE  Len(page) = PageLength(Len(r.rows), offset)
<1>1. PICK X : r.rows \in Seq(X)
  BY DEF HasRows
<1>2. PICK a \in Arrangements(r.rows) : page = Slice(a, offset)
  BY DEF Pages
<1>3. a \in Seq(ToSet(a)) /\ Len(a) = Len(r.rows)
  <2>1. DOMAIN a = DOMAIN r.rows /\ a = [i \in DOMAIN r.rows |-> a[i]]
    BY <1>2 DEF Arrangements
  <2> QED BY <1>1, <2>1, SamePositionsMakeAList
<1> QED BY <1>2, <1>3, SlicesAreAsLong

\* Pages that follow each other hold as many rows as there are, or as they have room for.
LEMMA PagesHoldTheRows ==
    ASSUME NEW X, NEW seqs \in Seq(Seq(X)), NEW n \in Nat,
           \A i \in 1 .. Len(seqs) : Len(seqs[i]) = PageLength(n, (i - 1) * Limit)
    PROVE  Len(FlattenSeq(seqs)) = IF Len(seqs) * Limit <= n THEN Len(seqs) * Limit ELSE n
<1>0. Len(seqs) \in Nat /\ Limit \in Nat /\ \A i \in 1 .. Len(seqs) : seqs[i] \in Seq(X)
  BY ListsHaveElements, ExplorationsAssumption
<1>1. CASE Len(seqs) = 0
  <2>1. seqs = <<>> /\ FlattenSeq(seqs) = <<>>
    BY <1>1 DEF FlattenSeq
  <2>2. Len(FlattenSeq(seqs)) = 0 /\ 0 * Limit = 0
    BY <1>0, <2>1
  <2> QED BY <1>0, <1>1, <2>2
<1>2. CASE Len(seqs) # 0
  <2>1. PICK f : Flattened(seqs, f) /\ FlattenSeq(seqs) = f[Len(seqs)]
    BY <1>2, FlattenedIsThere
  <2>2. \A i \in 1 .. Len(seqs) : f[i] = IF i = 1 THEN seqs[i] ELSE f[i - 1] \o seqs[i]
    BY <2>1 DEF Flattened
  <2> DEFINE Upto(i) == IF i * Limit <= n THEN i * Limit ELSE n
             Good == {i \in 0 .. Len(seqs) : i # 0 => f[i] \in Seq(X) /\ Len(f[i]) = Upto(i)}
  <2>3. ASSUME NEW k \in 1 .. Len(seqs), k - 1 \in Good
        PROVE  k \in Good
    <3>0. k \in Nat /\ k \in 0 .. Len(seqs) /\ k # 0 /\ k - 1 \in Nat
      BY <1>0
    <3>1. seqs[k] \in Seq(X) /\ Len(seqs[k]) = PageLength(n, (k - 1) * Limit)
      BY <1>0
    <3>2. k * Limit = (k - 1) * Limit + Limit /\ (k - 1) * Limit \in Nat /\ 0 * Limit = 0
      BY <1>0, <3>0
    <3>3. PageLength(n, (k - 1) * Limit) \in Nat /\ Upto(k) = (IF k = 1 THEN 0 ELSE Upto(k - 1)) + PageLength(n, (k - 1) * Limit)
      <4> DEFINE o == (k - 1) * Limit
                 e == k * Limit
      <4>1. o \in Nat /\ e = o + Limit /\ (k = 1 => o = 0)
        BY <1>0, <3>2
      <4> HIDE DEF o, e
      <4>2. PageLength(n, o) \in Nat /\ (IF e <= n THEN e ELSE n) = (IF k = 1 THEN 0 ELSE IF o <= n THEN o ELSE n) + PageLength(n, o)
        BY <1>0, <4>1 DEF PageLength
      <4> QED BY <4>2 DEF o, e
    <3>4. f[k] \in Seq(X) /\ Len(f[k]) = (IF k = 1 THEN 0 ELSE Upto(k - 1)) + PageLength(n, (k - 1) * Limit)
      <4>1. CASE k = 1
        <5>1. f[k] = seqs[k]
          BY <2>2, <4>1
        <5> HIDE DEF Upto
        <5> QED BY <3>1, <3>3, <4>1, <5>1
      <4>2. CASE k # 1
        <5>1. f[k] = f[k - 1] \o seqs[k]
          BY <2>2, <4>2
        <5>2. f[k - 1] \in Seq(X) /\ Len(f[k - 1]) = Upto(k - 1)
          BY <2>3, <3>0, <4>2
        <5> HIDE DEF Upto, Good
        <5>3. Len(f[k]) = Len(f[k - 1]) + Len(seqs[k]) /\ f[k] \in Seq(X)
          <6> DEFINE a == f[k - 1]
                     b == seqs[k]
          <6>1. a \in Seq(X) /\ b \in Seq(X) /\ f[k] = a \o b
            BY <3>1, <5>1, <5>2
          <6> HIDE DEF a, b
          <6>2. Len(f[k]) = Len(a) + Len(b) /\ f[k] \in Seq(X)
            BY <6>1, ConcatProperties
          <6> QED BY <6>2 DEF a, b
        <5> QED BY <3>1, <4>2, <5>2, <5>3
      <4> QED BY <4>1, <4>2
    <3> HIDE DEF Upto
    <3> QED BY <3>0, <3>3, <3>4
  <2>4. 0 \in Good
    BY <1>0
  <2>5. Len(seqs) \in Good
    <3> HIDE DEF Good
    <3> QED BY <1>0, <2>3, <2>4, StepsKeep
  <2> QED BY <1>2, <2>1, <2>5
<1> QED BY <1>1, <1>2

\* Lists of one element each, one after the other: their elements.
LEMMA FlattenOnes ==
    ASSUME NEW X, NEW seqs \in Seq(Seq(X)), \A i \in DOMAIN seqs : Len(seqs[i]) = 1
    PROVE  \A i \in DOMAIN seqs : FlattenSeq(seqs)[i] = seqs[i][1]
<1>0. Len(seqs) \in Nat /\ DOMAIN seqs = 1 .. Len(seqs) /\ \A i \in 1 .. Len(seqs) : seqs[i] \in Seq(X) /\ Len(seqs[i]) = 1
  BY ListsHaveElements
<1>1. CASE Len(seqs) = 0
  BY <1>0, <1>1
<1>2. CASE Len(seqs) # 0
  <2>1. PICK f : Flattened(seqs, f) /\ FlattenSeq(seqs) = f[Len(seqs)]
    BY <1>2, FlattenedIsThere
  <2>2. \A i \in 1 .. Len(seqs) : f[i] = IF i = 1 THEN seqs[i] ELSE f[i - 1] \o seqs[i]
    BY <2>1 DEF Flattened
  <2> DEFINE Fine(i) == f[i] \in Seq(X) /\ Len(f[i]) = i /\ \A j \in 1 .. i : f[i][j] = seqs[j][1]
             Good == {i \in 0 .. Len(seqs) : i # 0 => Fine(i)}
  <2>3. ASSUME NEW k \in 1 .. Len(seqs), k - 1 \in Good
        PROVE  k \in Good
    <3>0. k \in Nat /\ k \in 0 .. Len(seqs) /\ k # 0 /\ k - 1 \in Nat
      BY <1>0
    <3>1. CASE k = 1
      <4>1. f[k] = seqs[k]
        BY <2>2, <3>1
      <4>2. f[k] \in Seq(X) /\ Len(f[k]) = k /\ \A j \in 1 .. k : f[k][j] = seqs[j][1]
        BY <1>0, <3>1, <4>1
      <4> QED BY <3>0, <4>2
    <3>2. CASE k # 1
      <4> DEFINE a == f[k - 1]
                 b == seqs[k]
                 n == k - 1
      <4>1. f[k] = a \o b
        BY <2>2, <3>2
      <4>2. Fine(n)
        <5> HIDE DEF Fine
        <5> QED BY <2>3, <3>0, <3>2
      <4>3. a \in Seq(X) /\ Len(a) = n /\ \A j \in 1 .. n : a[j] = seqs[j][1]
        BY <4>2
      <4>4. b \in Seq(X) /\ Len(b) = 1 /\ n \in Nat /\ n + 1 = k
        BY <1>0, <3>0
      <4> HIDE DEF a, b, n
      <4>5. a \o b \in Seq(X) /\ Len(a \o b) = n + 1
        <5>1. a \in Seq(X) /\ b \in Seq(X)
          BY <4>3, <4>4
        <5>2. a \o b \in Seq(X) /\ Len(a \o b) = Len(a) + Len(b)
          BY <5>1, ConcatProperties
        <5> QED BY <4>3, <4>4, <5>2
      <4>6. (a \o b)[n + 1] = b[1] /\ \A j \in 1 .. n : (a \o b)[j] = a[j]
        BY <4>3, <4>4
      <4>7. ASSUME NEW j \in 1 .. k PROVE (a \o b)[j] = seqs[j][1]
        <5>1. CASE j = k
          BY <4>4, <4>6, <5>1 DEF b
        <5>2. CASE j # k
          <6>1. j \in 1 .. n
            BY <3>0, <4>4, <5>2
          <6> QED BY <4>3, <4>6, <6>1
        <5> QED BY <5>1, <5>2
      <4>8. Fine(k)
        BY <4>1, <4>4, <4>5, <4>7
      <4> HIDE DEF Fine
      <4> QED BY <3>0, <4>8
    <3> QED BY <3>1, <3>2
  <2>4. 0 \in Good
    BY <1>0
  <2>5. Len(seqs) \in Good
    <3> HIDE DEF Good
    <3> QED BY <1>0, <2>3, <2>4, StepsKeep
  <2> QED BY <1>0, <1>2, <2>1, <2>5
<1> QED BY <1>1, <1>2

\* Rows with something joined to each; rows that have the base row of those before them.
ExtendsRows(s, t, p) == \A i \in DOMAIN s : \E row : t[i] = s[i] ++ Single(p, row)
KeepsBase(s, t) ==
    /\ DOMAIN t = DOMAIN s
    /\ \A i \in DOMAIN s : <<>> \in DOMAIN s[i] => <<>> \in DOMAIN t[i] /\ t[i][<<>>] = s[i][<<>>]

\* A join along a reference to a unique column leaves the rows as they are, but for what
\* it joins to them.
LEMMA JoinExtendsRows ==
    ASSUME NEW X, NEW db, NEW p, NEW J, NEW joins \in Seq(J), db[TableOf(Last(p)[2])] \in Seq(X)
    PROVE  IsUnique(db[TableOf(Last(p)[2])], {Last(p)[2]}) =>
             ExtendsRows(joins, Join(db, joins, p), p)
<1> HAVE IsUnique(db[TableOf(Last(p)[2])], {Last(p)[2]})
<1> DEFINE Rows(joined) == IF Referred(db, p, joined) = <<>> THEN <<None>> ELSE Referred(db, p, joined)
           Line(joined) == [k \in DOMAIN Rows(joined) |-> joined ++ Single(p, Rows(joined)[k])]
           lines == [j \in DOMAIN joins |-> Line(joins[j])]
           K == {joined ++ Single(p, row) : joined \in J, row \in X \cup {None}}
<1>1. Join(db, joins, p) = FlattenSeq(lines)
  BY DEF Join, Each
<1>2. ASSUME NEW joined \in J
      PROVE  Line(joined) \in Seq(K) /\ Len(Line(joined)) = 1 /\ \E row : Line(joined)[1] = joined ++ Single(p, row)
  <2>1. Rows(joined) \in Seq(X \cup {None}) /\ Len(Rows(joined)) = 1
    <3>1. Referred(db, p, joined) \in Seq(X) /\ Len(Referred(db, p, joined)) \in {0, 1}
      BY ReferredIsOneRow
    <3>2. CASE Referred(db, p, joined) = <<>>
      <4>1. Rows(joined) = <<None>>
        BY <3>2
      <4> HIDE DEF Rows
      <4> QED BY <4>1, OneMakesAList
    <3>3. CASE Referred(db, p, joined) # <<>>
      <4>1. Rows(joined) = Referred(db, p, joined)
        BY <3>3
      <4> HIDE DEF Rows
      <4>2. Rows(joined) \in Seq(X) /\ Len(Rows(joined)) = 1
        BY <3>1, <3>3, <4>1, EmptySeq
      <4>3. Rows(joined) \in Seq(X \cup {None})
        BY <4>2
      <4> QED BY <4>2, <4>3
    <3> QED BY <3>2, <3>3
  <2> HIDE DEF Rows
  <2>2. DOMAIN Rows(joined) = 1 .. 1 /\ Rows(joined)[1] \in X \cup {None}
    BY <2>1, ListsHaveElements
  <2>3. joined ++ Single(p, Rows(joined)[1]) \in K
    BY <2>2
  <2> HIDE DEF K
  <2>4. Line(joined) \in [1 .. 1 -> K] /\ Line(joined)[1] = joined ++ Single(p, Rows(joined)[1])
    BY <2>2, <2>3
  <2> HIDE DEF Line
  <2>5. Line(joined) \in Seq(K) /\ Len(Line(joined)) = 1
    BY <2>4, ElementsMakeAList
  <2> QED BY <2>4, <2>5
<1>3. lines \in Seq(Seq(K)) /\ DOMAIN lines = DOMAIN joins /\ \A j \in DOMAIN joins : Len(lines[j]) = 1 /\ lines[j] = Line(joins[j])
  <2>1. Len(joins) \in Nat /\ DOMAIN joins = 1 .. Len(joins) /\ \A j \in 1 .. Len(joins) : joins[j] \in J
    OBVIOUS
  <2> HIDE DEF Line, K
  <2>2. lines \in [1 .. Len(joins) -> Seq(K)] /\ \A j \in DOMAIN joins : Len(lines[j]) = 1 /\ lines[j] = Line(joins[j])
    BY <1>2, <2>1
  <2>3. DOMAIN lines = DOMAIN joins
    OBVIOUS
  <2> HIDE DEF lines
  <2> QED BY <2>1, <2>2, <2>3, ElementsMakeAList
<1> HIDE DEF lines, K, Line
<1>4. \A i \in DOMAIN joins : FlattenSeq(lines)[i] = Line(joins[i])[1]
  BY <1>3, FlattenOnes
<1>5. \A i \in DOMAIN joins : joins[i] \in J
  OBVIOUS
<1> QED BY <1>1, <1>2, <1>4, <1>5 DEF ExtendsRows

\* So such a join keeps the base row of each row in its place.
LEMMA JoinKeepsTheBase ==
    ASSUME NEW X, NEW db, NEW p, NEW J, NEW joins \in Seq(J), db[TableOf(Last(p)[2])] \in Seq(X)
    PROVE  IsUnique(db[TableOf(Last(p)[2])], {Last(p)[2]}) =>
             KeepsBase(joins, Join(db, joins, p)) /\ \E L : Join(db, joins, p) \in Seq(L)
<1> HAVE IsUnique(db[TableOf(Last(p)[2])], {Last(p)[2]})
<1>1. Len(Join(db, joins, p)) = Len(joins) /\ \E L : Join(db, joins, p) \in Seq(L)
  <2>1. /\ IsUnique(db[TableOf(Last(p)[2])], {Last(p)[2]}) => Len(Join(db, joins, p)) = Len(joins)
        /\ \E K : Join(db, joins, p) \in Seq(K)
    BY JoinKeepsLength
  <2> QED BY <2>1
<1>2. \A i \in DOMAIN joins : \E row : Join(db, joins, p)[i] = joins[i] ++ Single(p, row)
  <2>1. IsUnique(db[TableOf(Last(p)[2])], {Last(p)[2]}) =>
          ExtendsRows(joins, Join(db, joins, p), p)
    BY JoinExtendsRows
  <2> QED BY <2>1 DEF ExtendsRows
<1>3. DOMAIN Join(db, joins, p) = DOMAIN joins
  <2>1. PICK L : Join(db, joins, p) \in Seq(L)
    BY <1>1
  <2> QED BY <1>1, <2>1, ListsHaveElements
<1>4. ASSUME NEW i \in DOMAIN joins, <<>> \in DOMAIN joins[i]
      PROVE  <<>> \in DOMAIN Join(db, joins, p)[i] /\ Join(db, joins, p)[i][<<>>] = joins[i][<<>>]
  <2>1. PICK row : Join(db, joins, p)[i] = joins[i] ++ Single(p, row)
    BY <1>2
  <2> QED BY <1>4, <2>1 DEF ++
<1> QED BY <1>1, <1>3, <1>4 DEF KeepsBase

\* Joins along references to unique columns keep the base row of each row in its place.
LEMMA JoinsKeepTheirBase ==
    ASSUME NEW db, NEW J, NEW base \in Seq(J), NEW P, NEW ps \in Seq(P), \A b \in J : <<>> \in DOMAIN b,
           \A p \in P : \E X : db[TableOf(Last(p)[2])] \in Seq(X)
    PROVE  (\A p \in P : IsUnique(db[TableOf(Last(p)[2])], {Last(p)[2]})) =>
             KeepsBase(base, JoinAll(db, base, ps))
<1> HAVE \A p \in P : IsUnique(db[TableOf(Last(p)[2])], {Last(p)[2]})
<1> DEFINE N == Len(ps)
<1>0. N \in Nat /\ \A i \in 1 .. N : ps[i] \in P
  BY ListsHaveElements
<1>1. PICK g : /\ g[0] = base
               /\ \A k \in 1 .. N : g[k] = StepOf("join", db, g[k - 1], ps[k])
               /\ FoldOf("join", db, base, ps) = g[N]
  BY FoldsGoStepByStep
<1> DEFINE Keeps(s) == /\ \E K : s \in Seq(K)
                       /\ DOMAIN s = DOMAIN base
                       /\ \A i \in DOMAIN base : <<>> \in DOMAIN s[i] /\ s[i][<<>>] = base[i][<<>>]
           Good == {k \in 0 .. N : Keeps(g[k])}
<1>2. 0 \in Good
  <2>1. \A i \in DOMAIN base : base[i] \in J
    OBVIOUS
  <2>2. Keeps(base)
    BY <2>1
  <2> HIDE DEF Keeps, N
  <2> QED BY <1>0, <1>1, <2>2
<1>3. ASSUME NEW k \in 1 .. N, k - 1 \in Good
      PROVE  k \in Good
  <2>1. Keeps(g[k - 1]) /\ k \in 0 .. N
    <3> HIDE DEF Keeps
    <3> QED BY <1>0, <1>3
  <2>2. g[k] = Join(db, g[k - 1], ps[k])
    BY <1>1 DEF StepOf
  <2>3. PICK X : db[TableOf(Last(ps[k])[2])] \in Seq(X)
    BY <1>0
  <2>4. PICK K : g[k - 1] \in Seq(K)
    BY <2>1
  <2>5. IsUnique(db[TableOf(Last(ps[k])[2])], {Last(ps[k])[2]})
    BY <1>0
  <2>6. /\ \E L : Join(db, g[k - 1], ps[k]) \in Seq(L)
        /\ DOMAIN Join(db, g[k - 1], ps[k]) = DOMAIN g[k - 1]
        /\ \A i \in DOMAIN g[k - 1] : <<>> \in DOMAIN g[k - 1][i] =>
              /\ <<>> \in DOMAIN Join(db, g[k - 1], ps[k])[i]
              /\ Join(db, g[k - 1], ps[k])[i][<<>>] = g[k - 1][i][<<>>]
    <3> HIDE DEF Keeps, Good, N
    <3>1. IsUnique(db[TableOf(Last(ps[k])[2])], {Last(ps[k])[2]}) =>
            KeepsBase(g[k - 1], Join(db, g[k - 1], ps[k])) /\ \E L : Join(db, g[k - 1], ps[k]) \in Seq(L)
      BY <2>3, <2>4, JoinKeepsTheBase
    <3> QED BY <2>5, <3>1 DEF KeepsBase
  <2>8. Keeps(g[k])
    BY <2>1, <2>2, <2>6
  <2> HIDE DEF Keeps
  <2> QED BY <2>1, <2>8
<1>4. N \in Good
  <2> HIDE DEF Good, N
  <2> QED BY <1>0, <1>2, <1>3, StepsKeep
<1>5. Keeps(g[N])
  <2> HIDE DEF Keeps
  <2> QED BY <1>4
<1> QED BY <1>1, <1>5 DEF FoldOf, KeepsBase

LEMMA JoinedKeepsTheBase ==
    ASSUME NEW db, NEW left, NEW q, IsDatabase(db, left), IsQuery(db, q), Uses(q) \subseteq left, ForwardOnly(q)
    PROVE  /\ DOMAIN Joined(db, q) = DOMAIN db[q.base]
           /\ \A i \in DOMAIN db[q.base] : Joined(db, q)[i][<<>>] = db[q.base][i]
<1> DEFINE S == Steps(q)
           P == {p \in Seq(S) : p # <<>> /\ Last(p) \in S}
           rows == db[q.base]
           base == [i \in DOMAIN rows |-> Single(<<>>, rows[i])]
           J == {Single(<<>>, row) : row \in ToSet(rows)}
<1>1. Joined(db, q) = JoinAll(db, base, JoinPaths(q))
  BY DEF Joined, Each, JoinAll
<1>2. JoinPaths(q) \in Seq(P)
  BY JoinPathsAreAList
<1>3. base \in Seq(J) /\ DOMAIN base = DOMAIN rows /\ rows \in Seq(ToSet(rows))
  <2>1. rows \in Seq(ToSet(rows))
    BY DEF IsDatabase, IsQuery
  <2> HIDE DEF rows
  <2>2. DOMAIN rows = 1 .. Len(rows) /\ Len(rows) \in Nat /\ \A i \in 1 .. Len(rows) : rows[i] \in ToSet(rows)
    BY <2>1, ListsHaveElements
  <2>3. base \in [1 .. Len(rows) -> J]
    BY <2>2
  <2>4. DOMAIN base = DOMAIN rows
    OBVIOUS
  <2> HIDE DEF base, J
  <2> QED BY <2>1, <2>2, <2>3, <2>4, ElementsMakeAList
<1>4. ASSUME NEW p \in P
      PROVE  /\ \E X : db[TableOf(Last(p)[2])] \in Seq(X)
             /\ IsUnique(db[TableOf(Last(p)[2])], {Last(p)[2]})
  <2> DEFINE c == Last(p)[2]
  <2>1. c \in left
    BY DEF Uses, Steps
  <2>2. {c} \in Constraints
    <3>1. Last(p) \in ForeignKeys
      BY DEF ForwardOnly, Steps
    <3> QED BY <3>1, ContentsAssumption
  <2>3. TableOf(c) \in DOMAIN db
    <3> HIDE DEF c
    <3> QED BY <2>1 DEF IsDatabase
  <2> HIDE DEF c
  <2>4. IsUnique(db[TableOf(c)], {c})
    BY <2>1, <2>2, <2>3 DEF IsDatabase, ConstraintsHold
  <2>5. db[TableOf(c)] \in Seq(ToSet(db[TableOf(c)]))
    BY <2>3 DEF IsDatabase
  <2> QED BY <2>4, <2>5 DEF c
<1>5. \A b \in J : <<>> \in DOMAIN b
  BY DEF Single
<1>6. \A i \in DOMAIN base : base[i][<<>>] = rows[i]
  BY DEF Single
<1>7. \A i \in DOMAIN base : JoinAll(db, base, JoinPaths(q))[i][<<>>] = base[i][<<>>]
  <2> HIDE DEF P, base, J, rows
  <2>1. \A p \in P : \E X : db[TableOf(Last(p)[2])] \in Seq(X)
    BY <1>4
  <2>2. \A p \in P : IsUnique(db[TableOf(Last(p)[2])], {Last(p)[2]})
    BY <1>4
  <2>3. base \in Seq(J)
    BY <1>3
  <2>4. (\A p \in P : IsUnique(db[TableOf(Last(p)[2])], {Last(p)[2]})) =>
          KeepsBase(base, JoinAll(db, base, JoinPaths(q)))
    BY <1>2, <1>5, <2>1, <2>3, JoinsKeepTheirBase
  <2>5. \A i \in DOMAIN base : <<>> \in DOMAIN base[i]
    BY <1>5, <2>3
  <2> QED BY <2>2, <2>4, <2>5 DEF KeepsBase
<1>8. DOMAIN Joined(db, q) = DOMAIN rows
  <2>1. Len(Joined(db, q)) = Len(rows) /\ \E K : Joined(db, q) \in Seq(K)
    BY JoinedKeepsLength
  <2> HIDE DEF rows
  <2> QED BY <1>3, <2>1, ListsHaveElements
<1> HIDE DEF base, J, P
<1> QED BY <1>1, <1>3, <1>6, <1>7, <1>8

\* The columns that aliases of a query stand for.
ColumnOf(q, alias) == q.initial[CHOOSE i \in DOMAIN q.initial : q.initial[i].alias = alias]
LEMMA ColumnOfIsOne ==
    ASSUME NEW q, NEW alias \in ToSet(Aliases(q))
    PROVE  ColumnOf(q, alias) \in ToSet(q.initial) /\ ColumnOf(q, alias).alias = alias
<1>1. DOMAIN Aliases(q) = DOMAIN q.initial /\ \A i \in DOMAIN q.initial : Aliases(q)[i] = q.initial[i].alias
  BY DEF Aliases, Each
<1>2. \E i \in DOMAIN q.initial : q.initial[i].alias = alias
  BY <1>1 DEF ToSet
<1> QED BY <1>2 DEF ColumnOf, ToSet

\* A column of the base table has its values in the rows of that table, whatever is
\* joined to them along references.
LEMMA BaseColumnsHaveBaseValues ==
    ASSUME NEW db, NEW left, NEW q, IsDatabase(db, left), IsQuery(db, q), ForwardOnly(q),
           InitialRelation(db, left, q) # Broken
    PROVE  LET r == InitialRelation(db, left, q)
               rows == db[q.base]
           IN /\ DOMAIN r.rows = DOMAIN rows
              /\ \A alias \in ToSet(r.cols) : ColumnOf(q, alias).path = <<>> =>
                   \A i \in DOMAIN rows :
                      r.rows[i].vals[alias] = IF rows[i] = None THEN None ELSE rows[i][ColumnOf(q, alias).column[2]]
<1> DEFINE r == InitialRelation(db, left, q)
           rows == db[q.base]
           joins == Joined(db, q)
           Value(joined, c) == IF joined[c.path] = None THEN None ELSE joined[c.path][c.column[2]]
           Line(joined) == Row([alias \in ToSet(Aliases(q)) |-> Value(joined, ColumnOf(q, alias))])
<1>1. Uses(q) \subseteq left
  BY DEF InitialRelation
<1>2. r.rows = [i \in DOMAIN joins |-> Line(joins[i])] /\ r.cols = Aliases(q)
  BY <1>1 DEF InitialRelation, Relation, Each, ColumnOf
<1>3. DOMAIN joins = DOMAIN rows /\ \A i \in DOMAIN rows : joins[i][<<>>] = rows[i]
  BY <1>1, JoinedKeepsTheBase
<1> HIDE DEF r, joins, rows
<1>4. ASSUME NEW alias \in ToSet(r.cols), ColumnOf(q, alias).path = <<>>, NEW i \in DOMAIN rows
      PROVE  r.rows[i].vals[alias] = IF rows[i] = None THEN None ELSE rows[i][ColumnOf(q, alias).column[2]]
  <2>1. r.rows[i] = Line(joins[i])
    BY <1>2, <1>3
  <2>2. Line(joins[i]).vals[alias] = Value(joins[i], ColumnOf(q, alias))
    BY <1>2 DEF Row
  <2>3. joins[i][<<>>] = rows[i]
    BY <1>3
  <2> HIDE DEF Line
  <2> QED BY <1>4, <2>1, <2>2, <2>3
<1>5. DOMAIN r.rows = DOMAIN rows
  BY <1>2, <1>3
<1> QED BY <1>4, <1>5 DEF r, rows

\* What is taken from positions of a list is at one of them.
LEMMA AtIsFromThere ==
    ASSUME NEW X, NEW s \in Seq(X), NEW at \in SUBSET DOMAIN s
    PROVE  \A n \in DOMAIN At(s, at) : \E i \in at : At(s, at)[n] = s[i]
<1> DEFINE sorted == Sorted(at, [i \in at |-> i])
<1>1. IsFiniteSet(at) /\ at \subseteq Int
  <2>1. DOMAIN s = 1 .. Len(s) /\ Len(s) \in Nat
    OBVIOUS
  <2>2. IsFiniteSet(1 .. Len(s))
    BY <2>1, FS_Interval
  <2> QED BY <2>1, <2>2, FS_Subset
<1>2. [i \in at |-> i] \in [at -> Int] /\ \A x, y \in at : [i \in at |-> i][x] = [i \in at |-> i][y] => x = y
  BY <1>1
<1>3. sorted \in Seq(at)
  BY <1>1, <1>2, SortedIsAList
<1>4. At(s, at) = [n \in DOMAIN sorted |-> s[sorted[n]]]
  BY DEF At
<1> HIDE DEF sorted
<1>5. \A n \in DOMAIN sorted : sorted[n] \in at
  BY <1>3
<1> QED BY <1>4, <1>5

\* A filter leaves as many rows as there are with the value it asks for.
LEMMA FilterCounts ==
    ASSUME NEW r, HasRows(r), NEW f, Filtered(r, f) # Broken
    PROVE  /\ f.field \in ToSet(r.cols)
           /\ Len(Filtered(r, f).rows) = Cardinality({i \in DOMAIN r.rows : r.rows[i].vals[f.field] = f.value})
<1>1. PICK X : r.rows \in Seq(X)
  BY DEF HasRows
<1> DEFINE at == {i \in DOMAIN r.rows : r.rows[i].vals[f.field] = f.value}
<1>2. Filtered(r, f) = [r EXCEPT !.rows = At(r.rows, at)] /\ f.field \in ToSet(r.cols)
  BY DEF Filtered, Those, HasColumns
<1>3. Len(At(r.rows, at)) = Cardinality(at)
  BY <1>1, AtIsAList
<1> HIDE DEF at
<1>4. [r EXCEPT !.rows = At(r.rows, at)].rows = At(r.rows, at)
  BY DEF HasRows, Relation
<1> QED BY <1>2, <1>3, <1>4 DEF at

\* A query of a table: along references, and each alias stands for a column and a path.
IsTableQuery(q) ==
    /\ q.transformations = <<>> /\ ForwardOnly(q)
    /\ \A c, d \in ToSet(q.initial) : c.alias = d.alias => c = d
LEMMA TableQueriesAre ==
    ASSUME NEW left \in SUBSET Columns, NEW t
    PROVE  IsTableQuery(Query(t, ColumnsToFetch(left, t), <<>>))
<1> DEFINE s == ColumnsToFetch(left, t)
           q == Query(t, s, <<>>)
<1>1. s \in Seq(ToSet(s)) /\ ToSet(s) \subseteq FetchedColumns
  BY ColumnsToFetchAreAList
<1>2. q.initial = s /\ q.transformations = <<>>
  BY DEF Query
<1> HIDE DEF s, q
<1>3. \A i \in DOMAIN s : s[i] \in FetchedColumns
  BY <1>1 DEF ToSet
<1>4. \A i \in DOMAIN s : ToSet(s[i].path) \subseteq ForeignKeys
  <2> SUFFICES ASSUME NEW i \in DOMAIN s PROVE ToSet(s[i].path) \subseteq ForeignKeys
    OBVIOUS
  <2>1. s[i].path \in Seq(ForeignKeys)
    BY <1>3, FetchedColumnsDiffer
  <2> QED BY <2>1, ListsAreOfTheirElements
<1>5. ForwardOnly(q)
  BY <1>2, <1>4 DEF ForwardOnly
<1>6. \A c, d \in ToSet(s) : c.alias = d.alias => c = d
  BY <1>1, FetchedColumnsDiffer
<1>7. IsTableQuery(q)
  BY <1>2, <1>5, <1>6 DEF IsTableQuery
<1> QED BY <1>7 DEF q, s

\* The query without what it joins.
Unjoined(q) == [q EXCEPT !.initial = Those(@, LAMBDA c : c.path = <<>>)]
LEMMA UnjoinedIsAQuery ==
    ASSUME NEW db, NEW q, IsQuery(db, q), ForwardOnly(q)
    PROVE  /\ IsQuery(db, Unjoined(q)) /\ ForwardOnly(Unjoined(q)) /\ Unjoined(q).base = q.base
           /\ ToSet(Unjoined(q).initial) \subseteq ToSet(q.initial)
           /\ \A c \in ToSet(Unjoined(q).initial) : c.path = <<>>
<1> DEFINE all == q.initial
           at == {i \in DOMAIN all : all[i].path = <<>>}
           initial == At(all, at)
           u == Unjoined(q)
<1>1. u = [q EXCEPT !.initial = initial]
  BY DEF Unjoined, Those
<1>2. /\ DOMAIN q = {"base", "initial", "transformations"}
      /\ all \in Seq(ToSet(all)) /\ \A c \in ToSet(all) : c.path \in Seq(ToSet(c.path))
  BY DEF IsQuery
<1> HIDE DEF u
<1>3. initial \in Seq(ToSet(all)) /\ \A n \in DOMAIN initial : \E i \in at : initial[n] = all[i]
  <2>1. at \in SUBSET DOMAIN all
    OBVIOUS
  <2> HIDE DEF all, at
  <2>2. all \in Seq(ToSet(all))
    BY <1>2
  <2>3. At(all, at) \in Seq(ToSet(all)) /\ Len(At(all, at)) = Cardinality(at)
    BY <2>1, <2>2, AtIsAList
  <2>4. \A n \in DOMAIN At(all, at) : \E i \in at : At(all, at)[n] = all[i]
    BY <2>1, <2>2, AtIsFromThere
  <2> QED BY <2>3, <2>4
<1>4. \A n \in DOMAIN initial : initial[n].path = <<>>
  <2> HIDE DEF initial
  <2> QED BY <1>3
<1> HIDE DEF initial
<1>5. initial \in Seq(ToSet(initial)) /\ ToSet(initial) \subseteq ToSet(all)
  <2> HIDE DEF all
  <2> QED BY <1>3, ListsAreOfTheirElements
<1>6. DOMAIN u = DOMAIN q /\ u.initial = initial /\ u.base = q.base /\ u.transformations = q.transformations
  BY <1>1, <1>2
<1>7. \A c \in ToSet(initial) : c.path = <<>>
  BY <1>4 DEF ToSet
<1>8. ForwardOnly(u)
  <2>1. ToSet(<<>>) = {}
    BY DEF ToSet
  <2> QED BY <1>4, <1>6, <2>1 DEF ForwardOnly
<1>9. IsQuery(db, u)
  BY <1>2, <1>5, <1>6 DEF IsQuery
<1> QED BY <1>5, <1>6, <1>7, <1>8, <1>9 DEF u

\* The records of a table are counted without their previews, and there are as many.
LEMMA TablesAreCountedAsListed ==
    ASSUME NEW db, NEW left, NEW q, IsDatabase(db, left), IsQuery(db, q), IsTableQuery(q), NEW p, NEW fallback,
           p.search = {}, p.duplicates = {}, p.group # {} => The(p.group).mode \notin Ranged,
           Listed(Transformed(db, left, q, <<>>), p, fallback) # Broken,
           Counted(Transformed(db, left, Unjoined(q), <<>>), p) # Broken
    PROVE  Len(Counted(Transformed(db, left, Unjoined(q), <<>>), p).rows) =
             Len(Listed(Transformed(db, left, q, <<>>), p, fallback).rows)
<1> DEFINE u == Unjoined(q)
           r == InitialRelation(db, left, q)
           s == InitialRelation(db, left, u)
           rows == db[q.base]
           f == The(p.filter)
<1>1. Transformed(db, left, q, <<>>) = r /\ Transformed(db, left, u, <<>>) = s
  BY NothingApplied
<1>2. ForwardOnly(q) /\ \A c, d \in ToSet(q.initial) : c.alias = d.alias => c = d
  BY DEF IsTableQuery
<1>3. /\ IsQuery(db, u) /\ ForwardOnly(u) /\ u.base = q.base
      /\ ToSet(u.initial) \subseteq ToSet(q.initial) /\ \A c \in ToSet(u.initial) : c.path = <<>>
  BY <1>2, UnjoinedIsAQuery
<1> HIDE DEF u
<1>4. HasRows(r) /\ HasRows(s)
  BY <1>3, InitialRelationHasRows
<1>5. Counted(r, p) # Broken /\ Len(Counted(r, p).rows) = Len(Listed(r, p, fallback).rows)
  <2>1. Listed(r, p, fallback) # Broken
    BY <1>1
  <2> HIDE DEF r
  <2> QED BY <1>4, <2>1, CountedIsListed
<1>6. /\ Counted(r, p) = IF r = Broken THEN r ELSE IF p.filter # {} THEN Filtered(r, f) ELSE r
      /\ Counted(s, p) = IF s = Broken THEN s ELSE IF p.filter # {} THEN Filtered(s, f) ELSE s
  <2> HIDE DEF r, s
  <2> QED BY CountedIsFiltered
<1>7. r # Broken /\ s # Broken
  <2>1. Counted(s, p) # Broken
    BY <1>1 DEF u
  <2> HIDE DEF r, s
  <2> QED BY <1>5, <1>6, <2>1
<1>8. /\ r.cols = Aliases(q) /\ s.cols = Aliases(u)
  BY <1>7 DEF InitialRelation, Relation
<1>9. /\ DOMAIN r.rows = DOMAIN rows
      /\ \A alias \in ToSet(r.cols) : ColumnOf(q, alias).path = <<>> =>
           \A i \in DOMAIN rows :
              r.rows[i].vals[alias] = IF rows[i] = None THEN None ELSE rows[i][ColumnOf(q, alias).column[2]]
  BY <1>2, <1>7, BaseColumnsHaveBaseValues
<1>10. /\ DOMAIN s.rows = DOMAIN rows
       /\ \A alias \in ToSet(s.cols) : ColumnOf(u, alias).path = <<>> =>
            \A i \in DOMAIN rows :
               s.rows[i].vals[alias] = IF rows[i] = None THEN None ELSE rows[i][ColumnOf(u, alias).column[2]]
  BY <1>3, <1>7, BaseColumnsHaveBaseValues
<1> HIDE DEF r, s, rows, f
<1>11. CASE p.filter = {}
  <2>1. Counted(r, p) = r /\ Counted(s, p) = s
    BY <1>6, <1>11
  <2>2. Len(r.rows) = Len(s.rows)
    BY <1>4, <1>9, <1>10, ListsHaveElements DEF HasRows
  <2> QED BY <1>1, <1>5, <2>1, <2>2 DEF u
<1>12. CASE p.filter # {}
  <2>1. Counted(r, p) = Filtered(r, f) /\ Counted(s, p) = Filtered(s, f) /\ Filtered(r, f) # Broken /\ Filtered(s, f) # Broken
    BY <1>1, <1>5, <1>6, <1>7, <1>12 DEF u
  <2>2. /\ f.field \in ToSet(r.cols)
        /\ Len(Filtered(r, f).rows) = Cardinality({i \in DOMAIN r.rows : r.rows[i].vals[f.field] = f.value})
    BY <1>4, <2>1, FilterCounts
  <2>3. /\ f.field \in ToSet(s.cols)
        /\ Len(Filtered(s, f).rows) = Cardinality({i \in DOMAIN s.rows : s.rows[i].vals[f.field] = f.value})
    BY <1>4, <2>1, FilterCounts
  <2>4. ColumnOf(q, f.field) = ColumnOf(u, f.field) /\ ColumnOf(u, f.field).path = <<>>
    <3>1. ColumnOf(q, f.field) \in ToSet(q.initial) /\ ColumnOf(q, f.field).alias = f.field
      BY <1>8, <2>2, ColumnOfIsOne
    <3>2. ColumnOf(u, f.field) \in ToSet(u.initial) /\ ColumnOf(u, f.field).alias = f.field
      BY <1>8, <2>3, ColumnOfIsOne
    <3> QED BY <1>2, <1>3, <3>1, <3>2
  <2>5. \A i \in DOMAIN rows : r.rows[i].vals[f.field] = s.rows[i].vals[f.field]
    BY <1>9, <1>10, <2>2, <2>3, <2>4
  <2>6. {i \in DOMAIN r.rows : r.rows[i].vals[f.field] = f.value} = {i \in DOMAIN s.rows : s.rows[i].vals[f.field] = f.value}
    BY <1>9, <1>10, <2>5
  <2> QED BY <1>1, <1>5, <2>1, <2>2, <2>3, <2>6 DEF u
<1> QED BY <1>11, <1>12

-----------------------------------------------------------------------------
\* What the answers of a request have to do with each other.

\* The transformations of a request once its summaries are finished, the rows it lists,
\* those it counts, and the listings whose counts are of what they list.
FinalSpec ==
    IF request.kind \in {"run", "query"} THEN Finished(request.query) ELSE request.query.transformations
Whole == Listed(Transformed(tables, columns, request.query, FinalSpec), request.listing, ~OrderUsed(FinalSpec))
Counts == Counted(Transformed(tables, columns, CountedQuery, FinalSpec), request.listing)
CountsWhatItLists ==
    /\ request.listing.search = {} /\ request.listing.duplicates = {}
    /\ request.listing.group # {} => The(request.listing.group).mode \notin Ranged

\* The last page that was fetched is the one asked for; the count has been given.
PageIsThere == phase \in {"describe", "answered"} \/ (phase = "count" /\ request.kind = "run")
CountIsThere == phase = "answered" \/ (phase \in {"records", "describe"} /\ request.kind # "run")

AskedInv ==
    /\ {"kind", "query", "listing", "offset"} \subseteq DOMAIN request
    /\ phase \in {"records", "describe", "count", "answered"} => spec = FinalSpec
    /\ request.kind = "table" => IsTableQuery(request.query)
    /\ phase # "failed" => IF PageIsThere THEN pages # <<>> /\ request.offset = (Len(pages) - 1) * Limit
                           ELSE request.offset = Len(pages) * Limit
\* The pages are those of the whole list; the count is of what is counted.
PagesTally ==
    /\ pages # <<>> => Whole # Broken
    /\ \A n \in 1 .. Len(pages) : Len(pages[n].rows) = PageLength(Len(Whole.rows), (n - 1) * Limit)
CountTally == Counts # Broken /\ count = Len(Counts.rows)
CountInv ==
    /\ phase = "idle" => pages = <<>>
    /\ \A n \in 1 .. Len(pages) : pages[n].rows \in Seq(ToSet(pages[n].rows))
    /\ phase # "idle" => AskedInv
    /\ (phase # "idle" /\ quiet /\ CountsWhatItLists) => PagesTally /\ (CountIsThere => CountTally)

\* The rows depend on the tables and on what is asked for, not on the page of it.
LEMMA RowsOfTheRequest ==
    ASSUME request'.kind = request.kind, request'.query = request.query, request'.listing = request.listing
    PROVE  /\ FinalSpec' = FinalSpec
           /\ UNCHANGED <<tables, columns>> => Whole' = Whole /\ Counts' = Counts
           /\ CountsWhatItLists' = CountsWhatItLists
<1>1. FinalSpec' = FinalSpec
  BY DEF FinalSpec
<1>2. CountedQuery' = CountedQuery
  BY DEF CountedQuery, Those
<1>3. UNCHANGED <<tables, columns>> => Whole' = Whole
  BY <1>1 DEF Whole
<1>4. UNCHANGED <<tables, columns>> => Counts' = Counts
  BY <1>1, <1>2 DEF Counts
<1>5. CountsWhatItLists' = CountsWhatItLists
  BY DEF CountsWhatItLists
<1> QED BY <1>1, <1>3, <1>4, <1>5

LEMMA WithoutPreviewsIsAList ==
    ASSUME NEW info, NEW X, NEW page \in Seq(X)
    PROVE  WithoutPreviews(info, page) \in Seq(ToSet(WithoutPreviews(info, page)))
<1> DEFINE f == [i \in DOMAIN page |-> [page[i] EXCEPT !.vals = Restrict(page[i].vals, DOMAIN page[i].vals \ PreviewAliases(info))]]
<1>1. WithoutPreviews(info, page) = f
  BY DEF WithoutPreviews, Each
<1>2. DOMAIN f = DOMAIN page /\ f = [i \in DOMAIN page |-> f[i]]
  OBVIOUS
<1> HIDE DEF f
<1> QED BY <1>1, <1>2, SamePositionsMakeAList

\* Steps of a request that change neither the rows nor the pages.
LEMMA StepKeepsCountInv ==
    ASSUME CountInv, phase # "idle", UNCHANGED <<tables, columns, pages, quiet>>,
           request'.kind = request.kind, request'.query = request.query, request'.listing = request.listing,
           AskedInv', phase' # "idle",
           CountIsThere' => CountTally' \/ (CountIsThere /\ UNCHANGED count)
    PROVE  CountInv'
<1>1. FinalSpec' = FinalSpec /\ Whole' = Whole /\ Counts' = Counts /\ CountsWhatItLists' = CountsWhatItLists
  BY RowsOfTheRequest
<1>2. PagesTally' = PagesTally
  BY <1>1 DEF PagesTally
<1>3. UNCHANGED count => CountTally' = CountTally
  BY <1>1 DEF CountTally
<1> QED BY <1>1, <1>2, <1>3 DEF CountInv

\* What a request does not change of what it asks for.
LEMMA RequestStays ==
    ASSUME JoinsInv, AskedInv, phase # "idle",
           \/ request' = request
           \/ \E x : request' = [request EXCEPT !.offset = x]
           \/ \E x : request' = [request EXCEPT !.names = x]
    PROVE  /\ request'.kind = request.kind /\ request'.query = request.query /\ request'.listing = request.listing
           /\ DOMAIN request' = DOMAIN request
<1>1. request = [x \in DOMAIN request |-> request[x]] /\ {"kind", "query", "listing", "offset"} \subseteq DOMAIN request
  BY DEF JoinsInv, RequestInv, AskedInv
<1> QED BY <1>1

LEMMA AskKeepsCountInv ==
    ASSUME CountInv, NEW kind, NEW q, NEW listing, NEW previews, NEW first \in {"specify", "count", "failed"},
           Ask(kind, q, listing, previews, first),
           first = "count" => kind \in {"list", "table"}, kind = "table" => IsTableQuery(q)
    PROVE  CountInv'
<1>1. /\ request' = [kind |-> kind, query |-> q, listing |-> listing, offset |-> 0, names |-> << >>, previews |-> previews]
      /\ phase' = first /\ spec' = q.transformations /\ pages = <<>> /\ pages' = <<>>
  BY DEF Ask, answers, CountInv
<1>2. Limit \in Nat /\ Len(pages') = 0
  BY <1>1, ExplorationsAssumption
<1>3. AskedInv'
  <2>1. /\ {"kind", "query", "listing", "offset"} \subseteq DOMAIN request'
        /\ request'.kind = kind /\ request'.query = q /\ request'.offset = 0
    BY <1>1
  <2>2. phase' = "count" => FinalSpec' = q.transformations /\ kind # "run"
    BY <1>1, <2>1 DEF FinalSpec
  <2>3. ~PageIsThere'
    BY <1>1, <2>1, <2>2 DEF PageIsThere
  <2>4. request'.offset = Len(pages') * Limit
    BY <1>2, <2>1
  <2> QED BY <1>1, <2>1, <2>2, <2>3, <2>4 DEF AskedInv
<1>4. PagesTally'
  BY <1>1, <1>2 DEF PagesTally
<1>5. ~CountIsThere'
  BY <1>1 DEF CountIsThere
<1> QED BY <1>1, <1>2, <1>3, <1>4, <1>5 DEF CountInv

LEMMA SpecifyKeepsCountInv ==
    ASSUME JoinsInv, CountInv, FinishSummaries \/ ProcessTransformations
    PROVE  CountInv'
<1>1. /\ phase = "specify" /\ UNCHANGED <<tables, columns, pages, quiet, count>>
      /\ request.kind \in {"run", "query"}
  BY DEF FinishSummaries, ProcessTransformations, database, answers
<1>2. AskedInv /\ ~PageIsThere
  BY <1>1 DEF CountInv, PageIsThere
<1>3. request' = request \/ \E x : request' = [request EXCEPT !.names = x]
  BY DEF FinishSummaries, ProcessTransformations
<1>4. /\ request'.kind = request.kind /\ request'.query = request.query /\ request'.listing = request.listing
      /\ DOMAIN request' = DOMAIN request
  BY <1>1, <1>2, <1>3, RequestStays
<1>5. request'.offset = request.offset
  BY <1>2, <1>3 DEF JoinsInv, RequestInv, AskedInv
<1>6. \/ phase' = "failed"
      \/ spec' = Finished(request.query) /\ phase' = "records" /\ request.kind = "run"
      \/ spec' = Finished(request.query) /\ phase' = "count" /\ request.kind = "query"
  BY DEF FinishSummaries, ProcessTransformations
<1>7. FinalSpec' = Finished(request.query)
  BY <1>1, <1>4 DEF FinalSpec
<1>8. ~PageIsThere' /\ ~CountIsThere'
  BY <1>4, <1>6 DEF PageIsThere, CountIsThere
<1>9. AskedInv'
  BY <1>1, <1>2, <1>4, <1>5, <1>6, <1>7, <1>8 DEF AskedInv
<1> QED BY <1>1, <1>4, <1>6, <1>8, <1>9, StepKeepsCountInv

LEMMA DescribeKeepsCountInv ==
    ASSUME JoinsInv, CountInv, DescribeColumns
    PROVE  CountInv'
<1>1. /\ phase = "describe" /\ UNCHANGED <<tables, columns, pages, quiet, count, request, spec>>
      /\ phase' \in {"failed"} \cup (IF request.kind = "run" THEN {"count"} ELSE {"answered"})
  BY DEF DescribeColumns, database
<1>2. AskedInv /\ PageIsThere
  BY <1>1 DEF CountInv, PageIsThere
<1>3. FinalSpec' = FinalSpec
  BY <1>1, RowsOfTheRequest
<1>4. phase' = "failed" \/ PageIsThere'
  BY <1>1 DEF PageIsThere
<1>5. AskedInv'
  BY <1>1, <1>2, <1>3, <1>4 DEF AskedInv
<1>6. CountIsThere' => CountIsThere
  BY <1>1 DEF CountIsThere
<1> QED BY <1>1, <1>5, <1>6, StepKeepsCountInv

LEMMA CountKeepsCountInv ==
    ASSUME JoinsInv, CountInv, CountRecords
    PROVE  CountInv'
<1>1. /\ phase = "count" /\ UNCHANGED <<tables, columns, pages, quiet, request, spec>>
  BY DEF CountRecords, database
<1>2. AskedInv /\ spec = FinalSpec
  BY <1>1 DEF CountInv, AskedInv
<1>3. /\ FinalSpec' = FinalSpec /\ Counts' = Counts
  BY <1>1, RowsOfTheRequest
<1>4. \/ phase' = "failed"
      \/ Counts # Broken /\ count' = Len(Counts.rows) /\ phase' = IF request.kind = "run" THEN "answered" ELSE "records"
  BY <1>2 DEF CountRecords, Counts
<1>5. phase' # "failed" => PageIsThere' = PageIsThere
  BY <1>1, <1>4 DEF PageIsThere
<1>6. AskedInv'
  BY <1>1, <1>2, <1>3, <1>4, <1>5 DEF AskedInv
<1>7. CountIsThere' => CountTally'
  BY <1>3, <1>4 DEF CountIsThere, CountTally
<1>8. phase' # "idle"
  BY <1>4
<1> QED BY <1>1, <1>6, <1>7, <1>8, StepKeepsCountInv

LEMMA NextPageKeepsCountInv ==
    ASSUME JoinsInv, PagesInv, CountInv, NextPage
    PROVE  CountInv'
<1>1. /\ phase = "answered" /\ UNCHANGED <<tables, columns, pages, quiet, count, spec>>
      /\ request' = [request EXCEPT !.offset = request.offset + Limit]
      /\ phase' = IF request.kind \in {"run", "query"} THEN "specify" ELSE "count"
  BY DEF NextPage, database, answers
<1>2. AskedInv /\ spec = FinalSpec /\ request.offset = (Len(pages) - 1) * Limit
  BY <1>1 DEF CountInv, AskedInv, PageIsThere
<1>3. /\ request'.kind = request.kind /\ request'.query = request.query /\ request'.listing = request.listing
      /\ DOMAIN request' = DOMAIN request
  BY <1>1, <1>2, RequestStays
<1>4. request'.offset = Len(pages) * Limit
  <2>1. request'.offset = request.offset + Limit
    BY <1>1, <1>2 DEF AskedInv
  <2>2. Len(pages) \in Nat /\ Limit \in Nat
    BY ExplorationsAssumption, ListsHaveElements DEF PagesInv
  <2>3. (Len(pages) - 1) * Limit + Limit = Len(pages) * Limit
    BY <2>2
  <2> QED BY <1>2, <2>1, <2>3
<1>5. FinalSpec' = FinalSpec
  BY <1>3, RowsOfTheRequest
<1>6. ~PageIsThere' /\ ~CountIsThere'
  BY <1>1, <1>3 DEF PageIsThere, CountIsThere
<1>7. AskedInv'
  BY <1>1, <1>2, <1>3, <1>4, <1>5, <1>6 DEF AskedInv
<1> QED BY <1>1, <1>3, <1>6, <1>7, StepKeepsCountInv

LEMMA FetchKeepsCountInv ==
    ASSUME JoinsInv, SpecInv, PagesInv, CountInv, FetchRecords
    PROVE  CountInv'
<1>1. phase = "records" /\ UNCHANGED <<tables, columns, quiet, request, spec, count>>
  BY DEF FetchRecords, database
<1>2. AskedInv /\ spec = FinalSpec /\ request.offset = Len(pages) * Limit
  BY <1>1 DEF CountInv, AskedInv, PageIsThere
<1>3. /\ FinalSpec' = FinalSpec /\ Whole' = Whole /\ Counts' = Counts /\ CountsWhatItLists' = CountsWhatItLists
  BY <1>1, RowsOfTheRequest
<1>4. Result = Whole /\ HasRows(Result) /\ request.offset \in Nat
  BY <1>1, <1>2, ResultsHaveRows DEF Result, Whole, Current, PagesInv
<1>5. CASE phase' = "failed" /\ UNCHANGED pages
  <2>1. AskedInv' /\ ~CountIsThere'
    BY <1>1, <1>2, <1>5 DEF AskedInv, CountIsThere
  <2> QED BY <1>1, <1>5, <2>1, StepKeepsCountInv
<1>6. ASSUME NEW page \in Pages(Result, request.listing, request.offset), AnswerPage(page), Result # Broken,
             ~(phase' = "failed" /\ UNCHANGED pages)
      PROVE  CountInv'
  <2> DEFINE new == [rows |-> WithoutPreviews(request.previews, page),
                     groups |-> GroupsOfPage(page),
                     previews |-> PreviewsOfPage(request.previews, page)]
             N == Len(pages)
  <2>1. pages' = Append(pages, new) /\ phase' = IF request.kind \in {"run", "query"} THEN "describe" ELSE "answered"
    BY <1>6 DEF AnswerPage
  <2>2. PICK X : page \in Seq(X)
    BY <1>4, PagesAreLimited
  <2>3. new.rows \in Seq(ToSet(new.rows)) /\ Len(new.rows) = Len(page)
    BY <2>2, WithoutPreviewsIsAsLong, WithoutPreviewsIsAList
  <2> HIDE DEF new
  <2>4. /\ N \in Nat /\ pages' # <<>> /\ Len(pages') = N + 1
        /\ pages'[N + 1] = new /\ \A n \in 1 .. N : pages'[n] = pages[n]
    <3>1. pages \in Seq(ToSet(pages) \cup {new})
      BY SeqMonotonic DEF PagesInv
    <3> QED BY <2>1, <3>1
  <2>5. Limit \in Nat /\ ((N + 1) - 1) * Limit = N * Limit
    BY <2>4, ExplorationsAssumption
  <2>6. AskedInv'
    <3>1. PageIsThere'
      BY <2>1 DEF PageIsThere
    <3> QED BY <1>1, <1>2, <1>3, <2>1, <2>4, <2>5, <3>1 DEF AskedInv
  <2>7. ASSUME CountsWhatItLists, PagesTally
        PROVE  PagesTally'
    <3>1. Len(new.rows) = PageLength(Len(Whole.rows), N * Limit)
      <4>1. request.listing.search = {}
        BY <2>7 DEF CountsWhatItLists
      <4>2. Len(page) = PageLength(Len(Result.rows), request.offset)
        BY <1>4, <4>1, PagesAreAsLong
      <4> QED BY <1>2, <1>4, <2>3, <4>2
    <3>2. ASSUME NEW n \in 1 .. Len(pages')
          PROVE  Len(pages'[n].rows) = PageLength(Len(Whole'.rows), (n - 1) * Limit)
      <4>1. CASE n = N + 1
        BY <1>3, <2>4, <2>5, <3>1, <4>1
      <4>2. CASE n # N + 1
        <5>1. n \in 1 .. N
          BY <2>4, <4>2
        <5> QED BY <1>3, <2>4, <2>7, <5>1 DEF PagesTally
      <4> QED BY <4>1, <4>2
    <3> QED BY <1>3, <1>4, <1>6, <3>2 DEF PagesTally
  <2>8. CountIsThere' => CountIsThere
    BY <1>1, <2>1 DEF CountIsThere
  <2>9. CountTally' = CountTally
    BY <1>1, <1>3 DEF CountTally
  <2>10. ASSUME NEW n \in 1 .. Len(pages') PROVE pages'[n].rows \in Seq(ToSet(pages'[n].rows))
    <3>1. CASE n = N + 1
      BY <2>3, <2>4, <3>1
    <3>2. CASE n # N + 1
      <4>1. n \in 1 .. N
        BY <2>4, <3>2
      <4> QED BY <2>4, <4>1 DEF CountInv
    <3> QED BY <3>1, <3>2
  <2> QED BY <1>1, <1>3, <2>1, <2>6, <2>7, <2>8, <2>9, <2>10 DEF CountInv
<1> QED BY <1>5, <1>6 DEF FetchRecords

LEMMA CountInvIsKept == JoinsInv /\ SpecInv /\ PagesInv /\ CountInv /\ [Next]_vars => CountInv'
<1> SUFFICES ASSUME JoinsInv, SpecInv, PagesInv, CountInv, [Next]_vars PROVE CountInv'
  OBVIOUS
<1>1. ASSUME UNCHANGED <<request, phase, spec, pages, count>>, UNCHANGED <<tables, columns, quiet>> \/ quiet' = FALSE
      PROVE  CountInv'
  <2>1. FinalSpec' = FinalSpec /\ CountsWhatItLists' = CountsWhatItLists
    BY <1>1, RowsOfTheRequest
  <2>2. AskedInv => AskedInv'
    BY <1>1, <2>1 DEF AskedInv, PageIsThere
  <2>3. CASE UNCHANGED <<tables, columns, quiet>>
    <3>1. Whole' = Whole /\ Counts' = Counts
      BY <1>1, <2>3, RowsOfTheRequest
    <3>2. PagesTally' = PagesTally /\ CountTally' = CountTally /\ CountIsThere' = CountIsThere
      BY <1>1, <3>1 DEF PagesTally, CountTally, CountIsThere
    <3> QED BY <1>1, <2>1, <2>2, <2>3, <3>2 DEF CountInv
  <2>4. CASE quiet' = FALSE
    BY <1>1, <2>2, <2>4 DEF CountInv
  <2> QED BY <1>1, <2>3, <2>4
<1>2. ASSUME NEW e \in Saved, NEW q, SaveExploration(e, q) \/ ReplaceExploration(e, q) \/ DeleteExploration(e)
      PROVE  CountInv'
  <2>1. UNCHANGED <<request, phase, spec, pages, count>> /\ UNCHANGED <<tables, columns, quiet>>
    BY <1>2 DEF SaveExploration, ReplaceExploration, DeleteExploration, database, answers
  <2> QED BY <1>1, <2>1
<1>3. ASSUME NEW e \in Saved, RunSavedExploration(e)
      PROVE  CountInv'
  <2>1. PICK first \in {"specify", "failed"} : Ask("run", The(saved[e]), NoListing, << >>, first)
    BY <1>3 DEF RunSavedExploration
  <2> QED BY <2>1, AskKeepsCountInv
<1>4. ASSUME NEW q \in Queries, RunExploration(q) \/ RunQuery(q) \/ \E l \in Listings : ListRecords(q, l)
      PROVE  CountInv'
  BY <1>4, AskKeepsCountInv DEF RunExploration, RunQuery, ListRecords
<1>5. ASSUME NEW x \in TableListings, ListTableRecords(x[1], x[2])
      PROVE  CountInv'
  <2>1. IsTableQuery(Query(x[1], ColumnsToFetch(columns, x[1]), <<>>))
    BY TableQueriesAre DEF JoinsInv, DatabaseInv, IsDatabase
  <2> QED BY <1>5, <2>1, AskKeepsCountInv DEF ListTableRecords
<1>6. CASE Close
  <2>1. phase' = "idle" /\ pages' = <<>>
    BY <1>6 DEF Close
  <2> QED BY <2>1 DEF CountInv
<1>7. CASE Change
  BY <1>1, <1>7 DEF Change, answers
<1>8. CASE UNCHANGED vars
  BY <1>1, <1>8 DEF vars, database, answers
<1> QED BY <1>2, <1>3, <1>4, <1>5, <1>6, <1>7, <1>8, SpecifyKeepsCountInv, FetchKeepsCountInv, DescribeKeepsCountInv,
           CountKeepsCountInv, NextPageKeepsCountInv
       DEF Next, InsertRow, DeleteRow, DropColumn

\* A query is transformed as its base table and its columns say.
LEMMA SameColumnsSameRows ==
    ASSUME NEW db, NEW left, NEW q, NEW u, NEW ts, u.base = q.base, u.initial = q.initial
    PROVE  Transformed(db, left, u, ts) = Transformed(db, left, q, ts)
<1>1. JoinPaths(u) = JoinPaths(q)
  BY DEF JoinPaths, Each
<1>2. Joined(db, u) = Joined(db, q)
  <2> DEFINE base == [i \in DOMAIN db[q.base] |-> Single(<<>>, db[q.base][i])]
  <2>1. Joined(db, q) = JoinAll(db, base, JoinPaths(q))
    BY DEF Joined, Each, JoinAll
  <2>2. Joined(db, u) = JoinAll(db, base, JoinPaths(u))
    BY DEF Joined, Each, JoinAll
  <2> QED BY <1>1, <2>1, <2>2
<1>3. Uses(u) = Uses(q) /\ Aliases(u) = Aliases(q)
  BY DEF Uses, Aliases, Each
<1>4. InitialRelation(db, left, u) = InitialRelation(db, left, q)
  BY <1>2, <1>3 DEF InitialRelation, Each
<1> QED BY <1>4 DEF Transformed

\* What is counted is what is listed, and the pages hold all of it.
LEMMA CountFollows == JoinsInv /\ SpecInv /\ PagesInv /\ CountInv => CountIsOfThePages
<1> SUFFICES ASSUME JoinsInv, SpecInv, PagesInv, CountInv, AllFetched, request.listing.duplicates = {},
                    request.listing.group # {} => The(request.listing.group).mode \notin Ranged
             PROVE  count = Len(Fetched)
  BY DEF CountIsOfThePages
<1> DEFINE N == Len(pages)
           m == Len(Whole.rows)
           q == request.query
           p == request.listing
           r == Transformed(tables, columns, q, FinalSpec)
           fallback == ~OrderUsed(FinalSpec)
<1>1. phase = "answered" /\ quiet /\ request.offset + Limit >= count /\ p.search = {}
  BY DEF AllFetched
<1>2. AskedInv /\ PageIsThere /\ CountIsThere /\ CountsWhatItLists
  BY <1>1 DEF CountInv, PageIsThere, CountIsThere, CountsWhatItLists
<1>3. /\ pages # <<>> /\ request.offset = (N - 1) * Limit
      /\ Whole # Broken /\ \A n \in 1 .. N : Len(pages[n].rows) = PageLength(m, (n - 1) * Limit)
      /\ Counts # Broken /\ count = Len(Counts.rows)
  BY <1>1, <1>2 DEF CountInv, AskedInv, PagesTally, CountTally
<1>4. IsDatabase(tables, columns) /\ IsQuery(tables, q) /\ AreTransformations(spec) /\ spec = FinalSpec
  BY <1>1, <1>2 DEF JoinsInv, DatabaseInv, RequestInv, SpecInv, AskedInv
<1>5. HasRows(r) /\ HasRows(Whole) /\ Whole = Listed(r, p, fallback)
  <2>1. HasRows(r)
    BY <1>4, TransformedHasRows
  <2> HIDE DEF r
  <2>2. HasRows(Listed(r, p, fallback))
    BY <2>1, ListedHasRows
  <2> QED BY <2>1, <2>2 DEF Whole, r
<1>6. m \in Nat
  BY <1>5, ListsHaveElements DEF HasRows
<1>7. Len(Counts.rows) = m
  <2>1. CASE request.kind # "table"
    <3>1. CountedQuery.base = q.base /\ CountedQuery.initial = q.initial
      BY <1>4, <2>1 DEF CountedQuery, IsQuery
    <3>2. Counts = Counted(r, p)
      <4>1. Transformed(tables, columns, CountedQuery, FinalSpec) = r
        BY <3>1, SameColumnsSameRows
      <4> QED BY <4>1 DEF Counts
    <3>3. Listed(r, p, fallback) # Broken
      BY <1>3, <1>5
    <3> HIDE DEF r, fallback
    <3>4. Len(Counted(r, p).rows) = Len(Listed(r, p, fallback).rows)
      BY <1>1, <1>5, <3>3, CountedIsListed
    <3> QED BY <1>5, <3>2, <3>4
  <2>2. CASE request.kind = "table"
    <3>1. IsTableQuery(q) /\ FinalSpec = <<>>
      BY <1>2, <2>2 DEF AskedInv, IsTableQuery, FinalSpec
    <3>2. CountedQuery = Unjoined(q)
      BY <2>2 DEF CountedQuery, Unjoined, Those
    <3>3. Counts = Counted(Transformed(tables, columns, Unjoined(q), <<>>), p)
      BY <3>1, <3>2 DEF Counts
    <3>4. r = Transformed(tables, columns, q, <<>>)
      BY <3>1
    <3> HIDE DEF r, fallback, q
    <3>5. Counted(Transformed(tables, columns, Unjoined(q), <<>>), p) # Broken
      BY <1>3, <3>3
    <3>6. Listed(Transformed(tables, columns, q, <<>>), p, fallback) # Broken
      BY <1>3, <1>5, <3>4
    <3>7. Len(Counted(Transformed(tables, columns, Unjoined(q), <<>>), p).rows) =
            Len(Listed(Transformed(tables, columns, q, <<>>), p, fallback).rows)
      BY <1>1, <1>4, <3>1, <3>5, <3>6, TablesAreCountedAsListed
    <3> QED BY <1>5, <3>3, <3>4, <3>7
  <2> QED BY <2>1, <2>2
<1> HIDE DEF m, r, fallback
<1>8. Len(Fetched) = IF N * Limit <= m THEN N * Limit ELSE m
  <2> DEFINE each == [n \in DOMAIN pages |-> pages[n].rows]
             X == UNION {ToSet(pages[n].rows) : n \in 1 .. N}
  <2>1. N \in Nat /\ DOMAIN pages = 1 .. N
    BY ListsHaveElements DEF PagesInv
  <2>2. Fetched = FlattenSeq(each)
    BY DEF Fetched, Each
  <2>3. each \in [1 .. N -> Seq(X)]
    <3> SUFFICES ASSUME NEW n \in 1 .. N PROVE pages[n].rows \in Seq(X)
      BY <2>1
    <3>1. pages[n].rows \in Seq(ToSet(pages[n].rows)) /\ ToSet(pages[n].rows) \subseteq X
      BY DEF CountInv
    <3> HIDE DEF X
    <3> QED BY <3>1, SeqMonotonic
  <2>4. \A n \in 1 .. N : each[n] = pages[n].rows
    BY <2>1
  <2> HIDE DEF each, X, N
  <2>5. each \in Seq(Seq(X)) /\ Len(each) = N
    BY <2>1, <2>3, ElementsMakeAList
  <2>6. \A n \in 1 .. Len(each) : Len(each[n]) = PageLength(m, (n - 1) * Limit)
    BY <1>3, <2>4, <2>5
  <2>7. Len(FlattenSeq(each)) = IF Len(each) * Limit <= m THEN Len(each) * Limit ELSE m
    BY <1>6, <2>5, <2>6, PagesHoldTheRows
  <2> QED BY <2>2, <2>5, <2>7
<1>9. request.offset + Limit = N * Limit
  <2>1. N \in Nat /\ Limit \in Nat
    BY ListsHaveElements, ExplorationsAssumption DEF PagesInv
  <2>2. (N - 1) * Limit + Limit = N * Limit /\ N * Limit \in Nat
    BY <2>1
  <2> HIDE DEF N
  <2> QED BY <1>3, <2>2
<1>10. N * Limit >= m /\ count = m
  BY <1>1, <1>3, <1>7, <1>9
<1>11. N * Limit \in Nat
  BY ListsHaveElements, ExplorationsAssumption DEF PagesInv
<1> DEFINE o == N * Limit
<1> HIDE DEF N
<1>12. o \in Nat /\ o >= m /\ Len(Fetched) = IF o <= m THEN o ELSE m
  BY <1>8, <1>10, <1>11
<1> HIDE DEF o
<1> QED BY <1>6, <1>10, <1>12

\* The count given with a page is, once all pages are fetched, the number of rows they
\* hold, for every exploration, table, filter, order, grouping that is no range, size of
\* pages and database that nobody changes meanwhile: the query that counts leaves the
\* order, the grouping and the previews of a table's records out, and these neither add
\* rows nor lose any, nor change what a filter tests.
THEOREM CountIsOfThePagesHolds == Spec => []CountIsOfThePages
<1>1. Init => CountInv /\ PagesInv
  <2> SUFFICES ASSUME Init PROVE CountInv /\ PagesInv
    OBVIOUS
  <2>1. <<>> \in Seq(ToSet(<<>>)) /\ ToSet(<<>>) = {} /\ Len(<<>>) = 0 /\ 1 .. 0 = {}
    BY DEF ToSet
  <2>2. PagesInv
    BY <2>1 DEF Init, PagesInv
  <2>3. CountInv
    BY <2>1 DEF Init, CountInv
  <2> QED BY <2>2, <2>3
<1> QED BY <1>1, CountInvIsKept, PagesInvIsKept, CountFollows, DatabasesStaySound, SpecsAreTransformations, PTL DEF Spec
=============================================================================
