-------------------------- MODULE RpcMethodsProofs --------------------------
(***************************************************************************)
(* Proofs about RpcMethods and DatabaseSetup: what is kept for a database  *)
(* never outlives it, databases that are listed are installed, references  *)
(* are valid, set-ups take no connection away, a split and a move lose no  *)
(* value, and the dependents listed foretell what a drop takes.  First what *)
(* the methods on tables and views do to them, whoever calls them.         *)
(***************************************************************************)
EXTENDS RpcMethods, OrderLemmas, SequenceTheorems, FiniteSetTheorems

-----------------------------------------------------------------------------
(***************************************************************************)
(* Well-formed tables.                                                     *)
(***************************************************************************)
\* Table u is t with n columns of these names added.
ColumnsAdded(u, t, n, names) ==
    LET new == t.next .. t.next + n - 1
    IN  /\ DOMAIN u = DOMAIN t
        /\ u.next = t.next + n /\ u.nextId = t.nextId /\ u.fks = t.fks /\ u.uniques = t.uniques
        /\ DOMAIN u.cols = DOMAIN t.cols \cup new
        /\ \A a \in DOMAIN t.cols : u.cols[a] = t.cols[a]
        /\ \A a \in new : a \notin DOMAIN t.cols /\ u.cols[a] = names[a - t.next + 1]
        /\ DOMAIN u.rows = DOMAIN t.rows
        /\ \A id \in DOMAIN t.rows :
             /\ DOMAIN u.rows[id] = ColumnsOf(t) \cup new
             /\ \A a \in ColumnsOf(t) : u.rows[id][a] = t.rows[id][a]
             /\ \A a \in new : u.rows[id][a] = NULL
        /\ u.cols = [a \in DOMAIN u.cols |-> u.cols[a]]
        /\ u.rows = [id \in DOMAIN u.rows |-> u.rows[id]]
        /\ \A id \in DOMAIN u.rows : u.rows[id] = [a \in DOMAIN u.rows[id] |-> u.rows[id][a]]

\* What adding columns makes of a table.
LEMMA AddColumnsFields ==
    ASSUME NEW t, WellFormed(t), NEW n \in Nat, NEW names, Len(names) = n
    PROVE  ColumnsAdded(add_columns(t, names), t, n, names)
<1> DEFINE new == t.next .. t.next + n - 1
           added == [a \in new |-> names[a - t.next + 1]]
           nulls == [a \in new |-> NULL]
<1> PICK u : u = add_columns(t, names)
  OBVIOUS
<1>1. u = [t EXCEPT !.cols = t.cols ++ added, !.next = t.next + n,
                    !.rows = [id \in DOMAIN t.rows |-> t.rows[id] ++ nulls]]
  BY DEF add_columns
<1>2. /\ DOMAIN u = DOMAIN t
      /\ u.next = t.next + n /\ u.nextId = t.nextId /\ u.fks = t.fks /\ u.uniques = t.uniques
      /\ u.cols = t.cols ++ added /\ u.rows = [id \in DOMAIN t.rows |-> t.rows[id] ++ nulls]
  <2> HIDE DEF added, nulls
  <2> QED BY <1>1 DEF WellFormed
<1>3. new \cap DOMAIN t.cols = {}
  BY DEF WellFormed, TableOK
<1>4. /\ DOMAIN u.cols = DOMAIN t.cols \cup new
      /\ \A a \in DOMAIN t.cols : u.cols[a] = t.cols[a]
      /\ \A a \in new : a \notin DOMAIN t.cols /\ u.cols[a] = names[a - t.next + 1]
      /\ u.cols = [a \in DOMAIN u.cols |-> u.cols[a]]
  BY <1>2, <1>3 DEF ++
<1>5. ASSUME NEW id \in DOMAIN t.rows
      PROVE  /\ DOMAIN u.rows[id] = ColumnsOf(t) \cup new
             /\ \A a \in ColumnsOf(t) : u.rows[id][a] = t.rows[id][a]
             /\ \A a \in new : u.rows[id][a] = NULL
             /\ u.rows[id] = [a \in DOMAIN u.rows[id] |-> u.rows[id][a]]
  <2>1. u.rows[id] = t.rows[id] ++ nulls
    BY <1>2
  <2>2. DOMAIN t.rows[id] = ColumnsOf(t) /\ new \cap ColumnsOf(t) = {}
    BY <1>3 DEF WellFormed, ColumnsOf
  <2> QED BY <2>1, <2>2 DEF ++
<1> QED BY <1>2, <1>4, <1>5 DEF ColumnsAdded

\* Columns with names of their own keep a table well-formed.
LEMMA AddColumnsKeeps ==
    ASSUME NEW t, WellFormed(t), NEW n \in Nat, NEW names \in [1 .. n -> Nat], Len(names) = n,
           IsInjective(names), Range(names) \cap NamesOf(t) = {}
    PROVE  WellFormed(add_columns(t, names))
<1> DEFINE new == t.next .. t.next + n - 1
<1> PICK u : u = add_columns(t, names)
  OBVIOUS
<1>1. /\ DOMAIN u = DOMAIN t
      /\ u.next = t.next + n /\ u.nextId = t.nextId /\ u.fks = t.fks /\ u.uniques = t.uniques
      /\ DOMAIN u.cols = DOMAIN t.cols \cup new
      /\ \A a \in DOMAIN t.cols : u.cols[a] = t.cols[a]
      /\ \A a \in new : a \notin DOMAIN t.cols /\ u.cols[a] = names[a - t.next + 1]
      /\ DOMAIN u.rows = DOMAIN t.rows
      /\ \A id \in DOMAIN t.rows :
           /\ DOMAIN u.rows[id] = ColumnsOf(t) \cup new
           /\ \A a \in ColumnsOf(t) : u.rows[id][a] = t.rows[id][a]
           /\ \A a \in new : u.rows[id][a] = NULL
      /\ u.cols = [a \in DOMAIN u.cols |-> u.cols[a]]
      /\ u.rows = [id \in DOMAIN u.rows |-> u.rows[id]]
      /\ \A id \in DOMAIN u.rows : u.rows[id] = [a \in DOMAIN u.rows[id] |-> u.rows[id][a]]
  <2>1. ColumnsAdded(u, t, n, names)
    BY AddColumnsFields
  <2> QED BY <2>1 DEF ColumnsAdded
<1>2. /\ t.next \in Nat \ {0} /\ DOMAIN t.cols \subseteq 1 .. t.next - 1 /\ 1 \in DOMAIN t.cols
      /\ ColumnsOf(t) = DOMAIN t.cols \ {1}
  BY DEF WellFormed, TableOK, ColumnsOf
<1>3. ColumnsOf(u) = ColumnsOf(t) \cup new
  BY <1>1, <1>2 DEF ColumnsOf
<1>4. \A a \in new : a - t.next + 1 \in 1 .. n
  BY <1>2
<1>5. u.cols \in [DOMAIN u.cols -> Nat]
  BY <1>1, <1>4 DEF WellFormed
<1>6. IsInjective(u.cols)
  <2>1. ASSUME NEW a \in DOMAIN t.cols, NEW b \in new PROVE u.cols[a] # u.cols[b]
    <3>1. u.cols[a] \in NamesOf(t) /\ u.cols[b] \in Range(names)
      BY <1>1, <1>4 DEF NamesOf, Range
    <3> QED BY <3>1
  <2>2. ASSUME NEW a \in new, NEW b \in new, u.cols[a] = u.cols[b] PROVE a = b
    <3>1. a - t.next + 1 = b - t.next + 1
      BY <2>2, <1>1, <1>4 DEF IsInjective
    <3> QED BY <3>1, <1>2
  <2>3. ASSUME NEW a \in DOMAIN t.cols, NEW b \in DOMAIN t.cols, u.cols[a] = u.cols[b] PROVE a = b
    BY <2>3, <1>1 DEF WellFormed, TableOK, IsInjective
  <2> QED BY <2>1, <2>2, <2>3, <1>1 DEF IsInjective
<1>7. u.rows \in [DOMAIN u.rows -> [ColumnsOf(u) -> Nat]]
  <2>1. ASSUME NEW id \in DOMAIN t.rows PROVE u.rows[id] \in [ColumnsOf(u) -> Nat]
    <3>1. \A a \in ColumnsOf(t) : t.rows[id][a] \in Nat
      BY DEF WellFormed
    <3>2. DOMAIN u.rows[id] = ColumnsOf(u) /\ \A a \in ColumnsOf(u) : u.rows[id][a] \in Nat
      BY <3>1, <1>1, <1>3 DEF NULL
    <3>3. u.rows[id] = [a \in DOMAIN u.rows[id] |-> u.rows[id][a]]
      BY <1>1
    <3> QED BY <3>2, <3>3
  <2> QED BY <2>1, <1>1
<1>8. TableOK(u)
  <2>1. DOMAIN u.cols \subseteq 1 .. u.next - 1 /\ 1 \in DOMAIN u.cols
    BY <1>1, <1>2
  <2> QED BY <2>1, <1>1, <1>3, <1>6 DEF WellFormed, TableOK
<1> QED BY <1>1, <1>2, <1>5, <1>7, <1>8 DEF WellFormed

\* Table u is t without the columns C.
ColumnsDropped(u, t, C) ==
    /\ DOMAIN u = DOMAIN t /\ u.next = t.next /\ u.nextId = t.nextId
    /\ u.cols = [a \in DOMAIN t.cols \ C |-> t.cols[a]]
    /\ u.fks = [a \in DOMAIN t.fks \ C |-> t.fks[a]]
    /\ u.uniques = {U \in t.uniques : U \cap C = {}}
    /\ u.rows = [id \in DOMAIN t.rows |-> [a \in ColumnsOf(t) \ C |-> t.rows[id][a]]]

\* What dropping columns leaves of a table.
LEMMA DropColumnsFields ==
    ASSUME NEW t, WellFormed(t), NEW C
    PROVE  ColumnsDropped(drop_columns(t, C), t, C)
<1> DEFINE cols == Restrict(t.cols, DOMAIN t.cols \ C)
           rows == [id \in DOMAIN t.rows |-> Restrict(t.rows[id], DOMAIN t.rows[id] \ C)]
           fks == Restrict(t.fks, DOMAIN t.fks \ C)
           uniques == {U \in t.uniques : U \cap C = {}}
<1> PICK u : u = drop_columns(t, C)
  OBVIOUS
<1>1. u = [t EXCEPT !.cols = cols, !.rows = rows, !.fks = fks, !.uniques = uniques]
  BY DEF drop_columns, Without
<1>2. /\ DOMAIN u = DOMAIN t /\ u.next = t.next /\ u.nextId = t.nextId
      /\ u.cols = cols /\ u.fks = fks /\ u.uniques = uniques /\ u.rows = rows
  <2> HIDE DEF cols, rows, fks, uniques
  <2> QED BY <1>1 DEF WellFormed
<1>3. rows = [id \in DOMAIN t.rows |-> [a \in ColumnsOf(t) \ C |-> t.rows[id][a]]]
  BY DEF WellFormed, Restrict
<1> QED BY <1>2, <1>3 DEF Restrict, ColumnsDropped

\* A table loses columns, never its id.
LEMMA DropColumnsKeeps ==
    ASSUME NEW t, WellFormed(t), NEW C, 1 \notin C
    PROVE  WellFormed(drop_columns(t, C)) /\ ColumnsOf(drop_columns(t, C)) = ColumnsOf(t) \ C
<1> PICK u : u = drop_columns(t, C)
  OBVIOUS
<1>1. /\ DOMAIN u = DOMAIN t /\ u.next = t.next /\ u.nextId = t.nextId
      /\ u.cols = [a \in DOMAIN t.cols \ C |-> t.cols[a]]
      /\ u.fks = [a \in DOMAIN t.fks \ C |-> t.fks[a]]
      /\ u.uniques = {U \in t.uniques : U \cap C = {}}
      /\ u.rows = [id \in DOMAIN t.rows |-> [a \in ColumnsOf(t) \ C |-> t.rows[id][a]]]
  <2>1. ColumnsDropped(u, t, C)
    BY DropColumnsFields
  <2> QED BY <2>1 DEF ColumnsDropped
<1>2. ColumnsOf(u) = ColumnsOf(t) \ C
  BY <1>1 DEF ColumnsOf
<1>3. u.rows \in [DOMAIN u.rows -> [ColumnsOf(u) -> Nat]]
  BY <1>1, <1>2 DEF WellFormed
<1>4. IsInjective(u.cols)
  BY <1>1 DEF WellFormed, TableOK, IsInjective
<1>5. u.uniques \subseteq (SUBSET ColumnsOf(u)) \ {{}}
  <2>1. t.uniques \subseteq (SUBSET ColumnsOf(t)) \ {{}}
    BY DEF WellFormed, TableOK
  <2> QED BY <2>1, <1>1, <1>2
<1>6. TableOK(u)
  BY <1>1, <1>2, <1>4, <1>5 DEF WellFormed, TableOK
<1>7. u.cols[1] = IdName
  BY <1>1 DEF WellFormed, TableOK
<1>8. u.fks \in [DOMAIN u.fks -> Nat]
  BY <1>1 DEF WellFormed
<1>9. DOMAIN u = {"cols", "next", "rows", "nextId", "fks", "uniques"} /\ u.next \in Nat \ {0} /\ u.nextId \in Nat \ {0}
  BY <1>1 DEF WellFormed
<1>10. u.cols \in [DOMAIN u.cols -> Nat]
  BY <1>1 DEF WellFormed
<1> QED BY <1>2, <1>3, <1>6, <1>7, <1>8, <1>9, <1>10 DEF WellFormed

\* A new key column finds a name: a table has fewer columns than there are names to try.
LEMMA KeyNameIsFree ==
    ASSUME NEW t, WellFormed(t)
    PROVE  /\ build_unique_fkey_column_name(t) \in Nat
           /\ build_unique_fkey_column_name(t) \notin NamesOf(t)
<1> DEFINE tried == FirstKeyName .. FirstKeyName + t.next
           free == tried \ NamesOf(t)
<1>1. t.next \in Nat \ {0} /\ DOMAIN t.cols \subseteq 1 .. t.next - 1
  BY DEF WellFormed, TableOK
<1>2. free # {}
  <2>1. SUFFICES ASSUME tried \subseteq NamesOf(t) PROVE FALSE
    OBVIOUS
  <2>2. IsFiniteSet(1 .. t.next - 1) /\ Cardinality(1 .. t.next - 1) = t.next - 1
    <3>1. 1 \in Int /\ t.next - 1 \in Int
      BY <1>1
    <3>2. /\ IsFiniteSet(1 .. t.next - 1)
          /\ Cardinality(1 .. t.next - 1) = IF 1 > t.next - 1 THEN 0 ELSE t.next - 1 - 1 + 1
      BY <3>1, FS_Interval
    <3> QED BY <1>1, <3>2
  <2>3. IsFiniteSet(DOMAIN t.cols) /\ Cardinality(DOMAIN t.cols) <= t.next - 1
    BY <1>1, <2>2, FS_Subset
  <2>4. t.cols \in Surjection(DOMAIN t.cols, NamesOf(t))
    BY DEF WellFormed, NamesOf, Range, Surjection
  <2>5. IsFiniteSet(NamesOf(t)) /\ Cardinality(NamesOf(t)) <= Cardinality(DOMAIN t.cols)
    BY <2>3, <2>4, FS_Surjection
  <2>6. Cardinality(tried) <= Cardinality(NamesOf(t))
    BY <2>1, <2>5, FS_Subset
  <2>7. Cardinality(tried) = t.next + 1
    BY <1>1, FS_Interval DEF FirstKeyName
  <2>8. Cardinality(DOMAIN t.cols) \in Nat /\ Cardinality(NamesOf(t)) \in Nat
    BY <2>3, <2>5, FS_CardinalityType
  <2> HIDE DEF tried
  <2> QED BY <1>1, <2>3, <2>5, <2>6, <2>7, <2>8
<1>3. free \in SUBSET Nat
  BY <1>1 DEF FirstKeyName
<1>4. PICK n \in free : \A m \in free : n <= m
  BY <1>2, <1>3, SmallestIsThere
<1>5. n \in tried /\ n \notin NamesOf(t) /\ \A m \in FirstKeyName .. n - 1 : m \in NamesOf(t)
  BY <1>1, <1>4 DEF FirstKeyName
<1>6. /\ build_unique_fkey_column_name(t) \in tried
      /\ build_unique_fkey_column_name(t) \notin NamesOf(t)
  BY <1>5 DEF build_unique_fkey_column_name
<1> QED BY <1>1, <1>6 DEF FirstKeyName

\* Table u is t with one more column, which refers to table ref.
KeyAdded(u, t, ref) ==
    /\ u.next = t.next + 1 /\ u.nextId = t.nextId
    /\ DOMAIN u.cols = DOMAIN t.cols \cup {t.next} /\ t.next \notin DOMAIN t.cols /\ t.next # 1
    /\ \A a \in DOMAIN t.cols : u.cols[a] = t.cols[a]
    /\ DOMAIN u.rows = DOMAIN t.rows
    /\ \A id \in DOMAIN t.rows : /\ \A a \in ColumnsOf(t) : u.rows[id][a] = t.rows[id][a]
                                 /\ u.rows[id][t.next] = NULL
    /\ DOMAIN u.fks = DOMAIN t.fks \cup {t.next} /\ u.fks[t.next] = ref
    /\ \A a \in DOMAIN t.fks : u.fks[a] = t.fks[a]

\* What a new key column makes of a table.
LEMMA WithKeyFields ==
    ASSUME NEW t, WellFormed(t), NEW ref \in Nat, NEW unique \in BOOLEAN
    PROVE  WellFormed(WithKey(t, ref, unique)) /\ KeyAdded(WithKey(t, ref, unique), t, ref)
<1> PICK name : name = build_unique_fkey_column_name(t)
  OBVIOUS
<1> PICK w : w = add_columns(t, <<name>>)
  OBVIOUS
<1> PICK u : u = WithKey(t, ref, unique)
  OBVIOUS
<1> DEFINE fks == w.fks ++ Single(t.next, ref)
           uniques == w.uniques \cup IF unique THEN {{t.next}} ELSE {}
<1>1. name \in Nat /\ name \notin NamesOf(t)
  BY KeyNameIsFree
<1>2. WellFormed(w) /\ ColumnsAdded(w, t, 1, <<name>>)
  <2>1. <<name>> \in [1 .. 1 -> Nat] /\ Len(<<name>>) = 1
    BY <1>1
  <2>2. IsInjective(<<name>>) /\ Range(<<name>>) \cap NamesOf(t) = {}
    BY <1>1 DEF IsInjective, Range
  <2> QED BY <2>1, <2>2, AddColumnsKeeps, AddColumnsFields
<1>3. u = [w EXCEPT !.fks = fks, !.uniques = uniques]
  BY DEF WithKey
<1>4. /\ DOMAIN u = DOMAIN w /\ u.next = w.next /\ u.nextId = w.nextId /\ u.cols = w.cols
      /\ u.rows = w.rows /\ u.fks = fks /\ u.uniques = uniques
  <2> HIDE DEF fks, uniques
  <2> QED BY <1>2, <1>3 DEF WellFormed
<1>5. /\ t.next \in Nat \ {0} /\ t.next # 1 /\ t.next \notin DOMAIN t.cols
      /\ DOMAIN t.fks \subseteq ColumnsOf(t) /\ t.next .. t.next + 1 - 1 = {t.next}
  <2>1. t.next \in Nat \ {0} /\ 1 \in DOMAIN t.cols /\ DOMAIN t.cols \subseteq 1 .. t.next - 1
    BY DEF WellFormed, TableOK
  <2>2. t.next # 1 /\ t.next \notin DOMAIN t.cols
    BY <2>1
  <2>3. t.next .. t.next + 1 - 1 = {t.next}
    BY <2>1
  <2> QED BY <2>1, <2>2, <2>3 DEF WellFormed, TableOK
<1>6. /\ DOMAIN fks = DOMAIN t.fks \cup {t.next} /\ fks[t.next] = ref
      /\ \A a \in DOMAIN t.fks : fks[a] = t.fks[a]
  <2>1. w.fks = t.fks /\ t.next \notin DOMAIN t.fks
    BY <1>2, <1>5 DEF ColumnsAdded, ColumnsOf
  <2> QED BY <2>1 DEF ++, Single
<1>7. /\ w.next = t.next + 1 /\ w.nextId = t.nextId
      /\ DOMAIN w.cols = DOMAIN t.cols \cup {t.next}
      /\ \A a \in DOMAIN t.cols : w.cols[a] = t.cols[a]
      /\ DOMAIN w.rows = DOMAIN t.rows
      /\ \A id \in DOMAIN t.rows : /\ \A a \in ColumnsOf(t) : w.rows[id][a] = t.rows[id][a]
                                   /\ w.rows[id][t.next] = NULL
  BY <1>2, <1>5 DEF ColumnsAdded
<1>8. KeyAdded(u, t, ref)
  <2> HIDE DEF fks, uniques
  <2> QED BY <1>4, <1>5, <1>6, <1>7 DEF KeyAdded
<1>9. ColumnsOf(u) = ColumnsOf(w) /\ ColumnsOf(w) = ColumnsOf(t) \cup {t.next}
  BY <1>4, <1>5, <1>7 DEF ColumnsOf
<1>10. u.fks \in [DOMAIN u.fks -> Nat] /\ DOMAIN u.fks \subseteq ColumnsOf(u)
  <2>1. \A a \in DOMAIN t.fks : t.fks[a] \in Nat
    BY DEF WellFormed
  <2>2. fks = [a \in DOMAIN fks |-> fks[a]]
    BY DEF ++
  <2> HIDE DEF fks
  <2> QED BY <1>4, <1>5, <1>6, <1>9, <2>1, <2>2
<1>11. u.uniques \subseteq (SUBSET ColumnsOf(u)) \ {{}}
  <2>1. w.uniques \subseteq (SUBSET ColumnsOf(u)) \ {{}}
    BY <1>2, <1>9 DEF WellFormed, TableOK
  <2> QED BY <1>4, <1>9, <2>1
<1>12. WellFormed(u)
  <2> HIDE DEF fks, uniques
  <2>1. TableOK(u)
    BY <1>2, <1>4, <1>9, <1>10, <1>11 DEF WellFormed, TableOK
  <2> QED BY <1>2, <1>4, <1>9, <1>10, <2>1 DEF WellFormed
<1> QED BY <1>8, <1>12

-----------------------------------------------------------------------------
(***************************************************************************)
(* Databases of well-formed tables, whose references are to rows there     *)
(* are.                                                                    *)
(***************************************************************************)
DatabaseOK(db) ==
    /\ NextOid(db) \in Nat \ {0} /\ DOMAIN db \subseteq 1 .. NextOid(db) - 1
    /\ db = [o \in DOMAIN db |-> db[o]]
    /\ \A o \in DOMAIN db : WellFormed(db[o])

\* The references of table t are to rows of db.
Refers(t, db) == \A c \in DOMAIN t.fks : \A id \in DOMAIN t.rows :
    t.rows[id][c] \in {NULL} \cup RowsReferredTo(db, t.fks[c])

Consistent(db) == DatabaseOK(db) /\ \A o \in DOMAIN db : Refers(db[o], db)

\* Every row of db that can be referred to is one of after.
Keeps(after, db) == \A o : RowsReferredTo(db, o) \subseteq RowsReferredTo(after, o)

\* A consistent database holds its references.
LEMMA ConsistentRefers ==
    ASSUME NEW db
    PROVE  (\A o \in DOMAIN db : Refers(db[o], db)) <=> KeysRefer(db)
BY DEF Refers, KeysRefer

\* What refers to rows that stay goes on to refer.
LEMMA StillRefers ==
    ASSUME NEW t, NEW db, NEW after, Refers(t, db), Keeps(after, db)
    PROVE  Refers(t, after)
BY DEF Refers, Keeps

\* The next oid is larger than every oid there is.
LEMMA NextOidIsNew ==
    ASSUME NEW db, NEW n \in Nat, DOMAIN db \subseteq 1 .. n
    PROVE  NextOid(db) \in Nat \ {0} /\ DOMAIN db \subseteq 1 .. NextOid(db) - 1
<1> DEFINE S == {0} \cup DOMAIN db
<1>1. S \in SUBSET (0 .. n) /\ S # {}
  OBVIOUS
<1>2. Max(S) \in S /\ \A x \in S : x <= Max(S)
  <2> HIDE DEF S
  <2> QED BY <1>1, LargestIsThere
<1>3. Max(S) \in Nat /\ \A x \in DOMAIN db : x \in 1 .. Max(S)
  BY <1>1, <1>2
<1>4. NextOid(db) = Max(S) + 1
  BY DEF NextOid
<1> HIDE DEF S
<1> QED BY <1>3, <1>4

\* A table takes the place of another.
LEMMA TableReplaced ==
    ASSUME NEW db, DatabaseOK(db), NEW o \in DOMAIN db, NEW t, WellFormed(t)
    PROVE  DatabaseOK([db EXCEPT ![o] = t])
<1> PICK after : after = [db EXCEPT ![o] = t]
  OBVIOUS
<1>1. /\ DOMAIN after = DOMAIN db /\ after[o] = t
      /\ \A p \in DOMAIN db : p # o => after[p] = db[p]
      /\ after = [p \in DOMAIN after |-> after[p]]
  BY DEF DatabaseOK
<1>2. NextOid(after) = NextOid(db)
  BY <1>1 DEF NextOid
<1> QED BY <1>1, <1>2 DEF DatabaseOK

\* Database after is db with one more table, t.
Added(after, db, t) ==
    /\ DatabaseOK(after) /\ Keeps(after, db)
    /\ NextOid(db) \notin DOMAIN db /\ DOMAIN after = DOMAIN db \cup {NextOid(db)}
    /\ after[NextOid(db)] = t /\ \A o \in DOMAIN db : after[o] = db[o]

\* A table is added.
LEMMA TableAdded ==
    ASSUME NEW db, DatabaseOK(db), NEW t, WellFormed(t)
    PROVE  Added(db ++ Single(NextOid(db), t), db, t)
<1> PICK new : new = NextOid(db)
  OBVIOUS
<1> PICK after : after = db ++ Single(new, t)
  OBVIOUS
<1>1. new \in Nat \ {0} /\ DOMAIN db \subseteq 1 .. new - 1 /\ new \notin DOMAIN db
  BY DEF DatabaseOK
<1>2. /\ DOMAIN after = DOMAIN db \cup {new}
      /\ after[new] = t /\ \A o \in DOMAIN db : after[o] = db[o]
      /\ after = [o \in DOMAIN after |-> after[o]]
  BY <1>1 DEF ++, Single
<1>3. DOMAIN after \subseteq 1 .. new
  BY <1>1, <1>2
<1>4. NextOid(after) \in Nat \ {0} /\ DOMAIN after \subseteq 1 .. NextOid(after) - 1
  BY <1>1, <1>3, NextOidIsNew
<1>5. \A o \in DOMAIN after : WellFormed(after[o])
  BY <1>2 DEF DatabaseOK
<1>6. DatabaseOK(after)
  BY <1>2, <1>4, <1>5 DEF DatabaseOK
<1>7. Keeps(after, db)
  BY <1>2 DEF Keeps, RowsReferredTo
<1> QED BY <1>1, <1>2, <1>6, <1>7 DEF Added

\* A table that keeps its rows takes the place of another, and refers to rows there are.
LEMMA TableChanged ==
    ASSUME NEW db, Consistent(db), NEW o \in DOMAIN db, NEW t, WellFormed(t),
           DOMAIN t.rows = DOMAIN db[o].rows, Refers(t, db)
    PROVE  Consistent([db EXCEPT ![o] = t])
<1> PICK after : after = [db EXCEPT ![o] = t]
  OBVIOUS
<1>1. DatabaseOK(after)
  BY TableReplaced DEF Consistent
<1>2. /\ DOMAIN after = DOMAIN db /\ after[o] = t
      /\ \A p \in DOMAIN db : p # o => after[p] = db[p]
  BY DEF Consistent, DatabaseOK
<1>3. Keeps(after, db)
  BY <1>2 DEF Keeps, RowsReferredTo
<1>4. \A p \in DOMAIN after : Refers(after[p], db)
  BY <1>2 DEF Consistent
<1> QED BY <1>1, <1>3, <1>4, StillRefers DEF Consistent

-----------------------------------------------------------------------------
(***************************************************************************)
(* The methods on tables, columns and constraints.                         *)
(***************************************************************************)
\* A table that has nothing but its id.
LEMMA EmptyTableIsWellFormed == WellFormed(EmptyTable) /\ NamesOf(EmptyTable) = {IdName}
<1> PICK t : t = EmptyTable
  OBVIOUS
<1>1. /\ DOMAIN t = {"cols", "next", "rows", "nextId", "fks", "uniques"}
      /\ t.cols = Single(1, IdName) /\ t.next = 2 /\ t.rows = <<>> /\ t.nextId = 1
      /\ t.fks = <<>> /\ t.uniques = {}
  BY DEF EmptyTable
<1>2. /\ DOMAIN t.cols = {1} /\ t.cols[1] = IdName /\ t.cols \in [DOMAIN t.cols -> Nat]
      /\ IsInjective(t.cols) /\ ColumnsOf(t) = {} /\ NamesOf(t) = {IdName}
  BY <1>1 DEF Single, IdName, IsInjective, ColumnsOf, NamesOf, Range
<1>3. DOMAIN t.rows = {} /\ DOMAIN t.fks = {}
  BY <1>1
<1>4. t.rows \in [DOMAIN t.rows -> [ColumnsOf(t) -> Nat]] /\ t.fks \in [DOMAIN t.fks -> Nat]
  BY <1>1, <1>3
<1>5. TableOK(t)
  BY <1>1, <1>2, <1>3 DEF TableOK
<1> QED BY <1>1, <1>2, <1>4, <1>5 DEF WellFormed

\* One column with a name of its own keeps a table well-formed and its references.
LEMMA AddColumnKeeps ==
    ASSUME NEW t, WellFormed(t), NEW n \in Nat, n \notin NamesOf(t), NEW u, u = add_columns(t, <<n>>)
    PROVE  /\ WellFormed(u) /\ DOMAIN u.rows = DOMAIN t.rows
           /\ \A db : Refers(t, db) => Refers(u, db)
<1>1. <<n>> \in [1 .. 1 -> Nat] /\ Len(<<n>>) = 1
  OBVIOUS
<1>2. IsInjective(<<n>>) /\ Range(<<n>>) \cap NamesOf(t) = {}
  BY DEF IsInjective, Range
<1>3. WellFormed(u) /\ ColumnsAdded(u, t, 1, <<n>>)
  BY <1>1, <1>2, AddColumnsKeeps, AddColumnsFields
<1>4. /\ u.fks = t.fks /\ DOMAIN u.rows = DOMAIN t.rows
      /\ \A id \in DOMAIN t.rows : \A a \in ColumnsOf(t) : u.rows[id][a] = t.rows[id][a]
  BY <1>3 DEF ColumnsAdded
<1>5. DOMAIN t.fks \subseteq ColumnsOf(t)
  BY DEF WellFormed, TableOK
<1> QED BY <1>3, <1>4, <1>5 DEF Refers

\* tables.add
LEMMA AddTableKeeps ==
    ASSUME NEW db, Consistent(db), NEW n \in Nat, n # IdName
    PROVE  Consistent(AddTable(db, <<n>>))
<1> PICK t : t = add_columns(EmptyTable, <<n>>)
  OBVIOUS
<1> PICK after : after = db ++ Single(NextOid(db), t)
  OBVIOUS
<1>1. WellFormed(t) /\ DOMAIN t.rows = {}
  <2>1. DOMAIN EmptyTable.rows = {}
    BY DEF EmptyTable
  <2> QED BY <2>1, EmptyTableIsWellFormed, AddColumnKeeps
<1>2. /\ DatabaseOK(after) /\ Keeps(after, db)
      /\ DOMAIN after = DOMAIN db \cup {NextOid(db)}
      /\ after[NextOid(db)] = t /\ \A o \in DOMAIN db : after[o] = db[o]
  <2>1. Added(after, db, t)
    BY <1>1, TableAdded DEF Consistent
  <2> QED BY <2>1 DEF Added
<1>3. Refers(t, after)
  BY <1>1 DEF Refers
<1>4. \A o \in DOMAIN after : Refers(after[o], after)
  BY <1>2, <1>3, StillRefers DEF Consistent
<1> QED BY <1>2, <1>4 DEF Consistent, AddTable

\* tables.delete
LEMMA DropTableKeeps ==
    ASSUME NEW db, Consistent(db), NEW o \in DOMAIN db
    PROVE  /\ Consistent(DropTable(db, o)) /\ DOMAIN DropTable(db, o) = DOMAIN db \ {o}
           /\ \A p \in DOMAIN db \ {o} : DropTable(db, o)[p].cols = db[p].cols
<1> PICK after : after = DropTable(db, o)
  OBVIOUS
<1>1. /\ DOMAIN after = DOMAIN db \ {o} /\ after = [p \in DOMAIN after |-> after[p]]
      /\ \A p \in DOMAIN after :
            after[p] = [db[p] EXCEPT !.fks = Restrict(db[p].fks, {c \in DOMAIN db[p].fks : db[p].fks[c] # o})]
  BY DEF DropTable
<1>2. ASSUME NEW p \in DOMAIN after
      PROVE  /\ WellFormed(after[p]) /\ after[p].rows = db[p].rows /\ after[p].cols = db[p].cols
             /\ DOMAIN after[p].fks = {c \in DOMAIN db[p].fks : db[p].fks[c] # o}
             /\ \A c \in DOMAIN after[p].fks : after[p].fks[c] = db[p].fks[c]
  <2> PICK t : t = db[p]
    OBVIOUS
  <2> PICK u : u = after[p]
    OBVIOUS
  <2> DEFINE fks == Restrict(t.fks, {c \in DOMAIN t.fks : t.fks[c] # o})
  <2>1. WellFormed(t) /\ u = [t EXCEPT !.fks = fks]
    BY <1>1 DEF Consistent, DatabaseOK
  <2>2. /\ DOMAIN u = DOMAIN t /\ u.next = t.next /\ u.nextId = t.nextId /\ u.cols = t.cols
        /\ u.rows = t.rows /\ u.uniques = t.uniques /\ u.fks = fks
    <3> HIDE DEF fks
    <3> QED BY <2>1 DEF WellFormed
  <2>3. /\ DOMAIN fks = {c \in DOMAIN t.fks : t.fks[c] # o}
        /\ \A c \in DOMAIN fks : fks[c] = t.fks[c]
        /\ fks \in [DOMAIN fks -> Nat]
    BY <2>1 DEF Restrict, WellFormed
  <2>4. ColumnsOf(u) = ColumnsOf(t)
    BY <2>2 DEF ColumnsOf
  <2> HIDE DEF fks
  <2>5. TableOK(u)
    BY <2>1, <2>2, <2>3, <2>4 DEF WellFormed, TableOK
  <2>6. WellFormed(u)
    BY <2>1, <2>2, <2>3, <2>4, <2>5 DEF WellFormed
  <2> QED BY <2>2, <2>3, <2>6
<1>3. NextOid(after) \in Nat \ {0} /\ DOMAIN after \subseteq 1 .. NextOid(after) - 1
  <2>1. NextOid(db) - 1 \in Nat /\ DOMAIN after \subseteq 1 .. NextOid(db) - 1
    BY <1>1 DEF Consistent, DatabaseOK
  <2> QED BY <2>1, NextOidIsNew
<1>4. DatabaseOK(after)
  BY <1>1, <1>2, <1>3 DEF DatabaseOK
<1>5. \A p : p # o => RowsReferredTo(after, p) = RowsReferredTo(db, p)
  BY <1>1, <1>2 DEF RowsReferredTo
<1>6. \A p \in DOMAIN after : Refers(after[p], after)
  BY <1>1, <1>2, <1>5 DEF Consistent, Refers
<1> QED BY <1>1, <1>2, <1>4, <1>6 DEF Consistent

\* Methods on one table: the rest of the database stays as it is, and so do the rows.
TableMethod(u, t) ==
    /\ WellFormed(u) /\ DOMAIN u.rows = DOMAIN t.rows
    /\ \A db : Refers(t, db) => Refers(u, db)

\* Such a method keeps the database consistent.
LEMMA TableMethodKeeps ==
    ASSUME NEW db, Consistent(db), NEW o \in DOMAIN db, NEW u, TableMethod(u, db[o])
    PROVE  Consistent([db EXCEPT ![o] = u])
<1>1. Refers(db[o], db)
  BY DEF Consistent
<1> QED BY <1>1, TableChanged DEF TableMethod

\* columns.patch
LEMMA RenameKeeps ==
    ASSUME NEW t, WellFormed(t), NEW c, NEW name \in Nat, CanRename(t, c, name)
    PROVE  TableMethod(Rename(t, c, name), t) /\ DOMAIN Rename(t, c, name).cols = DOMAIN t.cols
<1> PICK u : u = Rename(t, c, name)
  OBVIOUS
<1> DEFINE cols == [t.cols EXCEPT ![c] = name]
<1>1. u = [t EXCEPT !.cols = cols]
  BY DEF Rename
<1>2. /\ DOMAIN u = DOMAIN t /\ u.next = t.next /\ u.nextId = t.nextId /\ u.cols = cols
      /\ u.rows = t.rows /\ u.uniques = t.uniques /\ u.fks = t.fks
  <2> HIDE DEF cols
  <2> QED BY <1>1 DEF WellFormed
<1>3. c \in DOMAIN t.cols /\ name \notin NamesOf(t)
  BY DEF CanRename, ColumnsOf
<1>4. /\ DOMAIN cols = DOMAIN t.cols /\ cols[c] = name
      /\ \A a \in DOMAIN t.cols : a # c => cols[a] = t.cols[a]
      /\ cols \in [DOMAIN cols -> Nat]
  BY <1>3 DEF WellFormed
<1>5. IsInjective(cols)
  <2>1. \A a \in DOMAIN t.cols : t.cols[a] # name
    BY <1>3 DEF NamesOf, Range
  <2> HIDE DEF cols
  <2> QED BY <2>1, <1>4 DEF WellFormed, TableOK, IsInjective
<1>6. ColumnsOf(u) = ColumnsOf(t)
  BY <1>2, <1>4 DEF ColumnsOf
<1> HIDE DEF cols
<1>7. TableOK(u)
  BY <1>2, <1>4, <1>5, <1>6 DEF WellFormed, TableOK
<1>8. WellFormed(u)
  <2>1. 1 \in DOMAIN t.cols /\ c # 1 /\ t.cols[1] = IdName
    BY <1>3 DEF CanRename, ColumnsOf, WellFormed, TableOK
  <2>2. cols[1] = IdName
    BY <2>1, <1>4
  <2> QED BY <2>2, <1>2, <1>4, <1>6, <1>7 DEF WellFormed
<1> QED BY <1>2, <1>4, <1>8 DEF TableMethod, Refers

\* columns.delete
LEMMA DropColumnsIsAMethod ==
    ASSUME NEW t, WellFormed(t), NEW C, C \subseteq ColumnsOf(t)
    PROVE  TableMethod(drop_columns(t, C), t)
<1> PICK u : u = drop_columns(t, C)
  OBVIOUS
<1>1. 1 \notin C
  BY DEF ColumnsOf
<1>2. WellFormed(u) /\ ColumnsDropped(u, t, C)
  BY <1>1, DropColumnsKeeps, DropColumnsFields
<1>3. DOMAIN t.fks \subseteq ColumnsOf(t)
  BY DEF WellFormed, TableOK
<1> QED BY <1>2, <1>3 DEF TableMethod, Refers, ColumnsDropped

\* Other constraints on the same columns.
LEMMA ConstraintsChanged ==
    ASSUME NEW t, WellFormed(t), NEW fks, NEW uniques,
           fks \in [DOMAIN fks -> Nat], DOMAIN fks \subseteq ColumnsOf(t),
           uniques \subseteq (SUBSET ColumnsOf(t)) \ {{}},
           NEW u, DOMAIN u = DOMAIN t, u.next = t.next, u.nextId = t.nextId, u.cols = t.cols,
           u.rows = t.rows, u.fks = fks, u.uniques = uniques
    PROVE  WellFormed(u)
<1>1. ColumnsOf(u) = ColumnsOf(t)
  BY DEF ColumnsOf
<1>2. TableOK(u)
  BY <1>1 DEF WellFormed, TableOK
<1> QED BY <1>1, <1>2 DEF WellFormed

\* constraints.add, of a unique constraint
LEMMA AddUniqueKeeps ==
    ASSUME NEW t, WellFormed(t), NEW C, CanAddUnique(t, C), C # {}
    PROVE  TableMethod(AddUnique(t, C), t) /\ AddUnique(t, C).cols = t.cols
<1> PICK u : u = AddUnique(t, C)
  OBVIOUS
<1>1. /\ DOMAIN u = DOMAIN t /\ u.next = t.next /\ u.nextId = t.nextId /\ u.cols = t.cols
      /\ u.rows = t.rows /\ u.fks = t.fks /\ u.uniques = t.uniques \cup {C}
  BY DEF AddUnique, WellFormed
<1>2. t.fks \in [DOMAIN t.fks -> Nat] /\ DOMAIN t.fks \subseteq ColumnsOf(t)
  BY DEF WellFormed, TableOK
<1>3. t.uniques \cup {C} \subseteq (SUBSET ColumnsOf(t)) \ {{}}
  BY DEF WellFormed, TableOK, CanAddUnique
<1>4. WellFormed(u)
  BY <1>1, <1>2, <1>3, ConstraintsChanged
<1> QED BY <1>1, <1>4 DEF TableMethod, Refers

\* constraints.delete, of a unique constraint
LEMMA DropUniqueKeeps ==
    ASSUME NEW t, WellFormed(t), NEW C
    PROVE  TableMethod(DropUnique(t, C), t) /\ DropUnique(t, C).cols = t.cols
<1> PICK u : u = DropUnique(t, C)
  OBVIOUS
<1>1. /\ DOMAIN u = DOMAIN t /\ u.next = t.next /\ u.nextId = t.nextId /\ u.cols = t.cols
      /\ u.rows = t.rows /\ u.fks = t.fks /\ u.uniques = t.uniques \ {C}
  BY DEF DropUnique, WellFormed
<1>2. t.fks \in [DOMAIN t.fks -> Nat] /\ DOMAIN t.fks \subseteq ColumnsOf(t)
  BY DEF WellFormed, TableOK
<1>3. t.uniques \ {C} \subseteq (SUBSET ColumnsOf(t)) \ {{}}
  BY DEF WellFormed, TableOK
<1>4. WellFormed(u)
  BY <1>1, <1>2, <1>3, ConstraintsChanged
<1> QED BY <1>1, <1>4 DEF TableMethod, Refers

\* constraints.delete, of a foreign key
LEMMA DropForeignKeyKeeps ==
    ASSUME NEW t, WellFormed(t), NEW c
    PROVE  TableMethod(DropForeignKey(t, c), t) /\ DropForeignKey(t, c).cols = t.cols
<1> PICK u : u = DropForeignKey(t, c)
  OBVIOUS
<1> DEFINE fks == Restrict(t.fks, DOMAIN t.fks \ {c})
<1>1. u = [t EXCEPT !.fks = fks]
  BY DEF DropForeignKey, Without
<1>2. /\ DOMAIN u = DOMAIN t /\ u.next = t.next /\ u.nextId = t.nextId /\ u.cols = t.cols
      /\ u.rows = t.rows /\ u.fks = fks /\ u.uniques = t.uniques
  <2> HIDE DEF fks
  <2> QED BY <1>1 DEF WellFormed
<1>3. /\ DOMAIN fks = DOMAIN t.fks \ {c} /\ fks \in [DOMAIN fks -> Nat]
      /\ \A a \in DOMAIN fks : fks[a] = t.fks[a]
  BY DEF Restrict, WellFormed
<1>4. DOMAIN fks \subseteq ColumnsOf(t) /\ t.uniques \subseteq (SUBSET ColumnsOf(t)) \ {{}}
  BY <1>3 DEF WellFormed, TableOK
<1> HIDE DEF fks
<1>5. WellFormed(u)
  BY <1>2, <1>3, <1>4, ConstraintsChanged
<1> QED BY <1>2, <1>3, <1>5 DEF TableMethod, Refers

\* constraints.add, of a foreign key
LEMMA AddForeignKeyKeeps ==
    ASSUME NEW db, Consistent(db), NEW o \in DOMAIN db, NEW c, NEW ref \in DOMAIN db,
           CanAddForeignKey(db, o, c, ref)
    PROVE  /\ Consistent(AddForeignKey(db, o, c, ref))
           /\ DOMAIN AddForeignKey(db, o, c, ref) = DOMAIN db
           /\ \A p \in DOMAIN db : AddForeignKey(db, o, c, ref)[p].cols = db[p].cols
<1> PICK t : t = db[o]
  OBVIOUS
<1> DEFINE fks == Single(c, ref) ++ t.fks
<1> PICK u : u = [t EXCEPT !.fks = fks]
  OBVIOUS
<1> PICK after : after = [db EXCEPT ![o] = u]
  OBVIOUS
<1>1. after = AddForeignKey(db, o, c, ref)
  BY DEF AddForeignKey
<1>2. WellFormed(t) /\ c \in ColumnsOf(t) /\ ref \in Nat
  BY DEF Consistent, DatabaseOK, CanAddForeignKey
<1>3. /\ DOMAIN u = DOMAIN t /\ u.next = t.next /\ u.nextId = t.nextId /\ u.cols = t.cols
      /\ u.rows = t.rows /\ u.fks = fks /\ u.uniques = t.uniques
  <2> HIDE DEF fks
  <2> QED BY <1>2 DEF WellFormed
<1>4. DOMAIN fks = DOMAIN t.fks \cup {c} /\ fks \in [DOMAIN fks -> Nat]
  BY <1>2 DEF ++, Single, WellFormed
<1>5. DOMAIN fks \subseteq ColumnsOf(t) /\ t.uniques \subseteq (SUBSET ColumnsOf(t)) \ {{}}
  BY <1>2, <1>4 DEF WellFormed, TableOK
<1>6. WellFormed(u)
  <2> HIDE DEF fks
  <2> QED BY <1>2, <1>3, <1>4, <1>5, ConstraintsChanged
<1> HIDE DEF fks
<1>7. DatabaseOK(after)
  BY <1>6, TableReplaced DEF Consistent
<1>8. KeysRefer(after)
  BY <1>1 DEF CanAddForeignKey
<1>9. DOMAIN after = DOMAIN db /\ \A p \in DOMAIN db : after[p].cols = db[p].cols
  BY <1>3 DEF Consistent, DatabaseOK
<1> QED BY <1>1, <1>7, <1>8, <1>9, ConsistentRefers DEF Consistent

\* A new key column is NULL in every row.
LEMMA WithKeyIsAMethod ==
    ASSUME NEW t, WellFormed(t), NEW ref \in Nat, NEW unique \in BOOLEAN
    PROVE  TableMethod(WithKey(t, ref, unique), t)
<1> PICK u : u = WithKey(t, ref, unique)
  OBVIOUS
<1>1. WellFormed(u) /\ KeyAdded(u, t, ref)
  BY WithKeyFields
<1>2. DOMAIN t.fks \subseteq ColumnsOf(t)
  BY DEF WellFormed, TableOK
<1>3. DOMAIN u.rows = DOMAIN t.rows
  BY <1>1 DEF KeyAdded
<1>4. ASSUME NEW db, Refers(t, db), NEW c \in DOMAIN u.fks, NEW id \in DOMAIN u.rows
      PROVE  u.rows[id][c] \in {NULL} \cup RowsReferredTo(db, u.fks[c])
  <2>1. CASE c \in DOMAIN t.fks
    BY <1>1, <1>2, <1>4, <2>1 DEF KeyAdded, Refers
  <2>2. CASE c = t.next
    BY <1>1, <1>4, <2>2 DEF KeyAdded
  <2> QED BY <1>1, <2>1, <2>2 DEF KeyAdded
<1> QED BY <1>1, <1>3, <1>4 DEF TableMethod, Refers

\* data_modeling.add_foreign_key_column
LEMMA AddForeignKeyColumnKeeps ==
    ASSUME NEW db, Consistent(db), NEW o \in DOMAIN db, NEW ref \in DOMAIN db, NEW unique \in BOOLEAN
    PROVE  Consistent(AddForeignKeyColumn(db, o, ref, unique))
<1>1. WellFormed(db[o]) /\ ref \in Nat
  BY DEF Consistent, DatabaseOK
<1>2. TableMethod(WithKey(db[o], ref, unique), db[o])
  BY <1>1, WithKeyIsAMethod
<1>3. Consistent([db EXCEPT ![o] = WithKey(db[o], ref, unique)])
  BY <1>2, TableMethodKeeps
<1> QED BY <1>3 DEF AddForeignKeyColumn

\* A table with a key column for each of the first n of refs, and the tables on the way to it.
Keyed(f, refs, n) == f = [k \in 0 .. n |-> IF k = 0 THEN EmptyTable ELSE WithKey(f[k - 1], refs[k], FALSE)]

\* The tables on the way to a mapping table exist, one after the other.
LEMMA KeyedExists ==
    ASSUME NEW n \in Nat, NEW refs
    PROVE  \E f : Keyed(f, refs, n)
<1> DEFINE S == {m \in 0 .. n : ~\E f : Keyed(f, refs, m)}
<1> SUFFICES ASSUME S # {} PROVE FALSE
  OBVIOUS
<1>1. PICK m \in S : \A x \in S : m <= x
  <2> HIDE DEF S
  <2>1. S \in SUBSET Nat
    BY DEF S
  <2> QED BY <2>1, SmallestIsThere
<1>2. m # 0
  <2>1. Keyed([k \in 0 .. 0 |-> EmptyTable], refs, 0)
    BY DEF Keyed
  <2> QED BY <1>1, <2>1
<1>3. m - 1 \in 0 .. n /\ m - 1 \notin S
  BY <1>1, <1>2
<1>4. PICK f : Keyed(f, refs, m - 1)
  BY <1>3
<1>5. f = [k \in 0 .. m - 1 |-> IF k = 0 THEN EmptyTable ELSE WithKey(f[k - 1], refs[k], FALSE)]
  BY <1>4 DEF Keyed
<1> PICK g : g = [k \in 0 .. m |-> IF k = m THEN WithKey(f[m - 1], refs[m], FALSE) ELSE f[k]]
  OBVIOUS
<1>6. ASSUME NEW k \in 0 .. m
      PROVE  g[k] = IF k = 0 THEN EmptyTable ELSE WithKey(g[k - 1], refs[k], FALSE)
  <2> m \in Nat
    BY <1>1
  <2>1. CASE k = m
    <3>1. m - 1 \in 0 .. m /\ m - 1 # m
      BY <1>2
    <3>2. g[m - 1] = f[m - 1] /\ g[m] = WithKey(f[m - 1], refs[m], FALSE)
      BY <3>1
    <3> QED BY <2>1, <3>2, <1>2
  <2>2. CASE k # m
    <3>1. k \in 0 .. m - 1 /\ g[k] = f[k]
      BY <2>2, <1>1
    <3>2. k # 0 => k - 1 \in 0 .. m /\ k - 1 # m
      BY <3>1
    <3>3. k # 0 => g[k - 1] = f[k - 1]
      BY <3>2
    <3> QED BY <3>1, <3>3, <1>5
  <2> QED BY <2>1, <2>2
<1>7. Keyed(g, refs, m)
  BY <1>6 DEF Keyed
<1> QED BY <1>1, <1>7

\* data_modeling.add_mapping_table
LEMMA AddMappingTableKeeps ==
    ASSUME NEW db, Consistent(db), NEW n \in Nat, NEW refs \in [1 .. n -> DOMAIN db], Len(refs) = n
    PROVE  Consistent(AddMappingTable(db, refs))
<1>1. \E f : Keyed(f, refs, n)
  BY KeyedExists
<1>2. PICK f : Keyed(f, refs, n) /\ AddMappingTable(db, refs) = db ++ Single(NextOid(db), f[n])
  BY <1>1 DEF Keyed, AddMappingTable
<1>3. f = [k \in 0 .. n |-> IF k = 0 THEN EmptyTable ELSE WithKey(f[k - 1], refs[k], FALSE)]
  BY <1>2 DEF Keyed
<1> DEFINE Good(t) == WellFormed(t) /\ DOMAIN t.rows = {}
           S == {m \in 0 .. n : ~Good(f[m])}
<1>4. S = {}
  <2> SUFFICES ASSUME S # {} PROVE FALSE
    OBVIOUS
  <2>1. PICK m \in S : \A x \in S : m <= x
    <3>1. S \in SUBSET Nat
      OBVIOUS
    <3> HIDE DEF S
    <3> QED BY <3>1, SmallestIsThere
  <2>2. Good(EmptyTable)
    BY EmptyTableIsWellFormed DEF EmptyTable
  <2>3. f[0] = EmptyTable
    BY <1>3
  <2>4. m # 0 /\ m \in 1 .. n
    BY <2>1, <2>2, <2>3
  <2>5. m - 1 \in 0 .. n /\ m - 1 \notin S
    BY <2>1, <2>4
  <2>6. Good(f[m - 1]) /\ refs[m] \in Nat
    BY <2>4, <2>5 DEF Consistent, DatabaseOK
  <2>7. f[m] = WithKey(f[m - 1], refs[m], FALSE)
    BY <1>3, <2>4
  <2>8. TableMethod(f[m], f[m - 1])
    BY <2>6, <2>7, WithKeyIsAMethod
  <2> QED BY <2>1, <2>6, <2>8 DEF TableMethod
<1>5. WellFormed(f[n]) /\ DOMAIN f[n].rows = {}
  BY <1>4
<1> HIDE DEF S, Good
<1> PICK after : after = AddMappingTable(db, refs)
  OBVIOUS
<1>6. Added(after, db, f[n])
  BY <1>2, <1>5, TableAdded DEF Consistent
<1>7. /\ DatabaseOK(after) /\ Keeps(after, db) /\ DOMAIN after = DOMAIN db \cup {NextOid(db)}
      /\ after[NextOid(db)] = f[n] /\ \A o \in DOMAIN db : after[o] = db[o]
  BY <1>6 DEF Added
<1>8. Refers(f[n], after)
  BY <1>5 DEF Refers
<1>9. \A o \in DOMAIN after : Refers(after[o], after)
  BY <1>7, <1>8, StillRefers DEF Consistent
<1> QED BY <1>7, <1>9 DEF Consistent

\* The table that a method on rows leaves.
WithRows(t, rows) == [t EXCEPT !.rows = rows, !.nextId = Max({@} \cup {id + 1 : id \in DOMAIN rows})]

\* Rows change, and the references they have are valid.
LEMMA RowsChangedKeeps ==
    ASSUME NEW db, Consistent(db), NEW o \in DOMAIN db, NEW t, t = db[o], NEW rows,
           rows \in [DOMAIN rows -> [ColumnsOf(t) -> Nat]], DOMAIN rows \subseteq 1 .. t.nextId,
           NEW u, u = WithRows(t, rows),
           KeysRefer([db EXCEPT ![o] = u])
    PROVE  Consistent([db EXCEPT ![o] = u]) /\ u.cols = t.cols
<1> PICK next : next = Max({t.nextId} \cup {id + 1 : id \in DOMAIN rows})
  OBVIOUS
<1>1. WellFormed(t) /\ t.nextId \in Nat \ {0}
  BY DEF Consistent, DatabaseOK, WellFormed
<1>2. next \in Nat \ {0} /\ t.nextId <= next /\ \A id \in DOMAIN rows : id + 1 <= next
  <2> DEFINE S == {t.nextId} \cup {id + 1 : id \in DOMAIN rows}
  <2>1. S \in SUBSET (0 .. t.nextId + 1) /\ S # {} /\ t.nextId + 1 \in Nat
    <3> PICK top : top = t.nextId
      OBVIOUS
    <3>1. top \in Nat \ {0}
      BY <1>1
    <3>2. top \in 0 .. top + 1 /\ top + 1 \in Nat
      BY <3>1
    <3>3. ASSUME NEW id \in DOMAIN rows PROVE id + 1 \in 0 .. top + 1
      <4>1. id \in 1 .. top
        OBVIOUS
      <4> QED BY <3>1, <4>1
    <3>4. S \subseteq 0 .. top + 1
      BY <3>2, <3>3, Zenon
    <3>5. top \in S
      BY Zenon
    <3> QED BY <3>2, <3>4, <3>5, Zenon
  <2>2. t.nextId \in S /\ (\A id \in DOMAIN rows : id + 1 \in S) /\ next = Max(S)
    OBVIOUS
  <2> HIDE DEF S
  <2>3. next \in S /\ \A x \in S : x <= next
    BY <2>1, <2>2, LargestIsThere
  <2>4. next \in Nat /\ t.nextId <= next
    <3>1. next \in 0 .. t.nextId + 1
      BY <2>1, <2>3
    <3>2. t.nextId <= next
      BY <2>2, <2>3
    <3> QED BY <1>1, <3>1, <3>2
  <2>5. ASSUME NEW id \in DOMAIN rows PROVE id + 1 <= next
    BY <2>2, <2>3
  <2> QED BY <1>1, <2>4, <2>5
<1>3. u = [t EXCEPT !.rows = rows, !.nextId = next]
  BY DEF WithRows
<1>4. /\ DOMAIN u = DOMAIN t /\ u.next = t.next /\ u.nextId = next /\ u.cols = t.cols
      /\ u.rows = rows /\ u.fks = t.fks /\ u.uniques = t.uniques
  BY <1>1, <1>3 DEF WellFormed
<1>5. ColumnsOf(u) = ColumnsOf(t) /\ DOMAIN rows \subseteq 1 .. next - 1
  <2>1. ASSUME NEW id \in DOMAIN rows PROVE id \in 1 .. next - 1
    <3>1. id \in 1 .. t.nextId /\ id + 1 <= next
      BY <1>2
    <3> QED BY <3>1, <1>1, <1>2
  <2> QED BY <2>1, <1>4 DEF ColumnsOf
<1>6. TableOK(u)
  BY <1>1, <1>4, <1>5 DEF WellFormed, TableOK
<1>7. WellFormed(u)
  BY <1>1, <1>2, <1>4, <1>5, <1>6 DEF WellFormed
<1> PICK after : after = [db EXCEPT ![o] = u]
  OBVIOUS
<1>8. DatabaseOK(after)
  BY <1>7, TableReplaced DEF Consistent
<1> QED BY <1>4, <1>8, ConsistentRefers DEF Consistent

-----------------------------------------------------------------------------
(***************************************************************************)
(* ORDER BY and the places it gives: the order of the rows of values that  *)
(* a split and a move number rows with is total, NULLs included, so that   *)
(* places and values determine each other.                                 *)
(***************************************************************************)
Before(V) == {x \in V \X V : IsBefore(x[1], x[2])}

\* Values are ordered one way or the other.
LEMMA BeforeIsLinear ==
    ASSUME NEW C \in SUBSET Nat, NEW v \in [C -> Nat], NEW w \in [C -> Nat], v # w
    PROVE  IsBefore(v, w) \/ IsBefore(w, v)
<1> DEFINE S == {c \in C : v[c] # w[c]}
<1>1. S \in SUBSET Nat /\ S # {}
  <2>1. v = [c \in C |-> v[c]] /\ w = [c \in C |-> w[c]]
    OBVIOUS
  <2>2. \E c \in C : v[c] # w[c]
    BY <2>1
  <2> QED BY <2>2
<1>2. PICK c \in S : \A d \in S : c <= d
  <2> HIDE DEF S
  <2> QED BY <1>1, SmallestIsThere
<1>3. \A d \in C : d < c => v[d] = w[d]
  BY <1>2
<1>4. c \in C /\ v[c] # w[c] /\ v[c] \in Nat /\ w[c] \in Nat
  BY <1>2
<1>5. CASE v[c] # NULL /\ (w[c] = NULL \/ v[c] < w[c])
  BY <1>3, <1>4, <1>5 DEF IsBefore
<1>6. CASE w[c] # NULL /\ (v[c] = NULL \/ w[c] < v[c])
  BY <1>3, <1>4, <1>6 DEF IsBefore
<1> QED BY <1>4, <1>5, <1>6 DEF NULL

\* The order is transitive.
LEMMA BeforeIsTransitive ==
    ASSUME NEW C \in SUBSET Nat, NEW v \in [C -> Nat], NEW w \in [C -> Nat], NEW x \in [C -> Nat],
           IsBefore(v, w), IsBefore(w, x)
    PROVE  IsBefore(v, x)
<1>1. PICK c \in C : /\ v[c] # w[c] /\ v[c] # NULL /\ (w[c] = NULL \/ v[c] < w[c])
                     /\ \A e \in C : e < c => v[e] = w[e]
  BY DEF IsBefore
<1>2. PICK d \in C : /\ w[d] # x[d] /\ w[d] # NULL /\ (x[d] = NULL \/ w[d] < x[d])
                     /\ \A e \in C : e < d => w[e] = x[e]
  BY DEF IsBefore
<1>3. c \in Nat /\ d \in Nat /\ \A e \in C : e \in Nat
  BY <1>1, <1>2
<1>4. v[c] \in Nat /\ w[c] \in Nat /\ v[d] \in Nat /\ w[d] \in Nat /\ x[d] \in Nat /\ x[c] \in Nat
  BY <1>1, <1>2
<1>5. CASE c < d
  <2>1. w[c] = x[c]
    BY <1>2, <1>5
  <2>2. \A e \in C : e < c => v[e] = x[e]
    BY <1>1, <1>2, <1>3, <1>5
  <2> QED BY <1>1, <2>1, <2>2 DEF IsBefore
<1>6. CASE d < c
  <2>1. v[d] = w[d]
    BY <1>1, <1>6
  <2>2. \A e \in C : e < d => v[e] = x[e]
    BY <1>1, <1>2, <1>3, <1>6
  <2> QED BY <1>2, <2>1, <2>2 DEF IsBefore
<1>7. CASE c = d
  <2>1. v[c] # x[c] /\ v[c] # NULL /\ (x[c] = NULL \/ v[c] < x[c])
    BY <1>1, <1>2, <1>4, <1>7
  <2>2. \A e \in C : e < c => v[e] = x[e]
    BY <1>1, <1>2, <1>7
  <2> QED BY <2>1, <2>2 DEF IsBefore
<1> QED BY <1>3, <1>5, <1>6, <1>7

\* The order of a set of values is total.
LEMMA BeforeIsTotal ==
    ASSUME NEW C \in SUBSET Nat, NEW V \in SUBSET [C -> Nat]
    PROVE  IsTotalOrder(V, Before(V))
<1>1. ASSUME NEW v \in V, NEW w \in V PROVE <<v, w>> \in Before(V) <=> IsBefore(v, w)
  BY DEF Before
<1>2. \A v \in V : ~IsBefore(v, v)
  BY DEF IsBefore
<1>3. \A u, v, w \in V : IsBefore(u, v) /\ IsBefore(v, w) => IsBefore(u, w)
  BY BeforeIsTransitive
<1>4. \A v, w \in V : v = w \/ IsBefore(v, w) \/ IsBefore(w, v)
  BY BeforeIsLinear
<1> QED BY <1>1, <1>2, <1>3, <1>4 DEF IsTotalOrder

\* Places number the values V, and At finds a value by its place.
Numbered(V) ==
    /\ \A v \in V : Place(v, V) \in 1 .. Cardinality(V) /\ At(Place(v, V), V) = v
    /\ \A k \in 1 .. Cardinality(V) : At(k, V) \in V /\ Place(At(k, V), V) = k
    /\ \A v, w \in V : IsBefore(v, w) => Place(v, V) < Place(w, V)

\* Finitely many values are numbered by their places.
LEMMA PlacesNumber ==
    ASSUME NEW C \in SUBSET Nat, NEW V \in SUBSET [C -> Nat], IsFiniteSet(V)
    PROVE  Numbered(V)
<1> PICK R : R = Before(V)
  OBVIOUS
<1> PICK rank : rank = Rank(V, R)
  OBVIOUS
<1>1. IsTotalOrder(V, R)
  BY BeforeIsTotal
<1>2. /\ \A v \in V : rank[v] \in 1 .. Cardinality(V)
      /\ \A v, w \in V : <<v, w>> \in R => rank[v] < rank[w]
      /\ \A v, w \in V : rank[v] = rank[w] => v = w
      /\ \A k \in 1 .. Cardinality(V) : \E v \in V : rank[v] = k
  <2>1. IsRanking(rank, V, R)
    BY <1>1, RanksAreABijection
  <2> QED BY <2>1 DEF IsRanking
<1>3. ASSUME NEW v \in V PROVE Place(v, V) = rank[v]
  <2>1. {w \in V : <<w, v>> \in R} = {w \in V : IsBefore(w, v)}
    BY DEF Before
  <2> QED BY <2>1 DEF Rank, Place
<1>4. \A v, w \in V : IsBefore(v, w) => <<v, w>> \in R
  BY DEF Before
<1>5. ASSUME NEW k, NEW v \in V, rank[v] = k
      PROVE  At(k, V) = v
  <2>1. \A w \in V : Place(w, V) = k => w = v
    BY <1>2, <1>3, <1>5
  <2>2. Place(v, V) = k
    BY <1>3, <1>5
  <2> QED BY <2>1, <2>2 DEF At
<1>6. \A v \in V : Place(v, V) \in 1 .. Cardinality(V) /\ At(Place(v, V), V) = v
  BY <1>2, <1>3, <1>5
<1>7. \A k \in 1 .. Cardinality(V) : At(k, V) \in V /\ Place(At(k, V), V) = k
  BY <1>2, <1>3, <1>5
<1>8. \A v, w \in V : IsBefore(v, w) => Place(v, V) < Place(w, V)
  BY <1>2, <1>3, <1>4
<1> QED BY <1>6, <1>7, <1>8 DEF Numbered

\* What to maps C to is the n numbers from here on, each once.
Numbers(to, C, from, n) ==
    /\ DOMAIN to = C /\ Range(to) = from .. from + n - 1
    /\ \A c \in C : to[c] \in from .. from + n - 1 /\ (CHOOSE d \in C : to[d] = to[c]) = c
    /\ \A c, d \in C : to[c] = to[d] => c = d
    /\ \A a \in from .. from + n - 1 : (CHOOSE d \in C : to[d] = a) \in C /\ to[CHOOSE d \in C : to[d] = a] = a

Below(C) == {x \in C \X C : x[1] < x[2]}

\* The places of moved columns.
LEMMA NewPlacesNumber ==
    ASSUME NEW C \in SUBSET Nat, IsFiniteSet(C), NEW from \in Nat
    PROVE  Cardinality(C) \in Nat /\ Numbers(NewPlaces(C, from), C, from, Cardinality(C))
<1> PICK R : R = Below(C)
  OBVIOUS
<1> PICK rank : rank = Rank(C, R)
  OBVIOUS
<1> PICK n : n = Cardinality(C)
  OBVIOUS
<1> PICK to : to = NewPlaces(C, from)
  OBVIOUS
<1>0. n \in Nat
  BY FS_CardinalityType
<1>1. IsTotalOrder(C, R)
  <2>1. \A c, d \in C : <<c, d>> \in R <=> c < d
    BY DEF Below
  <2>2. \A c, d, e \in C : /\ ~(c < c)
                           /\ c < d /\ d < e => c < e
                           /\ c = d \/ c < d \/ d < c
    <3>1. \A c \in C : c \in Nat
      OBVIOUS
    <3> QED BY <3>1
  <2> QED BY <2>1, <2>2 DEF IsTotalOrder
<1>2. /\ \A c \in C : rank[c] \in 1 .. n
      /\ \A c, d \in C : rank[c] = rank[d] => c = d
      /\ \A k \in 1 .. n : \E c \in C : rank[c] = k
  <2>1. IsRanking(rank, C, R)
    BY <1>1, RanksAreABijection
  <2> QED BY <2>1 DEF IsRanking
<1>3. DOMAIN to = C
  BY DEF NewPlaces
<1>4. ASSUME NEW c \in C PROVE to[c] = from + rank[c] - 1
  <2>1. {d \in C : <<d, c>> \in R} = {d \in C : d < c}
    BY DEF Below
  <2> PICK m : m = Cardinality({d \in C : d < c})
    OBVIOUS
  <2>2. rank[c] = 1 + m /\ to[c] = from + m
    BY <2>1 DEF Rank, NewPlaces
  <2>3. IsFiniteSet({d \in C : d < c})
    BY FS_Subset
  <2>4. m \in Nat
    BY <2>3, FS_CardinalityType
  <2> QED BY <2>2, <2>4
<1>5. \A c \in C : to[c] \in from .. from + n - 1
  BY <1>0, <1>2, <1>4
<1>6. ASSUME NEW c \in C, NEW d \in C, to[c] = to[d] PROVE c = d
  <2>1. rank[c] \in Int /\ rank[d] \in Int
    BY <1>2
  <2>2. rank[c] = rank[d]
    BY <2>1, <1>4, <1>6
  <2> QED BY <2>2, <1>2
<1>7. ASSUME NEW a \in from .. from + n - 1 PROVE \E d \in C : to[d] = a
  <2>1. a - from + 1 \in 1 .. n
    BY <1>0
  <2>2. PICK d \in C : rank[d] = a - from + 1
    BY <2>1, <1>2
  <2> QED BY <2>2, <1>4
<1>8. \A c \in C : (CHOOSE d \in C : to[d] = to[c]) = c
  BY <1>6
<1>9. Range(to) = from .. from + n - 1
  BY <1>3, <1>5, <1>7 DEF Range
<1> QED BY <1>0, <1>3, <1>5, <1>6, <1>7, <1>8, <1>9 DEF Numbers

\* What the rows S of a table hold in some columns.
PartsOf(t, S, C) == {Part(t, id, C) : id \in S}

\* These are finitely many values.
LEMMA PartsAreFinite ==
    ASSUME NEW t, WellFormed(t), NEW C, C \subseteq ColumnsOf(t), NEW S, S \in SUBSET DOMAIN t.rows
    PROVE  /\ C \in SUBSET Nat /\ IsFiniteSet(C)
           /\ PartsOf(t, S, C) \in SUBSET [C -> Nat] /\ IsFiniteSet(PartsOf(t, S, C))
<1>1. t.next \in Nat /\ t.nextId \in Nat /\ DOMAIN t.rows \subseteq 1 .. t.nextId - 1
  BY DEF WellFormed, TableOK
<1>2. IsFiniteSet(S)
  <2>1. IsFiniteSet(1 .. t.nextId - 1)
    BY <1>1, FS_Interval
  <2> QED BY <2>1, <1>1, FS_Subset
<1>3. C \subseteq 1 .. t.next - 1
  BY DEF WellFormed, TableOK, ColumnsOf
<1>4. IsFiniteSet(C)
  <2>1. IsFiniteSet(1 .. t.next - 1)
    BY <1>1, FS_Interval
  <2> QED BY <2>1, <1>3, FS_Subset
<1>5. ASSUME NEW id \in S PROVE Part(t, id, C) \in [C -> Nat]
  <2>1. \A c \in C : t.rows[id][c] \in Nat
    BY DEF WellFormed
  <2> QED BY <2>1 DEF Part
<1> DEFINE V == PartsOf(t, S, C)
<1>6. [id \in S |-> Part(t, id, C)] \in Surjection(S, V)
  BY DEF Surjection, PartsOf
<1>7. IsFiniteSet(V)
  BY <1>2, <1>6, FS_Surjection
<1>8. V \in SUBSET [C -> Nat]
  BY <1>5 DEF PartsOf
<1> HIDE DEF V
<1>9. C \in SUBSET Nat
  BY <1>1, <1>3
<1> QED BY <1>4, <1>7, <1>8, <1>9 DEF V

-----------------------------------------------------------------------------
(***************************************************************************)
(* data_modeling.split_table                                               *)
(***************************************************************************)
\* What columns C of table t bring with them to the places to of table u.
Brings(u, t, C, to) ==
    /\ \A c \in C : to[c] \in ColumnsOf(u) /\ u.cols[to[c]] = t.cols[c]
    /\ \A a \in DOMAIN u.fks : (\E c \in C \cap DOMAIN t.fks : a = to[c] /\ u.fks[a] = t.fks[c])

\* The keys and the unique constraints that go with columns, at the places A.
KeysGo(keys, uniques, t, C, to, A) ==
    /\ keys \in [DOMAIN keys -> Nat] /\ DOMAIN keys \subseteq A
    /\ \A a \in DOMAIN keys : \E c \in C \cap DOMAIN t.fks : a = to[c] /\ keys[a] = t.fks[c]
    /\ uniques \subseteq (SUBSET A) \ {{}}

\* The constraints that are copied are on columns that go.
LEMMA KeysAreExtracted ==
    ASSUME NEW t, WellFormed(t), NEW C, C \subseteq ColumnsOf(t), NEW from, NEW n, NEW to, Numbers(to, C, from, n)
    PROVE  KeysGo(ExtractedKeys(t, to), ExtractedUniques(t, to), t, C, to, from .. from + n - 1)
<1> PICK keys : keys = ExtractedKeys(t, to)
  OBVIOUS
<1>1. /\ DOMAIN to = C /\ \A c \in C : to[c] \in from .. from + n - 1
      /\ \A c \in C : (CHOOSE d \in C : to[d] = to[c]) = c
  BY DEF Numbers
<1>2. keys = [a \in {to[c] : c \in C \cap DOMAIN t.fks} |-> t.fks[CHOOSE c \in C : to[c] = a]]
  BY <1>1 DEF ExtractedKeys
<1>3. ASSUME NEW a \in DOMAIN keys
      PROVE  \E c \in C \cap DOMAIN t.fks : a = to[c] /\ keys[a] = t.fks[c]
  <2>1. PICK c \in C \cap DOMAIN t.fks : a = to[c]
    BY <1>2
  <2>2. keys[a] = t.fks[CHOOSE d \in C : to[d] = a]
    BY <1>2
  <2>3. (CHOOSE d \in C : to[d] = a) = c
    BY <1>1, <2>1
  <2> QED BY <2>1, <2>2, <2>3
<1>4. \A a \in DOMAIN keys : keys[a] \in Nat /\ a \in from .. from + n - 1
  BY <1>1, <1>3 DEF WellFormed
<1>5. keys = [a \in DOMAIN keys |-> keys[a]]
  BY <1>2
<1>6. ExtractedUniques(t, to) \subseteq (SUBSET (from .. from + n - 1)) \ {{}}
  <2>1. ASSUME NEW U \in ExtractedUniques(t, to) PROVE \E c \in C : U = {to[c]}
    BY <1>1 DEF ExtractedUniques
  <2>2. ASSUME NEW U \in ExtractedUniques(t, to)
        PROVE  U \in (SUBSET (from .. from + n - 1)) \ {{}}
    <3>1. PICK c \in C : U = {to[c]}
      BY <2>1
    <3>2. to[c] \in from .. from + n - 1
      BY <1>1
    <3> QED BY <3>1, <3>2, Zenon
  <2> QED BY <2>2, Zenon
<1> QED BY <1>3, <1>4, <1>5, <1>6 DEF KeysGo

\* Columns that arrive in table e, which was t, under their names in table s.
Arrive(e, t, s, C, to, n) ==
    /\ WellFormed(e) /\ e.next = t.next + n /\ e.nextId = t.nextId /\ e.fks = t.fks /\ e.uniques = t.uniques
    /\ ColumnsOf(e) = ColumnsOf(t) \cup (t.next .. t.next + n - 1)
    /\ ColumnsOf(t) \cap (t.next .. t.next + n - 1) = {}
    /\ \A a \in DOMAIN t.cols : a \in DOMAIN e.cols /\ e.cols[a] = t.cols[a]
    /\ \A c \in C : e.cols[to[c]] = s.cols[c]
    /\ DOMAIN e.rows = DOMAIN t.rows

\* Columns that move to a table which has none of their names.
LEMMA ColumnsArrive ==
    ASSUME NEW s, WellFormed(s), NEW C, C \subseteq ColumnsOf(s), NEW t, WellFormed(t),
           \A c \in C : s.cols[c] \notin NamesOf(t),
           NEW to, NEW n \in Nat, Numbers(to, C, t.next, n),
           NEW names, names = [k \in 1 .. n |-> names[k]],
           \A c \in C : names[to[c] - t.next + 1] = s.cols[c]
    PROVE  Arrive(add_columns(t, names), t, s, C, to, n)
<1> PICK e : e = add_columns(t, names)
  OBVIOUS
<1> PICK next : next = t.next
  OBVIOUS
<1>1. next \in Nat \ {0} /\ 1 \in DOMAIN t.cols /\ DOMAIN t.cols \subseteq 1 .. next - 1
  BY DEF WellFormed, TableOK
<1>2. /\ \A c \in C : to[c] \in next .. next + n - 1
      /\ \A a \in next .. next + n - 1 : \E c \in C : to[c] = a
  BY DEF Numbers
<1>3. ASSUME NEW k \in 1 .. n PROVE \E c \in C : to[c] = next + k - 1 /\ names[k] = s.cols[c]
  <2>1. next + k - 1 \in next .. next + n - 1 /\ next + k - 1 - next + 1 = k
    BY <1>1
  <2>2. PICK c \in C : to[c] = next + k - 1
    BY <2>1, <1>2
  <2>3. names[to[c] - next + 1] = s.cols[c]
    OBVIOUS
  <2>4. to[c] - next + 1 = k
    BY <2>2, <1>1
  <2> QED BY <2>2, <2>3, <2>4
<1>4. /\ \A c \in C : c \in DOMAIN s.cols /\ s.cols[c] \in Nat
      /\ \A c, d \in C : s.cols[c] = s.cols[d] => c = d
  BY DEF WellFormed, TableOK, ColumnsOf, IsInjective
<1>5. names \in [1 .. n -> Nat] /\ IsInjective(names) /\ Range(names) \cap NamesOf(t) = {}
  <2>1. \A k \in 1 .. n : names[k] \in Nat /\ names[k] \notin NamesOf(t)
    BY <1>3, <1>4
  <2>2. ASSUME NEW j \in 1 .. n, NEW k \in 1 .. n, names[j] = names[k] PROVE j = k
    <3>1. PICK c \in C : to[c] = next + j - 1 /\ names[j] = s.cols[c]
      BY <1>3
    <3>2. PICK d \in C : to[d] = next + k - 1 /\ names[k] = s.cols[d]
      BY <1>3
    <3>3. next + j - 1 = next + k - 1
      BY <3>1, <3>2, <2>2, <1>4
    <3> QED BY <3>3, <1>1
  <2>3. names \in [1 .. n -> Nat]
    BY <2>1
  <2>4. IsInjective(names)
    BY <2>2, <2>3 DEF IsInjective
  <2>5. Range(names) \cap NamesOf(t) = {}
    BY <2>1, <2>3 DEF Range
  <2> QED BY <2>3, <2>4, <2>5
<1>6. Len(names) = n
  <2>1. names \in Seq(Nat)
    BY <1>5, SeqDef
  <2>2. Len(names) \in Nat /\ DOMAIN names = 1 .. Len(names)
    BY <2>1, LenProperties
  <2>3. 1 .. Len(names) = 1 .. n
    BY <1>5, <2>2
  <2> QED BY <2>2, <2>3
<1>7. WellFormed(e) /\ ColumnsAdded(e, t, n, names)
  BY <1>5, <1>6, AddColumnsKeeps, AddColumnsFields
<1>8. /\ e.next = next + n /\ e.nextId = t.nextId /\ e.fks = t.fks /\ e.uniques = t.uniques
      /\ DOMAIN e.cols = DOMAIN t.cols \cup (next .. next + n - 1)
      /\ \A a \in DOMAIN t.cols : e.cols[a] = t.cols[a]
      /\ \A a \in next .. next + n - 1 : a \notin DOMAIN t.cols /\ e.cols[a] = names[a - next + 1]
      /\ DOMAIN e.rows = DOMAIN t.rows
  BY <1>7 DEF ColumnsAdded
<1>9. \A c \in C : e.cols[to[c]] = s.cols[c]
  BY <1>2, <1>8
<1>10. /\ ColumnsOf(e) = ColumnsOf(t) \cup (next .. next + n - 1)
       /\ ColumnsOf(t) \cap (next .. next + n - 1) = {}
  BY <1>1, <1>8 DEF ColumnsOf
<1> QED BY <1>7, <1>8, <1>9, <1>10 DEF Arrive

\* Table u is made of the columns C of t: a row for each of the values V.
Extracts(u, t, C, to, V) ==
    /\ WellFormed(u) /\ DOMAIN u.rows = 1 .. Cardinality(V)
    /\ Brings(u, t, C, to)
    /\ \A k \in DOMAIN u.rows : \A c \in C : u.rows[k][to[c]] = At(k, V)[c]

\* What a split makes a new table of.
LEMMA ExtractedFields ==
    ASSUME NEW t, WellFormed(t), NEW C, C \subseteq ColumnsOf(t)
    PROVE  Extracts(Extracted(t, C), t, C, NewPlaces(C, 2), Tuples(t, C))
<1> PICK to : to = NewPlaces(C, 2)
  OBVIOUS
<1> PICK V : V = Tuples(t, C)
  OBVIOUS
<1> PICK n : n = Cardinality(C)
  OBVIOUS
<1> PICK names : names = [k \in 1 .. n |-> t.cols[CHOOSE c \in C : to[c] = k + 1]]
  OBVIOUS
<1> PICK e : e = add_columns(EmptyTable, names)
  OBVIOUS
<1> DEFINE rows == [k \in 1 .. Cardinality(V) |-> [a \in Range(to) |-> At(k, V)[CHOOSE c \in C : to[c] = a]]]
           next == Cardinality(V) + 1
           fks == ExtractedKeys(t, to)
           uniques == ExtractedUniques(t, to)
<1> PICK u : u = Extracted(t, C)
  OBVIOUS
<1>1. C \in SUBSET Nat /\ IsFiniteSet(C) /\ V \in SUBSET [C -> Nat] /\ IsFiniteSet(V)
  <2>1. V = PartsOf(t, DOMAIN t.rows, C)
    BY DEF Tuples, PartsOf
  <2> QED BY <2>1, PartsAreFinite
<1>2. n \in Nat /\ Numbers(to, C, 2, n)
  BY <1>1, NewPlacesNumber
<1>3. Numbered(V) /\ Cardinality(V) \in Nat
  BY <1>1, PlacesNumber, FS_CardinalityType
<1>4. /\ DOMAIN to = C /\ Range(to) = 2 .. n + 1
      /\ \A c \in C : to[c] \in 2 .. n + 1 /\ (CHOOSE d \in C : to[d] = to[c]) = c
      /\ \A a \in 2 .. n + 1 : (CHOOSE d \in C : to[d] = a) \in C /\ to[CHOOSE d \in C : to[d] = a] = a
  BY <1>2 DEF Numbers
<1>5. /\ \A c \in C : c \in DOMAIN t.cols /\ c # 1 /\ t.cols[c] \in Nat /\ t.cols[c] # IdName
      /\ \A c, d \in C : t.cols[c] = t.cols[d] => c = d
  BY DEF WellFormed, TableOK, ColumnsOf, IsInjective
<1>6. names = [k \in 1 .. n |-> names[k]] /\ \A c \in C : names[to[c] - 2 + 1] = t.cols[c]
  <2>1. ASSUME NEW c \in C PROVE names[to[c] - 2 + 1] = t.cols[c]
    <3>1. to[c] - 2 + 1 \in 1 .. n /\ (to[c] - 2 + 1) + 1 = to[c]
      BY <1>2, <1>4
    <3>2. names[to[c] - 2 + 1] = t.cols[CHOOSE d \in C : to[d] = (to[c] - 2 + 1) + 1]
      BY <3>1, Zenon
    <3>3. names[to[c] - 2 + 1] = t.cols[CHOOSE d \in C : to[d] = to[c]]
      BY <3>1, <3>2
    <3> QED BY <3>3, <1>4
  <2> QED BY <2>1
<1> PICK empty : empty = EmptyTable
  OBVIOUS
<1>7. /\ WellFormed(empty) /\ NamesOf(empty) = {IdName} /\ empty.next = 2 /\ ColumnsOf(empty) = {}
  BY EmptyTableIsWellFormed DEF EmptyTable, ColumnsOf, Single
<1>8. Arrive(e, empty, t, C, to, n)
  <2>1. /\ \A c \in C : t.cols[c] \notin NamesOf(empty)
        /\ \A c \in C : names[to[c] - empty.next + 1] = t.cols[c]
        /\ Numbers(to, C, empty.next, n)
    BY <1>2, <1>5, <1>6, <1>7
  <2> QED BY <1>2, <1>6, <1>7, <2>1, ColumnsArrive
<1>9. WellFormed(e) /\ ColumnsOf(e) = 2 .. n + 1 /\ \A c \in C : e.cols[to[c]] = t.cols[c]
  <2>1. 2 .. n + 1 = 2 .. 2 + n - 1
    BY <1>2
  <2> QED BY <2>1, <1>7, <1>8 DEF Arrive
<1>11. u = [e EXCEPT !.rows = rows, !.nextId = next, !.fks = fks, !.uniques = uniques]
  BY DEF Extracted
<1>12. /\ DOMAIN u = DOMAIN e /\ u.next = e.next /\ u.nextId = next /\ u.cols = e.cols
       /\ u.rows = rows /\ u.fks = fks /\ u.uniques = uniques
  <2> HIDE DEF rows, next, fks, uniques
  <2> QED BY <1>9, <1>11 DEF WellFormed
<1>13. ColumnsOf(u) = 2 .. n + 1
  BY <1>9, <1>12 DEF ColumnsOf
<1>14. /\ fks \in [DOMAIN fks -> Nat] /\ DOMAIN fks \subseteq 2 .. n + 1
       /\ \A a \in DOMAIN fks : \E c \in C \cap DOMAIN t.fks : a = to[c] /\ fks[a] = t.fks[c]
       /\ uniques \subseteq (SUBSET (2 .. n + 1)) \ {{}}
  <2>1. 2 + n - 1 = n + 1
    BY <1>2
  <2>2. KeysGo(fks, uniques, t, C, to, 2 .. 2 + n - 1)
    BY <1>2, KeysAreExtracted
  <2>3. KeysGo(fks, uniques, t, C, to, 2 .. n + 1)
    BY <2>1, <2>2
  <2> HIDE DEF fks, uniques
  <2> QED BY <2>3 DEF KeysGo
<1>15. /\ rows \in [1 .. Cardinality(V) -> [2 .. n + 1 -> Nat]]
       /\ \A k \in 1 .. Cardinality(V) : \A c \in C : rows[k][to[c]] = At(k, V)[c]
  <2>1. ASSUME NEW k \in 1 .. Cardinality(V)
        PROVE  rows[k] \in [2 .. n + 1 -> Nat] /\ \A c \in C : rows[k][to[c]] = At(k, V)[c]
    <3>1. At(k, V) \in [C -> Nat]
      BY <1>1, <1>3 DEF Numbered
    <3>2. rows[k] = [a \in 2 .. n + 1 |-> At(k, V)[CHOOSE c \in C : to[c] = a]]
      BY <1>4
    <3> QED BY <3>1, <3>2, <1>4
  <2> QED BY <2>1
<1> HIDE DEF rows, next, fks, uniques
<1>16. DOMAIN rows = 1 .. Cardinality(V) /\ next \in Nat \ {0} /\ next - 1 = Cardinality(V)
  BY <1>3, <1>15 DEF next
<1>17. TableOK(u)
  <2>1. 1 \in DOMAIN u.cols /\ DOMAIN u.cols \subseteq 1 .. u.next - 1 /\ IsInjective(u.cols)
    BY <1>9, <1>12 DEF WellFormed, TableOK
  <2>2. DOMAIN u.rows \subseteq 1 .. u.nextId - 1
    BY <1>12, <1>16
  <2>3. \A id \in DOMAIN u.rows : DOMAIN u.rows[id] = ColumnsOf(u)
    BY <1>12, <1>13, <1>15, <1>16
  <2>4. DOMAIN u.fks \subseteq ColumnsOf(u) /\ u.uniques \subseteq (SUBSET ColumnsOf(u)) \ {{}}
    BY <1>12, <1>13, <1>14
  <2> QED BY <2>1, <2>2, <2>3, <2>4 DEF TableOK
<1>18. u.rows \in [DOMAIN u.rows -> [ColumnsOf(u) -> Nat]]
  BY <1>12, <1>13, <1>15, <1>16
<1>19. WellFormed(u)
  BY <1>9, <1>12, <1>14, <1>16, <1>17, <1>18 DEF WellFormed
<1>20. Brings(u, t, C, to)
  BY <1>4, <1>9, <1>12, <1>13, <1>14 DEF Brings
<1> QED BY <1>12, <1>15, <1>16, <1>19, <1>20 DEF Extracts

\* The rows of a table hold other values.
LEMMA ValuesChanged ==
    ASSUME NEW t, WellFormed(t), NEW rows, rows \in [DOMAIN t.rows -> [ColumnsOf(t) -> Nat]],
           NEW u, u = [t EXCEPT !.rows = rows]
    PROVE  /\ WellFormed(u) /\ u.rows = rows /\ u.cols = t.cols /\ u.fks = t.fks /\ u.next = t.next
           /\ ColumnsOf(u) = ColumnsOf(t)
<1>1. /\ DOMAIN u = DOMAIN t /\ u.next = t.next /\ u.nextId = t.nextId /\ u.cols = t.cols
      /\ u.rows = rows /\ u.fks = t.fks /\ u.uniques = t.uniques
  BY DEF WellFormed
<1>2. ColumnsOf(u) = ColumnsOf(t)
  BY <1>1 DEF ColumnsOf
<1>3. TableOK(u)
  BY <1>1, <1>2 DEF WellFormed, TableOK
<1>4. u.rows \in [DOMAIN u.rows -> [ColumnsOf(u) -> Nat]]
  BY <1>1, <1>2
<1> QED BY <1>1, <1>2, <1>3, <1>4 DEF WellFormed

\* Table rest is what a split leaves of table t, whose columns C are in table new now.
Remains(rest, t, C, new) ==
    /\ WellFormed(rest) /\ DOMAIN rest.rows = DOMAIN t.rows
    /\ DOMAIN t.cols \ C \subseteq DOMAIN rest.cols
    /\ \A a \in DOMAIN t.cols \ C : rest.cols[a] = t.cols[a]
    /\ t.next \in DOMAIN rest.fks /\ rest.fks[t.next] = new /\ DOMAIN rest.fks \cap C = {}
    /\ \A a \in DOMAIN rest.fks : a = t.next \/ (a \in DOMAIN t.fks /\ rest.fks[a] = t.fks[a])
    /\ \A id \in DOMAIN t.rows : /\ rest.rows[id][t.next] = dense_rank(t, id, C)
                                 /\ \A a \in ColumnsOf(t) \ C : rest.rows[id][a] = t.rows[id][a]

\* Rows of w, which are those of t, refer by the rank of what they hold in the columns C.
Ranked(rows, w, t, C) == rows = [id \in DOMAIN w.rows |-> [w.rows[id] EXCEPT ![t.next] = dense_rank(t, id, C)]]

\* What a split leaves of a table.
LEMMA RestFields ==
    ASSUME NEW t, WellFormed(t), NEW C, C \subseteq ColumnsOf(t), NEW new \in Nat, NEW w,
           WellFormed(w), KeyAdded(w, t, new), NEW rows, Ranked(rows, w, t, C)
    PROVE  Remains(drop_columns([w EXCEPT !.rows = rows], C), t, C, new)
<1>a. PICK V : V = Tuples(t, C)
  OBVIOUS
<1>b. rows = [id \in DOMAIN w.rows |-> [w.rows[id] EXCEPT ![t.next] = dense_rank(t, id, C)]]
  BY DEF Ranked
<1>c. PICK ranked : ranked = [w EXCEPT !.rows = rows]
  OBVIOUS
<1>d. PICK rest : rest = drop_columns(ranked, C)
  OBVIOUS
<1>1. Numbered(V) /\ Cardinality(V) \in Nat
  <2>1. V = PartsOf(t, DOMAIN t.rows, C)
    BY <1>a DEF Tuples, PartsOf
  <2>2. C \in SUBSET Nat /\ V \in SUBSET [C -> Nat] /\ IsFiniteSet(V)
    BY <2>1, PartsAreFinite
  <2> QED BY <2>2, PlacesNumber, FS_CardinalityType
<1>2. \A id \in DOMAIN t.rows : Part(t, id, C) \in V /\ dense_rank(t, id, C) = Place(Part(t, id, C), V)
  BY <1>a DEF Tuples, dense_rank
<1>3. \A id \in DOMAIN t.rows : dense_rank(t, id, C) \in Nat
  BY <1>1, <1>2 DEF Numbered
<1>5. /\ DOMAIN w.cols = DOMAIN t.cols \cup {t.next} /\ t.next \notin DOMAIN t.cols /\ t.next # 1
      /\ \A a \in DOMAIN t.cols : w.cols[a] = t.cols[a]
      /\ DOMAIN w.rows = DOMAIN t.rows
      /\ \A id \in DOMAIN t.rows : \A a \in ColumnsOf(t) : w.rows[id][a] = t.rows[id][a]
      /\ DOMAIN w.fks = DOMAIN t.fks \cup {t.next} /\ w.fks[t.next] = new
      /\ \A a \in DOMAIN t.fks : w.fks[a] = t.fks[a]
  BY DEF KeyAdded
<1>6. ColumnsOf(w) = ColumnsOf(t) \cup {t.next} /\ C \subseteq ColumnsOf(w) /\ t.next \notin ColumnsOf(t)
  BY <1>5 DEF ColumnsOf
<1>7. /\ rows \in [DOMAIN w.rows -> [ColumnsOf(w) -> Nat]]
      /\ \A id \in DOMAIN t.rows : /\ rows[id][t.next] = dense_rank(t, id, C)
                                   /\ \A a \in ColumnsOf(t) : rows[id][a] = t.rows[id][a]
  <2>1. ASSUME NEW id \in DOMAIN t.rows
        PROVE  /\ rows[id] \in [ColumnsOf(w) -> Nat]
               /\ rows[id][t.next] = dense_rank(t, id, C)
               /\ \A a \in ColumnsOf(t) : rows[id][a] = t.rows[id][a]
    <3>1. w.rows[id] \in [ColumnsOf(w) -> Nat]
      BY <1>5 DEF WellFormed
    <3>2. rows[id] = [w.rows[id] EXCEPT ![t.next] = dense_rank(t, id, C)]
      BY <1>b, <1>5
    <3> QED BY <3>1, <3>2, <1>3, <1>5, <1>6
  <2> QED BY <2>1, <1>b, <1>5
<1>8. /\ WellFormed(ranked) /\ ranked.rows = rows /\ ranked.cols = w.cols /\ ranked.fks = w.fks
      /\ ColumnsOf(ranked) = ColumnsOf(w)
  BY <1>c, <1>7, ValuesChanged
<1>9. WellFormed(rest) /\ ColumnsDropped(rest, ranked, C)
  <2>1. 1 \notin C
    BY DEF ColumnsOf
  <2> QED BY <1>d, <2>1, <1>8, DropColumnsKeeps, DropColumnsFields
<1>10. /\ rest.cols = [a \in DOMAIN w.cols \ C |-> w.cols[a]]
       /\ rest.fks = [a \in DOMAIN w.fks \ C |-> w.fks[a]]
       /\ rest.rows = [id \in DOMAIN rows |-> [a \in ColumnsOf(w) \ C |-> rows[id][a]]]
  BY <1>8, <1>9 DEF ColumnsDropped
<1>11. t.next \notin C
  BY <1>6
<1>12. /\ DOMAIN rest.rows = DOMAIN t.rows
       /\ \A id \in DOMAIN t.rows : /\ rest.rows[id][t.next] = dense_rank(t, id, C)
                                    /\ \A a \in ColumnsOf(t) \ C : rest.rows[id][a] = t.rows[id][a]
  BY <1>5, <1>6, <1>7, <1>10, <1>11
<1>13. /\ t.next \in DOMAIN rest.fks /\ rest.fks[t.next] = new /\ DOMAIN rest.fks \cap C = {}
       /\ \A a \in DOMAIN rest.fks : a = t.next \/ (a \in DOMAIN t.fks /\ rest.fks[a] = t.fks[a])
       /\ DOMAIN t.cols \ C \subseteq DOMAIN rest.cols
       /\ \A a \in DOMAIN t.cols \ C : rest.cols[a] = t.cols[a]
  BY <1>5, <1>10, <1>11
<1>14. Remains(rest, t, C, new)
  BY <1>9, <1>12, <1>13 DEF Remains
<1> QED BY <1>c, <1>d, <1>14

\* Database after is db when columns C of table o are in a table of their own.
SplitOff(after, db, o, C) ==
    /\ DOMAIN after = DOMAIN db \cup {NextOid(db)} /\ NextOid(db) \notin DOMAIN db
    /\ \A p \in DOMAIN db \ {o} : after[p] = db[p]
    /\ Remains(after[o], db[o], C, NextOid(db))
    /\ Extracts(after[NextOid(db)], db[o], C, NewPlaces(C, 2), Tuples(db[o], C))
    /\ DatabaseOK(after) /\ Keeps(after, db)

\* What a split does.
LEMMA SplitFields ==
    ASSUME NEW db, Consistent(db), NEW o \in DOMAIN db, NEW C, C \subseteq ColumnsOf(db[o])
    PROVE  SplitOff(extract_columns_from_table(db, o, C), db, o, C)
<1> PICK t : t = db[o]
  OBVIOUS
<1> PICK new : new = NextOid(db)
  OBVIOUS
<1> PICK w : w = WithKey(t, new, FALSE)
  OBVIOUS
<1> PICK rows : rows = [id \in DOMAIN w.rows |-> [w.rows[id] EXCEPT ![t.next] = dense_rank(t, id, C)]]
  OBVIOUS
<1> PICK ranked : ranked = [w EXCEPT !.rows = rows]
  OBVIOUS
<1> PICK rest : rest = drop_columns(ranked, C)
  OBVIOUS
<1> PICK u : u = Extracted(t, C)
  OBVIOUS
<1> PICK mid : mid = [db EXCEPT ![o] = rest]
  OBVIOUS
<1> PICK after : after = mid ++ Single(new, u)
  OBVIOUS
<1>1. after = extract_columns_from_table(db, o, C)
  BY DEF extract_columns_from_table
<1>2. WellFormed(t) /\ new \in Nat /\ DatabaseOK(db)
  BY DEF Consistent, DatabaseOK
<1>3. Remains(rest, t, C, new)
  <2>1. WellFormed(w) /\ KeyAdded(w, t, new)
    BY <1>2, WithKeyFields
  <2>2. Ranked(rows, w, t, C)
    BY DEF Ranked
  <2> QED BY <1>2, <2>1, <2>2, RestFields
<1>4. Extracts(u, t, C, NewPlaces(C, 2), Tuples(t, C))
  BY <1>2, ExtractedFields
<1>5. WellFormed(rest) /\ WellFormed(u) /\ DOMAIN rest.rows = DOMAIN t.rows
  BY <1>3, <1>4 DEF Remains, Extracts
<1>6. DatabaseOK(mid)
  BY <1>2, <1>5, TableReplaced
<1>7. DOMAIN mid = DOMAIN db /\ mid[o] = rest /\ \A p \in DOMAIN db \ {o} : mid[p] = db[p]
  BY <1>2 DEF DatabaseOK
<1>8. NextOid(mid) = new
  BY <1>7 DEF NextOid
<1>9. Added(after, mid, u)
  BY <1>5, <1>6, <1>8, TableAdded
<1>10. /\ DatabaseOK(after) /\ Keeps(after, mid) /\ new \notin DOMAIN db
       /\ DOMAIN after = DOMAIN db \cup {new} /\ after[new] = u /\ \A p \in DOMAIN db : after[p] = mid[p]
  BY <1>7, <1>8, <1>9 DEF Added
<1>11. Keeps(after, db)
  BY <1>5, <1>7, <1>10 DEF Keeps, RowsReferredTo
<1>12. after[o] = rest /\ after[new] = u
  BY <1>7, <1>10
<1>13. SplitOff(after, db, o, C)
  BY <1>3, <1>4, <1>7, <1>10, <1>11, <1>12 DEF SplitOff
<1> QED BY <1>1, <1>13

\* The values a row holds in the columns of a split are found by their rank.
LEMMA RanksFindValues ==
    ASSUME NEW t, WellFormed(t), NEW C, C \subseteq ColumnsOf(t), NEW r \in DOMAIN t.rows
    PROVE  /\ dense_rank(t, r, C) \in 1 .. Cardinality(Tuples(t, C))
           /\ At(dense_rank(t, r, C), Tuples(t, C)) = Part(t, r, C)
<1>1. PICK V : V = Tuples(t, C)
  OBVIOUS
<1>2. V = PartsOf(t, DOMAIN t.rows, C)
  BY <1>1 DEF Tuples, PartsOf
<1>3. C \in SUBSET Nat /\ V \in SUBSET [C -> Nat] /\ IsFiniteSet(V)
  BY <1>2, PartsAreFinite
<1>4. Numbered(V)
  BY <1>3, PlacesNumber
<1>5. Part(t, r, C) \in V /\ dense_rank(t, r, C) = Place(Part(t, r, C), V)
  BY <1>1 DEF Tuples, dense_rank
<1> QED BY <1>1, <1>4, <1>5 DEF Numbered

\* data_modeling.split_table: references go on to be valid, those to the new table included.
LEMMA SplitKeeps ==
    ASSUME NEW db, Consistent(db), NEW o \in DOMAIN db, NEW C, C \subseteq ColumnsOf(db[o])
    PROVE  Consistent(extract_columns_from_table(db, o, C))
<1>1. PICK after : after = extract_columns_from_table(db, o, C)
  OBVIOUS
<1>2. PICK t : t = db[o]
  OBVIOUS
<1>3. PICK new : new = NextOid(db)
  OBVIOUS
<1>4. PICK rest : rest = after[o]
  OBVIOUS
<1>5. PICK u : u = after[new]
  OBVIOUS
<1>6. PICK to : to = NewPlaces(C, 2)
  OBVIOUS
<1>7. PICK V : V = Tuples(t, C)
  OBVIOUS
<1>8. SplitOff(after, db, o, C)
  BY <1>1, SplitFields
<1>9. /\ DOMAIN after = DOMAIN db \cup {new} /\ \A p \in DOMAIN db \ {o} : after[p] = db[p]
      /\ Remains(rest, t, C, new) /\ Extracts(u, t, C, to, V) /\ DatabaseOK(after) /\ Keeps(after, db)
  BY <1>2, <1>3, <1>4, <1>5, <1>6, <1>7, <1>8 DEF SplitOff
<1>10. WellFormed(t) /\ Refers(t, db) /\ C \subseteq ColumnsOf(t) /\ DOMAIN t.fks \subseteq ColumnsOf(t)
  BY <1>2 DEF Consistent, DatabaseOK, WellFormed, TableOK
<1>11. Refers(t, after)
  BY <1>9, <1>10, StillRefers
<1>12. RowsReferredTo(after, new) = 1 .. Cardinality(V)
  BY <1>5, <1>9 DEF RowsReferredTo, Extracts
<1>13. Refers(rest, after)
  <2>1. ASSUME NEW c \in DOMAIN rest.fks, NEW id \in DOMAIN rest.rows
        PROVE  rest.rows[id][c] \in {NULL} \cup RowsReferredTo(after, rest.fks[c])
    <3>1. id \in DOMAIN t.rows
      BY <1>9 DEF Remains
    <3>2. CASE c = t.next
      <4>1. rest.rows[id][c] = dense_rank(t, id, C) /\ rest.fks[c] = new
        BY <1>9, <3>1, <3>2 DEF Remains
      <4>2. dense_rank(t, id, C) \in 1 .. Cardinality(V)
        BY <1>7, <1>10, <3>1, RanksFindValues
      <4> QED BY <4>1, <4>2, <1>12
    <3>3. CASE c # t.next
      <4>1. c \in DOMAIN t.fks /\ rest.fks[c] = t.fks[c]
        BY <1>9, <3>3 DEF Remains
      <4>2. c \notin C
        BY <1>9 DEF Remains
      <4>3. rest.rows[id][c] = t.rows[id][c]
        BY <1>9, <1>10, <3>1, <4>1, <4>2 DEF Remains
      <4> QED BY <1>11, <3>1, <4>1, <4>3 DEF Refers
    <3> QED BY <3>2, <3>3
  <2> QED BY <2>1 DEF Refers
<1>14. Refers(u, after)
  <2>1. ASSUME NEW a \in DOMAIN u.fks, NEW k \in DOMAIN u.rows
        PROVE  u.rows[k][a] \in {NULL} \cup RowsReferredTo(after, u.fks[a])
    <3>1. PICK c \in C \cap DOMAIN t.fks : a = to[c] /\ u.fks[a] = t.fks[c]
      BY <1>9 DEF Extracts, Brings
    <3>2. u.rows[k][a] = At(k, V)[c] /\ k \in 1 .. Cardinality(V)
      BY <1>9, <3>1 DEF Extracts
    <3>3. V = PartsOf(t, DOMAIN t.rows, C)
      BY <1>7 DEF Tuples, PartsOf
    <3>4. Numbered(V)
      BY <3>3, <1>10, PartsAreFinite, PlacesNumber
    <3>5. PICK r \in DOMAIN t.rows : At(k, V) = Part(t, r, C)
      BY <3>2, <3>4, <3>3 DEF Numbered, PartsOf
    <3>6. u.rows[k][a] = t.rows[r][c]
      BY <3>1, <3>2, <3>5 DEF Part
    <3> QED BY <3>1, <3>6, <1>11 DEF Refers
  <2> QED BY <2>1 DEF Refers
<1>15. \A p \in DOMAIN db \ {o} : Refers(after[p], after)
  BY <1>9, StillRefers DEF Consistent
<1>16. \A p \in DOMAIN after : Refers(after[p], after)
  BY <1>4, <1>5, <1>9, <1>13, <1>14, <1>15
<1> QED BY <1>1, <1>9, <1>16 DEF Consistent

\* Every row finds the values it held in the row it refers to after a split.
LEMMA SplitKeepsWhatRowsHeld ==
    ASSUME NEW db, Consistent(db), NEW o \in DOMAIN db, NEW C, C \subseteq ColumnsOf(db[o]),
           NEW r \in DOMAIN db[o].rows, NEW c \in C
    PROVE  ValueBehind(extract_columns_from_table(db, o, C), o, r, db[o].next, db[o].cols[c]) = db[o].rows[r][c]
<1>1. PICK after : after = extract_columns_from_table(db, o, C)
  OBVIOUS
<1>2. PICK t : t = db[o]
  OBVIOUS
<1>3. PICK new : new = NextOid(db)
  OBVIOUS
<1>4. PICK rest : rest = after[o]
  OBVIOUS
<1>5. PICK u : u = after[new]
  OBVIOUS
<1>6. PICK to : to = NewPlaces(C, 2)
  OBVIOUS
<1>7. PICK V : V = Tuples(t, C)
  OBVIOUS
<1>8. SplitOff(after, db, o, C)
  BY <1>1, SplitFields
<1>9. Remains(rest, t, C, new) /\ Extracts(u, t, C, to, V)
  BY <1>2, <1>3, <1>4, <1>5, <1>6, <1>7, <1>8 DEF SplitOff
<1>10. WellFormed(t) /\ C \subseteq ColumnsOf(t) /\ r \in DOMAIN t.rows
  BY <1>2 DEF Consistent, DatabaseOK
<1>11. rest.fks[t.next] = new /\ rest.rows[r][t.next] = dense_rank(t, r, C)
  BY <1>9, <1>10 DEF Remains
<1>12. dense_rank(t, r, C) \in 1 .. Cardinality(V) /\ At(dense_rank(t, r, C), V) = Part(t, r, C)
  BY <1>7, <1>10, RanksFindValues
<1>13. u.rows[dense_rank(t, r, C)][to[c]] = t.rows[r][c]
  BY <1>9, <1>12 DEF Extracts, Part
<1>14. ColumnNamed(u, t.cols[c]) = to[c]
  <2>1. to[c] \in DOMAIN u.cols /\ u.cols[to[c]] = t.cols[c]
    BY <1>9 DEF Extracts, Brings, ColumnsOf
  <2>2. \A a \in DOMAIN u.cols : u.cols[a] = t.cols[c] => a = to[c]
    BY <2>1, <1>9 DEF Extracts, WellFormed, TableOK, IsInjective
  <2> QED BY <2>1, <2>2 DEF ColumnNamed
<1>15. ValueBehind(after, o, r, t.next, t.cols[c]) = u.rows[dense_rank(t, r, C)][ColumnNamed(u, t.cols[c])]
  BY <1>4, <1>5, <1>11 DEF ValueBehind
<1> QED BY <1>1, <1>2, <1>13, <1>14, <1>15

-----------------------------------------------------------------------------
(***************************************************************************)
(* data_modeling.move_columns                                              *)
(***************************************************************************)
CopyIsBefore(x, y) == x[1] < y[1] \/ (x[1] = y[1] /\ IsBefore(x[2], y[2]))
CopyOrder(copies) == {z \in copies \X copies : CopyIsBefore(z[1], z[2])}

\* The ids of n copies are the next ones of table t, each once.
CopiesNumbered(copies, t, n) ==
    /\ n \in Nat /\ \A x \in copies : CopyId(copies, t, x) \in t.nextId .. t.nextId + n - 1
    /\ \A x, y \in copies : CopyId(copies, t, x) = CopyId(copies, t, y) => x = y

\* Copies of rows for different values are in a total order.
LEMMA CopyOrderIsTotal ==
    ASSUME NEW C \in SUBSET Nat, NEW copies \in SUBSET (Nat \X [C -> Nat])
    PROVE  IsTotalOrder(copies, CopyOrder(copies))
<1>1. \A x, y \in copies : <<x, y>> \in CopyOrder(copies) <=> CopyIsBefore(x, y)
  BY DEF CopyOrder
<1>2. ASSUME NEW x \in copies PROVE x[1] \in Nat /\ x[2] \in [C -> Nat] /\ x = <<x[1], x[2]>>
  OBVIOUS
<1>3. \A x \in copies : ~CopyIsBefore(x, x)
  <2>1. ASSUME NEW x \in copies PROVE ~IsBefore(x[2], x[2])
    BY DEF IsBefore
  <2> QED BY <1>2, <2>1 DEF CopyIsBefore
<1>4. ASSUME NEW x \in copies, NEW y \in copies, NEW z \in copies, CopyIsBefore(x, y), CopyIsBefore(y, z)
      PROVE  CopyIsBefore(x, z)
  <2>1. CASE x[1] = y[1] /\ y[1] = z[1]
    <3>1. IsBefore(x[2], y[2]) /\ IsBefore(y[2], z[2])
      BY <1>2, <1>4, <2>1 DEF CopyIsBefore
    <3>2. IsBefore(x[2], z[2])
      BY <1>2, <3>1, BeforeIsTransitive
    <3> QED BY <2>1, <3>2 DEF CopyIsBefore
  <2>2. CASE ~(x[1] = y[1] /\ y[1] = z[1])
    <3>1. x[1] \in Nat /\ y[1] \in Nat /\ z[1] \in Nat
      BY <1>2
    <3>2. x[1] < z[1]
      BY <1>4, <2>2, <3>1 DEF CopyIsBefore
    <3> QED BY <3>2 DEF CopyIsBefore
  <2> QED BY <2>1, <2>2
<1>5. ASSUME NEW x \in copies, NEW y \in copies PROVE x = y \/ CopyIsBefore(x, y) \/ CopyIsBefore(y, x)
  <2>1. CASE x[1] = y[1] /\ x[2] # y[2]
    BY <1>2, <2>1, BeforeIsLinear DEF CopyIsBefore
  <2>2. CASE x[1] # y[1]
    BY <1>2, <2>2 DEF CopyIsBefore
  <2> QED BY <1>2, <2>1, <2>2
<1> QED BY <1>1, <1>3, <1>4, <1>5 DEF IsTotalOrder

\* Copies get ids one after the other.
LEMMA CopiesAreNumbered ==
    ASSUME NEW C \in SUBSET Nat, NEW copies \in SUBSET (Nat \X [C -> Nat]), IsFiniteSet(copies),
           NEW t, t.nextId \in Nat
    PROVE  CopiesNumbered(copies, t, Cardinality(copies))
<1>1. PICK n : n = Cardinality(copies)
  OBVIOUS
<1>2. PICK R : R = CopyOrder(copies)
  OBVIOUS
<1>3. PICK rank : rank = Rank(copies, R)
  OBVIOUS
<1>4. n \in Nat
  BY <1>1, FS_CardinalityType
<1>5. IsRanking(rank, copies, R)
  BY <1>2, <1>3, CopyOrderIsTotal, RanksAreABijection
<1>6. /\ \A x \in copies : rank[x] \in 1 .. n
      /\ \A x, y \in copies : rank[x] = rank[y] => x = y
  BY <1>1, <1>5 DEF IsRanking
<1>7. ASSUME NEW x \in copies PROVE CopyId(copies, t, x) = t.nextId + rank[x] - 1
  <2>1. {y \in copies : <<y, x>> \in R} = {y \in copies : CopyIsBefore(y, x)}
    BY <1>2 DEF CopyOrder
  <2>2. PICK m : m = Cardinality({y \in copies : CopyIsBefore(y, x)})
    OBVIOUS
  <2>3. rank[x] = 1 + m
    BY <1>3, <2>1, <2>2 DEF Rank
  <2>4. CopyId(copies, t, x) = t.nextId + m
    BY <2>2 DEF CopyId, CopyIsBefore
  <2>5. IsFiniteSet({y \in copies : CopyIsBefore(y, x)})
    BY FS_Subset
  <2>6. m \in Nat
    BY <2>2, <2>5, FS_CardinalityType
  <2> QED BY <2>3, <2>4, <2>6
<1>8. ASSUME NEW x \in copies PROVE CopyId(copies, t, x) \in t.nextId .. t.nextId + n - 1
  BY <1>4, <1>6, <1>7
<1>9. ASSUME NEW x \in copies, NEW y \in copies, CopyId(copies, t, x) = CopyId(copies, t, y) PROVE x = y
  <2>1. rank[x] \in Int /\ rank[y] \in Int
    BY <1>6
  <2>2. rank[x] = rank[y]
    BY <2>1, <1>7, <1>9
  <2> QED BY <2>2, <1>6
<1> QED BY <1>1, <1>4, <1>8, <1>9 DEF CopiesNumbered

\* The copies that a move makes, of rows of table t for rows of table s.
LEMMA CopiesAreFinite ==
    ASSUME NEW s, WellFormed(s), NEW t, WellFormed(t), NEW C, C \subseteq ColumnsOf(s), NEW f
    PROVE  /\ C \in SUBSET Nat /\ Copied(s, f, C, t) \in SUBSET ((DOMAIN t.rows) \X [C -> Nat])
           /\ CopiesNumbered(Copied(s, f, C, t), t, Cardinality(Copied(s, f, C, t)))
<1>1. PICK copies : copies = Copied(s, f, C, t)
  OBVIOUS
<1>2. PICK V : V = Tuples(s, C)
  OBVIOUS
<1>3. V = PartsOf(s, DOMAIN s.rows, C)
  BY <1>2 DEF Tuples, PartsOf
<1>4. C \in SUBSET Nat /\ V \in SUBSET [C -> Nat] /\ IsFiniteSet(V)
  BY <1>3, PartsAreFinite
<1>5. t.nextId \in Nat /\ DOMAIN t.rows \subseteq 1 .. t.nextId - 1
  BY DEF WellFormed, TableOK
<1>6. IsFiniteSet(DOMAIN t.rows)
  <2>1. IsFiniteSet(1 .. t.nextId - 1)
    BY <1>5, FS_Interval
  <2> QED BY <2>1, <1>5, FS_Subset
<1>7. copies \in SUBSET ((DOMAIN t.rows) \X V)
  BY <1>1, <1>2 DEF Copied
<1>8. IsFiniteSet(copies)
  <2>1. IsFiniteSet((DOMAIN t.rows) \X V)
    BY <1>4, <1>6, FS_Product
  <2> QED BY <1>7, <2>1, FS_Subset
<1>9. copies \in SUBSET ((DOMAIN t.rows) \X [C -> Nat])
  BY <1>4, <1>7
<1>10. copies \in SUBSET (Nat \X [C -> Nat])
  <2>1. DOMAIN t.rows \in SUBSET Nat
    BY <1>5
  <2> QED BY <1>9, <2>1
<1>11. CopiesNumbered(copies, t, Cardinality(copies))
  BY <1>4, <1>5, <1>8, <1>10, CopiesAreNumbered
<1> QED BY <1>1, <1>4, <1>9, <1>11

\* What the rows that refer to one row hold, and the first of these values.
LEMMA MovedIsNumbered ==
    ASSUME NEW s, WellFormed(s), NEW C, C \subseteq ColumnsOf(s), NEW f, NEW id
    PROVE  /\ Moved(s, f, C, id) \in SUBSET [C -> Nat] /\ Numbered(Moved(s, f, C, id))
           /\ \A v \in Moved(s, f, C, id) : \E r \in DOMAIN s.rows : s.rows[r][f] = id /\ v = Part(s, r, C)
           /\ Moved(s, f, C, id) # {} => 1 \in 1 .. Cardinality(Moved(s, f, C, id))
<1>1. PICK S : S = {r \in DOMAIN s.rows : s.rows[r][f] = id}
  OBVIOUS
<1>2. PICK M : M = Moved(s, f, C, id)
  OBVIOUS
<1>3. M = PartsOf(s, S, C)
  BY <1>1, <1>2 DEF Moved, PartsOf
<1>4. C \in SUBSET Nat /\ M \in SUBSET [C -> Nat] /\ IsFiniteSet(M)
  <2>1. S \in SUBSET DOMAIN s.rows
    BY <1>1
  <2> QED BY <2>1, <1>3, PartsAreFinite
<1>5. Numbered(M)
  BY <1>4, PlacesNumber
<1>6. \A v \in M : \E r \in DOMAIN s.rows : s.rows[r][f] = id /\ v = Part(s, r, C)
  BY <1>1, <1>3 DEF PartsOf
<1>7. M # {} => 1 \in 1 .. Cardinality(M)
  <2>1. Cardinality(M) \in Nat /\ (M # {} => Cardinality(M) # 0)
    BY <1>4, FS_CardinalityType, FS_EmptySet
  <2> QED BY <2>1
<1> QED BY <1>2, <1>4, <1>5, <1>6, <1>7

\* The first values for a row of the target.
FirstMoved(s, f, C, id) == IF Moved(s, f, C, id) = {} THEN [c \in C |-> NULL] ELSE At(1, Moved(s, f, C, id))

\* These are numbers, and held by a row that refers to the row unless they are NULL.
LEMMA FirstMovedIsThere ==
    ASSUME NEW s, WellFormed(s), NEW C, C \subseteq ColumnsOf(s), NEW f, NEW id
    PROVE  /\ FirstMoved(s, f, C, id) \in [C -> Nat]
           /\ \/ FirstMoved(s, f, C, id) = [c \in C |-> NULL]
              \/ \E r \in DOMAIN s.rows : FirstMoved(s, f, C, id) = Part(s, r, C)
<1>1. PICK M : M = Moved(s, f, C, id)
  OBVIOUS
<1>2. /\ M \in SUBSET [C -> Nat] /\ Numbered(M) /\ \A v \in M : \E r \in DOMAIN s.rows : v = Part(s, r, C)
      /\ M # {} => 1 \in 1 .. Cardinality(M)
  BY <1>1, MovedIsNumbered
<1>3. CASE M = {}
  BY <1>1, <1>3 DEF FirstMoved, NULL
<1>4. CASE M # {}
  <2>1. FirstMoved(s, f, C, id) = At(1, M) /\ At(1, M) \in M
    BY <1>1, <1>2, <1>4 DEF FirstMoved, Numbered
  <2> QED BY <1>2, <2>1
<1> QED BY <1>3, <1>4

\* Table u is t when columns C of s have moved to its places to.
MovedInto(u, s, f, C, t, to) ==
    LET copies == Copied(s, f, C, t)
    IN  /\ WellFormed(u)
        /\ DOMAIN u.rows = DOMAIN t.rows \cup {CopyId(copies, t, x) : x \in copies}
        /\ \A id \in DOMAIN t.rows : /\ \A a \in ColumnsOf(t) : u.rows[id][a] = t.rows[id][a]
                                     /\ \A c \in C : u.rows[id][to[c]] = FirstMoved(s, f, C, id)[c]
        /\ \A x \in copies : /\ \A a \in ColumnsOf(t) : u.rows[CopyId(copies, t, x)][a] = t.rows[x[1]][a]
                             /\ \A c \in C : u.rows[CopyId(copies, t, x)][to[c]] = x[2][c]
        /\ \A a \in DOMAIN t.cols : a \in DOMAIN u.cols /\ u.cols[a] = t.cols[a]
        /\ \A c \in C : to[c] \in ColumnsOf(u) /\ u.cols[to[c]] = s.cols[c]
        /\ \A a \in DOMAIN u.fks : \/ a \in DOMAIN t.fks /\ u.fks[a] = t.fks[a]
                                   \/ \E c \in C \cap DOMAIN s.fks : a = to[c] /\ u.fks[a] = s.fks[c]

\* Values at their new places.
Arrived(v, to, C) == [a \in Range(to) |-> v[CHOOSE c \in C : to[c] = a]]

\* The rows of a target: those it had and the copies.
KeptRows(s, f, C, t, to) == [id \in DOMAIN t.rows |-> t.rows[id] ++ Arrived(FirstMoved(s, f, C, id), to, C)]
CopyRows(copies, t, to, C) == [i \in {CopyId(copies, t, x) : x \in copies} |->
    LET x == CHOOSE y \in copies : CopyId(copies, t, y) = i
    IN  t.rows[x[1]] ++ Arrived(x[2], to, C)]

\* The names that go with the columns C of s to t.
NamesThatMove(s, C, t, to) == [k \in 1 .. Cardinality(C) |-> s.cols[CHOOSE c \in C : to[c] = t.next + k - 1]]

\* What a row is that values v have moved to.
RowGot(row, old, v, A, C, to, P) ==
    /\ row \in [A \cup P -> Nat]
    /\ \A a \in A : row[a] = old[a]
    /\ \A c \in C : row[to[c]] = v[c]

\* A row with columns A gets values for the places P.
LEMMA RowGets ==
    ASSUME NEW A, NEW old \in [A -> Nat], NEW C, NEW v \in [C -> Nat], NEW to, NEW from, NEW n,
           Numbers(to, C, from, n), A \cap (from .. from + n - 1) = {}
    PROVE  RowGot(old ++ Arrived(v, to, C), old, v, A, C, to, from .. from + n - 1)
<1>1. PICK P : P = from .. from + n - 1
  OBVIOUS
<1>2. /\ Range(to) = P /\ \A c \in C : to[c] \in P /\ (CHOOSE d \in C : to[d] = to[c]) = c
      /\ \A a \in P : (CHOOSE d \in C : to[d] = a) \in C
  BY <1>1 DEF Numbers
<1>3. PICK got : got = Arrived(v, to, C)
  OBVIOUS
<1>4. got \in [P -> Nat] /\ \A c \in C : got[to[c]] = v[c]
  BY <1>2, <1>3 DEF Arrived
<1>5. PICK row : row = old ++ got
  OBVIOUS
<1>6. A \cap P = {} /\ DOMAIN old = A /\ DOMAIN got = P
  BY <1>1, <1>4
<1>7. row \in [A \cup P -> Nat] /\ (\A a \in A : row[a] = old[a]) /\ \A a \in P : row[a] = got[a]
  BY <1>4, <1>5, <1>6 DEF ++
<1>8. RowGot(row, old, v, A, C, to, P)
  BY <1>2, <1>4, <1>7 DEF RowGot
<1> QED BY <1>1, <1>3, <1>5, <1>8

\* A target is made of these.
LEMMA TargetIs ==
    ASSUME NEW s, NEW t, NEW C, NEW f
    PROVE  LET to == NewPlaces(C, t.next)
           IN  Target(s, f, C, t) =
                 [add_columns(t, NamesThatMove(s, C, t, to)) EXCEPT
                    !.rows = KeptRows(s, f, C, t, to) ++ CopyRows(Copied(s, f, C, t), t, to, C),
                    !.nextId = @ + Cardinality(Copied(s, f, C, t)),
                    !.fks = @ ++ ExtractedKeys(s, to),
                    !.uniques = @ \cup ExtractedUniques(s, to)]
BY DEF Target, NamesThatMove, KeptRows, CopyRows, Arrived, FirstMoved

\* The rows of a target after a move, whose columns were A and are A and P.
TargetRowsAre(rows, s, f, C, t, to, A, P) ==
    LET copies == Copied(s, f, C, t)
    IN  /\ rows \in [DOMAIN t.rows \cup {CopyId(copies, t, x) : x \in copies} -> [A \cup P -> Nat]]
        /\ \A id \in DOMAIN t.rows : RowGot(rows[id], t.rows[id], FirstMoved(s, f, C, id), A, C, to, P)
        /\ \A x \in copies : RowGot(rows[CopyId(copies, t, x)], t.rows[x[1]], x[2], A, C, to, P)

\* Rows keep what they had, and copies have what the row had that they are copies of.
LEMMA TargetRowsFields ==
    ASSUME NEW s, WellFormed(s), NEW t, WellFormed(t), NEW C, C \subseteq ColumnsOf(s), NEW f,
           NEW to, NEW n \in Nat, Numbers(to, C, t.next, n)
    PROVE  TargetRowsAre(KeptRows(s, f, C, t, to) ++ CopyRows(Copied(s, f, C, t), t, to, C), s, f, C, t, to,
                         ColumnsOf(t), t.next .. t.next + n - 1)
<1>1. PICK P : P = t.next .. t.next + n - 1
  OBVIOUS
<1>2. PICK copies : copies = Copied(s, f, C, t)
  OBVIOUS
<1>3. PICK A : A = ColumnsOf(t)
  OBVIOUS
<1>4. PICK kept : kept = KeptRows(s, f, C, t, to)
  OBVIOUS
<1>5. PICK added : added = CopyRows(copies, t, to, C)
  OBVIOUS
<1>6. PICK rows : rows = kept ++ added
  OBVIOUS
<1>7. A \cap P = {}
  <2>1. t.next \in Nat /\ A \subseteq 1 .. t.next - 1
    BY <1>3 DEF WellFormed, TableOK, ColumnsOf
  <2> QED BY <1>1, <2>1
<1>8. \A id \in DOMAIN t.rows : t.rows[id] \in [A -> Nat]
  BY <1>3 DEF WellFormed
<1>9. CopiesNumbered(copies, t, Cardinality(copies)) /\ copies \in SUBSET ((DOMAIN t.rows) \X [C -> Nat])
  BY <1>2, CopiesAreFinite
<1>10. DOMAIN kept = DOMAIN t.rows /\ DOMAIN added = {CopyId(copies, t, x) : x \in copies}
  BY <1>4, <1>5 DEF KeptRows, CopyRows
<1>11. ASSUME NEW id \in DOMAIN t.rows
       PROVE  RowGot(kept[id], t.rows[id], FirstMoved(s, f, C, id), A, C, to, P)
  <2>1. PICK v : v = FirstMoved(s, f, C, id)
    OBVIOUS
  <2>2. v \in [C -> Nat]
    BY <2>1, FirstMovedIsThere
  <2>3. RowGot(t.rows[id] ++ Arrived(v, to, C), t.rows[id], v, A, C, to, P)
    BY <1>1, <1>7, <1>8, <2>2, RowGets
  <2>4. kept[id] = t.rows[id] ++ Arrived(v, to, C)
    BY <1>4, <2>1 DEF KeptRows
  <2> QED BY <2>1, <2>3, <2>4
<1>12. ASSUME NEW x \in copies
       PROVE  RowGot(added[CopyId(copies, t, x)], t.rows[x[1]], x[2], A, C, to, P)
  <2>1. (CHOOSE y \in copies : CopyId(copies, t, y) = CopyId(copies, t, x)) = x
    BY <1>9 DEF CopiesNumbered
  <2>2. x[1] \in DOMAIN t.rows /\ x[2] \in [C -> Nat]
    BY <1>9
  <2>3. RowGot(t.rows[x[1]] ++ Arrived(x[2], to, C), t.rows[x[1]], x[2], A, C, to, P)
    BY <1>1, <1>7, <1>8, <2>2, RowGets
  <2>4. added[CopyId(copies, t, x)] = t.rows[x[1]] ++ Arrived(x[2], to, C)
    BY <1>5, <2>1 DEF CopyRows
  <2> QED BY <2>3, <2>4
<1>13. DOMAIN kept \cap DOMAIN added = {}
  <2>1. t.nextId \in Nat /\ DOMAIN t.rows \subseteq 1 .. t.nextId - 1
    BY DEF WellFormed, TableOK
  <2>2. \A x \in copies : CopyId(copies, t, x) \notin DOMAIN t.rows
    BY <2>1, <1>9 DEF CopiesNumbered
  <2> QED BY <1>10, <2>2
<1>14. /\ DOMAIN rows = DOMAIN kept \cup DOMAIN added
       /\ \A id \in DOMAIN kept : rows[id] = kept[id]
       /\ \A id \in DOMAIN added : rows[id] = added[id]
       /\ rows = [id \in DOMAIN rows |-> rows[id]]
  BY <1>6, <1>13 DEF ++
<1>15. \A id \in DOMAIN t.rows : RowGot(rows[id], t.rows[id], FirstMoved(s, f, C, id), A, C, to, P)
  BY <1>10, <1>11, <1>14
<1>16. \A x \in copies : RowGot(rows[CopyId(copies, t, x)], t.rows[x[1]], x[2], A, C, to, P)
  BY <1>10, <1>12, <1>14
<1>17. rows \in [DOMAIN t.rows \cup {CopyId(copies, t, x) : x \in copies} -> [A \cup P -> Nat]]
  <2>1. ASSUME NEW id \in DOMAIN rows PROVE rows[id] \in [A \cup P -> Nat]
    BY <1>10, <1>14, <1>15, <1>16 DEF RowGot
  <2> QED BY <1>10, <1>14, <2>1
<1>18. TargetRowsAre(rows, s, f, C, t, to, A, P)
  BY <1>2, <1>15, <1>16, <1>17 DEF TargetRowsAre
<1> QED BY <1>1, <1>2, <1>3, <1>4, <1>5, <1>6, <1>18

\* What a target has after a move.
LEMMA TargetFields ==
    ASSUME NEW s, WellFormed(s), NEW t, WellFormed(t), NEW C, C \subseteq ColumnsOf(s), NEW f,
           \A c \in C : s.cols[c] \notin NamesOf(t)
    PROVE  MovedInto(Target(s, f, C, t), s, f, C, t, NewPlaces(C, t.next))
<1>1. PICK to : to = NewPlaces(C, t.next)
  OBVIOUS
<1>2. PICK n : n = Cardinality(C)
  OBVIOUS
<1>3. PICK copies : copies = Copied(s, f, C, t)
  OBVIOUS
<1>4. PICK m : m = Cardinality(copies)
  OBVIOUS
<1>5. PICK names : names = NamesThatMove(s, C, t, to)
  OBVIOUS
<1>6. PICK e : e = add_columns(t, names)
  OBVIOUS
<1>7. PICK rows : rows = KeptRows(s, f, C, t, to) ++ CopyRows(copies, t, to, C)
  OBVIOUS
<1>8. PICK fks : fks = e.fks ++ ExtractedKeys(s, to)
  OBVIOUS
<1>9. PICK uniques : uniques = e.uniques \cup ExtractedUniques(s, to)
  OBVIOUS
<1>10. PICK u : u = Target(s, f, C, t)
  OBVIOUS
<1>11. PICK A : A = ColumnsOf(t)
  OBVIOUS
<1>12. PICK P : P = t.next .. t.next + n - 1
  OBVIOUS
<1>13. u = [e EXCEPT !.rows = rows, !.nextId = e.nextId + m, !.fks = fks, !.uniques = uniques]
  BY <1>1, <1>3, <1>4, <1>5, <1>6, <1>7, <1>8, <1>9, <1>10, TargetIs
<1>14. C \in SUBSET Nat /\ IsFiniteSet(C) /\ t.next \in Nat /\ t.nextId \in Nat
  <2>1. C \in SUBSET Nat /\ IsFiniteSet(C)
    <3>1. {} \in SUBSET DOMAIN s.rows
      OBVIOUS
    <3> QED BY <3>1, PartsAreFinite
  <2> QED BY <2>1 DEF WellFormed
<1>15. n \in Nat /\ Numbers(to, C, t.next, n)
  BY <1>1, <1>2, <1>14, NewPlacesNumber
<1>16. Arrive(e, t, s, C, to, n)
  <2>1. names = [k \in 1 .. n |-> s.cols[CHOOSE c \in C : to[c] = t.next + k - 1]]
    BY <1>2, <1>5 DEF NamesThatMove
  <2>2. /\ \A c \in C : to[c] \in t.next .. t.next + n - 1 /\ (CHOOSE d \in C : to[d] = to[c]) = c
    BY <1>15 DEF Numbers
  <2>3. ASSUME NEW c \in C PROVE names[to[c] - t.next + 1] = s.cols[c]
    <3>1. PICK k : k = to[c] - t.next + 1
      OBVIOUS
    <3>2. k \in 1 .. n /\ t.next + k - 1 = to[c]
      BY <1>14, <1>15, <2>2, <3>1
    <3>3. names[k] = s.cols[CHOOSE d \in C : to[d] = t.next + k - 1]
      BY <2>1, <3>2, Zenon
    <3>4. names[k] = s.cols[CHOOSE d \in C : to[d] = to[c]]
      BY <3>2, <3>3
    <3> QED BY <2>2, <3>1, <3>4
  <2>4. names = [k \in 1 .. n |-> names[k]]
    BY <2>1
  <2> QED BY <1>6, <1>15, <2>3, <2>4, ColumnsArrive
<1>17. /\ WellFormed(e) /\ e.nextId = t.nextId /\ e.fks = t.fks /\ e.uniques = t.uniques
       /\ ColumnsOf(e) = A \cup P /\ A \cap P = {}
       /\ \A a \in DOMAIN t.cols : a \in DOMAIN e.cols /\ e.cols[a] = t.cols[a]
       /\ \A c \in C : e.cols[to[c]] = s.cols[c]
  BY <1>11, <1>12, <1>16 DEF Arrive
<1>18. /\ DOMAIN u = DOMAIN e /\ u.next = e.next /\ u.nextId = e.nextId + m /\ u.cols = e.cols
       /\ u.rows = rows /\ u.fks = fks /\ u.uniques = uniques /\ ColumnsOf(u) = A \cup P
  BY <1>13, <1>17 DEF WellFormed, ColumnsOf
<1>19. TargetRowsAre(rows, s, f, C, t, to, A, P)
  BY <1>3, <1>7, <1>11, <1>12, <1>15, TargetRowsFields
<1>20. /\ rows \in [DOMAIN t.rows \cup {CopyId(copies, t, x) : x \in copies} -> [A \cup P -> Nat]]
       /\ \A id \in DOMAIN t.rows : RowGot(rows[id], t.rows[id], FirstMoved(s, f, C, id), A, C, to, P)
       /\ \A x \in copies : RowGot(rows[CopyId(copies, t, x)], t.rows[x[1]], x[2], A, C, to, P)
  BY <1>3, <1>19 DEF TargetRowsAre
<1>21. KeysGo(ExtractedKeys(s, to), ExtractedUniques(s, to), s, C, to, P)
  BY <1>12, <1>15, KeysAreExtracted
<1>22. /\ fks \in [DOMAIN fks -> Nat] /\ DOMAIN fks \subseteq A \cup P
       /\ \A a \in DOMAIN fks : \/ a \in DOMAIN t.fks /\ fks[a] = t.fks[a]
                                \/ \E c \in C \cap DOMAIN s.fks : a = to[c] /\ fks[a] = s.fks[c]
  <2>1. PICK keys : keys = ExtractedKeys(s, to)
    OBVIOUS
  <2>2. /\ DOMAIN keys \subseteq P
        /\ \A a \in DOMAIN keys : \E c \in C \cap DOMAIN s.fks : a = to[c] /\ keys[a] = s.fks[c]
    BY <1>21, <2>1 DEF KeysGo
  <2>3. DOMAIN t.fks \subseteq A /\ (\A a \in DOMAIN t.fks : t.fks[a] \in Nat) /\ \A c \in DOMAIN s.fks : s.fks[c] \in Nat
    BY <1>11 DEF WellFormed, TableOK
  <2>4. fks = t.fks ++ keys
    BY <1>8, <1>17, <2>1
  <2>5. /\ DOMAIN fks = DOMAIN t.fks \cup DOMAIN keys
        /\ \A a \in DOMAIN t.fks : fks[a] = t.fks[a]
        /\ \A a \in DOMAIN fks \ DOMAIN t.fks : a \in DOMAIN keys /\ fks[a] = keys[a]
        /\ fks = [a \in DOMAIN fks |-> fks[a]]
    BY <2>4 DEF ++
  <2>6. \A a \in DOMAIN fks : \/ a \in DOMAIN t.fks /\ fks[a] = t.fks[a]
                              \/ \E c \in C \cap DOMAIN s.fks : a = to[c] /\ fks[a] = s.fks[c]
    BY <2>2, <2>5
  <2>7. \A a \in DOMAIN fks : fks[a] \in Nat
    BY <2>3, <2>6
  <2> QED BY <2>2, <2>3, <2>5, <2>6, <2>7
<1>23. uniques \subseteq (SUBSET (A \cup P)) \ {{}}
  <2>1. t.uniques \subseteq (SUBSET A) \ {{}}
    BY <1>11 DEF WellFormed, TableOK
  <2>2. ExtractedUniques(s, to) \subseteq (SUBSET P) \ {{}}
    BY <1>21 DEF KeysGo
  <2> QED BY <1>9, <1>17, <2>1, <2>2
<1>24. m \in Nat /\ DOMAIN rows \subseteq 1 .. t.nextId + m - 1
  <2>1. CopiesNumbered(copies, t, m)
    BY <1>3, <1>4, CopiesAreFinite
  <2>2. m \in Nat /\ \A x \in copies : CopyId(copies, t, x) \in t.nextId .. t.nextId + m - 1
    BY <2>1 DEF CopiesNumbered
  <2>3. t.nextId \in Nat \ {0} /\ DOMAIN t.rows \subseteq 1 .. t.nextId - 1
    BY DEF WellFormed, TableOK
  <2>4. ASSUME NEW id \in DOMAIN rows PROVE id \in 1 .. t.nextId + m - 1
    <3>1. id \in DOMAIN t.rows \/ \E x \in copies : id = CopyId(copies, t, x)
      BY <1>20
    <3> QED BY <2>2, <2>3, <3>1
  <2> QED BY <2>2, <2>4
<1>25. TableOK(u)
  <2>1. 1 \in DOMAIN u.cols /\ DOMAIN u.cols \subseteq 1 .. u.next - 1 /\ IsInjective(u.cols)
    BY <1>17, <1>18 DEF WellFormed, TableOK
  <2>2. DOMAIN u.rows \subseteq 1 .. u.nextId - 1
    <3>1. u.nextId = t.nextId + m
      BY <1>17, <1>18
    <3>2. u.rows = rows
      BY <1>18
    <3>3. 1 .. u.nextId - 1 = 1 .. t.nextId + m - 1
      BY <3>1, <1>14, <1>24
    <3> QED BY <3>2, <3>3, <1>24
  <2>3. \A id \in DOMAIN u.rows : DOMAIN u.rows[id] = ColumnsOf(u)
    BY <1>18, <1>20
  <2>4. DOMAIN u.fks \subseteq ColumnsOf(u) /\ u.uniques \subseteq (SUBSET ColumnsOf(u)) \ {{}}
    BY <1>18, <1>22, <1>23
  <2> QED BY <2>1, <2>2, <2>3, <2>4 DEF TableOK
<1>26. WellFormed(u)
  <2>1. u.nextId \in Nat \ {0}
    BY <1>17, <1>18, <1>24 DEF WellFormed
  <2>2. u.rows \in [DOMAIN u.rows -> [ColumnsOf(u) -> Nat]]
    BY <1>18, <1>20
  <2> QED BY <1>17, <1>18, <1>22, <1>25, <2>1, <2>2 DEF WellFormed
<1>27. MovedInto(u, s, f, C, t, to)
  <2>1. DOMAIN u.rows = DOMAIN t.rows \cup {CopyId(copies, t, x) : x \in copies}
    BY <1>18, <1>20
  <2>2. ASSUME NEW id \in DOMAIN t.rows
        PROVE  /\ \A a \in ColumnsOf(t) : u.rows[id][a] = t.rows[id][a]
               /\ \A c \in C : u.rows[id][to[c]] = FirstMoved(s, f, C, id)[c]
    <3>1. RowGot(u.rows[id], t.rows[id], FirstMoved(s, f, C, id), A, C, to, P)
      BY <1>18, <1>20
    <3>2. /\ \A a \in A : u.rows[id][a] = t.rows[id][a]
          /\ \A c \in C : u.rows[id][to[c]] = FirstMoved(s, f, C, id)[c]
      BY <3>1 DEF RowGot
    <3> QED BY <3>2, <1>11
  <2>3. ASSUME NEW x \in copies
        PROVE  /\ \A a \in ColumnsOf(t) : u.rows[CopyId(copies, t, x)][a] = t.rows[x[1]][a]
               /\ \A c \in C : u.rows[CopyId(copies, t, x)][to[c]] = x[2][c]
    <3>1. RowGot(u.rows[CopyId(copies, t, x)], t.rows[x[1]], x[2], A, C, to, P)
      BY <1>18, <1>20
    <3>2. /\ \A a \in A : u.rows[CopyId(copies, t, x)][a] = t.rows[x[1]][a]
          /\ \A c \in C : u.rows[CopyId(copies, t, x)][to[c]] = x[2][c]
      BY <3>1 DEF RowGot
    <3> QED BY <3>2, <1>11
  <2>4. \A c \in C : to[c] \in ColumnsOf(u)
    BY <1>12, <1>15, <1>18 DEF Numbers
  <2> QED BY <1>3, <1>17, <1>18, <1>22, <1>26, <2>1, <2>2, <2>3, <2>4 DEF MovedInto
<1> QED BY <1>1, <1>10, <1>27

\* A copy of the row that row r of s refers to, with the values of row r.
IsLike(x, s, f, C, t, r) ==
    /\ s.rows[r][f] \in DOMAIN t.rows /\ OthersOf(t, x[1]) = OthersOf(t, s.rows[r][f])
    /\ x[2] = Part(s, r, C) /\ NULL \notin Range(x[2])

\* n is such a copy, if there is one, and what row r refers to otherwise.
RefersOnTo(n, s, f, C, t, r) ==
    LET copies == Copied(s, f, C, t)
    IN  \/ n = s.rows[r][f] /\ \A x \in copies : ~IsLike(x, s, f, C, t, r)
        \/ \E x \in copies : n = CopyId(copies, t, x) /\ IsLike(x, s, f, C, t, r)

\* What a row refers to after a move.
LEMMA NewReferenceIs ==
    ASSUME NEW s, WellFormed(s), NEW t, WellFormed(t), NEW C, C \subseteq ColumnsOf(s), NEW f \in ColumnsOf(s),
           NEW r \in DOMAIN s.rows
    PROVE  /\ RefersOnTo(NewReference(s, f, C, t, Copied(s, f, C, t), r), s, f, C, t, r)
           /\ NewReference(s, f, C, t, Copied(s, f, C, t), r) \in Nat
<1>1. PICK copies : copies = Copied(s, f, C, t)
  OBVIOUS
<1>2. PICK like : like = {x \in copies : IsLike(x, s, f, C, t, r)}
  OBVIOUS
<1>3. PICK n : n = NewReference(s, f, C, t, copies, r)
  OBVIOUS
<1>4. n = IF like # {} THEN CopyId(copies, t, CHOOSE x \in like : TRUE) ELSE s.rows[r][f]
  BY <1>2, <1>3 DEF NewReference, IsLike
<1>5. CopiesNumbered(copies, t, Cardinality(copies)) /\ t.nextId \in Nat
  BY <1>1, CopiesAreFinite DEF WellFormed
<1>6. \A x \in copies : CopyId(copies, t, x) \in Nat
  BY <1>5 DEF CopiesNumbered
<1>7. s.rows[r][f] \in Nat
  BY DEF WellFormed
<1>8. CASE like # {}
  <2>1. PICK x \in like : n = CopyId(copies, t, x)
    BY <1>4, <1>8
  <2>2. x \in copies /\ IsLike(x, s, f, C, t, r)
    BY <1>2
  <2>3. RefersOnTo(n, s, f, C, t, r) /\ n \in Nat
    BY <1>1, <1>6, <2>1, <2>2 DEF RefersOnTo
  <2> QED BY <1>1, <1>3, <2>3
<1>9. CASE like = {}
  <2>1. n = s.rows[r][f]
    BY <1>4, <1>9
  <2>2. \A x \in copies : ~IsLike(x, s, f, C, t, r)
    BY <1>2, <1>9
  <2>3. RefersOnTo(n, s, f, C, t, r) /\ n \in Nat
    BY <1>1, <1>7, <2>1, <2>2 DEF RefersOnTo
  <2> QED BY <1>1, <1>3, <2>3
<1> QED BY <1>8, <1>9

\* The column that joins two tables is a key from one to the other.
LEMMA JoinColumnIsAKey ==
    ASSUME NEW s, WellFormed(s), NEW target, JoinColumns(s, target) # {}
    PROVE  /\ JoinColumn(s, target) \in DOMAIN s.fks /\ s.fks[JoinColumn(s, target)] = target
           /\ JoinColumn(s, target) \in ColumnsOf(s)
<1>1. PICK J : J = JoinColumns(s, target)
  OBVIOUS
<1>2. DOMAIN s.fks \subseteq ColumnsOf(s) /\ ColumnsOf(s) \in SUBSET Nat
  BY DEF WellFormed, TableOK, ColumnsOf
<1>3. J \in SUBSET Nat /\ J # {}
  BY <1>1, <1>2 DEF JoinColumns
<1>4. Min(J) \in J
  BY <1>3, SmallestIsThere
<1> QED BY <1>1, <1>2, <1>4 DEF JoinColumn, JoinColumns

\* Table rest is what a move leaves of table s.
MovedAway(rest, s, f, C, t) ==
    /\ WellFormed(rest) /\ DOMAIN rest.rows = DOMAIN s.rows
    /\ DOMAIN s.cols \ C \subseteq DOMAIN rest.cols
    /\ \A a \in DOMAIN s.cols \ C : rest.cols[a] = s.cols[a]
    /\ DOMAIN rest.fks = DOMAIN s.fks \ C /\ \A a \in DOMAIN rest.fks : rest.fks[a] = s.fks[a]
    /\ \A r \in DOMAIN s.rows : /\ rest.rows[r][f] = NewReference(s, f, C, t, Copied(s, f, C, t), r)
                                /\ \A a \in ColumnsOf(s) \ C : a # f => rest.rows[r][a] = s.rows[r][a]

\* Rows of s refer to what they refer to after the move.
Referring(rows, s, f, C, t) ==
    rows = [r \in DOMAIN s.rows |-> [s.rows[r] EXCEPT ![f] = NewReference(s, f, C, t, Copied(s, f, C, t), r)]]

\* What a move leaves of a table.
LEMMA RestOfMove ==
    ASSUME NEW s, WellFormed(s), NEW t, WellFormed(t), NEW C, C \subseteq ColumnsOf(s), NEW f \in ColumnsOf(s), f \notin C,
           NEW rows, Referring(rows, s, f, C, t)
    PROVE  MovedAway(drop_columns([s EXCEPT !.rows = rows], C), s, f, C, t)
<1>1. PICK referring : referring = [s EXCEPT !.rows = rows]
  OBVIOUS
<1>2. PICK rest : rest = drop_columns(referring, C)
  OBVIOUS
<1>3. PICK copies : copies = Copied(s, f, C, t)
  OBVIOUS
<1>4. \A r \in DOMAIN s.rows : NewReference(s, f, C, t, copies, r) \in Nat
  BY <1>3, NewReferenceIs
<1>5. rows = [r \in DOMAIN s.rows |-> [s.rows[r] EXCEPT ![f] = NewReference(s, f, C, t, copies, r)]]
  BY <1>3 DEF Referring
<1>6. ASSUME NEW r \in DOMAIN s.rows
      PROVE  /\ rows[r] \in [ColumnsOf(s) -> Nat] /\ rows[r][f] = NewReference(s, f, C, t, copies, r)
             /\ \A a \in ColumnsOf(s) : a # f => rows[r][a] = s.rows[r][a]
  <2>1. s.rows[r] \in [ColumnsOf(s) -> Nat]
    BY DEF WellFormed
  <2>2. rows[r] = [s.rows[r] EXCEPT ![f] = NewReference(s, f, C, t, copies, r)]
    BY <1>5
  <2> QED BY <2>1, <2>2, <1>4
<1>7. rows \in [DOMAIN s.rows -> [ColumnsOf(s) -> Nat]]
  BY <1>5, <1>6
<1>8. /\ WellFormed(referring) /\ referring.rows = rows /\ referring.cols = s.cols /\ referring.fks = s.fks
      /\ ColumnsOf(referring) = ColumnsOf(s)
  BY <1>1, <1>7, ValuesChanged
<1>9. WellFormed(rest) /\ ColumnsDropped(rest, referring, C)
  <2>1. 1 \notin C
    BY DEF ColumnsOf
  <2> QED BY <1>2, <1>8, <2>1, DropColumnsKeeps, DropColumnsFields
<1>10. /\ rest.cols = [a \in DOMAIN s.cols \ C |-> s.cols[a]]
       /\ rest.fks = [a \in DOMAIN s.fks \ C |-> s.fks[a]]
       /\ rest.rows = [r \in DOMAIN rows |-> [a \in ColumnsOf(s) \ C |-> rows[r][a]]]
  BY <1>8, <1>9 DEF ColumnsDropped
<1>11. /\ DOMAIN rest.rows = DOMAIN s.rows
       /\ \A r \in DOMAIN s.rows : /\ rest.rows[r][f] = NewReference(s, f, C, t, copies, r)
                                   /\ \A a \in ColumnsOf(s) \ C : a # f => rest.rows[r][a] = s.rows[r][a]
  BY <1>6, <1>7, <1>10
<1>12. /\ DOMAIN s.cols \ C \subseteq DOMAIN rest.cols
       /\ \A a \in DOMAIN s.cols \ C : rest.cols[a] = s.cols[a]
       /\ DOMAIN rest.fks = DOMAIN s.fks \ C /\ \A a \in DOMAIN rest.fks : rest.fks[a] = s.fks[a]
  BY <1>10
<1>13. MovedAway(rest, s, f, C, t)
  BY <1>3, <1>9, <1>11, <1>12 DEF MovedAway
<1> QED BY <1>1, <1>2, <1>13

\* Database after is db when columns C of table o have moved to table target.
MovedOver(after, db, o, target, f, C) ==
    /\ DOMAIN after = DOMAIN db /\ \A p \in DOMAIN db \ {o, target} : after[p] = db[p]
    /\ f \in DOMAIN db[o].fks /\ db[o].fks[f] = target /\ f \notin C /\ f \in ColumnsOf(db[o])
    /\ MovedAway(after[o], db[o], f, C, db[target])
    /\ MovedInto(after[target], db[o], f, C, db[target], NewPlaces(C, db[target].next))
    /\ DatabaseOK(after) /\ Keeps(after, db)

\* What a move does.
LEMMA MoveFields ==
    ASSUME NEW db, Consistent(db), NEW o \in DOMAIN db, NEW target \in DOMAIN db, NEW C, CanMove(db, o, target, C)
    PROVE  MovedOver(move_columns_to_referenced_table(db, o, target, C), db, o, target, JoinColumn(db[o], target), C)
<1>1. PICK s : s = db[o]
  OBVIOUS
<1>2. PICK t : t = db[target]
  OBVIOUS
<1>3. PICK f : f = JoinColumn(s, target)
  OBVIOUS
<1>4. PICK rows : Referring(rows, s, f, C, t)
  BY DEF Referring
<1>5. PICK rest : rest = drop_columns([s EXCEPT !.rows = rows], C)
  OBVIOUS
<1>6. PICK u : u = Target(s, f, C, t)
  OBVIOUS
<1>7. PICK after : after = [db EXCEPT ![target] = u, ![o] = rest]
  OBVIOUS
<1>8. after = move_columns_to_referenced_table(db, o, target, C)
  BY <1>1, <1>2, <1>3, <1>4, <1>5, <1>6, <1>7 DEF move_columns_to_referenced_table, Referring
<1>9. /\ o # target /\ C \subseteq ColumnsOf(s) /\ JoinColumns(s, target) # {} /\ f \notin C
      /\ \A c \in C : s.cols[c] \notin NamesOf(t)
  BY <1>1, <1>2, <1>3 DEF CanMove
<1>10. WellFormed(s) /\ WellFormed(t) /\ DatabaseOK(db)
  BY <1>1, <1>2 DEF Consistent, DatabaseOK
<1>11. f \in DOMAIN s.fks /\ s.fks[f] = target /\ f \in ColumnsOf(s)
  BY <1>3, <1>9, <1>10, JoinColumnIsAKey
<1>12. MovedAway(rest, s, f, C, t)
  BY <1>4, <1>5, <1>9, <1>10, <1>11, RestOfMove
<1>13. MovedInto(u, s, f, C, t, NewPlaces(C, t.next))
  BY <1>6, <1>9, <1>10, TargetFields
<1>14. WellFormed(rest) /\ WellFormed(u) /\ DOMAIN rest.rows = DOMAIN s.rows /\ DOMAIN t.rows \subseteq DOMAIN u.rows
  BY <1>12, <1>13 DEF MovedAway, MovedInto
<1>15. PICK mid : mid = [db EXCEPT ![target] = u]
  OBVIOUS
<1>16. DOMAIN mid = DOMAIN db /\ mid[target] = u /\ \A p \in DOMAIN db \ {target} : mid[p] = db[p]
  BY <1>10, <1>15 DEF DatabaseOK
<1>17. DatabaseOK(mid)
  BY <1>10, <1>14, <1>15, TableReplaced
<1>18. after = [mid EXCEPT ![o] = rest]
  BY <1>7, <1>15
<1>19. DatabaseOK(after)
  BY <1>14, <1>16, <1>17, <1>18, TableReplaced
<1>20. /\ DOMAIN after = DOMAIN db /\ after[o] = rest /\ after[target] = u
       /\ \A p \in DOMAIN db \ {o, target} : after[p] = db[p]
  BY <1>9, <1>16, <1>17, <1>18 DEF DatabaseOK
<1>21. Keeps(after, db)
  BY <1>1, <1>2, <1>14, <1>20 DEF Keeps, RowsReferredTo
<1>22. MovedOver(after, db, o, target, f, C)
  BY <1>1, <1>2, <1>9, <1>11, <1>12, <1>13, <1>19, <1>20, <1>21 DEF MovedOver
<1> QED BY <1>1, <1>3, <1>8, <1>22

\* A copy is of a row of the target, for values that a row that refers to it holds.
LEMMA CopiesAreOf ==
    ASSUME NEW s, NEW t, NEW C, NEW f, NEW x \in Copied(s, f, C, t)
    PROVE  /\ x[1] \in DOMAIN t.rows
           /\ \E r \in DOMAIN s.rows : x[2] = Part(s, r, C)
BY DEF Copied, Tuples

\* data_modeling.move_columns: references go on to be valid, those to the copies included.
LEMMA MoveKeeps ==
    ASSUME NEW db, Consistent(db), NEW o \in DOMAIN db, NEW target \in DOMAIN db, NEW C, CanMove(db, o, target, C)
    PROVE  Consistent(move_columns_to_referenced_table(db, o, target, C))
<1>1. PICK after : after = move_columns_to_referenced_table(db, o, target, C)
  OBVIOUS
<1>2. PICK s : s = db[o]
  OBVIOUS
<1>3. PICK t : t = db[target]
  OBVIOUS
<1>4. PICK f : f = JoinColumn(s, target)
  OBVIOUS
<1>5. PICK to : to = NewPlaces(C, t.next)
  OBVIOUS
<1>6. PICK rest : rest = after[o]
  OBVIOUS
<1>7. PICK u : u = after[target]
  OBVIOUS
<1>8. PICK copies : copies = Copied(s, f, C, t)
  OBVIOUS
<1>9. MovedOver(after, db, o, target, f, C)
  BY <1>1, <1>2, <1>4, MoveFields
<1>10. /\ DOMAIN after = DOMAIN db /\ \A p \in DOMAIN db \ {o, target} : after[p] = db[p]
       /\ f \in DOMAIN s.fks /\ s.fks[f] = target /\ f \notin C /\ f \in ColumnsOf(s)
       /\ MovedAway(rest, s, f, C, t) /\ MovedInto(u, s, f, C, t, to)
       /\ DatabaseOK(after) /\ Keeps(after, db)
  BY <1>2, <1>3, <1>5, <1>6, <1>7, <1>9 DEF MovedOver
<1>11. /\ WellFormed(s) /\ WellFormed(t) /\ Refers(s, db) /\ Refers(t, db)
  BY <1>2, <1>3 DEF Consistent, DatabaseOK
<1>12. C \subseteq ColumnsOf(s) /\ DOMAIN s.fks \subseteq ColumnsOf(s) /\ DOMAIN t.fks \subseteq ColumnsOf(t)
  BY <1>2, <1>11 DEF CanMove, WellFormed, TableOK
<1>13. Refers(s, after) /\ Refers(t, after)
  BY <1>10, <1>11, StillRefers
<1>14. DOMAIN u.rows = DOMAIN t.rows \cup {CopyId(copies, t, x) : x \in copies}
  BY <1>8, <1>10 DEF MovedInto
<1>15. RowsReferredTo(after, target) = DOMAIN u.rows
  BY <1>7, <1>10 DEF RowsReferredTo
<1>16. Refers(rest, after)
  <2>1. ASSUME NEW a \in DOMAIN rest.fks, NEW r \in DOMAIN rest.rows
        PROVE  rest.rows[r][a] \in {NULL} \cup RowsReferredTo(after, rest.fks[a])
    <3>1. r \in DOMAIN s.rows /\ a \in DOMAIN s.fks \ C /\ rest.fks[a] = s.fks[a]
      BY <1>10 DEF MovedAway
    <3>2. CASE a # f
      <4>1. a \in ColumnsOf(s) \ C
        BY <1>12, <3>1
      <4>2. rest.rows[r][a] = s.rows[r][a]
        BY <1>10, <3>1, <3>2, <4>1 DEF MovedAway
      <4> QED BY <1>13, <3>1, <4>2 DEF Refers
    <3>3. CASE a = f
      <4>1. PICK n : n = NewReference(s, f, C, t, copies, r)
        OBVIOUS
      <4>2. rest.rows[r][f] = n
        BY <1>8, <1>10, <3>1, <4>1 DEF MovedAway
      <4>3. RefersOnTo(n, s, f, C, t, r)
        BY <1>8, <1>10, <1>11, <1>12, <3>1, <4>1, NewReferenceIs
      <4>4. n = s.rows[r][f] \/ n \in {CopyId(copies, t, x) : x \in copies}
        BY <1>8, <4>3 DEF RefersOnTo
      <4>5. s.rows[r][f] \in {NULL} \cup RowsReferredTo(after, s.fks[f])
        BY <1>13, <1>10, <3>1 DEF Refers
      <4> QED BY <1>10, <1>14, <1>15, <3>1, <3>3, <4>2, <4>4, <4>5
    <3> QED BY <3>2, <3>3
  <2> QED BY <2>1 DEF Refers
<1>17. Refers(u, after)
  <2>1. ASSUME NEW a \in DOMAIN t.fks, u.fks[a] = t.fks[a], NEW id \in DOMAIN u.rows
        PROVE  u.rows[id][a] \in {NULL} \cup RowsReferredTo(after, u.fks[a])
    <3>1. \E k \in DOMAIN t.rows : u.rows[id][a] = t.rows[k][a]
      <4>1. CASE id \in DOMAIN t.rows
        BY <1>10, <1>12, <4>1 DEF MovedInto
      <4>2. ASSUME NEW x \in copies, id = CopyId(copies, t, x) PROVE \E k \in DOMAIN t.rows : u.rows[id][a] = t.rows[k][a]
        <5>1. u.rows[id][a] = t.rows[x[1]][a]
          BY <1>8, <1>10, <1>12, <4>2 DEF MovedInto
        <5>2. x[1] \in DOMAIN t.rows
          BY <1>8, CopiesAreOf
        <5> QED BY <5>1, <5>2
      <4> QED BY <1>14, <4>1, <4>2
    <3> QED BY <1>13, <2>1, <3>1 DEF Refers
  <2>2. ASSUME NEW c \in C \cap DOMAIN s.fks, NEW a, a = to[c], u.fks[a] = s.fks[c], NEW id \in DOMAIN u.rows
        PROVE  u.rows[id][a] \in {NULL} \cup RowsReferredTo(after, u.fks[a])
    <3>1. u.rows[id][a] = NULL \/ \E r \in DOMAIN s.rows : u.rows[id][a] = s.rows[r][c]
      <4>1. CASE id \in DOMAIN t.rows
        <5>1. u.rows[id][a] = FirstMoved(s, f, C, id)[c]
          BY <1>10, <2>2, <4>1 DEF MovedInto
        <5>2. \/ FirstMoved(s, f, C, id) = [d \in C |-> NULL]
              \/ \E r \in DOMAIN s.rows : FirstMoved(s, f, C, id) = Part(s, r, C)
          BY <1>11, <1>12, FirstMovedIsThere
        <5> QED BY <5>1, <5>2 DEF Part
      <4>2. ASSUME NEW x \in copies, id = CopyId(copies, t, x) PROVE \E r \in DOMAIN s.rows : u.rows[id][a] = s.rows[r][c]
        <5>1. u.rows[id][a] = x[2][c]
          BY <1>8, <1>10, <2>2, <4>2 DEF MovedInto
        <5>2. \E r \in DOMAIN s.rows : x[2] = Part(s, r, C)
          BY <1>8, CopiesAreOf
        <5> QED BY <5>1, <5>2 DEF Part
      <4> QED BY <1>14, <4>1, <4>2
    <3> QED BY <1>13, <2>2, <3>1 DEF Refers
  <2>3. \A a \in DOMAIN u.fks : \/ a \in DOMAIN t.fks /\ u.fks[a] = t.fks[a]
                                \/ \E c \in C \cap DOMAIN s.fks : a = to[c] /\ u.fks[a] = s.fks[c]
    BY <1>10 DEF MovedInto
  <2> QED BY <2>1, <2>2, <2>3 DEF Refers
<1>18. \A p \in DOMAIN db \ {o, target} : Refers(after[p], after)
  BY <1>10, StillRefers DEF Consistent
<1>19. \A p \in DOMAIN after : Refers(after[p], after)
  BY <1>6, <1>7, <1>10, <1>16, <1>17, <1>18
<1> QED BY <1>1, <1>10, <1>19 DEF Consistent

\* What holds of a row and the row it refers to, when values are kept.
LEMMA MoveKeepsWhatRowsHeld ==
    ASSUME NEW db, Consistent(db), NEW o \in DOMAIN db, NEW target \in DOMAIN db, NEW C, CanMove(db, o, target, C),
           NEW f, f = JoinColumn(db[o], target), NEW r \in DOMAIN db[o].rows,
           NEW after, after = move_columns_to_referenced_table(db, o, target, C),
           db[o].rows[r][f] # NULL, NULL \notin Range(Part(db[o], r, C))
    PROVE  /\ \A c \in C : ValueBehind(after, o, r, f, db[o].cols[c]) = db[o].rows[r][c]
           /\ \A a \in ColumnsOf(db[target]) :
                ValueBehind(after, o, r, f, db[target].cols[a]) = db[target].rows[db[o].rows[r][f]][a]
<1>1. after = move_columns_to_referenced_table(db, o, target, C)
  OBVIOUS
<1>2. PICK s : s = db[o]
  OBVIOUS
<1>3. PICK t : t = db[target]
  OBVIOUS
<1>5. PICK to : to = NewPlaces(C, t.next)
  OBVIOUS
<1>6. PICK rest : rest = after[o]
  OBVIOUS
<1>7. PICK u : u = after[target]
  OBVIOUS
<1>8. PICK copies : copies = Copied(s, f, C, t)
  OBVIOUS
<1>9. PICK old : old = s.rows[r][f]
  OBVIOUS
<1>10. PICK v : v = Part(s, r, C)
  OBVIOUS
<1>11. PICK n : n = NewReference(s, f, C, t, copies, r)
  OBVIOUS
<1>12. MovedOver(after, db, o, target, f, C)
  BY <1>1, MoveFields
<1>13. /\ f \in DOMAIN s.fks /\ s.fks[f] = target /\ f \notin C /\ f \in ColumnsOf(s)
       /\ MovedAway(rest, s, f, C, t) /\ MovedInto(u, s, f, C, t, to)
  BY <1>2, <1>3, <1>5, <1>6, <1>7, <1>12 DEF MovedOver
<1>14. /\ WellFormed(s) /\ WellFormed(t) /\ Refers(s, db) /\ C \subseteq ColumnsOf(s) /\ r \in DOMAIN s.rows
  BY <1>2, <1>3 DEF Consistent, DatabaseOK, CanMove
<1>15. old \in DOMAIN t.rows /\ old # NULL /\ NULL \notin Range(v)
  BY <1>2, <1>3, <1>9, <1>10, <1>13, <1>14 DEF Refers, RowsReferredTo
<1>16. rest.rows[r][f] = n /\ rest.fks[f] = target
  BY <1>8, <1>11, <1>13, <1>14 DEF MovedAway
<1>17. RefersOnTo(n, s, f, C, t, r)
  BY <1>8, <1>11, <1>13, <1>14, NewReferenceIs
<1>18. /\ \A c \in C : u.rows[n][to[c]] = v[c]
       /\ \A a \in ColumnsOf(t) : u.rows[n][a] = t.rows[old][a]
  <2>1. ASSUME NEW x \in copies, n = CopyId(copies, t, x), IsLike(x, s, f, C, t, r)
        PROVE  /\ \A c \in C : u.rows[n][to[c]] = v[c]
               /\ \A a \in ColumnsOf(t) : u.rows[n][a] = t.rows[old][a]
    <3>1. /\ \A a \in ColumnsOf(t) : u.rows[n][a] = t.rows[x[1]][a]
          /\ \A c \in C : u.rows[n][to[c]] = x[2][c]
      BY <1>8, <1>13, <2>1 DEF MovedInto
    <3>2. x[2] = v /\ OthersOf(t, x[1]) = OthersOf(t, old)
      BY <1>9, <1>10, <2>1 DEF IsLike
    <3>3. \A a \in ColumnsOf(t) : OthersOf(t, x[1])[a] = t.rows[x[1]][a] /\ OthersOf(t, old)[a] = t.rows[old][a]
      BY DEF OthersOf, Part
    <3> QED BY <3>1, <3>2, <3>3
  <2>2. ASSUME n = old, \A x \in copies : ~IsLike(x, s, f, C, t, r)
        PROVE  /\ \A c \in C : u.rows[n][to[c]] = v[c]
               /\ \A a \in ColumnsOf(t) : u.rows[n][a] = t.rows[old][a]
    <3>1. PICK M : M = Moved(s, f, C, old)
      OBVIOUS
    <3>2. v \in M
      BY <1>9, <1>10, <1>14, <3>1 DEF Moved
    <3>3. Numbered(M)
      BY <1>14, <3>1, MovedIsNumbered
    <3>4. <<old, v>> \notin copies
      <4>1. IsLike(<<old, v>>, s, f, C, t, r)
        BY <1>9, <1>10, <1>15 DEF IsLike
      <4> QED BY <2>2, <4>1
    <3>5. v \in Tuples(s, C)
      BY <1>10, <1>14 DEF Tuples
    <3>6. ~(Place(v, M) > 1)
      BY <1>8, <1>15, <3>1, <3>2, <3>4, <3>5 DEF Copied
    <3>7. Place(v, M) \in 1 .. Cardinality(M) /\ At(Place(v, M), M) = v
      BY <3>2, <3>3 DEF Numbered
    <3>8. Place(v, M) = 1
      BY <3>6, <3>7
    <3>9. FirstMoved(s, f, C, old) = v
      BY <3>1, <3>2, <3>7, <3>8 DEF FirstMoved
    <3> QED BY <1>13, <1>15, <2>2, <3>9 DEF MovedInto
  <2> QED BY <1>8, <1>9, <1>17, <2>1, <2>2 DEF RefersOnTo
<1>19. IsInjective(u.cols) /\ DOMAIN t.cols \subseteq DOMAIN u.cols
  BY <1>13 DEF MovedInto, WellFormed, TableOK
<1>20. \A name : ValueBehind(after, o, r, f, name) = u.rows[n][ColumnNamed(u, name)]
  BY <1>6, <1>7, <1>16 DEF ValueBehind
<1>21. ASSUME NEW c \in C PROVE ValueBehind(after, o, r, f, s.cols[c]) = s.rows[r][c]
  <2>1. to[c] \in DOMAIN u.cols /\ u.cols[to[c]] = s.cols[c]
    BY <1>13 DEF MovedInto, ColumnsOf
  <2>2. \A a \in DOMAIN u.cols : u.cols[a] = s.cols[c] => a = to[c]
    BY <1>19, <2>1 DEF IsInjective
  <2>3. ColumnNamed(u, s.cols[c]) = to[c]
    BY <2>1, <2>2 DEF ColumnNamed
  <2>4. v[c] = s.rows[r][c]
    BY <1>10 DEF Part
  <2> QED BY <1>18, <1>20, <2>3, <2>4
<1>22. ASSUME NEW a \in ColumnsOf(t) PROVE ValueBehind(after, o, r, f, t.cols[a]) = t.rows[old][a]
  <2>1. a \in DOMAIN u.cols /\ u.cols[a] = t.cols[a]
    BY <1>13 DEF MovedInto, ColumnsOf
  <2>2. \A b \in DOMAIN u.cols : u.cols[b] = t.cols[a] => b = a
    BY <1>19, <2>1 DEF IsInjective
  <2>3. ColumnNamed(u, t.cols[a]) = a
    BY <2>1, <2>2 DEF ColumnNamed
  <2> QED BY <1>18, <1>20, <2>3
<1> QED BY <1>1, <1>2, <1>3, <1>9, <1>21, <1>22

-----------------------------------------------------------------------------
(***************************************************************************)
(* Views that read what goes.                                              *)
(***************************************************************************)

\* The views that read one of these columns, and those that read one of these views.
Reading(reads, columns) == {v \in DOMAIN reads : reads[v] \cap columns # {}}
ReadingThese(reads, V) == {v \in DOMAIN reads : \E x \in reads[v] : x[1] \in V}

\* The first n stages of what reads these columns.
Stages(f, reads, columns, n) == f = [k \in 0 .. n |->
    IF k = 0 THEN Reading(reads, columns) ELSE f[k - 1] \cup ReadingThese(reads, f[k - 1])]

\* The stages exist.
LEMMA StagesExist ==
    ASSUME NEW n \in Nat, NEW reads, NEW columns
    PROVE  \E f : Stages(f, reads, columns, n)
<1> DEFINE S == {m \in 0 .. n : ~\E f : Stages(f, reads, columns, m)}
<1> SUFFICES ASSUME S # {} PROVE FALSE
  OBVIOUS
<1>1. PICK m \in S : \A x \in S : m <= x
  <2> HIDE DEF S
  <2>1. S \in SUBSET Nat
    BY DEF S
  <2> QED BY <2>1, SmallestIsThere
<1>2. m # 0
  <2>1. Stages([k \in 0 .. 0 |-> Reading(reads, columns)], reads, columns, 0)
    BY DEF Stages
  <2> QED BY <1>1, <2>1
<1>3. m - 1 \in 0 .. n /\ m - 1 \notin S
  BY <1>1, <1>2
<1>4. PICK f : Stages(f, reads, columns, m - 1)
  BY <1>3
<1>5. f = [k \in 0 .. m - 1 |->
             IF k = 0 THEN Reading(reads, columns) ELSE f[k - 1] \cup ReadingThese(reads, f[k - 1])]
  BY <1>4 DEF Stages
<1> PICK g : g = [k \in 0 .. m |-> IF k = m THEN f[m - 1] \cup ReadingThese(reads, f[m - 1]) ELSE f[k]]
  OBVIOUS
<1>6. ASSUME NEW k \in 0 .. m
      PROVE  g[k] = IF k = 0 THEN Reading(reads, columns) ELSE g[k - 1] \cup ReadingThese(reads, g[k - 1])
  <2> m \in Nat
    BY <1>1
  <2>1. CASE k = m
    <3>1. m - 1 \in 0 .. m /\ m - 1 # m
      BY <1>2
    <3>2. g[m - 1] = f[m - 1] /\ g[m] = f[m - 1] \cup ReadingThese(reads, f[m - 1])
      BY <3>1
    <3> QED BY <2>1, <3>2, <1>2
  <2>2. CASE k # m
    <3>1. k \in 0 .. m - 1 /\ g[k] = f[k]
      BY <2>2, <1>1
    <3>2. k # 0 => k - 1 \in 0 .. m /\ k - 1 # m
      BY <3>1
    <3>3. k # 0 => g[k - 1] = f[k - 1]
      BY <3>2
    <3> QED BY <3>1, <3>3, <1>5
  <2> QED BY <2>1, <2>2
<1>7. Stages(g, reads, columns, m)
  BY <1>6 DEF Stages
<1> QED BY <1>1, <1>7

\* What reads these columns is closed: it holds the views that read them, and those
\* that read a view of it.
Closed(V, reads, columns) == Reading(reads, columns) \subseteq V /\ ReadingThese(reads, V) \subseteq V

\* ViewsOf has found every view when it stops, as many stages on as there are views.
LEMMA ViewsOfIsClosed ==
    ASSUME NEW reads, IsFiniteSet(DOMAIN reads), NEW columns
    PROVE  /\ Closed(ViewsOf(reads, columns), reads, columns)
           /\ ViewsOf(reads, columns) \subseteq DOMAIN reads
<1> DEFINE N == Cardinality(DOMAIN reads)
<1>1. N \in Nat
  BY FS_CardinalityType
<1>2. \E f : Stages(f, reads, columns, N)
  <2> HIDE DEF N
  <2> QED BY <1>1, StagesExist
<1>3. PICK f : Stages(f, reads, columns, N) /\ ViewsOf(reads, columns) = f[N]
  BY <1>2 DEF Stages, ViewsOf, Reading, ReadingThese
<1> HIDE DEF N
<1>4. f = [k \in 0 .. N |-> IF k = 0 THEN Reading(reads, columns) ELSE f[k - 1] \cup ReadingThese(reads, f[k - 1])]
  BY <1>3 DEF Stages
<1> DEFINE Good(k) == /\ Reading(reads, columns) \subseteq f[k] /\ f[k] \subseteq DOMAIN reads
                      /\ ReadingThese(reads, f[k]) \subseteq f[k] \/ Cardinality(f[k]) > k
           S == {k \in 0 .. N : ~Good(k)}
<1>5. S = {}
  <2> SUFFICES ASSUME S # {} PROVE FALSE
    OBVIOUS
  <2>1. PICK m \in S : \A x \in S : m <= x
    <3>1. S \in SUBSET Nat
      OBVIOUS
    <3> HIDE DEF S
    <3> QED BY <3>1, SmallestIsThere
  <2>2. Good(0)
    <3>1. f[0] = Reading(reads, columns) /\ f[0] \in SUBSET DOMAIN reads
      BY <1>1, <1>4 DEF Reading
    <3>2. CASE f[0] = {}
      BY <3>1, <3>2 DEF ReadingThese
    <3>3. CASE f[0] # {}
      <4>1. IsFiniteSet(f[0]) /\ Cardinality(f[0]) \in Nat /\ Cardinality(f[0]) # 0
        BY <3>1, <3>3, FS_Subset, FS_CardinalityType, FS_EmptySet
      <4> QED BY <3>1, <4>1
    <3> QED BY <3>2, <3>3
  <2>3. m # 0 /\ m \in 1 .. N
    BY <1>1, <2>1, <2>2
  <2>4. m - 1 \in 0 .. N /\ m - 1 \notin S
    BY <1>1, <2>1, <2>3
  <2>5. Good(m - 1)
    BY <2>4
  <2>6. f[m] = f[m - 1] \cup ReadingThese(reads, f[m - 1])
    BY <1>4, <2>3
  <2>7. f[m] \in SUBSET DOMAIN reads /\ Reading(reads, columns) \subseteq f[m]
    BY <2>5, <2>6 DEF ReadingThese
  <2>8. CASE ReadingThese(reads, f[m - 1]) \subseteq f[m - 1]
    <3>1. f[m] = f[m - 1]
      BY <2>6, <2>8
    <3> QED BY <2>1, <2>7, <2>8, <3>1
  <2>9. CASE ~(ReadingThese(reads, f[m - 1]) \subseteq f[m - 1])
    <3> PICK old : old = f[m - 1]
      OBVIOUS
    <3>1. IsFiniteSet(f[m]) /\ Cardinality(f[m]) \in Nat
      BY <2>7, FS_Subset, FS_CardinalityType
    <3>2. old \in SUBSET f[m] /\ old # f[m]
      BY <2>6, <2>9
    <3>3. IsFiniteSet(old) /\ Cardinality(old) \in Nat /\ Cardinality(old) < Cardinality(f[m])
      BY <3>1, <3>2, FS_Subset, FS_CardinalityType
    <3>4. Cardinality(old) > m - 1
      BY <2>5, <2>9
    <3> QED BY <2>1, <2>3, <2>7, <3>1, <3>3, <3>4
  <2> QED BY <2>8, <2>9
<1>6. Good(N)
  BY <1>1, <1>5
<1>7. f[N] \in SUBSET DOMAIN reads /\ Cardinality(f[N]) <= N
  BY <1>6, FS_Subset DEF N
<1>8. Cardinality(f[N]) \in Nat
  BY <1>7, FS_Subset, FS_CardinalityType
<1> QED BY <1>1, <1>3, <1>6, <1>7, <1>8 DEF Closed

\* Views as a database has them: their oids are no table's, and they read columns there are.
ViewsOK(reads, db) ==
    /\ IsFiniteSet(DOMAIN reads) /\ reads = [v \in DOMAIN reads |-> reads[v]]
    /\ DOMAIN reads \subseteq Int \ Nat
    /\ \A v \in DOMAIN reads : reads[v] \subseteq Int \X Int
    /\ ViewsRead(db, reads)

\* A method on a database leaves it the tables it had, with all their columns but C of table o.
Leaves(after, db, o, C) ==
    /\ DOMAIN db \subseteq DOMAIN after /\ DOMAIN after \subseteq Nat
    /\ \A p \in DOMAIN db : \A a \in DOMAIN db[p].cols : (p = o /\ a \in C) \/ a \in DOMAIN after[p].cols

\* A method that takes no column a view reads leaves the views what they read.
LEMMA ViewsStillRead ==
    ASSUME NEW reads, NEW db, ViewsOK(reads, db), NEW o, NEW C, CanDropColumns(reads, o, C),
           NEW after, Leaves(after, db, o, C)
    PROVE  ViewsOK(reads, after)
<1>1. Reading(reads, {<<o, c>> : c \in C}) = {}
  <2>1. Closed(ViewsOf(reads, {<<o, c>> : c \in C}), reads, {<<o, c>> : c \in C})
    BY ViewsOfIsClosed DEF ViewsOK, ViewsRead
  <2> QED BY <2>1 DEF Closed, CanDropColumns
<1>2. ASSUME NEW v \in DOMAIN reads, NEW x \in reads[v]
      PROVE  IF x[1] \in DOMAIN after THEN x[2] \in DOMAIN after[x[1]].cols ELSE x[1] \in DOMAIN reads
  <2>1. x = <<x[1], x[2]>>
    BY DEF ViewsOK, ViewsRead
  <2>2. ~(x[1] = o /\ x[2] \in C)
    <3> SUFFICES ASSUME x[1] = o, x[2] \in C PROVE FALSE
      OBVIOUS
    <3>1. x \in {<<o, c>> : c \in C}
      BY <2>1
    <3> QED BY <1>1, <3>1 DEF Reading
  <2>3. x[1] \in DOMAIN reads => x[1] \notin DOMAIN after
    BY DEF ViewsOK, ViewsRead, Leaves
  <2> QED BY <2>2, <2>3 DEF ViewsOK, ViewsRead, Leaves
<1> QED BY <1>2 DEF ViewsOK, ViewsRead

\* Methods that take no column leave all views what they read.
LEMMA ViewsReadMore ==
    ASSUME NEW reads, NEW db, ViewsOK(reads, db), NEW after, Leaves(after, db, 0, {})
    PROVE  ViewsOK(reads, after)
<1>1. ASSUME NEW v \in DOMAIN reads, NEW x \in reads[v]
      PROVE  IF x[1] \in DOMAIN after THEN x[2] \in DOMAIN after[x[1]].cols ELSE x[1] \in DOMAIN reads
  <2>1. x[1] \in DOMAIN reads => x[1] \notin DOMAIN after
    BY DEF ViewsOK, ViewsRead, Leaves
  <2> QED BY <2>1 DEF ViewsOK, ViewsRead, Leaves
<1> QED BY <1>1 DEF ViewsOK, ViewsRead

\* A view that does not go with a table reads nothing that goes.
LEMMA DropViewsKeeps ==
    ASSUME NEW reads, NEW db, ViewsOK(reads, db), DOMAIN db \subseteq Nat, NEW o \in DOMAIN db,
           NEW after, DOMAIN after = DOMAIN db \ {o},
           \A p \in DOMAIN after : after[p].cols = db[p].cols
    PROVE  ViewsOK(DropViews(db, reads, o), after)
<1> DEFINE gone == ViewsOf(reads, Columns(db, o))
           rest == DOMAIN reads \ gone
<1>1. Closed(gone, reads, Columns(db, o))
  BY ViewsOfIsClosed DEF ViewsOK, ViewsRead
<1> HIDE DEF gone
<1> PICK left : left = DropViews(db, reads, o)
  OBVIOUS
<1>2. left = [v \in rest |-> reads[v]]
  BY DEF DropViews, Without, Restrict, gone
<1>3. IsFiniteSet(rest)
  <2>1. rest \in SUBSET DOMAIN reads
    OBVIOUS
  <2> QED BY <2>1, FS_Subset DEF ViewsOK, ViewsRead
<1>4. ASSUME NEW v \in rest, NEW x \in reads[v]
      PROVE  IF x[1] \in DOMAIN after THEN x[2] \in DOMAIN after[x[1]].cols ELSE x[1] \in rest
  <2>1. x = <<x[1], x[2]>> /\ v \in DOMAIN reads /\ v \notin gone
    BY DEF ViewsOK, ViewsRead
  <2>2. x[1] \notin gone
    BY <1>1, <2>1 DEF Closed, ReadingThese
  <2>3. x[1] # o
    <3> SUFFICES ASSUME x[1] = o PROVE FALSE
      OBVIOUS
    <3>1. x[2] \in DOMAIN db[o].cols
      BY DEF ViewsOK, ViewsRead
    <3>2. x \in Columns(db, o)
      BY <2>1, <3>1 DEF Columns
    <3> QED BY <1>1, <2>1, <3>2 DEF Closed, Reading
  <2> QED BY <2>2, <2>3 DEF ViewsOK, ViewsRead
<1> QED BY <1>2, <1>3, <1>4 DEF ViewsOK, ViewsRead

-----------------------------------------------------------------------------
(***************************************************************************)
(* What is listed before a table or columns are dropped: the rows the      *)
(* listing is made of, what it holds, and that it is what goes.            *)
(***************************************************************************)
\* ViewsOf finds no more than what is closed.
LEMMA ViewsOfIsLeast ==
    ASSUME NEW reads, IsFiniteSet(DOMAIN reads), NEW columns, NEW V, Closed(V, reads, columns)
    PROVE  ViewsOf(reads, columns) \subseteq V
<1> DEFINE N == Cardinality(DOMAIN reads)
<1>1. N \in Nat
  BY FS_CardinalityType
<1>2. \E f : Stages(f, reads, columns, N)
  <2> HIDE DEF N
  <2> QED BY <1>1, StagesExist
<1>3. PICK f : Stages(f, reads, columns, N) /\ ViewsOf(reads, columns) = f[N]
  BY <1>2 DEF Stages, ViewsOf, Reading, ReadingThese
<1> HIDE DEF N
<1>4. f = [k \in 0 .. N |-> IF k = 0 THEN Reading(reads, columns) ELSE f[k - 1] \cup ReadingThese(reads, f[k - 1])]
  BY <1>3 DEF Stages
<1> DEFINE S == {k \in 0 .. N : ~(f[k] \subseteq V)}
<1>5. S = {}
  <2> SUFFICES ASSUME S # {} PROVE FALSE
    OBVIOUS
  <2>1. PICK m \in S : \A x \in S : m <= x
    <3>1. S \in SUBSET Nat
      OBVIOUS
    <3> HIDE DEF S
    <3> QED BY <3>1, SmallestIsThere
  <2>2. m # 0
    BY <1>1, <1>4 DEF Closed
  <2>3. m - 1 \in 0 .. N /\ m - 1 \notin S /\ m \in 0 .. N
    BY <1>1, <2>1, <2>2
  <2>4. f[m] = f[m - 1] \cup ReadingThese(reads, f[m - 1]) /\ f[m - 1] \subseteq V
    BY <1>4, <2>2, <2>3
  <2>5. ReadingThese(reads, f[m - 1]) \subseteq V
    BY <2>4 DEF Closed, ReadingThese
  <2> QED BY <2>1, <2>4, <2>5
<1> QED BY <1>1, <1>3, <1>5

\* What the rows that are listed say: obj depends on ref, or on its column sub.
OwnPrimaryKey(db, obj, ref, sub) ==
    \E o \in DOMAIN db : obj = PrimaryKey(o) /\ ref = Relation(o) /\ sub = 1
OwnUnique(db, obj, ref, sub) ==
    \E o \in DOMAIN db : obj \in Uniques(db, o) /\ ref = Relation(o) /\ sub \in obj[3]
OwnForeignKey(db, obj, ref, sub) ==
    \E o \in DOMAIN db : obj \in ForeignKeys(db, o) /\ ref = Relation(o) /\ sub = obj[3]
KeyToTable(db, obj, ref, sub) ==
    \E o \in DOMAIN db : obj \in ForeignKeys(db, o) /\ ref = Relation(db[o].fks[obj[3]]) /\ sub = 1
KeyToIndex(db, obj, ref) ==
    \E o \in DOMAIN db : obj \in ForeignKeys(db, o) /\ ref = Index(PrimaryKey(db[o].fks[obj[3]]))
ViewReads(reads, obj, ref, sub) ==
    \E v \in DOMAIN reads : \E x \in reads[v] : obj = Relation(v) /\ ref = Relation(x[1]) /\ sub = x[2]

Pairs(db, reads) == _get_typed_dependency_pairs_stmt(db, reads, {})

\* A row of pg_depend is one of these.
LEMMA DependRows ==
    ASSUME NEW db, NEW reads, NEW x \in pg_depend(db, reads)
    PROVE  /\ x = Depends(x.obj, x.ref, x.sub, x.deptype)
           /\ \/ x.ref = Schema \/ x.deptype = "i"
              \/ OwnPrimaryKey(db, x.obj, x.ref, x.sub) \/ OwnUnique(db, x.obj, x.ref, x.sub)
              \/ OwnForeignKey(db, x.obj, x.ref, x.sub) \/ KeyToTable(db, x.obj, x.ref, x.sub)
              \/ KeyToIndex(db, x.obj, x.ref)
              \/ \E v \in DOMAIN reads : \E y \in reads[v] : x = Depends(Rule(v), Relation(y[1]), y[2], "n")
<1> DEFINE ofSchema == {Depends(Relation(r), Schema, 0, "n") : r \in DOMAIN db \cup DOMAIN reads}
           primary == {Depends(PrimaryKey(o), Relation(o), 1, "a") : o \in DOMAIN db}
           indexes == {Depends(Index(k), k, 0, "i") :
                         k \in ConstraintsIn(db) \ UNION {ForeignKeys(db, o) : o \in DOMAIN db}}
           unique == UNION {UNION {{Depends(k, Relation(o), c, "a") : c \in k[3]} : k \in Uniques(db, o)} :
                               o \in DOMAIN db}
           foreign == UNION {UNION {{Depends(k, Relation(o), k[3], "a"), Depends(k, Relation(db[o].fks[k[3]]), 1, "n"),
                                     Depends(k, Index(PrimaryKey(db[o].fks[k[3]])), 0, "n")} :
                                        k \in ForeignKeys(db, o)} : o \in DOMAIN db}
           rules == UNION {{Depends(Rule(v), Relation(y[1]), y[2], "n") : y \in reads[v]} : v \in DOMAIN reads}
           inner == {Depends(Rule(v), Relation(v), 0, "i") : v \in DOMAIN reads}
<1>1. \A obj, ref, sub, type : LET y == Depends(obj, ref, sub, type)
                               IN  y.obj = obj /\ y.ref = ref /\ y.sub = sub /\ y.deptype = type
  BY DEF Depends
<1>2. \/ x \in ofSchema \/ x \in primary \/ x \in indexes \/ x \in unique \/ x \in foreign \/ x \in rules \/ x \in inner
  <2> HIDE DEF ofSchema, primary, indexes, unique, foreign, rules, inner
  <2>1. pg_depend(db, reads) = ofSchema \cup primary \cup indexes \cup unique \cup foreign \cup rules \cup inner
    BY DEF pg_depend, ofSchema, primary, indexes, unique, foreign, rules, inner
  <2> QED BY <2>1
<1>3. CASE x \in ofSchema \/ x \in indexes \/ x \in inner
  BY <1>1, <1>3
<1>4. CASE x \in primary
  BY <1>1, <1>4 DEF OwnPrimaryKey
<1>5. CASE x \in unique
  <2>1. PICK o \in DOMAIN db : \E k \in Uniques(db, o) : \E c \in k[3] : x = Depends(k, Relation(o), c, "a")
    BY <1>5
  <2> QED BY <1>1, <2>1 DEF OwnUnique
<1>6. CASE x \in foreign
  <2>1. PICK o \in DOMAIN db : \E k \in ForeignKeys(db, o) :
          \/ x = Depends(k, Relation(o), k[3], "a") \/ x = Depends(k, Relation(db[o].fks[k[3]]), 1, "n")
          \/ x = Depends(k, Index(PrimaryKey(db[o].fks[k[3]])), 0, "n")
    BY <1>6
  <2>2. PICK k \in ForeignKeys(db, o) :
          \/ x = Depends(k, Relation(o), k[3], "a") \/ x = Depends(k, Relation(db[o].fks[k[3]]), 1, "n")
          \/ x = Depends(k, Index(PrimaryKey(db[o].fks[k[3]])), 0, "n")
    BY <2>1
  <2>3. CASE x = Depends(k, Relation(o), k[3], "a")
    BY <1>1, <2>3 DEF OwnForeignKey
  <2>4. CASE x = Depends(k, Relation(db[o].fks[k[3]]), 1, "n")
    BY <1>1, <2>4 DEF KeyToTable
  <2>5. CASE x = Depends(k, Index(PrimaryKey(db[o].fks[k[3]])), 0, "n")
    BY <1>1, <2>5 DEF KeyToIndex
  <2> QED BY <2>2, <2>3, <2>4, <2>5
<1>7. CASE x \in rules
  BY <1>1, <1>7
<1> QED BY <1>2, <1>3, <1>4, <1>5, <1>6, <1>7

\* Of these kinds the listing takes all but what a schema holds.
LEMMA PairsSay ==
    ASSUME NEW db, NEW reads, NEW d \in Pairs(db, reads), d.ref # Schema
    PROVE  \/ OwnPrimaryKey(db, d.obj, d.ref, d.sub) \/ OwnUnique(db, d.obj, d.ref, d.sub)
           \/ OwnForeignKey(db, d.obj, d.ref, d.sub) \/ KeyToTable(db, d.obj, d.ref, d.sub)
           \/ KeyToIndex(db, d.obj, d.ref) \/ ViewReads(reads, d.obj, d.ref, d.sub)
<1> DEFINE kept == _get_dependency_pairs_stmt(db, reads)
<1>1. \/ d \in kept /\ TypeOf(d.obj, reads) # "rule"
      \/ d \in _get_view_dependents(_get_rule_dependents(kept))
  BY DEF Pairs, _get_typed_dependency_pairs_stmt, _get_constraint_dependents, _get_table_dependents,
         _get_index_dependents
<1>2. \A x \in kept : x \in pg_depend(db, reads) /\ x.deptype # "i"
  BY DEF _get_dependency_pairs_stmt, PG_DEPENDENT_TYPES
<1>3. \A v, r, c : LET y == Depends(Rule(v), r, c, "n") IN y.obj = Rule(v) /\ y.ref = r /\ y.sub = c
  BY DEF Depends
<1>4. \A v : Rule(v)[1] = "rule" /\ Rule(v)[2] = v
  BY DEF Rule
<1>5. CASE d \in kept /\ TypeOf(d.obj, reads) # "rule"
  <2>1. d.obj[1] # "rule"
    BY <1>5 DEF TypeOf
  <2>2. \A v \in DOMAIN reads : \A y \in reads[v] : d # Depends(Rule(v), Relation(y[1]), y[2], "n")
    BY <1>3, <1>4, <2>1
  <2> QED BY <1>2, <1>5, <2>2, DependRows
<1>6. CASE d \in _get_view_dependents(_get_rule_dependents(kept))
  <2>1. PICK x \in kept : x.obj[1] = "rule" /\ d = [x EXCEPT !.obj = Relation(x.obj[2])]
    BY <1>6 DEF _get_view_dependents, _get_rule_dependents
  <2>2. x = Depends(x.obj, x.ref, x.sub, x.deptype)
    BY <1>2, DependRows
  <2>3. d.obj = Relation(x.obj[2]) /\ d.ref = x.ref /\ d.sub = x.sub
    BY <2>1, <2>2 DEF Depends
  <2>4. PICK v \in DOMAIN reads : \E y \in reads[v] : x = Depends(Rule(v), Relation(y[1]), y[2], "n")
    <3>1. \A o : PrimaryKey(o)[1] # "rule"
      BY DEF PrimaryKey
    <3>2. ASSUME NEW o, NEW k \in ForeignKeys(db, o) PROVE k[1] # "rule"
      <4>1. PICK c : k = <<"foreign key", o, c>>
        BY DEF ForeignKeys
      <4> QED BY <4>1
    <3>3. ASSUME NEW o, NEW k \in Uniques(db, o) PROVE k[1] # "rule"
      <4>1. PICK C : k = <<"unique", o, C>>
        BY DEF Uniques
      <4> QED BY <4>1
    <3>4. ~OwnPrimaryKey(db, x.obj, x.ref, x.sub) /\ ~OwnUnique(db, x.obj, x.ref, x.sub)
      BY <2>1, <3>1, <3>3 DEF OwnPrimaryKey, OwnUnique
    <3>5. ~OwnForeignKey(db, x.obj, x.ref, x.sub) /\ ~KeyToTable(db, x.obj, x.ref, x.sub) /\ ~KeyToIndex(db, x.obj, x.ref)
      BY <2>1, <3>2 DEF OwnForeignKey, KeyToTable, KeyToIndex
    <3> QED BY <1>2, <2>3, <3>4, <3>5, DependRows
  <2> QED BY <1>3, <1>4, <2>3, <2>4 DEF ViewReads
<1> QED BY <1>1, <1>5, <1>6

\* The listing takes every row of pg_depend about a constraint, and what a view reads.
LEMMA PairsAreThere ==
    ASSUME NEW db, NEW reads, NEW obj, NEW ref, NEW sub,
           \/ OwnPrimaryKey(db, obj, ref, sub) \/ OwnUnique(db, obj, ref, sub)
           \/ OwnForeignKey(db, obj, ref, sub) \/ KeyToTable(db, obj, ref, sub) \/ ViewReads(reads, obj, ref, sub)
    PROVE  \E d \in Pairs(db, reads) : d.obj = obj /\ d.ref = ref /\ d.sub = sub
<1> DEFINE kept == _get_dependency_pairs_stmt(db, reads)
<1>1. \A a, r, c, type : LET y == Depends(a, r, c, type)
                         IN  y.obj = a /\ y.ref = r /\ y.sub = c /\ y.deptype = type
  BY DEF Depends
<1>2. /\ \A d \in _get_constraint_dependents(kept, reads) : d \in Pairs(db, reads)
      /\ \A d \in _get_view_dependents(_get_rule_dependents(kept)) : d \in Pairs(db, reads)
  <2> DEFINE ofType == [type \in {"table constraint", "table", "view", "index"} |->
                     CASE type = "table constraint" -> _get_constraint_dependents(kept, reads)
                       [] type = "table" -> _get_table_dependents(kept, reads)
                       [] type = "view" -> _get_view_dependents(_get_rule_dependents(kept))
                       [] type = "index" -> _get_index_dependents(kept, reads)]
  <2>1. Pairs(db, reads) = UNION {ofType[type] : type \in DOMAIN ofType \ {}}
    BY DEF Pairs, _get_typed_dependency_pairs_stmt
  <2>2. ofType["table constraint"] = _get_constraint_dependents(kept, reads)
    OBVIOUS
  <2>3. ofType["view"] = _get_view_dependents(_get_rule_dependents(kept))
    OBVIOUS
  <2>4. "table constraint" \in DOMAIN ofType \ {} /\ "view" \in DOMAIN ofType \ {}
    OBVIOUS
  <2> HIDE DEF ofType
  <2> QED BY <2>1, <2>2, <2>3, <2>4
<1>3. ASSUME NEW type \in {"a", "n"}, Depends(obj, ref, sub, type) \in pg_depend(db, reads),
             obj[1] \in {"primary key", "unique", "foreign key"}
      PROVE  \E d \in Pairs(db, reads) : d.obj = obj /\ d.ref = ref /\ d.sub = sub
  <2> PICK x : x = Depends(obj, ref, sub, type)
    OBVIOUS
  <2>0. x.obj = obj /\ x.ref = ref /\ x.sub = sub /\ x.deptype = type
    BY <1>1
  <2>1. x \in kept
    <3>1. x \in pg_depend(db, reads)
      BY <1>3
    <3> QED BY <1>3, <2>0, <3>1 DEF _get_dependency_pairs_stmt, PG_DEPENDENT_TYPES
  <2>2. TypeOf(x.obj, reads) = "table constraint"
    <3>1. obj[1] # "relation" /\ obj[1] \notin {"rule", "index"}
      BY <1>3
    <3> QED BY <2>0, <3>1 DEF TypeOf
  <2>3. x \in _get_constraint_dependents(kept, reads)
    BY <2>1, <2>2 DEF _get_constraint_dependents
  <2> QED BY <2>0, <1>2, <2>3
<1>4. /\ \A o : PrimaryKey(o)[1] = "primary key"
      /\ \A o : \A k \in Uniques(db, o) : k[1] = "unique"
      /\ \A o : \A k \in ForeignKeys(db, o) : k[1] = "foreign key"
  <2>1. ASSUME NEW o, NEW k \in ForeignKeys(db, o) PROVE k[1] = "foreign key"
    <3>1. PICK c : k = <<"foreign key", o, c>>
      BY DEF ForeignKeys
    <3> QED BY <3>1
  <2>2. ASSUME NEW o, NEW k \in Uniques(db, o) PROVE k[1] = "unique"
    <3>1. PICK C : k = <<"unique", o, C>>
      BY DEF Uniques
    <3> QED BY <3>1
  <2> QED BY <2>1, <2>2 DEF PrimaryKey
<1>5. CASE OwnPrimaryKey(db, obj, ref, sub)
  <2>1. Depends(obj, ref, sub, "a") \in pg_depend(db, reads)
    BY <1>5 DEF OwnPrimaryKey, pg_depend
  <2> QED BY <1>3, <1>4, <1>5, <2>1 DEF OwnPrimaryKey
<1>6. CASE OwnUnique(db, obj, ref, sub)
  <2>1. PICK o \in DOMAIN db : obj \in Uniques(db, o) /\ ref = Relation(o) /\ sub \in obj[3]
    BY <1>6 DEF OwnUnique
  <2>2. Depends(obj, ref, sub, "a") \in UNION {{Depends(k, Relation(o), c, "a") : c \in k[3]} : k \in Uniques(db, o)}
    BY <2>1
  <2>3. Depends(obj, ref, sub, "a") \in pg_depend(db, reads)
    BY <2>2 DEF pg_depend
  <2> QED BY <1>3, <1>4, <2>1, <2>3
<1>7. CASE OwnForeignKey(db, obj, ref, sub) \/ KeyToTable(db, obj, ref, sub)
  <2>1. PICK o \in DOMAIN db : /\ obj \in ForeignKeys(db, o)
                               /\ \/ ref = Relation(o) /\ sub = obj[3]
                                  \/ ref = Relation(db[o].fks[obj[3]]) /\ sub = 1
    BY <1>7 DEF OwnForeignKey, KeyToTable
  <2>2. PICK type \in {"a", "n"} :
          Depends(obj, ref, sub, type) \in
             {Depends(obj, Relation(o), obj[3], "a"), Depends(obj, Relation(db[o].fks[obj[3]]), 1, "n"),
              Depends(obj, Index(PrimaryKey(db[o].fks[obj[3]])), 0, "n")}
    BY <2>1
  <2>3. Depends(obj, ref, sub, type) \in
          UNION {{Depends(k, Relation(o), k[3], "a"), Depends(k, Relation(db[o].fks[k[3]]), 1, "n"),
                  Depends(k, Index(PrimaryKey(db[o].fks[k[3]])), 0, "n")} : k \in ForeignKeys(db, o)}
    BY <2>1, <2>2
  <2>4. Depends(obj, ref, sub, type) \in pg_depend(db, reads)
    BY <2>3 DEF pg_depend
  <2> QED BY <1>3, <1>4, <2>1, <2>4
<1>8. CASE ViewReads(reads, obj, ref, sub)
  <2>1. PICK v \in DOMAIN reads : \E y \in reads[v] : obj = Relation(v) /\ ref = Relation(y[1]) /\ sub = y[2]
    BY <1>8 DEF ViewReads
  <2>2. PICK y \in reads[v] : obj = Relation(v) /\ ref = Relation(y[1]) /\ sub = y[2]
    BY <2>1
  <2> PICK x : x = Depends(Rule(v), ref, sub, "n")
    OBVIOUS
  <2>3. x \in pg_depend(db, reads)
    <3>1. x \in {Depends(Rule(v), Relation(z[1]), z[2], "n") : z \in reads[v]}
      BY <2>2
    <3> QED BY <3>1 DEF pg_depend
  <2>4. x \in kept
    BY <1>1, <2>3 DEF _get_dependency_pairs_stmt, PG_DEPENDENT_TYPES
  <2>5. x.obj[1] = "rule" /\ x.obj[2] = v
    BY <1>1 DEF Rule
  <2>6. x \in _get_rule_dependents(kept)
    BY <2>4, <2>5 DEF _get_rule_dependents
  <2> PICK d : d = [x EXCEPT !.obj = Relation(x.obj[2])]
    OBVIOUS
  <2>7. d \in _get_view_dependents(_get_rule_dependents(kept))
    BY <2>6 DEF _get_view_dependents
  <2>8. d.obj = Relation(v) /\ d.ref = ref /\ d.sub = sub
    BY <2>5 DEF Depends
  <2> QED BY <1>2, <2>2, <2>7, <2>8
<1> QED BY <1>5, <1>6, <1>7, <1>8

\* An entry of the listing, those of its first level, and those behind others.
Entry(d, level, chain) == [obj |-> d.obj, ref |-> d.ref, sub |-> d.sub, level |-> level, chain |-> chain]
Anchor(pairs, o, attnum) == {Entry(d, 1, <<Relation(o)>>) :
    d \in {d \in pairs : d.ref = Relation(o) /\ d.obj # Relation(o) /\ attnum \in {0, d.sub}}}
Behind(pairs, level, entries) == UNION {{Entry(d, level, Append(e.chain, e.obj)) :
    d \in {d \in pairs : d.ref = e.obj /\ d.obj \notin Range(e.chain) /\ d.obj # d.ref}} : e \in entries}

\* The first n levels of a listing.
Levels(f, pairs, o, attnum, n) == f = [level \in 1 .. n |->
    IF level = 1 THEN Anchor(pairs, o, attnum) ELSE Behind(pairs, level, f[level - 1])]

\* The levels exist.
LEMMA LevelsExist ==
    ASSUME NEW n \in Nat \ {0}, NEW pairs, NEW o, NEW attnum
    PROVE  \E f : Levels(f, pairs, o, attnum, n)
<1> DEFINE S == {m \in 1 .. n : ~\E f : Levels(f, pairs, o, attnum, m)}
<1> SUFFICES ASSUME S # {} PROVE FALSE
  OBVIOUS
<1>1. PICK m \in S : \A x \in S : m <= x
  <2>1. S \in SUBSET Nat
    OBVIOUS
  <2> HIDE DEF S
  <2> QED BY <2>1, SmallestIsThere
<1>2. m # 1
  <2>1. Levels([k \in 1 .. 1 |-> Anchor(pairs, o, attnum)], pairs, o, attnum, 1)
    BY DEF Levels
  <2> QED BY <1>1, <2>1
<1>3. m - 1 \in 1 .. n /\ m - 1 \notin S /\ m \in Nat
  BY <1>1, <1>2
<1>4. PICK f : Levels(f, pairs, o, attnum, m - 1)
  BY <1>3
<1>5. f = [k \in 1 .. m - 1 |->
             IF k = 1 THEN Anchor(pairs, o, attnum) ELSE Behind(pairs, k, f[k - 1])]
  BY <1>4 DEF Levels
<1> PICK g : g = [k \in 1 .. m |-> IF k = m THEN Behind(pairs, m, f[m - 1]) ELSE f[k]]
  OBVIOUS
<1>6. ASSUME NEW k \in 1 .. m
      PROVE  g[k] = IF k = 1 THEN Anchor(pairs, o, attnum) ELSE Behind(pairs, k, g[k - 1])
  <2>1. CASE k = m
    <3>1. m - 1 \in 1 .. m /\ m - 1 # m
      BY <1>3
    <3>2. g[m - 1] = f[m - 1] /\ g[m] = Behind(pairs, m, f[m - 1])
      BY <3>1
    <3> QED BY <2>1, <3>2, <1>2
  <2>2. CASE k # m
    <3>1. k \in 1 .. m - 1 /\ g[k] = f[k]
      BY <2>2, <1>3
    <3>2. k # 1 => k - 1 \in 1 .. m /\ k - 1 # m
      BY <3>1
    <3>3. k # 1 => g[k - 1] = f[k - 1]
      BY <3>2
    <3> QED BY <3>1, <3>3, <1>5
  <2> QED BY <2>1, <2>2
<1>7. Levels(g, pairs, o, attnum, m)
  BY <1>6 DEF Levels
<1> QED BY <1>1, <1>7

\* A listing is all its levels.
LEMMA ListingHasLevels ==
    ASSUME NEW db, NEW reads, NEW o, NEW attnum
    PROVE  \E f : /\ Levels(f, Pairs(db, reads), o, attnum, MAX_LEVEL)
                  /\ get_dependents_graph(db, reads, o, {}, attnum) = UNION Range(f)
<1>1. \E f : Levels(f, Pairs(db, reads), o, attnum, MAX_LEVEL)
  BY MaxLevelIsPositive, LevelsExist
<1> QED BY <1>1 DEF Levels, get_dependents_graph, Pairs, Anchor, Behind, Entry

\* What the entries of a level are, what is on the way to them, and that nothing on the
\* way is missing from the listing.
EntryOK(e, pairs, o, attnum, level, found) ==
    /\ e.level = level
    /\ e.chain \in Seq({Relation(o)} \cup found) /\ Range(e.chain) \subseteq {Relation(o)} \cup found
    /\ \E d \in pairs : d.obj = e.obj /\ d.ref = e.ref /\ d.sub = e.sub
    /\ level = 1 => e.ref = Relation(o) /\ attnum \in {0, e.sub}
    /\ level # 1 => e.ref \in found

\* Every level is made of such entries.
LEMMA EntriesAre ==
    ASSUME NEW n \in Nat \ {0}, NEW f, NEW pairs, NEW o, NEW attnum, Levels(f, pairs, o, attnum, n)
    PROVE  \A level \in 1 .. n : \A e \in f[level] :
               EntryOK(e, pairs, o, attnum, level, {x.obj : x \in UNION Range(f)})
<1> DEFINE found == {x.obj : x \in UNION Range(f)}
           Good(k) == \A e \in f[k] : EntryOK(e, pairs, o, attnum, k, found)
           S == {k \in 1 .. n : ~Good(k)}
<1>1. /\ DOMAIN f = 1 .. n
      /\ \A k \in 1 .. n : f[k] = IF k = 1 THEN Anchor(pairs, o, attnum) ELSE Behind(pairs, k, f[k - 1])
  BY DEF Levels
<1>2. \A k \in 1 .. n : \A e \in f[k] : e.obj \in found
  BY <1>1 DEF Range
<1> HIDE DEF found
<1>3. \A d, k, c : LET e == Entry(d, k, c)
                   IN  e.obj = d.obj /\ e.ref = d.ref /\ e.sub = d.sub /\ e.level = k /\ e.chain = c
  BY DEF Entry
<1>4. S = {}
  <2> SUFFICES ASSUME S # {} PROVE FALSE
    OBVIOUS
  <2>1. PICK m \in S : \A x \in S : m <= x
    <3>1. S \in SUBSET Nat
      OBVIOUS
    <3> HIDE DEF S
    <3> QED BY <3>1, SmallestIsThere
  <2>2. PICK e \in f[m] : ~EntryOK(e, pairs, o, attnum, m, found)
    BY <2>1
  <2>3. CASE m = 1
    <3>1. e \in Anchor(pairs, o, attnum)
      BY <1>1, <2>1, <2>2, <2>3
    <3>2. PICK d \in pairs : /\ d.ref = Relation(o) /\ attnum \in {0, d.sub}
                             /\ e = Entry(d, 1, <<Relation(o)>>)
      BY <3>1 DEF Anchor
    <3>3. <<Relation(o)>> \in Seq({Relation(o)} \cup found) /\ Range(<<Relation(o)>>) \subseteq {Relation(o)} \cup found
      BY DEF Range
    <3>4. /\ e.obj = d.obj /\ e.ref = d.ref /\ e.sub = d.sub /\ e.level = m
          /\ e.chain = <<Relation(o)>>
      BY <1>3, <2>3, <3>2
    <3>5. \E x \in pairs : x.obj = e.obj /\ x.ref = e.ref /\ x.sub = e.sub
      BY <3>4
    <3>6. EntryOK(e, pairs, o, attnum, m, found)
      BY <2>3, <3>2, <3>3, <3>4, <3>5 DEF EntryOK
    <3> QED BY <2>2, <3>6
  <2>4. CASE m # 1
    <3>1. m - 1 \in 1 .. n /\ m - 1 \notin S /\ m \in 1 .. n
      BY <2>1, <2>4
    <3>2. e \in Behind(pairs, m, f[m - 1])
      BY <1>1, <2>2, <2>4, <3>1
    <3>3. PICK b \in f[m - 1] : \E d \in pairs : d.ref = b.obj /\ e = Entry(d, m, Append(b.chain, b.obj))
      BY <3>2 DEF Behind
    <3>4. PICK d \in pairs : d.ref = b.obj /\ e = Entry(d, m, Append(b.chain, b.obj))
      BY <3>3
    <3>5. EntryOK(b, pairs, o, attnum, m - 1, found) /\ b.obj \in found
      BY <1>2, <3>1
    <3> DEFINE A == {Relation(o)} \cup found
    <3>6. b.chain \in Seq(A) /\ b.obj \in A /\ Range(b.chain) \subseteq A
      BY <3>5 DEF EntryOK
    <3>7. Append(b.chain, b.obj) \in Seq(A) /\ Range(Append(b.chain, b.obj)) \subseteq A
      <4> HIDE DEF A
      <4>1. Append(b.chain, b.obj) \in Seq(A)
        BY <3>6, AppendProperties
      <4>2. \A i \in DOMAIN Append(b.chain, b.obj) : Append(b.chain, b.obj)[i] \in A
        BY <4>1
      <4> QED BY <4>1, <4>2 DEF Range
    <3>8. /\ e.obj = d.obj /\ e.ref = d.ref /\ e.sub = d.sub /\ e.level = m
          /\ e.chain = Append(b.chain, b.obj)
      <4> PICK c : c = Append(b.chain, b.obj)
        OBVIOUS
      <4>1. e = Entry(d, m, c)
        BY <3>4
      <4> QED BY <4>1 DEF Entry
    <3>9. \E x \in pairs : x.obj = e.obj /\ x.ref = e.ref /\ x.sub = e.sub
      BY <3>8
    <3>10. e.chain \in Seq(A) /\ Range(e.chain) \subseteq A /\ e.ref \in found
      BY <3>4, <3>5, <3>7, <3>8
    <3>11. EntryOK(e, pairs, o, attnum, m, found)
      BY <2>4, <3>8, <3>9, <3>10 DEF EntryOK
    <3> QED BY <2>2, <3>11
  <2> QED BY <2>3, <2>4
<1> QED BY <1>4 DEF found

\* A set that holds the dependents of an object, and those of its members, holds all
\* that is listed.
LEMMA ListedIsLeast ==
    ASSUME NEW db, NEW reads, NEW o, NEW attnum, NEW G,
           \A d \in Pairs(db, reads) : d.ref = Relation(o) /\ attnum \in {0, d.sub} => d.obj \in G,
           \A d \in Pairs(db, reads) : d.ref \in G => d.obj \in G
    PROVE  Listed(db, reads, o, attnum) \subseteq G
<1> PICK pairs : pairs = Pairs(db, reads)
  OBVIOUS
<1>1. PICK f : /\ Levels(f, pairs, o, attnum, MAX_LEVEL)
               /\ get_dependents_graph(db, reads, o, {}, attnum) = UNION Range(f)
  BY ListingHasLevels
<1>2. /\ DOMAIN f = 1 .. MAX_LEVEL
      /\ \A k \in 1 .. MAX_LEVEL : f[k] = IF k = 1 THEN Anchor(pairs, o, attnum) ELSE Behind(pairs, k, f[k - 1])
  BY <1>1 DEF Levels
<1> DEFINE S == {k \in 1 .. MAX_LEVEL : \E e \in f[k] : e.obj \notin G}
<1>3. S = {}
  <2> SUFFICES ASSUME S # {} PROVE FALSE
    OBVIOUS
  <2>1. PICK m \in S : \A x \in S : m <= x
    <3>1. S \in SUBSET Nat
      OBVIOUS
    <3> HIDE DEF S
    <3> QED BY <3>1, SmallestIsThere
  <2>2. PICK e \in f[m] : e.obj \notin G
    BY <2>1
  <2>3. CASE m = 1
    <3>1. e \in Anchor(pairs, o, attnum)
      BY <1>2, <2>1, <2>2, <2>3
    <3>2. PICK d \in pairs : d.ref = Relation(o) /\ attnum \in {0, d.sub} /\ e = Entry(d, 1, <<Relation(o)>>)
      BY <3>1 DEF Anchor
    <3>3. e.obj = d.obj
      BY <3>2 DEF Entry
    <3> QED BY <2>2, <3>2, <3>3
  <2>4. CASE m # 1
    <3>1. m - 1 \in 1 .. MAX_LEVEL /\ m - 1 \notin S /\ m \in 1 .. MAX_LEVEL
      BY <2>1, <2>4, MaxLevelIsPositive
    <3>2. e \in Behind(pairs, m, f[m - 1])
      BY <1>2, <2>2, <2>4, <3>1
    <3>3. PICK b \in f[m - 1] : \E d \in pairs : d.ref = b.obj /\ e = Entry(d, m, Append(b.chain, b.obj))
      BY <3>2 DEF Behind
    <3>4. PICK d \in pairs : d.ref = b.obj /\ e = Entry(d, m, Append(b.chain, b.obj))
      BY <3>3
    <3>5. e.obj = d.obj
      BY <3>4 DEF Entry
    <3>6. b.obj \in G
      BY <3>1
    <3> QED BY <2>2, <3>4, <3>5, <3>6
  <2> QED BY <2>3, <2>4
<1>4. ASSUME NEW e \in UNION Range(f) PROVE e.obj \in G
  BY <1>2, <1>3 DEF Range
<1> QED BY <1>1, <1>4 DEF Listed

\* The dependents of an object are listed at once; those of what is listed too, unless
\* the listing was cut off.
LEMMA ListedIsClosed ==
    ASSUME NEW db, NEW reads, NEW o, NEW attnum, NEW d \in Pairs(db, reads)
    PROVE  /\ (d.ref = Relation(o) /\ attnum \in {0, d.sub}) =>
                  d.obj \in Listed(db, reads, o, attnum) \cup {Relation(o)}
           /\ (d.ref \in Listed(db, reads, o, attnum) /\ ~IsCutOff(db, reads, o, attnum)) =>
                  d.obj \in Listed(db, reads, o, attnum) \cup {Relation(o)}
<1> PICK pairs : pairs = Pairs(db, reads)
  OBVIOUS
<1>1. PICK f : /\ Levels(f, pairs, o, attnum, MAX_LEVEL)
               /\ get_dependents_graph(db, reads, o, {}, attnum) = UNION Range(f)
  BY ListingHasLevels
<1>2. /\ DOMAIN f = 1 .. MAX_LEVEL
      /\ \A k \in 1 .. MAX_LEVEL : f[k] = IF k = 1 THEN Anchor(pairs, o, attnum) ELSE Behind(pairs, k, f[k - 1])
  BY <1>1 DEF Levels
<1> DEFINE found == {x.obj : x \in UNION Range(f)}
<1>3. Listed(db, reads, o, attnum) = found
  BY <1>1 DEF Listed
<1>4. \A k \in 1 .. MAX_LEVEL : \A e \in f[k] : e.obj \in found
  BY <1>2 DEF Range
<1>5. \A k \in 1 .. MAX_LEVEL : \A e \in f[k] : EntryOK(e, pairs, o, attnum, k, found)
  BY <1>1, EntriesAre, MaxLevelIsPositive
<1>6. ASSUME d.ref = Relation(o), attnum \in {0, d.sub}, d.obj # Relation(o)
      PROVE  d.obj \in found
  <2>1. Entry(d, 1, <<Relation(o)>>) \in Anchor(pairs, o, attnum)
    BY <1>6 DEF Anchor
  <2>2. Entry(d, 1, <<Relation(o)>>) \in f[1]
    BY <1>2, <2>1, MaxLevelIsPositive
  <2>3. Entry(d, 1, <<Relation(o)>>).obj = d.obj
    BY DEF Entry
  <2> HIDE DEF found
  <2> QED BY <1>4, <2>2, <2>3, MaxLevelIsPositive
<1>7. ASSUME d.ref \in found, ~IsCutOff(db, reads, o, attnum), d.obj # Relation(o)
      PROVE  d.obj \in found
  <2>1. PICK e \in UNION Range(f) : e.obj = d.ref
    BY <1>7
  <2>2. PICK k \in 1 .. MAX_LEVEL : e \in f[k]
    BY <1>2, <2>1 DEF Range
  <2> HIDE DEF found
  <2>3. EntryOK(e, pairs, o, attnum, k, found)
    BY <1>5, <2>2
  <2>4. k # MAX_LEVEL
    BY <1>1, <1>7, <2>1, <2>3 DEF IsCutOff, EntryOK
  <2>5. k + 1 \in 1 .. MAX_LEVEL /\ k + 1 # 1 /\ (k + 1) - 1 = k
    BY <2>2, <2>4, MaxLevelIsPositive
  <2>6. CASE d.obj = d.ref
    BY <1>7, <2>6
  <2>7. CASE d.obj \in Range(e.chain)
    BY <1>7, <2>3, <2>7 DEF EntryOK
  <2>8. CASE d.obj # d.ref /\ d.obj \notin Range(e.chain)
    <3> PICK x : x = Entry(d, k + 1, Append(e.chain, e.obj))
      OBVIOUS
    <3>1. x \in {Entry(y, k + 1, Append(e.chain, e.obj)) :
                   y \in {y \in pairs : y.ref = e.obj /\ y.obj \notin Range(e.chain) /\ y.obj # y.ref}}
      BY <2>1, <2>8
    <3>2. x \in Behind(pairs, k + 1, f[k])
      BY <2>2, <3>1 DEF Behind
    <3>3. x \in f[k + 1]
      BY <1>2, <2>5, <3>2
    <3>4. x.obj = d.obj
      BY DEF Entry
    <3> QED BY <1>4, <2>5, <3>3, <3>4
  <2> QED BY <2>6, <2>7, <2>8
<1> QED BY <1>3, <1>6, <1>7

\* What there is in a database: its relations and its constraints.
LEMMA ObjectsAre ==
    ASSUME NEW db, NEW reads, NEW x
    PROVE  x \in Objects(db, reads) <=>
              \/ \E o \in DOMAIN db : x = PrimaryKey(o) \/ x \in ForeignKeys(db, o) \/ x \in Uniques(db, o) \/ x = Relation(o)
              \/ \E v \in DOMAIN reads : x = Relation(v)
BY DEF Objects, ConstraintsIn, ConstraintsOf

\* Objects of different kinds are different, and so are relations of different oids.
LEMMA ObjectsDiffer ==
    /\ \A a, b : Relation(a) = Relation(b) => a = b
    /\ \A a, b : PrimaryKey(a) = PrimaryKey(b) => a = b
    /\ \A a, b : Relation(a) # Index(b) /\ Relation(a) # PrimaryKey(b)
    /\ \A a : Relation(a) # Schema
    /\ \A db, a, b : Relation(a) \notin ForeignKeys(db, b) /\ Relation(a) \notin Uniques(db, b)
    /\ \A db, a, b : PrimaryKey(a) \notin ForeignKeys(db, b) /\ PrimaryKey(a) \notin Uniques(db, b)
    /\ \A db, a : PrimaryKey(a) # Schema /\ Schema \notin ForeignKeys(db, a) /\ Schema \notin Uniques(db, a)
    /\ \A db, a, b : Index(a) \notin ForeignKeys(db, b) /\ Index(a) \notin Uniques(db, b) /\ Index(a) # PrimaryKey(b)
<1>1. ASSUME NEW db, NEW b, NEW x \in ForeignKeys(db, b)
      PROVE  x[1] = "foreign key"
  <2>1. PICK c \in DOMAIN db[b].fks : x = <<"foreign key", b, c>>
    BY DEF ForeignKeys
  <2> QED BY <2>1
<1>2. ASSUME NEW db, NEW b, NEW x \in Uniques(db, b)
      PROVE  x[1] = "unique"
  <2>1. PICK C \in db[b].uniques : x = <<"unique", b, C>>
    BY DEF Uniques
  <2> QED BY <2>1
<1>3. \A a : Relation(a)[1] = "relation" /\ Index(a)[1] = "index" /\ PrimaryKey(a)[1] = "primary key" /\ Schema[1] = "schema"
  BY DEF Relation, Index, PrimaryKey, Schema
<1>4. \A a : Relation(a)[2] = a /\ PrimaryKey(a)[2] = a
  BY DEF Relation, PrimaryKey
<1>5. ASSUME NEW a, NEW b, Relation(a) = Relation(b)
      PROVE  a = b
  BY <1>4, <1>5
<1>6. ASSUME NEW a, NEW b, PrimaryKey(a) = PrimaryKey(b)
      PROVE  a = b
  BY <1>4, <1>6
<1>7. \A a, b : Relation(a) # Index(b) /\ Relation(a) # PrimaryKey(b) /\ Relation(a) # Schema
  BY <1>3
<1>8. \A db, a, b : Relation(a) \notin ForeignKeys(db, b) /\ Relation(a) \notin Uniques(db, b)
  BY <1>1, <1>2, <1>3
<1>9. \A db, a, b : PrimaryKey(a) \notin ForeignKeys(db, b) /\ PrimaryKey(a) \notin Uniques(db, b)
  BY <1>1, <1>2, <1>3
<1>10. \A db, a : PrimaryKey(a) # Schema /\ Schema \notin ForeignKeys(db, a) /\ Schema \notin Uniques(db, a)
  BY <1>1, <1>2, <1>3
<1>11. \A db, a, b : Index(a) \notin ForeignKeys(db, b) /\ Index(a) \notin Uniques(db, b) /\ Index(a) # PrimaryKey(b)
  BY <1>1, <1>2, <1>3
<1> QED BY <1>5, <1>6, <1>7, <1>8, <1>9, <1>10, <1>11

\* A foreign key names its table and its column.
LEMMA ForeignKeyIs ==
    ASSUME NEW db, NEW o, NEW x \in ForeignKeys(db, o)
    PROVE  /\ x = <<"foreign key", o, x[3]>> /\ x[1] = "foreign key" /\ x[2] = o
           /\ x[3] \in DOMAIN db[o].fks
<1>1. PICK c \in DOMAIN db[o].fks : x = <<"foreign key", o, c>>
  BY DEF ForeignKeys
<1> QED BY <1>1

\* A unique constraint names its table and its columns.
LEMMA UniqueIs ==
    ASSUME NEW db, NEW o, NEW x \in Uniques(db, o)
    PROVE  /\ x = <<"unique", o, x[3]>> /\ x[1] = "unique" /\ x[2] = o
           /\ x[3] \in db[o].uniques
<1>1. PICK C \in db[o].uniques : x = <<"unique", o, C>>
  BY DEF Uniques
<1> QED BY <1>1

\* A constraint of one table is of no other table, and of no other kind.
LEMMA ConstraintsName ==
    ASSUME NEW db, NEW other, NEW o, NEW p
    PROVE  /\ \A x \in ForeignKeys(db, o) : x \in ForeignKeys(other, p) => o = p
           /\ \A x \in Uniques(db, o) : x \in Uniques(other, p) => o = p
           /\ \A x \in Uniques(db, o) : x \notin ForeignKeys(other, p)
           /\ \A x \in ForeignKeys(db, o) : x \notin Uniques(other, p)
<1>1. ASSUME NEW x \in ForeignKeys(db, o), x \in ForeignKeys(other, p)
      PROVE  o = p
  <2>1. x[2] = o
    BY ForeignKeyIs
  <2>2. x[2] = p
    BY <1>1, ForeignKeyIs
  <2> QED BY <2>1, <2>2
<1>2. ASSUME NEW x \in Uniques(db, o), x \in Uniques(other, p)
      PROVE  o = p
  <2>1. x[2] = o
    BY UniqueIs
  <2>2. x[2] = p
    BY <1>2, UniqueIs
  <2> QED BY <2>1, <2>2
<1>3. ASSUME NEW x, x \in ForeignKeys(db, o) \cup ForeignKeys(other, p)
      PROVE  x[1] = "foreign key"
  BY <1>3, ForeignKeyIs
<1>4. ASSUME NEW x, x \in Uniques(db, o) \cup Uniques(other, p)
      PROVE  x[1] = "unique"
  BY <1>4, UniqueIs
<1> QED BY <1>1, <1>2, <1>3, <1>4

\* What a deleted table leaves of the others: their columns, their unique constraints,
\* and the references that are not to it.
LEMMA DropTableFields ==
    ASSUME NEW db, Consistent(db), NEW o \in DOMAIN db, NEW p \in DOMAIN db \ {o}
    PROVE  /\ p \in DOMAIN DropTable(db, o)
           /\ DropTable(db, o)[p].cols = db[p].cols /\ DropTable(db, o)[p].uniques = db[p].uniques
           /\ DOMAIN DropTable(db, o)[p].fks = {c \in DOMAIN db[p].fks : db[p].fks[c] # o}
<1> PICK t : t = db[p]
  OBVIOUS
<1> PICK u : u = DropTable(db, o)[p]
  OBVIOUS
<1> DEFINE fks == Restrict(t.fks, {c \in DOMAIN t.fks : t.fks[c] # o})
<1>1. p \in DOMAIN DropTable(db, o) /\ WellFormed(t) /\ u = [t EXCEPT !.fks = fks]
  BY DEF DropTable, Consistent, DatabaseOK
<1>2. u.cols = t.cols /\ u.uniques = t.uniques /\ u.fks = fks
  <2> HIDE DEF fks
  <2> QED BY <1>1 DEF WellFormed
<1>3. DOMAIN fks = {c \in DOMAIN t.fks : t.fks[c] # o}
  BY DEF Restrict
<1> QED BY <1>1, <1>2, <1>3

\* What goes along with table o, besides the views that read it: its constraints, and the
\* references to it.
TakenAlong(db, o, x) ==
    \/ x = PrimaryKey(o) \/ x \in Uniques(db, o) \/ x \in ForeignKeys(db, o)
    \/ \E p \in DOMAIN db : x \in ForeignKeys(db, p) /\ db[p].fks[x[3]] = o

GoneWith(db, reads, o) == Objects(db, reads) \ Objects(DropTable(db, o), DropViews(db, reads, o))

\* What goes when a table is deleted.
LEMMA GoneWithTable ==
    ASSUME NEW db, Consistent(db), NEW reads, ViewsOK(reads, db), NEW o \in DOMAIN db, NEW x
    PROVE  x \in GoneWith(db, reads, o) <=>
              \/ x = Relation(o) \/ TakenAlong(db, o, x)
              \/ \E v \in ViewsOf(reads, Columns(db, o)) : x = Relation(v)
<1> PICK after : after = DropTable(db, o)
  OBVIOUS
<1> PICK left : left = DropViews(db, reads, o)
  OBVIOUS
<1> PICK V : V = ViewsOf(reads, Columns(db, o))
  OBVIOUS
<1>1. V \subseteq DOMAIN reads /\ DOMAIN left = DOMAIN reads \ V
  BY ViewsOfIsClosed DEF ViewsOK, DropViews, Without, Restrict
<1>2. DOMAIN after = DOMAIN db \ {o}
  BY DropTableKeeps
<1>3. DOMAIN db \subseteq Nat /\ DOMAIN reads \cap Nat = {}
  BY DEF Consistent, DatabaseOK, ViewsOK
<1>4. x \in GoneWith(db, reads, o) <=> x \in Objects(db, reads) /\ x \notin Objects(after, left)
  BY DEF GoneWith
<1>5. ASSUME NEW p \in DOMAIN after
      PROVE  /\ Uniques(after, p) = Uniques(db, p) /\ p \in DOMAIN db /\ p # o
             /\ ForeignKeys(after, p) = {<<"foreign key", p, c>> : c \in {c \in DOMAIN db[p].fks : db[p].fks[c] # o}}
  BY <1>2, DropTableFields DEF Uniques, ForeignKeys
<1>6. ASSUME NEW p \in DOMAIN after
      PROVE  x \in ForeignKeys(after, p) <=> x \in ForeignKeys(db, p) /\ db[p].fks[x[3]] # o
  <2>1. ASSUME x \in ForeignKeys(after, p)
        PROVE  x \in ForeignKeys(db, p) /\ db[p].fks[x[3]] # o
    <3> DEFINE others == {c \in DOMAIN db[p].fks : db[p].fks[c] # o}
    <3>0. ForeignKeys(after, p) = {<<"foreign key", p, c>> : c \in others}
      BY <1>5
    <3>1. PICK c \in others : x = <<"foreign key", p, c>>
      BY <2>1, <3>0
    <3>2. x[3] = c
      BY <3>1
    <3> QED BY <3>1, <3>2 DEF ForeignKeys
  <2>2. ASSUME x \in ForeignKeys(db, p), db[p].fks[x[3]] # o
        PROVE  x \in ForeignKeys(after, p)
    <3> DEFINE others == {c \in DOMAIN db[p].fks : db[p].fks[c] # o}
    <3>0. ForeignKeys(after, p) = {<<"foreign key", p, c>> : c \in others}
      BY <1>5
    <3>1. PICK c \in DOMAIN db[p].fks : x = <<"foreign key", p, c>>
      BY <2>2 DEF ForeignKeys
    <3>2. c \in others
      BY <2>2, <3>1
    <3> HIDE DEF others
    <3> QED BY <3>0, <3>1, <3>2
  <2> QED BY <2>1, <2>2
<1>7. CASE \E r : x = Relation(r)
  <2>1. PICK r : x = Relation(r)
    BY <1>7
  <2>2. \A v : x = Relation(v) <=> r = v
    BY <2>1, ObjectsDiffer
  <2>3. \A d, p : x # PrimaryKey(p) /\ x \notin ForeignKeys(d, p) /\ x \notin Uniques(d, p)
    BY <2>1, ObjectsDiffer
  <2>4. x \in Objects(db, reads) <=> r \in DOMAIN db \cup DOMAIN reads
    BY <2>2, <2>3, ObjectsAre
  <2>5. x \in Objects(after, left) <=> r \in DOMAIN after \cup DOMAIN left
    BY <2>2, <2>3, ObjectsAre
  <2>6. ~TakenAlong(db, o, x)
    BY <2>3 DEF TakenAlong
  <2>7. x \in GoneWith(db, reads, o) <=> r = o \/ r \in V
    BY <1>1, <1>2, <1>3, <1>4, <2>4, <2>5
  <2> QED BY <2>2, <2>6, <2>7
<1>8. CASE \E r : x = PrimaryKey(r)
  <2>1. PICK r : x = PrimaryKey(r)
    BY <1>8
  <2>2. x \in Objects(db, reads) <=> r \in DOMAIN db
    BY <2>1, ObjectsAre, ObjectsDiffer
  <2>3. x \in Objects(after, left) <=> r \in DOMAIN after
    BY <2>1, ObjectsAre, ObjectsDiffer
  <2>4. TakenAlong(db, o, x) <=> r = o
    <3>1. x = PrimaryKey(o) <=> r = o
      BY <2>1, ObjectsDiffer
    <3>2. \A p : x \notin ForeignKeys(db, p) /\ x \notin Uniques(db, p)
      BY <2>1, ObjectsDiffer
    <3> QED BY <3>1, <3>2 DEF TakenAlong
  <2>5. \A v : x # Relation(v)
    BY <2>1, ObjectsDiffer
  <2> QED BY <1>2, <1>4, <2>2, <2>3, <2>4, <2>5
<1>9. CASE \E r \in DOMAIN db : x \in Uniques(db, r)
  <2>1. PICK r \in DOMAIN db : x \in Uniques(db, r)
    BY <1>9
  <2>2. /\ x \in Objects(db, reads) /\ \A v : x # Relation(v) /\ x # PrimaryKey(v)
        /\ \A p : x \notin ForeignKeys(db, p) /\ x \notin ForeignKeys(after, p)
        /\ \A p : (x \in Uniques(db, p) => p = r) /\ (x \in Uniques(after, p) => p = r)
    <3>1. x \in Objects(db, reads)
      BY <2>1, ObjectsAre
    <3>2. \A v : x # Relation(v) /\ x # PrimaryKey(v)
      BY <2>1, ObjectsDiffer
    <3>3. \A p : x \notin ForeignKeys(db, p) /\ x \notin ForeignKeys(after, p)
      BY <2>1, ConstraintsName
    <3>4. \A p : (x \in Uniques(db, p) => p = r) /\ (x \in Uniques(after, p) => p = r)
      BY <2>1, ConstraintsName
    <3> QED BY <3>1, <3>2, <3>3, <3>4
  <2>3. x \in Objects(after, left) <=> r \in DOMAIN after
    <3>1. x \in Objects(after, left) <=> \E p \in DOMAIN after : x \in Uniques(after, p)
      BY <2>2, ObjectsAre
    <3> QED BY <1>5, <2>1, <2>2, <3>1
  <2>4. TakenAlong(db, o, x) <=> r = o
    BY <2>1, <2>2 DEF TakenAlong
  <2> QED BY <1>2, <1>4, <2>1, <2>2, <2>3, <2>4
<1>10. CASE \E r \in DOMAIN db : x \in ForeignKeys(db, r)
  <2>1. PICK r \in DOMAIN db : x \in ForeignKeys(db, r)
    BY <1>10
  <2>2. /\ x \in Objects(db, reads) /\ \A v : x # Relation(v) /\ x # PrimaryKey(v)
        /\ \A p : x \notin Uniques(db, p) /\ x \notin Uniques(after, p)
        /\ \A p : (x \in ForeignKeys(db, p) => p = r) /\ (x \in ForeignKeys(after, p) => p = r)
    <3>1. x \in Objects(db, reads)
      BY <2>1, ObjectsAre
    <3>2. \A v : x # Relation(v) /\ x # PrimaryKey(v)
      BY <2>1, ObjectsDiffer
    <3>3. \A p : x \notin Uniques(db, p) /\ x \notin Uniques(after, p)
      BY <2>1, ConstraintsName
    <3>4. \A p : (x \in ForeignKeys(db, p) => p = r) /\ (x \in ForeignKeys(after, p) => p = r)
      BY <2>1, ConstraintsName
    <3> QED BY <3>1, <3>2, <3>3, <3>4
  <2>3. x \in Objects(after, left) <=> r \in DOMAIN after /\ db[r].fks[x[3]] # o
    <3>1. x \in Objects(after, left) <=> \E p \in DOMAIN after : x \in ForeignKeys(after, p)
      BY <2>2, ObjectsAre
    <3> QED BY <1>6, <2>1, <2>2, <3>1
  <2>4. TakenAlong(db, o, x) <=> r = o \/ db[r].fks[x[3]] = o
    BY <2>1, <2>2 DEF TakenAlong
  <2> QED BY <1>2, <1>4, <2>1, <2>2, <2>3, <2>4
<1>11. CASE /\ \A r : x # Relation(r) /\ x # PrimaryKey(r)
            /\ \A r \in DOMAIN db : x \notin Uniques(db, r) /\ x \notin ForeignKeys(db, r)
  <2>1. x \notin Objects(db, reads)
    BY <1>11, ObjectsAre
  <2>2. ~TakenAlong(db, o, x)
    BY <1>11 DEF TakenAlong
  <2> QED BY <1>4, <1>11, <2>1, <2>2
<1> QED BY <1>7, <1>8, <1>9, <1>10, <1>11

\* What depends on a table goes with it.
LEMMA DependentsOfTableGo ==
    ASSUME NEW db, Consistent(db), NEW reads, ViewsOK(reads, db), NEW o \in DOMAIN db,
           NEW d \in Pairs(db, reads), d.ref = Relation(o)
    PROVE  d.obj \in GoneWith(db, reads, o)
<1> PICK V : V = ViewsOf(reads, Columns(db, o))
  OBVIOUS
<1>1. Closed(V, reads, Columns(db, o))
  BY ViewsOfIsClosed DEF ViewsOK
<1>2. d.ref # Schema /\ \A a : d.ref # Index(a)
  BY ObjectsDiffer
<1>3. \A p : d.ref = Relation(p) => p = o
  BY ObjectsDiffer
<1>4. CASE OwnPrimaryKey(db, d.obj, d.ref, d.sub)
  <2>1. d.obj = PrimaryKey(o)
    BY <1>3, <1>4 DEF OwnPrimaryKey
  <2> QED BY <2>1, GoneWithTable DEF TakenAlong
<1>5. CASE OwnUnique(db, d.obj, d.ref, d.sub)
  <2>1. d.obj \in Uniques(db, o)
    BY <1>3, <1>5 DEF OwnUnique
  <2> QED BY <2>1, GoneWithTable DEF TakenAlong
<1>6. CASE OwnForeignKey(db, d.obj, d.ref, d.sub)
  <2>1. d.obj \in ForeignKeys(db, o)
    BY <1>3, <1>6 DEF OwnForeignKey
  <2> QED BY <2>1, GoneWithTable DEF TakenAlong
<1>7. CASE KeyToTable(db, d.obj, d.ref, d.sub)
  <2>1. TakenAlong(db, o, d.obj)
    BY <1>3, <1>7 DEF KeyToTable, TakenAlong
  <2> QED BY <2>1, GoneWithTable
<1>8. CASE ViewReads(reads, d.obj, d.ref, d.sub)
  <2>1. PICK v \in DOMAIN reads : \E x \in reads[v] : d.obj = Relation(v) /\ d.ref = Relation(x[1])
    BY <1>8 DEF ViewReads
  <2>2. PICK x \in reads[v] : d.obj = Relation(v) /\ d.ref = Relation(x[1])
    BY <2>1
  <2>3. x[1] = o
    BY <1>3, <2>2
  <2>4. x = <<x[1], x[2]>>
    BY DEF ViewsOK
  <2>5. x[2] \in DOMAIN db[o].cols
    BY <2>3 DEF ViewsOK, ViewsRead
  <2>6. x \in Columns(db, o)
    BY <2>3, <2>4, <2>5 DEF Columns
  <2>7. v \in V
    BY <1>1, <2>6 DEF Closed, Reading
  <2> QED BY <2>2, <2>7, GoneWithTable
<1> QED BY <1>2, <1>4, <1>5, <1>6, <1>7, <1>8, PairsSay DEF KeyToIndex

\* What depends on what goes with a table goes too.
LEMMA DependentsOfGoneGo ==
    ASSUME NEW db, Consistent(db), NEW reads, ViewsOK(reads, db), NEW o \in DOMAIN db,
           NEW d \in Pairs(db, reads), d.ref \in GoneWith(db, reads, o)
    PROVE  d.obj \in GoneWith(db, reads, o)
<1> PICK V : V = ViewsOf(reads, Columns(db, o))
  OBVIOUS
<1>1. Closed(V, reads, Columns(db, o)) /\ V \subseteq DOMAIN reads
  BY ViewsOfIsClosed DEF ViewsOK
<1>2. \/ d.ref = Relation(o) \/ TakenAlong(db, o, d.ref)
      \/ \E v \in V : d.ref = Relation(v)
  BY GoneWithTable
<1>3. CASE d.ref = Relation(o)
  BY <1>3, DependentsOfTableGo
<1>4. CASE TakenAlong(db, o, d.ref)
  <2>1. d.ref # Schema /\ (\A a : d.ref # Index(a)) /\ (\A a : d.ref # Relation(a))
    BY <1>4, ObjectsDiffer DEF TakenAlong
  <2> QED BY <2>1, PairsSay DEF OwnPrimaryKey, OwnUnique, OwnForeignKey, KeyToTable, KeyToIndex, ViewReads
<1>5. CASE \E v \in V : d.ref = Relation(v)
  <2>1. PICK v \in V : d.ref = Relation(v)
    BY <1>5
  <2>2. v \notin Nat
    BY <1>1 DEF ViewsOK
  <2>3. /\ d.ref # Schema /\ \A a : d.ref # Index(a)
        /\ \A p : d.ref = Relation(p) => p = v
    BY <2>1, ObjectsDiffer
  <2>4. DOMAIN db \subseteq Nat
    BY DEF Consistent, DatabaseOK
  <2>5. ~KeyToTable(db, d.obj, d.ref, d.sub)
    <3> SUFFICES ASSUME KeyToTable(db, d.obj, d.ref, d.sub) PROVE FALSE
      OBVIOUS
    <3>1. PICK p \in DOMAIN db : d.obj \in ForeignKeys(db, p) /\ d.ref = Relation(db[p].fks[d.obj[3]])
      BY DEF KeyToTable
    <3>2. d.obj[3] \in DOMAIN db[p].fks
      BY <3>1, ForeignKeyIs
    <3>3. db[p].fks[d.obj[3]] \in Nat
      BY <3>2 DEF Consistent, DatabaseOK, WellFormed
    <3> QED BY <2>2, <2>3, <3>1, <3>3
  <2>6. ViewReads(reads, d.obj, d.ref, d.sub)
    BY <2>2, <2>3, <2>4, <2>5, PairsSay DEF OwnPrimaryKey, OwnUnique, OwnForeignKey, KeyToIndex
  <2>7. PICK w \in DOMAIN reads : \E x \in reads[w] : d.obj = Relation(w) /\ d.ref = Relation(x[1])
    BY <2>6 DEF ViewReads
  <2>8. \E x \in reads[w] : x[1] = v
    BY <2>3, <2>7
  <2>9. w \in V
    BY <1>1, <2>8 DEF Closed, ReadingThese
  <2> QED BY <2>7, <2>9, GoneWithTable
<1> QED BY <1>2, <1>3, <1>4, <1>5

\* All that is listed for a table goes with it, and a listing that is not cut off misses
\* nothing that goes.
LEMMA TableDropForetold ==
    ASSUME NEW db, Consistent(db), NEW reads, ViewsOK(reads, db), NEW o \in DOMAIN db
    PROVE  /\ Listed(db, reads, o, 0) \subseteq GoneWith(db, reads, o)
           /\ \/ GoneWith(db, reads, o) \subseteq Listed(db, reads, o, 0) \cup {Relation(o)}
              \/ IsCutOff(db, reads, o, 0)
<1>1. Listed(db, reads, o, 0) \subseteq GoneWith(db, reads, o)
  BY DependentsOfTableGo, DependentsOfGoneGo, ListedIsLeast
<1>2. ASSUME ~IsCutOff(db, reads, o, 0), NEW x \in GoneWith(db, reads, o), x # Relation(o)
      PROVE  x \in Listed(db, reads, o, 0)
  <2> PICK listed : listed = Listed(db, reads, o, 0)
    OBVIOUS
  <2> DEFINE V == {v \in DOMAIN reads : Relation(v) \in listed}
  <2>1. \A d \in Pairs(db, reads) : d.ref = Relation(o) => d.obj \in listed \cup {Relation(o)}
    BY ListedIsClosed
  <2>2. \A d \in Pairs(db, reads) : d.ref \in listed => d.obj \in listed \cup {Relation(o)}
    BY <1>2, ListedIsClosed
  <2>3. CASE TakenAlong(db, o, x)
    <3>1. CASE x = PrimaryKey(o)
      <4>1. OwnPrimaryKey(db, x, Relation(o), 1)
        BY <3>1 DEF OwnPrimaryKey
      <4> QED BY <1>2, <2>1, <4>1, PairsAreThere
    <3>2. CASE x \in Uniques(db, o)
      <4>1. x[3] # {}
        <5>1. x[3] \in db[o].uniques
          BY <3>2, UniqueIs
        <5> QED BY <5>1 DEF Consistent, DatabaseOK, WellFormed, TableOK
      <4>2. PICK c \in x[3] : TRUE
        BY <4>1
      <4>3. OwnUnique(db, x, Relation(o), c)
        BY <3>2 DEF OwnUnique
      <4> QED BY <1>2, <2>1, <4>3, PairsAreThere
    <3>3. CASE x \in ForeignKeys(db, o)
      <4>1. OwnForeignKey(db, x, Relation(o), x[3])
        BY <3>3 DEF OwnForeignKey
      <4> QED BY <1>2, <2>1, <4>1, PairsAreThere
    <3>4. CASE \E p \in DOMAIN db : x \in ForeignKeys(db, p) /\ db[p].fks[x[3]] = o
      <4>1. KeyToTable(db, x, Relation(o), 1)
        BY <3>4 DEF KeyToTable
      <4> QED BY <1>2, <2>1, <4>1, PairsAreThere
    <3> QED BY <2>3, <3>1, <3>2, <3>3, <3>4 DEF TakenAlong
  <2>4. Closed(V, reads, Columns(db, o))
    <3>1. ASSUME NEW v \in DOMAIN reads, NEW y \in reads[v], y[1] = o \/ y[1] \in V
          PROVE  v \in V
      <4>1. ViewReads(reads, Relation(v), Relation(y[1]), y[2])
        BY DEF ViewReads
      <4>2. PICK d \in Pairs(db, reads) : d.obj = Relation(v) /\ d.ref = Relation(y[1])
        BY <4>1, PairsAreThere
      <4>3. Relation(v) \in listed \cup {Relation(o)}
        BY <2>1, <2>2, <3>1, <4>2
      <4>4. v # o
        BY DEF ViewsOK, Consistent, DatabaseOK
      <4> QED BY <4>3, <4>4, ObjectsDiffer
    <3>2. \A v \in DOMAIN reads : \A y \in reads[v] : y \in Columns(db, o) => y[1] = o
      BY DEF Columns
    <3> HIDE DEF V
    <3>3. Reading(reads, Columns(db, o)) \subseteq V
      BY <3>1, <3>2 DEF Reading
    <3>4. ReadingThese(reads, V) \subseteq V
      BY <3>1 DEF ReadingThese
    <3> QED BY <3>3, <3>4 DEF Closed
  <2>5. ViewsOf(reads, Columns(db, o)) \subseteq V
    <3> HIDE DEF V
    <3> QED BY <2>4, ViewsOfIsLeast DEF ViewsOK
  <2> QED BY <1>2, <2>3, <2>5, GoneWithTable
<1> QED BY <1>1, <1>2

\* A key and a unique constraint have their rows in pg_depend.
LEMMA ConstraintRows ==
    ASSUME NEW db, NEW reads, NEW obj, NEW ref, NEW sub,
           OwnUnique(db, obj, ref, sub) \/ OwnForeignKey(db, obj, ref, sub)
    PROVE  \E d \in pg_depend(db, reads) : d.obj = obj /\ d.ref = ref /\ d.sub = sub /\ d.deptype = "a"
<1> PICK x : x = Depends(obj, ref, sub, "a")
  OBVIOUS
<1>1. x.obj = obj /\ x.ref = ref /\ x.sub = sub /\ x.deptype = "a"
  BY DEF Depends
<1>2. CASE OwnUnique(db, obj, ref, sub)
  <2>1. PICK o \in DOMAIN db : obj \in Uniques(db, o) /\ ref = Relation(o) /\ sub \in obj[3]
    BY <1>2 DEF OwnUnique
  <2>2. x \in UNION {{Depends(k, Relation(o), c, "a") : c \in k[3]} : k \in Uniques(db, o)}
    BY <2>1
  <2>3. x \in pg_depend(db, reads)
    BY <2>2 DEF pg_depend
  <2> QED BY <1>1, <2>3
<1>3. CASE OwnForeignKey(db, obj, ref, sub)
  <2>1. PICK o \in DOMAIN db : obj \in ForeignKeys(db, o) /\ ref = Relation(o) /\ sub = obj[3]
    BY <1>3 DEF OwnForeignKey
  <2>2. x \in UNION {{Depends(k, Relation(o), k[3], "a"), Depends(k, Relation(db[o].fks[k[3]]), 1, "n"),
                      Depends(k, Index(PrimaryKey(db[o].fks[k[3]])), 0, "n")} : k \in ForeignKeys(db, o)}
    BY <2>1
  <2>3. x \in pg_depend(db, reads)
    BY <2>2 DEF pg_depend
  <2> QED BY <1>1, <2>3
<1> QED BY <1>2, <1>3

\* What is listed for a column that no view reads: the constraints it is in.
LEMMA ListedForColumn ==
    ASSUME NEW db, NEW reads, ViewsOK(reads, db), NEW o \in DOMAIN db, NEW C, CanDropColumns(reads, o, C),
           NEW c \in C, c \notin {0, 1}, NEW x
    PROVE  x \in Listed(db, reads, o, c) <=> OwnUnique(db, x, Relation(o), c) \/ OwnForeignKey(db, x, Relation(o), c)
<1> DEFINE ofColumn(y) == OwnUnique(db, y, Relation(o), c) \/ OwnForeignKey(db, y, Relation(o), c)
           G == {d.obj : d \in {e \in Pairs(db, reads) : ofColumn(e.obj)}}
<1>1. Reading(reads, {<<o, a>> : a \in C}) = {}
  <2>1. Closed(ViewsOf(reads, {<<o, a>> : a \in C}), reads, {<<o, a>> : a \in C})
    BY ViewsOfIsClosed DEF ViewsOK
  <2> QED BY <2>1 DEF Closed, CanDropColumns
<1>2. ASSUME NEW d \in Pairs(db, reads), d.ref = Relation(o), c \in {0, d.sub}
      PROVE  ofColumn(d.obj)
  <2>1. d.sub = c
    BY <1>2
  <2>2. d.ref # Schema /\ ~KeyToIndex(db, d.obj, d.ref)
    BY <1>2, ObjectsDiffer DEF KeyToIndex
  <2>3. ~OwnPrimaryKey(db, d.obj, d.ref, d.sub) /\ ~KeyToTable(db, d.obj, d.ref, d.sub)
    BY <2>1 DEF OwnPrimaryKey, KeyToTable
  <2>4. ~ViewReads(reads, d.obj, d.ref, d.sub)
    <3> SUFFICES ASSUME ViewReads(reads, d.obj, d.ref, d.sub) PROVE FALSE
      OBVIOUS
    <3>1. PICK v \in DOMAIN reads : \E y \in reads[v] : d.ref = Relation(y[1]) /\ d.sub = y[2]
      BY DEF ViewReads
    <3>2. PICK y \in reads[v] : d.ref = Relation(y[1]) /\ d.sub = y[2]
      BY <3>1
    <3>3. y = <<y[1], y[2]>>
      BY DEF ViewsOK
    <3>4. y[1] = o /\ y[2] = c
      BY <1>2, <2>1, <3>2, ObjectsDiffer
    <3>5. y \in {<<o, a>> : a \in C}
      BY <3>3, <3>4
    <3> QED BY <1>1, <3>5 DEF Reading
  <2> QED BY <1>2, <2>1, <2>2, <2>3, <2>4, PairsSay
<1>3. ASSUME NEW y, ofColumn(y)
      PROVE  (\A a : y # Relation(a) /\ y # Index(a)) /\ y # Schema
  BY <1>3, ObjectsDiffer DEF OwnUnique, OwnForeignKey
<1>4. \A d \in Pairs(db, reads) : ~ofColumn(d.ref)
  <2> SUFFICES ASSUME NEW d \in Pairs(db, reads), ofColumn(d.ref) PROVE FALSE
    OBVIOUS
  <2>1. d.ref # Schema /\ \A a : d.ref # Relation(a) /\ d.ref # Index(a)
    BY <1>3
  <2> QED BY <2>1, PairsSay DEF OwnPrimaryKey, OwnUnique, OwnForeignKey, KeyToTable, KeyToIndex, ViewReads
<1>5. Listed(db, reads, o, c) \subseteq G
  <2>1. \A d \in Pairs(db, reads) : d.ref = Relation(o) /\ c \in {0, d.sub} => d.obj \in G
    BY <1>2
  <2>2. \A d \in Pairs(db, reads) : d.ref \in G => d.obj \in G
    BY <1>4
  <2> HIDE DEF G
  <2> QED BY <2>1, <2>2, ListedIsLeast
<1>6. x \in Listed(db, reads, o, c) => ofColumn(x)
  BY <1>5
<1>7. ASSUME ofColumn(x) PROVE x \in Listed(db, reads, o, c)
  <2>1. PICK d \in Pairs(db, reads) : d.obj = x /\ d.ref = Relation(o) /\ d.sub = c
    BY <1>7, PairsAreThere
  <2>2. d.obj \in Listed(db, reads, o, c) \cup {Relation(o)}
    BY <2>1, ListedIsClosed
  <2> QED BY <1>3, <1>7, <2>1, <2>2
<1> QED BY <1>6, <1>7

\* What goes when columns C of table o are dropped.
GoneWithColumns(db, reads, o, C) ==
    Objects(db, reads) \ Objects([db EXCEPT ![o] = drop_columns(db[o], C)], reads)

\* With columns goes what is listed for them, and nothing else; and what goes along are
\* dependents.
LEMMA ColumnsDropForetold ==
    ASSUME NEW db, Consistent(db), NEW reads, ViewsOK(reads, db), NEW o \in DOMAIN db,
           NEW C \in SUBSET ColumnsOf(db[o]), CanDropColumns(reads, o, C)
    PROVE  /\ GoneWithColumns(db, reads, o, C) = UNION {Listed(db, reads, o, c) : c \in C}
           /\ GoneWithColumns(db, reads, o, C) # {} => \E c \in C : has_dependents(db, reads, o, c)
<1> PICK t : t = db[o]
  OBVIOUS
<1> PICK u : u = drop_columns(t, C)
  OBVIOUS
<1>0. PICK after : after = [db EXCEPT ![o] = u]
  OBVIOUS
<1>1. WellFormed(t) /\ db = [p \in DOMAIN db |-> db[p]]
  BY DEF Consistent, DatabaseOK
<1>2. u.fks = [a \in DOMAIN t.fks \ C |-> t.fks[a]] /\ u.uniques = {U \in t.uniques : U \cap C = {}}
  <2>1. ColumnsDropped(u, t, C)
    BY <1>1, DropColumnsFields
  <2> QED BY <2>1 DEF ColumnsDropped
<1>3. DOMAIN after = DOMAIN db /\ after[o] = u /\ \A p \in DOMAIN db \ {o} : after[p] = db[p]
  BY <1>0, <1>1
<1>4. \A p \in DOMAIN db \ {o} : ForeignKeys(after, p) = ForeignKeys(db, p) /\ Uniques(after, p) = Uniques(db, p)
  BY <1>3 DEF ForeignKeys, Uniques
<1>5. ASSUME NEW x
      PROVE  x \in ForeignKeys(after, o) <=> x \in ForeignKeys(db, o) /\ x[3] \notin C
  <2>1. ASSUME x \in ForeignKeys(after, o)
        PROVE  x \in ForeignKeys(db, o) /\ x[3] \notin C
    <3>1. PICK c \in DOMAIN u.fks : x = <<"foreign key", o, c>>
      BY <1>3, <2>1 DEF ForeignKeys
    <3>2. c \in DOMAIN db[o].fks /\ c \notin C /\ x[3] = c
      BY <1>2, <3>1
    <3> QED BY <3>1, <3>2 DEF ForeignKeys
  <2>2. ASSUME x \in ForeignKeys(db, o), x[3] \notin C
        PROVE  x \in ForeignKeys(after, o)
    <3>1. PICK c \in DOMAIN t.fks : x = <<"foreign key", o, c>>
      BY <2>2 DEF ForeignKeys
    <3>2. c \in DOMAIN after[o].fks
      BY <1>2, <1>3, <2>2, <3>1
    <3> QED BY <3>1, <3>2 DEF ForeignKeys
  <2> QED BY <2>1, <2>2
<1>6. ASSUME NEW x
      PROVE  x \in Uniques(after, o) <=> x \in Uniques(db, o) /\ x[3] \cap C = {}
  <2>1. ASSUME x \in Uniques(after, o)
        PROVE  x \in Uniques(db, o) /\ x[3] \cap C = {}
    <3>1. PICK U \in u.uniques : x = <<"unique", o, U>>
      BY <1>3, <2>1 DEF Uniques
    <3>2. U \in db[o].uniques /\ U \cap C = {} /\ x[3] = U
      BY <1>2, <3>1
    <3> QED BY <3>1, <3>2 DEF Uniques
  <2>2. ASSUME x \in Uniques(db, o), x[3] \cap C = {}
        PROVE  x \in Uniques(after, o)
    <3>1. PICK U \in t.uniques : x = <<"unique", o, U>>
      BY <2>2 DEF Uniques
    <3>2. U \in after[o].uniques
      BY <1>2, <1>3, <2>2, <3>1
    <3> QED BY <3>1, <3>2 DEF Uniques
  <2> QED BY <2>1, <2>2
<1>7. ASSUME NEW x
      PROVE  x \in GoneWithColumns(db, reads, o, C) <=>
                \/ x \in ForeignKeys(db, o) /\ x[3] \in C
                \/ x \in Uniques(db, o) /\ x[3] \cap C # {}
  <2>1. x \in GoneWithColumns(db, reads, o, C) <=> x \in Objects(db, reads) /\ x \notin Objects(after, reads)
    BY <1>0 DEF GoneWithColumns
  <2>2. ASSUME x \in ForeignKeys(db, o)
        PROVE  x \in Objects(db, reads) /\ (x \in Objects(after, reads) <=> x[3] \notin C) /\ x \notin Uniques(db, o)
    <3>1. /\ \A p : x # Relation(p) /\ x # PrimaryKey(p)
          /\ \A p : x \notin Uniques(after, p) /\ x \notin Uniques(db, p)
      BY <2>2, ObjectsDiffer, ConstraintsName
    <3>2. \A p : x \in ForeignKeys(after, p) => p = o
      BY <2>2, ConstraintsName
    <3>3. x \in Objects(after, reads) <=> x \in ForeignKeys(after, o)
      <4>1. x \in Objects(after, reads) <=> \E p \in DOMAIN after : x \in ForeignKeys(after, p)
        BY <3>1, ObjectsAre
      <4> QED BY <1>3, <3>2, <4>1
    <3> QED BY <1>5, <2>2, <3>1, <3>3, ObjectsAre
  <2>3. ASSUME x \in Uniques(db, o)
        PROVE  x \in Objects(db, reads) /\ (x \in Objects(after, reads) <=> x[3] \cap C = {}) /\ x \notin ForeignKeys(db, o)
    <3>1. /\ \A p : x # Relation(p) /\ x # PrimaryKey(p)
          /\ \A p : x \notin ForeignKeys(after, p) /\ x \notin ForeignKeys(db, p)
      BY <2>3, ObjectsDiffer, ConstraintsName
    <3>2. \A p : x \in Uniques(after, p) => p = o
      BY <2>3, ConstraintsName
    <3>3. x \in Objects(after, reads) <=> x \in Uniques(after, o)
      <4>1. x \in Objects(after, reads) <=> \E p \in DOMAIN after : x \in Uniques(after, p)
        BY <3>1, ObjectsAre
      <4> QED BY <1>3, <3>2, <4>1
    <3> QED BY <1>6, <2>3, <3>1, <3>3, ObjectsAre
  <2>4. ASSUME x \notin ForeignKeys(db, o), x \notin Uniques(db, o)
        PROVE  x \in Objects(db, reads) => x \in Objects(after, reads)
    <3>1. ASSUME NEW p \in DOMAIN db, x = PrimaryKey(p) \/ x \in ForeignKeys(db, p) \/ x \in Uniques(db, p) \/ x = Relation(p)
          PROVE  x = PrimaryKey(p) \/ x \in ForeignKeys(after, p) \/ x \in Uniques(after, p) \/ x = Relation(p)
      BY <1>4, <2>4, <3>1
    <3>2. DOMAIN after = DOMAIN db
      BY <1>3
    <3> QED BY <3>1, <3>2, ObjectsAre
  <2> QED BY <2>1, <2>2, <2>3, <2>4
<1>8. \A c \in C : c \notin {0, 1}
  BY <1>1 DEF ColumnsOf, WellFormed, TableOK
<1>9. ASSUME NEW x
      PROVE  x \in GoneWithColumns(db, reads, o, C) <=> \E c \in C : x \in Listed(db, reads, o, c)
  <2>1. ASSUME NEW c \in C
        PROVE  x \in Listed(db, reads, o, c) <=> (x \in Uniques(db, o) /\ c \in x[3]) \/ (x \in ForeignKeys(db, o) /\ c = x[3])
    <3>1. OwnUnique(db, x, Relation(o), c) <=> x \in Uniques(db, o) /\ c \in x[3]
      BY ObjectsDiffer DEF OwnUnique
    <3>2. OwnForeignKey(db, x, Relation(o), c) <=> x \in ForeignKeys(db, o) /\ c = x[3]
      BY ObjectsDiffer DEF OwnForeignKey
    <3> QED BY <1>8, <3>1, <3>2, ListedForColumn
  <2> QED BY <1>7, <2>1
<1>10. ASSUME NEW x \in GoneWithColumns(db, reads, o, C)
       PROVE  \E c \in C : has_dependents(db, reads, o, c)
  <2>1. PICK c \in C : x \in Listed(db, reads, o, c)
    BY <1>9
  <2>2. OwnUnique(db, x, Relation(o), c) \/ OwnForeignKey(db, x, Relation(o), c)
    BY <1>8, <2>1, ListedForColumn
  <2>3. PICK d \in pg_depend(db, reads) : d.ref = Relation(o) /\ d.sub = c /\ d.deptype = "a"
    BY <2>2, ConstraintRows
  <2> QED BY <2>3 DEF has_dependents, PG_DEPENDENT_TYPES
<1>11. GoneWithColumns(db, reads, o, C) = UNION {Listed(db, reads, o, c) : c \in C}
  BY <1>9
<1> QED BY <1>10, <1>11

-----------------------------------------------------------------------------
(***************************************************************************)
(* What the actions of DatabaseSetup keep of the Django rows and of what   *)
(* is installed on the servers, whatever happens while a set-up is under   *)
(* way.  The inductive invariant of the set-ups:                           *)
(***************************************************************************)
Keys == Hosts \X Roles

\* The rows of Django's database refer to rows that exist; ids are not used again.
DjangoRowsOK ==
    /\ nextId \in 1 .. MaxIds + 1
    /\ servers \subseteq Hosts
    /\ databases \in [DOMAIN databases -> Places] /\ DOMAIN databases \subseteq 1 .. nextId - 1
    /\ IsInjective(databases)
    /\ configuredRoles \in [DOMAIN configuredRoles -> Passwords]
    /\ DOMAIN configuredRoles \subseteq Keys
    /\ maps \in [DOMAIN maps -> [role : Keys, server : Hosts]]
    /\ DOMAIN maps \subseteq Users \X (1 .. nextId - 1)
    /\ \A d \in DOMAIN databases : databases[d][1] \in servers
    /\ \A key \in DOMAIN configuredRoles : key[1] \in servers
    /\ \A x \in DOMAIN maps : /\ x[2] \in DOMAIN databases
                              /\ maps[x].role \in DOMAIN configuredRoles /\ maps[x].server \in servers

\* What is on the servers.
ServersOK ==
    /\ passwords \in [Keys -> Passwords]
    /\ parts \in [DOMAIN parts -> SUBSET Parts] /\ DOMAIN parts \subseteq Places
    /\ DOMAIN samples = DOMAIN parts

JobFields == {"database", "place", "user", "role", "given", "stored", "new", "gone", "create",
              "data", "left"}

\* The rows a set-up found are there, or it is known that they went; the rows it has
\* entered are seen by nobody, and nobody has entered the like.
RowsFit(s) ==
    /\ DOMAIN s = JobFields
    /\ s.user \in Users
    /\ s.place \in Places /\ s.role \in Keys /\ s.role[1] = s.place[1]
    /\ s.given \in Passwords
    /\ s.new \subseteq {"database", "role", "map"}
    /\ s.database \in DOMAIN databases => databases[s.database] = s.place
    /\ "database" \in s.new => /\ "map" \in s.new /\ s.database \notin DOMAIN databases
                               /\ \A d \in DOMAIN databases : databases[d] # s.place
    /\ "role" \in s.new => "map" \in s.new /\ s.role \notin DOMAIN configuredRoles
    /\ "map" \in s.new => /\ <<s.user, s.database>> \notin DOMAIN maps
                          /\ "database" \in s.new \/ s.database \in DOMAIN databases \/ "database" \in s.gone
                          /\ "role" \in s.new \/ s.role \in DOMAIN configuredRoles \/ "role" \in s.gone
JobOK(s) == RowsFit(s) /\ s.database \in 1 .. nextId - 1

\* What is left of a set-up, from each of its steps on.
FromJoins == <<"joins_and_aggregates">>
FromMsar == <<"msar", "joins_and_aggregates">>
FromCasts == <<"casts", "msar", "joins_and_aggregates">>
FromTldRows == <<"tld_rows", "casts", "msar", "joins_and_aggregates">>
FromTlds == <<"tlds", "tld_rows", "casts", "msar", "joins_and_aggregates">>
FromTypes == <<"types", "tlds", "tld_rows", "casts", "msar", "joins_and_aggregates">>
FromConnect == <<"connect", "types", "tlds", "tld_rows", "casts", "msar", "joins_and_aggregates">>

\* A set-up has installed what it has left behind, but maybe the rows of the list of
\* domains.
Has(s, S) == s.place \in DOMAIN parts /\ S \subseteq parts[s.place]
Progress(s) ==
    \/ s.left = FromConnect
    \/ s.left = FromTypes /\ Has(s, {})
    \/ s.left = FromTlds /\ Has(s, {"types"})
    \/ s.left = FromTldRows /\ Has(s, {"types", "tlds"})
    \/ s.left = FromCasts /\ Has(s, {"types", "tlds"})
    \/ s.left = FromMsar /\ Has(s, {"types", "tlds", "casts"})
    \/ s.left = FromJoins /\ Has(s, {"types", "tlds", "casts", "msar"})
    \/ s.left = <<>> /\ (s.place \in DOMAIN parts => Has(s, Parts \ {"tld_rows"}))

SetupOK ==
    /\ \A s, t \in setup : s = t
    /\ \A s \in setup : JobOK(s) /\ Progress(s)

\* A place a Database row names has everything, or was dropped or listed without an
\* installation.
IsInstalled(place) ==
    \/ place \in bare
    \/ place \in DOMAIN parts /\ Parts \ {"tld_rows"} \subseteq parts[place]
Registered == \A d \in DOMAIN databases : IsInstalled(databases[d])

DatabaseSetupInv == DjangoRowsOK /\ ServersOK /\ SetupOK /\ Registered

-----------------------------------------------------------------------------
(***************************************************************************)
(* The steps of a set-up.                                                  *)
(***************************************************************************)
\* The parts are these six.
LEMMA PartsAre == Parts = {"types", "tlds", "tld_rows", "casts", "msar", "joins_and_aggregates"}
<1>1. Range(TypeParts) = {"types", "tlds", "tld_rows", "casts"}
  BY DEF Range, TypeParts
<1>2. Range(SqlParts) = {"msar", "joins_and_aggregates"}
  BY DEF Range, SqlParts
<1> QED BY <1>1, <1>2 DEF Parts

\* A set-up that begins has everything left.
LEMMA EverythingIsLeft == <<"connect">> \o TypeParts \o SqlParts = FromConnect
<1> DEFINE a == <<"connect">>
           b == <<"types", "tlds", "tld_rows", "casts">>
           c == <<"msar", "joins_and_aggregates">>
           all == <<"connect", "types", "tlds", "tld_rows", "casts", "msar", "joins_and_aggregates">>
           S == {"connect", "types", "tlds", "tld_rows", "casts", "msar", "joins_and_aggregates"}
<1>1. a \in Seq(S) /\ Len(a) = 1
  OBVIOUS
<1>2. b \in Seq(S) /\ Len(b) = 4
  OBVIOUS
<1>3. c \in Seq(S) /\ Len(c) = 2
  OBVIOUS
<1>4. all \in Seq(S) /\ Len(all) = 7
  OBVIOUS
<1>5. /\ a \o b \in Seq(S) /\ Len(a \o b) = 5
      /\ \A i \in 1 .. 5 : (a \o b)[i] = IF i <= 1 THEN a[i] ELSE b[i - 1]
  BY <1>1, <1>2, ConcatProperties
<1>6. /\ (a \o b) \o c \in Seq(S) /\ Len((a \o b) \o c) = 7
      /\ \A i \in 1 .. 7 : ((a \o b) \o c)[i] = IF i <= 5 THEN (a \o b)[i] ELSE c[i - 5]
  BY <1>5, <1>3, ConcatProperties
<1>7. ASSUME NEW i \in 1 .. 7 PROVE ((a \o b) \o c)[i] = all[i]
  <2>1. i \in {1, 2, 3, 4, 5, 6, 7}
    OBVIOUS
  <2> QED BY <1>5, <1>6, <2>1
<1>8. (a \o b) \o c = all
  <2> HIDE DEF a, b, c, all
  <2> QED BY <1>6, <1>4, <1>7, SeqEqual
<1> QED BY <1>8 DEF TypeParts, SqlParts, FromConnect

\* One step after the other.
LEMMA StepsFollow ==
    /\ Tail(FromConnect) = FromTypes /\ Tail(FromTypes) = FromTlds
    /\ Tail(FromTlds) = FromTldRows /\ Tail(FromTldRows) = FromCasts
    /\ Tail(FromCasts) = FromMsar /\ Tail(FromMsar) = FromJoins
    /\ Tail(FromJoins) = <<>>
BY DEF FromJoins, FromMsar, FromCasts, FromTldRows, FromTlds, FromTypes, FromConnect

\* The step that is next.
LEMMA StepsAreNamed ==
    /\ Head(FromConnect) = "connect" /\ Head(FromTypes) = "types" /\ Head(FromTlds) = "tlds"
    /\ Head(FromTldRows) = "tld_rows" /\ Head(FromCasts) = "casts" /\ Head(FromMsar) = "msar"
    /\ Head(FromJoins) = "joins_and_aggregates"
BY DEF FromJoins, FromMsar, FromCasts, FromTldRows, FromTlds, FromTypes, FromConnect

\* Before the end something is left.
LEMMA SomethingIsLeft ==
    /\ FromConnect # <<>> /\ FromTypes # <<>> /\ FromTlds # <<>> /\ FromTldRows # <<>>
    /\ FromCasts # <<>> /\ FromMsar # <<>> /\ FromJoins # <<>>
BY DEF FromJoins, FromMsar, FromCasts, FromTldRows, FromTlds, FromTypes, FromConnect

\* The set-up under way is the only one.
LEMMA JobIsTheSetup ==
    ASSUME SetupOK, setup # {}
    PROVE  setup = {Job} /\ JobOK(Job) /\ Progress(Job)
<1>1. Job \in setup
  BY DEF Job
<1> QED BY <1>1 DEF SetupOK

-----------------------------------------------------------------------------
(***************************************************************************)
(* Every action keeps the invariant.                                       *)
(***************************************************************************)
\* The rows that are found or will be entered fit together.
LEMMA RowsFound ==
    ASSUME DatabaseSetupInv, SetupAssumption,
           NEW u \in Users, NEW host \in Hosts, NEW name \in Names, NEW role \in Roles,
           NEW password \in Passwords, NEW create, NEW data, NEW rows,
           rows = SetupRows(u, host, name, role, password, create, data),
           ~HasOtherRole(u, rows.database, rows.role, host)
    PROVE  /\ RowsFit(rows) /\ rows.user = u /\ rows.gone = {} /\ rows.database = DatabaseId(host, name)
           /\ rows.left = FromConnect /\ ("database" \in rows.new <=> DatabaseId(host, name) = nextId)
<1> DEFINE d == DatabaseId(host, name)
<1>1. /\ DOMAIN rows = JobFields /\ rows.database = d /\ rows.place = <<host, name>>
      /\ rows.user = u /\ rows.role = <<host, role>> /\ rows.given = password
      /\ rows.gone = {} /\ rows.left = FromConnect
      /\ rows.new \subseteq {"database", "role", "map"}
      /\ "database" \in rows.new <=> d = nextId
      /\ "role" \in rows.new <=> <<host, role>> \notin DOMAIN configuredRoles
      /\ "map" \in rows.new <=> <<u, d>> \notin DOMAIN maps
  BY EverythingIsLeft DEF SetupRows, JobFields
<1>2. MaxIds \in Nat
  BY DEF SetupAssumption
<1>3. \/ d \in DOMAIN databases /\ databases[d] = <<host, name>>
      \/ d = nextId /\ \A e \in DOMAIN databases : databases[e] # <<host, name>>
  BY DEF DatabaseId
<1> HIDE DEF d
<1>4. nextId \notin DOMAIN databases /\ <<u, nextId>> \notin DOMAIN maps
  BY <1>2 DEF DatabaseSetupInv, DjangoRowsOK
<1>5. "role" \in rows.new => "map" \in rows.new
  <2>1. SUFFICES ASSUME <<u, d>> \in DOMAIN maps
                 PROVE  <<host, role>> \in DOMAIN configuredRoles
    BY <1>1
  <2>2. maps[<<u, d>>] = [role |-> <<host, role>>, server |-> host]
    BY <1>1, <2>1 DEF HasOtherRole
  <2>3. maps[<<u, d>>].role = <<host, role>>
    BY <2>2
  <2>4. maps[<<u, d>>].role \in DOMAIN configuredRoles
    BY <2>1 DEF DatabaseSetupInv, DjangoRowsOK
  <2> QED BY <2>3, <2>4
<1>6. RowsFit(rows)
  BY <1>1, <1>3, <1>4, <1>5 DEF RowsFit, Places, Keys
<1> QED BY <1>1, <1>6 DEF d

\* A set-up that begins finds rows or will enter them.
LEMMA SetupBegins ==
    ASSUME DatabaseSetupInv, SetupAssumption,
           NEW u \in Users, NEW host \in Hosts, NEW name \in Names, NEW role \in Roles,
           NEW password \in Passwords, NEW create, NEW data \in Samples,
           _setup_connection_models(u, host, name, role, password, create, data)
    PROVE  DatabaseSetupInv'
<1> DEFINE d == DatabaseId(host, name)
<1> PICK job : job = SetupRows(u, host, name, role, password, create, data)
  OBVIOUS
<1>1. /\ ~HasOtherRole(u, job.database, job.role, host) /\ nextId <= MaxIds
      /\ nextId' = IF "database" \in job.new THEN nextId + 1 ELSE nextId
      /\ setup' = {job}
      /\ UNCHANGED <<servers, databases, configuredRoles, maps, passwords, parts, samples, bare>>
  BY DEF _setup_connection_models, serverSide
<1>2. RowsFit(job) /\ job.database = d /\ job.left = FromConnect /\ ("database" \in job.new <=> d = nextId)
  BY <1>1, RowsFound
<1>3. MaxIds \in Nat /\ nextId \in 1 .. MaxIds + 1
  BY DEF SetupAssumption, DatabaseSetupInv, DjangoRowsOK
<1>4. d \in DOMAIN databases \/ d = nextId
  BY DEF DatabaseId
<1> HIDE DEF d
<1>5. nextId' \in 1 .. MaxIds + 1 /\ nextId <= nextId'
  BY <1>1, <1>3
<1>6. DjangoRowsOK'
  BY <1>1, <1>3, <1>5 DEF DatabaseSetupInv, DjangoRowsOK
<1>7. ServersOK'
  BY <1>1 DEF DatabaseSetupInv, ServersOK
<1>8. Registered'
  BY <1>1 DEF DatabaseSetupInv, Registered, IsInstalled
<1>9. JobOK(job)'
  <2>1. job.database \in 1 .. nextId' - 1
    BY <1>1, <1>2, <1>3, <1>4 DEF DatabaseSetupInv, DjangoRowsOK
  <2>2. RowsFit(job)'
    BY <1>1, <1>2 DEF RowsFit
  <2> QED BY <2>1, <2>2 DEF JobOK
<1>10. SetupOK'
  BY <1>1, <1>2, <1>9 DEF SetupOK, Progress
<1> QED BY <1>6, <1>7, <1>8, <1>10 DEF DatabaseSetupInv

\* A set-up that goes on keeps everything but what is left.
LEMMA JobGoesOn ==
    ASSUME JobOK(Job), NEW left, NEW job, job = [Job EXCEPT !.left = left], UNCHANGED djangoRows
    PROVE  JobOK(job)' /\ job.left = left /\ job.place = Job.place
<1>1. /\ DOMAIN job = JobFields /\ job.left = left /\ job.place = Job.place
      /\ job.database = Job.database /\ job.user = Job.user /\ job.role = Job.role
      /\ job.given = Job.given /\ job.new = Job.new /\ job.gone = Job.gone
  BY DEF JobOK, RowsFit, JobFields
<1> QED BY <1>1 DEF JobOK, RowsFit, djangoRows

\* Opening the database.
LEMMA ConnectKeeps ==
    ASSUME DatabaseSetupInv, Connect
    PROVE  DatabaseSetupInv'
<1> PICK job : job = [Job EXCEPT !.left = Tail(Job.left)]
  OBVIOUS
<1>1. /\ setup # {} /\ Head(Job.left) = "connect" /\ Job.left # <<>>
      /\ parts' = parts ++ Single(Job.place, {})
      /\ samples' = samples ++ Single(Job.place, {})
      /\ setup' = {job}
      /\ UNCHANGED djangoRows /\ UNCHANGED <<passwords, bare>>
  BY DEF Connect
<1>2. SetupOK /\ JobOK(Job) /\ Progress(Job)
  BY <1>1, JobIsTheSetup DEF DatabaseSetupInv
<1>3. JobOK(job)' /\ job.left = Tail(Job.left) /\ job.place = Job.place
  BY <1>1, <1>2, JobGoesOn
<1>4. Job.left = FromConnect
  BY <1>1, <1>2, StepsAreNamed DEF Progress
<1>5. /\ DOMAIN parts' = DOMAIN parts \cup {Job.place}
      /\ \A p \in DOMAIN parts : parts'[p] = parts[p]
      /\ Job.place \notin DOMAIN parts => parts'[Job.place] = {}
      /\ DOMAIN samples' = DOMAIN samples \cup {Job.place}
  <2> DEFINE p == Job.place
  <2>1. parts' = parts ++ Single(p, {}) /\ samples' = samples ++ Single(p, {})
    BY <1>1
  <2> HIDE DEF p
  <2>2. /\ DOMAIN parts' = DOMAIN parts \cup {p}
        /\ \A q \in DOMAIN parts : parts'[q] = parts[q]
        /\ p \notin DOMAIN parts => parts'[p] = {}
    BY <2>1 DEF ++, Single
  <2>3. DOMAIN samples' = DOMAIN samples \cup {p}
    BY <2>1 DEF ++, Single
  <2> QED BY <2>2, <2>3 DEF p
<1>6. parts' = [p \in DOMAIN parts' |-> parts'[p]]
  BY <1>1 DEF ++
<1>7. DjangoRowsOK'
  BY <1>1 DEF DatabaseSetupInv, DjangoRowsOK, djangoRows
<1>8. ServersOK'
  BY <1>1, <1>2, <1>5, <1>6 DEF DatabaseSetupInv, ServersOK, JobOK, RowsFit
<1>9. SetupOK'
  BY <1>1, <1>3, <1>4, <1>5, StepsFollow DEF SetupOK, Progress, Has
<1>10. Registered'
  BY <1>1, <1>5 DEF DatabaseSetupInv, Registered, IsInstalled, djangoRows
<1> QED BY <1>7, <1>8, <1>9, <1>10 DEF DatabaseSetupInv

\* Installing the next part.
LEMMA InstallKeeps ==
    ASSUME DatabaseSetupInv, install_mathesar
    PROVE  DatabaseSetupInv'
<1> DEFINE left == IF Head(Job.left) = "tlds" /\ "tlds" \in parts[Job.place]
                   THEN Tail(Tail(Job.left)) ELSE Tail(Job.left)
<1> PICK job : job = [Job EXCEPT !.left = left]
  OBVIOUS
<1>1. /\ setup # {} /\ Head(Job.left) # "connect" /\ Job.left # <<>>
      /\ Job.place \in DOMAIN parts
      /\ parts' = [parts EXCEPT ![Job.place] = parts[Job.place] \cup {Head(Job.left)}]
      /\ setup' = {job}
      /\ UNCHANGED djangoRows /\ UNCHANGED <<passwords, samples, bare>>
  BY DEF install_mathesar
<1>2. SetupOK /\ JobOK(Job) /\ Progress(Job)
  BY <1>1, JobIsTheSetup DEF DatabaseSetupInv
<1>3. JobOK(job)' /\ job.left = left /\ job.place = Job.place
  BY <1>1, <1>2, JobGoesOn
<1>4. /\ DOMAIN parts' = DOMAIN parts
      /\ parts'[Job.place] = parts[Job.place] \cup {Head(Job.left)}
      /\ \A p \in DOMAIN parts : parts[p] \subseteq parts'[p]
  BY <1>1
<1>5. Head(Job.left) \in Parts /\ Progress(job)'
  <2>1. CASE Job.left = FromConnect
    BY <2>1, <1>1, StepsAreNamed
  <2>2. CASE Job.left = FromTypes /\ Has(Job, {})
    BY <2>2, <1>3, <1>4, StepsFollow, StepsAreNamed, PartsAre DEF Progress, Has
  <2>3. CASE Job.left = FromTlds /\ Has(Job, {"types"})
    <3>1. Head(Job.left) = "tlds" /\ Tail(Job.left) = FromTldRows /\ Tail(Tail(Job.left)) = FromCasts
      BY <2>3, StepsFollow, StepsAreNamed
    <3> QED BY <2>3, <3>1, <1>3, <1>4, PartsAre DEF Progress, Has
  <2>4. CASE Job.left = FromTldRows /\ Has(Job, {"types", "tlds"})
    BY <2>4, <1>3, <1>4, StepsFollow, StepsAreNamed, PartsAre DEF Progress, Has
  <2>5. CASE Job.left = FromCasts /\ Has(Job, {"types", "tlds"})
    BY <2>5, <1>3, <1>4, StepsFollow, StepsAreNamed, PartsAre DEF Progress, Has
  <2>6. CASE Job.left = FromMsar /\ Has(Job, {"types", "tlds", "casts"})
    BY <2>6, <1>3, <1>4, StepsFollow, StepsAreNamed, PartsAre DEF Progress, Has
  <2>7. CASE Job.left = FromJoins /\ Has(Job, {"types", "tlds", "casts", "msar"})
    BY <2>7, <1>3, <1>4, StepsFollow, StepsAreNamed, PartsAre DEF Progress, Has
  <2> QED BY <2>1, <2>2, <2>3, <2>4, <2>5, <2>6, <2>7, <1>1, <1>2 DEF Progress
<1>6. DjangoRowsOK'
  BY <1>1 DEF DatabaseSetupInv, DjangoRowsOK, djangoRows
<1>7. ServersOK'
  BY <1>1, <1>5 DEF DatabaseSetupInv, ServersOK
<1>8. SetupOK'
  BY <1>1, <1>3, <1>5 DEF SetupOK
<1>9. Registered'
  BY <1>1, <1>4 DEF DatabaseSetupInv, Registered, IsInstalled, djangoRows
<1> QED BY <1>6, <1>7, <1>8, <1>9 DEF DatabaseSetupInv

\* What the rows are when those that were not there have been entered.
Entered(s) ==
    /\ servers' = servers \cup {s.place[1]}
    /\ \A d \in DOMAIN databases : d \in DOMAIN databases' /\ databases'[d] = databases[d]
    /\ DOMAIN databases' = DOMAIN databases \cup {d \in {s.database} : "database" \in s.new}
    /\ s.database \in DOMAIN databases' => databases'[s.database] = s.place
    /\ \A key \in DOMAIN configuredRoles : configuredRoles'[key] = configuredRoles[key]
    /\ DOMAIN configuredRoles' = DOMAIN configuredRoles \cup {key \in {s.role} : "role" \in s.new}
    /\ "role" \in s.new => configuredRoles'[s.role] = s.given
    /\ \A x \in DOMAIN maps : maps'[x] = maps[x]
    /\ DOMAIN maps' = DOMAIN maps \cup {x \in {<<s.user, s.database>>} : "map" \in s.new}
    /\ "map" \in s.new => maps'[<<s.user, s.database>>] = [role |-> s.role, server |-> s.place[1]]
    /\ databases' = [d \in DOMAIN databases' |-> databases'[d]]
    /\ configuredRoles' = [key \in DOMAIN configuredRoles' |-> configuredRoles'[key]]
    /\ maps' = [y \in DOMAIN maps' |-> maps'[y]]

\* Entering rows leaves them so.
LEMMA RowsEntered ==
    ASSUME DjangoRowsOK, NEW s, RowsFit(s), EnterRows(s)
    PROVE  Entered(s)
<1>1. /\ \A d \in DOMAIN databases : d \in DOMAIN databases' /\ databases'[d] = databases[d]
      /\ DOMAIN databases' = DOMAIN databases \cup {d \in {s.database} : "database" \in s.new}
      /\ s.database \in DOMAIN databases' => databases'[s.database] = s.place
  <2>1. CASE "database" \in s.new
    <3>1. databases' = databases ++ Single(s.database, s.place)
      BY <2>1 DEF EnterRows
    <3> QED BY <2>1, <3>1 DEF RowsFit, ++, Single
  <2>2. CASE "database" \notin s.new
    <3>1. databases' = databases
      BY <2>2 DEF EnterRows
    <3> QED BY <2>2, <3>1 DEF RowsFit
  <2> QED BY <2>1, <2>2
<1>2. /\ \A key \in DOMAIN configuredRoles : configuredRoles'[key] = configuredRoles[key]
      /\ DOMAIN configuredRoles' = DOMAIN configuredRoles \cup {key \in {s.role} : "role" \in s.new}
      /\ "role" \in s.new => configuredRoles'[s.role] = s.given
  <2>1. CASE "role" \in s.new
    <3>1. configuredRoles' = configuredRoles ++ Single(s.role, s.given)
      BY <2>1 DEF EnterRows
    <3> QED BY <2>1, <3>1 DEF RowsFit, ++, Single
  <2>2. CASE "role" \notin s.new
    <3>1. configuredRoles' = configuredRoles
      BY <2>2 DEF EnterRows
    <3> QED BY <2>2, <3>1
  <2> QED BY <2>1, <2>2
<1>3. /\ \A x \in DOMAIN maps : maps'[x] = maps[x]
      /\ DOMAIN maps' = DOMAIN maps \cup {x \in {<<s.user, s.database>>} : "map" \in s.new}
      /\ "map" \in s.new => maps'[<<s.user, s.database>>] = [role |-> s.role, server |-> s.place[1]]
  <2>1. CASE "map" \in s.new
    <3>1. maps' = maps ++ Single(<<s.user, s.database>>, [role |-> s.role, server |-> s.place[1]])
      BY <2>1 DEF EnterRows
    <3>2. <<s.user, s.database>> \notin DOMAIN maps
      BY <2>1 DEF RowsFit
    <3> QED BY <2>1, <3>1, <3>2 DEF ++, Single
  <2>2. CASE "map" \notin s.new
    <3>1. maps' = maps
      BY <2>2 DEF EnterRows
    <3> QED BY <2>2, <3>1
  <2> QED BY <2>1, <2>2
<1>4. /\ databases' = [d \in DOMAIN databases' |-> databases'[d]]
      /\ configuredRoles' = [key \in DOMAIN configuredRoles' |-> configuredRoles'[key]]
      /\ maps' = [y \in DOMAIN maps' |-> maps'[y]]
  BY DEF EnterRows, DjangoRowsOK, ++
<1> QED BY <1>1, <1>2, <1>3, <1>4 DEF EnterRows, Entered

\* Rows that are entered refer to rows that are there, if none of those that were found went.
LEMMA EnteredRowsRefer ==
    ASSUME DjangoRowsOK, SetupAssumption, NEW job, RowsFit(job), job.gone = {}, EnterRows(job),
           nextId' \in 1 .. MaxIds + 1, nextId <= nextId', job.database \in 1 .. nextId' - 1
    PROVE  DjangoRowsOK'
<1>1. MaxIds \in Nat /\ nextId \in 1 .. MaxIds + 1
  BY DEF SetupAssumption, DjangoRowsOK
<1>0. Entered(job)
  BY RowsEntered
<1>2. /\ job.user \in Users /\ job.place \in Places /\ job.role \in Keys /\ job.role[1] = job.place[1]
      /\ job.given \in Passwords /\ job.place[1] \in Hosts
  BY DEF RowsFit, Places
<1>3. servers' \subseteq Hosts /\ servers \subseteq servers' /\ job.place[1] \in servers'
  BY <1>2, <1>0 DEF Entered, DjangoRowsOK
<1>4. /\ databases' \in [DOMAIN databases' -> Places] /\ DOMAIN databases' \subseteq 1 .. nextId' - 1
      /\ \A d \in DOMAIN databases' : databases'[d][1] \in servers'
  <2>1. ASSUME NEW d \in DOMAIN databases'
        PROVE  databases'[d] \in Places /\ d \in 1 .. nextId' - 1 /\ databases'[d][1] \in servers'
    <3>1. CASE d \in DOMAIN databases
      <4>1. databases'[d] = databases[d] /\ d \in 1 .. nextId - 1 /\ databases[d] \in Places /\ databases[d][1] \in servers
        BY <3>1, <1>0 DEF Entered, DjangoRowsOK
      <4> QED BY <4>1, <1>1, <1>3
    <3>2. CASE d = job.database
      BY <3>2, <1>2, <1>3, <1>0 DEF Entered
    <3> QED BY <3>1, <3>2, <1>0 DEF Entered
  <2> QED BY <2>1, <1>0 DEF Entered
<1>5. IsInjective(databases)'
  BY <1>0 DEF Entered, DjangoRowsOK, IsInjective, RowsFit
<1>6. /\ configuredRoles' \in [DOMAIN configuredRoles' -> Passwords]
      /\ DOMAIN configuredRoles' \subseteq Keys
      /\ \A key \in DOMAIN configuredRoles' : key[1] \in servers'
  BY <1>2, <1>3, <1>0 DEF Entered, DjangoRowsOK
<1>7. \A y \in DOMAIN maps' : /\ y \in Users \X (1 .. nextId' - 1) /\ y[2] \in DOMAIN databases'
                              /\ maps'[y] \in [role : Keys, server : Hosts]
                              /\ maps'[y].role \in DOMAIN configuredRoles' /\ maps'[y].server \in servers'
  <2>1. ASSUME NEW y \in DOMAIN maps
        PROVE  /\ y \in Users \X (1 .. nextId' - 1) /\ y[2] \in DOMAIN databases'
               /\ maps'[y] \in [role : Keys, server : Hosts]
               /\ maps'[y].role \in DOMAIN configuredRoles' /\ maps'[y].server \in servers'
    <3>1. /\ y \in Users \X (1 .. nextId - 1) /\ y[2] \in DOMAIN databases
          /\ maps[y] \in [role : Keys, server : Hosts]
          /\ maps[y].role \in DOMAIN configuredRoles /\ maps[y].server \in servers
      BY DEF DjangoRowsOK
    <3>2. y \in Users \X (1 .. nextId' - 1)
      BY <3>1, <1>1
    <3> QED BY <3>1, <3>2, <1>3, <1>0 DEF Entered
  <2>2. ASSUME "map" \in job.new, NEW y, y = <<job.user, job.database>>
        PROVE  /\ y \in Users \X (1 .. nextId' - 1) /\ y[2] \in DOMAIN databases'
               /\ maps'[y] \in [role : Keys, server : Hosts]
               /\ maps'[y].role \in DOMAIN configuredRoles' /\ maps'[y].server \in servers'
    <3>1. maps'[y] = [role |-> job.role, server |-> job.place[1]]
      BY <2>2, <1>0 DEF Entered
    <3>2. job.role \in DOMAIN configuredRoles' /\ job.database \in DOMAIN databases'
      BY <2>2, <1>0 DEF Entered, RowsFit
    <3> QED BY <2>2, <3>1, <3>2, <1>2, <1>3
  <2> QED BY <2>1, <2>2, <1>0 DEF Entered
<1>8. maps' \in [DOMAIN maps' -> [role : Keys, server : Hosts]]
  BY <1>7, <1>0 DEF Entered
<1> QED BY <1>3, <1>4, <1>5, <1>6, <1>7, <1>8 DEF DjangoRowsOK

\* The last step of a set-up finds what the others have left behind.
LEMMA LoadDataFinds ==
    ASSUME DatabaseSetupInv, LoadData
    PROVE  /\ JobOK(Job) /\ Job.left = <<>> /\ Has(Job, Parts \ {"tld_rows"}) /\ setup' = {}
           /\ Opens(Job) /\ DOMAIN samples' = DOMAIN samples
<1>1. setup # {} /\ Job.left = <<>> /\ Opens(Job) /\ setup' = {}
  BY DEF LoadData
<1>2. JobOK(Job) /\ Progress(Job)
  BY <1>1, JobIsTheSetup DEF DatabaseSetupInv
<1>3. Job.place \in DOMAIN parts
  BY <1>1 DEF Opens, CanConnect
<1>4. Has(Job, Parts \ {"tld_rows"})
  BY <1>1, <1>2, <1>3, SomethingIsLeft DEF Progress
<1>5. DOMAIN samples' = DOMAIN samples
  BY DEF LoadData
<1> QED BY <1>1, <1>2, <1>4, <1>5

\* The end of a set-up.
LEMMA FinishKeeps ==
    ASSUME DatabaseSetupInv, SetupAssumption, FinishSetup
    PROVE  DatabaseSetupInv'
<1>1. PICK job : job = Job
  OBVIOUS
<1>2. /\ JobOK(job) /\ Has(job, Parts \ {"tld_rows"}) /\ setup' = {} /\ DOMAIN samples' = DOMAIN samples
      /\ job.gone = {} /\ EnterRows(job) /\ bare' = bare \ {job.place}
      /\ UNCHANGED <<nextId, passwords, parts>>
  BY <1>1, LoadDataFinds DEF FinishSetup
<1>3. DjangoRowsOK'
  <2>1. nextId \in 1 .. MaxIds + 1 /\ MaxIds \in Nat
    BY DEF DatabaseSetupInv, DjangoRowsOK, SetupAssumption
  <2>2. nextId' \in 1 .. MaxIds + 1 /\ nextId <= nextId' /\ job.database \in 1 .. nextId' - 1
    BY <1>2, <2>1 DEF JobOK
  <2> QED BY <1>2, <2>2, EnteredRowsRefer DEF DatabaseSetupInv, JobOK
<1>4. ServersOK'
  BY <1>2 DEF DatabaseSetupInv, ServersOK
<1>5. SetupOK'
  BY <1>2 DEF SetupOK
<1>6. Registered'
  <2>1. IsInstalled(job.place)'
    BY <1>2 DEF IsInstalled, Has
  <2>2. \A place : place # job.place /\ IsInstalled(place) => IsInstalled(place)'
    BY <1>2 DEF IsInstalled
  <2>0. Entered(job)
    BY <1>2, RowsEntered DEF DatabaseSetupInv, JobOK
  <2>3. \A d \in DOMAIN databases' : databases'[d] = job.place \/ (d \in DOMAIN databases /\ databases'[d] = databases[d])
    BY <2>0 DEF Entered
  <2> QED BY <2>1, <2>2, <2>3 DEF DatabaseSetupInv, Registered
<1> QED BY <1>3, <1>4, <1>5, <1>6 DEF DatabaseSetupInv

\* A set-up whose commit is refused or never reached.
LEMMA LoseKeeps ==
    ASSUME DatabaseSetupInv, LoseSetup
    PROVE  DatabaseSetupInv'
<1>1. /\ setup' = {} /\ DOMAIN samples' = DOMAIN samples
      /\ UNCHANGED djangoRows /\ UNCHANGED <<passwords, parts, bare>>
  BY LoadDataFinds DEF LoseSetup
<1>2. DjangoRowsOK' /\ ServersOK' /\ Registered'
  BY <1>1 DEF DatabaseSetupInv, DjangoRowsOK, ServersOK, Registered, IsInstalled, djangoRows
<1> QED BY <1>1, <1>2 DEF DatabaseSetupInv, SetupOK

\* A set-up that breaks.
LEMMA BreakKeeps ==
    ASSUME DatabaseSetupInv, BreakSetup
    PROVE  DatabaseSetupInv'
<1>1. setup' = {} /\ UNCHANGED djangoRows /\ UNCHANGED serverSide
  BY DEF BreakSetup
<1>2. DjangoRowsOK' /\ ServersOK' /\ Registered'
  BY <1>1 DEF DatabaseSetupInv, DjangoRowsOK, ServersOK, Registered, IsInstalled, djangoRows, serverSide
<1> QED BY <1>1, <1>2 DEF DatabaseSetupInv, SetupOK

\* The rows of an old-style connection: those that are new refer to those that are there,
\* and a set-up under way has entered none of them.
LEMMA MigrationEnters ==
    ASSUME DatabaseSetupInv, SetupAssumption,
           NEW u \in Users, NEW host \in Hosts, NEW name \in Names, NEW role \in Roles, NEW password \in Passwords,
           migrate_connection_for_user(u, host, name, role, password)
    PROVE  \E rows :
             /\ RowsFit(rows) /\ rows.gone = {} /\ EnterRows(rows) /\ rows.database \in 1 .. nextId' - 1
             /\ ~Enters(rows.user, rows.database, rows.role) /\ ~EntersPlace(rows.place)
             /\ nextId' = IF "database" \in rows.new THEN nextId + 1 ELSE nextId
             /\ "database" \in rows.new => rows.database = nextId
             /\ nextId <= MaxIds
             /\ bare' = IF "database" \in rows.new THEN bare \cup {rows.place} ELSE bare
             /\ UNCHANGED <<setup, passwords, parts, samples>>
<1> DEFINE d == DatabaseId(host, name)
<1> PICK create, data : create = FALSE /\ data = <<>>
  OBVIOUS
<1> PICK rows : rows = SetupRows(u, host, name, role, password, create, data)
  OBVIOUS
<1>1. /\ ~HasOtherRole(u, rows.database, rows.role, host) /\ nextId <= MaxIds
      /\ ~Enters(u, rows.database, rows.role) /\ ~EntersPlace(rows.place)
      /\ nextId' = IF "database" \in rows.new THEN nextId + 1 ELSE nextId
      /\ EnterRows(rows)
      /\ bare' = IF "database" \in rows.new THEN bare \cup {rows.place} ELSE bare
      /\ UNCHANGED <<setup, passwords, parts, samples>>
  BY DEF migrate_connection_for_user
<1>2. RowsFit(rows) /\ rows.user = u /\ rows.gone = {} /\ rows.database = d /\ ("database" \in rows.new <=> d = nextId)
  BY <1>1, RowsFound
<1>3. rows.database \in 1 .. nextId' - 1
  <2>1. MaxIds \in Nat /\ nextId \in 1 .. MaxIds + 1 /\ (d \in DOMAIN databases \/ d = nextId)
    BY DEF SetupAssumption, DatabaseSetupInv, DjangoRowsOK, DatabaseId
  <2>2. d \in 1 .. nextId - 1 \/ d = nextId
    BY <2>1 DEF DatabaseSetupInv, DjangoRowsOK
  <2>3. nextId \notin 1 .. nextId - 1
    BY <2>1
  <2> HIDE DEF d
  <2>4. CASE d = nextId
    <3>1. nextId' = nextId + 1
      BY <1>1, <1>2, <2>4
    <3> QED BY <1>2, <2>1, <2>4, <3>1
  <2>5. CASE d \in 1 .. nextId - 1
    <3>1. nextId' = nextId
      BY <1>1, <1>2, <2>3, <2>5
    <3> QED BY <1>2, <2>5, <3>1
  <2> QED BY <2>2, <2>4, <2>5
<1> QED BY <1>1, <1>2, <1>3

\* An old-style connection is entered.
LEMMA MigrationKeeps ==
    ASSUME DatabaseSetupInv, SetupAssumption,
           NEW u \in Users, NEW host \in Hosts, NEW name \in Names, NEW role \in Roles, NEW password \in Passwords,
           migrate_connection_for_user(u, host, name, role, password)
    PROVE  DatabaseSetupInv' /\ DOMAIN databases \subseteq DOMAIN databases'
<1>1. PICK rows :
        /\ RowsFit(rows) /\ rows.gone = {} /\ EnterRows(rows) /\ rows.database \in 1 .. nextId' - 1
        /\ ~Enters(rows.user, rows.database, rows.role) /\ ~EntersPlace(rows.place)
        /\ nextId' = IF "database" \in rows.new THEN nextId + 1 ELSE nextId
        /\ "database" \in rows.new => rows.database = nextId
        /\ nextId <= MaxIds
        /\ bare' = IF "database" \in rows.new THEN bare \cup {rows.place} ELSE bare
        /\ UNCHANGED <<setup, passwords, parts, samples>>
  BY MigrationEnters
<1>0. Entered(rows)
  BY <1>1, RowsEntered DEF DatabaseSetupInv
<1>2. MaxIds \in Nat /\ nextId \in 1 .. MaxIds + 1
  BY DEF SetupAssumption, DatabaseSetupInv, DjangoRowsOK
<1>3. nextId' \in 1 .. MaxIds + 1 /\ nextId <= nextId'
  BY <1>1, <1>2
<1>4. DjangoRowsOK'
  BY <1>1, <1>3, EnteredRowsRefer DEF DatabaseSetupInv
<1>5. ServersOK'
  BY <1>1 DEF DatabaseSetupInv, ServersOK
<1>6. Registered'
  <2>1. \A place : IsInstalled(place) => IsInstalled(place)'
    BY <1>1 DEF IsInstalled
  <2>2. \A d \in DOMAIN databases' : \/ "database" \in rows.new /\ databases'[d] = rows.place
                                     \/ d \in DOMAIN databases /\ databases'[d] = databases[d]
    BY <1>0 DEF Entered
  <2>3. "database" \in rows.new => IsInstalled(rows.place)'
    BY <1>1 DEF IsInstalled
  <2> QED BY <2>1, <2>2, <2>3 DEF DatabaseSetupInv, Registered
<1>7. SetupOK'
  <2>1. ASSUME NEW s \in setup, JobOK(s) PROVE JobOK(s)'
    <3>1. s.database \in 1 .. nextId' - 1 /\ s.database # nextId
      BY <1>2, <1>3, <2>1 DEF JobOK
    <3>2. /\ "map" \in s.new => <<s.user, s.database>> # <<rows.user, rows.database>>
          /\ "role" \in s.new => s.role # rows.role
          /\ "database" \in s.new => s.place # rows.place
      BY <1>1 DEF Enters, EntersPlace
    <3>3. /\ s.database \in DOMAIN databases' => databases'[s.database] = s.place
          /\ "database" \in s.new => /\ s.database \notin DOMAIN databases'
                                     /\ \A d \in DOMAIN databases' : databases'[d] # s.place
      BY <1>1, <2>1, <3>1, <3>2, <1>0 DEF Entered, DatabaseSetupInv, JobOK, RowsFit
    <3>4. /\ "role" \in s.new => s.role \notin DOMAIN configuredRoles'
          /\ "map" \in s.new => <<s.user, s.database>> \notin DOMAIN maps'
      BY <1>1, <2>1, <3>2, <1>0 DEF Entered, DatabaseSetupInv, JobOK, RowsFit
    <3>5. DOMAIN databases \subseteq DOMAIN databases' /\ DOMAIN configuredRoles \subseteq DOMAIN configuredRoles'
      BY <1>0 DEF Entered
    <3> QED BY <2>1, <3>1, <3>3, <3>4, <3>5 DEF JobOK, RowsFit
  <2> QED BY <1>1, <2>1 DEF DatabaseSetupInv, SetupOK, Progress, Has
<1>8. DOMAIN databases \subseteq DOMAIN databases'
  BY <1>0 DEF Entered
<1> QED BY <1>4, <1>5, <1>6, <1>7, <1>8 DEF DatabaseSetupInv

\* A set-up stays what it was when rows it has not found nor entered change.
LEMMA JobStays ==
    ASSUME SetupOK, UNCHANGED <<nextId, setup, parts>>,
           \A s \in setup : JobOK(s) => JobOK(s)'
    PROVE  SetupOK'
BY DEF SetupOK, Progress, Has

\* A set-up stays what it was when rows it may have found go, which is noted.
LEMMA JobNotes ==
    ASSUME SetupOK, NEW row, NEW S, setup' = Losing(row, S), UNCHANGED <<nextId, parts>>,
           \A s \in setup : s \notin S /\ JobOK(s) => JobOK(s)',
           \A s \in setup \cap S : \A t : (/\ JobOK(s) /\ DOMAIN t = DOMAIN s /\ t.gone = s.gone \cup {row}
                                           /\ \A x \in DOMAIN s \ {"gone"} : t[x] = s[x]) => JobOK(t)'
    PROVE  SetupOK'
<1> DEFINE Noted(s) == [s EXCEPT !.gone = IF s \in S THEN s.gone \cup {row} ELSE s.gone]
<1>1. setup' = {Noted(s) : s \in setup}
  BY DEF Losing
<1>2. ASSUME NEW s \in setup PROVE JobOK(Noted(s))' /\ Progress(Noted(s))'
  <2>1. JobOK(s) /\ Progress(s)
    BY DEF SetupOK
  <2>2. DOMAIN s = JobFields
    BY <2>1 DEF JobOK, RowsFit
  <2>3. PICK t : t = Noted(s)
    OBVIOUS
  <2>4. /\ DOMAIN t = DOMAIN s /\ \A x \in DOMAIN s \ {"gone"} : t[x] = s[x]
        /\ t.gone = IF s \in S THEN s.gone \cup {row} ELSE s.gone
    BY <2>2, <2>3 DEF JobFields
  <2>5. JobOK(t)'
    <3>1. CASE s \in S
      BY <2>1, <2>4, <3>1
    <3>2. CASE s \notin S
      <4>1. JobOK(s)'
        BY <2>1, <3>2
      <4>2. t.gone = s.gone /\ t.user = s.user /\ t.place = s.place /\ t.role = s.role /\ t.given = s.given
            /\ t.new = s.new /\ t.database = s.database /\ DOMAIN t = JobFields
        BY <2>2, <2>4, <3>2 DEF JobFields
      <4> QED BY <4>1, <4>2 DEF JobOK, RowsFit
    <3> QED BY <3>1, <3>2
  <2>6. t.left = s.left /\ t.place = s.place
    BY <2>2, <2>4 DEF JobFields
  <2>7. Progress(t)'
    BY <2>1, <2>6 DEF Progress, Has
  <2> QED BY <2>3, <2>5, <2>7
<1> HIDE DEF Noted
<1> QED BY <1>1, <1>2 DEF SetupOK

\* A collaborator is added.
LEMMA AddCollaboratorKeeps ==
    ASSUME DatabaseSetupInv, NEW u \in Users, NEW d \in DOMAIN databases,
           NEW key \in DOMAIN configuredRoles, collaborators_add(u, d, key)
    PROVE  DatabaseSetupInv'
<1>1. /\ <<u, d>> \notin DOMAIN maps /\ ~Enters(u, d, key)
      /\ maps' = maps ++ Single(<<u, d>>, [role |-> key, server |-> key[1]])
      /\ UNCHANGED <<servers, databases, configuredRoles, nextId, setup, passwords, parts, samples, bare>>
  BY DEF collaborators_add, serverSide
<1>2. /\ DOMAIN maps' = DOMAIN maps \cup {<<u, d>>}
      /\ maps' = [x \in DOMAIN maps' |-> maps'[x]]
      /\ \A x \in DOMAIN maps : maps'[x] = maps[x]
      /\ maps'[<<u, d>>] = [role |-> key, server |-> key[1]]
  BY <1>1 DEF ++, Single
<1>3. key \in Keys /\ key[1] \in servers /\ key[1] \in Hosts /\ d \in 1 .. nextId - 1
  BY DEF DatabaseSetupInv, DjangoRowsOK
<1>4. \A x \in DOMAIN maps' : /\ maps'[x] \in [role : Keys, server : Hosts]
                              /\ x \in Users \X (1 .. nextId - 1) /\ x[2] \in DOMAIN databases
                              /\ maps'[x].role \in DOMAIN configuredRoles /\ maps'[x].server \in servers
  <2>1. ASSUME NEW x \in DOMAIN maps
        PROVE  /\ maps[x] \in [role : Keys, server : Hosts]
               /\ x \in Users \X (1 .. nextId - 1) /\ x[2] \in DOMAIN databases
               /\ maps[x].role \in DOMAIN configuredRoles /\ maps[x].server \in servers
    BY DEF DatabaseSetupInv, DjangoRowsOK
  <2> QED BY <2>1, <1>2, <1>3
<1>5. DjangoRowsOK'
  BY <1>1, <1>2, <1>4 DEF DatabaseSetupInv, DjangoRowsOK
<1>6. ServersOK' /\ Registered'
  BY <1>1 DEF DatabaseSetupInv, ServersOK, Registered, IsInstalled
<1>7. \A s \in setup : JobOK(s) => JobOK(s)'
  BY <1>1, <1>2 DEF Enters, JobOK, RowsFit
<1> QED BY <1>1, <1>5, <1>6, <1>7, JobStays DEF DatabaseSetupInv

\* Rows of maps that go take nothing along.
LEMMA FewerMapsKeep ==
    ASSUME DatabaseSetupInv, NEW S, S \subseteq DOMAIN maps, maps' = Restrict(maps, S),
           UNCHANGED <<servers, databases, configuredRoles, nextId, setup, serverSide>>
    PROVE  DatabaseSetupInv'
<1>1. /\ DOMAIN maps' = S /\ maps' = [x \in DOMAIN maps' |-> maps'[x]]
      /\ \A x \in S : maps'[x] = maps[x]
  BY DEF Restrict
<1>2. \A x \in S : /\ maps'[x] \in [role : Keys, server : Hosts]
                   /\ x \in Users \X (1 .. nextId - 1) /\ x[2] \in DOMAIN databases
                   /\ maps'[x].role \in DOMAIN configuredRoles /\ maps'[x].server \in servers
  BY <1>1 DEF DatabaseSetupInv, DjangoRowsOK
<1>3. DjangoRowsOK'
  BY <1>1, <1>2 DEF DatabaseSetupInv, DjangoRowsOK
<1>4. ServersOK' /\ Registered'
  BY DEF DatabaseSetupInv, ServersOK, Registered, IsInstalled, serverSide
<1>5. \A s \in setup : JobOK(s) => JobOK(s)'
  BY <1>1 DEF JobOK, RowsFit
<1> QED BY <1>3, <1>4, <1>5, JobStays DEF DatabaseSetupInv, serverSide

\* A collaborator goes.
LEMMA DeleteCollaboratorKeeps ==
    ASSUME DatabaseSetupInv, NEW u, NEW d, collaborators_delete(u, d)
    PROVE  DatabaseSetupInv'
BY FewerMapsKeep DEF collaborators_delete

\* A collaborator gets another role.
LEMMA SetRoleKeeps ==
    ASSUME DatabaseSetupInv, NEW u, NEW d, NEW key \in DOMAIN configuredRoles,
           collaborators_set_role(u, d, key)
    PROVE  DatabaseSetupInv'
<1>1. /\ <<u, d>> \in DOMAIN maps /\ maps' = [maps EXCEPT ![<<u, d>>].role = key]
      /\ UNCHANGED <<servers, databases, configuredRoles, nextId, setup, passwords, parts, samples, bare>>
  BY DEF collaborators_set_role, serverSide
<1>2. key \in Keys
  BY DEF DatabaseSetupInv, DjangoRowsOK
<1>3. /\ DOMAIN maps' = DOMAIN maps /\ maps' = [x \in DOMAIN maps' |-> maps'[x]]
      /\ \A x \in DOMAIN maps : x # <<u, d>> => maps'[x] = maps[x]
      /\ maps'[<<u, d>>] = [maps[<<u, d>>] EXCEPT !.role = key]
  BY <1>1
<1>4. \A x \in DOMAIN maps' : /\ maps'[x] \in [role : Keys, server : Hosts]
                              /\ maps'[x].role \in DOMAIN configuredRoles /\ maps'[x].server \in servers
  <2>1. \A x \in DOMAIN maps : /\ maps[x] \in [role : Keys, server : Hosts]
                               /\ maps[x].role \in DOMAIN configuredRoles /\ maps[x].server \in servers
    BY DEF DatabaseSetupInv, DjangoRowsOK
  <2> QED BY <2>1, <1>1, <1>2, <1>3
<1>5. DjangoRowsOK'
  BY <1>1, <1>3, <1>4 DEF DatabaseSetupInv, DjangoRowsOK
<1>6. ServersOK' /\ Registered'
  BY <1>1 DEF DatabaseSetupInv, ServersOK, Registered, IsInstalled
<1>7. \A s \in setup : JobOK(s) => JobOK(s)'
  BY <1>1, <1>3 DEF JobOK, RowsFit
<1> QED BY <1>1, <1>5, <1>6, <1>7, JobStays DEF DatabaseSetupInv

\* A configured role is added.
LEMMA AddRoleKeeps ==
    ASSUME DatabaseSetupInv, NEW host, NEW role \in Roles, NEW password \in Passwords,
           roles_configured_add(host, role, password)
    PROVE  DatabaseSetupInv'
<1> PICK key : key = <<host, role>>
  OBVIOUS
<1>1. /\ host \in servers /\ key \notin DOMAIN configuredRoles /\ ~Enters("", 0, key)
      /\ configuredRoles' = configuredRoles ++ Single(key, password)
      /\ UNCHANGED <<servers, databases, maps, nextId, setup, passwords, parts, samples, bare>>
  BY DEF roles_configured_add, serverSide
<1>2. /\ DOMAIN configuredRoles' = DOMAIN configuredRoles \cup {key}
      /\ configuredRoles' = [x \in DOMAIN configuredRoles' |-> configuredRoles'[x]]
      /\ \A x \in DOMAIN configuredRoles : configuredRoles'[x] = configuredRoles[x]
      /\ configuredRoles'[key] = password
  BY <1>1 DEF ++, Single
<1>3. key \in Keys /\ key[1] = host
  BY <1>1 DEF DatabaseSetupInv, DjangoRowsOK, Keys
<1>4. \A x \in DOMAIN configuredRoles' : configuredRoles'[x] \in Passwords /\ x \in Keys /\ x[1] \in servers
  BY <1>1, <1>2, <1>3 DEF DatabaseSetupInv, DjangoRowsOK
<1>5. DjangoRowsOK'
  BY <1>1, <1>2, <1>4 DEF DatabaseSetupInv, DjangoRowsOK
<1>6. ServersOK' /\ Registered'
  BY <1>1 DEF DatabaseSetupInv, ServersOK, Registered, IsInstalled
<1>7. \A s \in setup : JobOK(s) => JobOK(s)'
  BY <1>1, <1>2 DEF Enters, JobOK, RowsFit
<1> QED BY <1>1, <1>5, <1>6, <1>7, JobStays DEF DatabaseSetupInv

\* A configured role goes, and the collaborators with it.
LEMMA DeleteRoleKeeps ==
    ASSUME DatabaseSetupInv, NEW key, roles_configured_delete(key)
    PROVE  DatabaseSetupInv'
<1>1. /\ setup' = Losing("role", {s \in setup : s.role = key})
      /\ configuredRoles' = Restrict(configuredRoles, DOMAIN configuredRoles \ {key})
      /\ maps' = Restrict(maps, {x \in DOMAIN maps : maps[x].role # key})
      /\ UNCHANGED <<servers, databases, nextId, passwords, parts, samples, bare>>
  <2>1. {x \in DOMAIN maps : x[2] \notin {} /\ maps[x].role \notin {key}} = {x \in DOMAIN maps : maps[x].role # key}
    OBVIOUS
  <2> QED BY <2>1 DEF roles_configured_delete, Remaining, serverSide
<1>2. /\ DOMAIN configuredRoles' = DOMAIN configuredRoles \ {key}
      /\ configuredRoles' = [x \in DOMAIN configuredRoles' |-> configuredRoles'[x]]
      /\ \A x \in DOMAIN configuredRoles' : configuredRoles'[x] = configuredRoles[x]
      /\ DOMAIN maps' = {x \in DOMAIN maps : maps[x].role # key}
      /\ maps' = [x \in DOMAIN maps' |-> maps'[x]]
      /\ \A x \in DOMAIN maps' : maps'[x] = maps[x]
  BY <1>1 DEF Restrict
<1>3. \A x \in DOMAIN maps' : /\ maps'[x] \in [role : Keys, server : Hosts]
                              /\ x \in Users \X (1 .. nextId - 1) /\ x[2] \in DOMAIN databases
                              /\ maps'[x].role \in DOMAIN configuredRoles' /\ maps'[x].server \in servers
  BY <1>2 DEF DatabaseSetupInv, DjangoRowsOK
<1>4. DjangoRowsOK'
  BY <1>1, <1>2, <1>3 DEF DatabaseSetupInv, DjangoRowsOK
<1>5. ServersOK' /\ Registered'
  BY <1>1 DEF DatabaseSetupInv, ServersOK, Registered, IsInstalled
<1>6. ASSUME NEW s \in setup, JobOK(s), s.role # key PROVE JobOK(s)'
  BY <1>1, <1>2, <1>6 DEF JobOK, RowsFit
<1>7. ASSUME NEW s \in setup, s.role = key, NEW t, JobOK(s), DOMAIN t = DOMAIN s, t.gone = s.gone \cup {"role"},
             \A x \in DOMAIN s \ {"gone"} : t[x] = s[x]
      PROVE  JobOK(t)'
  <2>1. /\ t.user = s.user /\ t.place = s.place /\ t.role = s.role /\ t.given = s.given
        /\ t.new = s.new /\ t.database = s.database /\ DOMAIN t = JobFields
    BY <1>7 DEF JobOK, RowsFit, JobFields
  <2> QED BY <1>1, <1>2, <1>7, <2>1 DEF JobOK, RowsFit
<1>8. SetupOK'
  BY <1>1, <1>6, <1>7, JobNotes DEF DatabaseSetupInv
<1> QED BY <1>4, <1>5, <1>8 DEF DatabaseSetupInv

\* A configured role gets another password.
LEMMA SetPasswordKeeps ==
    ASSUME DatabaseSetupInv, NEW key, NEW password \in Passwords,
           roles_configured_set_password(key, password)
    PROVE  DatabaseSetupInv'
<1>1. /\ configuredRoles' = [configuredRoles EXCEPT ![key] = password]
      /\ UNCHANGED <<servers, databases, maps, nextId, setup, passwords, parts, samples, bare>>
  BY DEF roles_configured_set_password, serverSide
<1>2. DjangoRowsOK'
  BY <1>1 DEF DatabaseSetupInv, DjangoRowsOK
<1>3. ServersOK' /\ Registered'
  BY <1>1 DEF DatabaseSetupInv, ServersOK, Registered, IsInstalled
<1>4. \A s \in setup : JobOK(s) => JobOK(s)'
  BY <1>1 DEF JobOK, RowsFit
<1> QED BY <1>1, <1>2, <1>3, <1>4, JobStays DEF DatabaseSetupInv

\* A database is forgotten, and the collaborators with it.
LEMMA DisconnectKeeps ==
    ASSUME DatabaseSetupInv, NEW d, databases_configured_disconnect(d)
    PROVE  DatabaseSetupInv'
<1>1. /\ setup' = Losing("database", {s \in setup : s.database = d})
      /\ databases' = Restrict(databases, DOMAIN databases \ {d})
      /\ maps' = Restrict(maps, {x \in DOMAIN maps : x[2] # d})
      /\ UNCHANGED <<servers, configuredRoles, nextId, passwords, parts, samples, bare>>
  <2>1. {x \in DOMAIN maps : x[2] \notin {d} /\ maps[x].role \notin {}} = {x \in DOMAIN maps : x[2] # d}
    OBVIOUS
  <2> QED BY <2>1 DEF databases_configured_disconnect, Remaining, serverSide
<1>2. /\ DOMAIN databases' = DOMAIN databases \ {d}
      /\ databases' = [x \in DOMAIN databases' |-> databases'[x]]
      /\ \A x \in DOMAIN databases' : databases'[x] = databases[x]
      /\ DOMAIN maps' = {x \in DOMAIN maps : x[2] # d}
      /\ maps' = [x \in DOMAIN maps' |-> maps'[x]]
      /\ \A x \in DOMAIN maps' : maps'[x] = maps[x]
  BY <1>1 DEF Restrict
<1>3. \A x \in DOMAIN maps' : /\ maps'[x] \in [role : Keys, server : Hosts]
                              /\ x \in Users \X (1 .. nextId - 1) /\ x[2] \in DOMAIN databases'
                              /\ maps'[x].role \in DOMAIN configuredRoles /\ maps'[x].server \in servers
  BY <1>2 DEF DatabaseSetupInv, DjangoRowsOK
<1>4. IsInjective(databases)'
  BY <1>2 DEF DatabaseSetupInv, DjangoRowsOK, IsInjective
<1>5. DjangoRowsOK'
  BY <1>1, <1>2, <1>3, <1>4 DEF DatabaseSetupInv, DjangoRowsOK
<1>6. ServersOK' /\ Registered'
  BY <1>1, <1>2 DEF DatabaseSetupInv, ServersOK, Registered, IsInstalled
<1>7. ASSUME NEW s \in setup, JobOK(s), s.database # d PROVE JobOK(s)'
  BY <1>1, <1>2, <1>7 DEF JobOK, RowsFit
<1>8. ASSUME NEW s \in setup, s.database = d, NEW t, JobOK(s), DOMAIN t = DOMAIN s, t.gone = s.gone \cup {"database"},
             \A x \in DOMAIN s \ {"gone"} : t[x] = s[x]
      PROVE  JobOK(t)'
  <2>1. /\ t.user = s.user /\ t.place = s.place /\ t.role = s.role /\ t.given = s.given
        /\ t.new = s.new /\ t.database = s.database /\ DOMAIN t = JobFields
    BY <1>8 DEF JobOK, RowsFit, JobFields
  <2> QED BY <1>1, <1>2, <1>8, <2>1 DEF JobOK, RowsFit
<1>9. SetupOK'
  BY <1>1, <1>7, <1>8, JobNotes DEF DatabaseSetupInv
<1> QED BY <1>5, <1>6, <1>9 DEF DatabaseSetupInv

\* A database is dropped.
LEMMA DropDatabaseKeeps ==
    ASSUME DatabaseSetupInv, NEW u, NEW d, NEW place, databases_delete(u, d, place)
    PROVE  DatabaseSetupInv'
<1>1. /\ place \in DOMAIN parts /\ ~\E s \in setup : s.place = place /\ IsInstalling(s)
      /\ parts' = Restrict(parts, DOMAIN parts \ {place})
      /\ samples' = Restrict(samples, DOMAIN samples \ {place})
      /\ bare' = bare \cup {place}
      /\ UNCHANGED djangoRows /\ UNCHANGED <<setup, passwords>>
  BY DEF databases_delete
<1>2. /\ DOMAIN parts' = DOMAIN parts \ {place} /\ DOMAIN samples' = DOMAIN samples \ {place}
      /\ parts' = [p \in DOMAIN parts' |-> parts'[p]]
      /\ \A p \in DOMAIN parts' : parts'[p] = parts[p]
  BY <1>1 DEF Restrict
<1>3. DjangoRowsOK'
  BY <1>1 DEF DatabaseSetupInv, DjangoRowsOK, djangoRows
<1>4. ServersOK'
  BY <1>1, <1>2 DEF DatabaseSetupInv, ServersOK
<1>5. Registered'
  BY <1>1, <1>2 DEF DatabaseSetupInv, Registered, IsInstalled, djangoRows
<1>6. ASSUME NEW s \in setup PROVE (JobOK(s) => JobOK(s)') /\ (Progress(s) => Progress(s)')
  <2>1. JobOK(s) => JobOK(s)'
    BY <1>1 DEF JobOK, RowsFit, djangoRows
  <2>2. CASE s.place = place
    <3>1. s.left = <<>> \/ Head(s.left) = "connect"
      BY <1>1, <2>2 DEF IsInstalling
    <3>2. Progress(s) => s.left = <<>> \/ s.left = FromConnect
      BY <3>1, StepsAreNamed DEF Progress
    <3>3. s.place \notin DOMAIN parts'
      BY <1>2, <2>2
    <3> QED BY <2>1, <3>2, <3>3 DEF Progress
  <2>3. CASE s.place # place
    <3>1. s.place \in DOMAIN parts <=> s.place \in DOMAIN parts'
      BY <1>2, <2>3
    <3>2. s.place \in DOMAIN parts' => parts'[s.place] = parts[s.place]
      BY <1>2
    <3>3. \A S : Has(s, S) <=> Has(s, S)'
      BY <3>1, <3>2 DEF Has
    <3> QED BY <2>1, <3>1, <3>3 DEF Progress
  <2> QED BY <2>1, <2>2, <2>3
<1>7. SetupOK'
  BY <1>1, <1>6 DEF DatabaseSetupInv, SetupOK
<1> QED BY <1>3, <1>4, <1>5, <1>7 DEF DatabaseSetupInv

\* A password changes on a server.
LEMMA ChangePasswordKeeps ==
    ASSUME DatabaseSetupInv, NEW host \in Hosts, NEW role \in Roles, NEW password \in Passwords,
           OthersChangePassword(host, role, password)
    PROVE  DatabaseSetupInv'
<1>1. /\ passwords' = [passwords EXCEPT ![<<host, role>>] = password]
      /\ UNCHANGED djangoRows /\ UNCHANGED <<setup, parts, samples, bare>>
  BY DEF OthersChangePassword
<1>2. DjangoRowsOK' /\ Registered'
  BY <1>1 DEF DatabaseSetupInv, DjangoRowsOK, Registered, IsInstalled, djangoRows
<1>3. ServersOK'
  BY <1>1 DEF DatabaseSetupInv, ServersOK, Keys
<1>4. \A s \in setup : JobOK(s) => JobOK(s)'
  BY <1>1 DEF JobOK, RowsFit, djangoRows
<1> QED BY <1>1, <1>2, <1>3, <1>4, JobStays DEF DatabaseSetupInv, djangoRows

-----------------------------------------------------------------------------
(***************************************************************************)
(* A set-up and the connections of collaborators.                          *)
(***************************************************************************)
\* A connection works as long as its rows and passwords stay and the servers lose nothing.
LEMMA ConnectionStays ==
    ASSUME DatabaseSetupInv, NEW x \in DOMAIN maps, connect(x[2], x[1]),
           x \in DOMAIN maps' /\ maps'[x] = maps[x],
           databases'[x[2]] = databases[x[2]],
           configuredRoles'[maps[x].role] = configuredRoles[maps[x].role],
           DOMAIN parts \subseteq DOMAIN parts', passwords' = passwords
    PROVE  connect(x[2], x[1])'
<1>1. x = <<x[1], x[2]>>
  BY DEF DatabaseSetupInv, DjangoRowsOK
<1>2. /\ <<maps[x].server, databases[x[2]][2]>> \in DOMAIN parts
      /\ passwords[<<maps[x].server, maps[x].role[2]>>] = configuredRoles[maps[x].role]
  BY <1>1 DEF connect, Works, Reach, CanConnect
<1>3. /\ <<maps'[x].server, databases'[x[2]][2]>> \in DOMAIN parts'
      /\ passwords'[<<maps'[x].server, maps'[x].role[2]>>] = configuredRoles'[maps'[x].role]
  BY <1>2
<1> QED BY <1>1, <1>3 DEF connect, Works, Reach, CanConnect

\* Rows that are entered take a connection from nobody.
LEMMA EnteringTakesNothing ==
    ASSUME DatabaseSetupInv, NEW rows, RowsFit(rows), EnterRows(rows), UNCHANGED <<parts, passwords>>,
           NEW x \in DOMAIN maps, connect(x[2], x[1])
    PROVE  connect(x[2], x[1])'
<1>1. x[2] \in DOMAIN databases /\ maps[x].role \in DOMAIN configuredRoles
  BY DEF DatabaseSetupInv, DjangoRowsOK
<1>2. /\ x \in DOMAIN maps' /\ maps'[x] = maps[x] /\ databases'[x[2]] = databases[x[2]]
      /\ configuredRoles'[maps[x].role] = configuredRoles[maps[x].role]
  BY <1>1, RowsEntered DEF Entered, DatabaseSetupInv
<1> QED BY <1>2, ConnectionStays

\* No step of a set-up takes a connection from anybody.
LEMMA SetUpTakesNothing ==
    ASSUME DatabaseSetupInv, Connect \/ install_mathesar \/ FinishSetup \/ LoseSetup \/ BreakSetup,
           NEW x \in DOMAIN maps, connect(x[2], x[1])
    PROVE  connect(x[2], x[1])'
<1>1. CASE Connect
  <2>1. DOMAIN parts \subseteq DOMAIN parts' /\ UNCHANGED djangoRows /\ UNCHANGED passwords
    BY <1>1 DEF Connect, ++, Single
  <2> QED BY <2>1, ConnectionStays DEF djangoRows
<1>2. CASE install_mathesar
  <2>1. DOMAIN parts \subseteq DOMAIN parts' /\ UNCHANGED djangoRows /\ UNCHANGED passwords
    BY <1>2 DEF install_mathesar
  <2> QED BY <2>1, ConnectionStays DEF djangoRows
<1>3. CASE FinishSetup
  <2>1. PICK job : job = Job
    OBVIOUS
  <2>2. RowsFit(job) /\ EnterRows(job) /\ UNCHANGED <<parts, passwords>>
    BY <1>3, <2>1, LoadDataFinds DEF FinishSetup, JobOK
  <2> QED BY <2>2, EnteringTakesNothing
<1>4. CASE LoseSetup \/ BreakSetup
  <2>1. UNCHANGED djangoRows /\ UNCHANGED <<parts, passwords>>
    BY <1>4 DEF LoseSetup, BreakSetup, serverSide
  <2> QED BY <2>1, ConnectionStays DEF djangoRows
<1> QED BY <1>1, <1>2, <1>3, <1>4

\* A set-up that succeeds leaves its user with a connection, if the rows it found are
\* still those it opened the database with.
LEMMA SetUpConnects ==
    ASSUME DatabaseSetupInv, SetupAssumption, FinishSetup,
           NEW x, x = <<Job.user, Job.database>>, x \in DOMAIN maps',
           maps'[x] = [role |-> Job.role, server |-> Job.place[1]],
           "map" \in Job.new => configuredRoles'[Job.role] = Job.stored
    PROVE  connect(x[2], x[1])'
<1>1. PICK job : job = Job
  OBVIOUS
<1>2. /\ JobOK(job) /\ Opens(job) /\ EnterRows(job) /\ UNCHANGED <<parts, passwords>>
  BY <1>1, LoadDataFinds DEF FinishSetup
<1>3. /\ job.place \in DOMAIN parts /\ passwords[<<job.place[1], job.role[2]>>] = configuredRoles'[job.role]
  <2>1. CASE "map" \in job.new
    BY <1>1, <1>2, <2>1 DEF Opens, CanConnect
  <2>2. CASE "map" \notin job.new
    <3>1. configuredRoles' = configuredRoles
      BY <1>2, <2>2 DEF EnterRows, JobOK, RowsFit
    <3> QED BY <1>2, <2>2, <3>1 DEF Opens, CanConnect
  <2> QED BY <2>1, <2>2
<1>4. databases'[x[2]] = job.place
  <2>1. DatabaseSetupInv'
    BY FinishKeeps
  <2>2. x[2] \in DOMAIN databases'
    BY <2>1 DEF DatabaseSetupInv, DjangoRowsOK
  <2>3. x[2] = Job.database
    OBVIOUS
  <2> QED BY <1>1, <1>2, <2>2, <2>3, RowsEntered DEF Entered, DatabaseSetupInv, JobOK
<1>5. job.place = <<job.place[1], job.place[2]>>
  BY <1>2 DEF JobOK, RowsFit, Places
<1>6. maps'[x].server = job.place[1] /\ maps'[x].role = job.role
  BY <1>1
<1>7. /\ <<maps'[x].server, databases'[x[2]][2]>> \in DOMAIN parts'
      /\ passwords'[<<maps'[x].server, maps'[x].role[2]>>] = configuredRoles'[maps'[x].role]
  BY <1>1, <1>2, <1>3, <1>4, <1>5, <1>6
<1>8. x = <<x[1], x[2]>>
  OBVIOUS
<1> QED BY <1>7, <1>8 DEF connect, Works, Reach, CanConnect

-----------------------------------------------------------------------------
(***************************************************************************)
(* The inductive invariant of the specification: that of the set-ups,      *)
(* tables that are consistent and views that read them in every place, and *)
(* what is kept for databases there are.                                   *)
(***************************************************************************)
TablesOK ==
    /\ DOMAIN tables = Places /\ DOMAIN views = Places
    /\ tables = [p \in Places |-> tables[p]] /\ views = [p \in Places |-> views[p]]
    /\ \A p \in Places : Consistent(tables[p]) /\ ViewsOK(views[p], tables[p])

ExtrasOK ==
    /\ \A x \in DOMAIN columnMeta \cup tableMeta : x[1] \in DOMAIN databases
    /\ \A n \in DOMAIN explorations : explorations[n].database \in DOMAIN databases

RpcInv == DatabaseSetupInv /\ TablesOK /\ ExtrasOK /\ budget \in [Kinds -> Nat]

\* A call is counted.
LEMMA CallsAreCounted ==
    ASSUME budget \in [Kinds -> Nat], NEW kind \in Kinds, Spend(kind)
    PROVE  budget' \in [Kinds -> Nat] /\ budget' # budget
<1>1. budget[kind] \in Nat /\ budget[kind] > 0
  BY DEF Spend
<1>2. budget' = [budget EXCEPT ![kind] = budget[kind] - 1]
  BY DEF Spend
<1>3. budget[kind] - 1 \in Nat /\ budget[kind] - 1 # budget[kind]
  BY <1>1
<1> QED BY <1>2, <1>3

\* What users reach is a place.
LEMMA UsableArePlaces ==
    ASSUME DjangoRowsOK
    PROVE  Usable \subseteq Places
<1>1. ASSUME NEW x \in DOMAIN maps PROVE Reach(x[1], x[2]) \in Places
  <2>1. x = <<x[1], x[2]>> /\ maps[x].server \in Hosts /\ x[2] \in DOMAIN databases
    BY DEF DjangoRowsOK
  <2>2. databases[x[2]] \in Hosts \X Names
    BY <2>1 DEF DjangoRowsOK, Places
  <2> QED BY <2>1, <2>2 DEF Reach, Places
<1> QED BY <1>1 DEF Usable, Reached

\* Nothing in Django's rows and on the servers changes.
LEMMA DatabaseSetupStays ==
    ASSUME DatabaseSetupInv, UNCHANGED setupVars
    PROVE  DatabaseSetupInv'
BY DEF DatabaseSetupInv, DjangoRowsOK, ServersOK, SetupOK, Registered, IsInstalled, JobOK, RowsFit, Progress, Has,
       setupVars, djangoRows, serverSide

-----------------------------------------------------------------------------
(***************************************************************************)
(* Methods on tables.                                                      *)
(***************************************************************************)

\* One place gets tables and views that fit each other.
LEMMA PlaceChanged ==
    ASSUME TablesOK, NEW p \in Places, NEW after, NEW left, Consistent(after), ViewsOK(left, after),
           tables' = [tables EXCEPT ![p] = after], views' = [views EXCEPT ![p] = left]
    PROVE  TablesOK'
<1>1. DOMAIN tables' = Places /\ tables' = [q \in Places |-> tables'[q]]
  BY DEF TablesOK
<1>2. DOMAIN views' = Places /\ views' = [q \in Places |-> views'[q]]
  BY DEF TablesOK
<1>3. tables'[p] = after /\ views'[p] = left
  BY DEF TablesOK
<1>4. \A q \in Places \ {p} : tables'[q] = tables[q] /\ views'[q] = views[q]
  BY DEF TablesOK
<1>5. \A q \in Places : Consistent(tables'[q]) /\ ViewsOK(views'[q], tables'[q])
  BY <1>3, <1>4 DEF TablesOK
<1> QED BY <1>1, <1>2, <1>5 DEF TablesOK

\* A method that leaves tables consistent and takes no column a view reads.
LEMMA MethodKeeps ==
    ASSUME RpcInv, NEW p \in Usable, NEW after, Method(p, after), Consistent(after),
           NEW o, NEW C, CanDropColumns(views[p], o, C) \/ C = {}, Leaves(after, tables[p], o, C)
    PROVE  RpcInv'
<1>1. p \in Places /\ ViewsOK(views[p], tables[p])
  BY UsableArePlaces DEF RpcInv, DatabaseSetupInv, TablesOK
<1>2. ViewsOK(views[p], after)
  <2>1. CASE C = {}
    <3>1. Leaves(after, tables[p], 0, {})
      BY <2>1 DEF Leaves
    <3> QED BY <1>1, <3>1, ViewsReadMore
  <2>2. CASE CanDropColumns(views[p], o, C)
    BY <1>1, <2>2, ViewsStillRead
  <2> QED BY <2>1, <2>2
<1>3. tables' = [tables EXCEPT ![p] = after] /\ views' = [views EXCEPT ![p] = views[p]]
  BY DEF Method, RpcInv, TablesOK
<1>4. TablesOK'
  BY <1>1, <1>2, <1>3, PlaceChanged DEF RpcInv
<1>5. DatabaseSetupInv' /\ ExtrasOK'
  BY DatabaseSetupStays DEF Method, RpcInv, ExtrasOK, extras, setupVars, djangoRows
<1>6. budget' \in [Kinds -> Nat]
  BY CallsAreCounted DEF Method, RpcInv, Kinds
<1> QED BY <1>4, <1>5, <1>6 DEF RpcInv

\* One table is replaced by one that has its columns but C.
LEMMA TableLeaves ==
    ASSUME NEW db, Consistent(db), NEW o \in DOMAIN db, NEW t, NEW C, DOMAIN db[o].cols \ C \subseteq DOMAIN t.cols
    PROVE  Leaves([db EXCEPT ![o] = t], db, o, C)
<1> PICK after : after = [db EXCEPT ![o] = t]
  OBVIOUS
<1>1. db = [p \in DOMAIN db |-> db[p]] /\ DOMAIN db \subseteq Nat
  BY DEF Consistent, DatabaseOK
<1>2. DOMAIN after = DOMAIN db /\ after[o] = t /\ \A p \in DOMAIN db \ {o} : after[p] = db[p]
  BY <1>1
<1>3. \A p \in DOMAIN db : \A a \in DOMAIN db[p].cols : (p = o /\ a \in C) \/ a \in DOMAIN after[p].cols
  BY <1>2
<1>4. Leaves(after, db, o, C)
  BY <1>1, <1>2, <1>3 DEF Leaves
<1> QED BY <1>4

\* A new table leaves all others as they are.
LEMMA NewTableLeaves ==
    ASSUME NEW db, NEW g, Consistent(db ++ g)
    PROVE  Leaves(db ++ g, db, 0, {})
<1> PICK after : after = db ++ g
  OBVIOUS
<1>1. DOMAIN after = DOMAIN db \cup DOMAIN g /\ \A p \in DOMAIN db : after[p] = db[p]
  BY DEF ++
<1>2. DOMAIN after \subseteq Nat
  BY DEF Consistent, DatabaseOK
<1>3. Leaves(after, db, 0, {})
  BY <1>1, <1>2 DEF Leaves
<1> QED BY <1>3

\* What is true of the tables of a place that a caller reaches.
LEMMA ReachedTables ==
    ASSUME RpcInv, NEW p \in Usable
    PROVE  p \in Places /\ Consistent(tables[p]) /\ \A o \in DOMAIN tables[p] : WellFormed(tables[p][o])
BY UsableArePlaces DEF RpcInv, DatabaseSetupInv, TablesOK, Consistent, DatabaseOK

\* tables.add
LEMMA TablesAddKeeps ==
    ASSUME RpcInv, RpcAssumption, NEW p \in Usable, tables_add(p)
    PROVE  RpcInv'
<1>1. PICK n \in DataNames : Method(p, AddTable(tables[p], <<n>>))
  BY DEF tables_add
<1>2. n \in Nat /\ n # IdName
  BY DEF RpcAssumption, IdName, FirstKeyName
<1>3. Consistent(AddTable(tables[p], <<n>>))
  BY <1>2, ReachedTables, AddTableKeeps
<1>4. Leaves(AddTable(tables[p], <<n>>), tables[p], 0, {})
  BY <1>3, NewTableLeaves DEF AddTable
<1> QED BY <1>1, <1>3, <1>4, MethodKeeps

\* A method on one table that loses no column.
LEMMA OnTableKeeps ==
    ASSUME RpcInv, NEW p \in Usable, NEW o \in DOMAIN tables[p], NEW t, OnTable(p, o, t),
           TableMethod(t, tables[p][o]), NEW C, CanDropColumns(views[p], o, C) \/ C = {},
           DOMAIN tables[p][o].cols \ C \subseteq DOMAIN t.cols
    PROVE  RpcInv'
<1>1. Consistent([tables[p] EXCEPT ![o] = t])
  BY ReachedTables, TableMethodKeeps
<1>2. Leaves([tables[p] EXCEPT ![o] = t], tables[p], o, C)
  BY ReachedTables, TableLeaves
<1> QED BY <1>1, <1>2, MethodKeeps DEF OnTable

\* columns.add
LEMMA ColumnsAddKeeps ==
    ASSUME RpcInv, RpcAssumption, NEW p \in Usable, NEW o \in DOMAIN tables[p], columns_add(p, o)
    PROVE  RpcInv'
<1> PICK t : t = tables[p][o]
  OBVIOUS
<1>1. PICK n \in DataNames : CanAddColumns(t, <<n>>) /\ OnTable(p, o, add_columns(t, <<n>>))
  BY DEF columns_add
<1>2. n \in Nat /\ n \notin NamesOf(t)
  <2>1. n \in Range(<<n>>)
    <3>1. 1 \in DOMAIN <<n>> /\ <<n>>[1] = n
      OBVIOUS
    <3> QED BY <3>1 DEF Range
  <2> QED BY <1>1, <2>1 DEF CanAddColumns, RpcAssumption, FirstKeyName
<1>3. WellFormed(t)
  BY ReachedTables
<1>4. TableMethod(add_columns(t, <<n>>), t)
  BY <1>2, <1>3, AddColumnKeeps DEF TableMethod
<1>5. DOMAIN t.cols \subseteq DOMAIN add_columns(t, <<n>>).cols
  <2>1. ColumnsAdded(add_columns(t, <<n>>), t, 1, <<n>>)
    BY <1>3, AddColumnsFields
  <2> QED BY <2>1 DEF ColumnsAdded
<1> QED BY <1>1, <1>4, <1>5, OnTableKeeps

\* columns.patch
LEMMA ColumnsPatchKeeps ==
    ASSUME RpcInv, RpcAssumption, NEW p \in Usable, NEW o \in DOMAIN tables[p], columns_patch(p, o)
    PROVE  RpcInv'
<1> PICK t : t = tables[p][o]
  OBVIOUS
<1>1. PICK c \in ColumnsOf(t), n \in DataNames : CanRename(t, c, n) /\ OnTable(p, o, Rename(t, c, n))
  BY DEF columns_patch
<1>2. n \in Nat
  BY DEF RpcAssumption, FirstKeyName
<1>3. WellFormed(t)
  BY ReachedTables
<1>4. TableMethod(Rename(t, c, n), t) /\ DOMAIN Rename(t, c, n).cols = DOMAIN t.cols
  BY <1>1, <1>2, <1>3, RenameKeeps
<1> QED BY <1>1, <1>4, OnTableKeeps

\* columns.delete
LEMMA ColumnsDeleteKeeps ==
    ASSUME RpcInv, NEW p \in Usable, NEW o \in DOMAIN tables[p], NEW C, C \subseteq ColumnsOf(tables[p][o]),
           columns_delete(p, o, C)
    PROVE  RpcInv'
<1> PICK t : t = tables[p][o]
  OBVIOUS
<1>1. CanDropColumns(views[p], o, C) /\ OnTable(p, o, drop_columns(t, C))
  BY DEF columns_delete
<1>2. WellFormed(t)
  BY ReachedTables
<1>3. TableMethod(drop_columns(t, C), t)
  BY <1>2, DropColumnsIsAMethod
<1>4. DOMAIN drop_columns(t, C).cols = DOMAIN t.cols \ C
  <2>1. ColumnsDropped(drop_columns(t, C), t, C)
    BY <1>2, DropColumnsFields
  <2> QED BY <2>1 DEF ColumnsDropped
<1> QED BY <1>1, <1>3, <1>4, OnTableKeeps

\* constraints.add
LEMMA ConstraintsAddKeeps ==
    ASSUME RpcInv, NEW p \in Usable, NEW o \in DOMAIN tables[p], NEW C, C \subseteq ColumnsOf(tables[p][o]), C # {},
           constraints_add(p, o, C)
    PROVE  RpcInv'
<1> PICK t : t = tables[p][o]
  OBVIOUS
<1>1. WellFormed(t) /\ Consistent(tables[p])
  BY ReachedTables
<1>2. CASE CanAddUnique(t, C) /\ OnTable(p, o, AddUnique(t, C))
  <2>1. TableMethod(AddUnique(t, C), t) /\ AddUnique(t, C).cols = t.cols
    BY <1>1, <1>2, AddUniqueKeeps
  <2> QED BY <1>2, <2>1, OnTableKeeps
<1>3. CASE \E c \in C, ref \in DOMAIN tables[p] :
             CanAddForeignKey(tables[p], o, c, ref) /\ Method(p, AddForeignKey(tables[p], o, c, ref))
  <2>1. PICK c \in C, ref \in DOMAIN tables[p] :
             CanAddForeignKey(tables[p], o, c, ref) /\ Method(p, AddForeignKey(tables[p], o, c, ref))
    BY <1>3
  <2> PICK after : after = AddForeignKey(tables[p], o, c, ref)
    OBVIOUS
  <2>2. Consistent(after) /\ DOMAIN after = DOMAIN tables[p] /\ \A q \in DOMAIN tables[p] : after[q].cols = tables[p][q].cols
    BY <1>1, <2>1, AddForeignKeyKeeps
  <2>3. Leaves(after, tables[p], o, {})
    BY <1>1, <2>2 DEF Leaves, Consistent, DatabaseOK
  <2> QED BY <2>1, <2>2, <2>3, MethodKeeps
<1> QED BY <1>2, <1>3 DEF constraints_add

\* constraints.delete
LEMMA ConstraintsDeleteKeeps ==
    ASSUME RpcInv, NEW p \in Usable, NEW o \in DOMAIN tables[p], constraints_delete(p, o)
    PROVE  RpcInv'
<1> PICK t : t = tables[p][o]
  OBVIOUS
<1>1. WellFormed(t)
  BY ReachedTables
<1>2. CASE \E C \in t.uniques : OnTable(p, o, DropUnique(t, C))
  <2>1. PICK C \in t.uniques : OnTable(p, o, DropUnique(t, C))
    BY <1>2
  <2>2. TableMethod(DropUnique(t, C), t) /\ DropUnique(t, C).cols = t.cols
    BY <1>1, DropUniqueKeeps
  <2> QED BY <2>1, <2>2, OnTableKeeps
<1>3. CASE \E c \in DOMAIN t.fks : OnTable(p, o, DropForeignKey(t, c))
  <2>1. PICK c \in DOMAIN t.fks : OnTable(p, o, DropForeignKey(t, c))
    BY <1>3
  <2>2. TableMethod(DropForeignKey(t, c), t) /\ DropForeignKey(t, c).cols = t.cols
    BY <1>1, DropForeignKeyKeeps
  <2> QED BY <2>1, <2>2, OnTableKeeps
<1> QED BY <1>2, <1>3 DEF constraints_delete

\* data_modeling.add_foreign_key_column
LEMMA ForeignKeyColumnKeeps ==
    ASSUME RpcInv, NEW p \in Usable, NEW o \in DOMAIN tables[p], NEW ref \in DOMAIN tables[p], NEW unique \in BOOLEAN,
           add_foreign_key_column(p, o, ref, unique)
    PROVE  RpcInv'
<1> PICK t : t = tables[p][o]
  OBVIOUS
<1>1. Consistent(tables[p]) /\ WellFormed(t) /\ ref \in Nat
  BY ReachedTables DEF Consistent, DatabaseOK
<1>2. AddForeignKeyColumn(tables[p], o, ref, unique) = [tables[p] EXCEPT ![o] = WithKey(t, ref, unique)]
  BY DEF AddForeignKeyColumn
<1>3. KeyAdded(WithKey(t, ref, unique), t, ref)
  BY <1>1, WithKeyFields
<1>4. DOMAIN t.cols \subseteq DOMAIN WithKey(t, ref, unique).cols
  BY <1>3 DEF KeyAdded
<1>5. Leaves(AddForeignKeyColumn(tables[p], o, ref, unique), tables[p], o, {})
  BY <1>1, <1>2, <1>4, TableLeaves
<1>6. Consistent(AddForeignKeyColumn(tables[p], o, ref, unique))
  BY <1>1, AddForeignKeyColumnKeeps
<1> QED BY <1>5, <1>6, MethodKeeps DEF add_foreign_key_column

\* data_modeling.add_mapping_table
LEMMA MappingTableKeeps ==
    ASSUME RpcInv, NEW p \in Usable, NEW o \in DOMAIN tables[p], NEW ref \in DOMAIN tables[p],
           add_mapping_table(p, <<o, ref>>)
    PROVE  RpcInv'
<1> PICK refs : refs = <<o, ref>>
  OBVIOUS
<1>1. refs \in [1 .. 2 -> DOMAIN tables[p]] /\ Len(refs) = 2
  OBVIOUS
<1>2. Consistent(AddMappingTable(tables[p], refs))
  BY <1>1, ReachedTables, AddMappingTableKeeps
<1>3. Leaves(AddMappingTable(tables[p], refs), tables[p], 0, {})
  BY <1>2, NewTableLeaves DEF AddMappingTable
<1> QED BY <1>2, <1>3, MethodKeeps DEF add_mapping_table

\* data_modeling.split_table
LEMMA SplitTableKeeps ==
    ASSUME RpcInv, NEW p \in Usable, NEW o \in DOMAIN tables[p], NEW C, C \subseteq ColumnsOf(tables[p][o]),
           split_table(p, o, C)
    PROVE  RpcInv'
<1> PICK db : db = tables[p]
  OBVIOUS
<1> PICK after : after = extract_columns_from_table(db, o, C)
  OBVIOUS
<1>1. Consistent(db) /\ Consistent(after)
  BY ReachedTables, SplitKeeps
<1>2. SplitOff(after, db, o, C)
  BY <1>1, SplitFields
<1>3. Leaves(after, db, o, C)
  <2>1. DOMAIN db \subseteq DOMAIN after /\ DOMAIN after \subseteq Nat
    BY <1>1, <1>2 DEF SplitOff, Consistent, DatabaseOK
  <2>2. \A a \in DOMAIN db[o].cols \ C : a \in DOMAIN after[o].cols
    BY <1>2 DEF SplitOff, Remains
  <2>3. \A q \in DOMAIN db \ {o} : after[q] = db[q]
    BY <1>2 DEF SplitOff
  <2> QED BY <2>1, <2>2, <2>3 DEF Leaves
<1>4. CanDropColumns(views[p], o, C) /\ Method(p, after)
  BY DEF split_table
<1> QED BY <1>1, <1>3, <1>4, MethodKeeps

\* data_modeling.move_columns
LEMMA MoveColumnsKeeps ==
    ASSUME RpcInv, NEW p \in Usable, NEW o \in DOMAIN tables[p], NEW target \in DOMAIN tables[p], NEW C,
           move_columns(p, o, target, C)
    PROVE  RpcInv'
<1> PICK db : db = tables[p]
  OBVIOUS
<1> PICK after : after = move_columns_to_referenced_table(db, o, target, C)
  OBVIOUS
<1>1. CanMove(db, o, target, C) /\ CanDropColumns(views[p], o, C) /\ Method(p, after)
  BY DEF move_columns
<1>2. Consistent(db) /\ Consistent(after)
  BY <1>1, ReachedTables, MoveKeeps
<1>3. MovedOver(after, db, o, target, JoinColumn(db[o], target), C)
  BY <1>1, <1>2, MoveFields
<1>4. Leaves(after, db, o, C)
  <2>1. \A a \in DOMAIN db[o].cols \ C : a \in DOMAIN after[o].cols
    BY <1>3 DEF MovedOver, MovedAway
  <2>2. \A a \in DOMAIN db[target].cols : a \in DOMAIN after[target].cols
    BY <1>3 DEF MovedOver, MovedInto
  <2>3. DOMAIN after = DOMAIN db /\ \A q \in DOMAIN db \ {o, target} : after[q] = db[q]
    BY <1>3 DEF MovedOver
  <2> QED BY <1>2, <2>1, <2>2, <2>3 DEF Leaves, Consistent, DatabaseOK
<1> QED BY <1>1, <1>2, <1>4, MethodKeeps

\* tables.delete: views that read what goes go, too.
LEMMA TablesDeleteKeeps ==
    ASSUME RpcInv, NEW p \in Usable, NEW o \in DOMAIN tables[p], NEW cascade, tables_delete(p, o, cascade)
    PROVE  RpcInv'
<1> PICK db : db = tables[p]
  OBVIOUS
<1> PICK after : after = DropTable(db, o)
  OBVIOUS
<1> DEFINE left == DropViews(db, views[p], o)
<1>1. p \in Places /\ Consistent(db) /\ DOMAIN db \subseteq Nat /\ ViewsOK(views[p], db)
  BY ReachedTables DEF Consistent, DatabaseOK, RpcInv, TablesOK
<1>2. /\ Consistent(after) /\ DOMAIN after = DOMAIN db \ {o}
      /\ \A q \in DOMAIN db \ {o} : after[q].cols = db[q].cols
  BY <1>1, DropTableKeeps
<1>3. ViewsOK(left, after)
  <2>1. \A q \in DOMAIN after : after[q].cols = db[q].cols
    BY <1>2
  <2> PICK vs : vs = views[p]
    OBVIOUS
  <2>2. ViewsOK(vs, db) /\ DOMAIN db \subseteq Nat /\ o \in DOMAIN db
    BY <1>1
  <2>3. DOMAIN after = DOMAIN db \ {o}
    BY <1>2
  <2> QED BY <2>1, <2>2, <2>3, DropViewsKeeps
<1> HIDE DEF left
<1>4. tables' = [tables EXCEPT ![p] = after] /\ views' = [views EXCEPT ![p] = left]
  BY DEF tables_delete, left
<1>5. TablesOK'
  BY <1>1, <1>2, <1>3, <1>4, PlaceChanged DEF RpcInv
<1>6. DatabaseSetupInv' /\ ExtrasOK'
  BY DatabaseSetupStays DEF tables_delete, RpcInv, ExtrasOK, extras, setupVars, djangoRows
<1>7. budget' \in [Kinds -> Nat]
  BY CallsAreCounted DEF tables_delete, RpcInv, Kinds
<1> QED BY <1>5, <1>6, <1>7 DEF RpcInv

-----------------------------------------------------------------------------
(***************************************************************************)
(* Methods on rows.                                                        *)
(***************************************************************************)

\* Rows with a value for every column of table t, of which those that are no references are
\* numbers, under ids t has given or gives next.
AreRows(rows, t) ==
    /\ rows = [id \in DOMAIN rows |-> rows[id]] /\ DOMAIN rows \subseteq 1 .. t.nextId
    /\ \A id \in DOMAIN rows : /\ rows[id] = [c \in ColumnsOf(t) |-> rows[id][c]]
                               /\ \A c \in ColumnsOf(t) \ DOMAIN t.fks : rows[id][c] \in Nat

\* A reference that is valid is a number.
LEMMA ReferencesAreNumbers ==
    ASSUME NEW db, DatabaseOK(db), NEW o \in DOMAIN db, NEW t, t = db[o], NEW rows, AreRows(rows, t),
           KeysRefer([db EXCEPT ![o] = WithRows(t, rows)])
    PROVE  rows \in [DOMAIN rows -> [ColumnsOf(t) -> Nat]]
<1> PICK u : u = WithRows(t, rows)
  OBVIOUS
<1> PICK after : after = [db EXCEPT ![o] = u]
  OBVIOUS
<1>1. WellFormed(t)
  BY DEF DatabaseOK
<1>2. u.rows = rows /\ u.fks = t.fks
  <2> PICK n : n = Max({t.nextId} \cup {id + 1 : id \in DOMAIN rows})
    OBVIOUS
  <2>1. u = [t EXCEPT !.rows = rows, !.nextId = n]
    BY DEF WithRows
  <2> QED BY <1>1, <2>1 DEF WellFormed
<1>3. DOMAIN after = DOMAIN db /\ after[o] = u /\ \A q \in DOMAIN db \ {o} : after[q] = db[q]
  BY DEF DatabaseOK
<1>4. ASSUME NEW q PROVE RowsReferredTo(after, q) \subseteq Nat
  <2>1. \A r \in DOMAIN db : DOMAIN db[r].rows \subseteq Nat
    BY DEF DatabaseOK, WellFormed, TableOK
  <2>2. DOMAIN rows \subseteq Nat
    BY <1>1 DEF AreRows, WellFormed
  <2> QED BY <1>2, <1>3, <2>1, <2>2 DEF RowsReferredTo
<1>5. ASSUME NEW id \in DOMAIN rows, NEW c \in ColumnsOf(t) PROVE rows[id][c] \in Nat
  <2>1. CASE c \in DOMAIN t.fks
    <3>1. after[o].rows[id][c] \in {NULL} \cup RowsReferredTo(after, after[o].fks[c])
      BY <1>2, <1>3, <2>1 DEF KeysRefer
    <3>2. rows[id][c] \in {NULL} \cup RowsReferredTo(after, t.fks[c])
      BY <1>2, <1>3, <3>1
    <3>3. RowsReferredTo(after, t.fks[c]) \subseteq Nat
      BY <1>4, Zenon
    <3>4. {NULL} \subseteq Nat
      BY DEF NULL
    <3> QED BY <3>2, <3>3, <3>4, Zenon
  <2>2. CASE c \notin DOMAIN t.fks
    BY <2>2 DEF AreRows
  <2> QED BY <2>1, <2>2
<1>6. \A id \in DOMAIN rows : rows[id] \in [ColumnsOf(t) -> Nat]
  BY <1>5 DEF AreRows
<1> QED BY <1>6 DEF AreRows

\* Rows change, references are checked.
LEMMA OnRowsKeeps ==
    ASSUME RpcInv, NEW p \in Usable, NEW o \in DOMAIN tables[p], NEW t, t = tables[p][o],
           NEW rows, OnRows(p, o, rows), AreRows(rows, t)
    PROVE  RpcInv'
<1>1. /\ Spend("row") /\ KeysRefer([tables[p] EXCEPT ![o] = WithRows(t, rows)])
      /\ tables' = [tables EXCEPT ![p][o] = WithRows(t, rows)]
      /\ UNCHANGED <<setupVars, views, extras>>
  BY DEF OnRows, WithRows
<1> PICK db : db = tables[p]
  OBVIOUS
<1>2. p \in Places /\ Consistent(db) /\ DatabaseOK(db) /\ o \in DOMAIN db /\ t = db[o] /\ ViewsOK(views[p], db)
  BY ReachedTables DEF RpcInv, TablesOK, Consistent
<1>3. rows \in [DOMAIN rows -> [ColumnsOf(t) -> Nat]]
  BY <1>1, <1>2, ReferencesAreNumbers
<1> PICK u : u = WithRows(t, rows)
  OBVIOUS
<1> PICK after : after = [db EXCEPT ![o] = u]
  OBVIOUS
<1>4. Consistent(after) /\ u.cols = t.cols
  <2>2. KeysRefer([db EXCEPT ![o] = u]) /\ DOMAIN rows \subseteq 1 .. t.nextId
    BY <1>1 DEF AreRows
  <2> QED BY <1>2, <1>3, <2>2, RowsChangedKeeps
<1>5. ViewsOK(views[p], after)
  <2>1. Leaves(after, db, o, {})
    BY <1>2, <1>4, TableLeaves
  <2>2. Leaves(after, db, 0, {})
    BY <2>1 DEF Leaves
  <2> QED BY <1>2, <2>2, ViewsReadMore
<1>6. tables' = [tables EXCEPT ![p] = after] /\ views' = [views EXCEPT ![p] = views[p]]
  BY <1>1, <1>2 DEF RpcInv, TablesOK
<1>7. TablesOK'
  BY <1>2, <1>4, <1>5, <1>6, PlaceChanged DEF RpcInv
<1>8. DatabaseSetupInv' /\ ExtrasOK'
  BY <1>1, DatabaseSetupStays DEF RpcInv, ExtrasOK, extras, setupVars, djangoRows
<1>9. budget' \in [Kinds -> Nat]
  BY <1>1, CallsAreCounted DEF RpcInv, Kinds
<1> QED BY <1>7, <1>8, <1>9 DEF RpcInv

\* The rows that are given have a value for every column.
LEMMA GivenRows ==
    ASSUME RpcAssumption, NEW db, NEW o, NEW t, t = db[o], NEW row \in RowsOf(db, o)
    PROVE  row = [c \in ColumnsOf(t) |-> row[c]] /\ \A c \in ColumnsOf(t) \ DOMAIN t.fks : row[c] \in Nat
<1>1. Values \cup {NULL} \subseteq Nat
  BY DEF RpcAssumption, NULL
<1> QED BY <1>1 DEF RowsOf

\* The rows of a table are rows.
LEMMA RowsAreRows ==
    ASSUME NEW t, WellFormed(t)
    PROVE  AreRows(t.rows, t) /\ t.nextId \in Nat \ {0} /\ t.nextId \notin DOMAIN t.rows
<1>1. t.nextId \in Nat \ {0} /\ DOMAIN t.rows \subseteq 1 .. t.nextId - 1
  BY DEF WellFormed, TableOK
<1>2. DOMAIN t.rows \subseteq 1 .. t.nextId /\ t.nextId \notin DOMAIN t.rows
  BY <1>1
<1>3. t.rows \in [DOMAIN t.rows -> [ColumnsOf(t) -> Nat]]
  BY DEF WellFormed
<1>4. t.rows = [id \in DOMAIN t.rows |-> t.rows[id]] /\ \A id \in DOMAIN t.rows : t.rows[id] \in [ColumnsOf(t) -> Nat]
  BY <1>3
<1> QED BY <1>1, <1>2, <1>4 DEF AreRows

\* records.add
LEMMA RecordsAddKeeps ==
    ASSUME RpcInv, RpcAssumption, NEW p \in Usable, NEW o \in DOMAIN tables[p],
           NEW row \in RowsOf(tables[p], o), records_add(p, o, row)
    PROVE  RpcInv'
<1> PICK t : t = tables[p][o]
  OBVIOUS
<1> PICK rows : rows = t.rows ++ Single(t.nextId, row)
  OBVIOUS
<1>1. AreRows(t.rows, t) /\ t.nextId \in Nat \ {0} /\ t.nextId \notin DOMAIN t.rows
  BY ReachedTables, RowsAreRows
<1>2. row = [c \in ColumnsOf(t) |-> row[c]] /\ \A c \in ColumnsOf(t) \ DOMAIN t.fks : row[c] \in Nat
  BY GivenRows
<1>3. /\ DOMAIN rows = DOMAIN t.rows \cup {t.nextId} /\ rows = [id \in DOMAIN rows |-> rows[id]]
      /\ rows[t.nextId] = row /\ \A id \in DOMAIN t.rows : rows[id] = t.rows[id]
  BY <1>1 DEF ++, Single
<1>4. AreRows(rows, t)
  <2>1. DOMAIN rows \subseteq 1 .. t.nextId
    BY <1>1, <1>3 DEF AreRows
  <2>2. ASSUME NEW id \in DOMAIN rows
        PROVE  /\ rows[id] = [c \in ColumnsOf(t) |-> rows[id][c]]
               /\ \A c \in ColumnsOf(t) \ DOMAIN t.fks : rows[id][c] \in Nat
    <3>1. CASE id = t.nextId
      BY <1>2, <1>3, <3>1
    <3>2. CASE id \in DOMAIN t.rows
      <4>1. rows[id] = t.rows[id]
        BY <1>3, <3>2
      <4>2. /\ t.rows[id] = [c \in ColumnsOf(t) |-> t.rows[id][c]]
            /\ \A c \in ColumnsOf(t) \ DOMAIN t.fks : t.rows[id][c] \in Nat
        BY <1>1, <3>2 DEF AreRows
      <4> QED BY <4>1, <4>2
    <3> QED BY <1>3, <3>1, <3>2
  <2> QED BY <1>3, <2>1, <2>2 DEF AreRows
<1> QED BY <1>4, OnRowsKeeps DEF records_add

\* A mapping with the value of one key replaced.
LEMMA OneReplaced ==
    ASSUME NEW f, NEW k \in DOMAIN f, NEW v
    PROVE  Single(k, v) ++ f = [x \in DOMAIN f |-> IF x = k THEN v ELSE f[x]]
<1>1. DOMAIN Single(k, v) = {k} /\ Single(k, v)[k] = v
  BY DEF Single
<1>2. DOMAIN Single(k, v) \cup DOMAIN f = DOMAIN f
  BY <1>1
<1>3. Single(k, v) ++ f = [x \in DOMAIN f |-> IF x \in DOMAIN Single(k, v) THEN Single(k, v)[x] ELSE f[x]]
  BY <1>2, Zenon DEF ++
<1>4. \A x \in DOMAIN f : x \in DOMAIN Single(k, v) <=> x = k
  BY <1>1
<1> QED BY <1>1, <1>3, <1>4

\* records.patch
LEMMA RecordsPatchKeeps ==
    ASSUME RpcInv, RpcAssumption, NEW p \in Usable, NEW o \in DOMAIN tables[p],
           NEW row \in RowsOf(tables[p], o), NEW id \in DOMAIN tables[p][o].rows, NEW c \in DOMAIN row,
           records_patch(p, o, id, Single(c, row[c]))
    PROVE  RpcInv'
<1> PICK t : t = tables[p][o]
  OBVIOUS
<1> PICK rows : rows = [t.rows EXCEPT ![id] = Single(c, row[c]) ++ t.rows[id]]
  OBVIOUS
<1>1. AreRows(t.rows, t)
  BY ReachedTables, RowsAreRows
<1>2. row = [a \in ColumnsOf(t) |-> row[a]] /\ \A a \in ColumnsOf(t) \ DOMAIN t.fks : row[a] \in Nat
  BY GivenRows
<1>3. c \in ColumnsOf(t) /\ (c \notin DOMAIN t.fks => row[c] \in Nat)
  BY <1>2
<1>4. DOMAIN t.rows[id] = ColumnsOf(t) /\ \A a \in ColumnsOf(t) \ DOMAIN t.fks : t.rows[id][a] \in Nat
  <2>1. t.rows[id] = [a \in ColumnsOf(t) |-> t.rows[id][a]]
    BY <1>1 DEF AreRows
  <2>2. DOMAIN t.rows[id] = ColumnsOf(t)
    BY <2>1
  <2> QED BY <1>1, <2>2 DEF AreRows
<1>5. /\ DOMAIN rows = DOMAIN t.rows /\ rows = [i \in DOMAIN rows |-> rows[i]]
      /\ rows[id] = Single(c, row[c]) ++ t.rows[id] /\ \A i \in DOMAIN t.rows \ {id} : rows[i] = t.rows[i]
  BY <1>1 DEF AreRows
<1>6. /\ rows[id] = [a \in ColumnsOf(t) |-> rows[id][a]]
      /\ \A a \in ColumnsOf(t) \ DOMAIN t.fks : rows[id][a] \in Nat
  <2>1. rows[id] = [a \in ColumnsOf(t) |-> IF a = c THEN row[c] ELSE t.rows[id][a]]
    BY <1>3, <1>4, <1>5, OneReplaced
  <2> QED BY <1>3, <1>4, <2>1
<1>7. AreRows(rows, t)
  <2>1. ASSUME NEW i \in DOMAIN rows
        PROVE  /\ rows[i] = [a \in ColumnsOf(t) |-> rows[i][a]]
               /\ \A a \in ColumnsOf(t) \ DOMAIN t.fks : rows[i][a] \in Nat
    <3>1. CASE i = id
      BY <1>6, <3>1
    <3>2. CASE i # id
      <4>1. i \in DOMAIN t.rows /\ rows[i] = t.rows[i]
        BY <1>5, <3>2
      <4>2. /\ t.rows[i] = [a \in ColumnsOf(t) |-> t.rows[i][a]]
            /\ \A a \in ColumnsOf(t) \ DOMAIN t.fks : t.rows[i][a] \in Nat
        BY <1>1, <4>1 DEF AreRows
      <4> QED BY <4>1, <4>2
    <3> QED BY <3>1, <3>2
  <2> QED BY <1>1, <1>5, <2>1 DEF AreRows
<1>8. OnRows(p, o, rows)
  BY DEF records_patch
<1> QED BY <1>7, <1>8, OnRowsKeeps

\* records.delete
LEMMA RecordsDeleteKeeps ==
    ASSUME RpcInv, NEW p \in Usable, NEW o \in DOMAIN tables[p], NEW ids, records_delete(p, o, ids)
    PROVE  RpcInv'
<1> PICK t : t = tables[p][o]
  OBVIOUS
<1> PICK rows : rows = Without(t.rows, ids)
  OBVIOUS
<1>1. AreRows(t.rows, t)
  BY ReachedTables, RowsAreRows
<1>2. rows = [id \in DOMAIN t.rows \ ids |-> t.rows[id]]
  BY DEF Without, Restrict
<1>3. AreRows(rows, t)
  <2>1. DOMAIN rows = DOMAIN t.rows \ ids /\ rows = [id \in DOMAIN rows |-> rows[id]] /\ \A id \in DOMAIN rows : rows[id] = t.rows[id]
    BY <1>2
  <2>2. ASSUME NEW id \in DOMAIN rows
        PROVE  /\ rows[id] = [a \in ColumnsOf(t) |-> rows[id][a]]
               /\ \A a \in ColumnsOf(t) \ DOMAIN t.fks : rows[id][a] \in Nat
    <3>1. id \in DOMAIN t.rows /\ rows[id] = t.rows[id]
      BY <2>1
    <3>2. /\ t.rows[id] = [a \in ColumnsOf(t) |-> t.rows[id][a]]
          /\ \A a \in ColumnsOf(t) \ DOMAIN t.fks : t.rows[id][a] \in Nat
      BY <1>1, <3>1 DEF AreRows
    <3> QED BY <3>1, <3>2
  <2> QED BY <1>1, <2>1, <2>2 DEF AreRows
<1>4. OnRows(p, o, rows)
  BY DEF records_delete
<1> QED BY <1>3, <1>4, OnRowsKeeps

-----------------------------------------------------------------------------
(***************************************************************************)
(* Methods on the rows that are kept for databases.                        *)
(***************************************************************************)

\* What is kept is for databases there are.
LEMMA ExtrasKeep ==
    ASSUME RpcInv, UNCHANGED <<setupVars, userData>>, Spend("extra"), ExtrasOK'
    PROVE  RpcInv'
<1>1. TablesOK'
  BY DEF RpcInv, TablesOK, userData
<1> QED BY <1>1, DatabaseSetupStays, CallsAreCounted DEF RpcInv, Kinds

\* columns.metadata.set
LEMMA ColumnMetadataKeeps ==
    ASSUME RpcInv, NEW d, NEW o, NEW list, set_columns_meta_data(d, o, list)
    PROVE  RpcInv'
<1> PICK saved, metas : /\ DOMAIN metas = {<<d, o, list[k].attnum>> : k \in saved}
                        /\ columnMeta' = metas ++ columnMeta
  <2> DEFINE S == {k \in DOMAIN list : \A j \in {i \in DOMAIN list : ~frac_digits_integrity(list[i].meta)} : k < j}
             F == [x \in {<<d, o, list[k].attnum>> : k \in S} |-> list[CHOOSE k \in S : list[k].attnum = x[3]].meta]
  <2>1. columnMeta' = F ++ columnMeta
    BY DEF set_columns_meta_data
  <2>2. DOMAIN F = {<<d, o, list[k].attnum>> : k \in S}
    OBVIOUS
  <2> HIDE DEF F, S
  <2> QED BY <2>1, <2>2
<1>1. d \in DOMAIN databases /\ Spend("extra") /\ UNCHANGED <<setupVars, userData, tableMeta, explorations>>
  BY DEF set_columns_meta_data
<1>2. DOMAIN columnMeta' = DOMAIN metas \cup DOMAIN columnMeta
  BY DEF ++
<1>3. \A x \in DOMAIN metas : x[1] = d
  OBVIOUS
<1>4. ExtrasOK'
  BY <1>1, <1>2, <1>3 DEF RpcInv, ExtrasOK, setupVars, djangoRows
<1> QED BY <1>1, <1>4, ExtrasKeep

\* tables.metadata.get and set
LEMMA TableMetadataKeeps ==
    ASSUME RpcInv, NEW d, NEW o, set_table_meta_data(d, o)
    PROVE  RpcInv'
<1>1. ExtrasOK'
  BY DEF set_table_meta_data, RpcInv, ExtrasOK, setupVars, djangoRows
<1> QED BY <1>1, ExtrasKeep DEF set_table_meta_data

\* explorations.add, explorations.replace
LEMMA ExplorationEnters ==
    ASSUME RpcInv, NEW name, NEW d \in DOMAIN databases, NEW o, NEW others, NEW new,
           new = [database |-> d, base |-> o],
           \A n \in DOMAIN others : n \in DOMAIN explorations /\ others[n] = explorations[n],
           \/ explorations' = others ++ Single(name, new)
           \/ explorations' = Single(name, new) ++ others,
           Spend("extra"), UNCHANGED <<setupVars, userData, columnMeta, tableMeta>>
    PROVE  RpcInv'
<1>1. DOMAIN explorations' = DOMAIN others \cup {name}
  BY DEF ++, Single
<1>2. \A n \in DOMAIN explorations' : explorations'[n] = new \/ (n \in DOMAIN others /\ explorations'[n] = others[n])
  BY DEF ++, Single
<1>3. new.database = d
  OBVIOUS
<1>4. ExtrasOK'
  BY <1>1, <1>2, <1>3 DEF RpcInv, ExtrasOK, setupVars, djangoRows
<1> QED BY <1>4, ExtrasKeep

\* explorations.add
LEMMA ExplorationsAddKeeps ==
    ASSUME RpcInv, NEW name, NEW d, NEW o, explorations_add(name, d, o)
    PROVE  RpcInv'
BY ExplorationEnters DEF explorations_add

\* explorations.replace
LEMMA ExplorationsReplaceKeeps ==
    ASSUME RpcInv, NEW name, NEW new, NEW d, NEW o, explorations_replace(name, new, d, o)
    PROVE  RpcInv'
<1> PICK others : others = Without(explorations, {name})
  OBVIOUS
<1>1. \A n \in DOMAIN others : n \in DOMAIN explorations /\ others[n] = explorations[n]
  BY DEF Without, Restrict
<1> QED BY <1>1, ExplorationEnters DEF explorations_replace

\* explorations.delete
LEMMA ExplorationsDeleteKeeps ==
    ASSUME RpcInv, NEW name, explorations_delete(name)
    PROVE  RpcInv'
<1> PICK others : others = Without(explorations, {name})
  OBVIOUS
<1>1. \A n \in DOMAIN others : n \in DOMAIN explorations /\ others[n] = explorations[n]
  BY DEF Without, Restrict
<1>2. ExtrasOK'
  BY <1>1 DEF explorations_delete, RpcInv, ExtrasOK, setupVars, djangoRows
<1> QED BY <1>2, ExtrasKeep DEF explorations_delete

-----------------------------------------------------------------------------
(***************************************************************************)
(* Methods on the rows of DatabaseSetup.                                   *)
(***************************************************************************)

\* A step of DatabaseSetup that takes no database row leaves tables and what is kept as they are.
LEMMA SetupStepKeeps ==
    ASSUME RpcInv, DatabaseSetupInv', DOMAIN databases \subseteq DOMAIN databases',
           UNCHANGED <<userData, extras>>, budget' \in [Kinds -> Nat]
    PROVE  RpcInv'
<1>1. TablesOK'
  BY DEF RpcInv, TablesOK, userData
<1>2. ExtrasOK'
  BY DEF RpcInv, ExtrasOK, extras
<1> QED BY <1>1, <1>2 DEF RpcInv

\* The steps of a set-up.
LEMMA FreeKeeps ==
    ASSUME RpcInv, SetupAssumption, Free, Connect \/ install_mathesar \/ FinishSetup \/ LoseSetup \/ BreakSetup
    PROVE  RpcInv'
<1>1. DatabaseSetupInv
  BY DEF RpcInv
<1>2. DatabaseSetupInv'
  BY <1>1, ConnectKeeps, InstallKeeps, FinishKeeps, LoseKeeps, BreakKeeps
<1>3. DOMAIN databases \subseteq DOMAIN databases'
  <2>1. CASE FinishSetup
    BY <1>1, <2>1, LoadDataFinds, RowsEntered DEF Entered, FinishSetup, DatabaseSetupInv, JobOK
  <2>2. CASE Connect \/ install_mathesar \/ LoseSetup \/ BreakSetup
    BY <2>2 DEF Connect, install_mathesar, LoseSetup, BreakSetup, djangoRows
  <2> QED BY <2>1, <2>2
<1> QED BY <1>2, <1>3, SetupStepKeeps DEF Free, RpcInv

\* A method that leaves the database rows as they are.
LEMMA SettingKeeps ==
    ASSUME RpcInv, Setting, DatabaseSetupInv', databases' = databases
    PROVE  RpcInv'
<1>1. budget' \in [Kinds -> Nat]
  BY CallsAreCounted DEF Setting, RpcInv, Kinds
<1> QED BY <1>1, SetupStepKeeps DEF Setting

\* databases.configured.connect_existing and create_new
LEMMA SetUpMethodsKeep ==
    ASSUME RpcInv, SetupAssumption, Setting, NEW u \in Superusers, NEW name \in Names, NEW data \in Samples,
           \/ set_up_new_database_for_user_on_internal_server(u, name, data)
           \/ \E host \in Hosts, role \in Roles, password \in Passwords :
                set_up_preexisting_database_for_user(u, host, name, role, password, data)
    PROVE  RpcInv'
<1>1. PICK host, role, password, create :
         host \in Hosts /\ role \in Roles /\ password \in Passwords
         /\ _setup_connection_models(u, host, name, role, password, create, data)
  BY DEF SetupAssumption, set_up_new_database_for_user_on_internal_server, set_up_preexisting_database_for_user
<1>2. u \in Users /\ DatabaseSetupInv
  BY DEF SetupAssumption, RpcInv
<1>3. DatabaseSetupInv'
  BY <1>1, <1>2, SetupBegins
<1>4. databases' = databases
  BY <1>1 DEF _setup_connection_models
<1> QED BY <1>3, <1>4, SettingKeeps

\* connections.grant_access_to_user
LEMMA MigrationsKeep ==
    ASSUME RpcInv, SetupAssumption, Setting, NEW u \in Users, NEW host \in Hosts, NEW name \in Names,
           NEW role \in Roles, NEW password \in Passwords,
           migrate_connection_for_user(u, host, name, role, password)
    PROVE  RpcInv'
<1>1. DatabaseSetupInv
  BY DEF RpcInv
<1>2. DatabaseSetupInv' /\ DOMAIN databases \subseteq DOMAIN databases'
  BY <1>1, MigrationKeeps
<1>3. budget' \in [Kinds -> Nat]
  BY CallsAreCounted DEF Setting, RpcInv, Kinds
<1> QED BY <1>2, <1>3, SetupStepKeeps DEF Setting

\* collaborators.add, delete and set_role
LEMMA CollaboratorsKeep ==
    ASSUME RpcInv, Setting, NEW u \in Users, NEW d \in DOMAIN databases,
           \/ collaborators_delete(u, d)
           \/ \E key \in DOMAIN configuredRoles : collaborators_add(u, d, key) \/ collaborators_set_role(u, d, key)
    PROVE  RpcInv'
<1>1. DatabaseSetupInv
  BY DEF RpcInv
<1>2. CASE collaborators_delete(u, d)
  BY <1>1, <1>2, DeleteCollaboratorKeeps, SettingKeeps DEF collaborators_delete
<1>3. CASE \E key \in DOMAIN configuredRoles : collaborators_add(u, d, key)
  BY <1>1, <1>3, AddCollaboratorKeeps, SettingKeeps DEF collaborators_add
<1>4. CASE \E key \in DOMAIN configuredRoles : collaborators_set_role(u, d, key)
  BY <1>1, <1>4, SetRoleKeeps, SettingKeeps DEF collaborators_set_role
<1> QED BY <1>2, <1>3, <1>4

\* roles.configured.add, delete and set_password; passwords that change on the servers
LEMMA RolesKeep ==
    ASSUME RpcInv, Setting,
           \/ \E host \in Hosts, role \in Roles, password \in Passwords :
                \/ roles_configured_add(host, role, password)
                \/ roles_configured_set_password(<<host, role>>, password)
                \/ OthersChangePassword(host, role, password)
           \/ \E key \in DOMAIN configuredRoles : roles_configured_delete(key)
    PROVE  RpcInv'
<1>1. DatabaseSetupInv
  BY DEF RpcInv
<1>2. ASSUME NEW host \in Hosts, NEW role \in Roles, NEW password \in Passwords,
             roles_configured_add(host, role, password)
      PROVE  RpcInv'
  BY <1>1, <1>2, AddRoleKeeps, SettingKeeps DEF roles_configured_add
<1>3. ASSUME NEW host \in Hosts, NEW role \in Roles, NEW password \in Passwords,
             roles_configured_set_password(<<host, role>>, password)
      PROVE  RpcInv'
  BY <1>1, <1>3, SetPasswordKeeps, SettingKeeps DEF roles_configured_set_password
<1>4. ASSUME NEW host \in Hosts, NEW role \in Roles, NEW password \in Passwords,
             OthersChangePassword(host, role, password)
      PROVE  RpcInv'
  BY <1>1, <1>4, ChangePasswordKeeps, SettingKeeps DEF OthersChangePassword, djangoRows
<1>5. ASSUME NEW key, roles_configured_delete(key)
      PROVE  RpcInv'
  BY <1>1, <1>5, DeleteRoleKeeps, SettingKeeps DEF roles_configured_delete
<1> QED BY <1>2, <1>3, <1>4, <1>5

\* databases.configured.disconnect: what is kept for the database goes.
LEMMA DisconnectTakesAll ==
    ASSUME RpcInv, NEW d, disconnect(d)
    PROVE  RpcInv'
<1>1. DatabaseSetupInv' /\ DOMAIN databases' = DOMAIN databases \ {d}
  BY DisconnectKeeps DEF disconnect, databases_configured_disconnect, RpcInv, Restrict
<1>2. TablesOK'
  BY DEF disconnect, RpcInv, TablesOK, userData
<1>3. budget' \in [Kinds -> Nat]
  BY CallsAreCounted DEF disconnect, RpcInv, Kinds
<1>4. \A x \in DOMAIN columnMeta' \cup tableMeta' : x[1] \in DOMAIN databases'
  BY <1>1 DEF disconnect, RpcInv, ExtrasOK, Restrict
<1>5. \A n \in DOMAIN explorations' : explorations'[n].database \in DOMAIN databases'
  <2>1. \A n \in DOMAIN explorations' : /\ n \in DOMAIN explorations /\ explorations[n].database # d
                                        /\ explorations'[n] = explorations[n]
    BY DEF disconnect, Restrict
  <2> QED BY <1>1, <2>1 DEF RpcInv, ExtrasOK
<1> QED BY <1>1, <1>2, <1>3, <1>4, <1>5 DEF RpcInv, ExtrasOK

\* A place without tables.
LEMMA NoTables == Consistent(<<>>) /\ ViewsOK(<<>>, <<>>)
<1>1. DOMAIN <<>> = {}
  OBVIOUS
<1>2. NextOid(<<>>) \in Nat \ {0} /\ DOMAIN <<>> \subseteq 1 .. NextOid(<<>>) - 1
  BY <1>1, NextOidIsNew
<1>3. <<>> = [o \in DOMAIN <<>> |-> <<>>[o]]
  BY <1>1
<1>4. DatabaseOK(<<>>)
  BY <1>1, <1>2, <1>3 DEF DatabaseOK
<1>5. IsFiniteSet(DOMAIN <<>>)
  BY <1>1, FS_EmptySet
<1> QED BY <1>1, <1>3, <1>4, <1>5 DEF Consistent, ViewsOK, ViewsRead

\* databases.delete
LEMMA DropDatabaseTakesTables ==
    ASSUME RpcInv, NEW u, NEW d, NEW place, DropDatabase(u, d, place)
    PROVE  RpcInv'
<1>1. DatabaseSetupInv' /\ databases' = databases /\ place \in Places
  BY DropDatabaseKeeps DEF DropDatabase, databases_delete, djangoRows, RpcInv, DatabaseSetupInv, ServersOK
<1>2. TablesOK'
  <2>1. tables' = [tables EXCEPT ![place] = <<>>] /\ views' = [views EXCEPT ![place] = <<>>]
    BY DEF DropDatabase
  <2> QED BY <1>1, <2>1, NoTables, PlaceChanged DEF RpcInv
<1>3. ExtrasOK'
  BY <1>1 DEF DropDatabase, RpcInv, ExtrasOK, extras
<1>4. budget' \in [Kinds -> Nat]
  BY CallsAreCounted DEF DropDatabase, RpcInv, Kinds
<1> QED BY <1>1, <1>2, <1>3, <1>4 DEF RpcInv

-----------------------------------------------------------------------------
(***************************************************************************)
(* The invariant holds.                                                    *)
(***************************************************************************)

\* Each method on tables keeps the invariant.
LEMMA ShapeMethodsKeep ==
    ASSUME RpcInv, RpcAssumption, NEW p \in Usable, ShapeMethods(p)
    PROVE  RpcInv'
<1>1. CASE tables_add(p)
  BY <1>1, TablesAddKeeps
<1>2. ASSUME NEW o \in DOMAIN tables[p], NEW ref \in DOMAIN tables[p], add_mapping_table(p, <<o, ref>>)
      PROVE  RpcInv'
  BY <1>2, MappingTableKeeps
<1>3. ASSUME NEW o \in DOMAIN tables[p], columns_add(p, o) \/ columns_patch(p, o) \/ constraints_delete(p, o)
      PROVE  RpcInv'
  BY <1>3, ColumnsAddKeeps, ColumnsPatchKeeps, ConstraintsDeleteKeeps
<1>4. ASSUME NEW o \in DOMAIN tables[p], NEW cascade \in BOOLEAN, tables_delete(p, o, cascade)
      PROVE  RpcInv'
  BY <1>4, TablesDeleteKeeps
<1>5. ASSUME NEW o \in DOMAIN tables[p], NEW ref \in DOMAIN tables[p], NEW unique \in BOOLEAN,
             add_foreign_key_column(p, o, ref, unique)
      PROVE  RpcInv'
  BY <1>5, ForeignKeyColumnKeeps
<1>6. ASSUME NEW o \in DOMAIN tables[p], NEW C \in (SUBSET ColumnsOf(tables[p][o])) \ {{}},
             columns_delete(p, o, C) \/ constraints_add(p, o, C) \/ split_table(p, o, C)
      PROVE  RpcInv'
  BY <1>6, ColumnsDeleteKeeps, ConstraintsAddKeeps, SplitTableKeeps
<1>7. ASSUME NEW o \in DOMAIN tables[p], NEW C, NEW target \in DOMAIN tables[p], move_columns(p, o, target, C)
      PROVE  RpcInv'
  BY <1>7, MoveColumnsKeeps
<1>8. CASE \E o \in DOMAIN tables[p] :
             \/ columns_add(p, o) \/ columns_patch(p, o) \/ constraints_delete(p, o)
             \/ \E cascade \in BOOLEAN : tables_delete(p, o, cascade)
             \/ \E ref \in DOMAIN tables[p], unique \in BOOLEAN : add_foreign_key_column(p, o, ref, unique)
             \/ \E C \in (SUBSET ColumnsOf(tables[p][o])) \ {{}} :
                  \/ columns_delete(p, o, C) \/ constraints_add(p, o, C) \/ split_table(p, o, C)
                  \/ \E target \in DOMAIN tables[p] : move_columns(p, o, target, C)
  <2> PICK o \in DOMAIN tables[p] :
             \/ columns_add(p, o) \/ columns_patch(p, o) \/ constraints_delete(p, o)
             \/ \E cascade \in BOOLEAN : tables_delete(p, o, cascade)
             \/ \E ref \in DOMAIN tables[p], unique \in BOOLEAN : add_foreign_key_column(p, o, ref, unique)
             \/ \E C \in (SUBSET ColumnsOf(tables[p][o])) \ {{}} :
                  \/ columns_delete(p, o, C) \/ constraints_add(p, o, C) \/ split_table(p, o, C)
                  \/ \E target \in DOMAIN tables[p] : move_columns(p, o, target, C)
    BY <1>8
  <2>1. CASE \E C \in (SUBSET ColumnsOf(tables[p][o])) \ {{}} :
                  \/ columns_delete(p, o, C) \/ constraints_add(p, o, C) \/ split_table(p, o, C)
                  \/ \E target \in DOMAIN tables[p] : move_columns(p, o, target, C)
    BY <2>1, <1>6, <1>7
  <2>2. CASE \E ref \in DOMAIN tables[p], unique \in BOOLEAN : add_foreign_key_column(p, o, ref, unique)
    BY <2>2, <1>5
  <2>3. CASE \E cascade \in BOOLEAN : tables_delete(p, o, cascade)
    BY <2>3, <1>4
  <2>4. CASE columns_add(p, o) \/ columns_patch(p, o) \/ constraints_delete(p, o)
    BY <2>4, <1>3
  <2> QED BY <2>1, <2>2, <2>3, <2>4
<1> QED BY <1>1, <1>2, <1>8, Zenon DEF ShapeMethods

\* Each method on rows keeps the invariant.
LEMMA RowMethodsKeep ==
    ASSUME RpcInv, RpcAssumption, NEW p \in Usable, NEW o \in DOMAIN tables[p], RowMethods(p, o)
    PROVE  RpcInv'
BY RecordsAddKeeps, RecordsPatchKeeps, RecordsDeleteKeeps DEF RowMethods

\* Each method on what is kept for databases keeps the invariant.
LEMMA ExtraMethodsKeep ==
    ASSUME RpcInv, ExtraMethods
    PROVE  RpcInv'
BY TableMetadataKeeps, ColumnMetadataKeeps, ExplorationsAddKeeps, ExplorationsReplaceKeeps, ExplorationsDeleteKeeps
   DEF ExtraMethods

\* Each method on Django's rows keeps the invariant.
LEMMA SetupMethodsKeep ==
    ASSUME RpcInv, SetupAssumption, SetupMethods
    PROVE  RpcInv'
BY SetUpMethodsKeep, FreeKeeps, MigrationsKeep, CollaboratorsKeep, RolesKeep, DisconnectTakesAll, DropDatabaseTakesTables
   DEF SetupMethods

\* Every step keeps the invariant.
LEMMA RpcInvKept ==
    ASSUME RpcInv, SetupAssumption, RpcAssumption, [Next]_vars
    PROVE  RpcInv'
<1>1. CASE SetupMethods
  BY <1>1, SetupMethodsKeep
<1>2. CASE TableMethods
  BY <1>2, ShapeMethodsKeep, RowMethodsKeep DEF TableMethods
<1>3. CASE ExtraMethods
  BY <1>3, ExtraMethodsKeep
<1>4. CASE UNCHANGED vars
  <2>1. DatabaseSetupInv'
    BY <1>4, DatabaseSetupStays DEF RpcInv, vars
  <2> QED BY <1>4, <2>1 DEF RpcInv, TablesOK, ExtrasOK, vars, setupVars, djangoRows, userData, extras
<1> QED BY <1>1, <1>2, <1>3, <1>4 DEF Next

\* The servers as a behaviour finds them.
LEMMA InitialServers ==
    ASSUME SetupAssumption, Init
    PROVE  /\ ServersOK /\ setup = {} /\ bare = {}
           /\ budget \in Budgets /\ columnMeta = <<>> /\ tableMeta = {} /\ explorations = <<>>
<1>1. passwords \in [Keys -> Passwords]
  BY DEF Init, SetupAssumption, Keys
<1>2. parts \in [DOMAIN parts -> SUBSET Parts] /\ DOMAIN parts \subseteq Places
  <2>1. CASE Fresh
    BY <2>1 DEF Fresh
  <2>2. CASE Connected
    BY <2>2 DEF Connected
  <2> QED BY <2>1, <2>2 DEF Init
<1> QED BY <1>1, <1>2 DEF Init, ServersOK

\* Nothing is set up.
LEMMA FreshStarts ==
    ASSUME SetupAssumption, Init, Fresh
    PROVE  DjangoRowsOK /\ Registered /\ TablesOK
<1>1. DOMAIN <<>> = {}
  OBVIOUS
<1>2. /\ servers = {} /\ databases = <<>> /\ configuredRoles = <<>> /\ maps = <<>> /\ nextId = 1
  BY DEF Fresh
<1>3. 1 \in 1 .. MaxIds + 1
  BY DEF SetupAssumption
<1>4. DjangoRowsOK
  BY <1>1, <1>2, <1>3 DEF DjangoRowsOK, IsInjective
<1>5. Registered
  BY <1>1, <1>2 DEF Registered
<1>6. TablesOK
  BY NoTables DEF Fresh, TablesOK
<1> QED BY <1>4, <1>5, <1>6

\* The tables and views a behaviour may find.
LEMMA InitialTablesFit ==
    ASSUME RpcAssumption, NEW db \in InitialTables, NEW v \in InitialViews, ViewsRead(db, v)
    PROVE  Consistent(db) /\ ViewsOK(v, db)
<1>1. /\ DOMAIN db \subseteq 1 .. MaxTables /\ db = [o \in DOMAIN db |-> db[o]]
      /\ (\A o \in DOMAIN db : WellFormed(db[o])) /\ KeysRefer(db) /\ MaxTables \in Nat
  BY DEF RpcAssumption
<1>2. /\ IsFiniteSet(DOMAIN v) /\ DOMAIN v \subseteq Int \ Nat /\ v \in [DOMAIN v -> SUBSET (Int \X Int)]
  BY DEF RpcAssumption
<1>3. NextOid(db) \in Nat \ {0} /\ DOMAIN db \subseteq 1 .. NextOid(db) - 1
  BY <1>1, NextOidIsNew
<1>4. \A o \in DOMAIN db : Refers(db[o], db)
  BY <1>1, ConsistentRefers
<1> QED BY <1>1, <1>2, <1>3, <1>4 DEF Consistent, DatabaseOK, ViewsOK

\* A superuser has set up a database.
LEMMA ConnectedStarts ==
    ASSUME SetupAssumption, RpcAssumption, Init, Connected
    PROVE  DjangoRowsOK /\ Registered /\ TablesOK
<1>1. PICK place \in {p \in Places : p[1] # InternalHost /\ p[2] # InternalName}, r \in Roles, u \in Superusers :
        LET key == <<place[1], r>>
        IN  /\ servers = {place[1]} /\ databases = Single(1, place) /\ nextId = 2
            /\ configuredRoles = Single(key, InitialPassword[place[1]])
            /\ maps = Single(<<u, 1>>, [role |-> key, server |-> place[1]])
            /\ parts = [p \in {q \in Places : q[1] # InternalHost \/ q[2] = InternalName} |->
                            IF p = place THEN Parts ELSE {}]
            /\ \E db \in InitialTables, v \in InitialViews :
                /\ ViewsRead(db, v)
                /\ tables = [p \in Places |-> IF p = place THEN db ELSE <<>>]
                /\ views = [p \in Places |-> IF p = place THEN v ELSE <<>>]
  BY DEF Connected
<1> PICK key : key = <<place[1], r>>
  OBVIOUS
<1> PICK m : m = [role |-> key, server |-> place[1]]
  OBVIOUS
<1>2. /\ servers = {place[1]} /\ nextId = 2
      /\ DOMAIN databases = {1} /\ databases[1] = place /\ databases = [d \in {1} |-> databases[d]]
      /\ DOMAIN configuredRoles = {key} /\ configuredRoles[key] = InitialPassword[place[1]]
      /\ configuredRoles = [k \in {key} |-> configuredRoles[k]]
      /\ DOMAIN maps = {<<u, 1>>} /\ maps[<<u, 1>>] = m /\ maps = [x \in {<<u, 1>>} |-> maps[x]]
  BY <1>1 DEF Single
<1>3. place \in Places /\ place[1] \in Hosts /\ place[1] # InternalHost /\ key \in Keys /\ key[1] = place[1] /\ u \in Users
  BY DEF Places, Keys, SetupAssumption
<1>4. m \in [role : Keys, server : Hosts] /\ m.role = key /\ m.server = place[1] /\ InitialPassword[place[1]] \in Passwords
  BY <1>3 DEF SetupAssumption
<1>5. DjangoRowsOK
  <2>1. nextId \in 1 .. MaxIds + 1
    BY <1>2 DEF SetupAssumption
  <2>2. /\ databases \in [DOMAIN databases -> Places] /\ DOMAIN databases \subseteq 1 .. nextId - 1
        /\ IsInjective(databases)
    BY <1>2, <1>3 DEF IsInjective
  <2>3. /\ configuredRoles \in [DOMAIN configuredRoles -> Passwords] /\ DOMAIN configuredRoles \subseteq Keys
    BY <1>2, <1>3, <1>4
  <2>4. maps \in [DOMAIN maps -> [role : Keys, server : Hosts]]
    BY <1>2, <1>4
  <2>5. DOMAIN maps \subseteq Users \X (1 .. nextId - 1)
    BY <1>2, <1>3
  <2>6. servers \subseteq Hosts /\ (\A d \in DOMAIN databases : databases[d][1] \in servers)
        /\ (\A k \in DOMAIN configuredRoles : k[1] \in servers)
    BY <1>2, <1>3
  <2>7. \A x \in DOMAIN maps : /\ x[2] \in DOMAIN databases
                               /\ maps[x].role \in DOMAIN configuredRoles /\ maps[x].server \in servers
    BY <1>2, <1>4
  <2> QED BY <2>1, <2>2, <2>3, <2>4, <2>5, <2>6, <2>7 DEF DjangoRowsOK
<1>6. Registered
  <2>1. place \in DOMAIN parts /\ parts[place] = Parts
    BY <1>1, <1>3
  <2> QED BY <1>2, <2>1 DEF Registered, IsInstalled
<1>7. TablesOK
  <2>1. PICK db \in InitialTables, v \in InitialViews :
            /\ ViewsRead(db, v)
            /\ tables = [p \in Places |-> IF p = place THEN db ELSE <<>>]
            /\ views = [p \in Places |-> IF p = place THEN v ELSE <<>>]
    BY <1>1
  <2>2. Consistent(db) /\ ViewsOK(v, db)
    BY <2>1, InitialTablesFit
  <2> QED BY <2>1, <2>2, NoTables DEF TablesOK
<1> QED BY <1>5, <1>6, <1>7

\* The invariant holds at first.
LEMMA RpcInvStarts ==
    ASSUME SetupAssumption, RpcAssumption, Init
    PROVE  RpcInv
<1>1. DjangoRowsOK /\ Registered /\ TablesOK
  BY FreshStarts, ConnectedStarts DEF Init
<1>2. ServersOK /\ SetupOK
  BY InitialServers DEF SetupOK
<1>3. ExtrasOK
  <2>1. DOMAIN <<>> = {}
    OBVIOUS
  <2> QED BY <2>1, InitialServers DEF ExtrasOK
<1>4. budget \in [Kinds -> Nat]
  BY InitialServers DEF RpcAssumption
<1> QED BY <1>1, <1>2, <1>3, <1>4 DEF RpcInv, DatabaseSetupInv

\* The invariant of the Django rows, the servers, the tables and what is kept for databases
\* holds in every state.
THEOREM RpcInvHolds == Spec => []RpcInv
<1>1. Init => RpcInv
  BY RpcInvStarts, SetupAssumption, RpcAssumption
<1>2. RpcInv /\ [Next]_vars => RpcInv'
  BY RpcInvKept, SetupAssumption, RpcAssumption
<1> QED BY <1>1, <1>2, PTL DEF Spec

-----------------------------------------------------------------------------
(***************************************************************************)
(* The properties.                                                         *)
(***************************************************************************)

\* At most one set-up is under way.
LEMMA OneSetup ==
    ASSUME SetupOK
    PROVE  Cardinality(setup) <= 1
<1>1. CASE setup = {}
  BY <1>1, FS_EmptySet
<1>2. CASE setup # {}
  <2>1. PICK s : setup = {s}
    BY <1>2 DEF SetupOK
  <2> QED BY <2>1, FS_Singleton
<1> QED BY <1>1, <1>2

\* The types follow from the invariant.
LEMMA TypesHold ==
    ASSUME RpcInv
    PROVE  TypeOK
<1>1. DOMAIN databases \subseteq 1 .. MaxIds
  BY SetupAssumption DEF RpcInv, DatabaseSetupInv, DjangoRowsOK, SetupAssumption
<1>2. Range(databases) \subseteq Places /\ Range(configuredRoles) \subseteq Passwords
  BY DEF RpcInv, DatabaseSetupInv, DjangoRowsOK, Range
<1>3. Cardinality(setup) <= 1
  BY OneSetup DEF RpcInv, DatabaseSetupInv
<1>4. \A p \in Places : /\ \A o \in DOMAIN tables[p] : TableOK(tables[p][o])
                        /\ ViewsRead(tables[p], views[p])
  BY DEF RpcInv, TablesOK, ViewsOK, Consistent, DatabaseOK, WellFormed
<1>5. /\ servers \subseteq Hosts /\ IsInjective(databases) /\ DOMAIN configuredRoles \subseteq Hosts \X Roles
      /\ nextId \in 1 .. MaxIds + 1 /\ DOMAIN parts \subseteq Places /\ DOMAIN samples = DOMAIN parts
      /\ \A p \in DOMAIN parts : parts[p] \subseteq Parts
  BY DEF RpcInv, DatabaseSetupInv, DjangoRowsOK, ServersOK, Keys
<1> QED BY <1>1, <1>2, <1>3, <1>4, <1>5 DEF TypeOK

\* Every row of Mathesar's refers to rows there are, and tables keep their shape: disconnecting
\* a database and deleting a role, also while a set-up is under way, leave nothing behind.
THEOREM RowsReferToRowsHolds == Spec => []RowsReferToRows
<1>1. RpcInv => RowsReferToRows
  BY TypesHold DEF RowsReferToRows, RpcInv, DatabaseSetupInv, DjangoRowsOK, ExtrasOK
<1> QED BY <1>1, RpcInvHolds, PTL

\* A database that is listed is installed, whichever set-ups broke before it was.
THEOREM RegisteredDatabasesAreInstalledHolds == Spec => []RegisteredDatabasesAreInstalled
<1>1. RpcInv => RegisteredDatabasesAreInstalled
  BY DEF RpcInv, DatabaseSetupInv, Registered, IsInstalled, RegisteredDatabasesAreInstalled
<1> QED BY <1>1, RpcInvHolds, PTL

\* References are to rows there are, after every method and also after splits and moves, which
\* compute the ids of rows that do not exist yet.
THEOREM ReferencesHoldAlways == Spec => []ReferencesHold
<1>1. RpcInv => ReferencesHold
  BY ConsistentRefers DEF RpcInv, TablesOK, Consistent, ReferencesHold
<1> QED BY <1>1, RpcInvHolds, PTL

\* A step that counts no call is one of a set-up.
LEMMA UncountedSteps ==
    ASSUME RpcInv, [Next]_vars, budget' = budget
    PROVE  Connect \/ install_mathesar \/ FinishSetup \/ LoseSetup \/ BreakSetup \/ UNCHANGED vars
<1>1. \A kind \in Kinds : ~Spend(kind)
  BY CallsAreCounted DEF RpcInv
<1>2. ~Spend("setup") /\ ~Spend("shape") /\ ~Spend("row") /\ ~Spend("extra")
  BY <1>1 DEF Kinds
<1>3. ~ExtraMethods
  BY <1>2 DEF ExtraMethods, set_table_meta_data, set_columns_meta_data, explorations_add, explorations_replace,
             explorations_delete
<1>4. ~TableMethods
  <2>1. ASSUME NEW p PROVE ~ShapeMethods(p)
    <3>1. \A db : ~Method(p, db)
      BY <1>2 DEF Method
    <3>2. \A o, t : ~OnTable(p, o, t)
      BY <3>1 DEF OnTable
    <3>3. ~tables_add(p) /\ \A refs : ~add_mapping_table(p, refs)
      BY <3>1 DEF tables_add, add_mapping_table
    <3>4. \A o, cascade : ~tables_delete(p, o, cascade)
      BY <1>2 DEF tables_delete
    <3>5. \A o : ~columns_add(p, o) /\ ~columns_patch(p, o) /\ ~constraints_delete(p, o)
      BY <3>2 DEF columns_add, columns_patch, constraints_delete
    <3>6. \A o, C : ~columns_delete(p, o, C) /\ ~constraints_add(p, o, C) /\ ~split_table(p, o, C)
      BY <3>1, <3>2 DEF columns_delete, constraints_add, split_table
    <3>7. \A o, ref, unique : ~add_foreign_key_column(p, o, ref, unique)
      BY <3>1 DEF add_foreign_key_column
    <3>8. \A o, target, C : ~move_columns(p, o, target, C)
      BY <3>1 DEF move_columns
    <3> QED BY <3>3, <3>4, <3>5, <3>6, <3>7, <3>8 DEF ShapeMethods
  <2>2. ASSUME NEW p, NEW o PROVE ~RowMethods(p, o)
    <3>1. \A rows : ~OnRows(p, o, rows)
      BY <1>2 DEF OnRows
    <3> QED BY <3>1 DEF RowMethods, records_add, records_patch, records_delete
  <2> QED BY <2>1, <2>2 DEF TableMethods
<1>5. SetupMethods => Connect \/ install_mathesar \/ FinishSetup \/ LoseSetup \/ BreakSetup
  BY <1>2 DEF SetupMethods, Setting, disconnect, DropDatabase
<1> QED BY <1>3, <1>4, <1>5 DEF Next

\* A set-up and an old-style connection take from no collaborator a connection that worked,
\* wherever a set-up breaks, and one that succeeds leaves its user with one that works.
THEOREM SetUpsKeepConnectionsHolds == Spec => SetUpsKeepConnections
<1> DEFINE Free_ == (setup # {} \/ setup' # {}) /\ budget' = budget => ConnectionsStay
<1>1. RpcInv => SetUpUserCanConnect
  <2> SUFFICES ASSUME RpcInv, FinishSetup,
                      NEW x \in {<<Job.user, Job.database>>}, x \in DOMAIN maps',
                      maps'[x] = [role |-> Job.role, server |-> Job.place[1]],
                      "map" \in Job.new => configuredRoles'[Job.role] = Job.stored
               PROVE  connect(x[2], x[1])'
    BY DEF SetUpUserCanConnect
  <2>1. DatabaseSetupInv /\ x = <<Job.user, Job.database>>
    BY DEF RpcInv
  <2> QED BY <2>1, SetUpConnects, SetupAssumption
<1>2. RpcInv /\ [Next]_vars => Free_
  <2> SUFFICES ASSUME RpcInv, [Next]_vars, budget' = budget, NEW x \in DOMAIN maps, connect(x[2], x[1])
               PROVE  connect(x[2], x[1])'
    BY DEF ConnectionsStay
  <2>1. DatabaseSetupInv
    BY DEF RpcInv
  <2>2. CASE UNCHANGED vars
    BY <2>2 DEF vars, setupVars, djangoRows, serverSide, connect, Works, Reach, CanConnect
  <2>3. CASE Connect \/ install_mathesar \/ FinishSetup \/ LoseSetup \/ BreakSetup
    BY <2>1, <2>3, SetUpTakesNothing
  <2> QED BY <2>2, <2>3, UncountedSteps
<1>3. RpcInv => MigrationsKeepConnections
  <2> SUFFICES ASSUME RpcInv, NEW u \in Users, NEW host \in Hosts, NEW name \in Names, NEW role \in Roles,
                      NEW password \in Passwords, migrate_connection_for_user(u, host, name, role, password),
                      NEW x \in DOMAIN maps, connect(x[2], x[1])
               PROVE  connect(x[2], x[1])'
    BY DEF MigrationsKeepConnections, ConnectionsStay
  <2>1. DatabaseSetupInv
    BY DEF RpcInv
  <2>2. PICK rows : RowsFit(rows) /\ EnterRows(rows) /\ UNCHANGED <<parts, passwords>>
    BY <2>1, MigrationEnters, SetupAssumption
  <2> QED BY <2>1, <2>2, EnteringTakesNothing
<1>4. RpcInv /\ [Next]_vars => [SetUpUserCanConnect /\ MigrationsKeepConnections /\ Free_]_vars
  BY <1>1, <1>2, <1>3
<1> QED BY <1>4, RpcInvHolds, PTL DEF Spec, SetUpsKeepConnections

\* After a split the rows find what they held.
LEMMA SplitsKeepValues ==
    ASSUME RpcInv
    PROVE  SplitKeepsValues
<1> SUFFICES ASSUME NEW p \in Usable, NEW o \in DOMAIN tables[p], NEW C \in SUBSET ColumnsOf(tables[p][o]),
                    split_table(p, o, C), NEW r \in DOMAIN tables[p][o].rows, NEW c \in C
             PROVE  ValueBehind(tables'[p], o, r, tables[p][o].next, tables[p][o].cols[c]) = tables[p][o].rows[r][c]
  BY DEF SplitKeepsValues, Narrower, Staying
<1>1. p \in Places /\ Consistent(tables[p])
  BY ReachedTables
<1>2. tables'[p] = extract_columns_from_table(tables[p], o, C)
  BY <1>1 DEF split_table, Method, RpcInv, TablesOK
<1> QED BY <1>1, <1>2, SplitKeepsWhatRowsHeld

\* After a move the rows that have no NULL in what moves find what they held and what they
\* referred to held, and the rows of the target keep what they had.
LEMMA MovesKeepValues ==
    ASSUME RpcInv
    PROVE  MoveKeepsValues
<1> SUFFICES ASSUME NEW p \in {q \in Usable : DOMAIN tables[q] = DOMAIN tables'[q]},
                    NEW o \in Narrower(p), NEW target \in Wider(p),
                    NEW C \in SUBSET ColumnsOf(tables[p][o]), move_columns(p, o, target, C)
             PROVE  LET s == tables[p][o]
                        t == tables[p][target]
                        f == JoinColumn(s, target)
                    IN  /\ \A r \in DOMAIN s.rows : (s.rows[r][f] # NULL /\ NULL \notin Range(Part(s, r, C))) =>
                            /\ \A c \in C : ValueBehind(tables'[p], o, r, f, s.cols[c]) = s.rows[r][c]
                            /\ \A c \in ColumnsOf(t) :
                                 ValueBehind(tables'[p], o, r, f, t.cols[c]) = t.rows[s.rows[r][f]][c]
                        /\ \A id \in DOMAIN t.rows : Part(tables'[p][target], id, ColumnsOf(t)) = OthersOf(t, id)
  BY DEF MoveKeepsValues
<1>0. p \in Usable /\ o \in DOMAIN tables[p] /\ target \in DOMAIN tables[p]
  BY DEF Narrower, Wider, Staying
<1> DEFINE s == tables[p][o]
           t == tables[p][target]
           f == JoinColumn(s, target)
           db == tables[p]
           after == tables'[p]
<1>1. p \in Places /\ Consistent(db) /\ CanMove(db, o, target, C)
  BY <1>0, ReachedTables DEF move_columns
<1>2. after = move_columns_to_referenced_table(db, o, target, C)
  BY <1>0, <1>1 DEF move_columns, Method, RpcInv, TablesOK
<1>3. ASSUME NEW r \in DOMAIN s.rows, s.rows[r][f] # NULL, NULL \notin Range(Part(s, r, C))
      PROVE  /\ \A c \in C : ValueBehind(after, o, r, f, s.cols[c]) = s.rows[r][c]
             /\ \A c \in ColumnsOf(t) : ValueBehind(after, o, r, f, t.cols[c]) = t.rows[s.rows[r][f]][c]
  BY <1>0, <1>1, <1>2, <1>3, MoveKeepsWhatRowsHeld
<1>4. ASSUME NEW id \in DOMAIN t.rows PROVE Part(after[target], id, ColumnsOf(t)) = OthersOf(t, id)
  <2>1. MovedOver(after, db, o, target, f, C)
    BY <1>0, <1>1, <1>2, MoveFields
  <2>2. MovedInto(after[target], s, f, C, t, NewPlaces(C, t.next))
    BY <2>1 DEF MovedOver
  <2>3. \A a \in ColumnsOf(t) : after[target].rows[id][a] = t.rows[id][a]
    BY <2>2 DEF MovedInto
  <2> QED BY <2>3 DEF Part, OthersOf
<1> QED BY <1>3, <1>4

\* No value is lost: what rows held before a split or a move they find behind the reference
\* they have after it.
THEOREM ValuesAreKeptHolds == Spec => ValuesAreKept
<1>1. RpcInv => SplitKeepsValues /\ MoveKeepsValues
  BY SplitsKeepValues, MovesKeepValues
<1> QED BY <1>1, RpcInvHolds, PTL DEF ValuesAreKept

-----------------------------------------------------------------------------
(***************************************************************************)
(* What is listed before a table or columns are dropped is what goes.      *)
(***************************************************************************)
\* Every table stays, with all its columns.
ColumnsStay(p) == \A o \in DOMAIN tables[p] :
    o \in DOMAIN tables'[p] /\ ColumnsOf(tables[p][o]) \subseteq ColumnsOf(tables'[p][o])

\* What a method makes of the place it is called on, and of no other.
LEMMA MethodGives ==
    ASSUME RpcInv, NEW p \in Usable, NEW after, Method(p, after)
    PROVE  tables'[p] = after /\ views'[p] = views[p]
BY ReachedTables DEF Method, RpcInv, TablesOK

\* A method on one table that loses no column.
LEMMA OnTableStays ==
    ASSUME RpcInv, NEW p \in Usable, NEW o \in DOMAIN tables[p], NEW t, OnTable(p, o, t),
           DOMAIN tables[p][o].cols \subseteq DOMAIN t.cols
    PROVE  ColumnsStay(p) /\ views'[p] = views[p]
<1> PICK db : db = tables[p]
  OBVIOUS
<1> PICK after : after = tables'[p]
  OBVIOUS
<1>1. after = [db EXCEPT ![o] = t] /\ views'[p] = views[p]
  BY MethodGives DEF OnTable
<1>2. DOMAIN after = DOMAIN db /\ \A q \in DOMAIN db : DOMAIN db[q].cols \subseteq DOMAIN after[q].cols
  BY <1>1
<1> QED BY <1>1, <1>2 DEF ColumnsStay, ColumnsOf

\* A new table takes nothing from the others.
LEMMA NewTableStays ==
    ASSUME RpcInv, NEW p \in Usable, NEW g, Method(p, tables[p] ++ g)
    PROVE  ColumnsStay(p) /\ views'[p] = views[p]
<1> PICK after : after = tables[p] ++ g
  OBVIOUS
<1>1. DOMAIN tables[p] \subseteq DOMAIN after /\ \A o \in DOMAIN tables[p] : after[o] = tables[p][o]
  BY DEF ++
<1>2. tables'[p] = after /\ views'[p] = views[p]
  BY MethodGives
<1> QED BY <1>1, <1>2 DEF ColumnsStay

\* The methods that add columns, and those that rename or change constraints, take no column.
LEMMA MethodsThatTakeNothing ==
    ASSUME RpcInv, RpcAssumption, NEW p \in Usable, NEW o \in DOMAIN tables[p],
           \/ columns_add(p, o) \/ columns_patch(p, o) \/ constraints_delete(p, o)
           \/ \E C \in (SUBSET ColumnsOf(tables[p][o])) \ {{}} : constraints_add(p, o, C)
           \/ \E ref \in DOMAIN tables[p], unique \in BOOLEAN : add_foreign_key_column(p, o, ref, unique)
    PROVE  ColumnsStay(p) /\ views'[p] = views[p]
<1> PICK t : t = tables[p][o]
  OBVIOUS
<1>1. WellFormed(t) /\ Consistent(tables[p])
  BY ReachedTables
<1>2. CASE columns_add(p, o)
  <2>1. PICK n \in DataNames : OnTable(p, o, add_columns(t, <<n>>))
    BY <1>2 DEF columns_add
  <2>2. ColumnsAdded(add_columns(t, <<n>>), t, 1, <<n>>)
    BY <1>1, AddColumnsFields
  <2>3. DOMAIN t.cols \subseteq DOMAIN add_columns(t, <<n>>).cols
    BY <2>2 DEF ColumnsAdded
  <2> QED BY <2>1, <2>3, OnTableStays
<1>3. CASE columns_patch(p, o)
  <2>1. PICK c \in ColumnsOf(t), n \in DataNames : CanRename(t, c, n) /\ OnTable(p, o, Rename(t, c, n))
    BY <1>3 DEF columns_patch
  <2>2. n \in Nat
    BY DEF RpcAssumption, FirstKeyName
  <2>3. DOMAIN Rename(t, c, n).cols = DOMAIN t.cols
    BY <1>1, <2>1, <2>2, RenameKeeps
  <2> QED BY <2>1, <2>3, OnTableStays
<1>4. CASE constraints_delete(p, o)
  <2>1. CASE \E U \in t.uniques : OnTable(p, o, DropUnique(t, U))
    <3>1. PICK U \in t.uniques : OnTable(p, o, DropUnique(t, U))
      BY <2>1
    <3>2. DropUnique(t, U).cols = t.cols
      BY <1>1, DropUniqueKeeps
    <3> QED BY <3>1, <3>2, OnTableStays
  <2>2. CASE \E c \in DOMAIN t.fks : OnTable(p, o, DropForeignKey(t, c))
    <3>1. PICK c \in DOMAIN t.fks : OnTable(p, o, DropForeignKey(t, c))
      BY <2>2
    <3>2. DropForeignKey(t, c).cols = t.cols
      BY <1>1, DropForeignKeyKeeps
    <3> QED BY <3>1, <3>2, OnTableStays
  <2> QED BY <1>4, <2>1, <2>2 DEF constraints_delete
<1>5. ASSUME NEW C \in (SUBSET ColumnsOf(t)) \ {{}}, constraints_add(p, o, C)
      PROVE  ColumnsStay(p) /\ views'[p] = views[p]
  <2>1. CASE CanAddUnique(t, C) /\ OnTable(p, o, AddUnique(t, C))
    <3>1. AddUnique(t, C).cols = t.cols
      BY <1>1, <2>1, AddUniqueKeeps
    <3> QED BY <2>1, <3>1, OnTableStays
  <2>2. CASE \E c \in C, r \in DOMAIN tables[p] :
               CanAddForeignKey(tables[p], o, c, r) /\ Method(p, AddForeignKey(tables[p], o, c, r))
    <3>1. PICK c \in C, r \in DOMAIN tables[p] :
               CanAddForeignKey(tables[p], o, c, r) /\ Method(p, AddForeignKey(tables[p], o, c, r))
      BY <2>2
    <3> PICK after : after = AddForeignKey(tables[p], o, c, r)
      OBVIOUS
    <3>2. DOMAIN after = DOMAIN tables[p] /\ \A q \in DOMAIN tables[p] : after[q].cols = tables[p][q].cols
      BY <1>1, <3>1, AddForeignKeyKeeps
    <3>3. tables'[p] = after /\ views'[p] = views[p]
      BY <3>1, MethodGives
    <3> QED BY <3>2, <3>3 DEF ColumnsStay, ColumnsOf
  <2> QED BY <1>5, <2>1, <2>2 DEF constraints_add
<1>6. CASE \E ref \in DOMAIN tables[p], unique \in BOOLEAN : add_foreign_key_column(p, o, ref, unique)
  <2>1. PICK ref \in DOMAIN tables[p], unique \in BOOLEAN : add_foreign_key_column(p, o, ref, unique)
    BY <1>6
  <2>2. OnTable(p, o, WithKey(t, ref, unique))
    BY <2>1 DEF add_foreign_key_column, AddForeignKeyColumn, OnTable
  <2>3. KeyAdded(WithKey(t, ref, unique), t, ref)
    BY <1>1, WithKeyFields DEF Consistent, DatabaseOK
  <2>4. DOMAIN t.cols \subseteq DOMAIN WithKey(t, ref, unique).cols
    BY <2>3 DEF KeyAdded
  <2> QED BY <2>2, <2>4, OnTableStays
<1> QED BY <1>2, <1>3, <1>4, <1>5, <1>6

\* What is said of a place on which a method drops something.
Foretold(p) ==
    /\ \A o \in DOMAIN tables[p] \ DOMAIN tables'[p] :
        LET listed == Listed(tables[p], views[p], o, 0)
        IN  /\ listed \subseteq GoneFrom(p)
            /\ GoneFrom(p) \subseteq listed \cup {Relation(o)} \/ IsCutOff(tables[p], views[p], o, 0)
            /\ \A q \in DOMAIN tables'[p] : tables'[p][q].cols = tables[p][q].cols
    /\ \A o \in DOMAIN tables[p] \cap DOMAIN tables'[p] :
        (GoneColumns(p, o) # {} /\ DOMAIN tables[p] = DOMAIN tables'[p] /\ \A q \in DOMAIN tables[p] \ {o} : tables'[p][q] = tables[p][q]) =>
        /\ GoneFrom(p) = UNION {Listed(tables[p], views[p], o, c) : c \in GoneColumns(p, o)}
        /\ \E c \in GoneColumns(p, o) : has_dependents(tables[p], views[p], o, c)

\* Where every column stays there is nothing to foretell.
LEMMA NothingTaken ==
    ASSUME NEW p, ColumnsStay(p)
    PROVE  Foretold(p)
BY DEF Foretold, ColumnsStay, GoneColumns

\* tables.delete
LEMMA TableDeletionIsForetold ==
    ASSUME RpcInv, NEW p \in Usable, NEW o \in DOMAIN tables[p], NEW cascade, tables_delete(p, o, cascade)
    PROVE  Foretold(p)
<1> PICK db : db = tables[p]
  OBVIOUS
<1> PICK vs : vs = views[p]
  OBVIOUS
<1> PICK after : after = DropTable(db, o)
  OBVIOUS
<1>1. p \in Places /\ Consistent(db) /\ ViewsOK(vs, db)
  BY ReachedTables DEF RpcInv, TablesOK
<1>2. tables'[p] = after /\ views'[p] = DropViews(db, vs, o)
  BY <1>1 DEF tables_delete, RpcInv, TablesOK
<1>3. DOMAIN tables'[p] = DOMAIN db \ {o} /\ \A q \in DOMAIN tables'[p] : tables'[p][q].cols = db[q].cols
  <2>1. DOMAIN after = DOMAIN db \ {o} /\ \A q \in DOMAIN db \ {o} : after[q].cols = db[q].cols
    BY <1>1, DropTableKeeps
  <2> QED BY <1>2, <2>1
<1>4. GoneFrom(p) = GoneWith(db, vs, o)
  BY <1>2 DEF GoneFrom, GoneWith
<1>5. /\ Listed(db, vs, o, 0) \subseteq GoneFrom(p)
      /\ GoneFrom(p) \subseteq Listed(db, vs, o, 0) \cup {Relation(o)} \/ IsCutOff(db, vs, o, 0)
  BY <1>1, <1>4, TableDropForetold
<1>6. \A q \in DOMAIN db \ DOMAIN tables'[p] : q = o
  BY <1>3
<1>7. DOMAIN db # DOMAIN tables'[p]
  BY <1>3
<1> QED BY <1>3, <1>5, <1>6, <1>7 DEF Foretold

\* columns.delete
LEMMA ColumnsDeletionIsForetold ==
    ASSUME RpcInv, NEW p \in Usable, NEW o \in DOMAIN tables[p], NEW C \in SUBSET ColumnsOf(tables[p][o]),
           columns_delete(p, o, C), GoneFrom(p) # {}
    PROVE  Foretold(p)
<1>1. PICK db : db = tables[p]
  OBVIOUS
<1>2. PICK vs : vs = views[p]
  OBVIOUS
<1>3. PICK after : after = [db EXCEPT ![o] = drop_columns(db[o], C)]
  OBVIOUS
<1>4. Consistent(db) /\ ViewsOK(vs, db) /\ o \in DOMAIN db /\ WellFormed(db[o]) /\ C \subseteq ColumnsOf(db[o])
  BY <1>1, <1>2, ReachedTables DEF RpcInv, TablesOK
<1>5. CanDropColumns(vs, o, C) /\ OnTable(p, o, drop_columns(db[o], C))
  BY <1>1, <1>2 DEF columns_delete
<1>6. tables'[p] = after /\ views'[p] = vs
  BY <1>1, <1>2, <1>3, <1>5, MethodGives DEF OnTable
<1>7. GoneFrom(p) = GoneWithColumns(db, vs, o, C)
  BY <1>1, <1>2, <1>3, <1>6 DEF GoneFrom, GoneWithColumns
<1>8. /\ GoneFrom(p) = UNION {Listed(db, vs, o, c) : c \in C}
      /\ \E c \in C : has_dependents(db, vs, o, c)
  BY <1>4, <1>5, <1>7, ColumnsDropForetold
<1>9. DOMAIN after = DOMAIN db /\ after[o] = drop_columns(db[o], C) /\ \A q \in DOMAIN db \ {o} : after[q] = db[q]
  BY <1>3, <1>4
<1>10. GoneColumns(p, o) = C
  <2>1. ColumnsDropped(after[o], db[o], C)
    BY <1>4, <1>9, DropColumnsFields
  <2>2. ColumnsOf(after[o]) = ColumnsOf(db[o]) \ C
    BY <2>1 DEF ColumnsDropped, ColumnsOf
  <2> QED BY <1>1, <1>4, <1>6, <2>2 DEF GoneColumns
<1>11. \A q \in DOMAIN db : q # o => GoneColumns(p, q) = {}
  BY <1>1, <1>6, <1>9 DEF GoneColumns
<1> QED BY <1>1, <1>2, <1>6, <1>8, <1>9, <1>10, <1>11 DEF Foretold

\* A split and a move take columns, but they change other tables, too.
LEMMA SplitsAndMovesDoMore ==
    ASSUME RpcInv, NEW p \in Usable, NEW o \in DOMAIN tables[p], NEW C \in SUBSET ColumnsOf(tables[p][o]), C # {},
           \/ split_table(p, o, C)
           \/ \E target \in DOMAIN tables[p] : move_columns(p, o, target, C)
    PROVE  Foretold(p)
<1>1. PICK db : db = tables[p]
  OBVIOUS
<1>2. Consistent(db)
  BY <1>1, ReachedTables
<1>3. CASE split_table(p, o, C)
  <2>1. PICK after : after = extract_columns_from_table(db, o, C)
    OBVIOUS
  <2>2. tables'[p] = after /\ CanSplit(db[o], C)
    BY <1>1, <1>3, <2>1, MethodGives DEF split_table
  <2>3. SplitOff(after, db, o, C)
    BY <1>1, <1>2, <2>1, <2>2, SplitFields
  <2>4. DOMAIN db \subseteq DOMAIN after /\ DOMAIN db # DOMAIN after
    BY <2>3 DEF SplitOff
  <2> QED BY <1>1, <2>2, <2>4 DEF Foretold
<1>4. CASE \E target \in DOMAIN tables[p] : move_columns(p, o, target, C)
  <2>1. PICK target \in DOMAIN db : move_columns(p, o, target, C)
    BY <1>1, <1>4
  <2>2. PICK after : after = move_columns_to_referenced_table(db, o, target, C)
    OBVIOUS
  <2>3. tables'[p] = after /\ CanMove(db, o, target, C)
    BY <1>1, <2>1, <2>2, MethodGives DEF move_columns
  <2>4. MovedOver(after, db, o, target, JoinColumn(db[o], target), C)
    BY <1>1, <1>2, <2>2, <2>3, MoveFields
  <2>5. /\ DOMAIN after = DOMAIN db /\ \A q \in DOMAIN db \ {o, target} : after[q] = db[q]
        /\ MovedInto(after[target], db[o], JoinColumn(db[o], target), C, db[target], NewPlaces(C, db[target].next))
    BY <2>4 DEF MovedOver
  <2>6. PICK c \in C : TRUE
    OBVIOUS
  <2>7. PICK a \in ColumnsOf(after[target]) : after[target].cols[a] = db[o].cols[c]
    BY <2>5, <2>6 DEF MovedInto
  <2>8. db[o].cols[c] \notin NamesOf(db[target])
    BY <2>3, <2>6 DEF CanMove
  <2>9. after[target] # db[target]
    <3>1. after[target] = db[target] => db[o].cols[c] \in NamesOf(db[target])
      BY <2>7 DEF NamesOf, Range, ColumnsOf
    <3> QED BY <2>8, <3>1
  <2>10. DOMAIN db[target].cols \subseteq DOMAIN after[target].cols /\ o # target
    BY <2>3, <2>5 DEF MovedInto, CanMove
  <2>11. ASSUME NEW q \in DOMAIN db, q # o
         PROVE  ColumnsOf(db[q]) \ ColumnsOf(after[q]) = {}
    BY <2>5, <2>10, <2>11 DEF ColumnsOf
  <2>12. \A q \in DOMAIN db : GoneColumns(p, q) # {} => q = o
    BY <1>1, <2>3, <2>11 DEF GoneColumns
  <2> QED BY <1>1, <2>3, <2>5, <2>9, <2>10, <2>12 DEF Foretold
<1> QED BY <1>3, <1>4

\* A method on tables that drops something has foretold it.
LEMMA ShapeMethodsForetell ==
    ASSUME RpcInv, RpcAssumption, NEW p \in Usable, ShapeMethods(p), GoneFrom(p) # {}
    PROVE  Foretold(p)
<1>1. CASE tables_add(p)
  BY <1>1, NewTableStays, NothingTaken DEF tables_add, AddTable
<1>2. ASSUME NEW o \in DOMAIN tables[p], NEW ref \in DOMAIN tables[p], add_mapping_table(p, <<o, ref>>)
      PROVE  Foretold(p)
  BY <1>2, NewTableStays, NothingTaken DEF add_mapping_table, AddMappingTable
<1>3. ASSUME NEW o \in DOMAIN tables[p], columns_add(p, o) \/ columns_patch(p, o) \/ constraints_delete(p, o)
      PROVE  Foretold(p)
  BY <1>3, MethodsThatTakeNothing, NothingTaken
<1>4. ASSUME NEW o \in DOMAIN tables[p], NEW cascade \in BOOLEAN, tables_delete(p, o, cascade)
      PROVE  Foretold(p)
  BY <1>4, TableDeletionIsForetold
<1>5. ASSUME NEW o \in DOMAIN tables[p], NEW ref \in DOMAIN tables[p], NEW unique \in BOOLEAN,
             add_foreign_key_column(p, o, ref, unique)
      PROVE  Foretold(p)
  BY <1>5, MethodsThatTakeNothing, NothingTaken
<1>6. ASSUME NEW o \in DOMAIN tables[p], NEW C \in (SUBSET ColumnsOf(tables[p][o])) \ {{}},
             \/ columns_delete(p, o, C) \/ constraints_add(p, o, C) \/ split_table(p, o, C)
             \/ \E target \in DOMAIN tables[p] : move_columns(p, o, target, C)
      PROVE  Foretold(p)
  <2>1. CASE columns_delete(p, o, C)
    BY <2>1, ColumnsDeletionIsForetold
  <2>2. CASE constraints_add(p, o, C)
    BY <2>2, MethodsThatTakeNothing, NothingTaken
  <2>3. CASE split_table(p, o, C) \/ \E target \in DOMAIN tables[p] : move_columns(p, o, target, C)
    BY <2>3, SplitsAndMovesDoMore
  <2> QED BY <1>6, <2>1, <2>2, <2>3
<1>7. CASE \E o \in DOMAIN tables[p] :
             \/ columns_add(p, o) \/ columns_patch(p, o) \/ constraints_delete(p, o)
             \/ \E cascade \in BOOLEAN : tables_delete(p, o, cascade)
             \/ \E ref \in DOMAIN tables[p], unique \in BOOLEAN : add_foreign_key_column(p, o, ref, unique)
             \/ \E C \in (SUBSET ColumnsOf(tables[p][o])) \ {{}} :
                  \/ columns_delete(p, o, C) \/ constraints_add(p, o, C) \/ split_table(p, o, C)
                  \/ \E target \in DOMAIN tables[p] : move_columns(p, o, target, C)
  <2> PICK o \in DOMAIN tables[p] :
             \/ columns_add(p, o) \/ columns_patch(p, o) \/ constraints_delete(p, o)
             \/ \E cascade \in BOOLEAN : tables_delete(p, o, cascade)
             \/ \E ref \in DOMAIN tables[p], unique \in BOOLEAN : add_foreign_key_column(p, o, ref, unique)
             \/ \E C \in (SUBSET ColumnsOf(tables[p][o])) \ {{}} :
                  \/ columns_delete(p, o, C) \/ constraints_add(p, o, C) \/ split_table(p, o, C)
                  \/ \E target \in DOMAIN tables[p] : move_columns(p, o, target, C)
    BY <1>7
  <2>1. CASE columns_add(p, o) \/ columns_patch(p, o) \/ constraints_delete(p, o)
    BY <2>1, <1>3
  <2>2. CASE \E cascade \in BOOLEAN : tables_delete(p, o, cascade)
    BY <2>2, <1>4
  <2>3. CASE \E ref \in DOMAIN tables[p], unique \in BOOLEAN : add_foreign_key_column(p, o, ref, unique)
    BY <2>3, <1>5
  <2>4. CASE \E C \in (SUBSET ColumnsOf(tables[p][o])) \ {{}} :
                  \/ columns_delete(p, o, C) \/ constraints_add(p, o, C) \/ split_table(p, o, C)
                  \/ \E target \in DOMAIN tables[p] : move_columns(p, o, target, C)
    BY <2>4, <1>6
  <2> QED BY <2>1, <2>2, <2>3, <2>4
<1> QED BY <1>1, <1>2, <1>7, Zenon DEF ShapeMethods

\* Only methods on tables are counted as such.
LEMMA ShapeStepsAre ==
    ASSUME RpcInv, [Next]_vars, budget'["shape"] < budget["shape"]
    PROVE  \E q \in Usable : ShapeMethods(q)
<1>1. \A n \in Nat : ~(n < n)
  OBVIOUS
<1>2. budget["shape"] \in Nat /\ budget'["shape"] # budget["shape"]
  BY <1>1 DEF RpcInv, Kinds
<1>3. ~Spend("setup") /\ ~Spend("row") /\ ~Spend("extra") /\ budget' # budget
  BY <1>2 DEF Spend, RpcInv, Kinds
<1>4. ~SetupMethods
  BY <1>3 DEF SetupMethods, Setting, Free, disconnect, DropDatabase
<1>5. ~ExtraMethods
  BY <1>3 DEF ExtraMethods, set_table_meta_data, set_columns_meta_data, explorations_add, explorations_replace,
             explorations_delete
<1>6. ASSUME NEW p, NEW o PROVE ~RowMethods(p, o)
  <2>1. \A rows : ~OnRows(p, o, rows)
    BY <1>3 DEF OnRows
  <2> QED BY <2>1 DEF RowMethods, records_add, records_patch, records_delete
<1> QED BY <1>3, <1>4, <1>5, <1>6 DEF Next, TableMethods, vars

\* A method on tables changes those of one place.
LEMMA OtherPlacesStay ==
    ASSUME RpcInv, NEW q \in Usable, ShapeMethods(q), NEW p \in Usable, p # q
    PROVE  GoneFrom(p) = {}
<1>0. p \in Places /\ q \in Places
  BY ReachedTables
<1>1. ASSUME NEW db, Method(q, db) PROVE tables'[p] = tables[p] /\ views'[p] = views[p]
  BY <1>0, <1>1 DEF Method, RpcInv, TablesOK
<1>2. ASSUME NEW o, NEW cascade, tables_delete(q, o, cascade) PROVE tables'[p] = tables[p] /\ views'[p] = views[p]
  BY <1>0, <1>2 DEF tables_delete, RpcInv, TablesOK
<1>3. (\E db : Method(q, db)) \/ \E o, cascade : tables_delete(q, o, cascade)
  <2>1. tables_add(q) => \E db : Method(q, db)
    BY DEF tables_add
  <2>2. \A refs : add_mapping_table(q, refs) => \E db : Method(q, db)
    BY DEF add_mapping_table
  <2>3. \A o : columns_add(q, o) \/ columns_patch(q, o) \/ constraints_delete(q, o) => \E db : Method(q, db)
    BY DEF columns_add, columns_patch, constraints_delete, OnTable
  <2>4. \A o, C : columns_delete(q, o, C) \/ constraints_add(q, o, C) \/ split_table(q, o, C) => \E db : Method(q, db)
    BY DEF columns_delete, constraints_add, split_table, OnTable
  <2>5. \A o, ref, unique : add_foreign_key_column(q, o, ref, unique) => \E db : Method(q, db)
    BY DEF add_foreign_key_column
  <2>6. \A o, target, C : move_columns(q, o, target, C) => \E db : Method(q, db)
    BY DEF move_columns
  <2> HIDE DEF ShapeMethods
  <2> QED BY <2>1, <2>2, <2>3, <2>4, <2>5, <2>6 DEF ShapeMethods
<1>4. tables'[p] = tables[p] /\ views'[p] = views[p]
  BY <1>1, <1>2, <1>3
<1> QED BY <1>4 DEF GoneFrom

\* What is listed before a table or columns are dropped is what goes with them.
THEOREM DependentsForetellDropsHolds == Spec => DependentsForetellDrops
<1> DEFINE Told == budget'["shape"] < budget["shape"] => \A p \in {q \in Usable : GoneFrom(q) # {}} : Foretold(p)
<1>1. RpcInv /\ [Next]_vars => Told
  <2> SUFFICES ASSUME RpcInv, [Next]_vars, NEW p \in Usable, budget'["shape"] < budget["shape"], GoneFrom(p) # {}
               PROVE  Foretold(p)
    OBVIOUS
  <2>1. PICK q \in Usable : ShapeMethods(q)
    BY ShapeStepsAre
  <2>2. p = q
    BY <2>1, OtherPlacesStay
  <2> QED BY <2>1, <2>2, ShapeMethodsForetell, RpcAssumption
<1>2. RpcInv /\ [Next]_vars => [Told]_vars
  BY <1>1
<1> QED BY <1>2, RpcInvHolds, PTL DEF Spec, DependentsForetellDrops, Foretold

=============================================================================
