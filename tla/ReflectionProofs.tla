-------------------------- MODULE ReflectionProofs --------------------------
(***************************************************************************)
(* Proofs about Reflection: the rows of Mathesar's own database refer to   *)
(* rows that exist, a database that was reflected and left alone agrees    *)
(* with its rows, and reflecting takes no display options without cause.   *)
(***************************************************************************)
EXTENDS Reflection, OrderLemmas

-----------------------------------------------------------------------------
(***************************************************************************)
(* The inductive invariant.                                                *)
(***************************************************************************)
\* A table of a user database whose schemas are S.
TableOK(x, S) ==
    /\ DOMAIN x = {"schema", "columns", "last", "constraints"}
    /\ x.schema \in S
    /\ x.last \in 0 .. MaxAttnum /\ DOMAIN x.columns \subseteq 1 .. x.last
    /\ x.constraints \subseteq 1 .. MaxConstraint

\* The user databases, whoever changes them.
CatalogOK ==
    /\ namespaces \in [Databases -> SUBSET Schemas]
    /\ DOMAIN pg = Databases
    /\ \A d \in Databases : /\ DOMAIN pg[d] \subseteq Oids
                            /\ \A o \in DOMAIN pg[d] : TableOK(pg[d][o], namespaces[d])

\* The rows refer to rows that exist.
RowsOK ==
    /\ djSchemas \subseteq Databases \X Schemas /\ djTables \subseteq TableRows
    /\ \A t \in djTables : SchemaOf(t) \in djSchemas
    /\ DOMAIN djColumns \subseteq djTables \X Attnums
    /\ djConstraints \subseteq djTables \X (1 .. MaxConstraint)
    /\ DOMAIN djSettings \subseteq djTables

Reflecting == {"tables", "settings", "stale", "columns", "templates", "options",
               "constraints"}
Creating == {"register", "move", "rows"}

\* What the request still has to do, at the step it is at.
RequestOK ==
    \/ request = None /\ at \notin Creating
    \/ /\ request.kind \in {"new", "old"} /\ request.row \in ColumnRows
       /\ at \in Reflecting \union {"status", "schemas", "save"}
    \/ /\ request.kind = "create"
       /\ at \in {"register", "columns", "templates", "options"}
    \/ /\ request.kind \in {"split", "move"}
       /\ \A m \in request.moved : DbOf(m[1][1]) = db
       /\ at \in Creating

\* The step the worker is at, and the tables it works on: their schemas are known
\* all along, and so are they from the step on that has inserted their rows.
WorkerOK ==
    /\ at \in Reflecting \union Creating \union {"idle", "status", "schemas", "save"}
    /\ reflected \in BOOLEAN /\ todo \subseteq Databases
    /\ db \in Databases \union {None}
    /\ at \notin {"idle", "status", "save"} => db \in Databases
    /\ scope \subseteq TableRows
    /\ \A t \in scope : DbOf(t) = db /\ SchemaOf(t) \in djSchemas
    /\ at \in {"schemas", "tables"} => scope = {}
    /\ at = "register" => \A t, u \in scope : t = u
    /\ at # "register" => scope \subseteq djTables
    /\ RequestOK
    /\ at = "save" => request # None
    /\ at = "idle" => request = None

StatusOK ==
    /\ up \in [Databases -> BOOLEAN] /\ deleted \in [Databases -> BOOLEAN]
    /\ clean \in [Databases -> {"no", "so_far", "yes"}]

RowsInv == CatalogOK /\ RowsOK /\ WorkerOK /\ StatusOK

-----------------------------------------------------------------------------
\* The tables of d that reflecting it is about.
Found(d) == {t \in CatalogTables(d) : SchemaOf(t) \in djSchemas}

\* The columns of a table, its preview and its options.
ColumnsAgree(d) == \A t \in TablesOf(d) : RowsOf(t) = LiveAttnums(t)
PreviewsAgree(d) == \A t \in TablesOf(d) :
    Follows(t) => djSettings[t].column \in RowsOf(t) \union {0}
OptionsAgree(d) ==
    \A t \in TablesOf(d) : \A a \in RowsOf(t) :
        djColumns[<<t, a>>] \in {None, CatalogColumn(<<t, a>>).type}
ConstraintsAgree(d) ==
    \A t \in TablesOf(d) : \A k \in pg[d][OidOf(t)].constraints : <<t, k>> \in djConstraints

\* How far the rows of d agree with its catalog when it is at `step`.
AgreeUpTo(d, step) ==
    /\ step # "tables" => scope = Found(d)
    /\ step \in Reflecting \ {"tables", "settings"} => TablesOf(d) \subseteq DOMAIN djSettings
    /\ step \in Reflecting \ {"tables", "settings", "stale"} => TablesOf(d) = Found(d)
    /\ step \in {"templates", "options", "constraints"} => ColumnsAgree(d)
    /\ step \in {"options", "constraints"} => PreviewsAgree(d)
    /\ step = "constraints" => OptionsAgree(d)

\* The rows of d agree with its catalog in everything.
Agree(d) ==
    /\ TablesOf(d) = Found(d) /\ TablesOf(d) \subseteq DOMAIN djSettings
    /\ ColumnsAgree(d) /\ PreviewsAgree(d) /\ OptionsAgree(d) /\ ConstraintsAgree(d)

\* A reflection that nobody has disturbed has made the rows of its database agree as
\* far as it has come; one that was completed, in everything.  What is reflected, or
\* gets a table, has not been completed.
SoFarOK == \A d \in Databases : clean[d] = "so_far" =>
              d = db /\ at \in Reflecting /\ AgreeUpTo(d, at)
CleanOK == /\ at \in Reflecting => clean[db] # "yes"
           /\ at \in Creating => clean[db] = "no"
           /\ request # None /\ request.kind = "create" => clean[db] = "no"
YesOK == \A d \in Databases : clean[d] = "yes" => Agree(d)
ReflectionInv == RowsInv /\ SoFarOK /\ CleanOK /\ YesOK

-----------------------------------------------------------------------------
(***************************************************************************)
(* Statements on a user database keep it well-formed.                      *)
(***************************************************************************)
\* The tables of one database are replaced by tables of its schemas.
LEMMA TablesReplaced ==
    ASSUME CatalogOK, NEW d \in Databases, NEW f, DOMAIN f \subseteq Oids,
           \A o \in DOMAIN f : TableOK(f[o], namespaces[d]),
           pg' = [pg EXCEPT ![d] = f], namespaces' = namespaces
    PROVE  CatalogOK'
BY DEF CatalogOK, TableOK

\* CREATE TABLE, and what else puts a table where there was another or none.
LEMMA SetTableOK ==
    ASSUME CatalogOK, NEW d \in Databases, NEW o \in Oids, NEW x,
           TableOK(x, namespaces[d]), SetTable(d, o, x), namespaces' = namespaces
    PROVE  CatalogOK'
<1> DEFINE f == [y \in DOMAIN pg[d] \union {o} |-> IF y = o THEN x ELSE pg[d][y]]
<1>1. pg' = [pg EXCEPT ![d] = f]
  BY DEF SetTable, CatalogOK
<1>2. DOMAIN f \subseteq Oids /\ \A y \in DOMAIN f : TableOK(f[y], namespaces[d])
  BY DEF CatalogOK
<1> HIDE DEF f
<1> QED BY <1>1, <1>2, TablesReplaced

\* A statement that changes one table of a database.
LEMMA TableAltered ==
    ASSUME CatalogOK, NEW d \in Databases, NEW o \in DOMAIN pg[d], NEW x,
           TableOK(x, namespaces[d]), pg' = [pg EXCEPT ![d][o] = x],
           namespaces' = namespaces
    PROVE  CatalogOK'
<1> DEFINE f == [pg[d] EXCEPT ![o] = x]
<1>1. pg' = [pg EXCEPT ![d] = f]
  OBVIOUS
<1>2. DOMAIN f \subseteq Oids /\ \A y \in DOMAIN f : TableOK(f[y], namespaces[d])
  BY DEF CatalogOK
<1> HIDE DEF f
<1> QED BY <1>1, <1>2, TablesReplaced

\* The one column of a key is a set of columns, and of one element.
LEMMA KeyColumns == DOMAIN KeyColumn = {1} /\ Cardinality(DOMAIN KeyColumn) = 1
BY FS_Singleton DEF KeyColumn

\* A new table is well-formed when its columns are numbered.
LEMMA NewTableOK ==
    ASSUME NEW S, NEW s \in S, NEW n \in 0 .. MaxAttnum, NEW columns,
           DOMAIN columns = 1 .. n
    PROVE  TableOK(NewTable(s, columns), S) /\ NewTable(s, columns).last = n
<1>1. MaxAttnum \in Nat /\ 1 \in 1 .. MaxConstraint
  BY ReflectionAssumption
<1>2. Cardinality(1 .. n) = n
  BY <1>1, FS_Interval
<1> QED BY <1>1, <1>2 DEF TableOK, NewTable

\* CREATE TABLE.
LEMMA CreateTableOK ==
    ASSUME CatalogOK, NEW d \in Databases, CreateTable(d), namespaces' = namespaces
    PROVE  CatalogOK'
<1>1. PICK s \in namespaces[d], o \in Oids \ DOMAIN pg[d] : SetTable(d, o, NewTable(s, KeyColumn))
  BY DEF CreateTable
<1>2. TableOK(NewTable(s, KeyColumn), namespaces[d])
  <2>1. DOMAIN KeyColumn = 1 .. 1 /\ 1 \in 0 .. MaxAttnum
    BY KeyColumns, ReflectionAssumption
  <2> QED BY <2>1, NewTableOK
<1> QED BY <1>1, <1>2, SetTableOK

\* DROP TABLE.
LEMMA DropTableOK ==
    ASSUME CatalogOK, NEW d \in Databases, DropTable(d), namespaces' = namespaces
    PROVE  CatalogOK'
<1>1. PICK o \in DOMAIN pg[d] : pg' = [pg EXCEPT ![d] = Restrict(@, DOMAIN @ \ {o})]
  BY DEF DropTable
<1> DEFINE f == Restrict(pg[d], DOMAIN pg[d] \ {o})
<1>2. pg' = [pg EXCEPT ![d] = f]
  BY <1>1
<1>3. DOMAIN f \subseteq Oids /\ \A y \in DOMAIN f : TableOK(f[y], namespaces[d])
  BY DEF CatalogOK, Restrict
<1> HIDE DEF f
<1> QED BY <1>2, <1>3, TablesReplaced

\* ALTER TABLE ... ADD COLUMN.
LEMMA AddColumnOK ==
    ASSUME CatalogOK, NEW d \in Databases, NEW o \in DOMAIN pg[d], NEW n, NEW y,
           AddColumn(d, o, n, y), namespaces' = namespaces
    PROVE  CatalogOK'
<1> DEFINE old == pg[d][o]
           a == old.last + 1
           columns == [b \in DOMAIN old.columns \union {a} |->
                          IF b = a THEN [name |-> n, type |-> y] ELSE old.columns[b]]
           x == [old EXCEPT !.last = a, !.columns = columns]
<1>1. TableOK(old, namespaces[d]) /\ old.last < MaxAttnum
  BY DEF CatalogOK, AddColumn
<1>2. pg' = [pg EXCEPT ![d][o].last = a, ![d][o].columns = columns]
  BY DEF AddColumn, CatalogOK
<1>3. pg' = [pg EXCEPT ![d][o] = x]
  BY <1>1, <1>2 DEF CatalogOK, TableOK
<1>4. TableOK(x, namespaces[d])
  BY <1>1, ReflectionAssumption DEF TableOK
<1> HIDE DEF x
<1> QED BY <1>3, <1>4, TableAltered

\* ALTER TABLE ... DROP COLUMN.
LEMMA DropColumnOK ==
    ASSUME CatalogOK, NEW d \in Databases, DropColumn(d), namespaces' = namespaces
    PROVE  CatalogOK'
<1>1. PICK o \in DOMAIN pg[d] : \E a \in DOMAIN pg[d][o].columns :
              pg' = [pg EXCEPT ![d][o].columns = Restrict(@, DOMAIN @ \ {a})]
  BY DEF DropColumn
<1>2. PICK a \in DOMAIN pg[d][o].columns :
              pg' = [pg EXCEPT ![d][o].columns = Restrict(@, DOMAIN @ \ {a})]
  BY <1>1
<1> DEFINE old == pg[d][o]
           x == [old EXCEPT !.columns = Restrict(@, DOMAIN @ \ {a})]
<1>3. pg' = [pg EXCEPT ![d][o] = x]
  BY <1>2 DEF CatalogOK, TableOK
<1>4. TableOK(x, namespaces[d])
  BY DEF CatalogOK, TableOK, Restrict
<1> HIDE DEF x
<1> QED BY <1>3, <1>4, TableAltered

\* ALTER TABLE ... ALTER COLUMN ... TYPE.
LEMMA AlterTypeOK ==
    ASSUME CatalogOK, NEW d \in Databases, AlterType(d), namespaces' = namespaces
    PROVE  CatalogOK'
<1>1. PICK o \in DOMAIN pg[d], y \in Types :
              \E a \in DOMAIN pg[d][o].columns : pg' = [pg EXCEPT ![d][o].columns[a].type = y]
  BY DEF AlterType
<1>2. PICK a \in DOMAIN pg[d][o].columns : pg' = [pg EXCEPT ![d][o].columns[a].type = y]
  BY <1>1
<1> DEFINE old == pg[d][o]
           x == [old EXCEPT !.columns[a].type = y]
<1>3. pg' = [pg EXCEPT ![d][o] = x]
  BY <1>2 DEF CatalogOK, TableOK
<1>4. TableOK(x, namespaces[d])
  BY DEF CatalogOK, TableOK
<1> HIDE DEF x
<1> QED BY <1>3, <1>4, TableAltered

\* ALTER TABLE ... SET SCHEMA.
LEMMA SetSchemaOK ==
    ASSUME CatalogOK, NEW d \in Databases, SetSchema(d), namespaces' = namespaces
    PROVE  CatalogOK'
<1>1. PICK o \in DOMAIN pg[d] : \E s \in namespaces[d] \ {pg[d][o].schema} :
              pg' = [pg EXCEPT ![d][o].schema = s]
  BY DEF SetSchema
<1>2. PICK s \in namespaces[d] : pg' = [pg EXCEPT ![d][o].schema = s]
  BY <1>1
<1> DEFINE old == pg[d][o]
           x == [old EXCEPT !.schema = s]
<1>3. pg' = [pg EXCEPT ![d][o] = x]
  BY <1>2 DEF CatalogOK, TableOK
<1>4. TableOK(x, namespaces[d])
  BY DEF CatalogOK, TableOK
<1> HIDE DEF x
<1> QED BY <1>3, <1>4, TableAltered

\* ALTER TABLE ... ADD CONSTRAINT, ... DROP CONSTRAINT.
LEMMA ConstraintsOK ==
    ASSUME CatalogOK, NEW d \in Databases, NEW o \in DOMAIN pg[d],
           NEW K \in SUBSET (1 .. MaxConstraint),
           pg' = [pg EXCEPT ![d][o].constraints = K], namespaces' = namespaces
    PROVE  CatalogOK'
<1> DEFINE old == pg[d][o]
           x == [old EXCEPT !.constraints = K]
<1>1. pg' = [pg EXCEPT ![d][o] = x]
  BY DEF CatalogOK, TableOK
<1>2. TableOK(x, namespaces[d])
  BY DEF CatalogOK, TableOK
<1> HIDE DEF x
<1> QED BY <1>1, <1>2, TableAltered

\* DROP SCHEMA ... CASCADE.
LEMMA DropSchemaOK ==
    ASSUME CatalogOK, NEW d \in Databases, NEW s \in namespaces[d],
           namespaces' = [namespaces EXCEPT ![d] = @ \ {s}],
           pg' = [pg EXCEPT ![d] = RestrictValues(@, LAMBDA x : x.schema # s)]
    PROVE  CatalogOK'
<1> DEFINE kept == {o \in DOMAIN pg[d] : pg[d][o].schema # s}
           f == [o \in kept |-> pg[d][o]]
<1>1. pg' = [pg EXCEPT ![d] = f]
  BY DEF RestrictValues, Restrict
<1>2. DOMAIN f \subseteq Oids
  BY DEF CatalogOK
<1>3. \A o \in DOMAIN f : TableOK(f[o], namespaces[d] \ {s})
  BY DEF CatalogOK, TableOK
<1>4. namespaces'[d] = namespaces[d] \ {s} /\ namespaces' \in [Databases -> SUBSET Schemas]
  BY DEF CatalogOK
<1>5. pg'[d] = f /\ DOMAIN pg' = Databases
  BY <1>1 DEF CatalogOK
<1>6. \A e \in Databases \ {d} : pg'[e] = pg[e] /\ namespaces'[e] = namespaces[e]
  BY <1>1 DEF CatalogOK
<1> HIDE DEF f
<1>7. \A e \in Databases : DOMAIN pg'[e] \subseteq Oids
          /\ \A o \in DOMAIN pg'[e] : TableOK(pg'[e][o], namespaces'[e])
  BY <1>2, <1>3, <1>4, <1>5, <1>6 DEF CatalogOK
<1> QED BY <1>4, <1>5, <1>7 DEF CatalogOK, TableOK

\* A table the request is for is one of the catalog, under the schema of its row.
LEMMA OnTableFacts ==
    ASSUME CatalogOK, RowsOK, NEW t, OnTable(t)
    PROVE  /\ t \in djTables /\ DbOf(t) \in Databases /\ OidOf(t) \in DOMAIN pg[DbOf(t)]
           /\ pg[DbOf(t)][OidOf(t)].schema = t[2]
           /\ TableOK(pg[DbOf(t)][OidOf(t)], namespaces[DbOf(t)])
<1>1. t \in djTables /\ t \in CatalogTables(DbOf(t))
  BY DEF OnTable
<1>2. DbOf(t) \in Databases
  BY <1>1 DEF RowsOK, TableRows, DbOf
<1>3. PICK o \in DOMAIN pg[DbOf(t)] : t = <<DbOf(t), pg[DbOf(t)][o].schema, o>>
  BY <1>1 DEF CatalogTables
<1>4. OidOf(t) = o /\ t[2] = pg[DbOf(t)][o].schema
  BY <1>3 DEF OidOf
<1> QED BY <1>1, <1>2, <1>3, <1>4 DEF CatalogOK

\* A set of columns of a table is finite.
LEMMA SomeColumns ==
    ASSUME NEW S, NEW x, TableOK(x, S), NEW A \in SUBSET DOMAIN x.columns
    PROVE  IsFiniteSet(A) /\ Cardinality(A) \in Nat
<1>1. x.last \in Nat
  BY ReflectionAssumption DEF TableOK
<1>2. A \subseteq 1 .. x.last /\ IsFiniteSet(1 .. x.last)
  BY <1>1, FS_Interval DEF TableOK
<1> QED BY <1>2, FS_Subset, FS_CardinalityType

\* The statement of split_table.
LEMMA SplitTableOK ==
    ASSUME CatalogOK, RowsOK, NEW t, NEW A \in SUBSET Attnums, NEW o \in Oids, NEW link,
           SplitTable(t, A, o, link)
    PROVE  CatalogOK'
<1> DEFINE d == DbOf(t)
           source == pg[d][OidOf(t)]
           place(a) == 1 + Cardinality({b \in A : b <= a})
           extracted == [b \in 1 .. Cardinality(A) + 1 |->
                            IF b = 1 THEN KeyColumn[1]
                            ELSE source.columns[CHOOSE a \in A : place(a) = b]]
           rest == [source EXCEPT !.last = @ + 1,
                        !.columns = [a \in (DOMAIN @ \ A) \union {source.last + 1} |->
                                        IF a \in DOMAIN @ THEN @[a]
                                        ELSE [name |-> link, type |-> KeyColumn[1].type]]]
           f == [x \in DOMAIN pg[d] \union {o} |->
                    CASE x = o -> NewTable(source.schema, extracted)
                      [] x = OidOf(t) -> rest
                      [] OTHER -> pg[d][x]]
<1>1. /\ OnTable(t) /\ A \subseteq DOMAIN source.columns
      /\ source.last < MaxAttnum /\ Cardinality(A) < MaxAttnum
      /\ pg' = [pg EXCEPT ![d] = f] /\ namespaces' = namespaces
  BY DEF SplitTable, InDatabase, CatalogOK
<1>2. d \in Databases /\ OidOf(t) \in DOMAIN pg[d] /\ TableOK(source, namespaces[d])
  BY <1>1, OnTableFacts
<1>3. TableOK(NewTable(source.schema, extracted), namespaces[d])
  <2>1. Cardinality(A) \in Nat
    BY <1>1, <1>2, SomeColumns
  <2>2. DOMAIN extracted = 1 .. Cardinality(A) + 1
    OBVIOUS
  <2> HIDE DEF extracted, source, f
  <2>4. Cardinality(A) + 1 \in 0 .. MaxAttnum
    BY <1>1, <2>1, ReflectionAssumption
  <2> USE DEF source
  <2>3. source.schema \in namespaces[d]
    BY <1>2 DEF TableOK
  <2> HIDE DEF source
  <2> QED BY <2>2, <2>3, <2>4, NewTableOK
<1>4. TableOK(rest, namespaces[d])
  <2> HIDE DEF f, extracted
  <2>1. DOMAIN source = {"schema", "columns", "last", "constraints"}
    BY <1>2 DEF TableOK
  <2>2. /\ DOMAIN rest = DOMAIN source /\ rest.schema = source.schema
        /\ rest.last = source.last + 1 /\ rest.constraints = source.constraints
        /\ DOMAIN rest.columns = (DOMAIN source.columns \ A) \union {source.last + 1}
    BY <2>1
  <2> HIDE DEF rest, source
  <2> QED BY <1>1, <1>2, <2>2, ReflectionAssumption DEF TableOK
<1>5. DOMAIN f \subseteq Oids /\ \A x \in DOMAIN f : TableOK(f[x], namespaces[d])
  <2> HIDE DEF rest, extracted, source
  <2> QED BY <1>2, <1>3, <1>4 DEF CatalogOK
<1> HIDE DEF f, d
<1> QED BY <1>1, <1>2, <1>5, TablesReplaced

\* The first statement of move_columns.
LEMMA MoveColumnsOK ==
    ASSUME CatalogOK, RowsOK, NEW t, NEW A \in SUBSET Attnums, NEW u,
           MoveColumns(t, A, u)
    PROVE  CatalogOK'
<1> DEFINE d == DbOf(t)
           source == pg[d][OidOf(t)]
           target == pg[d][OidOf(u)]
           place(a) == target.last + Cardinality({b \in A : b <= a})
           columns == [b \in DOMAIN target.columns \union {place(a) : a \in A} |->
                          IF b \in DOMAIN target.columns THEN target.columns[b]
                          ELSE source.columns[CHOOSE a \in A : place(a) = b]]
           x == [target EXCEPT !.last = target.last + Cardinality(A), !.columns = columns]
<1>1. /\ OnTable(t) /\ A \subseteq DOMAIN source.columns
      /\ target.last + Cardinality(A) <= MaxAttnum /\ namespaces' = namespaces
      /\ u \in CatalogTables(d)
  BY DEF MoveColumns, InDatabase
<1>2. pg' = [pg EXCEPT ![d][OidOf(u)].last = target.last + Cardinality(A),
                        ![d][OidOf(u)].columns = columns]
  BY DEF MoveColumns
<1>3. d \in Databases /\ TableOK(source, namespaces[d])
  BY <1>1, OnTableFacts
<1>4. OidOf(u) \in DOMAIN pg[d] /\ TableOK(target, namespaces[d])
  BY <1>1, <1>3 DEF CatalogOK, CatalogTables, OidOf
<1>5. \A a \in A : place(a) \in 1 .. target.last + Cardinality(A)
  <2> SUFFICES ASSUME NEW a \in A PROVE place(a) \in 1 .. target.last + Cardinality(A)
    OBVIOUS
  <2> DEFINE B == {b \in A : b <= a}
  <2>1. IsFiniteSet(A) /\ Cardinality(A) \in Nat
    BY <1>1, <1>3, SomeColumns
  <2>2. IsFiniteSet(B) /\ Cardinality(B) \in Nat /\ Cardinality(B) <= Cardinality(A)
    BY <2>1, FS_Subset, FS_CardinalityType
  <2>3. a \in B
    BY DEF Attnums
  <2>4. Cardinality(B) # 0
    BY <2>2, <2>3, FS_EmptySet
  <2>5. target.last \in Nat
    BY <1>4, ReflectionAssumption DEF TableOK
  <2>6. place(a) = target.last + Cardinality(B)
    OBVIOUS
  <2> HIDE DEF B, place, columns
  <2> QED BY <2>1, <2>2, <2>4, <2>5, <2>6
<1>6. pg' = [pg EXCEPT ![d][OidOf(u)] = x]
  <2> HIDE DEF columns, source
  <2> QED BY <1>2, <1>3, <1>4 DEF CatalogOK, TableOK
<1>7. TableOK(x, namespaces[d])
  <2>1. Cardinality(A) \in Nat
    BY <1>1, <1>3, SomeColumns
  <2>3. DOMAIN columns = DOMAIN target.columns \union {place(a) : a \in A}
    OBVIOUS
  <2>2. DOMAIN columns \subseteq 1 .. target.last + Cardinality(A)
    <3> HIDE DEF columns, place, source
    <3> QED BY <1>4, <1>5, <2>1, <2>3, ReflectionAssumption DEF TableOK
  <2> HIDE DEF columns, source
  <2> QED BY <1>1, <1>4, <2>1, <2>2, ReflectionAssumption DEF TableOK
<1> HIDE DEF x, d
<1> QED BY <1>1, <1>3, <1>4, <1>6, <1>7, TableAltered

\* The second: it drops the columns of the table they came from, or nothing.
LEMMA MoveDataOK ==
    ASSUME CatalogOK, db \in Databases, MoveData PROVE CatalogOK'
<1>1. CASE UNCHANGED pg
  BY <1>1 DEF MoveData, CatalogOK, TableOK
<1>2. ASSUME NEW from, NEW A, OidOf(from) \in DOMAIN pg[db],
             pg' = [pg EXCEPT ![db][OidOf(from)].columns = Restrict(@, DOMAIN @ \ A)]
      PROVE  CatalogOK'
  <2> DEFINE old == pg[db][OidOf(from)]
             x == [old EXCEPT !.columns = Restrict(@, DOMAIN @ \ A)]
  <2>1. pg' = [pg EXCEPT ![db][OidOf(from)] = x] /\ namespaces' = namespaces
    BY <1>2 DEF CatalogOK, TableOK, MoveData
  <2>2. TableOK(x, namespaces[db])
    BY <1>2 DEF CatalogOK, TableOK, Restrict
  <2> HIDE DEF x
  <2> QED BY <1>2, <2>1, <2>2, TableAltered
<1> QED BY <1>1, <1>2 DEF MoveData

-----------------------------------------------------------------------------
(***************************************************************************)
(* The control that the worker's steps share.                              *)
(***************************************************************************)
\* What leaves the user databases alone keeps them well-formed.
LEMMA CatalogStays == ASSUME CatalogOK, UNCHANGED <<namespaces, pg>> PROVE CatalogOK'
BY DEF CatalogOK, TableOK

\* What leaves the rows alone keeps their references.
LEMMA RowsStay == ASSUME RowsOK, UNCHANGED rows PROVE RowsOK'
BY DEF RowsOK, rows

\* A cascade leaves no row that refers to a table that goes.
LEMMA DeleteTablesOK ==
    ASSUME RowsOK, NEW T, DeleteTables(T), djSchemas' \subseteq Databases \X Schemas,
           \A t \in djTables \ T : SchemaOf(t) \in djSchemas'
    PROVE  RowsOK'
BY DEF RowsOK, DeleteTables, RestrictDomain, Restrict, SchemaOf

\* An answered request leaves nothing to do.
LEMMA ReplyOK == ASSUME WorkerOK, Reply PROVE WorkerOK'
BY DEF WorkerOK, Reply, RequestOK, Creating

\* The loop over databases keeps what the request still has to do.
LEMMA NextDatabaseOK ==
    ASSUME WorkerOK, NextDatabase, at \in {"status", "schemas", "constraints"}
    PROVE  WorkerOK'
<1>1. request = None \/ (request.kind \in {"new", "old"} /\ request.row \in ColumnRows)
  BY DEF WorkerOK, RequestOK, Creating
<1>2. ASSUME NEW d \in todo, db' = d, todo' = todo \ {d}, at' = "schemas", scope' = {},
             UNCHANGED <<reflected, request>>
      PROVE  WorkerOK'
  BY <1>1, <1>2 DEF WorkerOK, RequestOK, Reflecting, Creating
<1>3. ASSUME todo = {}, request # None, at' = "save", db' = None, scope' = {},
             UNCHANGED <<reflected, todo, request>>
      PROVE  WorkerOK'
  BY <1>1, <1>3 DEF WorkerOK, RequestOK, Reflecting, Creating
<1> QED BY <1>2, <1>3, ReplyOK DEF NextDatabase

\* A reflection starts with nothing to do but it and saving options.
LEMMA ResetReflectionOK ==
    ASSUME NEW D \in SUBSET Databases, ResetReflection(D),
           request' = None \/ (request'.kind \in {"new", "old"} /\ request'.row \in ColumnRows)
    PROVE  WorkerOK'
BY DEF ResetReflection, WorkerOK, RequestOK, Reflecting, Creating

\* A step of the reflection goes on with the same tables, as long as they are known.
LEMMA GoOn ==
    ASSUME WorkerOK, NEW step \in Reflecting \ {"tables"}, GoTo(step), at \in Reflecting,
           at \in {"columns", "templates"} => step \in {"templates", "options"},
           at = "options" => request = None \/ request.kind # "create",
           scope' \subseteq TableRows, \A t \in scope' : DbOf(t) = db,
           \A t \in scope' : SchemaOf(t) \in djSchemas', scope' \subseteq djTables'
    PROVE  WorkerOK'
BY DEF WorkerOK, GoTo, RequestOK, Reflecting, Creating

-----------------------------------------------------------------------------
(***************************************************************************)
(* Rows refer to rows: the steps of the worker.                            *)
(***************************************************************************)
\* The catalog's tables are tables of its database.
LEMMA CatalogTablesTyped ==
    ASSUME CatalogOK, NEW d \in Databases, NEW t \in CatalogTables(d)
    PROVE  t \in TableRows /\ DbOf(t) = d /\ OidOf(t) \in DOMAIN pg[d]
BY DEF CatalogOK, TableOK, CatalogTables, TableRows, DbOf, OidOf

\* Live columns have attnums within the bound.
LEMMA LiveAttnumsTyped ==
    ASSUME CatalogOK, NEW t, DbOf(t) \in Databases PROVE LiveAttnums(t) \subseteq Attnums
<1>1. CASE OidOf(t) \in DOMAIN pg[DbOf(t)]
  <2>1. TableOK(pg[DbOf(t)][OidOf(t)], namespaces[DbOf(t)])
    BY <1>1 DEF CatalogOK
  <2> QED BY <1>1, <2>1, ReflectionAssumption DEF LiveAttnums, TableOK, Attnums
<1> QED BY <1>1 DEF LiveAttnums

\* What clean becomes when a database is touched, or its reflection begins or ends.
LEMMA CleanStays ==
    ASSUME StatusOK, NEW d, NEW v \in {"no", "so_far", "yes"},
           UNCHANGED up, deleted' \in [Databases -> BOOLEAN],
           clean' = [clean EXCEPT ![d] = v] \/ UNCHANGED clean
    PROVE  StatusOK'
BY DEF StatusOK

\* A step that gets no answer ends the request.
LEMMA UnansweredOK == ASSUME RowsInv, Unanswered PROVE RowsInv'
BY CatalogStays, RowsStay, ReplyOK, CleanStays DEF RowsInv, Unanswered, userDatabases, StatusOK

\* Marking the databases that do not answer.
LEMMA SyncDatabasesStatusOK == ASSUME RowsInv, SyncDatabasesStatus PROVE RowsInv'
BY CatalogStays, RowsStay, NextDatabaseOK
   DEF RowsInv, SyncDatabasesStatus, userDatabases, StatusOK

\* A deleted database goes with its schemas and everything below them.
LEMMA DropSchemasOK == ASSUME RowsInv, DropSchemasOfDeletedDatabase PROVE RowsInv'
<1> USE DEF RowsInv
<1>1. CatalogOK'
  BY CatalogStays DEF DropSchemasOfDeletedDatabase, userDatabases
<1>2. RowsOK'
  <2>1. \A t \in djTables \ TablesOf(db) : SchemaOf(t) \in djSchemas'
    BY DEF DropSchemasOfDeletedDatabase, TablesOf, SchemaOf, DbOf, RowsOK
  <2>2. djSchemas' \subseteq Databases \X Schemas
    BY DEF DropSchemasOfDeletedDatabase, RowsOK
  <2> QED BY <2>1, <2>2, DeleteTablesOK DEF DropSchemasOfDeletedDatabase
<1>3. WorkerOK'
  BY NextDatabaseOK DEF DropSchemasOfDeletedDatabase
<1>4. StatusOK'
  BY CleanStays DEF DropSchemasOfDeletedDatabase, userDatabases, StatusOK
<1> QED BY <1>1, <1>2, <1>3, <1>4

\* Schemas that are gone go with their tables, and new ones come.
LEMMA ReflectSchemasOK == ASSUME RowsInv, ReflectSchemasFromDatabase PROVE RowsInv'
<1> USE DEF RowsInv
<1> DEFINE found == {<<db, s>> : s \in namespaces[db]}
           T == {t \in TablesOf(db) : SchemaOf(t) \notin found}
<1>1. /\ at = "schemas" /\ djSchemas' = {s \in djSchemas : s[1] # db} \union found
      /\ DeleteTables(T) /\ GoTo("tables") /\ UNCHANGED scope
      /\ UNCHANGED <<userDatabases, deleted>>
      /\ clean' = [clean EXCEPT ![db] = "so_far"]
  BY DEF ReflectSchemasFromDatabase, Answered
<1>2. CatalogOK'
  BY <1>1, CatalogStays DEF userDatabases
<1>3. db \in Databases /\ found \subseteq Databases \X Schemas
  BY <1>1 DEF WorkerOK, CatalogOK
<1>4. RowsOK'
  <2>1. \A t \in djTables \ T : SchemaOf(t) \in djSchemas'
    BY <1>1 DEF TablesOf, SchemaOf, DbOf, RowsOK
  <2>2. djSchemas' \subseteq Databases \X Schemas
    BY <1>1, <1>3 DEF RowsOK
  <2> HIDE DEF T, found
  <2> QED BY <1>1, <2>1, <2>2, DeleteTablesOK
<1>5. WorkerOK'
  BY <1>1 DEF WorkerOK, GoTo, RequestOK, Reflecting, Creating
<1>6. StatusOK'
  BY <1>1, CleanStays DEF userDatabases, StatusOK
<1> QED BY <1>2, <1>4, <1>5, <1>6

\* The tables found have schemas that are known.
LEMMA ReflectTablesOK == ASSUME RowsInv, ReflectTablesFromSchemas PROVE RowsInv'
<1> USE DEF RowsInv
<1>1. /\ at = "tables" /\ scope' = {t \in CatalogTables(db) : SchemaOf(t) \in djSchemas}
      /\ djTables' = djTables \union scope' /\ GoTo("settings")
      /\ UNCHANGED <<userDatabases, deleted, djSchemas, djColumns, djConstraints,
                     djSettings, clean>>
  BY DEF ReflectTablesFromSchemas, Answered
<1>2. db \in Databases
  BY <1>1 DEF WorkerOK
<1>3. \A t \in scope' : t \in TableRows /\ DbOf(t) = db /\ SchemaOf(t) \in djSchemas
  BY <1>1, <1>2, CatalogTablesTyped
<1>4. CatalogOK'
  BY <1>1, CatalogStays DEF userDatabases
<1>5. RowsOK'
  BY <1>1, <1>3 DEF RowsOK
<1>6. WorkerOK'
  BY <1>1, <1>3, GoOn DEF Reflecting
<1>7. StatusOK'
  BY <1>1 DEF userDatabases, StatusOK
<1> QED BY <1>4, <1>5, <1>6, <1>7

\* Settings are those of tables that are known.
LEMMA CreateTableSettingsOK == ASSUME RowsInv, CreateTableSettings PROVE RowsInv'
<1> USE DEF RowsInv
<1>1. /\ at = "settings" /\ DOMAIN djSettings' = djTables /\ GoTo("stale")
      /\ UNCHANGED <<scope, userDatabases, deleted, djSchemas, djTables, djColumns,
                     djConstraints, clean>>
  BY DEF CreateTableSettings
<1>2. CatalogOK'
  BY <1>1, CatalogStays DEF userDatabases
<1>3. RowsOK'
  BY <1>1 DEF RowsOK
<1>4. WorkerOK'
  BY <1>1, GoOn DEF Reflecting, WorkerOK
<1>5. StatusOK'
  BY <1>1 DEF userDatabases, StatusOK
<1> QED BY <1>2, <1>3, <1>4, <1>5

\* Tables that are gone go with what refers to them; those found stay.
LEMMA DeleteStaleTablesOK == ASSUME RowsInv, DeleteStaleTables PROVE RowsInv'
<1> USE DEF RowsInv
<1>1. /\ at = "stale" /\ DeleteTables(TablesOf(db) \ scope) /\ GoTo("columns")
      /\ UNCHANGED <<scope, userDatabases, deleted, djSchemas, clean>>
  BY DEF DeleteStaleTables
<1>2. CatalogOK'
  BY <1>1, CatalogStays DEF userDatabases
<1>3. RowsOK'
  <2>1. djSchemas' \subseteq Databases \X Schemas /\ \A t \in djTables : SchemaOf(t) \in djSchemas'
    BY <1>1 DEF RowsOK
  <2> QED BY <1>1, <2>1, DeleteTablesOK
<1>4. WorkerOK'
  <2>1. scope \subseteq djTables'
    BY <1>1 DEF WorkerOK, DeleteTables
  <2> QED BY <1>1, <2>1, GoOn DEF Reflecting, WorkerOK
<1>5. StatusOK'
  BY <1>1 DEF userDatabases, StatusOK
<1> QED BY <1>2, <1>3, <1>4, <1>5

\* Columns are inserted for tables that are known.
LEMMA ReflectColumnsOK == ASSUME RowsInv, ReflectColumnsFromTables PROVE RowsInv'
<1> USE DEF RowsInv
<1> DEFINE kept == {c \in DOMAIN djColumns : c[1] \notin scope}
           live == {c \in scope \X Attnums : c[2] \in LiveAttnums(c[1])}
<1>1. /\ at = "columns" /\ DOMAIN djColumns' = kept \union live /\ GoTo("templates")
      /\ UNCHANGED <<scope, userDatabases, deleted, djSchemas, djTables, djConstraints,
                     djSettings, clean>>
  BY DEF ReflectColumnsFromTables, Answered
<1>2. CatalogOK'
  BY <1>1, CatalogStays DEF userDatabases
<1>3. RowsOK'
  <2>1. scope \subseteq djTables
    BY <1>1 DEF WorkerOK
  <2> QED BY <1>1, <2>1 DEF RowsOK
<1>4. WorkerOK'
  BY <1>1, GoOn DEF Reflecting, WorkerOK
<1>5. StatusOK'
  BY <1>1 DEF userDatabases, StatusOK
<1> QED BY <1>2, <1>3, <1>4, <1>5

\* Previews are put on settings that are there.
LEMMA SetDefaultPreviewOK == ASSUME RowsInv, SetDefaultPreviewTemplate PROVE RowsInv'
<1> USE DEF RowsInv
<1>1. /\ at = "templates" /\ DOMAIN djSettings' = DOMAIN djSettings
      /\ UNCHANGED <<userDatabases, deleted, djSchemas, djTables, djColumns, djConstraints>>
  BY DEF SetDefaultPreviewTemplate, Answered
<1>2. \/ Reply /\ clean' = [clean EXCEPT ![db] = "no"]
      \/ GoTo("options") /\ UNCHANGED <<scope, clean>>
  BY DEF SetDefaultPreviewTemplate
<1>3. CatalogOK' /\ RowsOK' /\ StatusOK'
  BY <1>1, <1>2, CatalogStays, CleanStays DEF userDatabases, RowsOK, StatusOK
<1>4. WorkerOK'
  BY <1>1, <1>2, GoOn, ReplyOK DEF Reflecting, WorkerOK
<1> QED BY <1>3, <1>4

\* Options are taken off rows that are there.
LEMMA InvalidateOK ==
    ASSUME RowsInv, InvalidateColumnsWithIncorrectDisplayOptions PROVE RowsInv'
<1> USE DEF RowsInv
<1>1. /\ at = "options" /\ DOMAIN djColumns' = DOMAIN djColumns
      /\ UNCHANGED <<userDatabases, deleted, djSchemas, djTables, djConstraints, djSettings>>
  BY DEF InvalidateColumnsWithIncorrectDisplayOptions, Answered
<1>2. /\ \/ Reply
         \/ /\ request = None \/ request.kind # "create"
            /\ GoTo("constraints") /\ UNCHANGED scope
      /\ clean' = [clean EXCEPT ![db] = "no"] \/ UNCHANGED clean
  BY DEF InvalidateColumnsWithIncorrectDisplayOptions
<1>3. CatalogOK' /\ RowsOK' /\ StatusOK'
  BY <1>1, <1>2, CatalogStays, CleanStays DEF userDatabases, RowsOK, StatusOK
<1>4. WorkerOK'
  BY <1>1, <1>2, GoOn, ReplyOK DEF Reflecting, WorkerOK
<1> QED BY <1>3, <1>4

\* Constraints are inserted for tables that are known, of any database.
LEMMA ReflectConstraintsOK == ASSUME RowsInv, ReflectConstraintsFromDatabase PROVE RowsInv'
<1> USE DEF RowsInv
<1>1. /\ at = "constraints" /\ NextDatabase
      /\ djConstraints' \subseteq djConstraints \union (djTables \X (1 .. MaxConstraint))
      /\ UNCHANGED <<userDatabases, deleted, djSchemas, djTables, djColumns, djSettings>>
      /\ clean' = [clean EXCEPT ![db] = IF @ = "so_far" THEN "yes" ELSE "no"]
  BY DEF ReflectConstraintsFromDatabase, Answered
<1>2. CatalogOK' /\ RowsOK' /\ StatusOK'
  BY <1>1, CatalogStays DEF userDatabases, RowsOK, StatusOK
<1>3. WorkerOK'
  BY <1>1, NextDatabaseOK
<1> QED BY <1>2, <1>3

\* The options saved are those of a row whose table is looked for first.
LEMMA SaveOptionsOK == ASSUME RowsInv, SaveOptions PROVE RowsInv'
<1> USE DEF RowsInv
<1>1. at = "save" /\ Reply /\ UNCHANGED <<userDatabases, deleted, djSchemas, djTables, djConstraints>>
  BY DEF SaveOptions
<1>2. request.row \in ColumnRows
  BY <1>1 DEF WorkerOK, RequestOK, Reflecting, Creating
<1>3. \/ request.row[1] \in djTables /\ SaveTo(request.row)
      \/ UNCHANGED <<djColumns, djSettings, clean>>
  BY DEF SaveOptions
<1>4. RowsOK'
  <2>1. CASE request.row[1] \in djTables /\ SaveTo(request.row)
    <3>1. DOMAIN djColumns' = DOMAIN djColumns \union {request.row}
          /\ DOMAIN djSettings' = DOMAIN djSettings
      BY <2>1 DEF SaveTo
    <3>2. request.row \in djTables \X Attnums
      BY <1>2, <2>1 DEF ColumnRows
    <3> QED BY <1>1, <3>1, <3>2 DEF RowsOK
  <2> QED BY <1>1, <1>3, <2>1 DEF RowsOK
<1>5. StatusOK'
  BY <1>1, <1>3, CleanStays DEF SaveTo, Touched, userDatabases, StatusOK
<1> QED BY <1>1, <1>4, <1>5, CatalogStays, ReplyOK DEF userDatabases

\* The table registered gets rows that refer to it.
LEMMA RegisterTableOK == ASSUME RowsInv, RegisterTable PROVE RowsInv'
<1> USE DEF RowsInv
<1>1. at = "register" /\ UNCHANGED <<userDatabases, deleted, clean>>
  BY DEF RegisterTable, Answered
<1>2. CASE Reply /\ UNCHANGED rows
  BY <1>1, <1>2, CatalogStays, RowsStay, ReplyOK DEF userDatabases, StatusOK
<1>3. ASSUME NEW t \in scope,
             djTables' = djTables \union {t},
             djConstraints' = djConstraints \union
                 {<<t, k[2]>> : k \in {j \in CatalogConstraints(db) : j[1] = OidOf(t)}},
             DOMAIN djSettings' = DOMAIN djSettings \union {t},
             GoTo(IF request.kind = "create" THEN "columns" ELSE "rows"),
             UNCHANGED <<scope, djSchemas, djColumns>>
      PROVE  RowsInv'
  <2>1. db \in Databases /\ SchemaOf(t) \in djSchemas /\ t \in TableRows
    BY <1>1, <1>3 DEF WorkerOK
  <2>2. \A k \in CatalogConstraints(db) : k[2] \in 1 .. MaxConstraint
    BY DEF CatalogConstraints
  <2>3. RowsOK'
    BY <1>3, <2>1, <2>2 DEF RowsOK
  <2>4. WorkerOK'
    <3>1. scope = {t}
      BY <1>1, <1>3 DEF WorkerOK
    <3> QED BY <1>1, <1>3, <2>1, <3>1 DEF WorkerOK, GoTo, RequestOK, Reflecting, Creating
  <2> QED BY <1>1, <2>3, <2>4, CatalogStays DEF userDatabases, StatusOK
<1> QED BY <1>1, <1>2, <1>3 DEF RegisterTable

\* The columns are moved, or the request fails.
LEMMA MoveDataStep == ASSUME RowsInv, MoveData PROVE RowsInv'
<1> USE DEF RowsInv
<1>1. /\ at = "move" /\ clean' = [clean EXCEPT ![db] = "no"]
      /\ UNCHANGED <<namespaces, up, deleted, rows>>
      /\ Reply \/ (GoTo("rows") /\ UNCHANGED scope)
  BY DEF MoveData, Touched
<1>2. CatalogOK'
  BY <1>1, MoveDataOK DEF WorkerOK
<1>3. RowsOK' /\ StatusOK'
  BY <1>1, RowsStay, CleanStays DEF StatusOK
<1>4. CASE Reply
  BY <1>2, <1>3, <1>4, ReplyOK
<1>5. CASE GoTo("rows") /\ UNCHANGED scope
  BY <1>1, <1>2, <1>3, <1>5 DEF WorkerOK, GoTo, RequestOK, Reflecting, Creating, rows
<1> QED BY <1>1, <1>4, <1>5

\* The rows that follow their names are rows of a table that is known.
LEMMA UpdateColumnReferenceOK == ASSUME RowsInv, UpdateColumnReference PROVE RowsInv'
<1> USE DEF RowsInv
<1>1. /\ at = "rows" /\ ResetReflection({db}) /\ request' = None
      /\ UNCHANGED <<userDatabases, deleted, djSchemas, djTables, djConstraints,
                     djSettings, clean>>
  BY DEF UpdateColumnReference, Answered, ResetReflection
<1>2. PICK t \in scope :
       LET place(m) == {a \in LiveAttnums(t) : CatalogColumn(<<t, a>>).name = m[2]}
           found == {m \in request.moved : place(m) # {}}
           to(m) == <<t, CHOOSE a \in place(m) : TRUE>>
           gone == {m[1] : m \in found}
           come == {to(m) : m \in found}
       IN  DOMAIN djColumns' = (DOMAIN djColumns \ gone) \union come
  BY DEF UpdateColumnReference
<1> DEFINE place(m) == {a \in LiveAttnums(t) : CatalogColumn(<<t, a>>).name = m[2]}
           found == {m \in request.moved : place(m) # {}}
           chosen(m) == CHOOSE a \in place(m) : TRUE
           come == {<<t, chosen(m)>> : m \in found}
<1>3. db \in Databases /\ t \in djTables /\ DbOf(t) = db
  BY <1>1, <1>2 DEF WorkerOK
<1>4. DOMAIN djColumns' \subseteq DOMAIN djColumns \union ({t} \X Attnums)
  <2>1. LiveAttnums(t) \subseteq Attnums
    BY <1>3, LiveAttnumsTyped
  <2>2. ASSUME NEW m \in found PROVE chosen(m) \in LiveAttnums(t)
    <3> DEFINE P == place(m)
    <3>1. P # {} /\ P \subseteq LiveAttnums(t)
      OBVIOUS
    <3> HIDE DEF P
    <3>2. (CHOOSE a \in P : TRUE) \in LiveAttnums(t)
      BY <3>1
    <3> QED BY <3>2 DEF P
  <2>3. come \subseteq {t} \X Attnums
    <3> HIDE DEF chosen, found
    <3> QED BY <2>1, <2>2
  <2>4. DOMAIN djColumns' \subseteq DOMAIN djColumns \union come
    BY <1>2
  <2> QED BY <2>3, <2>4
<1>5. RowsOK'
  BY <1>1, <1>3, <1>4 DEF RowsOK
<1>6. WorkerOK'
  BY <1>1, <1>3, ResetReflectionOK
<1> QED BY <1>1, <1>5, <1>6, CatalogStays DEF userDatabases, StatusOK

-----------------------------------------------------------------------------
(***************************************************************************)
(* Rows refer to rows: the others, and the requests.                       *)
(***************************************************************************)
\* Whatever others do to a user database, the rows are what they were.
LEMMA OthersOK ==
    ASSUME RowsInv, NEW d \in Databases, OthersChangeDatabase(d) PROVE RowsInv'
<1> USE DEF RowsInv
<1>1. UNCHANGED <<up, deleted, rows, worker>> /\ Touched(d)
  BY DEF OthersChangeDatabase
<1>2. CatalogOK'
  <2>1. CASE /\ UNCHANGED namespaces
             /\ \E o \in DOMAIN pg[d], n \in Names, y \in Types : AddColumn(d, o, n, y)
    BY <2>1, AddColumnOK
  <2>2. ASSUME UNCHANGED namespaces, NEW o \in DOMAIN pg[d],
               NEW k \in 1 .. MaxConstraint, AddConstraint(d, o, k)
        PROVE  CatalogOK'
    <3>1. pg[d][o].constraints \union {k} \in SUBSET (1 .. MaxConstraint)
      BY DEF CatalogOK, TableOK
    <3>2. pg' = [pg EXCEPT ![d][o].constraints = pg[d][o].constraints \union {k}]
      BY <2>2 DEF AddConstraint, CatalogOK, TableOK
    <3> QED BY <2>2, <3>1, <3>2, ConstraintsOK
  <2>3. CASE \E s \in namespaces[d] :
                /\ namespaces' = [namespaces EXCEPT ![d] = @ \ {s}]
                /\ pg' = [pg EXCEPT ![d] = RestrictValues(@, LAMBDA x : x.schema # s)]
    BY <2>3, DropSchemaOK
  <2> QED BY <2>1, <2>2, <2>3, CreateTableOK, DropTableOK, DropColumnOK, AlterTypeOK,
             SetSchemaOK DEF OthersChangeDatabase
<1>3. RowsOK' /\ WorkerOK'
  BY <1>1, RowsStay DEF worker, rows, WorkerOK, RequestOK
<1>4. StatusOK'
  BY <1>1 DEF Touched, StatusOK
<1> QED BY <1>2, <1>3, <1>4

\* A database that stops to answer keeps its tables.
LEMMA OutageOK == ASSUME RowsInv, NEW d \in Databases, Outage(d) PROVE RowsInv'
<1>1. /\ UNCHANGED <<namespaces, pg, deleted, rows, worker, clean>>
      /\ up' = [up EXCEPT ![d] = ~@]
  BY DEF Outage
<1>2. RowsOK' /\ WorkerOK' /\ CatalogOK'
  BY <1>1, RowsStay, CatalogStays DEF worker, rows, WorkerOK, RequestOK, RowsInv
<1>3. StatusOK'
  BY <1>1 DEF StatusOK, RowsInv
<1> QED BY <1>2, <1>3 DEF RowsInv

\* The process is gone, its rows are not.
LEMMA RestartOK == ASSUME RowsInv, Restart PROVE RowsInv'
<1>1. RowsOK' /\ CatalogOK'
  BY RowsStay, CatalogStays DEF Restart, RowsInv, userDatabases
<1>2. WorkerOK'
  BY DEF Restart, WorkerOK, RequestOK, Creating
<1>3. StatusOK'
  BY DEF Restart, StatusOK, RowsInv, userDatabases
<1> QED BY <1>1, <1>2, <1>3 DEF RowsInv

\* A request that only reflects.
LEMMA ReflectRequestOK ==
    ASSUME RowsInv, MakeSureInitialReflectionHappened \/ ReflectAll PROVE RowsInv'
<1>1. /\ at = "idle" /\ ResetReflection(Databases) /\ UNCHANGED request
      /\ UNCHANGED <<userDatabases, deleted, rows, clean>>
  BY DEF MakeSureInitialReflectionHappened, ReflectAll, Request
<1>2. WorkerOK'
  BY <1>1, ResetReflectionOK DEF WorkerOK, RowsInv
<1> QED BY <1>1, <1>2, RowsStay, CatalogStays DEF RowsInv, userDatabases, StatusOK

\* A request that alters a database and reflects it.
LEMMA AlterAndReflectOK ==
    ASSUME RowsInv, NEW d \in Databases, AlterAndReflect(d) PROVE RowsInv'
<1>1. /\ at = "idle" /\ ResetReflection({d}) /\ UNCHANGED request
      /\ UNCHANGED <<namespaces, up, deleted, rows>> /\ Touched(d)
  BY DEF AlterAndReflect, Request, InDatabase
<1>2. WorkerOK'
  BY <1>1, ResetReflectionOK DEF WorkerOK, RowsInv
<1>3. CatalogOK'
  BY <1>1, DropColumnOK, DropTableOK, AlterTypeOK DEF AlterAndReflect, RowsInv
<1>4. StatusOK'
  BY <1>1 DEF Touched, StatusOK, RowsInv
<1> QED BY <1>1, <1>2, <1>3, <1>4, RowsStay DEF RowsInv

\* A column is added, and its options wait for its row.
LEMMA AddColumnRequestOK ==
    ASSUME RowsInv, NEW t \in djTables, NEW n \in Names, NEW y \in Types,
           AddColumnRequest(t, n, y)
    PROVE  RowsInv'
<1> USE DEF RowsInv
<1>1. /\ OnTable(t) /\ AddColumn(DbOf(t), OidOf(t), n, y) /\ ResetReflection({DbOf(t)})
      /\ request' = [kind |-> "new", row |-> <<t, pg[DbOf(t)][OidOf(t)].last + 1>>,
                     options |-> y]
      /\ UNCHANGED <<namespaces, up, deleted, rows>> /\ Touched(DbOf(t))
  BY DEF AddColumnRequest, InDatabase
<1>2. /\ DbOf(t) \in Databases /\ OidOf(t) \in DOMAIN pg[DbOf(t)]
      /\ TableOK(pg[DbOf(t)][OidOf(t)], namespaces[DbOf(t)])
  BY <1>1, OnTableFacts
<1>3. CatalogOK'
  BY <1>1, <1>2, AddColumnOK
<1>4. request'.kind = "new" /\ request'.row \in ColumnRows
  <2>1. pg[DbOf(t)][OidOf(t)].last + 1 \in Attnums
    BY <1>1, <1>2, ReflectionAssumption DEF TableOK, AddColumn, Attnums
  <2> QED BY <1>1, <2>1 DEF ColumnRows, RowsOK
<1>5. WorkerOK'
  BY <1>1, <1>2, <1>4, ResetReflectionOK
<1> QED BY <1>1, <1>3, <1>5, RowsStay DEF Touched, StatusOK

\* Options wait for a row that is there now.
LEMMA SetDisplayOptionsOK ==
    ASSUME RowsInv, NEW c \in DOMAIN djColumns, SetDisplayOptions(c) PROVE RowsInv'
<1> USE DEF RowsInv
<1>1. /\ OnTable(c[1]) /\ ResetReflection({DbOf(c[1])})
      /\ request'.kind = "old" /\ request'.row = c
      /\ UNCHANGED <<namespaces, pg, up, deleted, rows>> /\ Touched(DbOf(c[1]))
  BY DEF SetDisplayOptions, InDatabase
<1>2. DbOf(c[1]) \in Databases
  BY <1>1, OnTableFacts
<1>3. c \in ColumnRows
  BY DEF RowsOK, ColumnRows
<1>4. WorkerOK'
  BY <1>1, <1>2, <1>3, ResetReflectionOK
<1> QED BY <1>1, <1>4, RowsStay, CatalogStays DEF Touched, StatusOK

\* Settings change for tables that have some.
LEMMA ChangeSettingsOK ==
    ASSUME RowsInv, NEW t \in djTables,
           (\E a \in Attnums : CustomizePreview(t, a)) \/ ResetPreview(t)
    PROVE  RowsInv'
<1> USE DEF RowsInv
<1>1. ChangeSettings(t)
  BY DEF CustomizePreview, ResetPreview
<1>2. /\ UNCHANGED <<userDatabases, deleted, djSchemas, djTables, djColumns, djConstraints>>
      /\ UNCHANGED <<reflected, at, todo, db, scope, request>> /\ Touched(DbOf(t))
  BY <1>1 DEF ChangeSettings, worker
<1>3. DOMAIN djSettings' \subseteq DOMAIN djSettings
  BY DEF CustomizePreview, ResetPreview, Restrict
<1>4. RowsOK'
  BY <1>2, <1>3 DEF RowsOK
<1>5. WorkerOK'
  BY <1>2 DEF WorkerOK, RequestOK
<1> QED BY <1>2, <1>4, <1>5, CatalogStays DEF userDatabases, Touched, StatusOK

\* The empty table has a schema that is known.
LEMMA CreateEmptyTableOK ==
    ASSUME RowsInv, NEW d \in Databases, NEW s \in Schemas, NEW o \in Oids,
           CreateEmptyTable(d, s, o)
    PROVE  RowsInv'
<1> USE DEF RowsInv
<1>1. /\ at = "idle" /\ <<d, s>> \in djSchemas /\ s \in namespaces[d]
      /\ SetTable(d, o, NewTable(s, KeyColumn))
      /\ at' = "register" /\ db' = d /\ scope' = {<<d, s, o>>}
      /\ request' = [kind |-> "create", moved |-> {}]
      /\ UNCHANGED <<namespaces, up, deleted, rows, reflected, todo>> /\ Touched(d)
  BY DEF CreateEmptyTable, Request, InDatabase
<1>2. CatalogOK'
  <2>1. DOMAIN KeyColumn = 1 .. 1 /\ 1 \in 0 .. MaxAttnum
    BY KeyColumns, ReflectionAssumption
  <2>2. TableOK(NewTable(s, KeyColumn), namespaces[d])
    BY <1>1, <2>1, NewTableOK
  <2> QED BY <1>1, <2>2, SetTableOK
<1>3. WorkerOK'
  BY <1>1 DEF WorkerOK, RequestOK, Reflecting, Creating, TableRows, DbOf, SchemaOf, rows
<1> QED BY <1>1, <1>2, <1>3, RowsStay DEF Touched, StatusOK

\* The table split off has the schema of the table it is split from.
LEMMA SplitTableStep ==
    ASSUME RowsInv, NEW t \in djTables, NEW A \in SUBSET Attnums, NEW o \in Oids,
           NEW link \in Names, SplitTable(t, A, o, link)
    PROVE  RowsInv'
<1> USE DEF RowsInv
<1> DEFINE source == pg[DbOf(t)][OidOf(t)]
<1>1. /\ OnTable(t) /\ at = "idle" /\ at' = "register" /\ db' = DbOf(t)
      /\ scope' = {<<DbOf(t), source.schema, o>>}
      /\ request' = [kind |-> "split",
                     moved |-> {<<<<t, a>>, source.columns[a].name>> : a \in A}]
      /\ UNCHANGED <<namespaces, up, deleted, rows, reflected, todo>> /\ Touched(DbOf(t))
  BY DEF SplitTable, InDatabase, OnTable, Request
<1>2. CatalogOK'
  BY SplitTableOK
<1>3. DbOf(t) \in Databases /\ source.schema = t[2] /\ t \in TableRows
  BY <1>1, OnTableFacts DEF RowsOK
<1>4. <<DbOf(t), source.schema>> = SchemaOf(t) /\ SchemaOf(t) \in djSchemas
  BY <1>3 DEF RowsOK, SchemaOf, DbOf
<1>5. request'.kind = "split" /\ \A m \in request'.moved : m[1][1] = t
  BY <1>1
<1>6. WorkerOK'
  <2>1. scope' \subseteq TableRows /\ \A x \in scope' : DbOf(x) = db' /\ SchemaOf(x) \in djSchemas'
    BY <1>1, <1>3, <1>4 DEF TableRows, DbOf, SchemaOf, rows
  <2>2. RequestOK'
    BY <1>1, <1>5 DEF RequestOK, Creating
  <2>3. \A x, y \in scope' : x = y
    BY <1>1
  <2> QED BY <1>1, <1>3, <2>1, <2>2, <2>3 DEF WorkerOK, Creating, Reflecting
<1> QED BY <1>1, <1>2, <1>6, RowsStay DEF Touched, StatusOK

\* Columns move to a table that is known.
LEMMA MoveColumnsStep ==
    ASSUME RowsInv, NEW t \in djTables, NEW A \in SUBSET Attnums, NEW u \in djTables,
           MoveColumns(t, A, u)
    PROVE  RowsInv'
<1> USE DEF RowsInv
<1> DEFINE source == pg[DbOf(t)][OidOf(t)]
<1>1. /\ OnTable(t) /\ at = "idle" /\ at' = "move" /\ db' = DbOf(t) /\ scope' = {u}
      /\ u \in CatalogTables(DbOf(t))
      /\ request' = [kind |-> "move",
                     moved |-> {<<<<t, a>>, source.columns[a].name>> : a \in A}]
      /\ UNCHANGED <<namespaces, up, deleted, rows, reflected, todo>> /\ Touched(DbOf(t))
  BY DEF MoveColumns, InDatabase, OnTable, Request
<1>2. CatalogOK'
  BY MoveColumnsOK
<1>3. DbOf(t) \in Databases /\ DbOf(u) = DbOf(t)
  BY <1>1, OnTableFacts, CatalogTablesTyped
<1>4. u \in TableRows /\ SchemaOf(u) \in djSchemas
  BY DEF RowsOK
<1>5. request'.kind = "move" /\ \A m \in request'.moved : m[1][1] = t
  BY <1>1
<1>6. WorkerOK'
  <2>1. RequestOK'
    BY <1>1, <1>5 DEF RequestOK, Creating
  <2> QED BY <1>1, <1>3, <1>4, <2>1 DEF WorkerOK, Creating, Reflecting, rows
<1> QED BY <1>1, <1>2, <1>6, RowsStay DEF Touched, StatusOK

\* The new constraint has a row of a table that is known.
LEMMA AddConstraintRequestOK ==
    ASSUME RowsInv, NEW t \in djTables, AddConstraintRequest(t) PROVE RowsInv'
<1> USE DEF RowsInv
<1> DEFINE old == pg[DbOf(t)][OidOf(t)].constraints
           k == Max(old \union {0}) + 1
<1>1. /\ OnTable(t) /\ at = "idle" /\ k <= MaxConstraint
      /\ AddConstraint(DbOf(t), OidOf(t), k)
      /\ djConstraints' = djConstraints \union {<<t, k>>}
      /\ ResetReflection({DbOf(t)}) /\ UNCHANGED request
      /\ UNCHANGED <<namespaces, up, deleted, djSchemas, djTables, djColumns, djSettings>>
      /\ Touched(DbOf(t))
  BY DEF AddConstraintRequest, InDatabase, OnTable, Request
<1>2. /\ DbOf(t) \in Databases /\ OidOf(t) \in DOMAIN pg[DbOf(t)]
      /\ TableOK(pg[DbOf(t)][OidOf(t)], namespaces[DbOf(t)])
  BY <1>1, OnTableFacts
<1>3. k \in 1 .. MaxConstraint
  <2>1. old \union {0} \in SUBSET (0 .. MaxConstraint) /\ old \union {0} # {}
    BY <1>2, ReflectionAssumption DEF TableOK
  <2>2. Max(old \union {0}) \in old \union {0}
    BY <2>1, LargestIsThere, ReflectionAssumption
  <2>3. Max(old \union {0}) \in Nat
    BY <2>1, <2>2, ReflectionAssumption
  <2> QED BY <1>1, <2>3, ReflectionAssumption
<1> HIDE DEF k
<1>4. CatalogOK'
  <2>1. old \union {k} \in SUBSET (1 .. MaxConstraint)
    BY <1>2, <1>3 DEF TableOK
  <2>2. pg' = [pg EXCEPT ![DbOf(t)][OidOf(t)].constraints = old \union {k}]
    BY <1>1, <1>2 DEF AddConstraint, CatalogOK, TableOK
  <2> HIDE DEF old
  <2> QED BY <1>1, <1>2, <2>1, <2>2, ConstraintsOK
<1>5. RowsOK'
  BY <1>1, <1>3 DEF RowsOK
<1>6. WorkerOK'
  BY <1>1, <1>2, ResetReflectionOK DEF WorkerOK
<1> QED BY <1>1, <1>4, <1>5, <1>6 DEF Touched, StatusOK

\* A constraint goes on both sides.
LEMMA DropConstraintRequestOK ==
    ASSUME RowsInv, NEW t \in djTables, NEW k \in 1 .. MaxConstraint,
           DropConstraintRequest(t, k)
    PROVE  RowsInv'
<1> USE DEF RowsInv
<1> DEFINE old == pg[DbOf(t)][OidOf(t)].constraints
<1>1. /\ OnTable(t) /\ at = "idle"
      /\ pg' = [pg EXCEPT ![DbOf(t)][OidOf(t)].constraints = @ \ {k}]
      /\ djConstraints' = djConstraints \ {<<t, k>>}
      /\ ResetReflection({DbOf(t)}) /\ UNCHANGED request
      /\ UNCHANGED <<namespaces, up, deleted, djSchemas, djTables, djColumns, djSettings>>
      /\ Touched(DbOf(t))
  BY DEF DropConstraintRequest, InDatabase, OnTable, Request
<1>2. /\ DbOf(t) \in Databases /\ OidOf(t) \in DOMAIN pg[DbOf(t)]
      /\ TableOK(pg[DbOf(t)][OidOf(t)], namespaces[DbOf(t)])
  BY <1>1, OnTableFacts
<1>3. CatalogOK'
  <2>1. old \ {k} \in SUBSET (1 .. MaxConstraint)
    BY <1>2 DEF TableOK
  <2>2. pg' = [pg EXCEPT ![DbOf(t)][OidOf(t)].constraints = old \ {k}]
    BY <1>1, <1>2 DEF CatalogOK, TableOK
  <2> HIDE DEF old
  <2> QED BY <1>1, <1>2, <2>1, <2>2, ConstraintsOK
<1>4. RowsOK'
  BY <1>1 DEF RowsOK
<1>5. WorkerOK'
  BY <1>1, <1>2, ResetReflectionOK DEF WorkerOK
<1> QED BY <1>1, <1>3, <1>4, <1>5 DEF Touched, StatusOK

-----------------------------------------------------------------------------
(***************************************************************************)
(* Rows refer to rows: the theorem.                                        *)
(***************************************************************************)
\* An installation in use is one whose rows refer to rows.
LEMMA RowsInvInit == ASSUME Init PROVE RowsInv
<1>1. PICK tables \in [Databases -> (SUBSET Oids) \ {{}}] :
          pg = [d \in Databases |-> [o \in tables[d] |-> NewTable(FirstSchema, FirstColumns)]]
  BY DEF Init
<1>2. FirstSchema \in Schemas
  BY ReflectionAssumption DEF FirstSchema
<1>3. TableOK(NewTable(FirstSchema, FirstColumns), Schemas)
  <2>1. DOMAIN FirstColumns = 1 .. 2 /\ 2 \in 0 .. MaxAttnum
    BY ReflectionAssumption DEF FirstColumns
  <2> QED BY <1>2, <2>1, NewTableOK
<1>4. CatalogOK
  <2>1. /\ namespaces = [d \in Databases |-> Schemas] /\ DOMAIN pg = Databases
        /\ \A d \in Databases : DOMAIN pg[d] = tables[d] /\ tables[d] \subseteq Oids
        /\ \A d \in Databases : \A o \in DOMAIN pg[d] :
              pg[d][o] = NewTable(FirstSchema, FirstColumns)
    BY <1>1 DEF Init
  <2> QED BY <1>3, <2>1 DEF CatalogOK
<1>5. RowsOK
  <2>1. /\ djSchemas = Databases \X Schemas
        /\ djTables = UNION {CatalogTables(d) : d \in Databases}
        /\ DOMAIN djColumns = djTables \X {1, 2} /\ djConstraints = djTables \X {1}
        /\ DOMAIN djSettings = djTables
    BY DEF Init
  <2>2. djTables \subseteq TableRows
    BY <1>4, <2>1, CatalogTablesTyped
  <2>3. \A t \in djTables : SchemaOf(t) \in djSchemas
    BY <2>1, <2>2 DEF SchemaOf, TableRows
  <2>4. {1, 2} \subseteq Attnums /\ 1 \in 1 .. MaxConstraint
    BY ReflectionAssumption DEF Attnums
  <2> QED BY <2>1, <2>2, <2>3, <2>4 DEF RowsOK
<1>6. WorkerOK
  BY DEF Init, WorkerOK, RequestOK, Creating
<1>7. StatusOK
  BY DEF Init, StatusOK
<1> QED BY <1>4, <1>5, <1>6, <1>7 DEF RowsInv

\* Every step keeps them so.
LEMMA RowsInvStep == ASSUME RowsInv, [Next]_vars PROVE RowsInv'
<1>1. CASE WorkerStep
  BY <1>1, UnansweredOK, SyncDatabasesStatusOK, DropSchemasOK, ReflectSchemasOK,
     ReflectTablesOK, CreateTableSettingsOK, DeleteStaleTablesOK, ReflectColumnsOK,
     SetDefaultPreviewOK, InvalidateOK, ReflectConstraintsOK, SaveOptionsOK,
     RegisterTableOK, MoveDataStep, UpdateColumnReferenceOK DEF WorkerStep
<1>2. CASE NewRequest
  BY <1>2, ReflectRequestOK, AlterAndReflectOK, CreateEmptyTableOK, AddColumnRequestOK,
     SplitTableStep, MoveColumnsStep, AddConstraintRequestOK, DropConstraintRequestOK,
     SetDisplayOptionsOK, ChangeSettingsOK DEF NewRequest
<1>3. CASE \E d \in Databases : OthersChangeDatabase(d) \/ Outage(d)
  BY <1>3, OthersOK, OutageOK
<1>4. CASE UNCHANGED vars
  <2>1. /\ UNCHANGED <<namespaces, pg, rows, up, deleted, clean>>
        /\ UNCHANGED <<reflected, at, todo, db, scope, request>>
    BY <1>4 DEF vars, userDatabases, worker
  <2>2. WorkerOK'
    BY <2>1 DEF RowsInv, WorkerOK, RequestOK, rows
  <2> QED BY <2>1, <2>2, CatalogStays, RowsStay DEF RowsInv, StatusOK
<1> QED BY <1>1, <1>2, <1>3, <1>4, RestartOK DEF Next

\* Rows that refer to rows are typed, and everything else is.
LEMMA RowsInvMeans == ASSUME RowsInv PROVE RowsReferToRows
<1>1. TypeOK
  <2>1. \A d \in Databases : namespaces[d] \subseteq Schemas
    BY DEF RowsInv, CatalogOK
  <2>2. DOMAIN djColumns \subseteq ColumnRows /\ DOMAIN djSettings \subseteq TableRows
        /\ djConstraints \subseteq TableRows \X (1 .. MaxConstraint)
    BY DEF RowsInv, RowsOK, ColumnRows
  <2> QED BY <2>1, <2>2 DEF RowsInv, CatalogOK, TableOK, RowsOK, WorkerOK, StatusOK, TypeOK
<1> QED BY <1>1 DEF RowsInv, RowsOK, RowsReferToRows

\* The invariant of the rows holds in every state that is reached.
THEOREM RowsInvHolds == Spec => []RowsInv
BY RowsInvInit, RowsInvStep, PTL DEF Spec

\* Whatever fails half-way, the rows of Mathesar's own database refer to rows that
\* exist, and everything keeps its type.
THEOREM RowsReferToRowsHolds == Spec => []RowsReferToRows
BY RowsInvHolds, RowsInvMeans, PTL

-----------------------------------------------------------------------------
(***************************************************************************)
(* Rows agree with the catalog: what a step leaves alone.                  *)
(***************************************************************************)
\* The step changes neither the catalog of d nor the rows of it, but for constraints
\* that come.
Untouched(d) ==
    /\ pg'[d] = pg[d]
    /\ \A s \in Schemas : <<d, s>> \in djSchemas' <=> <<d, s>> \in djSchemas
    /\ \A t \in TableRows : DbOf(t) = d =>
          /\ t \in djTables' <=> t \in djTables
          /\ \A a \in Attnums : /\ <<t, a>> \in DOMAIN djColumns' <=> <<t, a>> \in DOMAIN djColumns
                                /\ <<t, a>> \in DOMAIN djColumns =>
                                      djColumns'[<<t, a>>] = djColumns[<<t, a>>]
          /\ t \in DOMAIN djSettings => t \in DOMAIN djSettings' /\ djSettings'[t] = djSettings[t]
          /\ \A k \in 1 .. MaxConstraint :
                <<t, k>> \in djConstraints => <<t, k>> \in djConstraints'

\* What a database says of its catalog when its part of it is what it was.
LEMMA SameCatalog ==
    ASSUME NEW d, pg'[d] = pg[d]
    PROVE  /\ CatalogTables(d)' = CatalogTables(d)
           /\ \A t : DbOf(t) = d => LiveAttnums(t)' = LiveAttnums(t)
           /\ \A c : DbOf(c[1]) = d => CatalogColumn(c)' = CatalogColumn(c)
BY DEF CatalogTables, LiveAttnums, CatalogColumn

\* A database that agrees goes on to agree while a step leaves it alone.
LEMMA AgreeStays ==
    ASSUME RowsInv, RowsInv', NEW d \in Databases, Agree(d), Untouched(d)
    PROVE  Agree(d)'
<1>1. /\ CatalogTables(d)' = CatalogTables(d)
      /\ \A t : DbOf(t) = d => LiveAttnums(t)' = LiveAttnums(t)
      /\ \A c : DbOf(c[1]) = d => CatalogColumn(c)' = CatalogColumn(c)
  BY SameCatalog DEF Untouched
<1>2. djTables \subseteq TableRows /\ djTables' \subseteq TableRows
  BY DEF RowsInv, RowsOK
<1>3. TablesOf(d)' = TablesOf(d)
  BY <1>2 DEF Untouched, TablesOf
<1>4. Found(d)' = Found(d)
  <2>1. \A t \in CatalogTables(d) : t \in TableRows /\ DbOf(t) = d
    BY CatalogTablesTyped DEF RowsInv
  <2>2. \A t \in TableRows : DbOf(t) = d => SchemaOf(t) = <<d, t[2]>> /\ t[2] \in Schemas
    BY DEF TableRows, SchemaOf, DbOf
  <2>3. \A t \in CatalogTables(d) : SchemaOf(t) \in djSchemas' <=> SchemaOf(t) \in djSchemas
    BY <2>1, <2>2 DEF Untouched
  <2> QED BY <1>1, <2>3 DEF Found
<1>5. \A t \in TablesOf(d) : t \in TableRows /\ DbOf(t) = d
  BY <1>2 DEF TablesOf
<1>6. \A t \in TablesOf(d) : RowsOf(t)' = RowsOf(t)
  BY <1>5 DEF Untouched, RowsOf
<1>7. ColumnsAgree(d)'
  BY <1>1, <1>3, <1>5, <1>6 DEF Agree, ColumnsAgree
<1>8. TablesOf(d)' \subseteq DOMAIN djSettings' /\ PreviewsAgree(d)'
  BY <1>3, <1>5, <1>6 DEF Agree, PreviewsAgree, Follows, Untouched
<1>9. OptionsAgree(d)'
  <2> SUFFICES ASSUME NEW t \in TablesOf(d), NEW a \in RowsOf(t)
               PROVE  djColumns'[<<t, a>>] \in {None, CatalogColumn(<<t, a>>).type}'
    BY <1>3, <1>6 DEF OptionsAgree
  <2>1. djColumns[<<t, a>>] \in {None, CatalogColumn(<<t, a>>).type}
    BY DEF Agree, OptionsAgree
  <2>2. a \in Attnums /\ <<t, a>> \in DOMAIN djColumns
    BY DEF RowsOf
  <2>3. djColumns'[<<t, a>>] = djColumns[<<t, a>>]
    BY <1>5, <2>2 DEF Untouched
  <2>4. CatalogColumn(<<t, a>>)' = CatalogColumn(<<t, a>>)
    BY <1>1, <1>5
  <2> QED BY <2>1, <2>3, <2>4
<1>10. ConstraintsAgree(d)'
  <2> SUFFICES ASSUME NEW t \in TablesOf(d), NEW k \in pg[d][OidOf(t)].constraints
               PROVE  <<t, k>> \in djConstraints'
    BY <1>3 DEF ConstraintsAgree, Untouched
  <2>1. t \in CatalogTables(d)
    BY DEF Agree, Found
  <2>2. k \in 1 .. MaxConstraint
    BY <2>1, CatalogTablesTyped DEF RowsInv, CatalogOK, TableOK
  <2>3. <<t, k>> \in djConstraints
    BY DEF Agree, ConstraintsAgree
  <2> QED BY <1>5, <2>2, <2>3 DEF Untouched
<1> QED BY <1>3, <1>4, <1>7, <1>8, <1>9, <1>10 DEF Agree

\* A step that leaves the rows and the catalog of d alone leaves d alone.
LEMMA RowsUntouched ==
    ASSUME NEW d, pg'[d] = pg[d], UNCHANGED rows PROVE Untouched(d)
BY DEF Untouched, rows

\* A cascade leaves the rows of other tables alone.
LEMMA DeleteTablesUntouched ==
    ASSUME NEW d, NEW T, DeleteTables(T), \A t \in T : DbOf(t) # d, pg'[d] = pg[d],
           \A s \in Schemas : <<d, s>> \in djSchemas' <=> <<d, s>> \in djSchemas
    PROVE  Untouched(d)
BY DEF Untouched, DeleteTables, RestrictDomain, Restrict

\* So a step after which every database that agrees has been left alone keeps it so.
LEMMA YesStays ==
    ASSUME RowsInv, RowsInv', YesOK,
           \A d \in Databases : clean'[d] = "yes" => clean[d] = "yes" /\ Untouched(d)
    PROVE  YesOK'
BY AgreeStays DEF YesOK

\* Nothing is being reflected between the reflections, and after them.
LEMMA NothingSoFar ==
    ASSUME SoFarOK, at \notin Reflecting,
           \A d \in Databases : clean'[d] = "so_far" => clean[d] = "so_far"
    PROVE  SoFarOK'
BY DEF SoFarOK

\* A request that has ended, or waits for the next database, works on none.
LEMMA NoDatabase ==
    ASSUME WorkerOK, Reply \/ (NextDatabase /\ at \in {"status", "schemas", "constraints"})
    PROVE  CleanOK' /\ at' \notin Reflecting
<1>1. CASE Reply
  BY <1>1 DEF Reply, CleanOK, Reflecting, Creating
<1>2. CASE NextDatabase /\ at \in {"status", "schemas", "constraints"}
  <2>1. request = None \/ request.kind \in {"new", "old"}
    BY <1>2 DEF WorkerOK, RequestOK, Creating
  <2>2. Reply \/ (at' \in {"schemas", "save"} /\ UNCHANGED request)
    BY <1>2 DEF NextDatabase
  <2>3. CASE at' \in {"schemas", "save"} /\ UNCHANGED request
    BY <2>1, <2>3 DEF CleanOK, Reflecting, Creating
  <2> QED BY <1>1, <2>2, <2>3
<1> QED BY <1>1, <1>2

-----------------------------------------------------------------------------
(***************************************************************************)
(* Rows agree with the catalog: the steps of the worker.                   *)
(***************************************************************************)
\* A reflection that gets no answer is not completed.
LEMMA UnansweredAgrees ==
    ASSUME ReflectionInv, RowsInv', Unanswered PROVE SoFarOK' /\ CleanOK' /\ YesOK'
<1> USE DEF ReflectionInv
<1>1. /\ Reply /\ clean' = [clean EXCEPT ![db] = "no"] /\ db \in Databases
      /\ UNCHANGED <<namespaces, pg, rows>>
  BY DEF Unanswered, RowsInv, WorkerOK, userDatabases
<1>2. \A d \in Databases : clean'[d] # "so_far"
  BY <1>1 DEF SoFarOK, RowsInv, StatusOK
<1>3. \A d \in Databases : clean'[d] = "yes" => clean[d] = "yes" /\ Untouched(d)
  BY <1>1, RowsUntouched DEF RowsInv, StatusOK
<1> QED BY <1>1, <1>2, <1>3, YesStays, NoDatabase DEF SoFarOK, RowsInv

\* The status of databases is not of their rows.
LEMMA SyncDatabasesStatusAgrees ==
    ASSUME ReflectionInv, RowsInv', SyncDatabasesStatus PROVE SoFarOK' /\ CleanOK' /\ YesOK'
<1> USE DEF ReflectionInv
<1>1. at = "status" /\ NextDatabase /\ UNCHANGED <<userDatabases, rows, clean>>
  BY DEF SyncDatabasesStatus
<1>2. SoFarOK'
  BY <1>1, NothingSoFar DEF Reflecting
<1>3. YesOK'
  BY <1>1, YesStays, RowsUntouched DEF userDatabases
<1> QED BY <1>1, <1>2, <1>3, NoDatabase DEF RowsInv

\* A deleted database is not reflected.
LEMMA DropSchemasAgrees ==
    ASSUME ReflectionInv, RowsInv', DropSchemasOfDeletedDatabase
    PROVE  SoFarOK' /\ CleanOK' /\ YesOK'
<1> USE DEF ReflectionInv
<1>1. /\ at = "schemas" /\ djSchemas' = {s \in djSchemas : s[1] # db}
      /\ DeleteTables(TablesOf(db)) /\ clean' = [clean EXCEPT ![db] = "no"]
      /\ NextDatabase /\ UNCHANGED <<namespaces, pg, up>> /\ db \in Databases
  BY DEF DropSchemasOfDeletedDatabase, RowsInv, WorkerOK, userDatabases
<1>2. SoFarOK'
  BY <1>1, NothingSoFar DEF Reflecting, RowsInv, StatusOK
<1>3. YesOK'
  <2> SUFFICES ASSUME NEW d \in Databases, clean'[d] = "yes"
               PROVE  clean[d] = "yes" /\ Untouched(d)
    BY YesStays
  <2>1. clean[d] = "yes" /\ d # db
    BY <1>1 DEF RowsInv, StatusOK
  <2>2. \A t \in TablesOf(db) : DbOf(t) # d
    BY <2>1 DEF TablesOf
  <2>3. \A s \in Schemas : <<d, s>> \in djSchemas' <=> <<d, s>> \in djSchemas
    BY <1>1, <2>1
  <2> QED BY <1>1, <2>1, <2>2, <2>3, DeleteTablesUntouched
<1> QED BY <1>1, <1>2, <1>3, NoDatabase DEF RowsInv

\* A reflection begins with the schemas.
LEMMA ReflectSchemasAgrees ==
    ASSUME ReflectionInv, RowsInv', ReflectSchemasFromDatabase
    PROVE  SoFarOK' /\ CleanOK' /\ YesOK'
<1> USE DEF ReflectionInv
<1> DEFINE found == {<<db, s>> : s \in namespaces[db]}
           T == {t \in TablesOf(db) : SchemaOf(t) \notin found}
<1>1. /\ at = "schemas" /\ djSchemas' = {s \in djSchemas : s[1] # db} \union found
      /\ DeleteTables(T) /\ GoTo("tables") /\ UNCHANGED <<namespaces, pg, up>>
      /\ clean' = [clean EXCEPT ![db] = "so_far"] /\ db \in Databases
  BY DEF ReflectSchemasFromDatabase, Answered, RowsInv, WorkerOK, userDatabases
<1>2. SoFarOK'
  <2>1. \A d \in Databases : clean'[d] = "so_far" => d = db
    BY <1>1 DEF SoFarOK, Reflecting
  <2> QED BY <1>1, <2>1 DEF SoFarOK, AgreeUpTo, GoTo, Reflecting
<1>3. CleanOK'
  <2>1. request = None \/ request.kind # "create"
    BY <1>1 DEF RowsInv, WorkerOK, RequestOK
  <2> QED BY <1>1, <2>1 DEF CleanOK, GoTo, Reflecting, Creating, RowsInv, StatusOK
<1>4. YesOK'
  <2> SUFFICES ASSUME NEW d \in Databases, clean'[d] = "yes"
               PROVE  clean[d] = "yes" /\ Untouched(d)
    BY YesStays
  <2>1. clean[d] = "yes" /\ d # db
    BY <1>1 DEF RowsInv, StatusOK
  <2>2. \A t \in T : DbOf(t) # d
    BY <2>1 DEF TablesOf
  <2>3. \A s \in Schemas : <<d, s>> \in djSchemas' <=> <<d, s>> \in djSchemas
    BY <1>1, <2>1
  <2> HIDE DEF T
  <2> QED BY <1>1, <2>1, <2>2, <2>3, DeleteTablesUntouched
<1> QED BY <1>2, <1>3, <1>4

\* The tables found are those of the catalog in known schemas.
LEMMA ReflectTablesAgrees ==
    ASSUME ReflectionInv, RowsInv', ReflectTablesFromSchemas
    PROVE  SoFarOK' /\ CleanOK' /\ YesOK'
<1> USE DEF ReflectionInv
<1>1. /\ at = "tables" /\ scope' = Found(db) /\ djTables' = djTables \union scope'
      /\ GoTo("settings") /\ db \in Databases
      /\ UNCHANGED <<namespaces, pg, djSchemas, djColumns, djConstraints, djSettings, clean>>
  BY DEF ReflectTablesFromSchemas, Answered, Found, RowsInv, WorkerOK, userDatabases
<1>2. \A d : Found(d)' = Found(d)
  BY <1>1 DEF Found, CatalogTables
<1>3. SoFarOK'
  BY <1>1, <1>2 DEF SoFarOK, AgreeUpTo, GoTo, Reflecting
<1>4. CleanOK'
  BY <1>1 DEF CleanOK, GoTo, Reflecting, Creating
<1>5. YesOK'
  <2> SUFFICES ASSUME NEW d \in Databases, clean'[d] = "yes"
               PROVE  clean[d] = "yes" /\ Untouched(d)
    BY YesStays
  <2>1. clean[d] = "yes" /\ d # db
    BY <1>1 DEF CleanOK, Reflecting
  <2>2. \A t \in Found(db) : DbOf(t) = db
    BY <1>1, CatalogTablesTyped DEF Found, RowsInv
  <2> QED BY <1>1, <2>1, <2>2 DEF Untouched
<1> QED BY <1>3, <1>4, <1>5

\* Every table that is known has settings from here on.
LEMMA CreateTableSettingsAgrees ==
    ASSUME ReflectionInv, RowsInv', CreateTableSettings PROVE SoFarOK' /\ CleanOK' /\ YesOK'
<1> USE DEF ReflectionInv
<1>1. /\ at = "settings" /\ DOMAIN djSettings' = djTables /\ GoTo("stale")
      /\ \A t \in djTables : t \in DOMAIN djSettings => djSettings'[t] = djSettings[t]
      /\ UNCHANGED <<scope, namespaces, pg, djSchemas, djTables, djColumns,
                     djConstraints, clean>>
  BY DEF CreateTableSettings, userDatabases
<1>2. \A d : Found(d)' = Found(d) /\ TablesOf(d)' = TablesOf(d)
  BY <1>1 DEF Found, CatalogTables, TablesOf
<1>3. SoFarOK'
  <2> SUFFICES ASSUME NEW d \in Databases, clean'[d] = "so_far"
               PROVE  d = db /\ TablesOf(d) \subseteq DOMAIN djSettings' /\ scope' = Found(d)
    BY <1>1, <1>2 DEF SoFarOK, AgreeUpTo, GoTo, Reflecting
  <2>1. d = db /\ AgreeUpTo(d, "settings")
    BY <1>1 DEF SoFarOK
  <2> QED BY <1>1, <2>1 DEF AgreeUpTo, TablesOf, Reflecting
<1>4. CleanOK'
  BY <1>1 DEF CleanOK, GoTo, Reflecting, Creating
<1>5. YesOK'
  <2>1. DOMAIN djSettings \subseteq djTables
    BY DEF RowsInv, RowsOK
  <2>2. \A d \in Databases : Untouched(d)
    BY <1>1, <2>1 DEF Untouched
  <2> QED BY <1>1, <2>2, YesStays
<1> QED BY <1>3, <1>4, <1>5

\* The tables that are known are those found from here on.
LEMMA DeleteStaleTablesAgrees ==
    ASSUME ReflectionInv, RowsInv', DeleteStaleTables PROVE SoFarOK' /\ CleanOK' /\ YesOK'
<1> USE DEF ReflectionInv
<1>1. /\ at = "stale" /\ DeleteTables(TablesOf(db) \ scope) /\ GoTo("columns")
      /\ UNCHANGED <<scope, namespaces, pg, djSchemas, clean>>
  BY DEF DeleteStaleTables, userDatabases
<1>2. \A d : Found(d)' = Found(d)
  BY <1>1 DEF Found, CatalogTables
<1>3. SoFarOK'
  <2> SUFFICES ASSUME NEW d \in Databases, clean'[d] = "so_far"
               PROVE  /\ d = db /\ scope = Found(d)
                      /\ TablesOf(d)' = Found(d) /\ TablesOf(d)' \subseteq DOMAIN djSettings'
    BY <1>1, <1>2 DEF SoFarOK, AgreeUpTo, GoTo, Reflecting
  <2>1. d = db /\ scope = Found(d) /\ TablesOf(d) \subseteq DOMAIN djSettings
    BY <1>1 DEF SoFarOK, AgreeUpTo, Reflecting
  <2>2. scope \subseteq TablesOf(d)
    BY <1>1, <2>1 DEF RowsInv, WorkerOK, TablesOf
  <2>3. TablesOf(d)' = scope
    BY <1>1, <2>1, <2>2 DEF TablesOf, DeleteTables
  <2>4. TablesOf(d)' \subseteq DOMAIN djSettings'
    BY <1>1, <2>1, <2>2, <2>3 DEF DeleteTables, RestrictDomain, Restrict
  <2> QED BY <2>1, <2>3, <2>4
<1>4. CleanOK'
  <2>1. request = None \/ request.kind # "create"
    BY <1>1 DEF RowsInv, WorkerOK, RequestOK
  <2> QED BY <1>1, <2>1 DEF CleanOK, GoTo, Reflecting, Creating
<1>5. YesOK'
  <2> SUFFICES ASSUME NEW d \in Databases, clean'[d] = "yes"
               PROVE  clean[d] = "yes" /\ Untouched(d)
    BY YesStays
  <2>1. clean[d] = "yes" /\ d # db
    BY <1>1 DEF CleanOK, Reflecting
  <2>2. \A t \in TablesOf(db) \ scope : DbOf(t) # d
    BY <2>1 DEF TablesOf
  <2> QED BY <1>1, <2>1, <2>2, DeleteTablesUntouched
<1> QED BY <1>3, <1>4, <1>5

\* The tables found have the columns of the catalog from here on.
LEMMA ReflectColumnsAgrees ==
    ASSUME ReflectionInv, RowsInv', ReflectColumnsFromTables
    PROVE  SoFarOK' /\ CleanOK' /\ YesOK'
<1> USE DEF ReflectionInv
<1> DEFINE kept == {c \in DOMAIN djColumns : c[1] \notin scope}
           live == {c \in scope \X Attnums : c[2] \in LiveAttnums(c[1])}
<1>1. /\ at = "columns" /\ DOMAIN djColumns' = kept \union live
      /\ \A c \in kept : djColumns'[c] = djColumns[c]
      /\ GoTo("templates") /\ db \in Databases
      /\ UNCHANGED <<scope, namespaces, pg, djSchemas, djTables, djConstraints,
                     djSettings, clean>>
  BY DEF ReflectColumnsFromTables, Answered, userDatabases, RowsInv, WorkerOK
<1>2. \A d : /\ Found(d)' = Found(d) /\ TablesOf(d)' = TablesOf(d)
             /\ \A t : LiveAttnums(t)' = LiveAttnums(t)
  BY <1>1 DEF Found, CatalogTables, TablesOf, LiveAttnums
<1>3. SoFarOK'
  <2> SUFFICES ASSUME NEW d \in Databases, clean'[d] = "so_far"
               PROVE  /\ d = db /\ scope = Found(d) /\ TablesOf(d) = Found(d)
                      /\ TablesOf(d) \subseteq DOMAIN djSettings
                      /\ \A t \in TablesOf(d) : RowsOf(t)' = LiveAttnums(t)
    BY <1>1, <1>2 DEF SoFarOK, AgreeUpTo, ColumnsAgree, GoTo, Reflecting
  <2>1. /\ d = db /\ scope = Found(d) /\ TablesOf(d) = Found(d)
        /\ TablesOf(d) \subseteq DOMAIN djSettings
    BY <1>1 DEF SoFarOK, AgreeUpTo, Reflecting
  <2>2. ASSUME NEW t \in TablesOf(d) PROVE RowsOf(t)' = LiveAttnums(t)
    <3>1. t \in scope /\ LiveAttnums(t) \subseteq Attnums
      BY <2>1, LiveAttnumsTyped DEF RowsInv, WorkerOK, TablesOf
    <3>2. \A a \in Attnums : <<t, a>> \in kept \union live <=> a \in LiveAttnums(t)
      BY <3>1
    <3> HIDE DEF kept, live
    <3> QED BY <1>1, <3>1, <3>2 DEF RowsOf
  <2> QED BY <2>1, <2>2
<1>4. CleanOK'
  BY <1>1 DEF CleanOK, GoTo, Reflecting, Creating
<1>5. YesOK'
  <2> SUFFICES ASSUME NEW d \in Databases, clean'[d] = "yes"
               PROVE  clean[d] = "yes" /\ Untouched(d)
    BY YesStays
  <2>1. clean[d] = "yes" /\ d # db
    BY <1>1 DEF CleanOK, Reflecting
  <2>2. \A t \in scope : DbOf(t) # d
    BY <2>1 DEF RowsInv, WorkerOK
  <2>3. \A t : DbOf(t) = d => \A a \in Attnums :
            <<t, a>> \in DOMAIN djColumns' <=> <<t, a>> \in DOMAIN djColumns
    BY <1>1, <2>2
  <2>4. \A t : DbOf(t) = d => \A a \in Attnums :
            <<t, a>> \in DOMAIN djColumns => djColumns'[<<t, a>>] = djColumns[<<t, a>>]
    BY <1>1, <2>2
  <2> QED BY <1>1, <2>1, <2>3, <2>4 DEF Untouched
<1> QED BY <1>3, <1>4, <1>5

\* What a preview shows is one of the columns looked among, or nothing.
LEMMA PreviewColumnShown ==
    ASSUME NEW t, NEW S \in SUBSET Attnums PROVE PreviewColumn(t, S) \in S \union {0}
<1> DEFINE shown == {a \in LookedAt(t, S) : ~IsKey(t, a)} \union {0}
<1>1. shown \subseteq S \union {0} /\ S \union {0} \in SUBSET (0 .. MaxAttnum)
  BY ReflectionAssumption DEF LookedAt, Attnums
<1>2. MaxAttnum \in Nat
  BY ReflectionAssumption
<1>3. Max(shown) \in shown
  <2>1. shown \in SUBSET (0 .. MaxAttnum) /\ shown # {}
    BY <1>1
  <2> HIDE DEF shown
  <2> QED BY <1>2, <2>1, LargestIsThere
<1>4. Max(S \union {0}) \in S \union {0}
  BY <1>1, <1>2, LargestIsThere
<1>5. PreviewColumn(t, S) = IF shown # {0} THEN Max(shown) ELSE Max(S \union {0})
  BY DEF PreviewColumn
<1> HIDE DEF shown
<1> QED BY <1>1, <1>3, <1>4, <1>5

\* Previews show columns that are there, from here on.
LEMMA SetDefaultPreviewAgrees ==
    ASSUME ReflectionInv, RowsInv', SetDefaultPreviewTemplate
    PROVE  SoFarOK' /\ CleanOK' /\ YesOK'
<1> USE DEF ReflectionInv
<1>1. /\ at = "templates" /\ db \in Databases
      /\ UNCHANGED <<namespaces, pg, djSchemas, djTables, djColumns, djConstraints>>
  BY DEF SetDefaultPreviewTemplate, Answered, userDatabases, RowsInv, WorkerOK
<1>2. CASE Reply /\ clean' = [clean EXCEPT ![db] = "no"] /\ UNCHANGED djSettings
  <2>1. \A d \in Databases : clean'[d] # "so_far"
    BY <1>1, <1>2 DEF SoFarOK, RowsInv, StatusOK
  <2>2. \A d \in Databases : clean'[d] = "yes" => clean[d] = "yes" /\ Untouched(d)
    BY <1>1, <1>2, RowsUntouched DEF RowsInv, StatusOK, rows
  <2> QED BY <1>2, <2>1, <2>2, YesStays, NoDatabase DEF SoFarOK, RowsInv
<1>3. CASE /\ djSettings' = [t \in DOMAIN djSettings |->
                                IF t \in scope /\ Follows(t)
                                THEN Preview(PreviewColumn(t, RowsOf(t)))
                                ELSE djSettings[t]]
           /\ GoTo("options") /\ UNCHANGED <<scope, clean>>
  <2>1. \A d : /\ Found(d)' = Found(d) /\ TablesOf(d)' = TablesOf(d)
               /\ \A t : LiveAttnums(t)' = LiveAttnums(t) /\ RowsOf(t)' = RowsOf(t)
    BY <1>1 DEF Found, CatalogTables, TablesOf, LiveAttnums, RowsOf
  <2>2. SoFarOK'
    <3> SUFFICES ASSUME NEW d \in Databases, clean'[d] = "so_far"
                 PROVE  /\ d = db /\ scope = Found(d) /\ TablesOf(d) = Found(d)
                        /\ TablesOf(d) \subseteq DOMAIN djSettings'
                        /\ \A t \in TablesOf(d) : RowsOf(t) = LiveAttnums(t)
                        /\ \A t \in TablesOf(d) :
                              ~djSettings'[t].customized =>
                                  djSettings'[t].column \in RowsOf(t) \union {0}
      BY <1>3, <2>1 DEF SoFarOK, AgreeUpTo, ColumnsAgree, PreviewsAgree, Follows, GoTo,
                             Reflecting
    <3>1. /\ d = db /\ scope = Found(d) /\ TablesOf(d) = Found(d)
          /\ TablesOf(d) \subseteq DOMAIN djSettings /\ ColumnsAgree(d)
      BY <1>1, <1>3 DEF SoFarOK, AgreeUpTo, Reflecting
    <3>2. ASSUME NEW t \in TablesOf(d), ~djSettings'[t].customized
          PROVE  djSettings'[t].column \in RowsOf(t) \union {0}
      <4>1. Follows(t)
        BY <1>3, <3>1, <3>2 DEF Follows
      <4>2. djSettings'[t].column = PreviewColumn(t, RowsOf(t))
        BY <1>3, <3>1, <4>1 DEF Preview
      <4> QED BY <4>2, PreviewColumnShown DEF RowsOf
    <3> QED BY <1>3, <3>1, <3>2 DEF ColumnsAgree
  <2>3. CleanOK'
    BY <1>1, <1>3 DEF CleanOK, GoTo, Reflecting, Creating
  <2>4. YesOK'
    <3> SUFFICES ASSUME NEW d \in Databases, clean'[d] = "yes"
                 PROVE  clean[d] = "yes" /\ Untouched(d)
      BY YesStays
    <3>1. clean[d] = "yes" /\ d # db
      BY <1>1, <1>3 DEF CleanOK, Reflecting
    <3>2. \A t \in scope : DbOf(t) # d
      BY <3>1 DEF RowsInv, WorkerOK
    <3>3. \A t : DbOf(t) = d /\ t \in DOMAIN djSettings =>
              t \in DOMAIN djSettings' /\ djSettings'[t] = djSettings[t]
      BY <1>3, <3>2
    <3> QED BY <1>1, <3>1, <3>3 DEF Untouched
  <2> QED BY <2>2, <2>3, <2>4
<1> QED BY <1>2, <1>3 DEF SetDefaultPreviewTemplate

\* Options are those of a column's type, from here on.
LEMMA InvalidateAgrees ==
    ASSUME ReflectionInv, RowsInv', InvalidateColumnsWithIncorrectDisplayOptions
    PROVE  SoFarOK' /\ CleanOK' /\ YesOK'
<1> USE DEF ReflectionInv
<1>1. /\ at = "options" /\ db \in Databases
      /\ UNCHANGED <<namespaces, pg, djSchemas, djTables, djConstraints, djSettings>>
  BY DEF InvalidateColumnsWithIncorrectDisplayOptions, Answered, userDatabases,
         RowsInv, WorkerOK
<1>2. CASE Reply /\ clean' = [clean EXCEPT ![db] = "no"] /\ UNCHANGED djColumns
  <2>1. \A d \in Databases : clean'[d] # "so_far"
    BY <1>1, <1>2 DEF SoFarOK, RowsInv, StatusOK
  <2>2. \A d \in Databases : clean'[d] = "yes" => clean[d] = "yes" /\ Untouched(d)
    BY <1>1, <1>2, RowsUntouched DEF RowsInv, StatusOK, rows
  <2> QED BY <1>2, <2>1, <2>2, YesStays, NoDatabase DEF SoFarOK, RowsInv
<1>3. CASE /\ djColumns' = [c \in DOMAIN djColumns |->
                   IF c \in WithOptions /\ CatalogColumn(c).type # djColumns[c]
                   THEN None ELSE djColumns[c]]
           /\ IF request # None /\ request.kind = "create"
              THEN Reply ELSE GoTo("constraints") /\ UNCHANGED scope
           /\ UNCHANGED clean
  <2>1. \A d : /\ Found(d)' = Found(d) /\ TablesOf(d)' = TablesOf(d)
               /\ \A t : LiveAttnums(t)' = LiveAttnums(t) /\ RowsOf(t)' = RowsOf(t)
               /\ \A c : CatalogColumn(c)' = CatalogColumn(c)
    BY <1>1, <1>3 DEF Found, CatalogTables, TablesOf, LiveAttnums, RowsOf, CatalogColumn
  <2>2. YesOK'
    <3> SUFFICES ASSUME NEW d \in Databases, clean'[d] = "yes"
                 PROVE  clean[d] = "yes" /\ Untouched(d)
      BY YesStays
    <3>1. clean[d] = "yes" /\ d # db
      BY <1>1, <1>3 DEF CleanOK, Reflecting
    <3>2. \A c \in WithOptions : DbOf(c[1]) # d
      BY <3>1 DEF RowsInv, WorkerOK, WithOptions
    <3>3. DOMAIN djColumns' = DOMAIN djColumns
          /\ \A c \in DOMAIN djColumns : DbOf(c[1]) = d => djColumns'[c] = djColumns[c]
      BY <1>3, <3>2
    <3> QED BY <1>1, <3>1, <3>3 DEF Untouched
  <2>3. CASE request # None /\ request.kind = "create"
    <3>1. Reply /\ clean[db] = "no"
      BY <1>3, <2>3 DEF CleanOK
    <3>2. SoFarOK'
      BY <1>3, <3>1 DEF SoFarOK
    <3> QED BY <2>2, <3>1, <3>2, NoDatabase DEF RowsInv
  <2>4. CASE ~(request # None /\ request.kind = "create")
    <3>1. GoTo("constraints") /\ UNCHANGED scope
      BY <1>3, <2>4
    <3>2. SoFarOK'
      <4> SUFFICES ASSUME NEW d \in Databases, clean'[d] = "so_far"
                   PROVE  d = db /\ AgreeUpTo(d, "options") /\ OptionsAgree(d)'
        BY <1>1, <2>1, <3>1 DEF SoFarOK, AgreeUpTo, ColumnsAgree, PreviewsAgree, Follows,
                               GoTo, Reflecting
      <4>1. d = db /\ AgreeUpTo(d, "options")
        BY <1>1, <1>3 DEF SoFarOK
      <4>2. TablesOf(d) = scope
        BY <4>1 DEF AgreeUpTo, Reflecting
      <4>3. ASSUME NEW t \in TablesOf(d), NEW a \in RowsOf(t)
            PROVE  djColumns'[<<t, a>>] \in {None, CatalogColumn(<<t, a>>).type}
        <5>1. <<t, a>> \in DOMAIN djColumns /\ <<t, a>>[1] \in scope
          BY <4>2 DEF RowsOf
        <5>2. <<t, a>> \in WithOptions <=> djColumns[<<t, a>>] # None
          BY <5>1 DEF WithOptions
        <5> QED BY <1>3, <5>1, <5>2
      <4> QED BY <2>1, <4>1, <4>3 DEF OptionsAgree
    <3>3. CleanOK'
      BY <1>1, <1>3, <3>1 DEF CleanOK, GoTo, Reflecting, Creating
    <3> QED BY <2>2, <3>2, <3>3
  <2> QED BY <2>3, <2>4
<1> QED BY <1>2, <1>3 DEF InvalidateColumnsWithIncorrectDisplayOptions

\* A reflection nobody has disturbed ends with rows that agree in everything.
LEMMA ReflectConstraintsAgrees ==
    ASSUME ReflectionInv, RowsInv', ReflectConstraintsFromDatabase
    PROVE  SoFarOK' /\ CleanOK' /\ YesOK'
<1> USE DEF ReflectionInv
<1> DEFINE found == CatalogConstraints(db)
           new == {k \in djTables \X (1 .. MaxConstraint) : <<OidOf(k[1]), k[2]>> \in found}
<1>1. /\ at = "constraints" /\ NextDatabase /\ db \in Databases
      /\ djConstraints' = {k \in djConstraints \union new :
                               DbOf(k[1]) = db => <<OidOf(k[1]), k[2]>> \in found}
      /\ clean' = [clean EXCEPT ![db] = IF clean[db] = "so_far" THEN "yes" ELSE "no"]
      /\ UNCHANGED <<namespaces, pg, djSchemas, djTables, djColumns, djSettings>>
  BY DEF ReflectConstraintsFromDatabase, Answered, userDatabases, RowsInv, WorkerOK
<1>2. \A d \in Databases : clean'[d] # "so_far"
  BY <1>1 DEF SoFarOK, RowsInv, StatusOK
<1>3. ASSUME NEW d \in Databases, clean'[d] = "yes", d # db PROVE Agree(d)'
  <2>1. Agree(d)
    BY <1>1, <1>3 DEF YesOK, RowsInv, StatusOK
  <2>2. Untouched(d)
    <3>1. \A k \in djConstraints : DbOf(k[1]) # db => k \in djConstraints'
      BY <1>1
    <3>2. \A t : DbOf(t) = d => \A k : <<t, k>> \in djConstraints => <<t, k>> \in djConstraints'
      BY <1>3, <3>1
    <3> QED BY <1>1, <3>2 DEF Untouched
  <2> QED BY <2>1, <2>2, AgreeStays
<1>4. ASSUME NEW d \in Databases, clean'[d] = "yes", d = db PROVE Agree(d)'
  <2>1. AgreeUpTo(d, "constraints")
    BY <1>1, <1>4 DEF SoFarOK, RowsInv, StatusOK
  <2>2. /\ TablesOf(d) = Found(d) /\ TablesOf(d) \subseteq DOMAIN djSettings
        /\ ColumnsAgree(d) /\ PreviewsAgree(d) /\ OptionsAgree(d)
    BY <2>1 DEF AgreeUpTo, Reflecting
  <2>3. /\ Found(d)' = Found(d) /\ TablesOf(d)' = TablesOf(d)
        /\ \A t : LiveAttnums(t)' = LiveAttnums(t) /\ RowsOf(t)' = RowsOf(t)
        /\ \A c : CatalogColumn(c)' = CatalogColumn(c)
    BY <1>1 DEF Found, CatalogTables, TablesOf, LiveAttnums, RowsOf, CatalogColumn
  <2>4. ColumnsAgree(d)' /\ PreviewsAgree(d)' /\ OptionsAgree(d)'
    BY <1>1, <2>2, <2>3 DEF ColumnsAgree, PreviewsAgree, Follows, OptionsAgree
  <2>5. ASSUME NEW t \in TablesOf(d), NEW k \in pg[d][OidOf(t)].constraints
        PROVE  <<t, k>> \in djConstraints'
    <3>1. t \in djTables /\ DbOf(t) = db /\ OidOf(t) \in DOMAIN pg[db]
      BY <1>4, <2>2, CatalogTablesTyped DEF TablesOf, Found, RowsInv
    <3>2. k \in 1 .. MaxConstraint
      BY <1>4, <3>1 DEF RowsInv, CatalogOK, TableOK
    <3>3. <<OidOf(t), k>> \in found
      BY <1>4, <3>1, <3>2 DEF CatalogConstraints
    <3>4. <<t, k>> \in new
      BY <3>1, <3>2, <3>3
    <3> HIDE DEF found, new
    <3> QED BY <1>1, <3>3, <3>4
  <2> QED BY <1>1, <2>2, <2>3, <2>4, <2>5 DEF Agree, ConstraintsAgree
<1> QED BY <1>1, <1>2, <1>3, <1>4, NoDatabase DEF SoFarOK, YesOK, RowsInv

\* A database whose options are saved does not count as reflected any more.
LEMMA SaveOptionsAgrees ==
    ASSUME ReflectionInv, RowsInv', SaveOptions PROVE SoFarOK' /\ CleanOK' /\ YesOK'
<1> USE DEF ReflectionInv
<1> DEFINE c == request.row
<1>1. at = "save" /\ Reply /\ UNCHANGED <<namespaces, pg, djSchemas, djTables, djConstraints>>
  BY DEF SaveOptions, userDatabases
<1>2. \/ UNCHANGED <<djColumns, djSettings, clean>>
      \/ /\ clean' = [clean EXCEPT ![DbOf(c[1])] = "no"]
         /\ djColumns' = [x \in DOMAIN djColumns \union {c} |->
                            IF x = c THEN request.options ELSE djColumns[x]]
         /\ DOMAIN djSettings' = DOMAIN djSettings
         /\ \A t \in DOMAIN djSettings : t # c[1] => djSettings'[t] = djSettings[t]
  BY DEF SaveOptions, SaveTo, Touched
<1>3. SoFarOK'
  BY <1>1, <1>2, NothingSoFar DEF Reflecting, RowsInv, StatusOK
<1>4. YesOK'
  <2> SUFFICES ASSUME NEW d \in Databases, clean'[d] = "yes"
               PROVE  clean[d] = "yes" /\ Untouched(d)
    BY YesStays
  <2>1. CASE UNCHANGED <<djColumns, djSettings, clean>>
    BY <1>1, <2>1 DEF Untouched
  <2>2. CASE /\ clean' = [clean EXCEPT ![DbOf(c[1])] = "no"]
             /\ djColumns' = [x \in DOMAIN djColumns \union {c} |->
                            IF x = c THEN request.options ELSE djColumns[x]]
             /\ DOMAIN djSettings' = DOMAIN djSettings
             /\ \A t \in DOMAIN djSettings : t # c[1] => djSettings'[t] = djSettings[t]
    <3>1. clean[d] = "yes" /\ d # DbOf(c[1])
      BY <2>2 DEF RowsInv, StatusOK
    <3> HIDE DEF c
    <3>2. \A t : DbOf(t) = d => t # c[1] /\ \A a : <<t, a>> # c
      BY <3>1
    <3> QED BY <1>1, <2>2, <3>1, <3>2 DEF Untouched
  <2> QED BY <1>2, <2>1, <2>2
<1> QED BY <1>1, <1>3, <1>4, NoDatabase DEF RowsInv

\* A table is registered in a database that does not count as reflected.
LEMMA RegisterTableAgrees ==
    ASSUME ReflectionInv, RowsInv', RegisterTable PROVE SoFarOK' /\ CleanOK' /\ YesOK'
<1> USE DEF ReflectionInv
<1>1. /\ at = "register" /\ clean[db] = "no" /\ UNCHANGED <<namespaces, pg, clean>>
      /\ \A t \in scope : DbOf(t) = db
  BY DEF RegisterTable, Answered, userDatabases, CleanOK, Creating, RowsInv, WorkerOK
<1>2. SoFarOK'
  BY <1>1, NothingSoFar DEF Reflecting
<1>3. CASE Reply /\ UNCHANGED rows
  BY <1>1, <1>2, <1>3, YesStays, RowsUntouched, NoDatabase DEF RowsInv
<1>4. ASSUME NEW t \in scope,
             djTables' = djTables \union {t}, djConstraints \subseteq djConstraints',
             djSettings' = [x \in DOMAIN djSettings \union {t} |->
                               IF x \in DOMAIN djSettings THEN djSettings[x] ELSE Preview(0)],
             \E step \in {"columns", "rows"} : GoTo(step),
             UNCHANGED <<scope, djSchemas, djColumns>>
      PROVE  CleanOK' /\ YesOK'
  <2>1. CleanOK'
    BY <1>1, <1>4 DEF CleanOK, GoTo
  <2>2. \A d \in Databases : clean'[d] = "yes" => d # db /\ Untouched(d)
    BY <1>1, <1>4 DEF Untouched
  <2> QED BY <1>1, <2>1, <2>2, YesStays
<1>5. \/ Reply /\ UNCHANGED rows
      \/ \E t \in scope :
           /\ djTables' = djTables \union {t} /\ djConstraints \subseteq djConstraints'
           /\ djSettings' = [x \in DOMAIN djSettings \union {t} |->
                               IF x \in DOMAIN djSettings THEN djSettings[x] ELSE Preview(0)]
           /\ \E step \in {"columns", "rows"} : GoTo(step)
           /\ UNCHANGED <<scope, djSchemas, djColumns>>
  BY DEF RegisterTable
<1> QED BY <1>2, <1>3, <1>4, <1>5

\* Columns move in a database that does not count as reflected.
LEMMA MoveDataAgrees ==
    ASSUME ReflectionInv, RowsInv', MoveData PROVE SoFarOK' /\ CleanOK' /\ YesOK'
<1> USE DEF ReflectionInv
<1>1. /\ at = "move" /\ db \in Databases /\ clean' = [clean EXCEPT ![db] = "no"]
      /\ UNCHANGED rows /\ \A d \in Databases \ {db} : pg'[d] = pg[d]
      /\ Reply \/ GoTo("rows")
  BY DEF MoveData, Touched, RowsInv, WorkerOK, CatalogOK
<1>2. SoFarOK'
  BY <1>1, NothingSoFar DEF Reflecting, RowsInv, StatusOK
<1>3. CleanOK'
  BY <1>1, NoDatabase DEF CleanOK, GoTo, Reflecting, Creating, RowsInv, StatusOK
<1>4. \A d \in Databases : clean'[d] = "yes" => clean[d] = "yes" /\ Untouched(d)
  BY <1>1, RowsUntouched DEF RowsInv, StatusOK
<1> QED BY <1>2, <1>3, <1>4, YesStays

\* The rows that follow their names are all of one database.
LEMMA UpdateColumnReferenceAgrees ==
    ASSUME ReflectionInv, RowsInv', UpdateColumnReference
    PROVE  SoFarOK' /\ CleanOK' /\ YesOK'
<1> USE DEF ReflectionInv
<1>1. /\ at = "rows" /\ clean[db] = "no" /\ at' = "status" /\ request' = None
      /\ \A m \in request.moved : DbOf(m[1][1]) = db
      /\ \A t \in scope : DbOf(t) = db
      /\ UNCHANGED <<namespaces, pg, djSchemas, djTables, djConstraints, djSettings, clean>>
  BY DEF UpdateColumnReference, Answered, userDatabases, CleanOK, Creating, RowsInv,
         WorkerOK, RequestOK, Reflecting
<1>2. PICK t \in scope :
       LET place(m) == {a \in LiveAttnums(t) : CatalogColumn(<<t, a>>).name = m[2]}
           found == {m \in request.moved : place(m) # {}}
           to(m) == <<t, CHOOSE a \in place(m) : TRUE>>
           gone == {m[1] : m \in found}
           back(c) == CHOOSE m \in found : to(m) = c
           come == {to(m) : m \in found}
       IN  djColumns' = [c \in (DOMAIN djColumns \ gone) \union come |->
                            IF c \in come THEN djColumns[back(c)[1]] ELSE djColumns[c]]
  BY DEF UpdateColumnReference
<1> DEFINE place(m) == {a \in LiveAttnums(t) : CatalogColumn(<<t, a>>).name = m[2]}
           found == {m \in request.moved : place(m) # {}}
           gone == {m[1] : m \in found}
           chosen(m) == CHOOSE a \in place(m) : TRUE
           come == {<<t, chosen(m)>> : m \in found}
           back(c) == CHOOSE m \in found : <<t, chosen(m)>> = c
<1>3. djColumns' = [c \in (DOMAIN djColumns \ gone) \union come |->
                        IF c \in come THEN djColumns[back(c)[1]] ELSE djColumns[c]]
  BY <1>2
<1>4. \A c \in gone \union come : DbOf(c[1]) = db
  <2>1. \A m \in found : DbOf(m[1][1]) = db
    BY <1>1
  <2> HIDE DEF found, chosen
  <2> QED BY <1>1, <1>2, <2>1
<1> HIDE DEF gone, come, back
<1>5. ASSUME NEW c, DbOf(c[1]) # db
      PROVE  /\ c \in DOMAIN djColumns' <=> c \in DOMAIN djColumns
             /\ c \in DOMAIN djColumns => djColumns'[c] = djColumns[c]
  BY <1>3, <1>4, <1>5
<1>6. SoFarOK'
  BY <1>1, NothingSoFar DEF Reflecting
<1>7. CleanOK'
  BY <1>1 DEF CleanOK, Reflecting, Creating
<1>8. \A d \in Databases : clean'[d] = "yes" => d # db /\ Untouched(d)
  BY <1>1, <1>5 DEF Untouched
<1> QED BY <1>1, <1>6, <1>7, <1>8, YesStays

-----------------------------------------------------------------------------
(***************************************************************************)
(* Rows agree with the catalog: the others, and the requests.              *)
(***************************************************************************)
\* A database that others change does not count as reflected any more, nor does its
\* reflection count; the others are what they were.
LEMMA OthersAgree ==
    ASSUME ReflectionInv, RowsInv', NEW e \in Databases, OthersChangeDatabase(e)
    PROVE  SoFarOK' /\ CleanOK' /\ YesOK'
<1> USE DEF ReflectionInv
<1>1. /\ clean' = [clean EXCEPT ![e] = "no"]
      /\ UNCHANGED <<djSchemas, djTables, djColumns, djConstraints, djSettings>>
      /\ UNCHANGED <<at, db, scope, request>>
  BY DEF OthersChangeDatabase, Touched, rows, worker
<1>2. \A d \in Databases \ {e} : pg'[d] = pg[d]
  <2>1. (\E s \in namespaces[e] :
            /\ namespaces' = [namespaces EXCEPT ![e] = @ \ {s}]
            /\ pg' = [pg EXCEPT ![e] = RestrictValues(@, LAMBDA x : x.schema # s)])
           => \A d \in Databases \ {e} : pg'[d] = pg[d]
    BY DEF RowsInv, CatalogOK
  <2>3. CreateTable(e) => \A d \in Databases \ {e} : pg'[d] = pg[d]
    BY DEF CreateTable, SetTable, RowsInv, CatalogOK
  <2>4. DropTable(e) => \A d \in Databases \ {e} : pg'[d] = pg[d]
    BY DEF DropTable, RowsInv, CatalogOK
  <2>5. (\E o \in DOMAIN pg[e], n \in Names, y \in Types : AddColumn(e, o, n, y))
           => \A d \in Databases \ {e} : pg'[d] = pg[d]
    BY DEF AddColumn, RowsInv, CatalogOK
  <2>6. DropColumn(e) => \A d \in Databases \ {e} : pg'[d] = pg[d]
    BY DEF DropColumn, RowsInv, CatalogOK
  <2>7. AlterType(e) => \A d \in Databases \ {e} : pg'[d] = pg[d]
    BY DEF AlterType, RowsInv, CatalogOK
  <2>8. SetSchema(e) => \A d \in Databases \ {e} : pg'[d] = pg[d]
    BY DEF SetSchema, RowsInv, CatalogOK
  <2>9. (\E o \in DOMAIN pg[e], k \in 1 .. MaxConstraint : AddConstraint(e, o, k))
           => \A d \in Databases \ {e} : pg'[d] = pg[d]
    BY DEF AddConstraint, RowsInv, CatalogOK
  <2> QED BY <2>1, <2>3, <2>4, <2>5, <2>6, <2>7, <2>8, <2>9 DEF OthersChangeDatabase
<1>3. SoFarOK'
  <2> SUFFICES ASSUME NEW d \in Databases, clean'[d] = "so_far"
               PROVE  d = db /\ at \in Reflecting /\ AgreeUpTo(d, at)'
    BY <1>1 DEF SoFarOK
  <2>1. d # e /\ d = db /\ at \in Reflecting /\ AgreeUpTo(d, at)
    BY <1>1 DEF SoFarOK, RowsInv, StatusOK
  <2>2. /\ CatalogTables(d)' = CatalogTables(d)
        /\ \A t : DbOf(t) = d => LiveAttnums(t)' = LiveAttnums(t)
        /\ \A c : DbOf(c[1]) = d => CatalogColumn(c)' = CatalogColumn(c)
    BY <1>2, <2>1, SameCatalog
  <2>3. Found(d)' = Found(d) /\ TablesOf(d)' = TablesOf(d) /\ \A t : RowsOf(t)' = RowsOf(t)
    BY <1>1, <2>2 DEF Found, TablesOf, RowsOf
  <2>4. \A t \in TablesOf(d) : DbOf(t) = d
    BY DEF TablesOf
  <2>5. ColumnsAgree(d) => ColumnsAgree(d)'
    BY <2>2, <2>3, <2>4 DEF ColumnsAgree
  <2>6. PreviewsAgree(d) => PreviewsAgree(d)'
    BY <1>1, <2>3 DEF PreviewsAgree, Follows
  <2>7. OptionsAgree(d) => OptionsAgree(d)'
    <3> SUFFICES ASSUME OptionsAgree(d), NEW t \in TablesOf(d), NEW a \in RowsOf(t)
                 PROVE  djColumns'[<<t, a>>] \in {None, CatalogColumn(<<t, a>>).type}'
      BY <2>3 DEF OptionsAgree
    <3>1. CatalogColumn(<<t, a>>)' = CatalogColumn(<<t, a>>)
      BY <2>2, <2>4
    <3>2. djColumns[<<t, a>>] \in {None, CatalogColumn(<<t, a>>).type}
      BY DEF OptionsAgree
    <3> QED BY <1>1, <3>1, <3>2
  <2> QED BY <1>1, <2>1, <2>3, <2>5, <2>6, <2>7 DEF AgreeUpTo
<1>4. CleanOK'
  BY <1>1 DEF CleanOK, RowsInv, WorkerOK, StatusOK, Reflecting, Creating
<1>5. \A d \in Databases : clean'[d] = "yes" => clean[d] = "yes" /\ Untouched(d)
  BY <1>1, <1>2 DEF RowsInv, StatusOK, Untouched
<1> QED BY <1>3, <1>4, <1>5, YesStays

\* What leaves rows, catalog and worker alone leaves everything as it was.
LEMMA NothingChanges ==
    ASSUME ReflectionInv, RowsInv', UNCHANGED <<pg, rows, worker, clean>>
    PROVE  SoFarOK' /\ CleanOK' /\ YesOK'
<1> USE DEF ReflectionInv
<1>1. /\ UNCHANGED <<djSchemas, djTables, djColumns, djConstraints, djSettings>>
      /\ UNCHANGED <<at, db, scope, request, pg, clean>>
  BY DEF rows, worker
<1>2. SoFarOK' /\ CleanOK'
  BY <1>1 DEF SoFarOK, CleanOK, AgreeUpTo, Found, CatalogTables, TablesOf, ColumnsAgree,
              PreviewsAgree, Follows, OptionsAgree, RowsOf, LiveAttnums, CatalogColumn
<1>3. \A d \in Databases : clean'[d] = "yes" => clean[d] = "yes" /\ Untouched(d)
  BY <1>1 DEF Untouched
<1> QED BY <1>2, <1>3, YesStays

\* After a restart no reflection counts that was not completed.
LEMMA RestartAgrees ==
    ASSUME ReflectionInv, RowsInv', Restart PROVE SoFarOK' /\ CleanOK' /\ YesOK'
<1> USE DEF ReflectionInv
<1>1. /\ at' = "idle" /\ request' = None /\ UNCHANGED <<pg, rows>>
      /\ clean' = [d \in Databases |-> IF clean[d] = "so_far" THEN "no" ELSE clean[d]]
  BY DEF Restart, userDatabases
<1>2. SoFarOK' /\ CleanOK'
  BY <1>1 DEF SoFarOK, CleanOK, Reflecting, Creating
<1>3. \A d \in Databases : clean'[d] = "yes" => clean[d] = "yes" /\ Untouched(d)
  BY <1>1, RowsUntouched
<1> QED BY <1>2, <1>3, YesStays

\* A request finds nothing being reflected; what it does to a database, and to the
\* rows of it, it does to one that does not count as reflected after it.
LEMMA RequestAgrees ==
    ASSUME ReflectionInv, RowsInv', NEW e \in Databases, at = "idle",
           clean' = [clean EXCEPT ![e] = "no"],
           \A d \in Databases \ {e} : pg'[d] = pg[d],
           UNCHANGED <<djSchemas, djTables, djColumns, djSettings>>,
           \A k \in djConstraints : DbOf(k[1]) # e => k \in djConstraints',
           \/ at' = "status" /\ (request' = None \/ request'.kind # "create")
           \/ at' \in {"register", "move"} /\ db' = e
    PROVE  SoFarOK' /\ CleanOK' /\ YesOK'
<1> USE DEF ReflectionInv
<1>1. SoFarOK' /\ CleanOK'
  BY DEF SoFarOK, CleanOK, Reflecting, Creating, RowsInv, StatusOK
<1>2. ASSUME NEW d \in Databases, clean'[d] = "yes" PROVE clean[d] = "yes" /\ Untouched(d)
  <2>1. clean[d] = "yes" /\ d # e
    BY <1>2 DEF RowsInv, StatusOK
  <2>2. \A t : DbOf(t) = d => \A k : <<t, k>> \in djConstraints => <<t, k>> \in djConstraints'
    BY <2>1
  <2> QED BY <2>1, <2>2 DEF Untouched
<1> QED BY <1>1, <1>2, YesStays

\* New settings count as a change of the database they are about.
LEMMA ChangeSettingsAgrees ==
    ASSUME ReflectionInv, RowsInv', NEW t \in djTables,
           (\E a \in Attnums : CustomizePreview(t, a)) \/ ResetPreview(t)
    PROVE  SoFarOK' /\ CleanOK' /\ YesOK'
<1> USE DEF ReflectionInv
<1>1. ChangeSettings(t)
  BY DEF CustomizePreview, ResetPreview
<1>2. /\ UNCHANGED <<pg, djSchemas, djTables, djColumns, djConstraints>>
      /\ UNCHANGED <<at, db, request>>
      /\ at = "idle" /\ clean' = [clean EXCEPT ![DbOf(t)] = "no"] /\ DbOf(t) \in Databases
  BY <1>1 DEF ChangeSettings, Request, Touched, userDatabases, worker, RowsInv, RowsOK,
              TableRows, DbOf
<1>3. \A u \in DOMAIN djSettings :
          u # t => u \in DOMAIN djSettings' /\ djSettings'[u] = djSettings[u]
  BY DEF CustomizePreview, ResetPreview, Restrict
<1>4. SoFarOK' /\ CleanOK'
  BY <1>2 DEF SoFarOK, CleanOK, Reflecting, Creating, RowsInv, StatusOK, WorkerOK
<1>5. ASSUME NEW d \in Databases, clean'[d] = "yes" PROVE clean[d] = "yes" /\ Untouched(d)
  <2>1. clean[d] = "yes" /\ d # DbOf(t)
    BY <1>2, <1>5 DEF RowsInv, StatusOK
  <2>2. \A u : DbOf(u) = d => u # t
    BY <2>1
  <2> QED BY <1>2, <1>3, <2>1, <2>2 DEF Untouched
<1> QED BY <1>4, <1>5, YesStays

\* So a request leaves what agrees in agreement.
LEMMA NewRequestAgrees ==
    ASSUME ReflectionInv, RowsInv', NewRequest PROVE SoFarOK' /\ CleanOK' /\ YesOK'
<1> USE DEF ReflectionInv
<1>0. /\ at = "idle" => request = None
      /\ DOMAIN pg = Databases
      /\ \A t \in djTables : DbOf(t) \in Databases
      /\ \A c \in DOMAIN djColumns : DbOf(c[1]) \in Databases
  BY DEF RowsInv, WorkerOK, CatalogOK, RowsOK, TableRows, DbOf
<1>1. CASE MakeSureInitialReflectionHappened \/ ReflectAll
  <2>1. /\ at = "idle" /\ at' = "status" /\ request' = None /\ UNCHANGED <<pg, rows, clean>>
    BY <1>0, <1>1 DEF MakeSureInitialReflectionHappened, ReflectAll, Request,
                      ResetReflection, userDatabases
  <2>2. SoFarOK' /\ CleanOK'
    BY <2>1 DEF SoFarOK, CleanOK, Reflecting, Creating
  <2>3. \A d \in Databases : clean'[d] = "yes" => clean[d] = "yes" /\ Untouched(d)
    BY <2>1, RowsUntouched
  <2> QED BY <2>2, <2>3, YesStays
<1>2. ASSUME NEW d \in Databases, AlterAndReflect(d) PROVE SoFarOK' /\ CleanOK' /\ YesOK'
  <2>1. /\ at = "idle" /\ at' = "status" /\ request' = None /\ UNCHANGED rows
        /\ clean' = [clean EXCEPT ![d] = "no"]
    BY <1>0, <1>2 DEF AlterAndReflect, Request, ResetReflection, InDatabase, Touched
  <2>2. \A e \in Databases \ {d} : pg'[e] = pg[e]
    BY <1>0, <1>2 DEF AlterAndReflect, DropColumn, DropTable, AlterType
  <2> QED BY <2>1, <2>2, RequestAgrees DEF rows
<1>3. ASSUME NEW d \in Databases, NEW s \in Schemas, NEW o \in Oids, CreateEmptyTable(d, s, o)
      PROVE  SoFarOK' /\ CleanOK' /\ YesOK'
  <2>1. /\ at = "idle" /\ at' = "register" /\ db' = d /\ UNCHANGED rows
        /\ clean' = [clean EXCEPT ![d] = "no"] /\ \A e \in Databases \ {d} : pg'[e] = pg[e]
    BY <1>0, <1>3 DEF CreateEmptyTable, Request, InDatabase, Touched, SetTable
  <2> QED BY <2>1, RequestAgrees DEF rows
<1>4. ASSUME NEW t \in djTables, NEW n \in Names, NEW y \in Types, AddColumnRequest(t, n, y)
      PROVE  SoFarOK' /\ CleanOK' /\ YesOK'
  <2>1. /\ at = "idle" /\ at' = "status" /\ request'.kind # "create" /\ UNCHANGED rows
        /\ clean' = [clean EXCEPT ![DbOf(t)] = "no"]
        /\ \A e \in Databases \ {DbOf(t)} : pg'[e] = pg[e]
    BY <1>0, <1>4 DEF AddColumnRequest, OnTable, Request, ResetReflection, InDatabase,
                      Touched, AddColumn
  <2> QED BY <1>0, <2>1, RequestAgrees DEF rows
<1>5. ASSUME NEW t \in djTables, NEW A \in SUBSET Attnums, NEW o \in Oids, NEW n \in Names,
             SplitTable(t, A, o, n)
      PROVE  SoFarOK' /\ CleanOK' /\ YesOK'
  <2>1. /\ at = "idle" /\ at' = "register" /\ db' = DbOf(t) /\ UNCHANGED rows
        /\ clean' = [clean EXCEPT ![DbOf(t)] = "no"]
        /\ \A e \in Databases \ {DbOf(t)} : pg'[e] = pg[e]
    BY <1>0, <1>5 DEF SplitTable, OnTable, Request, InDatabase, Touched
  <2> QED BY <1>0, <2>1, RequestAgrees DEF rows
<1>6. ASSUME NEW t \in djTables, NEW A \in SUBSET Attnums, NEW u \in djTables,
             MoveColumns(t, A, u)
      PROVE  SoFarOK' /\ CleanOK' /\ YesOK'
  <2>1. /\ at = "idle" /\ at' = "move" /\ db' = DbOf(t) /\ UNCHANGED rows
        /\ clean' = [clean EXCEPT ![DbOf(t)] = "no"]
        /\ \A e \in Databases \ {DbOf(t)} : pg'[e] = pg[e]
    BY <1>0, <1>6 DEF MoveColumns, OnTable, Request, InDatabase, Touched
  <2> QED BY <1>0, <2>1, RequestAgrees DEF rows
<1>7. ASSUME NEW t \in djTables, AddConstraintRequest(t)
      PROVE  SoFarOK' /\ CleanOK' /\ YesOK'
  <2>1. /\ at = "idle" /\ at' = "status" /\ request' = None
        /\ UNCHANGED <<djSchemas, djTables, djColumns, djSettings>>
        /\ djConstraints \subseteq djConstraints'
        /\ clean' = [clean EXCEPT ![DbOf(t)] = "no"]
        /\ \A e \in Databases \ {DbOf(t)} : pg'[e] = pg[e]
    BY <1>0, <1>7 DEF AddConstraintRequest, OnTable, Request, ResetReflection, InDatabase,
                      Touched, AddConstraint
  <2> QED BY <1>0, <2>1, RequestAgrees
<1>8. ASSUME NEW t \in djTables, NEW k \in 1 .. MaxConstraint, DropConstraintRequest(t, k)
      PROVE  SoFarOK' /\ CleanOK' /\ YesOK'
  <2>1. /\ at = "idle" /\ at' = "status" /\ request' = None
        /\ UNCHANGED <<djSchemas, djTables, djColumns, djSettings>>
        /\ djConstraints' = djConstraints \ {<<t, k>>}
        /\ clean' = [clean EXCEPT ![DbOf(t)] = "no"]
        /\ \A e \in Databases \ {DbOf(t)} : pg'[e] = pg[e]
    BY <1>0, <1>8 DEF DropConstraintRequest, OnTable, Request, ResetReflection, InDatabase,
                      Touched
  <2>2. \A j \in djConstraints : DbOf(j[1]) # DbOf(t) => j \in djConstraints'
    BY <2>1
  <2> QED BY <1>0, <2>1, <2>2, RequestAgrees
<1>9. ASSUME NEW c \in DOMAIN djColumns, SetDisplayOptions(c)
      PROVE  SoFarOK' /\ CleanOK' /\ YesOK'
  <2>1. /\ at = "idle" /\ at' = "status" /\ request'.kind # "create"
        /\ UNCHANGED <<pg, rows>> /\ clean' = [clean EXCEPT ![DbOf(c[1])] = "no"]
    BY <1>9 DEF SetDisplayOptions, OnTable, Request, ResetReflection, InDatabase, Touched
  <2> QED BY <1>0, <2>1, RequestAgrees DEF rows
<1> QED BY <1>1, <1>2, <1>3, <1>4, <1>5, <1>6, <1>7, <1>8, <1>9, ChangeSettingsAgrees
        DEF NewRequest

-----------------------------------------------------------------------------
(***************************************************************************)
(* Rows agree with the catalog: the theorems.                              *)
(***************************************************************************)
\* In an installation in use the rows agree with the catalogs.
LEMMA ReflectionInvInit == ASSUME Init PROVE ReflectionInv
<1>1. RowsInv
  BY RowsInvInit
<1>2. SoFarOK /\ CleanOK
  BY DEF Init, SoFarOK, CleanOK, Reflecting, Creating
<1>3. ASSUME NEW d \in Databases PROVE Agree(d)
  <2>1. /\ djSchemas = Databases \X Schemas
        /\ djTables = UNION {CatalogTables(e) : e \in Databases}
        /\ djColumns = [c \in djTables \X {1, 2} |->
                           IF c[2] = 2 THEN CatalogColumn(c).type ELSE None]
        /\ djConstraints = djTables \X {1} /\ djSettings = [t \in djTables |-> Preview(2)]
    BY DEF Init
  <2>2. \A e \in Databases : \A t \in CatalogTables(e) : t \in TableRows /\ DbOf(t) = e
    BY <1>1, CatalogTablesTyped DEF RowsInv
  <2>3. TablesOf(d) = CatalogTables(d) /\ Found(d) = CatalogTables(d)
    BY <2>1, <2>2 DEF TablesOf, Found, SchemaOf, TableRows
  <2>4. ASSUME NEW t \in TablesOf(d)
        PROVE  /\ RowsOf(t) = {1, 2} /\ LiveAttnums(t) = {1, 2}
               /\ pg[d][OidOf(t)].constraints = {1}
    <3>1. t \in djTables /\ DbOf(t) = d /\ OidOf(t) \in DOMAIN pg[d]
      BY <1>1, <2>3, CatalogTablesTyped DEF RowsInv, TablesOf
    <3>2. pg[d][OidOf(t)] = NewTable(FirstSchema, FirstColumns)
      BY <3>1 DEF Init
    <3>3. {1, 2} \subseteq Attnums
      BY ReflectionAssumption DEF Attnums
    <3> QED BY <2>1, <3>1, <3>2, <3>3 DEF RowsOf, LiveAttnums, NewTable, FirstColumns
  <2>5. ColumnsAgree(d) /\ PreviewsAgree(d) /\ ConstraintsAgree(d)
    BY <2>1, <2>4 DEF ColumnsAgree, PreviewsAgree, ConstraintsAgree, Preview, TablesOf
  <2>6. OptionsAgree(d)
    BY <2>1, <2>4 DEF OptionsAgree, TablesOf
  <2> QED BY <2>1, <2>3, <2>5, <2>6 DEF Agree, TablesOf
<1> QED BY <1>1, <1>2, <1>3 DEF ReflectionInv, YesOK

\* Every step keeps what agrees in agreement.
LEMMA ReflectionInvStep == ASSUME ReflectionInv, [Next]_vars PROVE ReflectionInv'
<1>1. RowsInv'
  BY RowsInvStep DEF ReflectionInv
<1>2. CASE WorkerStep
  BY <1>1, <1>2, UnansweredAgrees, SyncDatabasesStatusAgrees, DropSchemasAgrees,
     ReflectSchemasAgrees, ReflectTablesAgrees, CreateTableSettingsAgrees,
     DeleteStaleTablesAgrees, ReflectColumnsAgrees, SetDefaultPreviewAgrees,
     InvalidateAgrees, ReflectConstraintsAgrees, SaveOptionsAgrees, RegisterTableAgrees,
     MoveDataAgrees, UpdateColumnReferenceAgrees DEF WorkerStep, ReflectionInv
<1>3. CASE NewRequest
  BY <1>1, <1>3, NewRequestAgrees DEF ReflectionInv
<1>4. CASE \E d \in Databases : OthersChangeDatabase(d) \/ Outage(d)
  <2>1. \A d : Outage(d) => UNCHANGED <<pg, rows, worker, clean>>
    BY DEF Outage
  <2> QED BY <1>1, <1>4, <2>1, OthersAgree, NothingChanges DEF ReflectionInv
<1>5. CASE Restart
  BY <1>1, <1>5, RestartAgrees DEF ReflectionInv
<1>6. CASE UNCHANGED vars
  <2>1. UNCHANGED <<pg, rows, worker, clean>>
    BY <1>6 DEF vars, userDatabases
  <2> QED BY <1>1, <2>1, NothingChanges DEF ReflectionInv
<1> QED BY <1>2, <1>3, <1>4, <1>5, <1>6 DEF Next

\* A database that was reflected and left alone is what RowsAgreeWithCatalog asks.
LEMMA ReflectionInvMeans == ASSUME ReflectionInv PROVE RowsAgreeWithCatalog
BY DEF ReflectionInv, YesOK, Agree, RowsAgreeWithCatalog, ColumnsAgree, PreviewsAgree,
       OptionsAgree, ConstraintsAgree, Found

\* The invariant of the reflection holds in every state that is reached.
THEOREM ReflectionInvHolds == Spec => []ReflectionInv
BY ReflectionInvInit, ReflectionInvStep, PTL DEF Spec

\* Once a database was reflected and nothing has changed since on either side, its rows
\* say what its catalog says.
THEOREM RowsAgreeHolds == Spec => []RowsAgreeWithCatalog
BY ReflectionInvHolds, ReflectionInvMeans, PTL

-----------------------------------------------------------------------------
(***************************************************************************)
(* What the user set is not lost by reflecting.                            *)
(***************************************************************************)
\* A column that loses its options is gone from its table or has another type, or its
\* database does not count as reflected after the step.
Excused(c) == \/ clean'[DbOf(c[1])] = "no"
              \/ c[2] \notin LiveAttnums(c[1]) \/ c[1] \notin CatalogTables(DbOf(c[1]))
              \/ CatalogColumn(c).type # djColumns[c]
LossesExcused == \A c \in DOMAIN djColumns : LosesOptions(c) => Excused(c)

\* Nothing is lost by a step that leaves the rows of columns alone.
LEMMA NoLoss == ASSUME UNCHANGED djColumns PROVE LossesExcused
BY DEF LossesExcused, LosesOptions

\* A cascade loses the options of columns of the tables that go.
LEMMA CascadeLosses ==
    ASSUME NEW T, DeleteTables(T),
           \A c \in DOMAIN djColumns : c[1] \in T => Excused(c)
    PROVE  LossesExcused
BY DEF LossesExcused, LosesOptions, DeleteTables, RestrictDomain, Restrict

\* A deleted database does not count as reflected.
LEMMA DropSchemasExcused ==
    ASSUME ReflectionInv, DropSchemasOfDeletedDatabase PROVE LossesExcused
<1>1. DeleteTables(TablesOf(db)) /\ clean' = [clean EXCEPT ![db] = "no"] /\ db \in Databases
  BY DEF DropSchemasOfDeletedDatabase, ReflectionInv, RowsInv, WorkerOK
<1>2. \A c \in DOMAIN djColumns : c[1] \in TablesOf(db) => Excused(c)
  BY <1>1 DEF Excused, TablesOf, ReflectionInv, RowsInv, StatusOK
<1> QED BY <1>1, <1>2, CascadeLosses

\* A table goes with its schema only when the catalog has it in that schema no more.
LEMMA ReflectSchemasExcused ==
    ASSUME ReflectionInv, ReflectSchemasFromDatabase PROVE LossesExcused
<1> DEFINE found == {<<db, s>> : s \in namespaces[db]}
           T == {t \in TablesOf(db) : SchemaOf(t) \notin found}
<1>1. DeleteTables(T) /\ db \in Databases
  BY DEF ReflectSchemasFromDatabase, Answered, ReflectionInv, RowsInv, WorkerOK
<1>2. \A t \in CatalogTables(db) : SchemaOf(t) \in found
  BY <1>1 DEF CatalogTables, SchemaOf, ReflectionInv, RowsInv, CatalogOK, TableOK
<1>3. \A c \in DOMAIN djColumns : c[1] \in T => Excused(c)
  BY <1>2 DEF Excused, TablesOf
<1> HIDE DEF T
<1> QED BY <1>1, <1>3, CascadeLosses

\* A table counts as stale only when the catalog has it no more in a schema that is
\* known, unless the reflection was disturbed.
LEMMA DeleteStaleTablesExcused ==
    ASSUME ReflectionInv, DeleteStaleTables PROVE LossesExcused
<1>1. /\ at = "stale" /\ DeleteTables(TablesOf(db) \ scope) /\ UNCHANGED clean
      /\ db \in Databases /\ clean[db] \in {"no", "so_far"}
  BY DEF DeleteStaleTables, ReflectionInv, RowsInv, WorkerOK, StatusOK, CleanOK, Reflecting
<1>2. ASSUME NEW c \in DOMAIN djColumns, c[1] \in TablesOf(db) \ scope PROVE Excused(c)
  <2>1. CASE clean[db] = "so_far"
    <3>1. scope = Found(db)
      BY <1>1, <2>1 DEF ReflectionInv, SoFarOK, AgreeUpTo
    <3>2. c[1] \in djTables /\ SchemaOf(c[1]) \in djSchemas /\ DbOf(c[1]) = db
      BY <1>2 DEF ReflectionInv, RowsInv, RowsOK, TablesOf
    <3> QED BY <1>2, <3>1, <3>2 DEF Found, Excused
  <2>2. CASE clean[db] = "no"
    BY <1>1, <1>2, <2>2 DEF Excused, TablesOf
  <2> QED BY <1>1, <2>1, <2>2
<1> QED BY <1>1, <1>2, CascadeLosses

\* A conflicting insert is ignored: a column that is still there keeps its row.
LEMMA ReflectColumnsExcused ==
    ASSUME ReflectionInv, ReflectColumnsFromTables PROVE LossesExcused
<1> DEFINE kept == {c \in DOMAIN djColumns : c[1] \notin scope}
           live == {c \in scope \X Attnums : c[2] \in LiveAttnums(c[1])}
<1>1. djColumns' = [c \in kept \union live |->
                        IF c \in DOMAIN djColumns THEN djColumns[c] ELSE None]
  BY DEF ReflectColumnsFromTables
<1>2. \A c \in DOMAIN djColumns : c = <<c[1], c[2]>> /\ c[2] \in Attnums
  BY DEF ReflectionInv, RowsInv, RowsOK
<1>3. ASSUME NEW c \in DOMAIN djColumns, LosesOptions(c) PROVE c[2] \notin LiveAttnums(c[1])
  <2>1. c \notin kept \union live
    BY <1>1, <1>3 DEF LosesOptions
  <2> QED BY <1>2, <2>1
<1> QED BY <1>3 DEF LossesExcused, Excused

\* Options go when they are not those of the column's type.
LEMMA InvalidateExcused ==
    ASSUME ReflectionInv, InvalidateColumnsWithIncorrectDisplayOptions PROVE LossesExcused
<1>1. CASE UNCHANGED djColumns
  BY <1>1, NoLoss
<1>2. CASE djColumns' = [c \in DOMAIN djColumns |->
               IF c \in WithOptions /\ CatalogColumn(c).type # djColumns[c]
               THEN None ELSE djColumns[c]]
  BY <1>2 DEF LossesExcused, LosesOptions, Excused
<1> QED BY <1>1, <1>2 DEF InvalidateColumnsWithIncorrectDisplayOptions

\* Saved options take the place of others in a database that counts as touched.
LEMMA SaveOptionsExcused ==
    ASSUME ReflectionInv, SaveOptions PROVE LossesExcused
<1> DEFINE r == request.row
<1>1. CASE UNCHANGED djColumns
  BY <1>1, NoLoss
<1>2. CASE /\ djColumns' = [x \in DOMAIN djColumns \union {r} |->
                               IF x = r THEN request.options ELSE djColumns[x]]
           /\ clean' = [clean EXCEPT ![DbOf(r[1])] = "no"]
  <2>1. \A c \in DOMAIN djColumns : LosesOptions(c) => c = r
    BY <1>2 DEF LosesOptions
  <2>2. \A c \in DOMAIN djColumns : DbOf(c[1]) \in Databases
    BY DEF ReflectionInv, RowsInv, RowsOK, TableRows, DbOf
  <2>3. \A c \in DOMAIN djColumns : c = r => clean'[DbOf(c[1])] = "no"
    BY <1>2, <2>2 DEF ReflectionInv, RowsInv, StatusOK
  <2> QED BY <2>1, <2>3 DEF LossesExcused, Excused
<1> QED BY <1>1, <1>2 DEF SaveOptions, SaveTo, Touched

\* Rows follow their names in a database that does not count as reflected.
LEMMA UpdateColumnReferenceExcused ==
    ASSUME ReflectionInv, UpdateColumnReference PROVE LossesExcused
<1>1. /\ clean'[db] = "no" /\ \A m \in request.moved : DbOf(m[1][1]) = db
      /\ \A t \in scope : DbOf(t) = db
  BY DEF UpdateColumnReference, Answered, ReflectionInv, CleanOK, Creating, RowsInv,
         WorkerOK, RequestOK, Reflecting
<1>2. PICK t \in scope :
       LET place(m) == {a \in LiveAttnums(t) : CatalogColumn(<<t, a>>).name = m[2]}
           found == {m \in request.moved : place(m) # {}}
           to(m) == <<t, CHOOSE a \in place(m) : TRUE>>
           gone == {m[1] : m \in found}
           back(c) == CHOOSE m \in found : to(m) = c
           come == {to(m) : m \in found}
       IN  djColumns' = [c \in (DOMAIN djColumns \ gone) \union come |->
                            IF c \in come THEN djColumns[back(c)[1]] ELSE djColumns[c]]
  BY DEF UpdateColumnReference
<1> DEFINE place(m) == {a \in LiveAttnums(t) : CatalogColumn(<<t, a>>).name = m[2]}
           found == {m \in request.moved : place(m) # {}}
           gone == {m[1] : m \in found}
           chosen(m) == CHOOSE a \in place(m) : TRUE
           come == {<<t, chosen(m)>> : m \in found}
           back(c) == CHOOSE m \in found : <<t, chosen(m)>> = c
<1>3. djColumns' = [c \in (DOMAIN djColumns \ gone) \union come |->
                        IF c \in come THEN djColumns[back(c)[1]] ELSE djColumns[c]]
  BY <1>2
<1>4. \A c \in gone \union come : DbOf(c[1]) = db
  <2>1. \A m \in found : DbOf(m[1][1]) = db
    BY <1>1
  <2> HIDE DEF found, chosen
  <2> QED BY <1>1, <1>2, <2>1
<1> HIDE DEF gone, come, back
<1> QED BY <1>1, <1>3, <1>4 DEF LossesExcused, LosesOptions, Excused

\* No other step changes the row of a column.
LEMMA LossesExcusedStep == ASSUME ReflectionInv, [Next]_vars PROVE LossesExcused
<1>1. CASE WorkerStep
  <2>1. ASSUME Unanswered \/ SyncDatabasesStatus \/ ReflectTablesFromSchemas
               \/ CreateTableSettings \/ SetDefaultPreviewTemplate
        PROVE  LossesExcused
    BY <2>1, NoLoss DEF Unanswered, SyncDatabasesStatus, ReflectTablesFromSchemas,
                        CreateTableSettings, SetDefaultPreviewTemplate, rows
  <2>2. ReflectConstraintsFromDatabase => UNCHANGED djColumns
    BY DEF ReflectConstraintsFromDatabase
  <2>3. RegisterTable => UNCHANGED djColumns
    BY DEF RegisterTable, rows
  <2>4. MoveData => UNCHANGED djColumns
    <3>1. MoveData => UNCHANGED rows
      BY DEF MoveData
    <3> QED BY <3>1 DEF rows
  <2> QED BY <1>1, <2>1, <2>2, <2>3, <2>4, NoLoss, DropSchemasExcused, ReflectSchemasExcused,
             DeleteStaleTablesExcused, ReflectColumnsExcused, InvalidateExcused,
             SaveOptionsExcused, UpdateColumnReferenceExcused DEF WorkerStep
<1>2. CASE NewRequest
  <2>1. MakeSureInitialReflectionHappened \/ ReflectAll => UNCHANGED djColumns
    BY DEF MakeSureInitialReflectionHappened, ReflectAll, rows
  <2>2. \A d : AlterAndReflect(d) => UNCHANGED rows
    BY DEF AlterAndReflect
  <2>3. \A d, s, o : CreateEmptyTable(d, s, o) => UNCHANGED rows
    BY DEF CreateEmptyTable
  <2>4. \A t, n, y : AddColumnRequest(t, n, y) => UNCHANGED rows
    BY DEF AddColumnRequest
  <2>5. ASSUME NEW t, NEW A, NEW o, NEW n, SplitTable(t, A, o, n) PROVE UNCHANGED rows
    BY <2>5 DEF SplitTable
  <2>6. ASSUME NEW t, NEW A, NEW u, MoveColumns(t, A, u) PROVE UNCHANGED rows
    BY <2>6 DEF MoveColumns
  <2>7. \A t : AddConstraintRequest(t) => UNCHANGED djColumns
    BY DEF AddConstraintRequest
  <2>8. \A t, k : DropConstraintRequest(t, k) => UNCHANGED djColumns
    BY DEF DropConstraintRequest
  <2>9. \A c : SetDisplayOptions(c) => UNCHANGED rows
    BY DEF SetDisplayOptions
  <2>10. \A t, a : CustomizePreview(t, a) \/ ResetPreview(t) => UNCHANGED djColumns
    BY DEF CustomizePreview, ResetPreview, ChangeSettings
  <2>11. UNCHANGED rows => UNCHANGED djColumns
    BY DEF rows
  <2>12. UNCHANGED djColumns
    BY <1>2, <2>1, <2>2, <2>3, <2>4, <2>5, <2>6, <2>7, <2>8, <2>9, <2>10, <2>11
       DEF NewRequest
  <2> QED BY <2>12, NoLoss
<1>3. CASE (\E d \in Databases : OthersChangeDatabase(d) \/ Outage(d)) \/ Restart
           \/ UNCHANGED vars
  BY <1>3, NoLoss DEF OthersChangeDatabase, Outage, Restart, vars, rows
<1> QED BY <1>1, <1>2, <1>3 DEF Next

-----------------------------------------------------------------------------
\* A table that loses a customized preview is gone from its schema, or its database
\* does not count as reflected after the step.
ExcusedTable(t) == clean'[DbOf(t)] = "no" \/ t \notin CatalogTables(DbOf(t))
PreviewsExcused == \A t \in DOMAIN djSettings : LosesPreview(t) => ExcusedTable(t)

\* A preview that is there, and follows its columns or stays, is not lost.
LEMMA NoPreviewLost ==
    ASSUME \A t \in DOMAIN djSettings :
              t \in DOMAIN djSettings' /\ (Follows(t) \/ djSettings'[t] = djSettings[t])
    PROVE  PreviewsExcused
BY DEF PreviewsExcused, LosesPreview

\* A cascade loses the previews of the tables that go.
LEMMA CascadeTakesPreviews ==
    ASSUME NEW T, DeleteTables(T),
           \A t \in DOMAIN djSettings : t \in T => ExcusedTable(t)
    PROVE  PreviewsExcused
BY DEF PreviewsExcused, LosesPreview, DeleteTables, RestrictDomain, Restrict

\* A deleted database does not count as reflected.
LEMMA DropSchemasExcusesPreviews ==
    ASSUME ReflectionInv, DropSchemasOfDeletedDatabase PROVE PreviewsExcused
<1>1. DeleteTables(TablesOf(db)) /\ clean' = [clean EXCEPT ![db] = "no"] /\ db \in Databases
  BY DEF DropSchemasOfDeletedDatabase, ReflectionInv, RowsInv, WorkerOK
<1>2. \A t \in TablesOf(db) : ExcusedTable(t)
  BY <1>1 DEF ExcusedTable, TablesOf, ReflectionInv, RowsInv, StatusOK
<1> QED BY <1>1, <1>2, CascadeTakesPreviews

\* A table goes with its schema only when the catalog has it in that schema no more.
LEMMA ReflectSchemasExcusesPreviews ==
    ASSUME ReflectionInv, ReflectSchemasFromDatabase PROVE PreviewsExcused
<1> DEFINE found == {<<db, s>> : s \in namespaces[db]}
           T == {t \in TablesOf(db) : SchemaOf(t) \notin found}
<1>1. DeleteTables(T) /\ db \in Databases
  BY DEF ReflectSchemasFromDatabase, Answered, ReflectionInv, RowsInv, WorkerOK
<1>2. \A t \in CatalogTables(db) : SchemaOf(t) \in found
  BY <1>1 DEF CatalogTables, SchemaOf, ReflectionInv, RowsInv, CatalogOK, TableOK
<1>3. \A t \in T : ExcusedTable(t)
  BY <1>2 DEF ExcusedTable, TablesOf
<1> HIDE DEF T
<1> QED BY <1>1, <1>3, CascadeTakesPreviews

\* A table counts as stale only when the catalog has it no more in a schema that is
\* known, unless the reflection was disturbed.
LEMMA DeleteStaleTablesExcusesPreviews ==
    ASSUME ReflectionInv, DeleteStaleTables PROVE PreviewsExcused
<1>1. /\ at = "stale" /\ DeleteTables(TablesOf(db) \ scope) /\ UNCHANGED clean
      /\ db \in Databases /\ clean[db] \in {"no", "so_far"}
  BY DEF DeleteStaleTables, ReflectionInv, RowsInv, WorkerOK, StatusOK, CleanOK, Reflecting
<1>2. ASSUME NEW t \in TablesOf(db) \ scope PROVE ExcusedTable(t)
  <2>1. CASE clean[db] = "so_far"
    <3>1. scope = Found(db)
      BY <1>1, <2>1 DEF ReflectionInv, SoFarOK, AgreeUpTo
    <3>2. t \in djTables /\ SchemaOf(t) \in djSchemas /\ DbOf(t) = db
      BY <1>2 DEF ReflectionInv, RowsInv, RowsOK, TablesOf
    <3> QED BY <1>2, <3>1, <3>2 DEF Found, ExcusedTable
  <2>2. CASE clean[db] = "no"
    BY <1>1, <1>2, <2>2 DEF ExcusedTable, TablesOf
  <2> QED BY <1>1, <2>1, <2>2
<1> QED BY <1>1, <1>2, CascadeTakesPreviews

\* A user who changes the settings of a table touches its database.
LEMMA ChangeSettingsExcused ==
    ASSUME ReflectionInv, NEW t \in djTables,
           (\E a \in Attnums : CustomizePreview(t, a)) \/ ResetPreview(t)
    PROVE  PreviewsExcused
<1>1. ChangeSettings(t)
  BY DEF CustomizePreview, ResetPreview
<1>2. clean'[DbOf(t)] = "no"
  BY <1>1 DEF ChangeSettings, Touched, ReflectionInv, RowsInv, RowsOK, TableRows, DbOf,
              StatusOK
<1>3. \A u \in DOMAIN djSettings :
          u # t => u \in DOMAIN djSettings' /\ djSettings'[u] = djSettings[u]
  BY DEF CustomizePreview, ResetPreview, Restrict
<1> QED BY <1>2, <1>3 DEF PreviewsExcused, LosesPreview, ExcusedTable

\* No other step changes a preview the user customized.
LEMMA PreviewsExcusedStep == ASSUME ReflectionInv, [Next]_vars PROVE PreviewsExcused
<1>0. UNCHANGED djSettings => PreviewsExcused
  BY NoPreviewLost
<1>1. CASE WorkerStep
  <2>1. ASSUME Unanswered \/ SyncDatabasesStatus \/ ReflectTablesFromSchemas
               \/ ReflectColumnsFromTables
               \/ InvalidateColumnsWithIncorrectDisplayOptions
               \/ ReflectConstraintsFromDatabase \/ UpdateColumnReference
        PROVE  UNCHANGED djSettings
    BY <2>1 DEF Unanswered, SyncDatabasesStatus, ReflectTablesFromSchemas,
                ReflectColumnsFromTables, InvalidateColumnsWithIncorrectDisplayOptions,
                ReflectConstraintsFromDatabase, UpdateColumnReference, rows
  <2>2. MoveData => UNCHANGED djSettings
    <3>1. MoveData => UNCHANGED rows
      BY DEF MoveData
    <3> QED BY <3>1 DEF rows
  <2>3. CASE CreateTableSettings
    <3>1. DOMAIN djSettings \subseteq djTables
      BY DEF ReflectionInv, RowsInv, RowsOK
    <3> QED BY <2>3, <3>1, NoPreviewLost DEF CreateTableSettings
  <2>4. CASE SetDefaultPreviewTemplate
    BY <2>4, NoPreviewLost DEF SetDefaultPreviewTemplate
  <2>5. CASE SaveOptions
    <3>1. \/ UNCHANGED djSettings
          \/ SaveTo(request.row)
      BY <2>5 DEF SaveOptions
    <3> QED BY <3>1, NoPreviewLost DEF SaveTo
  <2>6. CASE RegisterTable
    BY <2>6, NoPreviewLost DEF RegisterTable, rows
  <2> QED BY <1>0, <1>1, <2>1, <2>2, <2>3, <2>4, <2>5, <2>6, DropSchemasExcusesPreviews,
             ReflectSchemasExcusesPreviews, DeleteStaleTablesExcusesPreviews DEF WorkerStep
<1>2. CASE NewRequest
  <2>1. MakeSureInitialReflectionHappened \/ ReflectAll => UNCHANGED djSettings
    BY DEF MakeSureInitialReflectionHappened, ReflectAll, rows
  <2>2. \A d : AlterAndReflect(d) => UNCHANGED rows
    BY DEF AlterAndReflect
  <2>3. \A d, s, o : CreateEmptyTable(d, s, o) => UNCHANGED rows
    BY DEF CreateEmptyTable
  <2>4. \A t, n, y : AddColumnRequest(t, n, y) => UNCHANGED rows
    BY DEF AddColumnRequest
  <2>5. ASSUME NEW t, NEW A, NEW o, NEW n, SplitTable(t, A, o, n) PROVE UNCHANGED rows
    BY <2>5 DEF SplitTable
  <2>6. ASSUME NEW t, NEW A, NEW u, MoveColumns(t, A, u) PROVE UNCHANGED rows
    BY <2>6 DEF MoveColumns
  <2>7. \A t : AddConstraintRequest(t) => UNCHANGED djSettings
    BY DEF AddConstraintRequest
  <2>8. \A t, k : DropConstraintRequest(t, k) => UNCHANGED djSettings
    BY DEF DropConstraintRequest
  <2>9. \A c : SetDisplayOptions(c) => UNCHANGED rows
    BY DEF SetDisplayOptions
  <2>10. UNCHANGED rows => UNCHANGED djSettings
    BY DEF rows
  <2> QED BY <1>0, <1>2, <2>1, <2>2, <2>3, <2>4, <2>5, <2>6, <2>7, <2>8, <2>9, <2>10,
             ChangeSettingsExcused DEF NewRequest
<1>3. CASE (\E d \in Databases : OthersChangeDatabase(d) \/ Outage(d)) \/ Restart
           \/ UNCHANGED vars
  BY <1>0, <1>3 DEF OthersChangeDatabase, Outage, Restart, vars, rows
<1> QED BY <1>1, <1>2, <1>3 DEF Next

\* While the catalog stays as it is, a reflection takes the display options of a column
\* only if the column is gone from its table or has another type, and a customized
\* preview only if the table is gone from its schema.
THEOREM OptionsKeptHolds == Spec => OptionsKept
<1>1. ReflectionInv /\ [Next]_vars =>
       [/\ \A c \in DOMAIN djColumns :
             LosesOptions(c) /\ clean'[DbOf(c[1])] # "no" =>
                 \/ c[2] \notin LiveAttnums(c[1]) \/ c[1] \notin CatalogTables(DbOf(c[1]))
                 \/ CatalogColumn(c).type # djColumns[c]
        /\ \A t \in DOMAIN djSettings :
             LosesPreview(t) /\ clean'[DbOf(t)] # "no" =>
                 t \notin CatalogTables(DbOf(t))]_vars
  BY LossesExcusedStep, PreviewsExcusedStep
     DEF LossesExcused, Excused, PreviewsExcused, ExcusedTable
<1> QED BY <1>1, ReflectionInvHolds, PTL DEF Spec, OptionsKept

=============================================================================
