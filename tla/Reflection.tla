------------------------------ MODULE Reflection ------------------------------
(***************************************************************************)
(* Mathesar keeps, in its own database, a row for every schema, table,      *)
(* column and constraint of the databases of its users (the "reflection").  *)
(* One worker serves the requests of the REST API: a request that changes a *)
(* user database changes it first, then the rows that carry information of  *)
(* Mathesar's own (display options, previews), and then reflects the        *)
(* database anew, schema by schema.  Meanwhile anyone else may change the   *)
(* user databases: psql, another application, Mathesar's own RPC methods,   *)
(* none of which tells the reflection.                                      *)
(*                                                                          *)
(* Rows are named by what identifies them (a table by database, schema and  *)
(* oid, a column by its table and attnum), so a row deleted and created     *)
(* again shows in what it lost: the display options of its column.          *)
(***************************************************************************)
EXTENDS Naturals, FiniteSets, FiniteSetsExt, Functions

CONSTANTS
          Databases,      \* the connections of the installation
          Schemas, Oids,  \* oids are only unique within a database
          Names, Id,      \* column names; Id is the primary key Mathesar adds
          Types,          \* column types; options of one type do not fit another
          None,           \* no options, no database, no request
          MaxAttnum,      \* bound: columns ever added to a table
          MaxConstraint,  \* bound: constraints ever added to a table
          MaxStatements,  \* bound: statements of others on the user databases
          MaxRequests     \* bound: requests of the REST API

ASSUME ReflectionAssumption ==
    /\ Id \in Names
    /\ Schemas # {}
    /\ None \notin Databases \union Types
    /\ MaxAttnum \in Nat \ {0, 1} /\ MaxConstraint \in Nat \ {0}
    /\ MaxStatements \in Nat /\ MaxRequests \in Nat

VARIABLES
    \* The user databases.
    namespaces,   \* namespaces[d]: the schemas of d
    pg,           \* pg[d][oid]: the tables of d, with columns by attnum
    up,           \* up[d]: d answers
    \* Mathesar's own database.
    deleted,      \* deleted[d]: Connection.deleted
    djSchemas, djTables,
    djColumns,    \* the display options of every Column row
    djConstraints,
    djSettings,   \* every TableSettings row: the column its preview shows (0 if
                  \* none), and whether the user customized it
    \* The worker.
    reflected,    \* _initial_reflection_happened
    at,           \* the step the request is at
    todo, db,     \* databases still to reflect, and the one being reflected
    scope,        \* the Table rows whose columns are being reflected
    request,      \* what the request does around the reflection
    \* Bounds and history.
    statements, requests,
    clean         \* clean[d]: "so_far" and "yes" while d is reflected, and when
                  \* it has been, with no change on either side since it began

userDatabases == <<namespaces, pg, up>>
rows == <<djSchemas, djTables, djColumns, djConstraints, djSettings>>
worker == <<reflected, at, todo, db, scope, request>>
vars == <<userDatabases, deleted, rows, worker, statements, requests, clean>>

-----------------------------------------------------------------------------
Attnums == 1 .. MaxAttnum
TableRows == Databases \X Schemas \X Oids
ColumnRows == TableRows \X Attnums

DbOf(t) == t[1]
SchemaOf(t) == <<t[1], t[2]>>
OidOf(t) == t[3]

\* What the catalog of d says now: its tables as rows, the attnums of a table
\* that were not dropped, and the constraints attached to a table.
CatalogTables(d) == {<<d, pg[d][o].schema, o>> : o \in DOMAIN pg[d]}
LiveAttnums(t) == IF OidOf(t) \in DOMAIN pg[DbOf(t)]
                  THEN DOMAIN pg[DbOf(t)][OidOf(t)].columns ELSE {}
CatalogColumn(c) == pg[DbOf(c[1])][OidOf(c[1])].columns[c[2]]
CatalogConstraints(d) == {c \in (DOMAIN pg[d]) \X (1 .. MaxConstraint) :
                              c[2] \in pg[d][c[1]].constraints}

RowsOf(t) == {a \in Attnums : <<t, a>> \in DOMAIN djColumns}
TablesOf(d) == {t \in djTables : DbOf(t) = d}

\* A row goes and takes the rows that refer to it with it (on_delete=CASCADE).
DeleteTables(T) ==
    /\ djTables' = djTables \ T
    /\ djColumns' = RestrictDomain(djColumns, LAMBDA c : c[1] \notin T)
    /\ djConstraints' = {k \in djConstraints : k[1] \notin T}
    /\ djSettings' = RestrictDomain(djSettings, LAMBDA t : t \notin T)

\* A template nobody customized.
Preview(a) == [column |-> a, customized |-> FALSE]

-----------------------------------------------------------------------------
\* The worker: the control that the steps below share.

\* reset_reflection: the flag first, then the reflection of the databases D.
ResetReflection(D) ==
    /\ reflected' = TRUE
    /\ at' = "status" /\ todo' = D /\ db' = None /\ scope' = {}

\* The request answers, or fails with an exception nobody catches.
Reply == /\ at' = "idle" /\ todo' = {} /\ db' = None /\ scope' = {}
         /\ request' = None
         /\ UNCHANGED reflected

\* The loop over databases goes on to any that is left, then the request does
\* what it still has to do.
NextDatabase ==
    \/ \E d \in todo : /\ db' = d /\ todo' = todo \ {d}
                       /\ at' = "schemas"
                       /\ scope' = {}
                       /\ UNCHANGED <<reflected, request>>
    \/ /\ todo = {} /\ request # None
       /\ at' = "save" /\ db' = None /\ scope' = {}
       /\ UNCHANGED <<reflected, todo, request>>
    \/ todo = {} /\ request = None /\ Reply

GoTo(step) == at' = step /\ UNCHANGED <<reflected, todo, db, request>>

\* A step that needs the catalog fails when the database does not answer.
Answered(step) == at = step /\ up[db]
Unanswered ==
    /\ at \in {"schemas", "tables", "columns", "templates", "options",
               "constraints", "register", "rows"}
    /\ ~up[db]
    /\ ~(at = "schemas" /\ deleted[db])
    /\ Reply
    /\ clean' = [clean EXCEPT ![db] = "no"]
    /\ UNCHANGED <<userDatabases, deleted, rows, statements, requests>>

-----------------------------------------------------------------------------
\* reflect_db_objects, step by step.

SyncDatabasesStatus_Inverted ==        \* mutant: the flag says that it answers
    /\ at = "status"
    /\ deleted' = [d \in Databases |-> IF d \in todo THEN up[d] ELSE deleted[d]]
    /\ NextDatabase
    /\ UNCHANGED <<userDatabases, rows, statements, requests, clean>>
SyncDatabasesStatus ==
    /\ at = "status"
    /\ deleted' = [d \in Databases |-> IF d \in todo THEN ~up[d] ELSE deleted[d]]
    /\ NextDatabase
    /\ UNCHANGED <<userDatabases, rows, statements, requests, clean>>

\* A connection marked as deleted loses its schemas, and everything below them.
DropSchemasOfDeletedDatabase ==
    /\ at = "schemas" /\ deleted[db]
    /\ djSchemas' = {s \in djSchemas : s[1] # db}
    /\ DeleteTables(TablesOf(db))
    /\ clean' = [clean EXCEPT ![db] = "no"]
    /\ NextDatabase
    /\ UNCHANGED <<userDatabases, deleted, statements, requests>>

ReflectSchemasFromDatabase ==
    /\ Answered("schemas") /\ ~deleted[db]
    /\ LET found == {<<db, s>> : s \in namespaces[db]} IN
       /\ djSchemas' = {s \in djSchemas : s[1] # db} \union found
       /\ DeleteTables({t \in TablesOf(db) : SchemaOf(t) \notin found})
    /\ clean' = [clean EXCEPT ![db] = "so_far"]
    /\ GoTo("tables") /\ UNCHANGED scope
    /\ UNCHANGED <<userDatabases, deleted, statements, requests>>

\* The catalog is read once: what it said is what the two next steps use.
ReflectTablesFromSchemas ==
    /\ Answered("tables")
    /\ scope' = {t \in CatalogTables(db) : SchemaOf(t) \in djSchemas}
    /\ djTables' = djTables \union scope'
    /\ GoTo("settings")
    /\ UNCHANGED <<userDatabases, deleted, djSchemas, djColumns, djConstraints,
                   djSettings, statements, requests, clean>>

CreateTableSettings ==
    /\ at = "settings"
    /\ djSettings' = [t \in djTables |-> IF t \in DOMAIN djSettings
                                         THEN djSettings[t] ELSE Preview(0)]
    /\ GoTo("stale") /\ UNCHANGED scope
    /\ UNCHANGED <<userDatabases, deleted, djSchemas, djTables, djColumns,
                   djConstraints, statements, requests, clean>>

DeleteStaleTables_None ==              \* mutant: tables that are gone stay
    /\ at = "stale" /\ GoTo("columns") /\ UNCHANGED <<scope, rows>>
    /\ UNCHANGED <<userDatabases, deleted, statements, requests, clean>>
DeleteStaleTables ==
    /\ at = "stale"
    /\ DeleteTables(TablesOf(db) \ scope)
    /\ GoTo("columns") /\ UNCHANGED scope
    /\ UNCHANGED <<userDatabases, deleted, djSchemas, statements, requests, clean>>

ReflectColumnsFromTables_Anew ==       \* mutant: conflicts are not ignored
    /\ Answered("columns")
    /\ djColumns' = [c \in {x \in DOMAIN djColumns : x[1] \notin scope} \union
                           {x \in scope \X Attnums : x[2] \in LiveAttnums(x[1])} |->
                        IF c[1] \in scope THEN None ELSE djColumns[c]]
    /\ GoTo("templates") /\ UNCHANGED scope
    /\ UNCHANGED <<userDatabases, deleted, djSchemas, djTables, djConstraints,
                   djSettings, statements, requests, clean>>
ReflectColumnsFromTables ==
    /\ Answered("columns")
    /\ LET kept == {c \in DOMAIN djColumns : c[1] \notin scope}
           live == {c \in scope \X Attnums : c[2] \in LiveAttnums(c[1])}
       IN  djColumns' = [c \in kept \union live |->
                            IF c \in DOMAIN djColumns THEN djColumns[c] ELSE None]
    /\ GoTo("templates") /\ UNCHANGED scope
    /\ UNCHANGED <<userDatabases, deleted, djSchemas, djTables, djConstraints,
                   djSettings, statements, requests, clean>>

\* The preview of a table shows its first column that is not the primary key.
\* Columns are looked at in the user database, one by one up to that column; one
\* that was dropped since has no name, and the assertion on its name fails.
IsKey(t, a) == a \in LiveAttnums(t) /\ CatalogColumn(<<t, a>>).name = Id
LookedAt(t, among) == {a \in among : \A b \in among : b < a => IsKey(t, b)}
PreviewColumn(t, among) ==
    LET shown == {a \in LookedAt(t, among) : ~IsKey(t, a)} \union {0}
    IN  IF shown # {0} THEN Max(shown) ELSE Max(among \union {0})
Computes(t, among) ==
    LookedAt(t, among) \subseteq (IF up[DbOf(t)] THEN LiveAttnums(t) ELSE {})

\* A template the user customized is neither looked at nor computed again.
Follows(t) == t \in DOMAIN djSettings /\ ~djSettings[t].customized

SetDefaultPreviewTemplate_Always ==    \* mutant: customized templates are rewritten
    /\ Answered("templates")
    /\ \A t \in scope : Computes(t, RowsOf(t))
    /\ djSettings' = [t \in DOMAIN djSettings |->
                         IF t \in scope THEN Preview(PreviewColumn(t, RowsOf(t)))
                         ELSE djSettings[t]]
    /\ GoTo("options") /\ UNCHANGED <<scope, clean>>
    /\ UNCHANGED <<userDatabases, deleted, djSchemas, djTables, djColumns,
                   djConstraints, statements, requests>>
SetDefaultPreviewTemplate ==
    /\ Answered("templates")
    /\ IF \E t \in scope : Follows(t) /\ ~Computes(t, RowsOf(t))
       THEN /\ Reply
            /\ clean' = [clean EXCEPT ![db] = "no"]
            /\ UNCHANGED djSettings
       ELSE /\ djSettings' = [t \in DOMAIN djSettings |->
                                 IF t \in scope /\ Follows(t)
                                 THEN Preview(PreviewColumn(t, RowsOf(t)))
                                 ELSE djSettings[t]]
            /\ GoTo("options") /\ UNCHANGED <<scope, clean>>
    /\ UNCHANGED <<userDatabases, deleted, djSchemas, djTables, djColumns,
                   djConstraints, statements, requests>>

WithOptions == {c \in DOMAIN djColumns : c[1] \in scope /\ djColumns[c] # None}

InvalidateColumnsWithIncorrectDisplayOptions ==
    /\ Answered("options")
    /\ IF \E c \in WithOptions : c[2] \notin LiveAttnums(c[1])
       THEN /\ Reply
            /\ clean' = [clean EXCEPT ![db] = "no"]
            /\ UNCHANGED djColumns
       ELSE /\ djColumns' = [c \in DOMAIN djColumns |->
                                IF c \in WithOptions /\ CatalogColumn(c).type # djColumns[c]
                                THEN None ELSE djColumns[c]]
            /\ IF request # None /\ request.kind = "create"
               THEN Reply ELSE GoTo("constraints") /\ UNCHANGED scope
            /\ UNCHANGED clean
    /\ UNCHANGED <<userDatabases, deleted, djSchemas, djTables, djConstraints,
                   djSettings, statements, requests>>

\* The tables are looked up by oid alone, in whatever database they are.
ReflectConstraintsFromDatabase ==
    /\ Answered("constraints")
    /\ LET found == CatalogConstraints(db)
           new == {k \in djTables \X (1 .. MaxConstraint) : <<OidOf(k[1]), k[2]>> \in found}
       IN  djConstraints' = {k \in djConstraints \union new :
                                DbOf(k[1]) = db => <<OidOf(k[1]), k[2]>> \in found}
    /\ clean' = [clean EXCEPT ![db] = IF @ = "so_far" THEN "yes" ELSE "no"]
    /\ NextDatabase
    /\ UNCHANGED <<userDatabases, deleted, djSchemas, djTables, djColumns,
                   djSettings, statements, requests>>

-----------------------------------------------------------------------------
\* Statements on a user database, made by a request or by others.

SetTable(d, o, table) == pg' = [pg EXCEPT ![d] = [x \in DOMAIN @ \union {o} |->
                                                    IF x = o THEN table ELSE @[x]]]
NewTable(s, columns) == [schema |-> s, columns |-> columns,
                         last |-> Cardinality(DOMAIN columns), constraints |-> {1}]
KeyColumn == [a \in {1} |-> [name |-> Id, type |-> CHOOSE y \in Types : TRUE]]
NamesIn(table) == {table.columns[a].name : a \in DOMAIN table.columns}

CreateTable(d) == \E s \in namespaces[d], o \in Oids \ DOMAIN pg[d] :
    SetTable(d, o, NewTable(s, KeyColumn))
DropTable(d) == \E o \in DOMAIN pg[d] :
    pg' = [pg EXCEPT ![d] = Restrict(@, DOMAIN @ \ {o})]
AddColumn(d, o, name, type) ==
    /\ pg[d][o].last < MaxAttnum /\ name \notin NamesIn(pg[d][o])
    /\ LET a == pg[d][o].last + 1 IN
       pg' = [pg EXCEPT ![d][o].last = a,
                        ![d][o].columns = [b \in DOMAIN @ \union {a} |->
                            IF b = a THEN [name |-> name, type |-> type] ELSE @[b]]]
DropColumn(d) == \E o \in DOMAIN pg[d] : \E a \in DOMAIN pg[d][o].columns :
    pg' = [pg EXCEPT ![d][o].columns = Restrict(@, DOMAIN @ \ {a})]
AlterType(d) == \E o \in DOMAIN pg[d], y \in Types : \E a \in DOMAIN pg[d][o].columns :
    /\ pg[d][o].columns[a].type # y
    /\ pg' = [pg EXCEPT ![d][o].columns[a].type = y]
SetSchema(d) == \E o \in DOMAIN pg[d] : \E s \in namespaces[d] \ {pg[d][o].schema} :
    pg' = [pg EXCEPT ![d][o].schema = s]
AddConstraint(d, o, k) ==
    /\ \A j \in pg[d][o].constraints : j < k
    /\ pg' = [pg EXCEPT ![d][o].constraints = @ \union {k}]

Touched(d) == clean' = [clean EXCEPT ![d] = "no"]

OthersChangeDatabase(d) ==
    /\ statements < MaxStatements /\ statements' = statements + 1
    /\ up[d]
    /\ \/ CreateTable(d) /\ UNCHANGED namespaces
       \/ DropTable(d) /\ UNCHANGED namespaces
       \/ /\ \E o \in DOMAIN pg[d], n \in Names, y \in Types : AddColumn(d, o, n, y)
          /\ UNCHANGED namespaces
       \/ DropColumn(d) /\ UNCHANGED namespaces
       \/ AlterType(d) /\ UNCHANGED namespaces
       \/ SetSchema(d) /\ UNCHANGED namespaces
       \/ /\ \E o \in DOMAIN pg[d], k \in 1 .. MaxConstraint : AddConstraint(d, o, k)
          /\ UNCHANGED namespaces
       \/ \E s \in namespaces[d] :          \* DROP SCHEMA ... CASCADE
             /\ namespaces' = [namespaces EXCEPT ![d] = @ \ {s}]
             /\ pg' = [pg EXCEPT ![d] = RestrictValues(@, LAMBDA x : x.schema # s)]
    /\ Touched(d)
    /\ UNCHANGED <<up, deleted, rows, worker, requests>>

\* A database stops to answer, or answers again.
Outage(d) ==
    /\ statements < MaxStatements /\ statements' = statements + 1
    /\ up' = [up EXCEPT ![d] = ~@]
    /\ UNCHANGED <<namespaces, pg, deleted, rows, worker, requests, clean>>

-----------------------------------------------------------------------------
\* Requests.  Every request looks up its table through Table.objects first, and
\* that reflects everything when nothing has been reflected yet.

Request == /\ at = "idle" /\ requests < MaxRequests
           /\ requests' = requests + 1

MakeSureInitialReflectionHappened ==
    /\ Request /\ ~reflected
    /\ ResetReflection(Databases) /\ UNCHANGED request
    /\ UNCHANGED <<userDatabases, deleted, rows, statements, clean>>

ReflectAll ==
    /\ Request /\ ResetReflection(Databases) /\ UNCHANGED request
    /\ UNCHANGED <<userDatabases, deleted, rows, statements, clean>>

\* The request is for a table Mathesar knows, and the table is still there.
OnTable(t) == Request /\ reflected /\ t \in djTables /\ up[DbOf(t)]
              /\ t \in CatalogTables(DbOf(t))
InDatabase(d) == Touched(d) /\ UNCHANGED <<namespaces, up, deleted, statements>>

\* drop_column, delete_sa_table, alter_column: the statement, then the reflection.
AlterAndReflect(d) ==
    /\ Request /\ reflected /\ up[d]
    /\ DropColumn(d) \/ DropTable(d) \/ AlterType(d)
    /\ ResetReflection({d}) /\ UNCHANGED request
    /\ InDatabase(d) /\ UNCHANGED rows

\* A new column with display options: they are put on the reflected row at the end.
AddColumnRequest(t, n, y) ==
    /\ OnTable(t)
    /\ AddColumn(DbOf(t), OidOf(t), n, y)
    /\ ResetReflection({DbOf(t)})
    /\ request' = [kind |-> "new", row |-> <<t, pg[DbOf(t)][OidOf(t)].last + 1>>,
                   options |-> y]
    /\ InDatabase(DbOf(t)) /\ UNCHANGED rows

\* New display options for a column: they are checked against its type, and saved
\* after the reflection by the instance the request began with.
SetDisplayOptions(c) ==
    /\ OnTable(c[1]) /\ c \in DOMAIN djColumns /\ c[2] \in LiveAttnums(c[1])
    /\ ResetReflection({DbOf(c[1])})
    /\ request' = [kind |-> "old", row |-> c, options |-> CatalogColumn(c).type]
    /\ InDatabase(DbOf(c[1])) /\ UNCHANGED <<pg, rows>>

\* save() of a row that is gone inserts it again; a new row must be found.  A saved
\* row makes the preview of its table be computed again (signals.py).
SaveTo(c) ==
    LET t == c[1]
        among == RowsOf(t) \union {c[2]}
    IN  /\ djColumns' = [x \in DOMAIN djColumns \union {c} |->
                            IF x = c THEN request.options ELSE djColumns[x]]
        /\ djSettings' = IF Follows(t) /\ Computes(t, among)
                         THEN [djSettings EXCEPT ![t] = Preview(PreviewColumn(t, among))]
                         ELSE djSettings
        /\ Touched(DbOf(t))

SaveOptions_Anyhow ==                  \* mutant: the row's table is not looked for
    /\ at = "save"
    /\ SaveTo(request.row)
    /\ Reply
    /\ UNCHANGED <<userDatabases, deleted, djSchemas, djTables, djConstraints,
                   statements, requests>>
SaveOptions ==
    /\ at = "save"
    /\ LET c == request.row IN
       IF c[1] \in djTables /\ (request.kind = "new" => c \in DOMAIN djColumns)
       THEN SaveTo(c)
       ELSE UNCHANGED <<djColumns, djSettings, clean>>
    /\ Reply
    /\ UNCHANGED <<userDatabases, deleted, djSchemas, djTables, djConstraints,
                   statements, requests>>

\* TableSettingsSerializer.update: the user's template in place of the old one, or the
\* default again.  The old settings are deleted before the default is computed, and
\* gone when that fails.
ChangeSettings(t) == /\ Request /\ reflected /\ t \in DOMAIN djSettings
                     /\ Touched(DbOf(t))
                     /\ UNCHANGED <<userDatabases, deleted, djSchemas, djTables, djColumns,
                                    djConstraints, worker, statements>>
CustomizePreview(t, a) ==
    /\ ChangeSettings(t) /\ a \in RowsOf(t)
    /\ djSettings' = [djSettings EXCEPT ![t] = [column |-> a, customized |-> TRUE]]
ResetPreview(t) ==
    /\ ChangeSettings(t)
    /\ djSettings' = IF Computes(t, RowsOf(t))
                     THEN [djSettings EXCEPT ![t] = Preview(PreviewColumn(t, RowsOf(t)))]
                     ELSE Restrict(djSettings, DOMAIN djSettings \ {t})

\* create_empty_table: the table, then its row, its columns, and no reflection.
CreateEmptyTable(d, s, o) ==
    /\ Request /\ reflected /\ up[d] /\ <<d, s>> \in djSchemas
    /\ s \in namespaces[d] /\ o \notin DOMAIN pg[d]
    /\ SetTable(d, o, NewTable(s, KeyColumn))
    /\ at' = "register" /\ db' = d /\ scope' = {<<d, s, o>>}
    /\ request' = [kind |-> "create", moved |-> {}]
    /\ InDatabase(d) /\ UNCHANGED <<rows, reflected, todo>>

\* A new Table row is refused when its oid is known in that database; otherwise it
\* gets its constraints and its settings (signals.py), and its columns.
RegisterTable ==
    /\ Answered("register")
    /\ \E t \in scope :
       IF \E x \in TablesOf(db) : OidOf(x) = OidOf(t) /\ (x # t \/ request.kind # "create")
       THEN Reply /\ UNCHANGED rows
       ELSE /\ djTables' = djTables \union {t}
            /\ djConstraints' = djConstraints \union
                  {<<t, k[2]>> : k \in {j \in CatalogConstraints(db) : j[1] = OidOf(t)}}
            /\ djSettings' = [x \in DOMAIN djSettings \union {t} |->
                                 IF x \in DOMAIN djSettings THEN djSettings[x] ELSE Preview(0)]
            /\ GoTo(IF request.kind = "create" THEN "columns" ELSE "rows")
            /\ UNCHANGED <<scope, djSchemas, djColumns>>
    /\ UNCHANGED <<userDatabases, deleted, statements, requests, clean>>

\* split_table: the columns A move to the new table o, behind its key and in their
\* order, and the old table gets a column that refers to it.
SplitTable(t, A, o, link) ==
    /\ OnTable(t) /\ A # {} /\ o \notin DOMAIN pg[DbOf(t)]
    /\ \A a \in A : <<t, a>> \in DOMAIN djColumns
    /\ LET d == DbOf(t)
           source == pg[d][OidOf(t)]
           place(a) == 1 + Cardinality({b \in A : b <= a})
           extracted == [b \in 1 .. Cardinality(A) + 1 |->
                            IF b = 1 THEN KeyColumn[1]
                            ELSE source.columns[CHOOSE a \in A : place(a) = b]]
           rest == [source EXCEPT !.last = @ + 1,
                        !.columns = [a \in (DOMAIN @ \ A) \union {source.last + 1} |->
                                        IF a \in DOMAIN @ THEN @[a]
                                        ELSE [name |-> link, type |-> KeyColumn[1].type]]]
       IN  /\ A \subseteq {a \in DOMAIN source.columns : source.columns[a].name # Id}
           /\ source.last < MaxAttnum /\ Cardinality(A) < MaxAttnum
           /\ link \notin {rest.columns[a].name : a \in DOMAIN rest.columns \ {rest.last}}
           /\ pg' = [pg EXCEPT ![d] = [x \in DOMAIN @ \union {o} |->
                                         CASE x = o -> NewTable(source.schema, extracted)
                                           [] x = OidOf(t) -> rest
                                           [] OTHER -> @[x]]]
           /\ at' = "register" /\ db' = d /\ scope' = {<<d, source.schema, o>>}
           /\ request' = [kind |-> "split",
                          moved |-> {<<<<t, a>>, source.columns[a].name>> : a \in A}]
           /\ InDatabase(d) /\ UNCHANGED <<rows, reflected, todo>>

\* move_columns, first transaction: the columns A are created in the linked table.
MoveColumns(t, A, u) ==
    /\ OnTable(t) /\ A # {} /\ u \in CatalogTables(DbOf(t)) \intersect djTables
    /\ u # t
    /\ \A a \in A : <<t, a>> \in DOMAIN djColumns
    /\ LET d == DbOf(t)
           source == pg[d][OidOf(t)]
           target == pg[d][OidOf(u)]
           place(a) == target.last + Cardinality({b \in A : b <= a})
           columns == [b \in DOMAIN target.columns \union {place(a) : a \in A} |->
                          IF b \in DOMAIN target.columns THEN target.columns[b]
                          ELSE source.columns[CHOOSE a \in A : place(a) = b]]
       IN  /\ A \subseteq {a \in DOMAIN source.columns : source.columns[a].name # Id}
           /\ target.last + Cardinality(A) <= MaxAttnum
           /\ \A a \in A : source.columns[a].name \notin NamesIn(target)
           /\ pg' = [pg EXCEPT ![d][OidOf(u)].last = target.last + Cardinality(A),
                               ![d][OidOf(u)].columns = columns]
           /\ at' = "move" /\ db' = d /\ scope' = {u}
           /\ request' = [kind |-> "move",
                          moved |-> {<<<<t, a>>, source.columns[a].name>> : a \in A}]
           /\ InDatabase(d) /\ UNCHANGED <<rows, reflected, todo>>

\* Second transaction: the values are copied and the columns dropped, or both fail
\* and the request with them; the columns created stay, and nothing is reflected.
MoveData ==
    /\ at = "move"
    /\ \/ /\ up[db]
          /\ LET from == CHOOSE t \in {m[1][1] : m \in request.moved} : TRUE
                 A == {m[1][2] : m \in request.moved}
             IN  /\ OidOf(from) \in DOMAIN pg[db] /\ A \subseteq LiveAttnums(from)
                 /\ pg' = [pg EXCEPT ![db][OidOf(from)].columns =
                                Restrict(@, DOMAIN @ \ A)]
          /\ GoTo("rows") /\ UNCHANGED scope
       \/ Reply /\ UNCHANGED pg
    /\ Touched(db)
    /\ UNCHANGED <<namespaces, up, deleted, rows, statements, requests>>

\* update_column_reference: the rows of the moved columns follow their names to the
\* table in scope.  Then the database is reflected.
UpdateColumnReference ==
    /\ Answered("rows")
    /\ \E t \in scope :
       LET place(m) == {a \in LiveAttnums(t) : CatalogColumn(<<t, a>>).name = m[2]}
           found == {m \in request.moved : place(m) # {}}
           to(m) == <<t, CHOOSE a \in place(m) : TRUE>>
           gone == {m[1] : m \in found}
           back(c) == CHOOSE m \in found : to(m) = c
           come == {to(m) : m \in found}
       IN  djColumns' = [c \in (DOMAIN djColumns \ gone) \union come |->
                            IF c \in come THEN djColumns[back(c)[1]] ELSE djColumns[c]]
    /\ reflected' = TRUE /\ at' = "status" /\ todo' = {db} /\ db' = None /\ scope' = {}
    /\ request' = None
    /\ UNCHANGED <<userDatabases, deleted, djSchemas, djTables, djConstraints,
                   djSettings, statements, requests, clean>>

\* add_constraint: the newest constraint of the table is taken for the new one.
AddConstraintRequest(t) ==
    /\ OnTable(t)
    /\ LET k == Max(pg[DbOf(t)][OidOf(t)].constraints \union {0}) + 1 IN
       /\ k <= MaxConstraint
       /\ AddConstraint(DbOf(t), OidOf(t), k)
       /\ djConstraints' = djConstraints \union {<<t, k>>}
    /\ ResetReflection({DbOf(t)}) /\ UNCHANGED request
    /\ InDatabase(DbOf(t))
    /\ UNCHANGED <<djSchemas, djTables, djColumns, djSettings>>

DropConstraintRequest(t, k) ==
    /\ OnTable(t) /\ <<t, k>> \in djConstraints /\ k \in pg[DbOf(t)][OidOf(t)].constraints
    /\ pg' = [pg EXCEPT ![DbOf(t)][OidOf(t)].constraints = @ \ {k}]
    /\ djConstraints' = djConstraints \ {<<t, k>>}
    /\ ResetReflection({DbOf(t)}) /\ UNCHANGED request
    /\ InDatabase(DbOf(t))
    /\ UNCHANGED <<djSchemas, djTables, djColumns, djSettings>>

\* The process is killed or restarted: the flag and the request are lost.
Restart ==
    /\ at # "idle" \/ reflected
    /\ requests < MaxRequests /\ requests' = requests + 1
    /\ reflected' = FALSE
    /\ at' = "idle" /\ todo' = {} /\ db' = None /\ scope' = {} /\ request' = None
    /\ clean' = [d \in Databases |-> IF clean[d] = "so_far" THEN "no" ELSE clean[d]]
    /\ UNCHANGED <<userDatabases, deleted, rows, statements>>

-----------------------------------------------------------------------------
FirstSchema == CHOOSE s \in Schemas : TRUE
FirstColumns == [a \in {1, 2} |->
    IF a = 1 THEN KeyColumn[1]
    ELSE [name |-> CHOOSE n \in Names : n # Id, type |-> CHOOSE y \in Types : TRUE]]

\* The installation has been used: what it reflected agrees with the catalogs, and
\* users have set options for the columns that are not keys.
Init ==
    /\ namespaces = [d \in Databases |-> Schemas]
    /\ \E tables \in [Databases -> (SUBSET Oids) \ {{}}] :
          pg = [d \in Databases |-> [o \in tables[d] |-> NewTable(FirstSchema, FirstColumns)]]
    /\ up = [d \in Databases |-> TRUE]
    /\ deleted = [d \in Databases |-> FALSE]
    /\ djSchemas = Databases \X Schemas
    /\ djTables = UNION {CatalogTables(d) : d \in Databases}
    /\ djColumns = [c \in djTables \X {1, 2} |->
                       IF c[2] = 2 THEN CatalogColumn(c).type ELSE None]
    /\ djConstraints = djTables \X {1}
    /\ djSettings = [t \in djTables |-> Preview(2)]
    /\ reflected = TRUE /\ at = "idle" /\ todo = {} /\ db = None /\ scope = {}
    /\ request = None
    /\ statements = 0 /\ requests = 0
    /\ clean = [d \in Databases |-> "yes"]

\* The steps of the request the worker is serving.
WorkerStep ==
    \/ Unanswered \/ SyncDatabasesStatus \/ DropSchemasOfDeletedDatabase
    \/ ReflectSchemasFromDatabase \/ ReflectTablesFromSchemas \/ CreateTableSettings
    \/ DeleteStaleTables \/ ReflectColumnsFromTables \/ SetDefaultPreviewTemplate
    \/ InvalidateColumnsWithIncorrectDisplayOptions \/ ReflectConstraintsFromDatabase
    \/ SaveOptions \/ RegisterTable \/ MoveData \/ UpdateColumnReference

NewRequest ==
    \/ MakeSureInitialReflectionHappened \/ ReflectAll
    \/ \E d \in Databases : AlterAndReflect(d)
    \/ \E d \in Databases, s \in Schemas, o \in Oids : CreateEmptyTable(d, s, o)
    \/ \E t \in djTables :
          \/ \E n \in Names, y \in Types : AddColumnRequest(t, n, y)
          \/ \E A \in SUBSET Attnums, o \in Oids, n \in Names : SplitTable(t, A, o, n)
          \/ \E A \in SUBSET Attnums, u \in djTables : MoveColumns(t, A, u)
          \/ AddConstraintRequest(t)
          \/ \E a \in Attnums : CustomizePreview(t, a)
          \/ ResetPreview(t)
          \/ \E k \in 1 .. MaxConstraint : DropConstraintRequest(t, k)
    \/ \E c \in DOMAIN djColumns : SetDisplayOptions(c)

Next ==
    \/ WorkerStep
    \/ NewRequest
    \/ \E d \in Databases : OthersChangeDatabase(d) \/ Outage(d)
    \/ Restart

Spec == Init /\ [][Next]_vars
FairSpec == Spec /\ WF_vars(WorkerStep)

-----------------------------------------------------------------------------
TypeOK ==
    /\ \A d \in Databases : namespaces[d] \subseteq Schemas /\ DOMAIN pg[d] \subseteq Oids
    /\ \A d \in Databases : \A o \in DOMAIN pg[d] :
          /\ pg[d][o].schema \in namespaces[d]
          /\ DOMAIN pg[d][o].columns \subseteq 1 .. pg[d][o].last
          /\ pg[d][o].last \in 0 .. MaxAttnum
    /\ up \in [Databases -> BOOLEAN] /\ deleted \in [Databases -> BOOLEAN]
    /\ djSchemas \subseteq Databases \X Schemas /\ djTables \subseteq TableRows
    /\ DOMAIN djColumns \subseteq ColumnRows
    /\ DOMAIN djSettings \subseteq TableRows
    /\ djConstraints \subseteq TableRows \X (1 .. MaxConstraint)
    /\ reflected \in BOOLEAN /\ todo \subseteq Databases
    /\ db \in Databases \union {None} /\ scope \subseteq TableRows
    /\ clean \in [Databases -> {"no", "so_far", "yes"}]

\* Rows refer to rows that exist, whatever failed half-way (the foreign keys of
\* Mathesar's own tables, kept through cascades, re-inserted rows and restarts), and
\* everything keeps its type.
RowsReferToRows ==
    /\ TypeOK
    /\ \A t \in djTables : SchemaOf(t) \in djSchemas
    /\ \A c \in DOMAIN djColumns : c[1] \in djTables
    /\ \A k \in djConstraints : k[1] \in djTables
    /\ DOMAIN djSettings \subseteq djTables

\* "Triggering re-reflection after each mutation should keep state up-to-date": once
\* a database was reflected and nothing has changed since on either side, its rows say
\* what its catalog says, no table is known twice (a table changes its schema), options
\* are those of the column's type, and a preview the user has not customized shows a
\* column that exists.
RowsAgreeWithCatalog ==
    \A d \in Databases : clean[d] = "yes" =>
        /\ TablesOf(d) = {t \in CatalogTables(d) : SchemaOf(t) \in djSchemas}
        /\ \A t \in TablesOf(d) :
              /\ RowsOf(t) = LiveAttnums(t)
              /\ t \in DOMAIN djSettings
              /\ Follows(t) => djSettings[t].column \in RowsOf(t) \union {0}
              /\ \A k \in pg[d][OidOf(t)].constraints : <<t, k>> \in djConstraints
              /\ \A a \in RowsOf(t) :
                    djColumns[<<t, a>>] \in {None, CatalogColumn(<<t, a>>).type}

\* What the user set is not lost by reflecting: while the catalog stays as it is, a
\* reflection takes the display options of a column only if the column is gone from
\* its table or has another type, and a customized preview only if the table is gone
\* from its schema.
LosesOptions(c) == /\ djColumns[c] # None
                   /\ c \notin DOMAIN djColumns' \/ djColumns'[c] # djColumns[c]
LosesPreview(t) == /\ ~Follows(t)
                   /\ t \notin DOMAIN djSettings' \/ djSettings'[t] # djSettings[t]
OptionsKept ==
    [][/\ \A c \in DOMAIN djColumns :
             LosesOptions(c) /\ clean'[DbOf(c[1])] # "no" =>
                 \/ c[2] \notin LiveAttnums(c[1]) \/ c[1] \notin CatalogTables(DbOf(c[1]))
                 \/ CatalogColumn(c).type # djColumns[c]
       /\ \A t \in DOMAIN djSettings :
             LosesPreview(t) /\ clean'[DbOf(t)] # "no" =>
                 t \notin CatalogTables(DbOf(t))]_vars

\* Re-reflection does keep up: a reflection that starts when its databases answer, and
\* that nobody disturbs, brings their rows up to date.
ReflectionCatchesUp ==
    \A d \in Databases :
        (/\ at = "status" /\ d \in todo /\ \A x \in todo : up[x]
         /\ statements = MaxStatements /\ requests = MaxRequests)
            ~> (clean[d] = "yes")
=============================================================================
