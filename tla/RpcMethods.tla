----------------------------- MODULE RpcMethods -----------------------------
(***************************************************************************)
(* The JSON-RPC methods together: a method on a user database opens it as  *)
(* the collaborator who calls (rpc/utils.py), does what DataModeling says  *)
(* in one transaction of that database, and keeps what Mathesar adds to it *)
(* (metadata of tables and columns, explorations) in Django rows by the    *)
(* id of the Database row; DatabaseSetup says how those rows come and go.  *)
(***************************************************************************)
EXTENDS DatabaseSetup, Dependents

CONSTANTS
    DataNames,        \* names of columns
    Values,           \* what they hold, besides NULL
    ExplorationNames,
    Budgets,          \* calls of each kind a behaviour may make
    InitialTables,    \* the tables a user database may start with
    InitialViews,     \* the views of them its users may have made
    MaxTables, MaxRows, MaxColumns

Kinds == {"setup", "shape", "row", "extra"}

\* New tables take natural numbers for their oids, so that views have negative ones.
ASSUME RpcAssumption ==
    /\ IsFiniteSet(DataNames) /\ Values \subseteq 1 .. 9 /\ DataNames \subseteq 1 .. FirstKeyName - 1
    /\ MaxTables \in Nat /\ MaxRows \in Nat /\ MaxColumns \in Nat
    /\ Budgets \subseteq [Kinds -> Nat]
    /\ \A db \in InitialTables : /\ DOMAIN db \subseteq 1 .. MaxTables /\ db = [o \in DOMAIN db |-> db[o]]
                                 /\ (\A o \in DOMAIN db : WellFormed(db[o])) /\ KeysRefer(db)
    /\ \A v \in InitialViews : /\ IsFiniteSet(DOMAIN v) /\ DOMAIN v \subseteq Int \ Nat
                                /\ v \in [DOMAIN v -> SUBSET (Int \X Int)]

VARIABLES
    tables,        \* the tables of every place
    views,         \* the views of every place
    columnMeta,    \* ColumnMetaData rows: database, table and attnum to the digits shown
    tableMeta,     \* TableMetaData rows: database and table
    explorations,  \* Explorations rows, by their name: the database and the base table
    budget         \* the calls left

extras == <<columnMeta, tableMeta, explorations>>
setupVars == <<djangoRows, serverSide, setup>>
userData == <<tables, views>>
vars == <<setupVars, userData, extras, budget>>

Spend(kind) == budget[kind] > 0 /\ budget' = [budget EXCEPT ![kind] = @ - 1]

----------------------------------------------------------------------------
(* Methods on the tables of a database: rpc/tables, columns, constraints,  *)
(* data_modeling.                                                          *)

\* One transaction on the tables of a place a caller reaches.
Method(p, db) == /\ Spend("shape") /\ p \in Usable /\ db # tables[p]
                 /\ tables' = [tables EXCEPT ![p] = db]
                 /\ UNCHANGED <<setupVars, views, extras>>
OnTable(p, o, t) == Method(p, [tables[p] EXCEPT ![o] = t])
HasRoom(p) == Cardinality(DOMAIN tables[p]) < MaxTables
Narrow(t, n) == Cardinality(DOMAIN t.cols) + n <= MaxColumns

tables_add(p) == \E n \in DataNames : HasRoom(p) /\ Method(p, AddTable(tables[p], <<n>>))
tables_delete(p, o, cascade) ==
    /\ Spend("shape") /\ p \in Usable /\ CanDropRelation(tables[p], views[p], o, cascade)
    /\ tables' = [tables EXCEPT ![p] = DropTable(@, o)]
    /\ views' = [views EXCEPT ![p] = DropViews(tables[p], @, o)]
    /\ UNCHANGED <<setupVars, extras>>
columns_add(p, o) == \E n \in DataNames :
    /\ CanAddColumns(tables[p][o], <<n>>) /\ Narrow(tables[p][o], 1)
    /\ OnTable(p, o, add_columns(tables[p][o], <<n>>))
columns_patch(p, o) == \E c \in ColumnsOf(tables[p][o]), n \in DataNames :
    CanRename(tables[p][o], c, n) /\ OnTable(p, o, Rename(tables[p][o], c, n))
columns_delete(p, o, C) == CanDropColumns(views[p], o, C) /\ OnTable(p, o, drop_columns(tables[p][o], C))
constraints_add(p, o, C) ==
    \/ CanAddUnique(tables[p][o], C) /\ OnTable(p, o, AddUnique(tables[p][o], C))
    \/ \E c \in C, ref \in DOMAIN tables[p] :
        /\ C = {c} /\ CanAddForeignKey(tables[p], o, c, ref)
        /\ Method(p, AddForeignKey(tables[p], o, c, ref))
constraints_delete(p, o) ==
    \/ \E C \in tables[p][o].uniques : OnTable(p, o, DropUnique(tables[p][o], C))
    \/ \E c \in DOMAIN tables[p][o].fks : OnTable(p, o, DropForeignKey(tables[p][o], c))
add_foreign_key_column(p, o, ref, unique) ==
    Narrow(tables[p][o], 1) /\ Method(p, AddForeignKeyColumn(tables[p], o, ref, unique))
add_mapping_table(p, refs) == HasRoom(p) /\ Method(p, AddMappingTable(tables[p], refs))
split_table(p, o, C) ==
    /\ HasRoom(p) /\ CanSplit(tables[p][o], C) /\ CanDropColumns(views[p], o, C)
    /\ Method(p, extract_columns_from_table(tables[p], o, C))
move_columns(p, o, target, C) ==
    /\ CanMove(tables[p], o, target, C) /\ CanDropColumns(views[p], o, C) /\ Narrow(tables[p][target], Cardinality(C))
    /\ Method(p, move_columns_to_referenced_table(tables[p], o, target, C))

\* What rows may hold: a reference is to a row of the table it refers to.
RowsOf(db, o) ==
    {row \in [ColumnsOf(db[o]) -> Values \cup {NULL} \cup UNION {DOMAIN db[db[o].fks[c]].rows : c \in DOMAIN db[o].fks}] :
        \A c \in ColumnsOf(db[o]) : IF c \in DOMAIN db[o].fks THEN row[c] \in {NULL} \cup DOMAIN db[db[o].fks[c]].rows
                                                           ELSE row[c] \in Values \cup {NULL}}

\* One statement on the rows of a table: refused if it breaks a key.
OnRows(p, o, rows) ==
    LET t == [tables[p][o] EXCEPT !.rows = rows, !.nextId = Max({@} \cup {id + 1 : id \in DOMAIN rows})]
    IN  /\ Spend("row") /\ p \in Usable /\ rows # tables[p][o].rows
        /\ KeysHold(t) /\ KeysRefer([tables[p] EXCEPT ![o] = t])
        /\ tables' = [tables EXCEPT ![p][o] = t]
        /\ UNCHANGED <<setupVars, views, extras>>

records_add(p, o, row) == /\ Cardinality(DOMAIN tables[p][o].rows) < MaxRows
                          /\ OnRows(p, o, tables[p][o].rows ++ Single(tables[p][o].nextId, row))
\* The columns that are not given stay as they are.
records_patch(p, o, id, new) == OnRows(p, o, [tables[p][o].rows EXCEPT ![id] = new ++ @])
records_delete(p, o, ids) == OnRows(p, o, Without(tables[p][o].rows, ids))

----------------------------------------------------------------------------
(* Rows kept for a database: columns.metadata, tables.metadata,            *)
(* explorations.                                                           *)

\* Metadata that breaks this constraint is refused by Django's database.
frac_digits_integrity(m) == m.min <= m.max
Digits == {[min |-> 1, max |-> 2], [min |-> 2, max |-> 1]}

\* A row for each column in turn: one that is refused ends the call, and the
\* rows before it stay.
set_columns_meta_data(d, o, list) ==
    LET refused == {k \in DOMAIN list : ~frac_digits_integrity(list[k].meta)}
        saved == {k \in DOMAIN list : \A j \in refused : k < j}
    IN  /\ d \in DOMAIN databases /\ saved # {}
        /\ columnMeta' = [x \in {<<d, o, list[k].attnum>> : k \in saved} |->
                            list[CHOOSE k \in saved : list[k].attnum = x[3]].meta] ++ columnMeta
        /\ Spend("extra") /\ UNCHANGED <<setupVars, userData, tableMeta, explorations>>

\* Setting enters a row, and so does reading one there is none of.
set_table_meta_data(d, o) ==
    /\ d \in DOMAIN databases /\ <<d, o>> \notin tableMeta
    /\ tableMeta' = tableMeta \cup {<<d, o>>}
    /\ Spend("extra") /\ UNCHANGED <<setupVars, userData, columnMeta, explorations>>

\* Names of explorations are unique over all databases.
explorations_add(name, d, o) ==
    /\ name \notin DOMAIN explorations /\ d \in DOMAIN databases
    /\ explorations' = explorations ++ Single(name, [database |-> d, base |-> o])
    /\ Spend("extra") /\ UNCHANGED <<setupVars, userData, columnMeta, tableMeta>>
explorations_replace(name, new, d, o) ==
    /\ name \in DOMAIN explorations /\ (new = name \/ new \notin DOMAIN explorations) /\ d \in DOMAIN databases
    /\ explorations' = Single(new, [database |-> d, base |-> o]) ++ Without(explorations, {name})
    /\ Spend("extra") /\ UNCHANGED <<setupVars, userData, columnMeta, tableMeta>>
explorations_delete(name) ==
    /\ name \in DOMAIN explorations
    /\ explorations' = Without(explorations, {name})
    /\ Spend("extra") /\ UNCHANGED <<setupVars, userData, columnMeta, tableMeta>>

----------------------------------------------------------------------------
(* Methods on the rows of DatabaseSetup. *)

Setting == Spend("setup") /\ UNCHANGED <<userData, extras>>
Free == UNCHANGED <<userData, extras, budget>>

\* What is kept for a database goes with its row.
disconnect(d) ==
    /\ databases_configured_disconnect(d)
    /\ columnMeta' = Restrict(columnMeta, {x \in DOMAIN columnMeta : x[1] # d})
    /\ tableMeta' = {x \in tableMeta : x[1] # d}
    /\ explorations' = Restrict(explorations, {n \in DOMAIN explorations : explorations[n].database # d})
    /\ UNCHANGED userData /\ Spend("setup")

DropDatabase(u, d, place) ==
    /\ databases_delete(u, d, place)
    /\ tables' = [tables EXCEPT ![place] = <<>>] /\ views' = [views EXCEPT ![place] = <<>>]
    /\ Spend("setup") /\ UNCHANGED extras

SetupMethods ==
    \/ Setting /\ \E u \in Superusers, name \in Names, data \in Samples :
        \/ set_up_new_database_for_user_on_internal_server(u, name, data)
        \/ \E host \in Hosts, role \in Roles, password \in Passwords :
            set_up_preexisting_database_for_user(u, host, name, role, password, data)
    \/ Free /\ (Connect \/ install_mathesar \/ FinishSetup \/ LoseSetup \/ BreakSetup)
    \/ Setting /\ \E u \in Users, host \in Hosts, name \in Names, role \in Roles, password \in Passwords :
        migrate_connection_for_user(u, host, name, role, password)
    \/ Setting /\ \E u \in Users, d \in DOMAIN databases :
        \/ collaborators_delete(u, d)
        \/ \E key \in DOMAIN configuredRoles : collaborators_add(u, d, key) \/ collaborators_set_role(u, d, key)
    \/ Setting /\ \E host \in Hosts, role \in Roles, password \in Passwords :
        \/ roles_configured_add(host, role, password)
        \/ roles_configured_set_password(<<host, role>>, password)
        \/ OthersChangePassword(host, role, password)
    \/ Setting /\ \E key \in DOMAIN configuredRoles : roles_configured_delete(key)
    \/ \E d \in DOMAIN databases : disconnect(d)
    \/ \E u \in Users, d \in DOMAIN databases, place \in DOMAIN parts : DropDatabase(u, d, place)

ShapeMethods(p) ==
    \/ tables_add(p)
    \/ \E o, ref \in DOMAIN tables[p] : add_mapping_table(p, <<o, ref>>)
    \/ \E o \in DOMAIN tables[p] :
        \/ columns_add(p, o) \/ columns_patch(p, o) \/ constraints_delete(p, o)
        \/ \E cascade \in BOOLEAN : tables_delete(p, o, cascade)
        \/ \E ref \in DOMAIN tables[p], unique \in BOOLEAN : add_foreign_key_column(p, o, ref, unique)
        \/ \E C \in (SUBSET ColumnsOf(tables[p][o])) \ {{}} :
            \/ columns_delete(p, o, C) \/ constraints_add(p, o, C) \/ split_table(p, o, C)
            \/ \E target \in DOMAIN tables[p] : move_columns(p, o, target, C)

RowMethods(p, o) ==
    \/ \E row \in RowsOf(tables[p], o) :
        \/ records_add(p, o, row)
        \/ \E id \in DOMAIN tables[p][o].rows, c \in DOMAIN row : records_patch(p, o, id, Single(c, row[c]))
    \/ \E ids \in {{id} : id \in DOMAIN tables[p][o].rows} \cup {DOMAIN tables[p][o].rows} : records_delete(p, o, ids)

TableMethods == \E p \in Usable :
    \/ budget["shape"] > 0 /\ ShapeMethods(p)
    \/ budget["row"] > 0 /\ \E o \in DOMAIN tables[p] : RowMethods(p, o)

ExtraMethods == \E d \in DOMAIN databases, o \in 1 .. 1 :
    \/ set_table_meta_data(d, o)
    \/ \E m, n \in Digits : set_columns_meta_data(d, o, <<[attnum |-> 2, meta |-> m], [attnum |-> 3, meta |-> n]>>)
    \/ \E name \in ExplorationNames :
        \/ explorations_add(name, d, o) \/ explorations_delete(name)
        \/ \E new \in ExplorationNames : explorations_replace(name, new, d, o)

Next == SetupMethods \/ TableMethods \/ ExtraMethods

----------------------------------------------------------------------------

\* Nothing is set up yet: the servers have their databases.
Fresh ==
    /\ servers = {} /\ databases = <<>> /\ configuredRoles = <<>> /\ maps = <<>> /\ nextId = 1
    /\ parts = [p \in {q \in Places : q[1] # InternalHost \/ q[2] = InternalName} |-> {}]
    /\ tables = [p \in Places |-> <<>>] /\ views = tables

\* A superuser has set up a database with tables in it.
Connected ==
    \E place \in {p \in Places : p[1] # InternalHost /\ p[2] # InternalName}, r \in Roles, u \in Superusers :
    LET key == <<place[1], r>>
    IN  /\ servers = {place[1]} /\ databases = Single(1, place) /\ nextId = 2
        /\ configuredRoles = Single(key, InitialPassword[place[1]])
        /\ maps = Single(<<u, 1>>, [role |-> key, server |-> place[1]])
        /\ parts = [p \in {q \in Places : q[1] # InternalHost \/ q[2] = InternalName} |->
                        IF p = place THEN Parts ELSE {}]
        /\ \E db \in InitialTables, v \in InitialViews :
            /\ ViewsRead(db, v)
            /\ tables = [p \in Places |-> IF p = place THEN db ELSE <<>>]
            /\ views = [p \in Places |-> IF p = place THEN v ELSE <<>>]

Init ==
    /\ Fresh \/ Connected
    /\ passwords = [x \in Hosts \X Roles |-> InitialPassword[x[1]]]
    /\ samples = [p \in DOMAIN parts |-> {}]
    /\ setup = {} /\ bare = {}
    /\ columnMeta = <<>> /\ tableMeta = {} /\ explorations = <<>>
    /\ budget \in Budgets

Spec == Init /\ [][Next]_vars

----------------------------------------------------------------------------
(* Properties. *)

\* Type correctness: rows have a value for every column of their table and for no other, columns
\* of one table have different names, and constraints are on columns there are.
TypeOK ==
    /\ servers \subseteq Hosts
    /\ DOMAIN databases \subseteq 1 .. MaxIds /\ Range(databases) \subseteq Places /\ IsInjective(databases)
    /\ DOMAIN configuredRoles \subseteq Hosts \X Roles /\ Range(configuredRoles) \subseteq Passwords
    /\ nextId \in 1 .. MaxIds + 1 /\ Cardinality(setup) <= 1
    /\ DOMAIN parts \subseteq Places /\ DOMAIN samples = DOMAIN parts
    /\ \A p \in DOMAIN parts : parts[p] \subseteq Parts
    /\ \A p \in Places : \A o \in DOMAIN tables[p] : TableOK(tables[p][o])
    /\ \A p \in Places : ViewsRead(tables[p], views[p])

\* Every Django row refers to rows there are: no collaborator, metadata or
\* exploration outlives its database or its role, also when these are deleted
\* while a set-up that found them is under way, whose commit is then refused.
\* Tables keep their shape through every method.
RowsReferToRows ==
    /\ TypeOK
    /\ \A d \in DOMAIN databases : databases[d][1] \in servers
    /\ \A key \in DOMAIN configuredRoles : key[1] \in servers
    /\ \A x \in DOMAIN maps : /\ x[2] \in DOMAIN databases
                              /\ maps[x].role \in DOMAIN configuredRoles /\ maps[x].server \in servers
    /\ \A x \in DOMAIN columnMeta \cup tableMeta : x[1] \in DOMAIN databases
    /\ \A n \in DOMAIN explorations : explorations[n].database \in DOMAIN databases

\* A database that Mathesar lists has everything of Mathesar's installed, whatever
\* set-ups broke before and whatever went between the steps of the last one, but for
\* the list of domains (which an installation that broke leaves empty for good) and
\* unless it was dropped, or listed by an old-style connection, and not set up since.
RegisteredDatabasesAreInstalled == \A d \in DOMAIN databases :
    \/ databases[d] \in bare
    \/ databases[d] \in DOMAIN parts /\ Parts \ {"tld_rows"} \subseteq parts[databases[d]]

SetUpUserCanConnect ==
    FinishSetup => (\A x \in {<<Job.user, Job.database>>} :
        (/\ x \in DOMAIN maps' /\ maps'[x] = [role |-> Job.role, server |-> Job.place[1]]
         /\ "map" \in Job.new => configuredRoles'[Job.role] = Job.stored) => connect(x[2], x[1])')
ConnectionsStay == \A x \in DOMAIN maps : connect(x[2], x[1]) => connect(x[2], x[1])'
MigrationsKeepConnections ==
    servers # servers' \/ databases # databases' \/ configuredRoles # configuredRoles' \/ maps # maps' =>
        \A u \in Users, host \in Hosts, name \in Names, role \in Roles, password \in Passwords :
            migrate_connection_for_user(u, host, name, role, password) => ConnectionsStay

\* No set-up, whatever password it is given and wherever it breaks, and no old-style
\* connection takes from a collaborator a connection that worked; and a set-up that
\* succeeds leaves its user with a connection that works, though it was given a
\* password and uses the one stored before, unless the user's map was changed or
\* removed meanwhile, or it is new and the stored password changed.
SetUpsKeepConnections ==
    [][/\ SetUpUserCanConnect /\ MigrationsKeepConnections
       /\ (setup # {} \/ setup' # {}) /\ budget' = budget => ConnectionsStay]_vars

\* References are to rows there are, after every method: the ids computed by a
\* split and a move are those the rows were given.
ReferencesHold == \A p \in Places : KeysRefer(tables[p])

\* The tables that are there after a method, those that lose columns and those that get some.
Staying(p) == DOMAIN tables[p] \cap DOMAIN tables'[p]
Narrower(p) == {o \in Staying(p) : ~(DOMAIN tables[p][o].cols \subseteq DOMAIN tables'[p][o].cols)}
Wider(p) == {o \in Staying(p) : tables[p][o].next < tables'[p][o].next}

SplitKeepsValues ==
    \A p \in {q \in Usable : DOMAIN tables[q] # DOMAIN tables'[q]} :
        \A o \in Narrower(p) : \A C \in SUBSET ColumnsOf(tables[p][o]) :
    split_table(p, o, C) => \A r \in DOMAIN tables[p][o].rows, c \in C :
        ValueBehind(tables'[p], o, r, tables[p][o].next, tables[p][o].cols[c]) = tables[p][o].rows[r][c]

MoveKeepsValues ==
    \A p \in {q \in Usable : DOMAIN tables[q] = DOMAIN tables'[q]} :
        \A o \in Narrower(p), target \in Wider(p) : \A C \in SUBSET ColumnsOf(tables[p][o]) :
    move_columns(p, o, target, C) =>
        LET s == tables[p][o]
            t == tables[p][target]
            f == JoinColumn(s, target)
        IN  /\ \A r \in DOMAIN s.rows : (s.rows[r][f] # NULL /\ NULL \notin Range(Part(s, r, C))) =>
                /\ \A c \in C : ValueBehind(tables'[p], o, r, f, s.cols[c]) = s.rows[r][c]
                /\ \A c \in ColumnsOf(t) : ValueBehind(tables'[p], o, r, f, t.cols[c]) = t.rows[s.rows[r][f]][c]
            /\ \A id \in DOMAIN t.rows : Part(tables'[p][target], id, ColumnsOf(t)) = OthersOf(t, id)

\* After a split, every row finds what it held in the extracted columns in the row it
\* now refers to.  After a move, a row that had no NULL in the moved columns and in its
\* reference finds what it held, and what it referred to held, in the row it now refers
\* to, and the rows of the target keep what they had.
ValuesAreKept == [][tables' # tables => SplitKeepsValues /\ MoveKeepsValues]_vars

\* What "IS NOT DISTINCT FROM" would give, which a comment in the code asks for: after a
\* move NULLs are found behind the reference too.
MovesMatchNulls == [][\A p \in {q \in Usable : DOMAIN tables[q] = DOMAIN tables'[q]} :
    \A o \in Narrower(p), target \in Wider(p) : \A C \in SUBSET ColumnsOf(tables[p][o]) :
        move_columns(p, o, target, C) =>
            LET s == tables[p][o]
                f == JoinColumn(s, target)
            IN  \A r \in DOMAIN s.rows, c \in C : s.rows[r][f] # NULL =>
                    ValueBehind(tables'[p], o, r, f, s.cols[c]) = s.rows[r][c]]_vars

GoneFrom(p) == Objects(tables[p], views[p]) \ Objects(tables'[p], views'[p])
GoneColumns(p, o) == ColumnsOf(tables[p][o]) \ ColumnsOf(tables'[p][o])

\* What is listed for a table before it is deleted is what goes with it, and no
\* column of another table; what a listing that is not cut off leaves out stays.
\* The same is true of columns, and columns without dependents take nothing along.
DependentsForetellDrops == [][budget'["shape"] < budget["shape"] => \A p \in {q \in Usable : GoneFrom(q) # {}} :
    /\ \A o \in DOMAIN tables[p] \ DOMAIN tables'[p] :
        LET listed == Listed(tables[p], views[p], o, 0)
        IN  /\ listed \subseteq GoneFrom(p)
            /\ GoneFrom(p) \subseteq listed \cup {Relation(o)} \/ IsCutOff(tables[p], views[p], o, 0)
            /\ \A q \in DOMAIN tables'[p] : tables'[p][q].cols = tables[p][q].cols
    /\ \A o \in DOMAIN tables[p] \cap DOMAIN tables'[p] :
        (GoneColumns(p, o) # {} /\ DOMAIN tables[p] = DOMAIN tables'[p] /\ \A q \in DOMAIN tables[p] \ {o} : tables'[p][q] = tables[p][q]) =>
        /\ GoneFrom(p) = UNION {Listed(tables[p], views[p], o, c) : c \in GoneColumns(p, o)}
        /\ \E c \in GoneColumns(p, o) : has_dependents(tables[p], views[p], o, c)]_vars
=============================================================================
