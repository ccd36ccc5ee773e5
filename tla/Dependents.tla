----------------------------- MODULE Dependents -----------------------------
(***************************************************************************)
(* What depends on a table or a column, as Mathesar lists it before one is *)
(* dropped (db/dependents/dependents_utils.py), and what PostgreSQL drops. *)
(* Users of a database may have made views of its tables; Mathesar makes   *)
(* none, lists them, and drops them with a table when told to cascade.     *)
(*                                                                         *)
(* Views are a function from oids to the columns they read: pairs of the   *)
(* oid of a table or of another view and an attnum.                        *)
(***************************************************************************)
EXTENDS DataModeling

CONSTANT MAX_LEVEL  \* how far from an object its dependents are listed

ASSUME MaxLevelIsPositive == MAX_LEVEL \in Nat \ {0}

\* mutant: only what PostgreSQL drops of itself.
PG_DEPENDENT_TYPES_Automatic == {"a"}

\* Automatic and normal dependents; internal ones are parts of an object.
PG_DEPENDENT_TYPES == {"a", "n"}

\* Objects: relations, rules of views, constraints and their indexes.
Relation(o) == <<"relation", o>>
Schema == <<"schema", 0>>
Rule(v) == <<"rule", v>>
Index(constraint) == <<"index", constraint>>
PrimaryKey(o) == <<"primary key", o>>
ForeignKeys(db, o) == {<<"foreign key", o, c>> : c \in DOMAIN db[o].fks}
Uniques(db, o) == {<<"unique", o, C>> : C \in db[o].uniques}
ConstraintsOf(db, o) == {PrimaryKey(o)} \cup ForeignKeys(db, o) \cup Uniques(db, o)
ConstraintsIn(db) == UNION {ConstraintsOf(db, o) : o \in DOMAIN db}

TypeOf(obj, views) == CASE obj[1] = "relation" -> IF obj[2] \in DOMAIN views THEN "view" ELSE "table"
                        [] obj[1] \in {"rule", "index"} -> obj[1]
                        [] OTHER -> "table constraint"

\* A row of pg_depend: obj depends on ref, or on its column sub.
Depends(obj, ref, sub, deptype) == [obj |-> obj, ref |-> ref, sub |-> sub, deptype |-> deptype]

pg_depend(db, views) ==
    {Depends(Relation(o), Schema, 0, "n") : o \in DOMAIN db \cup DOMAIN views}
    \cup {Depends(PrimaryKey(o), Relation(o), 1, "a") : o \in DOMAIN db}
    \cup {Depends(Index(k), k, 0, "i") : k \in ConstraintsIn(db) \ UNION {ForeignKeys(db, o) : o \in DOMAIN db}}
    \cup (UNION {UNION {{Depends(k, Relation(o), c, "a") : c \in k[3]} : k \in Uniques(db, o)} : o \in DOMAIN db})
    \cup (UNION {UNION {{Depends(k, Relation(o), k[3], "a"),
                         Depends(k, Relation(db[o].fks[k[3]]), 1, "n"),
                         Depends(k, Index(PrimaryKey(db[o].fks[k[3]])), 0, "n")} : k \in ForeignKeys(db, o)} : o \in DOMAIN db})
    \cup (UNION {{Depends(Rule(v), Relation(x[1]), x[2], "n") : x \in views[v]} : v \in DOMAIN views})
    \cup {Depends(Rule(v), Relation(v), 0, "i") : v \in DOMAIN views}

----------------------------------------------------------------------------
(* The dependents that are listed. *)

_get_dependency_pairs_stmt(db, views) == {d \in pg_depend(db, views) : d.deptype \in PG_DEPENDENT_TYPES}

_get_constraint_dependents(pairs, views) == {d \in pairs : TypeOf(d.obj, views) = "table constraint"}
_get_table_dependents(pairs, views) == {d \in pairs : TypeOf(d.obj, views) = "table"}
_get_index_dependents(pairs, views) == {d \in pairs : TypeOf(d.obj, views) = "index"}
_get_rule_dependents(pairs) == {d \in pairs : d.obj[1] = "rule"}
\* A view depends on what its rule depends on.
_get_view_dependents(rules) == {[d EXCEPT !.obj = Relation(d.obj[2])] : d \in rules}

_get_typed_dependency_pairs_stmt(db, views, exclude_types) ==
    LET pairs == _get_dependency_pairs_stmt(db, views)
        ofType == [type \in {"table constraint", "table", "view", "index"} |->
                     CASE type = "table constraint" -> _get_constraint_dependents(pairs, views)
                       [] type = "table" -> _get_table_dependents(pairs, views)
                       [] type = "view" -> _get_view_dependents(_get_rule_dependents(pairs))
                       [] type = "index" -> _get_index_dependents(pairs, views)]
    IN  UNION {ofType[type] : type \in DOMAIN ofType \ exclude_types}

\* Level by level: the dependents of the object (of one column of it, if one is
\* given), then those of every object of the level before that is not on the
\* way to itself.
get_dependents_graph(db, views, o, exclude_types, attnum) ==
    LET pairs == _get_typed_dependency_pairs_stmt(db, views, exclude_types)
        Entry(d, level, chain) == [obj |-> d.obj, ref |-> d.ref, sub |-> d.sub, level |-> level, chain |-> chain]
        anchor == {Entry(d, 1, <<Relation(o)>>) :
            d \in {d \in pairs : d.ref = Relation(o) /\ d.obj # Relation(o) /\ attnum \in {0, d.sub}}}
        at[level \in 1 .. MAX_LEVEL] ==
            IF level = 1 THEN anchor
            ELSE UNION {{Entry(d, level, Append(e.chain, e.obj)) :
                    d \in {d \in pairs : d.ref = e.obj /\ d.obj \notin Range(e.chain) /\ d.obj # d.ref}} : e \in at[level - 1]}
    IN  UNION Range(at)

Listed(db, views, o, attnum) == {e.obj : e \in get_dependents_graph(db, views, o, {}, attnum)}
\* The listing was cut off: there may be more behind its last level.
IsCutOff(db, views, o, attnum) == \E e \in get_dependents_graph(db, views, o, {}, attnum) : e.level = MAX_LEVEL

has_dependents(db, views, o, attnum) == \E d \in pg_depend(db, views) :
    d.ref = Relation(o) /\ d.deptype \in PG_DEPENDENT_TYPES /\ attnum \in {0, d.sub}

----------------------------------------------------------------------------
(* What PostgreSQL does. *)

\* The views that read one of these columns, and the views that read those.
ViewsOf(views, columns) ==
    LET reading[n \in 0 .. Cardinality(DOMAIN views)] ==
            IF n = 0 THEN {v \in DOMAIN views : views[v] \cap columns # {}}
            ELSE reading[n - 1] \cup {v \in DOMAIN views : \E x \in views[v] : x[1] \in reading[n - 1]}
    IN  reading[Cardinality(DOMAIN views)]

Columns(db, o) == {<<o, c>> : c \in DOMAIN db[o].cols}

\* A column that a view reads cannot be dropped.
CanDropColumns(views, o, C) == ViewsOf(views, {<<o, c>> : c \in C}) = {}

\* With cascade the views go, without it they keep the table.
CanDropRelation(db, views, o, cascade) == cascade \/ (CanDropTable(db, o, FALSE) /\ ViewsOf(views, Columns(db, o)) = {})
DropViews(db, views, o) == Without(views, ViewsOf(views, Columns(db, o)))

\* Views read columns there are, of tables or of other views.
ViewsRead(db, views) == \A v \in DOMAIN views : \A x \in views[v] :
    IF x[1] \in DOMAIN db THEN x[2] \in DOMAIN db[x[1]].cols ELSE x[1] \in DOMAIN views

Objects(db, views) == ConstraintsIn(db) \cup {Relation(o) : o \in DOMAIN db \cup DOMAIN views}
=============================================================================
