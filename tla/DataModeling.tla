---------------------------- MODULE DataModeling ----------------------------
(***************************************************************************)
(* The tables of a user database and the methods that change their shape:  *)
(* rpc/tables, rpc/columns, rpc/constraints and rpc/data_modeling, with    *)
(* the Python wrappers under db/ and the SQL of 00_msar.sql they call.     *)
(* This module is the effect of one method on the tables; who may call it  *)
(* and where it lands is said in RpcMethods.                               *)
(*                                                                         *)
(* A database is a function from oids to tables.  A table has the names of *)
(* its live columns by attnum, the next attnum, its rows by id, the next   *)
(* id, its foreign keys (from a column to the table whose id it holds) and *)
(* its unique constraints.  Column 1 is the id; every other value is a     *)
(* number, zero being NULL.  A method whose guard, CanX, does not hold     *)
(* fails as a whole: it is one transaction.                                *)
(***************************************************************************)
EXTENDS Integers, SequencesExt, Mappings

NULL == 0
IdName == 0
FirstKeyName == 10

EmptyTable == [cols |-> Single(1, IdName), next |-> 2, rows |-> <<>>, nextId |-> 1, fks |-> <<>>, uniques |-> {}]

----------------------------------------------------------------------------
(* Reading a table. *)

ColumnsOf(t) == DOMAIN t.cols \ {1}
NamesOf(t) == Range(t.cols)
NextOid(db) == Max({0} \cup DOMAIN db) + 1


\* The name of a new key column is made unique in its table.
build_unique_fkey_column_name(t) ==
    CHOOSE n \in FirstKeyName .. FirstKeyName + t.next :
        n \notin NamesOf(t) /\ \A m \in FirstKeyName .. n - 1 : m \in NamesOf(t)

\* The values of a row in the columns C.
Part(t, id, C) == [c \in C |-> t.rows[id][c]]

\* ORDER BY the columns, in which NULLs come last, and the place this gives.
IsBefore(v, w) == \E c \in DOMAIN v : /\ v[c] # w[c]
                                      /\ v[c] # NULL /\ (w[c] = NULL \/ v[c] < w[c])
                                      /\ \A d \in DOMAIN v : d < c => v[d] = w[d]
Place(v, V) == 1 + Cardinality({w \in V : IsBefore(w, v)})
At(k, V) == CHOOSE v \in V : Place(v, V) = k

\* A unique constraint lets rows with a NULL pass.
KeysHold(t) == {C \in t.uniques : \E i, j \in DOMAIN t.rows :
    i # j /\ Part(t, i, C) = Part(t, j, C) /\ NULL \notin Range(Part(t, i, C))} = {}

\* Every reference is NULL or to a row of the table it refers to.
RowsReferredTo(db, o) == IF o \in DOMAIN db THEN DOMAIN db[o].rows ELSE {}
KeysRefer(db) == \A o \in DOMAIN db : \A c \in DOMAIN db[o].fks : \A id \in DOMAIN db[o].rows :
    db[o].rows[id][c] \in {NULL} \cup RowsReferredTo(db, db[o].fks[c])

ReferredTo(db, o) == \E p \in DOMAIN db \ {o} : o \in Range(db[p].fks)

----------------------------------------------------------------------------
(* Changing one table. *)

Without(f, S) == Restrict(f, DOMAIN f \ S)

\* New columns take the next attnums and are NULL in every row.
add_columns(t, names) ==
    LET new == [a \in t.next .. t.next + Len(names) - 1 |-> names[a - t.next + 1]]
    IN  [t EXCEPT !.cols = @ ++ new, !.next = @ + Len(names),
                  !.rows = [id \in DOMAIN @ |-> @[id] ++ [a \in DOMAIN new |-> NULL]]]

\* The constraints of a dropped column go with it; its attnum is never used again.
drop_columns(t, C) == [t EXCEPT !.cols = Without(@, C),
                                !.rows = [id \in DOMAIN @ |-> Without(@[id], C)],
                                !.fks = Without(@, C),
                                !.uniques = {U \in @ : U \cap C = {}}]

\* A key column to table ref: all NULL until somebody fills it.
WithKey(t, ref, unique) ==
    [add_columns(t, <<build_unique_fkey_column_name(t)>>)
        EXCEPT !.fks = @ ++ Single(t.next, ref), !.uniques = @ \cup IF unique THEN {{t.next}} ELSE {}]

----------------------------------------------------------------------------
(* tables.add, tables.delete, columns.add, columns.patch, columns.delete,  *)
(* constraints.add, constraints.delete.                                    *)

AddTable(db, names) == db ++ Single(NextOid(db), add_columns(EmptyTable, names))

CanDropTable(db, o, cascade) == cascade \/ ~ReferredTo(db, o)
\* With cascade the constraints that refer to the table go, their columns stay.
DropTable(db, o) == [p \in DOMAIN db \ {o} |->
    [db[p] EXCEPT !.fks = Restrict(@, {c \in DOMAIN @ : @[c] # o})]]

CanAddColumns(t, names) == Range(names) \cap NamesOf(t) = {} /\ IsInjective(names)
CanRename(t, c, name) == c \in ColumnsOf(t) /\ name \notin NamesOf(t)
Rename(t, c, name) == [t EXCEPT !.cols[c] = name]

CanAddUnique(t, C) == C \subseteq ColumnsOf(t) /\ KeysHold([t EXCEPT !.uniques = {C}])
AddUnique(t, C) == [t EXCEPT !.uniques = @ \cup {C}]
AddForeignKey(db, o, c, ref) == [db EXCEPT ![o].fks = Single(c, ref) ++ @]
CanAddForeignKey(db, o, c, ref) == c \in ColumnsOf(db[o]) /\ KeysRefer(AddForeignKey(db, o, c, ref))
DropUnique(t, C) == [t EXCEPT !.uniques = @ \ {C}]
DropForeignKey(t, c) == [t EXCEPT !.fks = Without(@, {c})]

(* data_modeling.add_foreign_key_column, add_mapping_table. *)

AddForeignKeyColumn(db, o, ref, unique) == [db EXCEPT ![o] = WithKey(@, ref, unique)]

\* A key column for every table in turn.
AddMappingTable(db, refs) ==
    LET with[k \in 0 .. Len(refs)] == IF k = 0 THEN EmptyTable ELSE WithKey(with[k - 1], refs[k], FALSE)
    IN  db ++ Single(NextOid(db), with[Len(refs)])

----------------------------------------------------------------------------
(* data_modeling.split_table *)

\* The constraints copied for columns that go to another table, where column c
\* becomes to[c]: keys of one column, and of a unique constraint of several
\* columns only the first, alone.
ExtractedKeys(t, to) == [a \in {to[c] : c \in DOMAIN to \cap DOMAIN t.fks} |->
    t.fks[CHOOSE c \in DOMAIN to : to[c] = a]]
ExtractedUniques(t, to) == {{to[Min(U)]} : U \in {V \in t.uniques : Min(V) \in DOMAIN to}}

\* The columns C of a new table, in their order, after its id.
NewPlaces(C, from) == [c \in C |-> from + Cardinality({d \in C : d < c})]

Tuples(t, C) == {Part(t, id, C) : id \in DOMAIN t.rows}

\* mutant: rows are numbered by their ids, and not by the rank of what they hold.
Extracted_ById(t, C) == LET to == NewPlaces(C, 2) IN
    [add_columns(EmptyTable, [k \in 1 .. Cardinality(C) |-> t.cols[CHOOSE c \in C : to[c] = k + 1]])
        EXCEPT !.rows = [k \in DOMAIN t.rows |-> [a \in Range(to) |-> t.rows[k][CHOOSE c \in C : to[c] = a]]],
               !.nextId = t.nextId, !.fks = ExtractedKeys(t, to), !.uniques = ExtractedUniques(t, to)]

\* The new table: the distinct tuples, inserted in their order, so that the ids
\* the table gives them are their ranks.
Extracted(t, C) ==
    LET to == NewPlaces(C, 2)
        V == Tuples(t, C)
    IN  [add_columns(EmptyTable, [k \in 1 .. Cardinality(C) |-> t.cols[CHOOSE c \in C : to[c] = k + 1]])
            EXCEPT !.rows = [k \in 1 .. Cardinality(V) |-> [a \in Range(to) |-> At(k, V)[CHOOSE c \in C : to[c] = a]]],
                   !.nextId = Cardinality(V) + 1, !.fks = ExtractedKeys(t, to), !.uniques = ExtractedUniques(t, to)]

\* mutant: row_number, which tells rows with equal values apart.
dense_rank_RowNumber(t, id, C) ==
    1 + Cardinality({r \in DOMAIN t.rows : \/ IsBefore(Part(t, r, C), Part(t, id, C))
                                           \/ (Part(t, r, C) = Part(t, id, C) /\ r < id)})

dense_rank(t, id, C) == Place(Part(t, id, C), Tuples(t, C))

CanSplit(t, C) == C # {} /\ C \subseteq ColumnsOf(t) /\ KeysHold(Extracted(t, C))

\* The remainder refers to the tuples by dense_rank and loses the columns.
extract_columns_from_table(db, o, C) ==
    LET t == db[o]
        ranked == [WithKey(t, NextOid(db), FALSE)
                     EXCEPT !.rows = [id \in DOMAIN @ |-> [@[id] EXCEPT ![t.next] = dense_rank(t, id, C)]]]
    IN  [db EXCEPT ![o] = drop_columns(ranked, C)] ++ Single(NextOid(db), Extracted(t, C))

----------------------------------------------------------------------------
(* data_modeling.move_columns *)

\* The first key column from a table to another joins the two.
JoinColumns(t, target) == {c \in DOMAIN t.fks : t.fks[c] = target}
JoinColumn(t, target) == Min(JoinColumns(t, target))

OthersOf(t, id) == Part(t, id, ColumnsOf(t))

\* What the rows that refer to one row of the target hold in the moved columns.
Moved(s, f, C, id) == {Part(s, r, C) : r \in {r \in DOMAIN s.rows : s.rows[r][f] = id}}

\* Rows of the target that are copied: all but the first tuple of each gets a row.
Copied(s, f, C, t) == {x \in (DOMAIN t.rows) \X Tuples(s, C) :
    x[2] \in Moved(s, f, C, x[1]) /\ Place(x[2], Moved(s, f, C, x[1])) > 1}

\* The ids of the copies, one after the other.
CopyId(copies, t, x) == t.nextId + Cardinality({y \in copies : y[1] < x[1] \/ (y[1] = x[1] /\ IsBefore(y[2], x[2]))})


\* Which row of the target a row refers to afterwards: a copy of what it
\* referred to that holds its values.  Values are compared with =, which is
\* never true of a NULL.
NewReference(s, f, C, t, copies, r) ==
    LET like == {x \in copies : /\ s.rows[r][f] \in DOMAIN t.rows
                                /\ OthersOf(t, x[1]) = OthersOf(t, s.rows[r][f])
                                /\ x[2] = Part(s, r, C) /\ NULL \notin Range(x[2])}
    IN  IF like # {} THEN CopyId(copies, t, CHOOSE x \in like : TRUE) ELSE s.rows[r][f]

\* The target: every row gets the first tuple of those that refer to it, NULLs
\* when none does, and the other tuples get copies of the row.
Target(s, f, C, t) ==
    LET to == NewPlaces(C, t.next)
        copies == Copied(s, f, C, t)
        From(v) == [a \in Range(to) |-> v[CHOOSE c \in C : to[c] = a]]
        FirstOf(id) == IF Moved(s, f, C, id) = {} THEN [c \in C |-> NULL] ELSE At(1, Moved(s, f, C, id))
        names == [k \in 1 .. Cardinality(C) |-> s.cols[CHOOSE c \in C : to[c] = t.next + k - 1]]
    IN  [add_columns(t, names) EXCEPT
            !.rows = [id \in DOMAIN t.rows |-> t.rows[id] ++ From(FirstOf(id))]
                     ++ [i \in {CopyId(copies, t, x) : x \in copies} |->
                            LET x == CHOOSE y \in copies : CopyId(copies, t, y) = i
                            IN  t.rows[x[1]] ++ From(x[2])],
            !.nextId = @ + Cardinality(copies),
            !.fks = @ ++ ExtractedKeys(s, to),
            !.uniques = @ \cup ExtractedUniques(s, to)]

move_columns_to_referenced_table(db, o, target, C) ==
    LET s == db[o]
        t == db[target]
        f == JoinColumn(s, target)
        copies == Copied(s, f, C, t)
        referring == [s EXCEPT !.rows = [r \in DOMAIN @ |-> [@[r] EXCEPT ![f] = NewReference(s, f, C, t, copies, r)]]]
    IN  [db EXCEPT ![target] = Target(s, f, C, t), ![o] = drop_columns(referring, C)]

\* Two tables without a key between them cannot be joined; the joining column
\* cannot be moved; a name may not be taken; and a target that has nothing but
\* its id leaves the join of the copies without a condition, an error.
CanMove(db, o, target, C) ==
    /\ o # target /\ C # {} /\ C \subseteq ColumnsOf(db[o])
    /\ JoinColumns(db[o], target) # {} /\ JoinColumn(db[o], target) \notin C
    /\ {db[o].cols[c] : c \in C} \cap NamesOf(db[target]) = {}
    /\ ColumnsOf(db[target]) # {}
    /\ LET after == move_columns_to_referenced_table(db, o, target, C)
       IN  KeysHold(after[o]) /\ KeysHold(after[target])

----------------------------------------------------------------------------
(* The rows the database users see: what a row holds in a column, there or *)
(* in the row it refers to.                                                *)

\* The value of a row in the column of this name, looked for in the table
\* and then in the tables it refers to.
ColumnNamed(t, name) == CHOOSE c \in DOMAIN t.cols : t.cols[c] = name

ValueBehind(db, o, r, f, name) ==
    LET target == db[db[o].fks[f]]
    IN  target.rows[db[o].rows[r][f]][ColumnNamed(target, name)]

\* The shape of a table: rows have a value for every column, columns have different
\* names, and constraints are on columns there are.
TableOK(t) ==
    /\ 1 \in DOMAIN t.cols /\ DOMAIN t.cols \subseteq 1 .. t.next - 1
    /\ IsInjective(t.cols)
    /\ DOMAIN t.rows \subseteq 1 .. t.nextId - 1
    /\ \A id \in DOMAIN t.rows : DOMAIN t.rows[id] = ColumnsOf(t)
    /\ DOMAIN t.fks \subseteq ColumnsOf(t)
    /\ t.uniques \subseteq (SUBSET ColumnsOf(t)) \ {{}}

\* A table as methods find it and leave it: its parts are of their types, too.
WellFormed(t) ==
    /\ DOMAIN t = {"cols", "next", "rows", "nextId", "fks", "uniques"}
    /\ t.next \in Nat \ {0} /\ t.nextId \in Nat \ {0}
    /\ t.cols \in [DOMAIN t.cols -> Nat]
    /\ t.rows \in [DOMAIN t.rows -> [ColumnsOf(t) -> Nat]]
    /\ t.fks \in [DOMAIN t.fks -> Nat]
    /\ TableOK(t) /\ t.cols[1] = IdName
=============================================================================
