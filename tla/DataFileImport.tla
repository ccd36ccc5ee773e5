----------------------------- MODULE DataFileImport -----------------------------
(***************************************************************************)
(* A data file uploaded and imported into a new table, the types inferred   *)
(* for its columns, a preview of them, and the change of the table that     *)
(* confirms the import.                                                     *)
(* Each step is a transaction on the user's database; between two of them   *)
(* other users create and rename tables and add rows.  Texts are values; a  *)
(* table's name is what it is made of, a word and the numbers added to it;  *)
(* a row's cells are a function of the names of its columns.                *)
(***************************************************************************)
EXTENDS DataFiles, Mappings

CONSTANTS Uploads,      \* what users may upload
          Requests,     \* requests for type suggestions
          Targets,      \* types a column may be changed to
          Together,     \* those of them that all columns may be changed to at once
          AddedText,    \* what others put in columns of text
          MaxAsked      \* how much is asked for beside the import

IsTuple(s) == Len(s) \in Nat /\ s = [i \in 1..Len(s) |-> s[i]]
ASSUME ImportAssumption ==
    /\ \A u \in Uploads : IsTuple(u.lines) /\ IsTuple(u.objects)
    /\ Targets \subseteq KnownDbTypes /\ Together \subseteq Targets
    /\ MaxAsked \in Nat

MaxInteger == 2147483647
IdOf == Single("1", 1) ++ Single("2", 2) ++ Single("2147483647", MaxInteger)
BaseName == <<"A">>                  \* of every file
OtherName == <<"B">>

VARIABLES
    zone,        \* of the sessions, in hours
    catalog,     \* the tables of the schema, by name
    made,        \* oids used so far
    datafile,    \* the row of the data file, if one was uploaded
    importing,   \* the import under way, if any
    imported,    \* file and oid of the tables imported
    failed,      \* the tables left by imports that failed
    second,      \* the clock, in seconds
    temps,       \* the temporary tables, by name
    requests,    \* the requests for suggestions
    suggestions, \* the types suggested, with the table they were inferred for
    patch,       \* the change of a table under way, if any
    asked        \* suggestions, changes and steps of others so far, and seconds
vars == <<zone, catalog, made, datafile, importing, imported, failed, second, temps, requests,
          suggestions, patch, asked>>
inference == <<second, temps, requests, suggestions>>

Tables == {catalog[name] : name \in DOMAIN catalog}
Oids == {t.oid : t \in Tables}
NameOf(oid) == CHOOSE name \in DOMAIN catalog : catalog[name].oid = oid
TableOf(oid) == catalog[NameOf(oid)]
Put(f, key, value) == Single(key, value) ++ f
Without(f, key) == [k \in DOMAIN f \ {key} |-> f[k]]
Idle == {}
Numbered(base, n) == Append(base, n)
FirstFree(base, from, taken) ==
    Numbered(base, CHOOSE n \in from..(from + Cardinality(taken)) :
                       /\ Numbered(base, n) \notin taken
                       /\ \A m \in from..(n - 1) : Numbered(base, m) \in taken)

-----------------------------------------------------------------------------
\* Names of tables and columns.

\* In a request of its own, before the one that creates the table.
GenTableName(taken) == IF BaseName \in taken THEN FirstFree(BaseName, 1, taken) ELSE BaseName
\* A name that is taken is numbered, from one more than the tables there are.
AddMathesarTable(name, taken) ==
    IF name \in taken THEN FirstFree(name, Cardinality(taken) + 1, taken) ELSE name

ProcessColumnNames(names) ==
    [i \in DOMAIN names |-> IF names[i] = "" THEN "Column " \o ToString(i - 1)
                            ELSE IF names[i] = " v" THEN "v" ELSE names[i]]
AlternateColumnNames(names) ==
    [i \in DOMAIN names |-> IF names[i] = "id" THEN "id_original" ELSE names[i]]
HasDuplicates(names) == \E i, j \in DOMAIN names : i # j /\ names[i] = names[j]

-----------------------------------------------------------------------------
\* The rows put into the new table.  The table has an id column of its own in the
\* place of one named id, with the ids given or the next of its sequence.

Position(names, name) == CHOOSE p \in DOMAIN names : names[p] = name
\* Records of JSON and Excel files have their id renamed if there is a column for it.
Given(file, names) ==
    LET raw == ProcessColumnNames(file.names)
        renamed == file.kind # "csv" /\ "id_original" \in ToSet(names) /\ "id" \in ToSet(raw)
        from(name) == IF renamed /\ name = "id_original" THEN Position(raw, "id") ELSE Position(names, name)
    IN [i \in DOMAIN file.rows |->
            [name \in ToSet(names) \ (IF renamed THEN {"id"} ELSE {}) |-> file.rows[i][from(name)]]]

\* The error the database or the library raises on inserting the rows.
FillError(file, names) ==
    LET rows == Given(file, names)
        ids == {i \in DOMAIN rows : "id" \in DOMAIN rows[i]}
    IN IF file.kind # "csv" /\ file.names # ProcessColumnNames(file.names) THEN "unknown column"
       ELSE IF file.kind = "excel" /\ {"id", "id_original"} \subseteq ToSet(file.names) THEN "two of a name"
       ELSE IF ~SameLength(<<file.names>> \o file.rows) \/ \E i \in ids : rows[i]["id"] \notin DOMAIN IdOf \union {Null} THEN "data error"
       ELSE IF \E i \in ids : rows[i]["id"] = Null \/ \E j \in ids : i # j /\ rows[i]["id"] = rows[j]["id"]
            THEN "integrity error"
       ELSE "none"
\* SQLAlchemy's data errors, as JSON and Excel files meet them, are not the driver's.
IsRetried(file, error) == error = "integrity error" \/ (error = "data error" /\ file.kind = "csv")

InsertRecords_Numbered(table, file, names) ==   \* mutant: the ids given are left out
    LET given == Given(file, names)
    IN [table EXCEPT
          !.rows = [i \in DOMAIN given |-> [id |-> i, cells |-> [c \in DOMAIN table.columns |-> given[i][c]]]],
          !.next = Len(given) + 1]
InsertRecords(table, file, names) ==
    LET given == Given(file, names)
    IN [table EXCEPT
          !.rows = [i \in DOMAIN given |->
                       [id |-> IF "id" \in DOMAIN given[i] THEN IdOf[given[i]["id"]] ELSE i,
                        cells |-> [c \in DOMAIN table.columns |-> given[i][c]]]],
          !.next = IF Len(given) > 0 /\ "id" \in DOMAIN given[1] THEN @ ELSE Len(given) + 1]

-----------------------------------------------------------------------------
\* Importing a file.

Import == CHOOSE i \in importing : TRUE
Set(fields) == importing' = {[f \in DOMAIN Import |-> IF f \in DOMAIN fields THEN fields[f] ELSE Import[f]]}
CreateStringColumnTable(name, names) ==
    LET table == [oid |-> made + 1, next |-> 1, rows |-> <<>>,
                  columns |-> [c \in ToSet(names) \ {"id"} |-> "text"]]
    IN /\ catalog' = Put(catalog, AddMathesarTable(name, DOMAIN catalog), table)
       /\ made' = made + 1
Fail == /\ importing' = Idle
        /\ failed' = failed \union Import.tables
aside == <<zone, datafile, imported, inference, patch, asked>>

\* A data file is uploaded; one that cannot be read is refused.
CreateDataFile ==
    /\ datafile = {}
    /\ \E u \in {u \in Uploads : IsAccepted(u)} : datafile' = {create_datafile(u)}
    /\ UNCHANGED <<zone, catalog, made, importing, imported, failed, inference, patch, asked>>
PatchHeader ==
    /\ imported = {} /\ failed = {} /\ asked < MaxAsked /\ asked' = asked + 1
    /\ \E file \in datafile : datafile' = {[file EXCEPT !.header = ~@]}
    /\ UNCHANGED <<zone, catalog, made, importing, imported, failed, inference, patch>>

\* The file as the import reads it.
AsRead(file) == [of |-> file, kind |-> IF file.type = "tsv" THEN "csv" ELSE file.type] ++ Read(file)

\* The request: with a name, or with one made of the file's that is free at the time.
StartImport ==
    /\ importing = Idle /\ imported = {} /\ failed = {}
    /\ \E file \in {AsRead(d) : d \in {d \in datafile : Readable(d)}}, name \in {BaseName, GenTableName(DOMAIN catalog)} :
          importing' = {[step |-> "create", file |-> file, name |-> name, tables |-> {}, retry |-> FALSE,
                         names |-> ProcessColumnNames(file.names)]}
    /\ UNCHANGED <<catalog, made, failed, aside>>

CreateTable ==
    /\ importing # Idle /\ Import.step = "create"
    /\ IF HasDuplicates(Import.names) THEN Fail /\ UNCHANGED <<catalog, made>>
       ELSE /\ CreateStringColumnTable(Import.name, Import.names)
            /\ Set([step |-> "fill", tables |-> Import.tables \union {made + 1}])
            /\ UNCHANGED failed
    /\ UNCHANGED aside

NewTable == Import.tables \intersect {Max(Import.tables)}
\* The rows are inserted, or none is.
Fill ==
    /\ importing # Idle /\ Import.step = "fill"
    /\ LET error == FillError(Import.file, Import.names)
       IN \/ /\ error = "none"
             /\ \E name \in DOMAIN catalog :
                  /\ catalog[name].oid \in NewTable
                  /\ catalog' = [catalog EXCEPT ![name] = InsertRecords(@, Import.file, Import.names)]
             /\ Set([step |-> IF Import.retry THEN "finish" ELSE "sequence"])
             /\ UNCHANGED failed
          \/ /\ error # "none"
             /\ IF IsRetried(Import.file, error) /\ ~Import.retry
                THEN Set([step |-> "drop"]) /\ UNCHANGED failed
                ELSE Fail
             /\ UNCHANGED catalog
    /\ UNCHANGED <<made, aside>>

UpdatePkSequenceToLatest_Count ==    \* mutant: the rows are counted
    /\ importing # Idle /\ Import.step = "sequence"
    /\ \E name \in DOMAIN catalog :
          /\ catalog[name].oid \in NewTable
          /\ catalog' = [catalog EXCEPT ![name].next = Len(catalog[name].rows) + 1]
    /\ Set([step |-> "finish"])
    /\ UNCHANGED <<made, failed, aside>>
\* The sequence's next value has to be an integer.
UpdatePkSequenceToLatest ==
    /\ importing # Idle /\ Import.step = "sequence"
    /\ \E name \in DOMAIN catalog :
          /\ catalog[name].oid \in NewTable
          /\ LET ids == {0} \union {row.id : row \in ToSet(catalog[name].rows)}
             IN IF MaxInteger \in ids THEN Fail /\ UNCHANGED catalog
                ELSE /\ catalog' = [catalog EXCEPT ![name].next = Max(ids) + 1]
                     /\ Set([step |-> "finish"])
                     /\ UNCHANGED failed
    /\ UNCHANGED <<made, aside>>

\* The table of the name asked for is dropped, and another made without ids.
DropTable ==
    /\ importing # Idle /\ Import.step = "drop"
    /\ IF Import.name \in DOMAIN catalog
       THEN /\ catalog' = Without(catalog, Import.name)
            /\ Set([step |-> "create", retry |-> TRUE, names |-> AlternateColumnNames(Import.names)])
            /\ UNCHANGED failed
       ELSE Fail /\ UNCHANGED catalog
    /\ UNCHANGED <<made, aside>>

FinishImport ==
    /\ importing # Idle /\ Import.step = "finish"
    /\ imported' = imported \union {[file |-> Import.file, oid |-> oid] : oid \in NewTable}
    /\ importing' = Idle
    /\ datafile' = {Import.file.of}           \* saved as it was when the import began
    /\ UNCHANGED <<zone, catalog, made, failed, inference, patch, asked>>

\* RPC's import is one transaction, and reads every file as delimited text.  Its COPY
\* lists the columns of text the table has, so a file with an id column has one too many.
ImportCsv ==
    /\ importing = Idle /\ imported = {} /\ failed = {}
    /\ \E d \in {d \in datafile : d.upload.form # "sheet" /\ d.upload.lines # <<>>} :
          LET file == [of |-> [d EXCEPT !.type = "csv"], kind |-> "csv"] ++ get_sv_reader(d)
              names == ProcessColumnNames(file.names)
              name == AddMathesarTable(BaseName, DOMAIN catalog)
              table == [oid |-> made + 1, next |-> 1, rows |-> <<>>,
                        columns |-> [c \in ToSet(names) |-> "text"]]
          IN /\ ~HasDuplicates(names) /\ "id" \notin ToSet(names) /\ FillError(file, names) = "none"
             /\ catalog' = Put(catalog, name, InsertRecords(table, file, names))
             /\ imported' = {[file |-> file, oid |-> made + 1]}
             /\ made' = made + 1
    /\ UNCHANGED <<zone, datafile, importing, failed, inference, patch, asked>>

-----------------------------------------------------------------------------
\* Type suggestions: the table is copied under a name of the second, the columns of
\* the copy are changed to the first type that takes them, and the copy is dropped.

TempTable == <<"temp_table">>
Waiting == <<"temp_table_%s">>       \* the name tried when the second's is taken
Second == Numbered(TempTable, second)
Request(r, fields) ==
    requests' = [requests EXCEPT ![r] = [f \in DOMAIN @ |-> IF f \in DOMAIN fields THEN fields[f] ELSE @[f]]]
Ask == asked < MaxAsked /\ asked' = asked + 1
beside == <<zone, catalog, made, datafile, importing, imported, failed, patch>>

BeginInference(r) ==
    /\ requests[r].step = "none"
    /\ \E table \in {t \in Tables : \E i \in imported : i.oid = t.oid} :
          Request(r, [oid |-> table.oid,
                      step |-> IF Second \in DOMAIN temps THEN "wait" ELSE "copy",
                      temp |-> IF Second \in DOMAIN temps THEN Waiting ELSE Second])
    /\ Ask
    /\ UNCHANGED <<second, temps, suggestions, beside>>

\* The loop asks for the same name again and again.
StopWaiting(r) ==
    /\ requests[r].step = "wait" /\ Waiting \notin DOMAIN temps
    /\ Request(r, [step |-> "copy"])
    /\ UNCHANGED <<second, temps, suggestions, beside, asked>>

CreateTableAs_Shared(r) ==           \* mutant: a copy that exists is used
    /\ requests[r].step = "copy"
    /\ temps' = temps ++ Single(requests[r].temp, [owner |-> r, table |-> TableOf(requests[r].oid), types |-> <<>>])
    /\ Request(r, [step |-> "infer"])
    /\ UNCHANGED <<second, suggestions, beside, asked>>
CreateTableAs(r) ==
    /\ requests[r].step = "copy"
    /\ LET table == TableOf(requests[r].oid)
       IN IF requests[r].temp \in DOMAIN temps
          THEN Request(r, [step |-> "failed"]) /\ UNCHANGED temps
          ELSE /\ temps' = Put(temps, requests[r].temp, [owner |-> r, table |-> table, types |-> <<>>])
               /\ Request(r, [step |-> "infer"])
    /\ UNCHANGED <<second, suggestions, beside, asked>>

Cells(table, c) == {row.cells[c] : row \in ToSet(table.rows)}
InferColumn(r) ==
    /\ requests[r].step = "infer"
    /\ LET temp == temps[requests[r].temp]
       IN \E c \in DOMAIN temp.table.columns \ DOMAIN temp.types :
            temps' = [temps EXCEPT ![requests[r].temp].types = Put(@, c,
                          InferColumnType(zone, temp.table.columns[c], Cells(temp.table, c)))]
    /\ UNCHANGED <<second, requests, suggestions, beside, asked>>

\* The types in the order of the table's columns as they are by then.
FinishInference(r) ==
    /\ requests[r].step = "infer"
    /\ LET temp == temps[requests[r].temp]
       IN /\ DOMAIN temp.types = DOMAIN temp.table.columns
          /\ suggestions' = suggestions \union {[seen |-> temp.table, types |-> temp.types]}
    /\ temps' = Without(temps, requests[r].temp)
    /\ Request(r, [step |-> "done"])
    /\ UNCHANGED <<second, beside, asked>>

\* An error other than a refused change of type; or the server stops.
InferenceFails(r) ==
    /\ requests[r].step = "infer"
    /\ temps' = Without(temps, requests[r].temp)
    /\ Request(r, [step |-> "failed"])
    /\ UNCHANGED <<second, suggestions, beside, asked>>
ServerStops(r) ==
    /\ requests[r].step \in {"copy", "infer"}
    /\ Request(r, [step |-> "stopped"])
    /\ UNCHANGED <<second, temps, suggestions, beside, asked>>

Tick == /\ Ask /\ second' = second + 1
        /\ UNCHANGED <<temps, requests, suggestions, beside>>

-----------------------------------------------------------------------------
\* Changes of a table: PATCH saves what Django keeps, renames the table and changes
\* its columns, in that order and each for itself.  A column that is not listed would
\* be dropped; here all are, most as they were.

\* The table of an import is left alone until the import ends.
Free(oid) == \A i \in importing : oid \notin i.tables
Patch == CHOOSE p \in patch : TRUE
\* A column, or all, to types offered for them; or a name, with the types suggested.
Changes(table) ==
    [newName : {{}},
     types : UNION {{Single(c, t) : t \in Targets \intersect FullCastMap[table.columns[c]]} :
                        c \in DOMAIN table.columns}]
    \union [newName : {{}}, types : {types \in [DOMAIN table.columns -> Together] :
                \A c \in DOMAIN types : types[c] \in FullCastMap[table.columns[c]]}]
    \union [newName : {{OtherName}}, types : {<<>>} \union {s.types : s \in {s \in suggestions : s.seen.oid = table.oid}}]

StartPatch ==
    /\ Ask /\ patch = Idle
    /\ \E name \in {n \in DOMAIN catalog : Free(catalog[n].oid)} :
          \E change \in Changes(catalog[name]) :
              patch' = {[step |-> "rename", oid |-> catalog[name].oid, name |-> name,
                         newName |-> change.newName, types |-> change.types]}
    /\ UNCHANGED <<zone, catalog, made, datafile, importing, imported, failed, inference>>

RenameTable(name, newName) ==
    catalog' = Put(Without(catalog, name), newName, catalog[name])
PatchName ==
    /\ patch # Idle /\ Patch.step = "rename"
    /\ LET newName == Patch.newName \ {Patch.name}
           refused == newName # {} /\ (Patch.name \notin DOMAIN catalog \/ newName \subseteq DOMAIN catalog)
       IN IF refused THEN patch' = Idle /\ UNCHANGED catalog
          ELSE /\ IF newName = {} THEN UNCHANGED catalog ELSE RenameTable(Patch.name, The(newName))
               /\ patch' = {[Patch EXCEPT !.step = "columns"]}
    /\ UNCHANGED <<zone, made, datafile, importing, imported, failed, inference, asked>>

\* The statement casts row by row and each row's columns in some order: a join loses
\* the request's.  A cast that leaves UTC as the zone does so for all that follow.
ZoneAt(table, types, order, i, c) ==
    LET Precedes(j, d) == j < i \/ \E p, q \in DOMAIN order : p < q /\ order[p] = d /\ order[q] = c
    IN IF \E j \in 1..i, d \in DOMAIN types :
             Precedes(j, d) /\ LeavesUtc(table.columns[d], types[d], table.rows[j].cells[d])
       THEN 0 ELSE zone
Altered(table, types, order, i, c) ==
    IF c \notin DOMAIN types THEN {table.rows[i].cells[c]}
    ELSE Cast(ZoneAt(table, types, order, i, c), table.columns[c], types[c], table.rows[i].cells[c])
AlterColumns(table, types, order) ==
    LET cells(i) == [c \in DOMAIN table.columns |-> The(Altered(table, types, order, i, c))]
    IN [table EXCEPT !.columns = types ++ @,
                     !.rows = [i \in DOMAIN @ |-> [@[i] EXCEPT !.cells = cells(i)]]]
\* All the columns in one statement, or none if one value cannot be cast.
CanAlter(table, types, order) ==
    \A c \in DOMAIN types : /\ HasFunction(table.columns[c], types[c])
                            /\ \A i \in DOMAIN table.rows : Altered(table, types, order, i, c) # {}
PatchColumns ==
    /\ patch # Idle /\ Patch.step = "columns"
    /\ \E order \in SetToSeqs(DOMAIN Patch.types) :
          catalog' = IF Patch.oid \in Oids /\ CanAlter(TableOf(Patch.oid), Patch.types, order)
                     THEN [catalog EXCEPT ![NameOf(Patch.oid)] = AlterColumns(@, Patch.types, order)]
                     ELSE catalog
    /\ patch' = Idle
    /\ UNCHANGED <<zone, made, datafile, importing, imported, failed, inference, asked>>

-----------------------------------------------------------------------------
\* Other users.

Others == Ask /\ UNCHANGED <<zone, datafile, importing, imported, failed, inference, patch>>
OtherCreates ==
    /\ Others
    /\ catalog' = Put(catalog, AddMathesarTable(BaseName, DOMAIN catalog),
                      [oid |-> made + 1, columns |-> <<>>, rows |-> <<>>, next |-> 1])
    /\ made' = made + 1
OtherRenames ==
    /\ Others
    /\ \E name \in DOMAIN catalog : /\ OtherName \notin DOMAIN catalog /\ Free(catalog[name].oid)
                                    /\ RenameTable(name, OtherName)
    /\ UNCHANGED made
WithRow(table, x) ==
    [table EXCEPT !.next = @ + 1,
                  !.rows = Append(@, [id |-> table.next,
                                      cells |-> [c \in DOMAIN table.columns |->
                                                    IF table.columns[c] = "text" THEN x ELSE Null]])]
OtherAddsRow ==
    /\ Others
    /\ \E name \in DOMAIN catalog, x \in AddedText :
          /\ Free(catalog[name].oid)
          /\ \A row \in ToSet(catalog[name].rows) : row.id # catalog[name].next
          /\ catalog' = [catalog EXCEPT ![name] = WithRow(@, x)]
    /\ UNCHANGED made

Init == /\ zone \in ZoneHours
        /\ catalog = <<>> /\ made = 0 /\ datafile = {}
        /\ importing = Idle /\ imported = {} /\ failed = {}
        /\ second = 0 /\ temps = <<>> /\ suggestions = {}
        /\ requests = [r \in Requests |-> [step |-> "none", oid |-> 0, temp |-> <<>>]]
        /\ patch = Idle
        /\ asked = 0

Next == \/ CreateDataFile \/ PatchHeader
        \/ StartImport \/ CreateTable \/ Fill \/ UpdatePkSequenceToLatest \/ DropTable \/ FinishImport
        \/ ImportCsv
        \/ \E r \in Requests : \/ BeginInference(r) \/ StopWaiting(r) \/ CreateTableAs(r) \/ InferColumn(r)
                              \/ FinishInference(r) \/ InferenceFails(r) \/ ServerStops(r)
        \/ Tick
        \/ StartPatch \/ PatchName \/ PatchColumns
        \/ OtherCreates \/ OtherRenames \/ OtherAddsRow
Spec == Init /\ [][Next]_vars

-----------------------------------------------------------------------------
\* Properties.

TypeOK ==
    /\ zone \in ZoneHours
    /\ \A t \in Tables : t.oid \in 1..made /\ \A c \in DOMAIN t.columns : t.columns[c] \in KnownDbTypes
    /\ \A t \in Tables : \A row \in ToSet(t.rows) : DOMAIN row.cells = DOMAIN t.columns
    /\ Cardinality(Oids) = Cardinality(DOMAIN catalog)
    /\ importing = Idle \/ Import.step \in {"create", "fill", "sequence", "drop", "finish"}
    /\ DOMAIN temps \subseteq {Waiting} \union {Numbered(TempTable, s) : s \in 0..second}
    /\ asked \in 0..MaxAsked /\ second <= asked

\* A change of type never turns a value into one that says something else: the new
\* value, read as a text, shares a meaning with the old one.  But amounts are rounded
\* to cents when they become money, a URI is put in lower case, and moments are UTC's,
\* not the session's, in two cases: one that loses its zone, and one that has none and
\* gets one while another column becomes one of dates or timestamps.
\* (cast.py: the bodies of the functions)
UnzonedTypes == {"timestamp without time zone", "date"}
KeepsMeaning(source, target, others, x, y) ==
    \/ x = Null /\ y = Null
    \/ Means(zone, source, x) \intersect Means(zone, target, y) # {}
    \/ target = "money" /\ NumberOf[x] % 10 # 0
    \/ /\ \/ source = "timestamp with time zone" /\ target \in UnzonedTypes
          \/ target = "timestamp with time zone" /\ others \intersect UnzonedTypes # {}
       /\ Means(0, source, x) \intersect Means(0, target, y) # {}
    \/ target = "uri" /\ x = "x.org/A"
TypeChangesKeepMeaning ==
    [][\A name \in DOMAIN catalog \intersect DOMAIN catalog' :
          LET old == catalog[name]
              new == catalog'[name]
          IN old.oid = new.oid /\ old.columns # new.columns =>
               \A i \in DOMAIN old.rows, c \in DOMAIN old.columns :
                   LET others == {new.columns[d] : d \in {d \in DOMAIN old.columns \ {c} : old.columns[d] # new.columns[d]}}
                   IN KeepsMeaning(old.columns[c], new.columns[c], others, old.rows[i].cells[c], new.rows[i].cells[c])
      ]_vars

\* The zones a cast may find: the session's, or UTC after other casts.
CastZones == {zone, 0}
PreviewsAgree ==
    \A t \in Tables : \A c \in DOMAIN t.columns :
        \A target \in Targets \intersect FullCastMap[t.columns[c]], z \in CastZones : \A x \in Cells(t, c) :
            ColumnCast(z, t.columns[c], target, x) = Cast(z, t.columns[c], target, x)

\* Every type offered for a column has a function that casts the column's type to it,
\* and the preview of the REST API, that of the RPC API and the change itself agree on
\* every cell, if it is their turn in the same zone.  (cast.py: the map of offered casts
\* is not the maps the functions are made from; get_column_cast_expression;
\* msar.get_preview)
PromisedCastsWork ==
    /\ \A t \in Tables : \A c \in DOMAIN t.columns :
          \A target \in FullCastMap[t.columns[c]] : HasFunction(t.columns[c], target)
    /\ PreviewsAgree

\* As long as a table is what it was when its copy was made, the types suggested for
\* it are not refused, though each was tried by itself and all are asked for at once.
\* (infer_table_column_types, batch_update_columns)
CastsInAnyZone(source, target, cells) == \A z \in CastZones : CastsAll(z, source, target, cells)
SuggestionsFit ==
    \A s \in suggestions : s.seen \in Tables =>
        \A c \in DOMAIN s.types :
            \/ s.types[c] = s.seen.columns[c]
            \/ CastsInAnyZone(s.seen.columns[c], s.types[c], Cells(s.seen, c))

\* What was uploaded, as rows of columns and values: the lines below the first one that
\* is not empty if there is a header, or the objects.
Written(file) ==
    LET u == file.upload
        lines == IF u.form = "sheet" THEN SelectSeq(u.lines, LAMBDA line : ~IsEmpty(line)) ELSE u.lines
        Column(i) == IF ~file.header THEN COLUMN_NAME_TEMPLATE \o ToString(i - 1)
                     ELSE IF lines[1][i] = Null THEN Unnamed(i) ELSE ProcessColumnNames(lines[1])[i]
        Pairs(line) == {<<Column(i), line[i]>> : i \in {i \in DOMAIN line : line[i] # Null}}
        Texts(o) == {<<flattened_key(t.path, u.max_level), t.text>> :
                        t \in {t \in ToSet(o) : Len(t.path) <= u.max_level + 1}}
        rows == IF u.form = "json" THEN u.objects ELSE IF file.header THEN Tail(lines) ELSE lines
    IN [i \in DOMAIN rows |-> IF u.form = "json" THEN Texts(rows[i]) ELSE Pairs(rows[i])]

\* An import that succeeds has every row of the upload, in order, with every value in
\* the column named for it, as its id, or in id_original.  But a JSON file with both
\* columns loses the latter; JSON without the extension, or imported by RPC, is taken
\* for delimited text; and a sheet loses its first row if its named columns are empty.
\* An import that fails leaves no rows behind, unless the file has the greatest id:
\* rows and sequence are two transactions.
\* (utils/datafiles.py, imports/*.py, records/operations/insert.py)
HasRowsOf(table, file) ==
    LET written == Written(file)
        In(row, c, x) == c \in DOMAIN row.cells /\ row.cells[c] = x
        rows == IF file.upload.form # "sheet" THEN table.rows
                ELSE SelectSeq(table.rows, LAMBDA row : \E c \in DOMAIN row.cells : row.cells[c] # Null)
    IN /\ Len(rows) = Len(written)
       /\ \A i \in DOMAIN written : \A pair \in written[i] :
             LET c == pair[1]
                 x == pair[2]
             IN \/ In(rows[i], c, x)
                \/ c = "id" /\ In(rows[i], "id_original", x)
                \/ c = "id" /\ x \in DOMAIN IdOf /\ rows[i].id = IdOf[x]
                \/ c = "id_original" /\ file.type = "json" /\ "id" \in {p[1] : p \in written[i]}
NotAsWritten(file) ==
    \/ file.upload.form \in {"json", "scalar"} /\ file.type # "json"
    \/ file.upload.form = "sheet" /\ IsUnnamed(dropna(read_excel(file.upload.lines))) /\ ~IsEmpty(file.upload.lines[1])
NoRowsAreLeft ==
    \A oid \in (failed' \ failed) \intersect Oids' :
        \/ TableOf(oid)'.rows = <<>>
        \/ \E row \in ToSet(TableOf(oid)'.rows) : row.id = MaxInteger
ImportedRowsAreTheFiles ==
    [][/\ \A i \in imported' \ imported : NotAsWritten(i.file.of) \/ HasRowsOf(TableOf(i.oid)', i.file.of)
       /\ NoRowsAreLeft]_vars

\* The next id of an imported table is above those it has, the file's included.
\* (update_pk_sequence_to_latest)
NextIdIsFree ==
    \A i \in imported : i.oid \in Oids =>
        \A row \in ToSet(TableOf(i.oid).rows) : row.id < TableOf(i.oid).next

\* A request works on a copy that is its own, and no copy outlives its request unless
\* the server stopped; the catalog keeps its types.  (infer_table_column_types: names
\* by the second)
CopiesHaveOwners ==
    /\ TypeOK
    /\ \A r \in Requests : requests[r].step = "infer" =>
          requests[r].temp \in DOMAIN temps /\ temps[requests[r].temp].owner = r
    /\ \A name \in DOMAIN temps :
          LET owner == requests[temps[name].owner]
          IN owner.temp = name /\ owner.step \in {"infer", "stopped"}

\* A change casts every value as it would be cast alone: a cast that "changes the timezone
\* to `utc` for the transaction is called on [...] should be used in a isolated transaction
\* to avoid timezone change causing unintended side effect" (cast.py:240 and 517).
CastsAreIsolated ==
    [][\A name \in DOMAIN catalog \intersect DOMAIN catalog' :
          LET old == catalog[name]
              new == catalog'[name]
          IN old.oid = new.oid /\ old.columns # new.columns =>
               \A i \in DOMAIN old.rows, c \in {c \in DOMAIN old.columns : old.columns[c] # new.columns[c]} :
                   new.rows[i].cells[c] \in Cast(zone, old.columns[c], new.columns[c], old.rows[i].cells[c])
      ]_vars

\* "We only currently support importing to a new table" (serializers/data_files.py:33).
ImportsTouchOnlyNewTables ==
    [][\A i \in importing : \A t \in Tables :
          t.oid \notin i.tables /\ i.step = "drop" => t.oid \in Oids']_vars
=============================================================================
