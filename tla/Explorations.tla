------------------------------ MODULE Explorations ------------------------------
(***************************************************************************)
(* Explorations.  A query starts from a base table, joins others to it      *)
(* along foreign keys, and transforms the relation it gets; its summaries   *)
(* are finished by the server when it runs.  A client saves explorations,   *)
(* runs them, and lists their records with a filter, an order, a grouping   *)
(* or a search, a page at a time.  A request makes several queries, and     *)
(* others change the tables between them.                                   *)
(***************************************************************************)
EXTENDS Previews

CONSTANTS JsonColumns,  \* those whose values have no order and no equality
          Constraints,  \* primary keys and unique constraints: sets of columns
          Contents,     \* what the tables may hold at first
          Insertions,   \* <<table, row>> others may insert
          Queries,      \* the explorations clients think of
          SavedQueries, \* bound: those they save
          Listings,     \* what clients ask of a list of records
          TableListings, \* and of those of a table
          Saved,        \* Django ids of explorations
          Limit,        \* rows of a page
          MaxDepth,     \* of the joinable tables
          MaxChanges    \* bound: changes by others

ASSUME ExplorationsAssumption ==
    /\ Limit \in Nat \ {0} /\ MaxDepth \in Nat \ {0} /\ MaxChanges \in Nat
    /\ JsonColumns \subseteq Columns /\ UNION Constraints \subseteq Columns
    /\ SavedQueries \subseteq Queries

\* The rows of a table differ in the columns of a constraint, unless one has no value.
IsUnique(rows, u) ==
    \A i, j \in DOMAIN rows :
        (\A c \in u : rows[i][c[2]] # None /\ rows[i][c[2]] = rows[j][c[2]]) => i = j
\* A constraint is there as long as its columns are.
ConstraintsHold(db, left) ==
    \A u \in Constraints : u \subseteq left =>
        \A t \in {TableOf(c) : c \in u} \intersect DOMAIN db : IsUnique(db[t], u)
\* Tables are lists of rows that satisfy the constraints; what is referred to is unique.
ASSUME ContentsAssumption ==
    /\ \A db \in Contents : /\ ConstraintsHold(db, Columns)
                           /\ {TableOf(c) : c \in Columns} \subseteq DOMAIN db
                           /\ \A t \in DOMAIN db : db[t] \in Seq(ToSet(db[t]))
    /\ \A k \in ForeignKeys : {k[2]} \in Constraints
\* Clients ask about tables that there are; columns and paths are lists.
ASSUME QueriesAssumption ==
    /\ \A q \in Queries :
          /\ DOMAIN q = {"base", "initial", "transformations"}
          /\ \A db \in Contents : q.base \in DOMAIN db
          /\ q.initial \in Seq(ToSet(q.initial))
          /\ \A c \in ToSet(q.initial) : c.path \in Seq(ToSet(c.path))
          /\ q.transformations \in Seq(ToSet(q.transformations))
          /\ \A t \in ToSet(q.transformations) : IsTransformation(t)
    /\ \A x \in TableListings : \A db \in Contents : x[1] \in DOMAIN db

VARIABLES tables,     \* tables[t]: its rows
          columns,    \* the columns that are left
          saved,      \* saved[e]: the exploration, or nothing
          request,    \* what the client asked for
          phase,      \* what the request does next
          spec,       \* its transformations, with finished summaries
          count, pages, described, \* what it has answered
          quiet,      \* nobody changed anything since the first page was asked for
          changes

database == <<tables, columns>>
answers == <<count, pages, described>>
vars == <<database, saved, request, phase, spec, answers, quiet, changes>>

\* What a request does not ask for is empty; a filter, a group or a search is a set of one.
NoListing == [filter |-> {}, duplicates |-> {}, group |-> {}, order |-> <<>>, search |-> {}]
The(S) == CHOOSE x \in S : TRUE
NoRequest == [kind |-> "none"]
Query(base, initial, transformations) ==
    [base |-> base, initial |-> initial, transformations |-> transformations]

-----------------------------------------------------------------------------
\* The initial relation: outer joins along the paths, each path joined once.

Subpaths(path) == [i \in DOMAIN path |-> SubSeq(path, 1, i)]
JoinPaths(q) ==                      \* the first of equal ones is joined
    LET all == FlattenSeq(Each(LAMBDA c : Subpaths(c.path), q.initial))
    IN At(all, {i \in DOMAIN all : \A j \in 1..(i - 1) : all[j] # all[i]})
Referred(db, p, joined) ==           \* the rows of the last table of a path
    LET left == joined[Front(p)]
        jp == Last(p)
        v == IF left = None THEN None ELSE left[jp[1][2]]
    IN Those(db[TableOf(jp[2])], LAMBDA row : v # None /\ row[jp[2][2]] = v)
Join_Inner(db, joins, p) ==            \* mutant: rows that refer to nothing are lost
    FlattenSeq(Each(LAMBDA joined : Each(LAMBDA row : joined ++ Single(p, row), Referred(db, p, joined)),
                    joins))
Join(db, joins, p) ==
    LET Rows(joined) == LET found == Referred(db, p, joined)
                        IN IF found = <<>> THEN <<None>> ELSE found
    IN FlattenSeq(Each(LAMBDA joined : Each(LAMBDA row : joined ++ Single(p, row), Rows(joined)), joins))
Joined(db, q) ==
    FoldLeft(LAMBDA joins, p : Join(db, joins, p),
             Each(LAMBDA row : Single(<<>>, row), db[q.base]), JoinPaths(q))

Uses(q) == {q.initial[i].column : i \in DOMAIN q.initial} \union
           UNION {{jp[1], jp[2]} : jp \in UNION {ToSet(q.initial[i].path) : i \in DOMAIN q.initial}}
Aliases(q) == Each(LAMBDA c : c.alias, q.initial)
InitialRelation(db, left, q) ==
    LET Value(joined, c) == IF joined[c.path] = None THEN None ELSE joined[c.path][c.column[2]]
        ColumnOf(alias) == q.initial[CHOOSE i \in DOMAIN q.initial : q.initial[i].alias = alias]
        Line(joined) == Row([alias \in ToSet(Aliases(q)) |-> Value(joined, ColumnOf(alias))])
    IN IF ~(Uses(q) \subseteq left) THEN Broken
       ELSE Relation(Aliases(q), Each(Line, Joined(db, q)),
                     {a \in ToSet(Aliases(q)) : ColumnOf(a).column \in JsonColumns},
                     {a \in ToSet(Aliases(q)) : ColumnOf(a).column \in PrimaryKeys})
Transformed(db, left, q, transformations) ==
    ApplyAll(InitialRelation(db, left, q), transformations)

-----------------------------------------------------------------------------
\* Aliases followed through the transformations.

InputAliases(q, ix) ==               \* of the transformation ix, which counts from 1
    FoldLeft(LAMBDA aliases, t : OutputAliases(t, aliases), Aliases(q),
             SubSeq(q.transformations, 1, ix - 1))
\* Back through the transformations before ix; None if one of them aggregates.
Earlier(mappings, alias) ==
    LET from == {i \in DOMAIN mappings : mappings[i].out = alias}
    IN IF alias = None \/ from = {} THEN alias ELSE mappings[Min(from)].in
InitialAlias(q, ix, alias) ==
    FoldLeft(LAMBDA a, t : Earlier(UniqueMappings(t, Aliases(q)), a), alias,
             Reverse(SubSeq(q.transformations, 1, ix - 1)))
ColumnNamed(q, alias) ==
    LET named == {i \in DOMAIN q.initial : q.initial[i].alias = alias}
    IN IF alias = None \/ named = {} THEN None ELSE q.initial[Min(named)].column
InitialColumnOf(q, ix, alias) == ColumnNamed(q, InitialAlias(q, ix, alias))

-----------------------------------------------------------------------------
\* Finishing a summary: columns it does not mention are grouped by if the base
\* column decides them, and listed otherwise.

Edges == [jp : ForeignKeys, multiple : {FALSE}] \union
         [jp : {<<k[2], k[1]>> : k \in ForeignKeys}, multiple : {TRUE}]
Paths(base) ==
    LET Longer(paths) == paths \union
            {Append(pe[1], pe[2]) : pe \in {pe \in paths \X Edges :
                /\ Len(pe[1]) < MaxDepth
                /\ TableOf(pe[2].jp[1]) = TableOf(Last(pe[1]).jp[2])
                /\ pe[2].jp # Reverse(Last(pe[1]).jp)}}
        first == {<<e>> : e \in {e \in Edges : TableOf(e.jp[1]) = base}}
    IN FoldLeft(LAMBDA paths, n : Longer(paths), first, [n \in 1..(MaxDepth - 1) |-> n])
HasSingleResult(p) == \A i \in DOMAIN p : ~p[i].multiple
SingleResultTables(base) ==
    {TableOf(Last(p).jp[2]) : p \in {p \in Paths(base) : HasSingleResult(p)}}

IsUniqueConstrained(column) == \E u \in Constraints : column \in u
ShouldGroupBy_Any(column, baseColumn, singles) == TRUE   \* mutant: other tables are not told apart
ShouldGroupBy(column, baseColumn, singles) ==
    TableOf(column) = TableOf(baseColumn) \/ TableOf(column) \in singles
Missing(q, ix) ==
    LET s == q.transformations[ix].summarize
        mentioned == ToSet(Inputs(s.grouping) \o Inputs(s.aggregation))
    IN Those(InputAliases(q, ix), LAMBDA a : a \notin mentioned)
ToGroup(column, base, singles) ==
    base # None /\ column # None /\ IsUniqueConstrained(base) /\ ShouldGroupBy(column, base, singles)
\* The base column itself comes first of the columns to group by.
Split(missing, base, grouped) ==
    LET first == Those(missing, LAMBDA a : a = base)
    IN [grouped |-> first \o Those(missing, LAMBDA a : a # base /\ grouped[a]),
        aggregated |-> Those(missing, LAMBDA a : a # base /\ ~grouped[a])]
Completed(s, split) == WithAggregation(WithGrouping(s, split.grouped), split.aggregated)
FinishWith(s, missing, columnOf, singles) ==
    Completed(s, Split(missing, s.base,
        [a \in ToSet(missing) |-> ToGroup(columnOf[a], columnOf[s.base], singles)]))
Finish(q, ix) ==
    FinishWith(q.transformations[ix].summarize, Missing(q, ix),
               [a \in ToSet(InputAliases(q, ix)) \union {q.transformations[ix].summarize.base} |->
                    InitialColumnOf(q, ix, a)],
               SingleResultTables(q.base))
\* Each summary is finished as if those before it had been left as they were sent.
Finished(q) ==
    [ix \in DOMAIN q.transformations |->
        IF ~Is(q.transformations[ix], "summarize") THEN q.transformations[ix]
        ELSE Transform("summarize", Finish(q, ix))]

-----------------------------------------------------------------------------
\* What a request asks of the transformed relation.

OrderUsed(transformations) == \E i \in DOMAIN transformations : Is(transformations[i], "order")
GroupedBy(r, g) == IF Valid(g) THEN Grouped(r, g) ELSE Broken
Listed(r, p, fallback) ==
    LET Step(x, step) ==
            CASE step = "filter" /\ p.filter # {} -> Filtered(x, The(p.filter))
              [] step = "duplicates" /\ p.duplicates # {} -> DuplicateOnly(x, p.duplicates)
              [] step = "group" /\ p.group # {} -> GroupedBy(x, The(p.group))
              [] step = "order" /\ (p.order # <<>> \/ fallback) -> Ordered(x, p.order)
              [] step = "search" /\ p.search # {} -> Searched(x, The(p.search))
              [] OTHER -> x
    IN FoldLeft(LAMBDA x, step : IF x = Broken THEN x ELSE Step(x, step), r,
                <<"filter", "duplicates", "group", "order", "search">>)
\* The count is of the rows that pass the filter and the search.
Counted(r, p) == Listed(r, [NoListing EXCEPT !.filter = p.filter, !.search = p.search], FALSE)

\* Rows of one rank come in any order, and the order is any of those it may be.
Arranged(rows, s, n) ==
    \A i, j \in DOMAIN rows : i < j => rows[s[i]].rank[n] <= rows[s[j]].rank[n]
Arrangements(rows) ==
    {[i \in DOMAIN rows |-> [vals |-> rows[s[i]].vals, group |-> rows[s[i]].group]] :
        s \in {s \in SetToSeqs(DOMAIN rows) :
                rows = <<>> \/ \E n \in DOMAIN Head(rows).rank : Arranged(rows, s, n)}}
Slice(s, offset) == SubSeq(s, offset + 1, Min({offset + Limit, Len(s)}))
\* A search is limited before the pages before this one are skipped.
Pages(r, p, offset) ==
    {Slice(IF p.search = {} THEN s ELSE Slice(s, 0), offset) : s \in Arrangements(r.rows)}

Current(transformations) == Transformed(tables, columns, request.query, transformations)
Result == Listed(Current(spec), request.listing, ~OrderUsed(spec))

-----------------------------------------------------------------------------
\* What is known of the columns of a query: the alias each was made from, and for the
\* REST API the names and the display options that follow from it.

Made(transformations) ==
    FoldLeft(LAMBDA made, t : InputOfOutput(t) ++ made, << >>, transformations)

\* The aliases are paired with the rows of the columns in the order these are stored.
_map_of_initial_col_alias_to_dj_column(q) ==
    LET Before(a, b) == a.id < b.id
        rows == SetToSortSeq({[id |-> c.id, column |-> c.column] : c \in ToSet(q.initial)}, Before)
    IN [a \in {q.initial[i].alias : i \in DOMAIN rows} |->
            rows[CHOOSE i \in DOMAIN rows : q.initial[i].alias = a].column]

Name(column, suffix) == [column |-> column, suffix |-> suffix]
Suffixed(name, function) == [name EXCEPT !.suffix = Append(@, function)]
\* Names for what summaries make of columns that have names when they are looked at.
_get_default_display_names_for_summarize_transforms(transformations, names) ==
    LET Groups(s) == {x \in ToSet(s.grouping) : x.in \in DOMAIN names}
        Aggregations(s) == {x \in ToSet(s.aggregation) : x.in \in DOMAIN names}
        NamesOf(s) == [a \in {x.out : x \in Aggregations(s)} |->
                          LET x == CHOOSE x \in Aggregations(s) : x.out = a IN Suffixed(names[x.in], x.function)]
                      ++ [a \in {x.out : x \in Groups(s)} |-> names[(CHOOSE x \in Groups(s) : x.out = a).in]]
    IN FoldLeft(LAMBDA found, t : IF Is(t, "summarize") THEN NamesOf(t.summarize) ++ found ELSE found,
                << >>, transformations)
_default_display_names(q, transformations) ==
    LET djColumns == _map_of_initial_col_alias_to_dj_column(q)
        initial == [a \in DOMAIN djColumns |-> Name(djColumns[a], <<>>)]
    IN initial ++ _get_default_display_names_for_summarize_transforms(transformations, initial)

\* mutant: only what a column is made from at once is asked for its options.
_get_display_options_for_alias_Once(q, transformations, alias) ==
    LET djColumns == _map_of_initial_col_alias_to_dj_column(q)
        made == Made(transformations)
        found == IF alias \in DOMAIN made THEN made[alias] ELSE alias
    IN IF found \in DOMAIN djColumns THEN {djColumns[found]} ELSE {}
\* Those of the column an alias is made from in the end, if it is known.
_get_display_options_for_alias(q, transformations, alias) ==
    LET djColumns == _map_of_initial_col_alias_to_dj_column(q)
        made == Made(transformations)
        Parent(a) == IF a \in DOMAIN djColumns \/ a \notin DOMAIN made THEN a ELSE made[a]
        found == FoldLeft(LAMBDA a, n : Parent(a), alias, SetToSeq(DOMAIN made))
    IN IF found \in DOMAIN djColumns THEN {djColumns[found]} ELSE {}

-----------------------------------------------------------------------------
\* Saved explorations.

SaveExploration(e, q) ==
    /\ phase = "idle" /\ saved[e] = {}
    /\ saved' = [saved EXCEPT ![e] = {q}]
    /\ UNCHANGED <<database, request, phase, spec, answers, quiet, changes>>
ReplaceExploration(e, q) ==
    /\ phase = "idle" /\ saved[e] # {}
    /\ saved' = [saved EXCEPT ![e] = {q}]
    /\ UNCHANGED <<database, request, phase, spec, answers, quiet, changes>>
DeleteExploration(e) ==
    /\ phase = "idle" /\ saved[e] # {}
    /\ saved' = [saved EXCEPT ![e] = {}]
    /\ UNCHANGED <<database, request, phase, spec, answers, quiet, changes>>

-----------------------------------------------------------------------------
\* Requests.  A run finishes the summaries, fetches the records, describes the
\* columns and counts; a list counts and fetches; a query of the REST API does what
\* a run does, in the order of a list.

Ask(kind, q, listing, previews, first) ==
    /\ phase = "idle"
    /\ request' = [kind |-> kind, query |-> q, listing |-> listing, offset |-> 0,
                   names |-> << >>, previews |-> previews]
    /\ phase' = first /\ spec' = q.transformations
    /\ quiet' = TRUE
    /\ UNCHANGED <<database, saved, answers, changes>>
RunExploration(q) == Ask("run", q, NoListing, << >>, "specify")
\* An exploration saved without transformations has none to go through.
RunSavedExploration(e) ==
    /\ saved[e] # {}
    /\ Ask("run", The(saved[e]), NoListing, << >>,
           IF The(saved[e]).transformations = <<>> THEN "failed" ELSE "specify")
\* Explorations of the REST API are stored apart from these.
ListRecords(q, listing) == Ask("list", q, listing, << >>, "count")
RunQuery(q) == Ask("query", q, NoListing, << >>, "specify")
\* The records of a table are those of a query of its columns and of its previews.
ListTableRecords(t, listing) ==
    Ask("table", Query(t, ColumnsToFetch(columns, t), <<>>), listing, TablePreviews(columns, t).info, "count")

FinishSummaries ==
    /\ phase = "specify" /\ request.kind = "run"
    /\ IF Uses(request.query) \subseteq columns
       THEN spec' = Finished(request.query) /\ phase' = "records"
       ELSE phase' = "failed" /\ UNCHANGED spec
    /\ UNCHANGED <<database, saved, request, answers, quiet, changes>>
ProcessTransformations ==
    /\ phase = "specify" /\ request.kind = "query"
    /\ IF Uses(request.query) \subseteq columns
       THEN /\ spec' = Finished(request.query) /\ phase' = "count"
            /\ request' = [request EXCEPT !.names = _default_display_names(request.query, spec')]
       ELSE phase' = "failed" /\ UNCHANGED <<spec, request>>
    /\ UNCHANGED <<database, saved, answers, quiet, changes>>

\* Records of a run are taken apart into two lists, which fails if there are none.
AnswerPage(page) ==
    IF (request.kind = "run" /\ page = <<>>) \/ ~CanPreview(request.previews, page)
    THEN phase' = "failed" /\ UNCHANGED pages
    ELSE /\ pages' = Append(pages, [rows |-> WithoutPreviews(request.previews, page),
                                    groups |-> GroupsOfPage(page),
                                    previews |-> PreviewsOfPage(request.previews, page)])
         /\ phase' = IF request.kind \in {"run", "query"} THEN "describe" ELSE "answered"
FetchRecords ==
    /\ phase = "records"
    /\ \E result \in {Result} :
          IF result = Broken THEN phase' = "failed" /\ UNCHANGED pages
          ELSE \E page \in Pages(result, request.listing, request.offset) : AnswerPage(page)
    /\ UNCHANGED <<database, saved, request, spec, count, described, quiet, changes>>

\* Columns of the query at each of its stages: the initial column that has the
\* alias, and the alias it was made from.  The REST API tells their names and options.
DescribedAliases(q, transformations) ==
    UNION {ToSet(Transformed(tables, columns, q, SubSeq(transformations, 1, n)).cols) :
              n \in 0..Len(transformations)}
_describe_query_column(q, transformations, names, alias) ==
    LET made == Made(transformations)
    IN [initial |-> {c \in ToSet(q.initial) : c.alias = alias},
        input |-> IF alias \in DOMAIN made THEN made[alias] ELSE None,
        name |-> IF alias \in DOMAIN names THEN {names[alias]} ELSE {},
        options |-> _get_display_options_for_alias(q, transformations, alias)]
DescribeColumns ==
    LET q == request.query
        Described(a) ==
            LET d == _describe_query_column(q, spec, request.names, a)
            IN IF request.kind = "run" THEN [d EXCEPT !.options = {}] ELSE d
    IN /\ phase = "describe"
       /\ IF Current(spec) = Broken THEN phase' = "failed" /\ UNCHANGED described
          ELSE /\ described' = [a \in DescribedAliases(q, spec) |-> Described(a)]
               /\ phase' = IF request.kind = "run" THEN "count" ELSE "answered"
       /\ UNCHANGED <<database, saved, request, spec, count, pages, quiet, changes>>

\* The records of a table are counted without their previews.
CountedQuery ==
    [request.query EXCEPT !.initial =
        IF request.kind = "table" THEN Those(@, LAMBDA c : c.path = <<>>) ELSE @]
CountRecords ==
    /\ phase = "count"
    /\ \E counted \in {Counted(Transformed(tables, columns, CountedQuery, spec), request.listing)} :
          IF counted = Broken \/ \E g \in request.listing.group : ~Valid(g)
          THEN phase' = "failed" /\ UNCHANGED count
          ELSE /\ count' = Len(counted.rows)
               /\ phase' = IF request.kind = "run" THEN "answered" ELSE "records"
    /\ UNCHANGED <<database, saved, request, spec, pages, described, quiet, changes>>

\* The client turns the page, or is done.
NextPage ==
    /\ phase = "answered" /\ request.offset + Limit < count
    /\ request' = [request EXCEPT !.offset = @ + Limit]
    /\ phase' = IF request.kind \in {"run", "query"} THEN "specify" ELSE "count"
    /\ UNCHANGED <<database, saved, spec, answers, quiet, changes>>
Close ==
    /\ phase \in {"answered", "failed"}
    /\ request' = NoRequest /\ phase' = "idle" /\ spec' = <<>>
    /\ count' = 0 /\ pages' = <<>> /\ described' = << >> /\ quiet' = TRUE
    /\ UNCHANGED <<database, saved, changes>>

-----------------------------------------------------------------------------
\* Others change the database.

Change ==
    /\ changes < MaxChanges
    /\ changes' = changes + 1 /\ quiet' = FALSE
    /\ UNCHANGED <<saved, request, phase, spec, answers>>
\* The database refuses a row that breaks a constraint.
InsertRow(t, row) ==
    /\ tables' = [tables EXCEPT ![t] = Append(@, row)]
    /\ ConstraintsHold(tables', columns)
    /\ UNCHANGED columns /\ Change
DeleteRow(t, i) ==
    /\ tables' = [tables EXCEPT ![t] = RemoveAt(@, i)]
    /\ UNCHANGED columns /\ Change
DropColumn(c) ==
    /\ columns' = columns \ {c}
    /\ UNCHANGED tables /\ Change

Init ==
    /\ tables \in Contents /\ columns = Columns
    /\ saved = [e \in Saved |-> {}]
    /\ request = NoRequest /\ phase = "idle" /\ spec = <<>>
    /\ count = 0 /\ pages = <<>> /\ described = << >>
    /\ quiet = TRUE /\ changes = 0
Next ==
    \/ \E e \in Saved : \/ \E q \in SavedQueries : SaveExploration(e, q) \/ ReplaceExploration(e, q)
                        \/ DeleteExploration(e) \/ RunSavedExploration(e)
    \/ \E q \in Queries : RunExploration(q) \/ RunQuery(q) \/ \E l \in Listings : ListRecords(q, l)
    \/ \E x \in TableListings : ListTableRecords(x[1], x[2])
    \/ FinishSummaries \/ ProcessTransformations \/ FetchRecords \/ DescribeColumns \/ CountRecords \/ NextPage \/ Close
    \/ \E i \in Insertions : InsertRow(i[1], i[2])
    \/ \E t \in DOMAIN tables : \E i \in DOMAIN tables[t] : DeleteRow(t, i)
    \/ \E c \in columns : DropColumn(c)
Spec == Init /\ [][Next]_vars

-----------------------------------------------------------------------------
\* Properties.

Phases == {"idle", "specify", "records", "describe", "count", "answered", "failed"}
\* Type correctness: rows of pages have the values of one relation's columns, and
\* what is described are the aliases of its stages.
TypeOK ==
    /\ columns \subseteq Columns /\ changes \in 0..MaxChanges /\ quiet \in BOOLEAN
    /\ \A e \in Saved : saved[e] \subseteq SavedQueries /\ Cardinality(saved[e]) <= 1
    /\ phase \in Phases /\ (phase = "idle" <=> request = NoRequest)
    /\ count \in Nat
    /\ \A i \in DOMAIN pages : Len(pages[i].rows) <= Limit

Fetched == FlattenSeq(Each(LAMBDA page : page.rows, pages))
AllFetched ==
    phase = "answered" /\ quiet /\ request.offset + Limit >= count /\ request.listing.search = {}
SameRows(s, rows) ==
    /\ Len(s) = Len(rows)
    /\ \A x \in ToSet(s) : Cardinality({i \in DOMAIN s : s[i] = x}) =
         Cardinality({i \in DOMAIN rows : [vals |-> rows[i].vals, group |-> rows[i].group] = x})
ResultRows == WithoutPreviews(request.previews, Result.rows)

CountIsOfThePages ==
    (/\ AllFetched /\ request.listing.duplicates = {}
     /\ request.listing.group # {} => The(request.listing.group).mode \notin Ranged)
        => count = Len(Fetched)

\* The key of the base table is the only one left, and its rows have not been repeated.
ForwardOnly(q) == \A i \in DOMAIN q.initial : ToSet(q.initial[i].path) \subseteq ForeignKeys
OnlyBaseKey(r) ==
    LET q == [request.query EXCEPT !.transformations = spec]
        Of(a) == InitialColumnOf(q, Len(spec) + 1, a)
    IN /\ ForwardOnly(q) /\ Cardinality(r.keys) = 1
       /\ \A a \in r.keys : /\ {Of(a)} \in Constraints
                            /\ \A c \in ToSet(q.initial) : c.column = Of(a) => c.path = <<>>

\* While nobody changes anything, the pages of a request hold every row of the result
\* once, whatever order it asks for, as long as the key of the base table completes it:
\* two queries do not arrange the rows differently then.  The same holds without any
\* key when the order is left to the server, which falls back to all columns.  The
\* count given with a page is the number of rows the pages hold together, though it is
\* asked for by another query.  (Neither duplicates nor ranges are counted.)
PagesCoverTheResult ==
    /\ TypeOK /\ CountIsOfThePages
    /\ AllFetched /\ ~OrderUsed(spec) =>
          LET result == Result
          IN (\/ OnlyBaseKey(result)
              \/ /\ result.keys = {} /\ request.listing.order = <<>>
                 /\ \A c \in ToSet(request.query.initial) : c.column \notin JsonColumns)
                => SameRows(Fetched, WithoutPreviews(request.previews, result.rows))

\* Whatever order a listing asks for, its pages hold every row of the result once:
\* apply.py says of a given order that "it will be converted into a total ordering
\* automatically. As a consequence, the ordering is always total."
OrderingIsTotal ==
    AllFetched /\ request.listing.order # <<>> => SameRows(Fetched, ResultRows)

GroupsCover(page, result, by) ==
    LET rows == page.rows
        groups == page.groups
    IN /\ \A i \in DOMAIN rows : \E g \in ToSet(groups) :
            /\ i - 1 \in g.indices
            /\ ~KeyBefore(ValuesOf(rows[i], by), g.first) /\ ~KeyBefore(g.last, ValuesOf(rows[i], by))
       /\ \A i, j \in DOMAIN groups : i # j => groups[i].indices \intersect groups[j].indices = {}
       /\ \A g \in ToSet(groups) : g.count = Cardinality({i \in DOMAIN result : result[i].group.id = g.id})
\* Every row of a page is in one of the groups answered with it and at a position of
\* that group; the group's count is of the rows of the whole result that belong to
\* it, and its first and last values are around them.
GroupsCoverThePage ==
    (phase = "answered" /\ quiet /\ request.listing.group # {}) =>
        \A n \in DOMAIN pages : GroupsCover(pages[n], Result.rows, The(request.listing.group).columns)

\* Joining along foreign keys from the referring to the referred rows neither loses a
\* row of the base table nor repeats one.
JoinsKeepBaseRows ==
    (phase \in {"records", "count"} /\ ForwardOnly(request.query) /\ Current(<<>>) # Broken)
        => Len(Current(<<>>).rows) = Len(tables[request.query.base])

OutputAliasesAreColumns ==
    (/\ phase \in {"records", "count"} /\ Current(spec) # Broken
     /\ \A i \in DOMAIN spec : ~Is(spec[i], "duplicate_only"))
        => LET aliases == InputAliases([request.query EXCEPT !.transformations = spec], Len(spec) + 1)
           IN aliases # <<>> => aliases = Current(spec).cols

Plain == \A i \in DOMAIN spec : Is(spec[i], "summarize") =>
            \A g \in ToSet(spec[i].summarize.grouping) : g.preproc = "none"
\* The aliases the server works out without running a query are the columns the query
\* has, and an alias traced back to an initial column holds values of that column.
\* (Looking for duplicates adds one, and hiding all columns hides none.)
AliasesAreTraced ==
    /\ OutputAliasesAreColumns
    /\ phase \in {"records", "count"} /\ Plain =>
        LET q == [request.query EXCEPT !.transformations = spec]
        IN \A a \in ToSet(Current(spec).cols) :
              LET c == InitialColumnOf(q, Len(spec) + 1, a)
                  rows == Current(spec).rows
              IN c # None => {rows[i].vals[a] : i \in DOMAIN rows} \subseteq
                    {None} \union {tables[TableOf(c)][i][c[2]] : i \in DOMAIN tables[TableOf(c)]}

\* A summary about a column of the base table that is unique on its own has one row
\* for each of its values: what the server adds to the grouping is decided by it.
\* (Provided the table is not joined to itself, and the client groups by it alone.)
OneRowPerBaseValue ==
    (/\ phase \in {"records", "count"} /\ request.kind = "run" /\ quiet
     /\ Len(spec) > 0 /\ Is(spec[1], "summarize") /\ Current(spec) # Broken) =>
        LET q == request.query
            s == q.transformations[1].summarize
            base == InitialColumnOf(q, 1, s.base)
            rows == Current(SubSeq(spec, 1, 1)).rows
            out == (CHOOSE g \in ToSet(spec[1].summarize.grouping) : g.in = s.base).out
        IN (/\ {base} \in Constraints /\ TableOf(base) = q.base
            /\ ToSet(Inputs(s.grouping)) \subseteq {s.base}
            /\ \A c \in ToSet(q.initial) : c.path # <<>> => TableOf(c.column) # q.base)
               => \A i, j \in DOMAIN rows : rows[i].vals[out] = rows[j].vals[out] => i = j

InStoredOrder(q) == \A i, j \in DOMAIN q.initial : i < j => q.initial[i].id < q.initial[j].id
ColumnsAreShownAsTheirSource ==
    (phase = "answered" /\ request.kind = "query" /\ InStoredOrder(request.query)) =>
        \A a \in DOMAIN described :
            LET d == described[a]
            IN /\ d.initial # {} => /\ d.options = {(The(d.initial)).column}
                                    /\ d.name = {Name((The(d.initial)).column, <<>>)}
               /\ d.initial = {} /\ d.input \in DOMAIN described => d.options = described[d.input].options
               /\ \A name \in d.name : d.options = {name.column}

\* Every column a run describes leads, from alias to alias, to an initial column.  The
\* REST API names every column that comes from an initial column after it and displays
\* it as that column is displayed, through any number of summaries, provided the initial
\* columns are asked for once each and in the order they are stored.
DescribedColumnsAreExplained ==
    /\ ColumnsAreShownAsTheirSource
    /\ phase = "answered" =>
        LET Step(explained) == explained \union
                {a \in DOMAIN described : described[a].input \in explained}
            explained == FoldLeft(LAMBDA found, a : Step(found),
                {a \in DOMAIN described : described[a].initial # {}}, SetToSeq(DOMAIN described))
        IN DOMAIN described \subseteq explained \union {IsDupe}

\* Every reference on a page of a table's records is previewed by what the row it
\* refers to holds, and the rows that one refers to in turn, whichever of several
\* references to one table it is and though rows come in pages and in groups.
PreviewsShowReferredRows ==
    (phase = "answered" /\ quiet /\ request.kind = "table") =>
        LET base == request.query.base
            Follow(row, k) ==
                LET found == SelectSeq(tables[TableOf(k[2])], LAMBDA r : row # None /\ row[k[1][2]] # None
                                                                        /\ r[k[2][2]] = row[k[1][2]])
                IN IF found = <<>> THEN None ELSE Head(found)
            Behind(row, path, c) == LET last == FoldLeft(Follow, row, path) IN IF last = None THEN None ELSE last[c[2]]
            IsOf(shown, row) == \A n \in DOMAIN row : Named(<<base, n>>) \in DOMAIN shown.vals
                                                        => shown.vals[Named(<<base, n>>)] = row[n]
        IN \A n \in DOMAIN pages : \A i \in DOMAIN pages[n].rows :
              /\ \E j \in DOMAIN tables[base] : IsOf(pages[n].rows[i], tables[base][j])
              /\ \A k \in {k \in ForeignKeys : TableOf(k[1]) = base /\ {k[1], k[2]} \subseteq columns} :
                    LET shown == pages[n].previews[k[1]][pages[n].rows[i].vals[Named(k[1])]]
                    IN \A a \in DOMAIN shown : \A j \in DOMAIN tables[base] :
                          IsOf(pages[n].rows[i], tables[base][j]) => shown[a] = Behind(tables[base][j], a[2], a[3])

=============================================================================
