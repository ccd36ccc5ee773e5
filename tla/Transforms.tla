------------------------------- MODULE Transforms -------------------------------
(***************************************************************************)
(* What the transformations of an exploration, and of a request for a page *)
(* of records, do to a relation.  No state: Explorations is built from it.  *)
(*                                                                          *)
(* A value of SQL is a sequence of numbers: <<>> is NULL, <<n>> a number,   *)
(* a longer one a text or an array.  An alias is a sequence of words.  A    *)
(* relation has columns, some of them primary keys of tables, and rows:     *)
(* each with its values, its rank in the order asked for (rows of one rank  *)
(* come in any order; where the order may be one of several, its ranks in   *)
(* each) and the group the grouping has put it in.                          *)
(***************************************************************************)
EXTENDS Integers, SequencesExt, Mappings

None == <<>>
NoGroup == [id |-> 0]
Relation(cols, rows, json, keys) == [cols |-> cols, rows |-> rows, json |-> json, keys |-> keys]
Row(vals) == [vals |-> vals, rank |-> <<0>>, group |-> NoGroup]
Broken == Relation(<<>>, <<>>, {}, {})    \* a query the database or SQLAlchemy refuses
HasColumns(r, aliases) == aliases \subseteq ToSet(r.cols)
Each(op(_), s) == [i \in DOMAIN s |-> op(s[i])]
\* The elements of a set in the order of their numbers, which differ.
Sorted(S, number) ==
    [n \in 1..Cardinality(S) |->
        CHOOSE x \in S : Cardinality({y \in S : number[y] < number[x]}) = n - 1]
\* SelectSeq by the positions it selects, for what there are proofs about.
At(s, positions) ==
    LET sorted == Sorted(positions, [i \in positions |-> i]) IN [n \in DOMAIN sorted |-> s[sorted[n]]]
Those(s, Test(_)) == At(s, {i \in DOMAIN s : Test(s[i])})
SumOf(S, value(_)) == FoldSet(LAMBDA x, sum : value(x) + sum, 0, S)

-----------------------------------------------------------------------------
\* Orders.

LexLess(a, b) ==
    \E i \in DOMAIN b : /\ \A j \in 1..(i - 1) : j \in DOMAIN a /\ a[j] = b[j]
                        /\ i \in DOMAIN a => a[i] < b[i]
Key(field, direction, nulls) == [field |-> field, direction |-> direction, nulls |-> nulls]
NullsFirst(key) == \/ key.nulls = "first"
                   \/ key.nulls = "default" /\ key.direction = "desc"
\* a comes before b.
Directed(a, b, key) ==
    /\ a # b
    /\ IF None \in {a, b} THEN NullsFirst(key) <=> a = None
       ELSE IF key.direction = "asc" THEN LexLess(a, b) ELSE LexLess(b, a)
RowBefore(a, b, keys) ==
    \E i \in DOMAIN keys :
        /\ Directed(a.vals[keys[i].field], b.vals[keys[i].field], keys[i])
        /\ \A j \in 1..(i - 1) : a.vals[keys[j].field] = b.vals[keys[j].field]

\* An order is completed by the primary keys the relation still has, of whatever table,
\* in the order of a set of Python; by all columns when there are no keys and no order.
AllColumns(r) ==
    Each(LAMBDA a : Key(a, "asc", "default"), SelectSeq(r.cols, LAMBDA a : a \notin r.json))
Deterministic_Given(r, keys) == {keys}      \* mutant: no order to fall back to
Deterministic(r, keys) ==
    IF keys = <<>> /\ r.keys = {} THEN {AllColumns(r)}
    ELSE {keys \o Each(LAMBDA a : Key(a, "asc", "default"), s) : s \in SetToSeqs(r.keys)}
Ordered(r, spec) ==
    LET orders == SetToSeq(Deterministic(r, spec))
        Before(row, keys) == {i \in DOMAIN r.rows : RowBefore(r.rows[i], row, keys)}
        fields == ToSet(Each(LAMBDA k : k.field, spec))
        Ranks(row) == Each(LAMBDA keys : Cardinality(Before(row, keys)), orders)
    IN IF ~HasColumns(r, fields) \/ fields \intersect r.json # {} THEN Broken
       ELSE [r EXCEPT !.rows = Each(LAMBDA row : [row EXCEPT !.rank = Ranks(row)], @)]

-----------------------------------------------------------------------------
\* Filters (DbFunctions has their functions), duplicates and search.

Filtered(r, f) ==
    IF ~HasColumns(r, {f.field}) THEN Broken
    ELSE [r EXCEPT !.rows = Those(@, LAMBDA row : row.vals[f.field] = f.value)]

IsDupe == <<"_is_dupe">>
DuplicateOnly(r, columns) ==
    LET Same(a, b) == \A c \in columns : a.vals[c] = b.vals[c]
        Alike(row) == {i \in DOMAIN r.rows : Same(r.rows[i], row)}
        Flagged(row) == [row EXCEPT !.vals = Single(IsDupe, <<1>>) ++ @, !.rank = <<0>>]
    IN IF ~HasColumns(r, columns) \/ columns \intersect r.json # {} THEN Broken
       ELSE [r EXCEPT !.cols = Append(@, IsDupe),
                      !.rows = Each(Flagged,
                          Those(@, LAMBDA row : Cardinality(Alike(row)) > 1))]

\* The score of a value, of a text if it has more than one number.
Score(v, searched) ==
    IF v = None THEN 0
    ELSE IF v = searched THEN 4
    ELSE IF IsPrefix(searched, v) THEN 3
    ELSE IF \E i \in DOMAIN v : IsPrefix(searched, SubSeq(v, i, Len(v))) THEN 2 ELSE 0
Searched(r, search) ==                      \* search: searched values of columns
    LET Total(row) == SumOf(DOMAIN search, LAMBDA c : Score(row.vals[c], search[c]))
        Worst == 4 * Cardinality(DOMAIN search)
    IN IF ~HasColumns(r, DOMAIN search) THEN Broken
       ELSE [r EXCEPT !.rows = Each(LAMBDA row : [row EXCEPT !.rank = <<Worst - Total(row)>>],
                                       Those(@, LAMBDA row : Total(row) > 0))]

-----------------------------------------------------------------------------
\* Columns.

Selected(r, aliases) ==                     \* no columns to select: all of them
    IF ~HasColumns(r, ToSet(aliases)) THEN Broken
    ELSE IF aliases = <<>> THEN r
    ELSE Relation(aliases,
                  Each(LAMBDA row : [row EXCEPT !.vals = Restrict(@, ToSet(aliases))], r.rows),
                  r.json, r.keys \intersect ToSet(aliases))
NotHidden(aliases, hidden) == Those(aliases, LAMBDA a : a \notin hidden)

\* An array of values: its length, then each with its own.
ArrayOf(s) == FoldLeft(LAMBDA sofar, v : sofar \o <<Len(v)>> \o v, <<Len(s)>>, s)
InOrder(vals) == SetToSortSeq(vals, LAMBDA a, b : Directed(a, b, Key(None, "asc", "default")))
Aggregate(function, s) ==
    CASE function = "distinct_aggregate_to_array" -> ArrayOf(InOrder(ToSet(s)))
      [] function = "aggregate_to_array" -> ArrayOf(s)
      [] function = "count" -> <<Cardinality({i \in DOMAIN s : s[i] # None})>>
      [] function = "max" -> IF ToSet(s) = {None} THEN None
                             ELSE Last(InOrder(ToSet(s) \ {None}))
Preprocessed(function, v) ==                \* such as a date truncated to its month
    IF function = "none" \/ v = None THEN v ELSE <<Head(v) \div 2>>

Grouping(in, out, preproc) == [in |-> in, out |-> out, preproc |-> preproc]
Aggregation(in, out, function) == [in |-> in, out |-> out, function |-> function]
Outputs(specs) == Each(LAMBDA s : s.out, specs)
Inputs(specs) == Each(LAMBDA s : s.in, specs)
\* A key that is grouped by as it is remains one.
KeysGroupedBy(r, grouping) ==
    {s.out : s \in {s \in ToSet(grouping) : s.in \in r.keys /\ s.preproc = "none"}}
Summarized(r, spec) ==
    LET g == spec.grouping
        a == spec.aggregation
        KeyOf(row) == Each(LAMBDA s : Preprocessed(s.preproc, row.vals[s.in]), g)
        Members(k) == SelectSeq(r.rows, LAMBDA row : KeyOf(row) = k)
        Values(k, s) == Each(LAMBDA row : row.vals[s.in], Members(k))
        out == Outputs(g) \o Outputs(a)
        Summary(k) == Row([alias \in ToSet(out) |->
            LET i == CHOOSE n \in DOMAIN out : out[n] = alias
            IN IF i <= Len(g) THEN k[i]
               ELSE Aggregate(a[i - Len(g)].function, Values(k, a[i - Len(g)]))])
        \* json values cannot be told equal, and so neither grouped nor distinct.
        Told == ToSet(Inputs(g)) \union
                {a[i].in : i \in {n \in DOMAIN a : a[n].function = "distinct_aggregate_to_array"}}
    IN IF ~HasColumns(r, ToSet(Inputs(g) \o Inputs(a))) \/ Told \intersect r.json # {} THEN Broken
       ELSE Relation(out, Each(Summary, SetToSeq({KeyOf(r.rows[i]) : i \in DOMAIN r.rows})), {},
                     KeysGroupedBy(r, g))

-----------------------------------------------------------------------------
\* Transformations, and what is known of their aliases before they are run.

\* A transformation is its specification under the name of its type.
Transform(type, spec) == [t \in {type} |-> spec]
Is(t, type) == type \in DOMAIN t
\* What is selected or summarized is listed.
IsTransformation(t) ==
    /\ DOMAIN t \in {{type} : type \in {"filter", "order", "duplicate_only", "search", "select", "hide", "summarize"}}
    /\ Is(t, "select") => t.select \in Seq(ToSet(t.select))
    /\ Is(t, "summarize") =>
          /\ DOMAIN t.summarize = {"base", "grouping", "aggregation"}
          /\ t.summarize.grouping \in Seq(ToSet(t.summarize.grouping))
          /\ t.summarize.aggregation \in Seq(ToSet(t.summarize.aggregation))
Apply(r, t) ==
    IF r = Broken THEN Broken ELSE
    CASE Is(t, "filter") -> Filtered(r, t.filter)
      [] Is(t, "order") -> Ordered(r, t.order)
      [] Is(t, "duplicate_only") -> DuplicateOnly(r, t.duplicate_only)
      [] Is(t, "search") -> Searched(r, t.search)
      [] Is(t, "select") -> Selected(r, t.select)
      [] Is(t, "hide") -> Selected(r, NotHidden(r.cols, t.hide))
      [] Is(t, "summarize") -> Summarized(r, t.summarize)
ApplyAll(r, ts) == FoldLeft(Apply, r, ts)

\* Which alias carries the uniqueness of which over; an aggregation carries none.
Carry(in, out) == [in |-> in, out |-> out]
Same(aliases) == Each(LAMBDA a : Carry(a, a), aliases)
UniqueMappings_Aggregated(t, inputs) ==     \* mutant: aggregations carry over too
    CASE Is(t, "summarize") ->
            Each(LAMBDA s : Carry(s.in, s.out), t.summarize.grouping \o t.summarize.aggregation)
      [] Is(t, "hide") -> Same(NotHidden(inputs, t.hide))
      [] Is(t, "select") -> Same(t.select)
      [] OTHER -> Same(inputs)
UniqueMappings(t, inputs) ==
    CASE Is(t, "summarize") ->
            Each(LAMBDA s : Carry(s.in, s.out), t.summarize.grouping)
            \o Each(LAMBDA s : Carry(None, s.out), t.summarize.aggregation)
      [] Is(t, "hide") -> Same(NotHidden(inputs, t.hide))
      [] Is(t, "select") -> Same(t.select)
      [] OTHER -> Same(inputs)
OutputAliases(t, inputs) == Outputs(UniqueMappings(t, inputs))
\* Where the aliases of summaries come from; nothing for other transformations.
InputOfOutput(t) ==
    IF ~Is(t, "summarize") THEN << >>
    ELSE LET all == t.summarize.grouping \o t.summarize.aggregation
         IN [out \in ToSet(Outputs(all)) |-> all[CHOOSE i \in DOMAIN all : all[i].out = out].in]

\* The columns missing from a summary are added to it under names of their own.
WithGrouping(spec, aliases) == [spec EXCEPT !.grouping =
    @ \o Each(LAMBDA a : Grouping(a, Append(a, "grouped"), "none"), aliases)]
WithAggregation(spec, aliases) == [spec EXCEPT !.aggregation =
    @ \o Each(LAMBDA a : Aggregation(a, Append(a, "agged"), "distinct_aggregate_to_array"), aliases)]
=============================================================================
