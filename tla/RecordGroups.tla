------------------------------ MODULE RecordGroups ------------------------------
(***************************************************************************)
(* The grouping of the records of a page: every mode puts each row of the   *)
(* relation into a group, with the group's number, its size and its first   *)
(* and last values; the answer then gathers, for each group the page shows, *)
(* the positions of its rows in the page.  No state.                        *)
(***************************************************************************)
EXTENDS Transforms

\* What the request says; parameters a mode does not use are None or 0.
GroupBy(mode, columns, preproc, number, bounds) ==
    [mode |-> mode, columns |-> columns, preproc |-> preproc, number |-> number,
     bounds |-> bounds]
\* number: of groups, of values per group, or of characters; bounds: tuples of
\* values, or the least and the greatest value for count_by.
SingleColumnModes == {"magnitude", "prefix", "count_by", "extract"}
Valid(g) ==
    /\ g.mode \in {"distinct", "percentile", "endpoints"} \union SingleColumnModes
    /\ g.preproc # None => Len(g.preproc) = Len(g.columns)
    /\ g.mode \in SingleColumnModes => Len(g.columns) = 1
    /\ g.mode = "endpoints" => g.bounds # <<>>
    /\ g.mode \in {"percentile", "prefix", "count_by", "extract"} => g.number # 0
    /\ g.mode = "count_by" => Len(g.bounds) = 2

\* count_by: bounds from the least value up to the greatest, which no group includes.
BoundTuples(g) ==
    IF g.mode = "endpoints" THEN g.bounds
    ELSE LET min == g.bounds[1]
         IN [i \in 1..(1 + (g.bounds[2] - min) \div g.number) |-> <<<<min + (i - 1) * g.number>>>>]

\* Tuples of values compared as rows of SQL, NULL being in no range.
TupleBelow(a, b) ==
    \E i \in DOMAIN a : LexLess(a[i], b[i]) /\ \A j \in 1..(i - 1) : a[j] = b[j]
InRange(t, low, high) == None \notin ToSet(t) /\ ~TupleBelow(t, low) /\ TupleBelow(t, high)
RangeOf(t, bounds) ==
    LET ranges == {i \in 1..(Len(bounds) - 1) : InRange(t, bounds[i], bounds[i + 1])}
    IN IF ranges = {} THEN None ELSE <<Min(ranges)>>

\* The order of magnitude of the differences, less one: groups are 10^power wide.
Power(vals) ==
    LET numbers == {Head(v) : v \in vals \ {None}}
        difference == Max(numbers) - Min(numbers)
    IN (CHOOSE p \in 0..9 : 10^p <= difference /\ difference < 10^(p + 1)) - 1
Divided(v, power) ==
    IF v = None THEN None
    ELSE IF power < 0 THEN <<Head(v) * 10>> ELSE <<Head(v) \div 10^power>>

\* The values of the grouping columns in order: NULL last.
KeyBefore(a, b) ==
    \E i \in DOMAIN a : /\ Directed(a[i], b[i], Key(None, "asc", "default"))
                        /\ \A j \in 1..(i - 1) : a[j] = b[j]
ValuesOf(row, columns) == Each(LAMBDA c : row.vals[c], columns)
PercentileOf(rows, row, g) ==
    LET NotAfter == {i \in DOMAIN rows :
            ~KeyBefore(ValuesOf(row, g.columns), ValuesOf(rows[i], g.columns))}
    IN (Cardinality(NotAfter) * g.number + Len(rows) - 1) \div Len(rows)

\* The key of the group of a row: rows of one key are one group.
GroupKey(rows, row, g) ==
    LET vals == ValuesOf(row, g.columns)
        v == Head(vals)
        all == {Head(ValuesOf(rows[i], g.columns)) : i \in DOMAIN rows}
    IN CASE g.mode = "distinct" -> IF g.preproc = None THEN vals
                ELSE [i \in DOMAIN vals |-> Preprocessed(g.preproc[i], vals[i])]
         [] g.mode = "extract" -> <<IF v = None THEN v ELSE <<Head(v) % g.number>>>>
         [] g.mode = "prefix" -> <<SubSeq(v, 1, IF Len(v) < g.number THEN Len(v) ELSE g.number)>>
         [] g.mode = "magnitude" -> <<Divided(v, Power(all))>>
         [] g.mode = "percentile" -> <<<<PercentileOf(rows, row, g)>>>>
         [] OTHER -> <<RangeOf(vals, BoundTuples(g))>>

Ranged == {"endpoints", "count_by"}
Refused(r, g) ==
    \/ ~HasColumns(r, ToSet(g.columns)) \/ ToSet(g.columns) \intersect r.json # {}
    \/ g.mode = "magnitude" /\       \* there is no logarithm of zero
       Cardinality({r.rows[i].vals[g.columns[1]] : i \in DOMAIN r.rows} \ {None}) = 1
\* Rows in no range are left out, and with ranges all other columns are too.
RowsInGroups(rows, g) ==
    IF g.mode \in Ranged THEN Those(rows, LAMBDA row : GroupKey(rows, row, g) # <<None>>)
    ELSE rows
IdOf(k, keys, g) ==
    IF g.mode \in Ranged \union {"percentile"} THEN Head(Head(k))
    ELSE 1 + Cardinality({l \in ToSet(keys) : KeyBefore(l, k)})
Least(tuples) == CHOOSE t \in tuples : \A u \in tuples : ~KeyBefore(u, t)
Greatest(tuples) == CHOOSE t \in tuples : \A u \in tuples : ~KeyBefore(t, u)
GroupMeta(id, tuples) ==            \* tuples: of the group's rows by position
    [id |-> id, count |-> Cardinality(DOMAIN tuples),
     first |-> Least(Range(tuples)), last |-> Greatest(Range(tuples))]
WithGroups(rows, keys, g) ==
    LET Tuples(k) == [i \in {n \in DOMAIN rows : keys[n] = k} |-> ValuesOf(rows[i], g.columns)]
        meta == [k \in ToSet(keys) |-> GroupMeta(IdOf(k, keys, g), Tuples(k))]
    IN [i \in DOMAIN rows |-> [rows[i] EXCEPT !.group = meta[keys[i]], !.rank = <<0>>]]
WithKeys(all, rows, g) == WithGroups(rows, Each(LAMBDA row : GroupKey(all, row, g), rows), g)
Grouped(r, g) ==
    IF Refused(r, g) THEN Broken
    ELSE [Selected(r, IF g.mode \in Ranged THEN SetToSeq(ToSet(g.columns)) ELSE r.cols)
          EXCEPT !.rows = WithKeys(r.rows, RowsInGroups(r.rows, g), g)]

\* The groups of a page in the order they are met, each with the positions of its
\* rows, which are counted from zero.
GroupsOfPage_FromOne(page) ==          \* mutant: positions are counted from one
    LET Shown(meta) == [id |-> meta.id, count |-> meta.count, first |-> meta.first,
                        last |-> meta.last,
                        indices |-> {i \in DOMAIN page : page[i].group.id = meta.id}]
        groups == {Shown(page[i].group) : i \in DOMAIN page}
    IN IF page = <<>> \/ page[1].group = NoGroup THEN <<>>
       ELSE SetToSortSeq(groups, LAMBDA a, b : Min(a.indices) < Min(b.indices))
GroupsOfPage(page) ==
    LET Indices(id) == {i - 1 : i \in {n \in DOMAIN page : page[n].group.id = id}}
        Shown(meta) == [id |-> meta.id, count |-> meta.count, first |-> meta.first,
                        last |-> meta.last, indices |-> Indices(meta.id)]
        groups == {Shown(page[i].group) : i \in DOMAIN page}
    IN IF page = <<>> \/ page[1].group = NoGroup THEN <<>>
       ELSE SetToSortSeq(groups, LAMBDA a, b : Min(a.indices) < Min(b.indices))
=============================================================================
