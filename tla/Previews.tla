-------------------------------- MODULE Previews --------------------------------
(***************************************************************************)
(* Previews of the rows that a table's records refer to.  A listing of the *)
(* REST API shows, next to every reference, what the template of the table *)
(* it refers to names; a reference in that template is replaced by the     *)
(* template of the table it refers to in turn (mathesar/utils/preview.py). *)
(* The template's columns are fetched with the records, joined along the   *)
(* foreign keys, and then taken out of them.                               *)
(***************************************************************************)
EXTENDS RecordGroups

CONSTANTS Columns,      \* <<table, attnum>> of the user database
          PrimaryKeys,  \* those of them that are keys
          ForeignKeys,  \* <<column, column>>: from the referring to the referred
          Templates     \* the columns named by templates that users have written, by table

ASSUME PreviewsAssumption ==
    /\ IsFiniteSet(Columns) /\ \A c \in Columns : c = <<c[1], c[2]>> /\ c[2] \in Nat
    /\ PrimaryKeys \subseteq Columns
    /\ ForeignKeys \subseteq Columns \X Columns
    /\ \A t \in DOMAIN Templates : Templates[t] \in Seq(Columns) /\ IsInjective(Templates[t])

TableOf(c) == c[1]
\* An initial column of a query, the id of its Django row, and the joins that lead to it.
InitialColumn(alias, column, id, path) ==
    [alias |-> alias, column |-> column, id |-> id, path |-> path]

ColumnsOf(left, t) ==
    LET of == {c \in left : TableOf(c) = t} IN Sorted(of, [c \in of |-> c[2]])

\* Unless it is customised: the first column that is no key, else the last key.
compute_default_preview_template(left, t) ==
    LET others == Those(ColumnsOf(left, t), LAMBDA c : c \notin PrimaryKeys)
    IN IF others # <<>> THEN <<Head(others)>>
       ELSE IF ColumnsOf(left, t) # <<>> THEN <<Last(ColumnsOf(left, t))>> ELSE <<>>
Template(left, t) ==
    IF t \in DOMAIN Templates THEN Templates[t] ELSE compute_default_preview_template(left, t)

compute_path_str_Short(path, c) == <<"preview", <<>>, c>>     \* mutant: the path is left out
compute_path_str(path, c) == <<"preview", path, c>>
Named(c) == <<"column", c>>

\* The foreign keys that are followed from the end of a path that begins at table t:
\* behind a reference those of the columns it shows, if any, and none twice.
Followed(left, t, path) ==
    LET end == IF path = <<>> THEN t ELSE TableOf(Last(path)[2])
        restricted == IF path = <<>> THEN {} ELSE ToSet(Template(left, end)) \intersect left
    IN {k \in ForeignKeys : /\ TableOf(k[1]) = end /\ {k[1], k[2]} \subseteq left
                            /\ restricted # {} => k[1] \in restricted
                            /\ k \notin ToSet(path)}

\* The aliases of the template a reference is replaced by, and the columns to fetch:
\* those of the template that refer to further rows are replaced in turn.
PreviewOf(template, referent, path) ==
    LET own == Those(template, LAMBDA c : c \notin DOMAIN referent.info)
    IN [template |-> FlattenSeq(Each(LAMBDA c : IF c \in DOMAIN referent.info
                                                THEN referent.info[c].template
                                                ELSE <<compute_path_str(path, c)>>, template)),
        columns |-> referent.columns
                    \o Each(LAMBDA c : InitialColumn(compute_path_str(path, c), c, 0, path), own)]
\* For every reference followed its template, and the columns to fetch for all.
_preview_info_by_column_id(left, path, referents) ==
    LET keys == DOMAIN referents
        of == [k \in keys |-> PreviewOf(Template(left, TableOf(k[2])), referents[k], Append(path, k))]
    IN [info |-> [c \in {k[1] : k \in keys} |->
                    [template |-> of[CHOOSE k \in keys : k[1] = c].template]],
        columns |-> FlattenSeq(Each(LAMBDA k : of[k].columns, SetToSeq(keys)))]
get_preview_info(left, t) ==
    LET behind[path \in Seq(ForeignKeys)] ==
            _preview_info_by_column_id(left, path,
                [k \in Followed(left, t, path) |-> behind[Append(path, k)]])
    IN behind

TablePreviews(left, t) == get_preview_info(left, t)[<<>>]
\* The columns of a table, and those of the previews.
ColumnsToFetch(left, t) ==
    Each(LAMBDA c : InitialColumn(Named(c), c, 0, <<>>), ColumnsOf(left, t))
    \o TablePreviews(left, t).columns

\* What is taken out of the records of a page: for every reference that is made in it,
\* the values of its template.  Records that lack them make the request fail.
PreviewAliases(info) == UNION {ToSet(info[c].template) : c \in DOMAIN info}
CanPreview(info, page) ==
    \A i \in DOMAIN page : PreviewAliases(info) \union {Named(c) : c \in DOMAIN info} \subseteq DOMAIN page[i].vals
PreviewsOfPage(info, page) ==
    LET Referring(c, v) == {i \in DOMAIN page : page[i].vals[Named(c)] = v}
    IN [c \in DOMAIN info |->
          [v \in {page[i].vals[Named(c)] : i \in DOMAIN page} |->
             [a \in ToSet(info[c].template) |-> page[Max(Referring(c, v))].vals[a]]]]
WithoutPreviews(info, page) ==
    Each(LAMBDA row : [row EXCEPT !.vals = Restrict(@, DOMAIN @ \ PreviewAliases(info))], page)
=============================================================================
