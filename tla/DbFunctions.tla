------------------------------ MODULE DbFunctions ------------------------------
(***************************************************************************)
(* Filters.  A filter is a tree of functions that arrives as JSON and names *)
(* columns by their Django ids.  A request for a page of records rewrites   *)
(* the ids to names, and then builds and runs two queries, the count and    *)
(* the page, each of which checks the names it is given against the         *)
(* relation, and unpacks the functions that are made of others.  Meanwhile  *)
(* others may rename and drop the columns.                                  *)
(*                                                                          *)
(* A tree maps the places of its nodes to the nodes, a place being the      *)
(* positions of the parameters that lead to it, the root's the empty one.   *)
(*                                                                          *)
(* A value of SQL is a sequence: <<>> is NULL, <<v>> is the value v.  An    *)
(* array is its number of elements, a text a sequence of characters, a URI  *)
(* its scheme and authority, an email address its domain.                   *)
(***************************************************************************)
EXTENDS Sequences, Functions, DbTypes, Mappings

CONSTANTS Columns,      \* attnums, which stand for the Django ids too
          Subject, Flag,\* the column filters are about, and a boolean column
          Names,
          Numbers,
          ChangingKinds,\* bound: the kinds for which others change the table
          MaxRenames    \* bound: statements of others during the request

ASSUME FunctionsAssumption ==
    /\ Subject \in Columns /\ Flag \in Columns /\ Subject # Flag
    /\ Numbers \subseteq Nat /\ MaxRenames \in Nat
    /\ \E g \in [Columns -> Names] : IsInjective(g)

VARIABLES kind,       \* the kind of values the subject column holds
          row,        \* the row looked at: a value per column
          installed,  \* Mathesar's SQL functions on the user database
          names,      \* names[c]: the columns of the table that are left
          filter,     \* the filter as it was sent
          step,       \* ids, rewritten, count, page or done
          spec,       \* the filter by names
          seen,       \* the names of the columns when the query was built
          answer,     \* what the request answers
          renames

table == <<kind, row, installed>>
vars == <<table, names, filter, step, spec, seen, answer, renames>>

-----------------------------------------------------------------------------
\* Declarations of functions: hints and the SQL functions they depend on.

Fn(returns, parameters, isFilter, needs) ==
    [returns |-> returns, parameters |-> parameters, filter |-> isFilter, needs |-> needs]
Filter(parameters) == Fn({"boolean"}, parameters, TRUE, {})

LogicalFunctions ==
    Single("null", Filter(<<{"any"}>>)) ++
    [f \in {"not", "and", "or"} |-> Fn({"boolean"}, <<>>, FALSE, {})]
ComparisonFunctions ==
    Single("equal", Filter(<<{"any"}, {"any"}>>)) ++
    [f \in {"greater", "lesser"} |-> Filter(<<{"comparable"}, {"comparable"}>>)]
TextFunctions ==
    [f \in {"starts_with", "contains"} |->
        Fn({"boolean"}, <<{"string_like"}, {"string_like"}>>, FALSE, {})] ++
    [f \in {"starts_with_case_insensitive", "contains_case_insensitive"} |->
        Filter(<<{"string_like"}, {"string_like"}>>)] ++
    Single("to_lowercase", Fn({"string_like"}, <<{"string_like"}>>, TRUE, {}))
\* The hint of the only parameter of an extracting function is put on a second one.
LengthFunctions ==
    Single("array_length", Fn({"comparable"}, <<{"array"}, {"any"}>>, TRUE, {})) ++
    Single("json_array_length", Fn({"comparable"}, <<{"jsonlist"}>>, TRUE, {}))
ExtractFunctions ==
    [f \in {"uri_authority", "uri_scheme", "email_domain_name"} |->
        Fn({}, <<{}>>, FALSE, {f})]
PackedComparisons ==
    Single("not_null", Filter(<<{"any"}>>)) ++
    [f \in {"lesser_or_equal", "greater_or_equal"} |->
        Filter(<<{"comparable"}, {"comparable"}>>)]

\* Functions that compare a length, and the comparison each unpacks to.
ArrayLengthTests ==
    [array_length_equals |-> "equal", array_length_greater_than |-> "greater",
     array_length_lesser_than |-> "lesser",
     array_length_greater_than_or_equal |-> "greater_or_equal",
     array_length_lesser_than_or_equal |-> "lesser_or_equal"]
JsonLengthTests ==
    [json_array_length_equals |-> "equal", json_array_length_greater_than |-> "greater",
     json_array_length_less_than |-> "lesser",
     json_array_length_greater_or_equal |-> "greater_or_equal",
     json_array_length_less_or_equal |-> "lesser_or_equal"]
PackedLengths ==
    [f \in DOMAIN ArrayLengthTests |-> Filter(<<{"array"}, {"any"}, {"numeric"}>>)] ++
    [f \in DOMAIN JsonLengthTests |-> Filter(<<{"jsonlist"},
        IF f = "json_array_length_equals" THEN {"any"} ELSE {"numeric"}>>)]
NotEmptyTests ==
    Single("array_not_empty", Filter(<<{"array"}, {"any"}>>)) ++
    Single("json_array_not_empty", Filter(<<{"jsonlist"}>>))

\* Functions that test a part of a value: the part and the test.
ExtractTests ==
    [uri_authority_contains |-> <<"uri_authority", "contains">>,
     uri_scheme_equals |-> <<"uri_scheme", "equal">>,
     email_domain_contains |-> <<"email_domain_name", "contains">>,
     email_domain_equals |-> <<"email_domain_name", "equal">>]
PackedExtracts_NoNeeds ==              \* mutant: what they unpack to is forgotten
    [f \in DOMAIN ExtractTests |-> Fn({"boolean"},
        <<{IF ExtractTests[f][1] = "email_domain_name" THEN "email" ELSE "uri"},
          {"string_like"}>>, TRUE, {})]
PackedExtracts ==
    [f \in DOMAIN ExtractTests |-> Fn({"boolean"},
        <<{IF ExtractTests[f][1] = "email_domain_name" THEN "email" ELSE "uri"},
          {"string_like"}>>, TRUE, {ExtractTests[f][1]})]

Base == LogicalFunctions ++ ComparisonFunctions ++ TextFunctions ++ LengthFunctions
        ++ ExtractFunctions
Packed == PackedComparisons ++ PackedLengths ++ NotEmptyTests ++ PackedExtracts
KnownDbFunctions == Base ++ Packed

\* Hints of a parameter become the types of the interface it may have.
ParameterUITypes ==
    [f \in DOMAIN KnownDbFunctions |-> [i \in DOMAIN KnownDbFunctions[f].parameters |->
        UITypesThatSatisfy(KnownDbFunctions[f].parameters[i])]]

Supported(f, onDatabase) == KnownDbFunctions[f].needs \subseteq onDatabase
AvailableFilters(onDatabase) ==
    {f \in DOMAIN KnownDbFunctions : Supported(f, onDatabase) /\ KnownDbFunctions[f].filter}

-----------------------------------------------------------------------------
\* The trees of a filter.
Leaf(node) == Single(<<>>, node)
Id(c) == Leaf([id |-> "column_id", column |-> c])
Name(n) == [id |-> "column_name", column |-> n]
Literal(v) == Leaf([id |-> "literal", value |-> v])
Below(i, tree) == [p \in {<<i>> \o q : q \in DOMAIN tree} |-> tree[Tail(p)]]
Call(f, args) ==
    [p \in {<<>>} \union (UNION {DOMAIN Below(i, args[i]) : i \in DOMAIN args}) |->
        IF p = <<>> THEN [id |-> f, arity |-> Len(args)] ELSE Below(Head(p), args[Head(p)])[p]]
Dimension == Literal(<<1>>)      \* of arrays: always the first

Root(tree) == tree[<<>>]
Nodes(tree) == {tree[p] : p \in DOMAIN tree}
IsCall(node) == "arity" \in DOMAIN node
Param(tree, i) == [p \in {Tail(q) : q \in {q \in DOMAIN tree : q # <<>> /\ Head(q) = i}} |->
                      tree[<<i>> \o p]]

-----------------------------------------------------------------------------
\* to_sa_expression(), and what PostgreSQL makes of it.

Lower(s) == [i \in DOMAIN s |-> IF s[i] = "A" THEN "a" ELSE s[i]]
\* from[j]: the places in s from which the rest of the pattern, from j on, matches.
Like(s, pattern) ==
    LET from[j \in 1 .. Len(pattern) + 1] ==
            IF j = Len(pattern) + 1 THEN {Len(s) + 1}
            ELSE IF pattern[j] = "%"
            THEN {i \in 1 .. Len(s) + 1 : \E k \in from[j + 1] : i <= k}
            ELSE {i \in 1 .. Len(s) : s[i] = pattern[j] /\ i + 1 \in from[j + 1]}
    IN  1 \in from[1]

\* A function of two values that is NULL when one of them is.
Lift(a, b, value) == IF a = <<>> \/ b = <<>> THEN <<>> ELSE <<value>>
Conjunction(args) == IF \E i \in DOMAIN args : args[i] = <<FALSE>> THEN <<FALSE>>
                     ELSE IF \E i \in DOMAIN args : args[i] = <<>> THEN <<>> ELSE <<TRUE>>
Negation(a) == IF a = <<>> THEN <<>> ELSE <<~Head(a)>>

Logical(f, args) ==
    CASE f = "null" -> <<args[1] = <<>>>>
      [] f = "not" -> Negation(Conjunction(args))
      [] f = "and" -> Conjunction(args)
      [] f = "or" -> Negation(Conjunction([i \in DOMAIN args |-> Negation(args[i])]))
Comparison(f, a, b) ==
    CASE f = "equal" -> Lift(a, b, a = b)
      [] f = "greater" -> Lift(a, b, Head(a) > Head(b))
      [] f = "lesser" -> Lift(a, b, Head(a) < Head(b))
TextMatch(f, s, t) ==
    LET pattern(p) == IF f \in {"contains", "contains_case_insensitive"}
                      THEN <<"%">> \o p \o <<"%">> ELSE p \o <<"%">>
    IN  IF f \in {"starts_with", "contains"}
        THEN Lift(s, t, Like(Head(s), pattern(Head(t))))
        ELSE Lift(s, t, Like(Lower(Head(s)), Lower(pattern(Head(t)))))
\* array_length() is NULL for an empty array, and coalesced to 0.
LengthOf_Null(f, a) == IF f = "array_length" /\ a = <<0>> THEN <<>> ELSE a   \* mutant
LengthOf(f, a) == IF f = "array_length" /\ a = <<>> THEN <<0>> ELSE a
Extract(f, a) == IF a = <<>> THEN <<>>
                 ELSE CASE f = "uri_authority" -> Head(a).authority
                        [] f = "uri_scheme" -> Head(a).scheme
                        [] f = "email_domain_name" -> a

Apply(f, args) ==
    CASE f \in DOMAIN LogicalFunctions -> Logical(f, args)
      [] f \in DOMAIN ComparisonFunctions -> Comparison(f, args[1], args[2])
      [] f \in DOMAIN LengthFunctions -> LengthOf(f, args[1])
      [] f \in DOMAIN ExtractFunctions -> Extract(f, args[1])
      [] OTHER -> TextMatch(f, args[1], args[2])

\* unpack(): a packed function by what it unpacks to, which has the same parameters but
\* those it has no use for.
OrEqual_And(f, a) == Apply("and", <<Apply(f, a), Apply("equal", a)>>)   \* mutant: asks for both
OrEqual(f, a) == Apply("or", <<Apply(f, a), Apply("equal", a)>>)
Compare(f, a) == CASE f = "lesser_or_equal" -> OrEqual("lesser", a)
                   [] f = "greater_or_equal" -> OrEqual("greater", a)
                   [] OTHER -> Apply(f, a)
Zero == <<0>>
Unpack(f, a) ==
    CASE f = "not_null" -> Apply("not", <<Apply("null", a)>>)
      [] f \in {"lesser_or_equal", "greater_or_equal"} -> Compare(f, a)
      [] f \in DOMAIN ArrayLengthTests ->
            Compare(ArrayLengthTests[f], <<Apply("array_length", a), a[3]>>)
      [] f \in DOMAIN JsonLengthTests ->
            Compare(JsonLengthTests[f], <<Apply("json_array_length", a), a[2]>>)
      [] f = "array_not_empty" -> Apply("greater", <<Apply("array_length", a), Zero>>)
      [] f = "json_array_not_empty" -> Apply("greater", <<Apply("json_array_length", a), Zero>>)
      [] f \in DOMAIN ExtractTests -> Apply(ExtractTests[f][2], <<Apply(ExtractTests[f][1], a), a[2]>>)

Evaluate(tree, valueOf) ==
    LET at[p \in DOMAIN tree] ==
            LET node == tree[p]
                args == [i \in 1 .. node.arity |-> at[Append(p, i)]]
            IN  CASE node.id = "column_name" -> valueOf[node.column]
                  [] node.id = "literal" -> node.value
                  [] node.id \in DOMAIN Packed -> Unpack(node.id, args)
                  [] node.id \in DOMAIN Base -> Apply(node.id, args)
    IN  at[<<>>]

\* The functions of the database that an expression calls in the end: of the functions
\* another unpacks to, only those that extract a part of a value are of the database.
CalledBy(f) == IF f \in DOMAIN ExtractTests THEN Base[ExtractTests[f][1]].needs
               ELSE IF f \in DOMAIN Base THEN Base[f].needs ELSE {}
Calls(tree) == UNION {CalledBy(node.id) : node \in Nodes(tree)}

-----------------------------------------------------------------------------
\* Reading a filter.

Rewrite(tree, idToName) ==
    [p \in DOMAIN tree |-> IF tree[p].id = "column_id" THEN Name(idToName[tree[p].column])
                           ELSE tree[p]]
IdsIn(tree) == {node.column : node \in {n \in Nodes(tree) : n.id = "column_id"}}
NamesIn(tree) == {node.column : node \in {n \in Nodes(tree) : n.id = "column_name"}}

\* get_db_function_from_ma_function_spec: a value must be wrapped in a literal, and a
\* function known to Mathesar, whether the database supports it or not.
Deserializes(tree) == \A node \in Nodes(tree) :
    node.id \in (IF IsCall(node) THEN DOMAIN KnownDbFunctions ELSE {"column_name", "literal"})

\* The columns a filter refers to, looked for in the parameters of its functions: a
\* filter that is a column itself refers to none.
ReferencedColumns(tree) == IF IsCall(Root(tree)) THEN NamesIn(tree) ELSE {}

\* Whether every function gets the parameters its to_sa_expression or unpack takes.
Takes(f, count) ==
    CASE f \in {"and", "or"} -> TRUE
      [] f = "not" -> count > 0
      [] f \in DOMAIN Packed -> count >= Len(Packed[f].parameters)
      [] OTHER -> count = Len(Base[f].parameters)
Builds(tree) == \A node \in Nodes(tree) : IsCall(node) => Takes(node.id, node.arity)

-----------------------------------------------------------------------------
\* The values of the columns and the filters that are sent.

Texts == {<<>>, <<"A", "b">>, <<"b">>}
Kinds == {"number", "array", "jsonlist", "text", "uri", "email"}
Values(k) ==
    CASE k \in {"number", "array", "jsonlist"} -> {<<n>> : n \in Numbers}
      [] k \in {"text", "email"} -> {<<t>> : t \in Texts}
      [] k = "uri" -> {<<[scheme |-> <<s>>, authority |-> a]>> :
                          s \in Texts \ {<<>>}, a \in {<<>>} \union {<<t>> : t \in Texts}}

Arguments(k, f, i) ==
    LET hints == KnownDbFunctions[f].parameters
    IN  IF i = 1 THEN {Id(Subject)}
        ELSE IF hints[1] = {"array"} /\ i = 2 THEN {Dimension}
        ELSE IF hints[1] \in {{"array"}, {"jsonlist"}} THEN {Literal(<<n>>) : n \in Numbers}
        ELSE IF f = "uri_scheme_equals" \/ "string_like" \in hints[i]
             THEN {Literal(<<t>>) : t \in Texts \union {<<"%">>}}
        ELSE {Literal(v) : v \in Values(k)}
TestsWith(k, count) == {f \in DOMAIN KnownDbFunctions :
    /\ KnownDbFunctions[f].filter /\ Len(KnownDbFunctions[f].parameters) = count
    /\ k \in ParameterUITypes[f][1]}
Tests(k) ==
    {Call(f, <<Id(Subject)>>) : f \in TestsWith(k, 1)} \union
    (UNION {{Call(f, <<Id(Subject), b>>) : b \in Arguments(k, f, 2)} : f \in TestsWith(k, 2)}) \union
    (UNION {{Call(f, <<Id(Subject), Dimension, b>>) : b \in Arguments(k, f, 3)} :
               f \in TestsWith(k, 3)})
FlagIsSet == Call("not_null", <<Id(Flag)>>)
Combined(k) == Tests(k)
    \union {Call("not", <<t>>) : t \in Tests(k)}
    \union {Call("and", <<t, FlagIsSet>>) : t \in Tests(k)}
    \union {Call("or", <<t, FlagIsSet>>) : t \in Tests(k)}
Unknown == Leaf(Name("unknown"))
Odd == {Id(Flag), Unknown, Call("null", <<Unknown>>),
        Call("not", <<Call("null", <<Unknown>>)>>), Call("equal", <<Id(Subject)>>),
        Call("not", <<>>), Call("unknown", <<Id(Subject)>>),
        Call("null", <<Leaf([id |-> "raw"])>>), Leaf([id |-> "bare"])}

-----------------------------------------------------------------------------
\* The request.

Fail(why) == /\ answer' = why /\ step' = "done"
             /\ UNCHANGED <<table, names, filter, renames>>

\* Ids are looked up outside of the try block: what is not found is not caught.
RewriteFilter_Swapped ==               \* mutant: the names are off by one column
    /\ step = "ids" /\ Root(filter).id # "bare" /\ IdsIn(filter) \subseteq DOMAIN names
    /\ spec' = Rewrite(filter, [c \in DOMAIN names |->
                   names[CHOOSE d \in DOMAIN names : d # c \/ DOMAIN names = {c}]])
    /\ step' = "rewritten"
    /\ UNCHANGED <<table, names, filter, seen, answer, renames>>
RewriteFilter ==
    /\ step = "ids"
    /\ \/ Root(filter).id = "bare" /\ Fail("malformed") /\ UNCHANGED <<spec, seen>>
       \/ /\ Root(filter).id # "bare" /\ ~(IdsIn(filter) \subseteq DOMAIN names)
          /\ Fail("unknown_id") /\ UNCHANGED <<spec, seen>>
       \/ /\ Root(filter).id # "bare" /\ IdsIn(filter) \subseteq DOMAIN names
          /\ spec' = Rewrite(filter, names)
          /\ step' = "rewritten"
          /\ UNCHANGED <<table, names, filter, seen, answer, renames>>

\* The filter is deserialized, checked against the relation and made an expression,
\* for the count and again for the page.
BuildQuery ==
    /\ step \in {"rewritten", "counted"}
    /\ LET known == {names[c] : c \in DOMAIN names} IN
       \/ /\ ~Deserializes(spec) \/ ~(ReferencedColumns(spec) \subseteq known)
          /\ Fail("bad_filter") /\ UNCHANGED <<spec, seen>>
       \/ /\ Deserializes(spec) /\ ReferencedColumns(spec) \subseteq known
          /\ ~Builds(spec)
          /\ Fail("wrong_arity") /\ UNCHANGED <<spec, seen>>
       \/ /\ Deserializes(spec) /\ ReferencedColumns(spec) \subseteq known
          /\ Builds(spec)
          /\ seen' = names
          /\ step' = IF step = "rewritten" THEN "count" ELSE "page"
          /\ UNCHANGED <<table, names, filter, spec, answer, renames>>

\* The columns an expression names, when it runs: the count names those of the filter,
\* the page all the columns of the relation.
NamesRun == NamesIn(spec) \union (IF step = "page" THEN {seen[c] : c \in DOMAIN seen} ELSE {})
ColumnNamed(n) == CHOOSE c \in DOMAIN names : names[c] = n
\* What WHERE is given, and the logical functions under it, is boolean.
Connectives == {"not", "and", "or"}
IsCondition(tree, p) == \A k \in 0 .. Len(p) - 1 : tree[SubSeq(p, 1, k)].id \in Connectives
GivesBoolean(node) ==
    IF IsCall(node) THEN KnownDbFunctions[node.id].returns = {"boolean"}
    ELSE node.id = "column_name" /\ ColumnNamed(node.column) = Flag
IsBoolean(tree) == \A p \in DOMAIN tree : IsCondition(tree, p) => GivesBoolean(tree[p])
\* The filter reads the columns it was sent for.
ReadsItsColumns == IdsIn(filter) \subseteq DOMAIN names /\ Rewrite(filter, names) = spec

RunQuery ==
    /\ step \in {"count", "page"}
    /\ UNCHANGED <<spec, seen>>
    /\ LET known == {names[c] : c \in DOMAIN names} IN
       \/ ~(NamesRun \subseteq known) /\ Fail("no_column")
       \/ /\ NamesRun \subseteq known /\ ~(Calls(spec) \subseteq installed)
          /\ Fail("undefined_function")
       \/ /\ NamesRun \subseteq known /\ Calls(spec) \subseteq installed
          /\ IF ~ReadsItsColumns THEN Fail("other_column")
             ELSE IF ~IsBoolean(spec) THEN Fail("not_boolean")
             ELSE IF step = "count"
             THEN /\ step' = "counted"
                  /\ UNCHANGED <<table, names, filter, answer, renames>>
             ELSE IF Evaluate(spec, [n \in known |-> row[ColumnNamed(n)]]) = <<TRUE>>
             THEN Fail("row") ELSE Fail("no_row")

MayChange == renames < MaxRenames /\ kind \in ChangingKinds /\ step # "done"
OthersRename(c, n) ==
    /\ MayChange /\ renames' = renames + 1
    /\ n \notin {names[d] : d \in DOMAIN names}
    /\ names' = [names EXCEPT ![c] = n]
    /\ UNCHANGED <<table, filter, step, spec, seen, answer>>
OthersDrop(c) ==
    /\ MayChange /\ renames' = renames + 1
    /\ names' = [d \in DOMAIN names \ {c} |-> names[d]]
    /\ UNCHANGED <<table, filter, step, spec, seen, answer>>

Init ==
    /\ kind \in Kinds
    /\ \E v \in {<<>>} \union Values(kind), b \in {<<>>, <<TRUE>>} :
          row = Single(Subject, v) ++ Single(Flag, b)
    /\ IF kind \in {"uri", "email"} THEN installed \in SUBSET DOMAIN ExtractFunctions
       ELSE installed = DOMAIN ExtractFunctions   \* nothing of theirs needs them
    /\ filter \in Combined(kind) \union Odd
    /\ names = CHOOSE g \in [Columns -> Names] : IsInjective(g)
    /\ step = "ids" /\ spec = filter /\ seen = names
    /\ answer = "none" /\ renames = 0
Next == RewriteFilter \/ BuildQuery \/ RunQuery
        \/ \E c \in DOMAIN names : OthersDrop(c) \/ \E n \in Names : OthersRename(c, n)
Spec == Init /\ [][Next]_vars

-----------------------------------------------------------------------------
\* What a filter means, said without unpacking: the test its name promises, on the
\* value of its column, holds or fails or, on no value, is neither.
Compares(f) ==
    CASE f \in {"equal", "array_length_equals", "json_array_length_equals"} -> "="
      [] f \in {"greater", "array_length_greater_than", "json_array_length_greater_than"} -> ">"
      [] f \in {"lesser", "array_length_lesser_than", "json_array_length_less_than"} -> "<"
      [] f \in {"greater_or_equal", "array_length_greater_than_or_equal",
                "json_array_length_greater_or_equal"} -> ">="
      [] f \in {"lesser_or_equal", "array_length_lesser_than_or_equal",
                "json_array_length_less_or_equal"} -> "<="
Stands(a, op, b) == CASE op = "=" -> a = b [] op = ">" -> a > b [] op = "<" -> a < b
                      [] op = ">=" -> a >= b [] op = "<=" -> a <= b
Infix(s, t) == \E k \in 0 .. Len(s) - Len(t) : SubSeq(s, k + 1, k + Len(t)) = t
Prefix(s, t) == Len(t) <= Len(s) /\ SubSeq(s, 1, Len(t)) = t
PartOf(f, v) == IF f = "uri_authority_contains" THEN Head(v).authority
                ELSE IF f = "uri_scheme_equals" THEN Head(v).scheme ELSE v
Test(t) == IF Root(t).id \in Connectives THEN Param(t, 1) ELSE t
Asked(t) == t[<<Root(t).arity>>].value
\* Whether there is a value to test: an array that is NULL counts as empty.
HasValue(t, v) ==
    \/ Root(t).id \in {"null", "not_null", "array_not_empty"} \union DOMAIN ArrayLengthTests
    \/ v # <<>> /\ (Root(t).id \in DOMAIN ExtractTests => PartOf(Root(t).id, v) # <<>>)
Holds(t, v) ==
    LET elements == IF v = <<>> THEN 0 ELSE Head(v)
        f == Root(t).id
    IN  CASE f = "null" -> v = <<>>
          [] f = "not_null" -> v # <<>>
          [] f \in {"array_not_empty", "json_array_not_empty"} -> elements > 0
          [] f \in DOMAIN ArrayLengthTests \union DOMAIN JsonLengthTests ->
                Stands(elements, Compares(f), Head(Asked(t)))
          [] f = "starts_with_case_insensitive" ->
                Prefix(Lower(Head(v)), Lower(Head(Asked(t))))
          [] f = "contains_case_insensitive" -> Infix(Lower(Head(v)), Lower(Head(Asked(t))))
          [] f \in {"uri_authority_contains", "email_domain_contains"} ->
                Infix(Head(PartOf(f, v)), Head(Asked(t)))
          [] f \in {"uri_scheme_equals", "email_domain_equals"} -> PartOf(f, v) = Asked(t)
          [] OTHER -> Stands(Head(v), Compares(f), Head(Asked(t)))
Selects(t, r) ==
    LET v == r[Subject]
        holds == HasValue(Test(t), v) /\ Holds(Test(t), v)
    IN  CASE Root(t).id = "not" -> HasValue(Test(t), v) /\ ~Holds(Test(t), v)
          [] Root(t).id = "and" -> holds /\ r[Flag] # <<>>
          [] Root(t).id = "or" -> holds \/ r[Flag] # <<>>
          [] OTHER -> holds
\* % in a literal is a wildcard to LIKE and nothing escapes it.
NoWildcard(t) ==
    LET u == Test(t) IN
    kind \in {"text", "uri", "email"} /\ Root(u).arity = 2 /\ Root(u).id # "equal"
        => Asked(u) # <<<<"%">>>>

TypeOK ==
    /\ kind \in Kinds /\ installed \subseteq DOMAIN ExtractFunctions
    /\ DOMAIN names \subseteq Columns /\ names \in [DOMAIN names -> Names]
    /\ IsInjective(names)
    /\ step \in {"ids", "rewritten", "count", "counted", "page", "done"}
    /\ answer \in {"none", "row", "no_row", "bad_filter", "undefined_function", "malformed",
                   "unknown_id", "wrong_arity", "no_column", "not_boolean", "other_column"}
    /\ renames \in 0 .. MaxRenames

\* A filter selects the rows its name and its values promise, alone, negated and in
\* company, on rows with and without values: the functions made of others (packed.py),
\* the default for empty arrays and SQL's third truth value do not get in the way.
FiltersMeanWhatTheySay ==
    answer \in {"row", "no_row"} /\ filter \notin Odd /\ NoWildcard(filter) =>
        (answer = "row" <=> Selects(filter, row))

\* What the interface is offered works: every parameter of an available filter has a type
\* of the interface, and an available filter that is a test, sent while the table stays as
\* it is, is answered with rows.
Top(t) == Root(Test(t)).id
OfferedFiltersWork ==
    /\ \A f \in AvailableFilters(installed) : \A i \in DOMAIN KnownDbFunctions[f].parameters :
          ParameterUITypes[f][i] # {}
    /\ (/\ step = "done" /\ renames = 0 /\ filter \notin Odd
        /\ Top(filter) \in AvailableFilters(installed)
        /\ KnownDbFunctions[Top(filter)].returns = {"boolean"})
           => answer \in {"row", "no_row"}

\* A filter is about columns, not names: it never tests another column than the one it was
\* sent for, unless two statements of others hand its name on between two of its steps. A
\* column that does not exist is found out before the query runs ("checking if all
\* referenced columns are present"), unless the table changes under the request or the
\* filter is nothing but a column.
FilterFollowsItsColumn ==
    /\ TypeOK
    /\ answer = "other_column" => renames >= 2
    /\ answer = "no_column" => renames > 0 \/ ~IsCall(Root(filter))
=============================================================================
