-------------------------- MODULE DbFunctionsProofs --------------------------
(***************************************************************************)
(* Proofs about DbFunctions, for every table, every value and every set of *)
(* functions installed: a filter follows the columns it was sent for, the  *)
(* filters the interface is offered are answered with rows, and a filter   *)
(* selects the rows its name and its values promise.                       *)
(***************************************************************************)
EXTENDS DbFunctions, SequenceTheorems, OrderLemmas, TLAPS

-----------------------------------------------------------------------------
(***************************************************************************)
(* Trees.                                                                  *)
(***************************************************************************)

\* A position put before a place is its head, and the place its tail.
LEMMA PlaceBelow ==
    ASSUME NEW i \in Nat, NEW q \in Seq(Nat)
    PROVE  LET p == <<i>> \o q IN p \in Seq(Nat) /\ p # <<>> /\ Head(p) = i /\ Tail(p) = q
<1> DEFINE p == <<i>> \o q
<1>1. p \in Seq(Nat) /\ Len(p) = Len(q) + 1 /\ p # <<>>
  OBVIOUS
<1>2. Head(p) = i
  OBVIOUS
<1>3. Tail(p) \in Seq(Nat) /\ Len(Tail(p)) = Len(q)
  BY <1>1
<1>4. \A j \in 1 .. Len(q) : Tail(p)[j] = q[j]
  BY <1>1
<1>5. Tail(p) = q
  BY <1>3, <1>4
<1> QED  BY <1>1, <1>2, <1>5

\* The places of a tree.
IsTree(t) == DOMAIN t \subseteq Seq(Nat) /\ <<>> \in DOMAIN t

AreTrees(args) == /\ Len(args) \in Nat /\ DOMAIN args = 1 .. Len(args)
                  /\ \A i \in DOMAIN args : IsTree(args[i])

\* A call of trees, node by node.
IsCallOf(t, f, args) ==
    /\ IsTree(t) /\ Root(t) = [id |-> f, arity |-> Len(args)]
    /\ \A p \in DOMAIN t : p = <<>> \/ \E i \in DOMAIN args : \E q \in DOMAIN args[i] :
          p = <<i>> \o q /\ t[p] = args[i][q]
    /\ \A i \in DOMAIN args : \A q \in DOMAIN args[i] :
          <<i>> \o q \in DOMAIN t /\ t[<<i>> \o q] = args[i][q]

\* A leaf is a tree of one node.
LEMMA LeafTree ==
    ASSUME NEW node
    PROVE  IsTree(Leaf(node)) /\ Nodes(Leaf(node)) = {node} /\ Root(Leaf(node)) = node
           /\ DOMAIN Leaf(node) = {<<>>}
<1>1. DOMAIN Leaf(node) = {<<>>} /\ Leaf(node)[<<>>] = node
  BY DEF Leaf, Single
<1> QED  BY <1>1 DEF IsTree, Nodes, Root

\* A call of trees is a tree: its root, and each of the trees below.
LEMMA CallTree ==
    ASSUME NEW f, NEW args, AreTrees(args)
    PROVE  IsCallOf(Call(f, args), f, args)
<1> DEFINE t == Call(f, args)
<1>1. DOMAIN args = 1 .. Len(args) /\ Len(args) \in Nat /\ \A i \in DOMAIN args : IsTree(args[i])
  BY DEF AreTrees
<1>2. ASSUME NEW i \in 1 .. Len(args), NEW q \in DOMAIN args[i]
      PROVE  LET p == <<i>> \o q IN
             /\ p \in Seq(Nat) /\ p # <<>> /\ Head(p) = i /\ p \in DOMAIN Below(i, args[i])
             /\ Below(i, args[i])[p] = args[i][q]
  <2>1. q \in Seq(Nat) /\ i \in Nat
    BY <1>1, <1>2 DEF IsTree
  <2>2. <<i>> \o q \in Seq(Nat) /\ <<i>> \o q # <<>> /\ Head(<<i>> \o q) = i /\ Tail(<<i>> \o q) = q
    BY <2>1, PlaceBelow
  <2>3. <<i>> \o q \in {<<i>> \o r : r \in DOMAIN args[i]}
    OBVIOUS
  <2>4. <<i>> \o q \in DOMAIN Below(i, args[i]) /\ Below(i, args[i])[<<i>> \o q] = args[i][Tail(<<i>> \o q)]
    BY <2>3 DEF Below
  <2> QED  BY <2>2, <2>4
<1>3. ASSUME NEW i \in 1 .. Len(args), NEW p \in DOMAIN Below(i, args[i])
      PROVE  \E q \in DOMAIN args[i] : p = <<i>> \o q
  BY DEF Below
<1>4. DOMAIN t = {<<>>} \union UNION {DOMAIN Below(i, args[i]) : i \in 1 .. Len(args)}
  BY <1>1 DEF Call
<1>5. \A p \in DOMAIN t : t[p] = IF p = <<>> THEN [id |-> f, arity |-> Len(args)]
                                 ELSE Below(Head(p), args[Head(p)])[p]
  BY <1>1 DEF Call
<1>6. Root(t) = [id |-> f, arity |-> Len(args)]
  BY <1>4, <1>5 DEF Root
<1>7. ASSUME NEW p \in DOMAIN t, p # <<>>
      PROVE  \E i \in 1 .. Len(args) : \E q \in DOMAIN args[i] :
                 p = <<i>> \o q /\ t[p] = args[i][q] /\ p \in Seq(Nat)
  <2>1. PICK i \in 1 .. Len(args) : p \in DOMAIN Below(i, args[i])
    BY <1>4, <1>7
  <2>2. PICK q \in DOMAIN args[i] : p = <<i>> \o q
    BY <1>3, <2>1
  <2>3. p \in Seq(Nat) /\ Head(p) = i /\ Below(i, args[i])[p] = args[i][q]
    BY <1>2, <2>2
  <2>4. t[p] = args[i][q]
    BY <1>5, <1>7, <2>3
  <2> QED  BY <2>2, <2>3, <2>4
<1>8. ASSUME NEW i \in 1 .. Len(args), NEW q \in DOMAIN args[i]
      PROVE  <<i>> \o q \in DOMAIN t /\ t[<<i>> \o q] = args[i][q]
  <2>1. <<i>> \o q # <<>> /\ Head(<<i>> \o q) = i /\ <<i>> \o q \in DOMAIN Below(i, args[i])
        /\ Below(i, args[i])[<<i>> \o q] = args[i][q]
    BY <1>2
  <2>2. <<i>> \o q \in DOMAIN t
    BY <1>4, <2>1
  <2> QED  BY <1>5, <2>1, <2>2
<1>9. IsTree(t)
  <2>1. <<>> \in Seq(Nat) /\ <<>> \in DOMAIN t
    BY <1>4
  <2>2. \A p \in DOMAIN t : p \in Seq(Nat)
    BY <1>7, <2>1
  <2> QED  BY <2>1, <2>2 DEF IsTree
<1> QED  BY <1>1, <1>6, <1>7, <1>8, <1>9 DEF IsCallOf

\* The nodes of a call are its own and those of its parameters.
LEMMA CallNodes ==
    ASSUME NEW f, NEW args, AreTrees(args)
    PROVE  \A node \in Nodes(Call(f, args)) :
               \/ node = [id |-> f, arity |-> Len(args)]
               \/ \E i \in DOMAIN args : node \in Nodes(args[i])
<1> DEFINE t == Call(f, args)
<1>1. SUFFICES ASSUME NEW p \in DOMAIN t
               PROVE  \/ t[p] = [id |-> f, arity |-> Len(args)]
                      \/ \E i \in DOMAIN args : t[p] \in Nodes(args[i])
  BY DEF Nodes
<1>0. IsCallOf(t, f, args)
  BY CallTree
<1> HIDE DEF t
<1>2. CASE p = <<>>
  BY <1>2, <1>0 DEF Root, IsCallOf
<1>3. CASE p # <<>>
  <2>1. PICK i \in DOMAIN args : \E q \in DOMAIN args[i] : t[p] = args[i][q]
    BY <1>3, <1>0 DEF IsCallOf
  <2> QED  BY <2>1 DEF Nodes
<1> QED  BY <1>2, <1>3

\* The first parameter of a call has the root of the tree it was given.
LEMMA FirstParam ==
    ASSUME NEW f, NEW args, AreTrees(args), Len(args) # 0
    PROVE  Root(Param(Call(f, args), 1)) = Root(args[1])
<1> DEFINE t == Call(f, args)
<1>1. 1 \in DOMAIN args /\ <<>> \in DOMAIN args[1]
  BY DEF AreTrees, IsTree
<1>0. IsCallOf(t, f, args)
  BY CallTree
<1> HIDE DEF t
<1>2. <<1>> \o <<>> \in DOMAIN t /\ t[<<1>> \o <<>>] = args[1][<<>>]
  BY <1>1, <1>0 DEF IsCallOf
<1>3. <<1>> \o <<>> # <<>> /\ Head(<<1>> \o <<>>) = 1 /\ Tail(<<1>> \o <<>>) = <<>>
  BY PlaceBelow, <<>> \in Seq(Nat)
<1>4. <<>> \in DOMAIN Param(t, 1)
  BY <1>2, <1>3 DEF Param
<1>5. Param(t, 1)[<<>>] = t[<<1>> \o <<>>]
  BY <1>4 DEF Param
<1> QED  BY <1>2, <1>5 DEF Root, t

-----------------------------------------------------------------------------
(***************************************************************************)
(* The functions Mathesar knows.                                           *)
(***************************************************************************)
HintSets == {{}, {"any"}, {"comparable"}, {"string_like"}, {"array"}, {"jsonlist"},
             {"numeric"}, {"email"}, {"uri"}}
BaseIds == {"null", "not", "and", "or", "equal", "greater", "lesser", "starts_with", "contains",
            "starts_with_case_insensitive", "contains_case_insensitive", "to_lowercase",
            "array_length", "json_array_length", "uri_authority", "uri_scheme",
            "email_domain_name"}
PackedIds == {"not_null", "lesser_or_equal", "greater_or_equal", "array_length_equals",
              "array_length_greater_than", "array_length_lesser_than",
              "array_length_greater_than_or_equal", "array_length_lesser_than_or_equal",
              "json_array_length_equals", "json_array_length_greater_than",
              "json_array_length_less_than", "json_array_length_greater_or_equal",
              "json_array_length_less_or_equal", "array_not_empty", "json_array_not_empty",
              "uri_authority_contains", "uri_scheme_equals", "email_domain_contains",
              "email_domain_equals"}

\* A table of functions: what the proofs need to know of each.
Declares(T, ids) ==
    /\ DOMAIN T \subseteq ids
    /\ \A f \in DOMAIN T :
          /\ T[f].parameters \in Seq(HintSets)
          /\ T[f].needs = (IF f \in DOMAIN ExtractFunctions THEN {f}
                           ELSE IF f \in DOMAIN ExtractTests THEN {ExtractTests[f][1]} ELSE {})
          /\ f \in Connectives => T[f].parameters = <<>> /\ T[f].returns = {"boolean"}
          /\ f = "not_null" => Len(T[f].parameters) = 1 /\ T[f].returns = {"boolean"}

\* Two tables put together are a table.
LEMMA JoinedTables ==
    ASSUME NEW S, NEW T, NEW ids, Declares(S, ids), Declares(T, ids)
    PROVE  Declares(S ++ T, ids) /\ DOMAIN (S ++ T) = DOMAIN S \cup DOMAIN T
<1>1. DOMAIN (S ++ T) = DOMAIN S \cup DOMAIN T
  BY DEF ++
<1>2. \A f \in DOMAIN (S ++ T) : \/ f \in DOMAIN S /\ (S ++ T)[f] = S[f]
                                 \/ f \in DOMAIN T /\ (S ++ T)[f] = T[f]
  BY DEF ++
<1>3. DOMAIN (S ++ T) \subseteq ids
  BY <1>1 DEF Declares
<1>4. ASSUME NEW f \in DOMAIN (S ++ T)
      PROVE  /\ (S ++ T)[f].parameters \in Seq(HintSets)
             /\ (S ++ T)[f].needs = (IF f \in DOMAIN ExtractFunctions THEN {f}
                    ELSE IF f \in DOMAIN ExtractTests THEN {ExtractTests[f][1]} ELSE {})
             /\ f \in Connectives =>
                    (S ++ T)[f].parameters = <<>> /\ (S ++ T)[f].returns = {"boolean"}
             /\ f = "not_null" =>
                    Len((S ++ T)[f].parameters) = 1 /\ (S ++ T)[f].returns = {"boolean"}
  <2>1. CASE f \in DOMAIN S /\ (S ++ T)[f] = S[f]
    BY <2>1 DEF Declares
  <2>2. CASE f \in DOMAIN T /\ (S ++ T)[f] = T[f]
    BY <2>2 DEF Declares
  <2> QED  BY <1>2, <2>1, <2>2
<1> QED  BY <1>1, <1>3, <1>4 DEF Declares

\* The ids of what extracts a part of a value, and of the tests of parts.
LEMMA ExtractIds ==
    /\ DOMAIN ExtractFunctions = {"uri_authority", "uri_scheme", "email_domain_name"}
    /\ DOMAIN ExtractTests = {"uri_authority_contains", "uri_scheme_equals",
                              "email_domain_contains", "email_domain_equals"}
    /\ \A f \in DOMAIN ExtractTests : ExtractTests[f][1] \in DOMAIN ExtractFunctions
BY DEF ExtractFunctions, ExtractTests
\* Up to three sets of hints are the hints of as many parameters.
LEMMA HintsAreSets ==
    ASSUME NEW a \in HintSets, NEW b \in HintSets, NEW c \in HintSets
    PROVE  <<>> \in Seq(HintSets) /\ <<a>> \in Seq(HintSets) /\ <<a, b>> \in Seq(HintSets)
           /\ <<a, b, c>> \in Seq(HintSets)
OBVIOUS

\* A function that is declared alone.
LEMMA OneFunction ==
    ASSUME NEW f, NEW returns, NEW parameters \in Seq(HintSets), NEW isFilter, NEW ids, f \in ids,
           f \notin DOMAIN ExtractFunctions, f \notin DOMAIN ExtractTests, f \notin Connectives,
           f = "not_null" => Len(parameters) = 1 /\ returns = {"boolean"}
    PROVE  Declares(Single(f, Fn(returns, parameters, isFilter, {})), ids)
           /\ f \in DOMAIN Single(f, Fn(returns, parameters, isFilter, {}))
<1> DEFINE d == Fn(returns, parameters, isFilter, {})
<1>1. DOMAIN Single(f, d) = {f} /\ Single(f, d)[f] = d
  BY DEF Single
<1>2. d.parameters = parameters /\ d.needs = {} /\ d.returns = returns
  BY DEF Fn
<1> HIDE DEF d
<1>3. Declares(Single(f, d), ids)
  BY <1>1, <1>2 DEF Declares
<1> QED  BY <1>1, <1>3 DEF d

\* The ids and the parameters of those.
LEMMA LoneIds ==
    /\ \A f \in {"null", "equal", "to_lowercase", "array_length", "json_array_length"} :
          f \in BaseIds /\ f # "not_null"
    /\ \A f \in {"not_null", "array_not_empty", "json_array_not_empty"} : f \in PackedIds
    /\ \A f \in {"null", "equal", "to_lowercase", "array_length", "json_array_length",
                 "not_null", "array_not_empty", "json_array_not_empty"} :
          f \notin DOMAIN ExtractFunctions /\ f \notin DOMAIN ExtractTests /\ f \notin Connectives
    /\ "array_not_empty" # "not_null" /\ "json_array_not_empty" # "not_null"
BY ExtractIds DEF BaseIds, PackedIds, Connectives

\* The parameters they are declared with.
LEMMA LoneHints ==
    /\ <<{"any"}>> \in Seq(HintSets) /\ Len(<<{"any"}>>) = 1 /\ <<{"any"}, {"any"}>> \in Seq(HintSets)
    /\ <<{"string_like"}>> \in Seq(HintSets) /\ <<{"array"}, {"any"}>> \in Seq(HintSets)
    /\ <<{"jsonlist"}>> \in Seq(HintSets)
BY HintsAreSets DEF HintSets

\* The tables of the base functions.
LEMMA LogicalDeclared == Declares(LogicalFunctions, BaseIds)
<1> DEFINE S == Single("null", Filter(<<{"any"}>>))
           T == [f \in {"not", "and", "or"} |-> Fn({"boolean"}, <<>>, FALSE, {})]
<1>1. Declares(S, BaseIds)
  BY OneFunction, LoneIds, LoneHints DEF Filter
<1>2. Declares(T, BaseIds)
  BY HintsAreSets, ExtractIds DEF Declares, Filter, Fn, BaseIds, HintSets, Connectives
<1> QED  BY <1>1, <1>2, JoinedTables DEF LogicalFunctions

\* Equal, Greater and Lesser.
LEMMA ComparisonDeclared == Declares(ComparisonFunctions, BaseIds)
<1> DEFINE S == Single("equal", Filter(<<{"any"}, {"any"}>>))
           T == [f \in {"greater", "lesser"} |-> Filter(<<{"comparable"}, {"comparable"}>>)]
<1>1. Declares(S, BaseIds)
  BY OneFunction, LoneIds, LoneHints DEF Filter
<1>2. Declares(T, BaseIds)
  BY HintsAreSets, ExtractIds DEF Declares, Filter, Fn, BaseIds, HintSets, Connectives
<1> QED  BY <1>1, <1>2, JoinedTables DEF ComparisonFunctions

\* The functions on texts.
LEMMA TextDeclared == Declares(TextFunctions, BaseIds)
<1> DEFINE R == [f \in {"starts_with", "contains"} |->
                    Fn({"boolean"}, <<{"string_like"}, {"string_like"}>>, FALSE, {})]
           S == [f \in {"starts_with_case_insensitive", "contains_case_insensitive"} |->
                    Filter(<<{"string_like"}, {"string_like"}>>)]
           T == Single("to_lowercase", Fn({"string_like"}, <<{"string_like"}>>, TRUE, {}))
<1>1. Declares(R, BaseIds)
  BY HintsAreSets, ExtractIds DEF Declares, Filter, Fn, BaseIds, HintSets, Connectives
<1>2. Declares(S, BaseIds)
  BY HintsAreSets, ExtractIds DEF Declares, Filter, Fn, BaseIds, HintSets, Connectives
<1>3. Declares(T, BaseIds)
  BY OneFunction, LoneIds, LoneHints DEF Filter
<1>4. Declares(R ++ S, BaseIds)
  BY <1>1, <1>2, JoinedTables
<1> QED  BY <1>3, <1>4, JoinedTables DEF TextFunctions

\* The lengths of arrays.
LEMMA LengthDeclared == Declares(LengthFunctions, BaseIds)
<1> DEFINE S == Single("array_length", Fn({"comparable"}, <<{"array"}, {"any"}>>, TRUE, {}))
           T == Single("json_array_length", Fn({"comparable"}, <<{"jsonlist"}>>, TRUE, {}))
<1>1. Declares(S, BaseIds)
  BY OneFunction, LoneIds, LoneHints DEF Filter
<1>2. Declares(T, BaseIds)
  BY OneFunction, LoneIds, LoneHints DEF Filter
<1> QED  BY <1>1, <1>2, JoinedTables DEF LengthFunctions

\* What extracts a part of a value needs its SQL function.
LEMMA ExtractDeclared == Declares(ExtractFunctions, BaseIds)
BY HintsAreSets, ExtractIds DEF Declares, ExtractFunctions, Fn, BaseIds, HintSets, Connectives

\* All base functions; the connectives and the extractions are among them.
LEMMA BaseDeclared ==
    /\ Declares(Base, BaseIds)
    /\ Connectives \subseteq DOMAIN Base /\ DOMAIN ExtractFunctions \subseteq DOMAIN Base
<1>1. Declares(LogicalFunctions ++ ComparisonFunctions, BaseIds)
      /\ DOMAIN (LogicalFunctions ++ ComparisonFunctions)
            = DOMAIN LogicalFunctions \cup DOMAIN ComparisonFunctions
  BY LogicalDeclared, ComparisonDeclared, JoinedTables
<1> DEFINE A == LogicalFunctions ++ ComparisonFunctions
           B == A ++ TextFunctions
           C == B ++ LengthFunctions
<1>2. Declares(B, BaseIds) /\ DOMAIN B = DOMAIN A \cup DOMAIN TextFunctions
  BY <1>1, TextDeclared, JoinedTables
<1>3. Declares(C, BaseIds) /\ DOMAIN C = DOMAIN B \cup DOMAIN LengthFunctions
  BY <1>2, LengthDeclared, JoinedTables
<1>4. Declares(Base, BaseIds) /\ DOMAIN Base = DOMAIN C \cup DOMAIN ExtractFunctions
  BY <1>3, ExtractDeclared, JoinedTables DEF Base
<1>5. Connectives \subseteq DOMAIN LogicalFunctions
  BY DEF LogicalFunctions, Connectives, Single, ++
<1> QED  BY <1>1, <1>2, <1>3, <1>4, <1>5

\* The tables of the packed functions.
LEMMA PackedComparisonsDeclared ==
    Declares(PackedComparisons, PackedIds) /\ "not_null" \in DOMAIN PackedComparisons
<1> DEFINE S == Single("not_null", Filter(<<{"any"}>>))
           T == [f \in {"lesser_or_equal", "greater_or_equal"} |->
                    Filter(<<{"comparable"}, {"comparable"}>>)]
<1>1. Declares(S, PackedIds)
  BY OneFunction, LoneIds, LoneHints DEF Filter
<1>2. Declares(T, PackedIds)
  BY HintsAreSets, ExtractIds DEF Declares, Filter, Fn, PackedIds, HintSets, Connectives
<1>3. "not_null" \in DOMAIN S
  BY DEF Single
<1> QED  BY <1>1, <1>2, <1>3, JoinedTables DEF PackedComparisons

\* The comparisons of lengths.
LEMMA PackedLengthsDeclared == Declares(PackedLengths, PackedIds)
<1> DEFINE S == [f \in DOMAIN ArrayLengthTests |-> Filter(<<{"array"}, {"any"}, {"numeric"}>>)]
           T == [f \in DOMAIN JsonLengthTests |-> Filter(<<{"jsonlist"},
                    IF f = "json_array_length_equals" THEN {"any"} ELSE {"numeric"}>>)]
<1>1. Declares(S, PackedIds)
  BY HintsAreSets, ExtractIds
     DEF Declares, Filter, Fn, PackedIds, HintSets, Connectives, ArrayLengthTests
<1>2. Declares(T, PackedIds)
  BY HintsAreSets, ExtractIds
     DEF Declares, Filter, Fn, PackedIds, HintSets, Connectives, JsonLengthTests
<1> QED  BY <1>1, <1>2, JoinedTables DEF PackedLengths

\* The tests for empty arrays.
LEMMA NotEmptyDeclared == Declares(NotEmptyTests, PackedIds)
<1> DEFINE S == Single("array_not_empty", Filter(<<{"array"}, {"any"}>>))
           T == Single("json_array_not_empty", Filter(<<{"jsonlist"}>>))
<1>1. Declares(S, PackedIds)
  BY OneFunction, LoneIds, LoneHints DEF Filter
<1>2. Declares(T, PackedIds)
  BY OneFunction, LoneIds, LoneHints DEF Filter
<1> QED  BY <1>1, <1>2, JoinedTables DEF NotEmptyTests

\* The tests of a part of a value need what extracts the part.
LEMMA PackedExtractsDeclared == Declares(PackedExtracts, PackedIds)
<1>1. DOMAIN PackedExtracts = DOMAIN ExtractTests
  BY DEF PackedExtracts
<1>2. ASSUME NEW f \in DOMAIN ExtractTests
      PROVE  /\ PackedExtracts[f].parameters \in Seq(HintSets)
             /\ PackedExtracts[f].needs = {ExtractTests[f][1]}
             /\ f \in PackedIds /\ f # "not_null" /\ f \notin Connectives
             /\ f \notin DOMAIN ExtractFunctions
  <2>1. {IF ExtractTests[f][1] = "email_domain_name" THEN "email" ELSE "uri"} \in HintSets
        /\ {"string_like"} \in HintSets
    BY DEF HintSets
  <2>2. PackedExtracts[f].parameters \in Seq(HintSets) /\ PackedExtracts[f].needs = {ExtractTests[f][1]}
    BY <1>2, <2>1, HintsAreSets DEF PackedExtracts, Fn
  <2> QED  BY <1>2, <2>2, ExtractIds DEF PackedIds, Connectives
<1> QED  BY <1>1, <1>2 DEF Declares

\* All packed functions.
LEMMA PackedDeclared == Declares(Packed, PackedIds) /\ "not_null" \in DOMAIN Packed
<1> DEFINE A == PackedComparisons ++ PackedLengths
           B == A ++ NotEmptyTests
<1>1. Declares(A, PackedIds) /\ "not_null" \in DOMAIN A
  BY PackedComparisonsDeclared, PackedLengthsDeclared, JoinedTables
<1>2. Declares(B, PackedIds) /\ "not_null" \in DOMAIN B
  BY <1>1, NotEmptyDeclared, JoinedTables
<1> QED  BY <1>2, PackedExtractsDeclared, JoinedTables DEF Packed

\* Every function is known as what it is, a base or a packed one, with parameters that
\* ask for some hints; what it needs is what it calls.
LEMMA KnownFunctions ==
    ASSUME NEW f \in DOMAIN KnownDbFunctions
    PROVE  /\ f \in BaseIds \cup PackedIds
           /\ KnownDbFunctions[f].parameters \in Seq(HintSets)
           /\ CalledBy(f) \subseteq KnownDbFunctions[f].needs
           /\ Len(KnownDbFunctions[f].parameters) > 0 =>
                 f \notin Connectives /\ Takes(f, Len(KnownDbFunctions[f].parameters))
<1>1. Declares(Base, BaseIds) /\ Declares(Packed, PackedIds)
  BY BaseDeclared, PackedDeclared
<1>2. BaseIds \cap PackedIds = {}
  BY DEF BaseIds, PackedIds
<1>3. \/ f \in DOMAIN Base /\ f \in BaseIds /\ f \notin DOMAIN Packed /\ KnownDbFunctions[f] = Base[f]
      \/ f \in DOMAIN Packed /\ f \in PackedIds /\ f \notin DOMAIN Base /\ KnownDbFunctions[f] = Packed[f]
  BY <1>1, <1>2 DEF KnownDbFunctions, ++, Declares
<1>4. f \in BaseIds \cup PackedIds /\ KnownDbFunctions[f].parameters \in Seq(HintSets)
  BY <1>1, <1>3 DEF Declares
<1>5. CalledBy(f) \subseteq KnownDbFunctions[f].needs
  <2>1. CASE f \in DOMAIN ExtractTests
    <3>1. f \notin BaseIds /\ f \notin DOMAIN ExtractFunctions
      BY <2>1, ExtractIds DEF BaseIds
    <3>2. KnownDbFunctions[f].needs = {ExtractTests[f][1]}
      BY <1>1, <1>3, <2>1, <3>1 DEF Declares
    <3>3. ExtractTests[f][1] \in DOMAIN Base /\ ExtractTests[f][1] \in DOMAIN ExtractFunctions
      BY <2>1, ExtractIds, BaseDeclared
    <3>4. Base[ExtractTests[f][1]].needs = {ExtractTests[f][1]}
      BY <1>1, <3>3 DEF Declares
    <3> QED  BY <2>1, <3>2, <3>4 DEF CalledBy
  <2>2. CASE f \notin DOMAIN ExtractTests
    BY <1>3, <2>2 DEF CalledBy
  <2> QED  BY <2>1, <2>2
<1>6. ASSUME Len(KnownDbFunctions[f].parameters) > 0
      PROVE  f \notin Connectives /\ Takes(f, Len(KnownDbFunctions[f].parameters))
  <2>1. f \notin Connectives
    <3>1. SUFFICES ASSUME f \in Connectives PROVE FALSE
      OBVIOUS
    <3>2. KnownDbFunctions[f].parameters = <<>>
      BY <1>1, <1>3, <3>1 DEF Declares
    <3> QED  BY <1>6, <3>2
  <2>2. Takes(f, Len(KnownDbFunctions[f].parameters))
    BY <1>3, <1>4, <2>1 DEF Takes, Connectives
  <2> QED  BY <2>1, <2>2
<1> QED  BY <1>4, <1>5, <1>6

-----------------------------------------------------------------------------
(***************************************************************************)
(* The filters that are sent.                                              *)
(***************************************************************************)

\* A test of a column: a known function of it and of literals, as many as it takes.
Argument(a, c) == a = Id(c) \/ \E v : a = Literal(v)
IsTestOn(t, f, c) ==
    /\ f \in DOMAIN KnownDbFunctions /\ f \notin Connectives
    /\ \E args : /\ t = Call(f, args) /\ AreTrees(args)
                 /\ Len(args) = Len(KnownDbFunctions[f].parameters) /\ Len(args) > 0
                 /\ \A i \in DOMAIN args : Argument(args[i], c)

\* What is known of the trees of tests.
IsTestTree(t, f, c) ==
    /\ IsTree(t)
    /\ Root(t) = [id |-> f, arity |-> Len(KnownDbFunctions[f].parameters)]
    /\ \A node \in Nodes(t) : \/ node = Root(t)
                              \/ node = [id |-> "column_id", column |-> c]
                              \/ \E v : node = [id |-> "literal", value |-> v]
    /\ \A p \in DOMAIN t : p = <<>> \/ \E i \in Nat : p = <<i>>

\* An argument is a leaf.
LEMMA Arguments1 ==
    ASSUME NEW a, NEW c, Argument(a, c)
    PROVE  /\ IsTree(a) /\ DOMAIN a = {<<>>}
           /\ \A node \in Nodes(a) : \/ node = [id |-> "column_id", column |-> c]
                                     \/ \E v : node = [id |-> "literal", value |-> v]
<1>1. CASE a = Id(c)
  BY <1>1, LeafTree DEF Id
<1>2. CASE \E v : a = Literal(v)
  <2>1. PICK v : a = Literal(v)
    BY <1>2
  <2> QED  BY <2>1, LeafTree DEF Literal
<1> QED  BY <1>1, <1>2 DEF Argument

\* A test has a root that is its function, and leaves below.
LEMMA TestTrees ==
    ASSUME NEW t, NEW f, NEW c, IsTestOn(t, f, c)
    PROVE  IsTestTree(t, f, c)
<1>1. PICK args : /\ t = Call(f, args) /\ AreTrees(args)
                  /\ Len(args) = Len(KnownDbFunctions[f].parameters) /\ Len(args) > 0
                  /\ \A i \in DOMAIN args : Argument(args[i], c)
  BY DEF IsTestOn
<1>2. IsCallOf(t, f, args)
  BY <1>1, CallTree
<1>3. IsTree(t) /\ Root(t) = [id |-> f, arity |-> Len(KnownDbFunctions[f].parameters)]
  BY <1>1, <1>2 DEF IsCallOf
<1>4. ASSUME NEW node \in Nodes(t)
      PROVE  \/ node = Root(t)
             \/ node = [id |-> "column_id", column |-> c]
             \/ \E v : node = [id |-> "literal", value |-> v]
  <2>1. node = Root(t) \/ \E i \in DOMAIN args : node \in Nodes(args[i])
    BY <1>1, <1>3, CallNodes
  <2> QED  BY <1>1, <2>1, Arguments1
<1>5. ASSUME NEW p \in DOMAIN t, p # <<>> PROVE \E i \in Nat : p = <<i>>
  <2>1. PICK i \in DOMAIN args : \E q \in DOMAIN args[i] : p = <<i>> \o q
    BY <1>2, <1>5 DEF IsCallOf
  <2>2. DOMAIN args[i] = {<<>>} /\ i \in Nat
    BY <1>1, Arguments1 DEF AreTrees
  <2>3. p = <<i>> \o <<>>
    BY <2>1, <2>2
  <2> QED  BY <2>2, <2>3
<1> QED  BY <1>3, <1>4, <1>5 DEF IsTestTree

\* The tests that are sent are tests of the subject column, and FlagIsSet one of the other.
LEMMA OneArgument ==
    ASSUME NEW a, NEW c, Argument(a, c)
    PROVE  AreTrees(<<a>>) /\ Len(<<a>>) = 1 /\ \A i \in DOMAIN <<a>> : Argument(<<a>>[i], c)
BY Arguments1 DEF AreTrees

\* Two arguments of a test.
LEMMA TwoArguments ==
    ASSUME NEW a, NEW b, NEW c, Argument(a, c), Argument(b, c)
    PROVE  AreTrees(<<a, b>>) /\ Len(<<a, b>>) = 2
           /\ \A i \in DOMAIN <<a, b>> : Argument(<<a, b>>[i], c)
BY Arguments1 DEF AreTrees

\* Three arguments of a test.
LEMMA ThreeArguments ==
    ASSUME NEW a, NEW b, NEW d, NEW c, Argument(a, c), Argument(b, c), Argument(d, c)
    PROVE  AreTrees(<<a, b, d>>) /\ Len(<<a, b, d>>) = 3
           /\ \A i \in DOMAIN <<a, b, d>> : Argument(<<a, b, d>>[i], c)
BY Arguments1 DEF AreTrees

\* The arguments that are sent are the subject column and literals.
LEMMA ArgumentsSent ==
    ASSUME NEW k, NEW f, NEW i, NEW a \in Arguments(k, f, i)
    PROVE  Argument(a, Subject)
BY DEF Arguments, Argument, Dimension

\* A test that is sent is a test of the subject column.
LEMMA TestsSent ==
    ASSUME NEW k, NEW t \in Tests(k)
    PROVE  \E f : IsTestOn(t, f, Subject)
<1>0. Argument(Id(Subject), Subject) /\ Argument(Dimension, Subject)
  BY DEF Argument, Dimension
<1>1. \/ \E f \in TestsWith(k, 1) : t = Call(f, <<Id(Subject)>>)
      \/ \E f \in TestsWith(k, 2) : \E b \in Arguments(k, f, 2) : t = Call(f, <<Id(Subject), b>>)
      \/ \E f \in TestsWith(k, 3) : \E b \in Arguments(k, f, 3) :
            t = Call(f, <<Id(Subject), Dimension, b>>)
  <2>1. t \in {Call(f, <<Id(Subject)>>) : f \in TestsWith(k, 1)}
        \/ t \in UNION {{Call(f, <<Id(Subject), b>>) : b \in Arguments(k, f, 2)} :
                          f \in TestsWith(k, 2)}
        \/ t \in UNION {{Call(f, <<Id(Subject), Dimension, b>>) : b \in Arguments(k, f, 3)} :
                          f \in TestsWith(k, 3)}
    BY Zenon DEF Tests
  <2> HIDE DEF Call
  <2> QED  BY <2>1, Zenon
<1>2. \A n \in {1, 2, 3} : \A f \in TestsWith(k, n) :
          f \in DOMAIN KnownDbFunctions /\ Len(KnownDbFunctions[f].parameters) = n
          /\ f \notin Connectives
  BY KnownFunctions DEF TestsWith
<1>3. CASE \E f \in TestsWith(k, 1) : t = Call(f, <<Id(Subject)>>)
  <2>1. PICK f \in TestsWith(k, 1) : t = Call(f, <<Id(Subject)>>)
    BY <1>3
  <2>2. PICK args : args = <<Id(Subject)>>
    OBVIOUS
  <2>3. AreTrees(args) /\ Len(args) = 1 /\ \A i \in DOMAIN args : Argument(args[i], Subject)
    BY <1>0, <2>2, OneArgument
  <2> QED  BY <1>2, <2>1, <2>2, <2>3 DEF IsTestOn
<1>4. CASE \E f \in TestsWith(k, 2) : \E b \in Arguments(k, f, 2) : t = Call(f, <<Id(Subject), b>>)
  <2>0. PICK f \in TestsWith(k, 2) : \E b \in Arguments(k, f, 2) : t = Call(f, <<Id(Subject), b>>)
    BY <1>4
  <2>1. PICK b \in Arguments(k, f, 2) : t = Call(f, <<Id(Subject), b>>)
    BY <2>0
  <2>2. PICK args : args = <<Id(Subject), b>>
    OBVIOUS
  <2>3. AreTrees(args) /\ Len(args) = 2 /\ \A i \in DOMAIN args : Argument(args[i], Subject)
    BY <1>0, <2>2, ArgumentsSent, TwoArguments
  <2> QED  BY <1>2, <2>1, <2>2, <2>3 DEF IsTestOn
<1>5. CASE \E f \in TestsWith(k, 3) : \E b \in Arguments(k, f, 3) :
            t = Call(f, <<Id(Subject), Dimension, b>>)
  <2>0. PICK f \in TestsWith(k, 3) : \E b \in Arguments(k, f, 3) : t = Call(f, <<Id(Subject), Dimension, b>>)
    BY <1>5
  <2>1. PICK b \in Arguments(k, f, 3) : t = Call(f, <<Id(Subject), Dimension, b>>)
    BY <2>0
  <2>2. PICK args : args = <<Id(Subject), Dimension, b>>
    OBVIOUS
  <2>3. AreTrees(args) /\ Len(args) = 3 /\ \A i \in DOMAIN args : Argument(args[i], Subject)
    BY <1>0, <2>2, ArgumentsSent, ThreeArguments
  <2> QED  BY <1>2, <2>1, <2>2, <2>3 DEF IsTestOn
<1> QED  BY <1>1, <1>3, <1>4, <1>5

\* Not null is a function of one parameter that needs nothing of the database.
LEMMA NotNullIsKnown ==
    /\ "not_null" \in DOMAIN KnownDbFunctions /\ Len(KnownDbFunctions["not_null"].parameters) = 1
    /\ KnownDbFunctions["not_null"].returns = {"boolean"} /\ KnownDbFunctions["not_null"].needs = {}
    /\ "not_null" \notin Connectives
<1>1. "not_null" \in DOMAIN Packed /\ Declares(Packed, PackedIds) /\ Declares(Base, BaseIds)
  BY PackedDeclared, BaseDeclared
<1>2. "not_null" \notin BaseIds /\ "not_null" \notin Connectives
  BY DEF BaseIds, Connectives
<1>3. "not_null" \notin DOMAIN ExtractFunctions /\ "not_null" \notin DOMAIN ExtractTests
  BY LoneIds
<1>4. "not_null" \in DOMAIN KnownDbFunctions /\ KnownDbFunctions["not_null"] = Packed["not_null"]
  BY <1>1, <1>2 DEF KnownDbFunctions, ++, Declares
<1> QED  BY <1>1, <1>2, <1>3, <1>4 DEF Declares

\* FlagIsSet is a test of the flag column.
LEMMA FlagTest == IsTestOn(FlagIsSet, "not_null", Flag)
<1>1. Argument(Id(Flag), Flag)
  BY DEF Argument
<1>2. PICK args : args = <<Id(Flag)>>
  OBVIOUS
<1>3. AreTrees(args) /\ Len(args) = 1 /\ \A i \in DOMAIN args : Argument(args[i], Flag)
  BY <1>1, <1>2, OneArgument
<1> QED  BY <1>2, <1>3, NotNullIsKnown DEF IsTestOn, FlagIsSet

\* The filters that are sent: a test, or a connective of a test and perhaps FlagIsSet.
IsCombination(t) ==
    \E u, f : /\ IsTestOn(u, f, Subject)
              /\ \/ t = u
                 \/ t = Call("not", <<u>>)
                 \/ \E g \in {"and", "or"} : t = Call(g, <<u, FlagIsSet>>)

\* What is combined of tests is a test, its negation, or a connective of it and FlagIsSet.
LEMMA CombinedSent ==
    ASSUME NEW k, NEW s \in Combined(k)
    PROVE  IsCombination(s)
<1>1. \/ s \in Tests(k)
      \/ s \in {Call("not", <<t>>) : t \in Tests(k)}
      \/ s \in {Call("and", <<t, FlagIsSet>>) : t \in Tests(k)}
      \/ s \in {Call("or", <<t, FlagIsSet>>) : t \in Tests(k)}
  BY DEF Combined
<1>2. \E t \in Tests(k) : \/ s = t \/ s = Call("not", <<t>>)
                          \/ \E g \in {"and", "or"} : s = Call(g, <<t, FlagIsSet>>)
  BY <1>1
<1>3. PICK t \in Tests(k) : \/ s = t \/ s = Call("not", <<t>>)
                            \/ \E g \in {"and", "or"} : s = Call(g, <<t, FlagIsSet>>)
  BY <1>2
<1>4. PICK f : IsTestOn(t, f, Subject)
  BY TestsSent
<1> QED  BY <1>3, <1>4 DEF IsCombination

\* The root of a filter that is sent, if it is a call, is not the id of a column.
IsSent(t) == IsTree(t) /\ (IsCall(Root(t)) => Root(t).id # "column_id")

\* Such a combination is a tree, and its root is no column's id.
LEMMA CombinationsAreSent ==
    ASSUME NEW t, IsCombination(t)
    PROVE  IsSent(t)
<1>1. PICK u, f : /\ IsTestOn(u, f, Subject)
                  /\ \/ t = u
                     \/ t = Call("not", <<u>>)
                     \/ \E g \in {"and", "or"} : t = Call(g, <<u, FlagIsSet>>)
  BY DEF IsCombination
<1>2. IsTestTree(u, f, Subject) /\ IsTestTree(FlagIsSet, "not_null", Flag)
  BY <1>1, FlagTest, TestTrees
<1>3. AreTrees(<<u>>) /\ AreTrees(<<u, FlagIsSet>>)
  BY <1>2 DEF AreTrees, IsTestTree
<1>4. f # "column_id"
  <2>1. f \in BaseIds \cup PackedIds
    BY <1>1, KnownFunctions DEF IsTestOn
  <2> QED  BY <2>1 DEF BaseIds, PackedIds
<1>5. CASE t = u
  BY <1>2, <1>4, <1>5 DEF IsTestTree, IsSent
<1>6. CASE \E g \in Connectives : \E args : t = Call(g, args) /\ AreTrees(args)
  <2>0. PICK g \in Connectives : \E args : t = Call(g, args) /\ AreTrees(args)
    BY <1>6
  <2>1. PICK args : t = Call(g, args) /\ AreTrees(args)
    BY <2>0
  <2>2. IsCallOf(t, g, args)
    BY <2>1, CallTree
  <2>3. g # "column_id"
    BY DEF Connectives
  <2> QED  BY <2>2, <2>3 DEF IsCallOf, IsSent
<1>7. t = u \/ \E g \in Connectives : \E args : t = Call(g, args) /\ AreTrees(args)
  BY <1>1, <1>3 DEF Connectives
<1> QED  BY <1>5, <1>6, <1>7

\* So is each of the odd filters.
LEMMA OddAreSent ==
    ASSUME NEW t \in Odd
    PROVE  IsSent(t)
<1>1. \A node : IsTree(Leaf(node)) /\ Root(Leaf(node)) = node
  BY LeafTree
<1>2. ASSUME NEW f, f # "column_id", NEW args, AreTrees(args)
      PROVE  IsSent(Call(f, args)) /\ IsTree(Call(f, args))
  <2>1. IsCallOf(Call(f, args), f, args)
    BY <1>2, CallTree
  <2> QED  BY <1>2, <2>1 DEF IsCallOf, IsSent
<1>3. AreTrees(<<Unknown>>) /\ AreTrees(<<Id(Subject)>>) /\ AreTrees(<<Leaf([id |-> "raw"])>>)
  BY <1>1 DEF AreTrees, Unknown, Id
<1>4. AreTrees(<<>>)
  BY DEF AreTrees
<1>5. AreTrees(<<Call("null", <<Unknown>>)>>)
  <2>1. PICK u : u = Call("null", <<Unknown>>)
    OBVIOUS
  <2>2. IsTree(u)
    BY <1>2, <1>3, <2>1
  <2>3. AreTrees(<<u>>)
    BY <2>2 DEF AreTrees
  <2> QED  BY <2>1, <2>3
<1>6. IsSent(Id(Flag)) /\ IsSent(Unknown) /\ IsSent(Leaf([id |-> "bare"]))
  BY <1>1 DEF IsSent, Id, Unknown, Name, IsCall
<1>7. /\ IsSent(Call("null", <<Unknown>>)) /\ IsSent(Call("not", <<Call("null", <<Unknown>>)>>))
      /\ IsSent(Call("equal", <<Id(Subject)>>)) /\ IsSent(Call("not", <<>>))
      /\ IsSent(Call("unknown", <<Id(Subject)>>)) /\ IsSent(Call("null", <<Leaf([id |-> "raw"])>>))
  BY <1>2, <1>3, <1>4, <1>5
<1> QED  BY <1>6, <1>7 DEF Odd

\* A filter that is offered: every function in it is known and installed and gets the
\* parameters it takes, it is about the two columns, and where WHERE expects a boolean
\* there is one.
GoodNode(node, onDatabase) ==
    IF IsCall(node)
    THEN /\ node.id \in DOMAIN KnownDbFunctions /\ Takes(node.id, node.arity)
         /\ CalledBy(node.id) \subseteq onDatabase
    ELSE \/ node.id = "literal"
         \/ node.id = "column_id" /\ node.column \in {Subject, Flag}
IsOperand(t, p) == \E k \in 0 .. Len(p) - 1 :
    SubSeq(p, 1, k) \in DOMAIN t /\ t[SubSeq(p, 1, k)].id \notin Connectives
IsTrueOrFalse(node) == IsCall(node) /\ KnownDbFunctions[node.id].returns = {"boolean"}
GoodFilter(t, onDatabase) ==
    /\ IsTree(t) /\ IsCall(Root(t))
    /\ \A node \in Nodes(t) : GoodNode(node, onDatabase)
    /\ \A p \in DOMAIN t : IsOperand(t, p) \/ IsTrueOrFalse(t[p])

\* What a connective gets: whatever it is given, and a test of its first parameter.
LEMMA ConnectivesAreKnown ==
    ASSUME NEW g \in Connectives
    PROVE  /\ g \in DOMAIN KnownDbFunctions /\ KnownDbFunctions[g].returns = {"boolean"}
           /\ CalledBy(g) = {} /\ Takes(g, 1) /\ (g # "not" => Takes(g, 2))
<1>1. g \in DOMAIN Base /\ Declares(Base, BaseIds)
  BY BaseDeclared
<1>2. g \in DOMAIN KnownDbFunctions /\ KnownDbFunctions[g] = Base[g]
  BY <1>1 DEF KnownDbFunctions, ++
<1>3. g \notin DOMAIN ExtractFunctions /\ g \notin DOMAIN ExtractTests
  BY ExtractIds DEF Connectives
<1>4. Base[g].needs = {} /\ Base[g].returns = {"boolean"}
  BY <1>1, <1>3 DEF Declares
<1>5. Takes(g, 1) /\ (g # "not" => Takes(g, 2))
  <2>1. g \notin DOMAIN Packed
    BY PackedDeclared DEF Declares, PackedIds, Connectives
  <2>2. g \in {"and", "or"} \/ g = "not"
    BY DEF Connectives
  <2> QED  BY <2>1, <2>2 DEF Takes
<1> QED  BY <1>1, <1>2, <1>3, <1>4, <1>5 DEF CalledBy

\* The nodes of a test of an available function are good, and only its root is a condition.
LEMMA TestIsGood ==
    ASSUME NEW t, NEW f, NEW c \in {Subject, Flag}, NEW db, IsTestOn(t, f, c),
           KnownDbFunctions[f].needs \subseteq db
    PROVE  /\ IsTree(t) /\ IsCall(Root(t)) /\ Root(t).id = f /\ f \notin Connectives
           /\ \A node \in Nodes(t) : GoodNode(node, db)
           /\ \A p \in DOMAIN t : p = <<>> \/ \E i \in Nat : p = <<i>>
<1>1. IsTestTree(t, f, c) /\ f \in DOMAIN KnownDbFunctions /\ f \notin Connectives
  BY TestTrees DEF IsTestOn
<1>2. IsCall(Root(t)) /\ Root(t).id = f /\ Root(t).arity = Len(KnownDbFunctions[f].parameters)
  BY <1>1 DEF IsTestTree, IsCall
<1>3. Len(KnownDbFunctions[f].parameters) > 0
  BY DEF IsTestOn
<1>4. GoodNode(Root(t), db)
  BY <1>1, <1>2, <1>3, KnownFunctions DEF GoodNode
<1>5. \A v : GoodNode([id |-> "literal", value |-> v], db)
  BY DEF GoodNode, IsCall
<1>6. GoodNode([id |-> "column_id", column |-> c], db)
  BY DEF GoodNode, IsCall
<1> QED  BY <1>1, <1>2, <1>4, <1>5, <1>6 DEF IsTestTree

\* A test of the subject column that an available function makes is a good filter.
LEMMA TestFilterIsGood ==
    ASSUME NEW t, NEW f, NEW db, IsTestOn(t, f, Subject), KnownDbFunctions[f].needs \subseteq db,
           KnownDbFunctions[f].returns = {"boolean"}
    PROVE  GoodFilter(t, db)
<1>1. /\ IsTree(t) /\ IsCall(Root(t)) /\ Root(t).id = f /\ f \notin Connectives
      /\ \A node \in Nodes(t) : GoodNode(node, db)
      /\ \A p \in DOMAIN t : p = <<>> \/ \E i \in Nat : p = <<i>>
  BY TestIsGood
<1>2. ASSUME NEW p \in DOMAIN t, p # <<>> PROVE IsOperand(t, p)
  <2>1. PICK i \in Nat : p = <<i>>
    BY <1>1, <1>2
  <2>2. Len(p) = 1 /\ SubSeq(p, 1, 0) = <<>> /\ 0 \in 0 .. Len(p) - 1
    BY <2>1
  <2>3. <<>> \in DOMAIN t /\ t[<<>>].id \notin Connectives
    BY <1>1 DEF Root, IsTree
  <2> QED  BY <2>2, <2>3 DEF IsOperand
<1>3. IsTrueOrFalse(t[<<>>])
  BY <1>1 DEF Root, IsTrueOrFalse
<1> QED  BY <1>1, <1>2, <1>3 DEF GoodFilter

\* A test of either column that an available function makes.
IsOffered(t, db) ==
    \E f : \E c \in {Subject, Flag} :
        /\ IsTestOn(t, f, c) /\ KnownDbFunctions[f].needs \subseteq db
        /\ KnownDbFunctions[f].returns = {"boolean"}

\* A connective of good tests is good.
LEMMA ConnectiveIsGood ==
    ASSUME NEW g \in Connectives, NEW args, NEW db, AreTrees(args), Len(args) \in {1, 2},
           g = "not" => Len(args) = 1, \A i \in DOMAIN args : IsOffered(args[i], db)
    PROVE  GoodFilter(Call(g, args), db)
<1> DEFINE t == Call(g, args)
<1>0. PICK u : u = t
  OBVIOUS
<1>1. IsCallOf(u, g, args)
  BY <1>0, CallTree
<1>2. ASSUME NEW i \in DOMAIN args
      PROVE  /\ IsCall(Root(args[i])) /\ Root(args[i]).id \notin Connectives
             /\ KnownDbFunctions[Root(args[i]).id].returns = {"boolean"}
             /\ \A node \in Nodes(args[i]) : GoodNode(node, db)
             /\ \A p \in DOMAIN args[i] : p = <<>> \/ \E j \in Nat : p = <<j>>
             /\ <<>> \in DOMAIN args[i]
  <2>1. PICK f : \E c \in {Subject, Flag} :
               /\ IsTestOn(args[i], f, c) /\ KnownDbFunctions[f].needs \subseteq db
               /\ KnownDbFunctions[f].returns = {"boolean"}
    BY <1>2 DEF IsOffered
  <2>2. PICK c \in {Subject, Flag} :
               /\ IsTestOn(args[i], f, c) /\ KnownDbFunctions[f].needs \subseteq db
               /\ KnownDbFunctions[f].returns = {"boolean"}
    BY <2>1
  <2>3. PICK a : a = args[i]
    OBVIOUS
  <2>4. /\ IsTree(a) /\ IsCall(Root(a)) /\ Root(a).id = f /\ f \notin Connectives
        /\ \A node \in Nodes(a) : GoodNode(node, db)
        /\ \A p \in DOMAIN a : p = <<>> \/ \E j \in Nat : p = <<j>>
    <3>1. IsTestOn(a, f, c) /\ KnownDbFunctions[f].needs \subseteq db
      BY <2>2, <2>3
    <3> QED  BY <3>1, TestIsGood
  <2> QED  BY <2>2, <2>3, <2>4 DEF IsTree
<1>3. IsTree(u) /\ Root(u) = [id |-> g, arity |-> Len(args)] /\ IsCall(Root(u))
  BY <1>1 DEF IsCallOf, IsCall
<1>4. GoodNode(Root(u), db)
  BY <1>3, ConnectivesAreKnown DEF GoodNode
<1>5. ASSUME NEW node \in Nodes(u) PROVE GoodNode(node, db)
  <2>1. node = Root(u) \/ \E i \in DOMAIN args : node \in Nodes(args[i])
    BY <1>0, <1>3, CallNodes
  <2> QED  BY <1>2, <1>4, <2>1
<1>6. ASSUME NEW p \in DOMAIN u PROVE IsOperand(u, p) \/ IsTrueOrFalse(u[p])
  <2>1. CASE p = <<>>
    BY <1>3, <2>1, ConnectivesAreKnown DEF Root, IsTrueOrFalse
  <2>2. CASE p # <<>>
    <3>1. PICK i \in DOMAIN args : \E q \in DOMAIN args[i] : p = <<i>> \o q /\ u[p] = args[i][q]
      BY <1>1, <2>2 DEF IsCallOf
    <3>2. PICK q \in DOMAIN args[i] : p = <<i>> \o q /\ u[p] = args[i][q]
      BY <3>1
    <3>3. CASE q = <<>>
      BY <1>2, <3>2, <3>3 DEF Root, IsTrueOrFalse
    <3>4. CASE q # <<>>
      <4>1. PICK j \in Nat : q = <<j>>
        BY <1>2, <3>4
      <4>2. i \in Nat
        BY DEF AreTrees
      <4>3. Len(p) = 2 /\ SubSeq(p, 1, 1) = <<i>> /\ 1 \in 0 .. Len(p) - 1 /\ <<i>> \o <<>> = <<i>>
        <5>1. p \in Seq(Nat) /\ Len(p) = 2 /\ p[1] = i
          BY <3>2, <4>1, <4>2
        <5>2. PICK s : s = SubSeq(p, 1, 1)
          OBVIOUS
        <5>3. s \in Seq(Nat) /\ Len(s) = 1 /\ s[1] = i
          BY <5>1, <5>2, SubSeqProperties
        <5>4. s = <<i>>
          BY <4>2, <5>3
        <5>5. <<i>> \o <<>> = <<i>>
          BY <4>2
        <5>6. 1 \in 0 .. Len(p) - 1
          BY <5>1
        <5> QED  BY <5>1, <5>2, <5>4, <5>5, <5>6, Zenon
      <4>4. <<i>> \o <<>> \in DOMAIN u /\ u[<<i>> \o <<>>] = args[i][<<>>]
        BY <1>1, <1>2 DEF IsCallOf
      <4>5. <<i>> \in DOMAIN u /\ u[<<i>>] = args[i][<<>>]
        BY <4>3, <4>4
      <4> QED  BY <1>2, <4>3, <4>5 DEF Root, IsOperand
    <3> QED  BY <3>3, <3>4
  <2> QED  BY <2>1, <2>2
<1>7. GoodFilter(u, db)
  BY <1>3, <1>5, <1>6 DEF GoodFilter
<1> QED  BY <1>0, <1>7

\* What the interface offers is good.
LEMMA OfferedAreGood ==
    ASSUME NEW t, NEW db, IsCombination(t), Top(t) \in AvailableFilters(db),
           KnownDbFunctions[Top(t)].returns = {"boolean"}
    PROVE  GoodFilter(t, db)
<1>1. PICK u, f : /\ IsTestOn(u, f, Subject)
                  /\ \/ t = u
                     \/ t = Call("not", <<u>>)
                     \/ \E g \in {"and", "or"} : t = Call(g, <<u, FlagIsSet>>)
  BY DEF IsCombination
<1>2. IsTestTree(u, f, Subject) /\ f \notin Connectives
  BY <1>1, TestTrees DEF IsTestOn
<1>3. IsTree(u) /\ Root(u).id = f
  BY <1>2 DEF IsTestTree
<1>4. IsTestTree(FlagIsSet, "not_null", Flag) /\ IsTree(FlagIsSet)
  BY FlagTest, TestTrees DEF IsTestTree
<1>5. AreTrees(<<u>>) /\ Len(<<u>>) = 1 /\ AreTrees(<<u, FlagIsSet>>) /\ Len(<<u, FlagIsSet>>) = 2
  BY <1>3, <1>4 DEF AreTrees
<1>6. Top(t) = f
  <2>1. CASE t = u
    BY <1>2, <1>3, <2>1 DEF Top, Test
  <2>2. CASE \E g \in Connectives : \E args : /\ t = Call(g, args) /\ AreTrees(args)
                                               /\ Len(args) # 0 /\ args[1] = u
    <3>0. PICK g \in Connectives : \E args : /\ t = Call(g, args) /\ AreTrees(args)
                                              /\ Len(args) # 0 /\ args[1] = u
      BY <2>2
    <3>1. PICK args : /\ t = Call(g, args) /\ AreTrees(args)
                      /\ Len(args) # 0 /\ args[1] = u
      BY <3>0
    <3>2. Root(t).id = g
      BY <3>1, CallTree DEF IsCallOf
    <3>3. Root(Param(t, 1)) = Root(u)
      BY <3>1, FirstParam
    <3> QED  BY <1>3, <3>1, <3>2, <3>3 DEF Top, Test
  <2>3. t = u \/ \E g \in Connectives : \E args : /\ t = Call(g, args) /\ AreTrees(args)
                                                   /\ Len(args) # 0 /\ args[1] = u
    <3>1. CASE t = Call("not", <<u>>)
      BY <1>5, <3>1 DEF Connectives
    <3>2. CASE \E g \in {"and", "or"} : t = Call(g, <<u, FlagIsSet>>)
      BY <1>5, <3>2 DEF Connectives
    <3> QED  BY <1>1, <3>1, <3>2
  <2> QED  BY <2>1, <2>2, <2>3
<1>7. KnownDbFunctions[f].needs \subseteq db /\ KnownDbFunctions[f].returns = {"boolean"}
  BY <1>6 DEF AvailableFilters, Supported
<1>11. IsOffered(u, db)
  BY <1>1, <1>7 DEF IsOffered
<1>8. CASE t = u
  BY <1>1, <1>7, <1>8, TestFilterIsGood
<1>9. CASE t = Call("not", <<u>>)
  <2>1. PICK args : args = <<u>>
    OBVIOUS
  <2>2. "not" \in Connectives
    BY DEF Connectives
  <2>3. \A i \in DOMAIN args : IsOffered(args[i], db)
    BY <1>11, <2>1
  <2> QED  BY <1>5, <1>9, <2>1, <2>2, <2>3, ConnectiveIsGood
<1>10. CASE \E g \in {"and", "or"} : t = Call(g, <<u, FlagIsSet>>)
  <2>0. PICK h \in {"and", "or"} : t = Call(h, <<u, FlagIsSet>>)
    BY <1>10
  <2>1. PICK args : args = <<u, FlagIsSet>>
    OBVIOUS
  <2>2. h \in Connectives /\ h # "not"
    BY DEF Connectives
  <2>3. KnownDbFunctions["not_null"].needs \subseteq db
    BY NotNullIsKnown
  <2>4. IsOffered(FlagIsSet, db)
    BY <2>3, FlagTest, NotNullIsKnown DEF IsOffered
  <2>6. \A i \in DOMAIN args : IsOffered(args[i], db)
    BY <1>11, <2>1, <2>4
  <2>5. AreTrees(args) /\ Len(args) \in {1, 2} /\ t = Call(h, args)
    BY <1>5, <2>0, <2>1
  <2> QED  BY <2>2, <2>5, <2>6, ConnectiveIsGood
<1> QED  BY <1>1, <1>8, <1>9, <1>10

-----------------------------------------------------------------------------
(***************************************************************************)
(* A filter follows its columns.                                           *)
(***************************************************************************)

\* The names columns may have had when the filter was rewritten.
Namings == UNION {[D -> Names] : D \in SUBSET Columns}

\* One statement leads from names n to m: one column is not called what it was, and
\* nothing else is, and the others are.
OneApart(n, m) ==
    \E c \in DOMAIN n : /\ \A d \in DOMAIN m : m[d] # n[c]
                        /\ \A d \in DOMAIN n \ {c} : d \in DOMAIN m /\ m[d] = n[d]

\* The spec is the filter, rewritten to the names there were before at most as many
\* statements as there have been.
SpecIsTheFilter ==
    step \notin {"ids", "done"} =>
        \E n \in Namings : /\ IdsIn(filter) \subseteq DOMAIN n
                           /\ spec = Rewrite(filter, n)
                           /\ renames = 0 => n = names
                           /\ renames = 1 => n = names \/ OneApart(n, names)

\* While nobody changes the table, the columns the query was built with are there, and
\* those of the filter too once they have been checked.
NamesWereChecked ==
    renames = 0 =>
        /\ seen = names
        /\ step \in {"count", "counted", "page"} /\ IsCall(Root(filter))
               => NamesIn(spec) \subseteq {names[c] : c \in DOMAIN names}

NotAnsweredYet == step # "done" => answer = "none"

FollowsInv ==
    /\ TypeOK /\ IsSent(filter)
    /\ SpecIsTheFilter /\ NamesWereChecked /\ NotAnsweredYet
    /\ answer = "other_column" => renames >= 2
    /\ answer = "no_column" => renames > 0 \/ ~IsCall(Root(filter))

\* Rewriting a filter puts the name of each column it is about in it.
LEMMA RewriteNames ==
    ASSUME NEW t, NEW n
    PROVE  {n[c] : c \in IdsIn(t)} \subseteq NamesIn(Rewrite(t, n))
<1>1. SUFFICES ASSUME NEW p \in DOMAIN t, t[p].id = "column_id"
               PROVE  n[t[p].column] \in NamesIn(Rewrite(t, n))
  BY DEF IdsIn, Nodes
<1>2. Rewrite(t, n)[p] = Name(n[t[p].column]) /\ p \in DOMAIN Rewrite(t, n)
  BY <1>1 DEF Rewrite
<1>3. Name(n[t[p].column]) \in Nodes(Rewrite(t, n))
  BY <1>2 DEF Nodes
<1> QED  BY <1>3 DEF NamesIn, Name

\* Names that agree on the columns of a filter rewrite it to the same.
LEMMA RewriteAgrees ==
    ASSUME NEW t, NEW n, NEW m, \A c \in IdsIn(t) : n[c] = m[c]
    PROVE  Rewrite(t, n) = Rewrite(t, m)
<1>1. \A p \in DOMAIN t : t[p].id = "column_id" => n[t[p].column] = m[t[p].column]
  BY DEF IdsIn, Nodes
<1> QED  BY <1>1, Zenon DEF Rewrite

\* A filter that is rewritten is a call when it was one.
LEMMA RewriteCall ==
    ASSUME NEW t, NEW n, IsSent(t), IsCall(Root(t))
    PROVE  IsCall(Root(Rewrite(t, n)))
<1>1. Rewrite(t, n)[<<>>] = t[<<>>]
  BY DEF Root, Rewrite, IsSent, IsTree
<1> QED  BY <1>1 DEF Root

\* At most one statement of others does not lead a filter to other columns.
LEMMA OneStatementMisleadsNobody ==
    ASSUME NEW n, NEW m, NEW t, IdsIn(t) \subseteq DOMAIN n, n = m \/ OneApart(n, m),
           NamesIn(Rewrite(t, n)) \subseteq {m[c] : c \in DOMAIN m}
    PROVE  IdsIn(t) \subseteq DOMAIN m /\ Rewrite(t, m) = Rewrite(t, n)
<1>1. CASE n = m
  BY <1>1
<1>2. CASE OneApart(n, m)
  <2>1. PICK c \in DOMAIN n : /\ \A d \in DOMAIN m : m[d] # n[c]
                              /\ \A d \in DOMAIN n \ {c} : d \in DOMAIN m /\ m[d] = n[d]
    BY <1>2 DEF OneApart
  <2>2. c \notin IdsIn(t)
    <3>1. SUFFICES ASSUME c \in IdsIn(t) PROVE FALSE
      OBVIOUS
    <3>2. n[c] \in {m[d] : d \in DOMAIN m}
      BY <3>1, RewriteNames
    <3> QED  BY <2>1, <3>2
  <2>3. \A d \in IdsIn(t) : d \in DOMAIN m /\ n[d] = m[d]
    BY <2>1, <2>2
  <2> QED  BY <2>3, RewriteAgrees
<1> QED  BY <1>1, <1>2

\* The invariant holds at the start.
LEMMA InitFollows == Init => FollowsInv
<1> SUFFICES ASSUME Init PROVE FollowsInv
  OBVIOUS
<1>1. names \in [Columns -> Names] /\ IsInjective(names)
  BY FunctionsAssumption DEF Init
<1>2. kind \in Kinds /\ installed \subseteq DOMAIN ExtractFunctions /\ step = "ids"
      /\ answer = "none" /\ renames = 0 /\ seen = names
  BY DEF Init
<1>3. TypeOK
  BY <1>1, <1>2, FunctionsAssumption DEF TypeOK
<1>4. filter \in Combined(kind) \cup Odd
  BY DEF Init
<1>5. IsSent(filter)
  BY <1>4, CombinedSent, CombinationsAreSent, OddAreSent
<1> QED  BY <1>2, <1>3, <1>5 DEF FollowsInv, SpecIsTheFilter, NamesWereChecked, NotAnsweredYet

\* What a step that leaves the table's columns alone keeps.
LEMMA TypeKept ==
    ASSUME TypeOK, UNCHANGED <<table, names, renames>>,
           step' \in {"ids", "rewritten", "count", "counted", "page", "done"},
           answer' \in {answer, "row", "no_row", "bad_filter", "undefined_function", "malformed",
                        "unknown_id", "wrong_arity", "no_column", "not_boolean", "other_column"}
    PROVE  TypeOK'
<1>1. /\ kind' = kind /\ installed' = installed /\ names' = names /\ renames' = renames
  BY DEF table
<1> QED  BY <1>1 DEF TypeOK

\* A failure keeps the invariant when its answer is allowed.
LEMMA FailFollows ==
    ASSUME FollowsInv, NEW why, Fail(why), UNCHANGED <<spec, seen>>,
           why \in {"row", "no_row", "bad_filter", "undefined_function", "malformed",
                    "unknown_id", "wrong_arity", "no_column", "not_boolean", "other_column"},
           why = "other_column" => renames >= 2,
           why = "no_column" => renames > 0 \/ ~IsCall(Root(filter))
    PROVE  FollowsInv'
<1>1. /\ answer' = why /\ step' = "done" /\ UNCHANGED <<table, names, filter, renames>>
  BY DEF Fail
<1>2. TypeOK'
  BY <1>1, TypeKept DEF FollowsInv
<1>3. SpecIsTheFilter' /\ NotAnsweredYet'
  BY <1>1 DEF SpecIsTheFilter, NotAnsweredYet
<1>4. NamesWereChecked'
  BY <1>1 DEF NamesWereChecked, FollowsInv
<1> QED  BY <1>1, <1>2, <1>3, <1>4 DEF FollowsInv

\* The columns that are left have names of Names.
LEMMA NamesAreANaming == ASSUME TypeOK PROVE names \in Namings
BY DEF TypeOK, Namings

\* The steps of the request.
LEMMA RewriteFilterFollows == ASSUME FollowsInv, RewriteFilter PROVE FollowsInv'
<1>1. CASE Fail("malformed") /\ UNCHANGED <<spec, seen>>
  BY <1>1, FailFollows
<1>2. CASE Fail("unknown_id") /\ UNCHANGED <<spec, seen>>
  BY <1>2, FailFollows
<1>3. CASE /\ IdsIn(filter) \subseteq DOMAIN names /\ spec' = Rewrite(filter, names)
           /\ step' = "rewritten" /\ UNCHANGED <<table, names, filter, seen, answer, renames>>
  <2>1. TypeOK'
    BY <1>3, TypeKept DEF FollowsInv
  <2>2. names \in Namings
    BY NamesAreANaming DEF FollowsInv
  <2>3. SpecIsTheFilter'
    BY <1>3, <2>2 DEF SpecIsTheFilter
  <2>4. NamesWereChecked' /\ NotAnsweredYet'
    BY <1>3 DEF FollowsInv, NamesWereChecked, NotAnsweredYet, RewriteFilter
  <2> QED  BY <1>3, <2>1, <2>3, <2>4 DEF FollowsInv
<1> QED  BY <1>1, <1>2, <1>3, Zenon DEF RewriteFilter

\* Building the query.
LEMMA BuildQueryFollows == ASSUME FollowsInv, BuildQuery PROVE FollowsInv'
<1> DEFINE known == {names[c] : c \in DOMAIN names}
<1>1. CASE (Fail("bad_filter") \/ Fail("wrong_arity")) /\ UNCHANGED <<spec, seen>>
  BY <1>1, FailFollows
<1>2. CASE /\ ReferencedColumns(spec) \subseteq known /\ seen' = names
           /\ step' = IF step = "rewritten" THEN "count" ELSE "page"
           /\ UNCHANGED <<table, names, filter, spec, answer, renames>>
  <2>0. step \in {"rewritten", "counted"}
    BY DEF BuildQuery
  <2>1. TypeOK'
    BY <1>2, TypeKept DEF FollowsInv
  <2>2. SpecIsTheFilter
    BY DEF FollowsInv
  <2>3. SpecIsTheFilter'
    BY <1>2, <2>0, <2>2 DEF SpecIsTheFilter
  <2>4. IsCall(Root(filter)) => NamesIn(spec) \subseteq known
    <3>1. SUFFICES ASSUME IsCall(Root(filter)) PROVE IsCall(Root(spec))
      BY <1>2 DEF ReferencedColumns
    <3>2. PICK n \in Namings : spec = Rewrite(filter, n)
      BY <2>0, <2>2 DEF SpecIsTheFilter
    <3> QED  BY <3>1, <3>2, RewriteCall DEF FollowsInv
  <2>5. NamesWereChecked'
    BY <1>2, <2>4 DEF NamesWereChecked
  <2>6. NotAnsweredYet'
    BY <1>2, <2>0 DEF FollowsInv, NotAnsweredYet
  <2> QED  BY <1>2, <2>1, <2>3, <2>5, <2>6 DEF FollowsInv
<1> QED  BY <1>1, <1>2, Zenon DEF BuildQuery

\* Running the query.
LEMMA RunQueryFollows == ASSUME FollowsInv, RunQuery PROVE FollowsInv'
<1> DEFINE known == {names[c] : c \in DOMAIN names}
<1>1. ASSUME ~(NamesRun \subseteq known), Fail("no_column"), UNCHANGED <<spec, seen>>
      PROVE  FollowsInv'
  <2>1. SUFFICES ASSUME renames = 0, IsCall(Root(filter)) PROVE NamesRun \subseteq known
    <3>1. "no_column" = "no_column" => renames > 0 \/ ~IsCall(Root(filter))
      BY <1>1, <2>1 DEF FollowsInv, TypeOK, FunctionsAssumption
    <3> QED  BY <1>1, <3>1, FailFollows
  <2>2. seen = names /\ NamesIn(spec) \subseteq known
    BY <2>1 DEF FollowsInv, NamesWereChecked, RunQuery
  <2> QED  BY <2>2 DEF NamesRun
<1>2. ASSUME NamesRun \subseteq known, ~ReadsItsColumns, Fail("other_column"), UNCHANGED <<spec, seen>>
      PROVE  FollowsInv'
  <2>1. SUFFICES ASSUME renames \in {0, 1} PROVE FALSE
    <3>1. renames \in Nat
      BY FunctionsAssumption DEF FollowsInv, TypeOK
    <3>2. renames >= 2
      BY <2>1, <3>1
    <3> QED  BY <1>2, <3>2, FailFollows
  <2>2. PICK n \in Namings : /\ IdsIn(filter) \subseteq DOMAIN n
                             /\ spec = Rewrite(filter, n)
                             /\ renames = 0 => n = names
                             /\ renames = 1 => n = names \/ OneApart(n, names)
    BY DEF FollowsInv, SpecIsTheFilter, RunQuery
  <2>3. NamesIn(Rewrite(filter, n)) \subseteq known
    BY <1>2, <2>2 DEF NamesRun
  <2>4. n = names \/ OneApart(n, names)
    BY <2>1, <2>2
  <2>5. IdsIn(filter) \subseteq DOMAIN names /\ Rewrite(filter, names) = Rewrite(filter, n)
    BY <2>2, <2>3, <2>4, OneStatementMisleadsNobody
  <2> QED  BY <1>2, <2>2, <2>5 DEF ReadsItsColumns
<1>3. ASSUME UNCHANGED <<spec, seen>>,
             \/ Fail("undefined_function") \/ Fail("not_boolean")
             \/ Fail("row") \/ Fail("no_row")
      PROVE  FollowsInv'
  BY <1>3, FailFollows
<1>4. ASSUME UNCHANGED <<spec, seen>>, step' = "counted",
             UNCHANGED <<table, names, filter, answer, renames>>
      PROVE  FollowsInv'
  <2>0. step # "done" /\ step # "ids" /\ (step = "count" \/ step = "page")
    BY DEF RunQuery
  <2>1. TypeOK'
    BY <1>4, TypeKept DEF FollowsInv
  <2>2. SpecIsTheFilter
    BY DEF FollowsInv
  <2>3. SpecIsTheFilter'
    BY <1>4, <2>0, <2>2 DEF SpecIsTheFilter
  <2>4. NamesWereChecked'
    BY <1>4, <2>0 DEF FollowsInv, NamesWereChecked
  <2>5. NotAnsweredYet'
    BY <1>4, <2>0 DEF FollowsInv, NotAnsweredYet
  <2> QED  BY <1>4, <2>1, <2>3, <2>4, <2>5 DEF FollowsInv
<1>5. UNCHANGED <<spec, seen>>
  BY DEF RunQuery
<1>6. \/ ~(NamesRun \subseteq known) /\ Fail("no_column")
      \/ NamesRun \subseteq known /\ ~ReadsItsColumns /\ Fail("other_column")
      \/ Fail("undefined_function") \/ Fail("not_boolean") \/ Fail("row") \/ Fail("no_row")
      \/ step' = "counted" /\ UNCHANGED <<table, names, filter, answer, renames>>
  BY Zenon DEF RunQuery
<1> QED  BY <1>1, <1>2, <1>3, <1>4, <1>5, <1>6

\* One statement more: names two statements apart from what they were are past the
\* count, and those one apart were the same before.
LEMMA OthersFollow ==
    ASSUME FollowsInv, TypeOK', OneApart(names, names'), renames' = renames + 1, MayChange,
           UNCHANGED <<table, filter, step, spec, seen, answer>>
    PROVE  FollowsInv'
<1>1. renames \in Nat /\ renames' # 0
  <2>1. renames \in Nat
    BY FunctionsAssumption DEF FollowsInv, TypeOK
  <2> QED  BY <2>1
<1>2. ASSUME step \notin {"ids", "done"}
      PROVE  \E n \in Namings : /\ IdsIn(filter) \subseteq DOMAIN n
                                /\ spec = Rewrite(filter, n)
                                /\ renames' = 0 => n = names'
                                /\ renames' = 1 => n = names' \/ OneApart(n, names')
  <2>1. PICK n \in Namings : /\ IdsIn(filter) \subseteq DOMAIN n
                             /\ spec = Rewrite(filter, n)
                             /\ renames = 0 => n = names
    BY <1>2 DEF FollowsInv, SpecIsTheFilter
  <2>2. renames' = 1 => OneApart(n, names')
    BY <1>1, <2>1
  <2> QED  BY <1>1, <2>1, <2>2
<1>3. SpecIsTheFilter'
  BY <1>2 DEF SpecIsTheFilter
<1>4. NamesWereChecked'
  BY <1>1 DEF NamesWereChecked
<1>5. NotAnsweredYet' /\ answer' = "none"
  BY DEF FollowsInv, NotAnsweredYet, MayChange
<1> QED  BY <1>3, <1>4, <1>5 DEF FollowsInv

\* Others rename a column.
LEMMA OthersRenameFollows ==
    ASSUME FollowsInv, NEW c \in DOMAIN names, NEW n \in Names, OthersRename(c, n)
    PROVE  FollowsInv'
<1>1. /\ renames' = renames + 1 /\ names' = [names EXCEPT ![c] = n] /\ MayChange
      /\ \A d \in DOMAIN names : names[d] # n
      /\ UNCHANGED <<table, filter, step, spec, seen, answer>>
  BY DEF OthersRename
<1>2. /\ DOMAIN names \subseteq Columns /\ names \in [DOMAIN names -> Names]
      /\ \A a, b \in DOMAIN names : names[a] = names[b] => a = b
  BY DEF FollowsInv, TypeOK, IsInjective
<1>3. /\ DOMAIN names' = DOMAIN names /\ names'[c] = n
      /\ \A d \in DOMAIN names \ {c} : names'[d] = names[d]
  BY <1>1, <1>2
<1>4. OneApart(names, names')
  <2>1. \A d \in DOMAIN names' : names'[d] # names[c]
    BY <1>1, <1>2, <1>3
  <2> QED  BY <1>3, <2>1 DEF OneApart
<1>5. names' \in [DOMAIN names' -> Names]
  BY <1>1, <1>2, <1>3
<1>6. \A a, b \in DOMAIN names' : names'[a] = names'[b] => a = b
  BY <1>1, <1>2, <1>3
<1>7. renames' \in 0 .. MaxRenames
  BY <1>1, FunctionsAssumption DEF FollowsInv, TypeOK, MayChange
<1>8. TypeOK'
  BY <1>1, <1>2, <1>3, <1>5, <1>6, <1>7 DEF FollowsInv, TypeOK, IsInjective, table
<1> QED  BY <1>1, <1>4, <1>8, OthersFollow

\* Others drop a column.
LEMMA OthersDropFollows ==
    ASSUME FollowsInv, NEW c \in DOMAIN names, OthersDrop(c)
    PROVE  FollowsInv'
<1>1. /\ renames' = renames + 1 /\ names' = [d \in DOMAIN names \ {c} |-> names[d]] /\ MayChange
      /\ UNCHANGED <<table, filter, step, spec, seen, answer>>
  BY DEF OthersDrop
<1>2. /\ DOMAIN names \subseteq Columns /\ names \in [DOMAIN names -> Names]
      /\ \A a, b \in DOMAIN names : names[a] = names[b] => a = b
  BY DEF FollowsInv, TypeOK, IsInjective
<1>3. DOMAIN names' = DOMAIN names \ {c} /\ \A d \in DOMAIN names \ {c} : names'[d] = names[d]
  BY <1>1
<1>4. OneApart(names, names')
  BY <1>2, <1>3 DEF OneApart
<1>5. names' \in [DOMAIN names' -> Names]
  BY <1>1, <1>2, <1>3
<1>6. \A a, b \in DOMAIN names' : names'[a] = names'[b] => a = b
  BY <1>2, <1>3
<1>7. renames' \in 0 .. MaxRenames
  BY <1>1, FunctionsAssumption DEF FollowsInv, TypeOK, MayChange
<1>8. TypeOK'
  BY <1>1, <1>2, <1>3, <1>5, <1>6, <1>7 DEF FollowsInv, TypeOK, IsInjective, table
<1> QED  BY <1>1, <1>4, <1>8, OthersFollow

\* Every step keeps the invariant.
LEMMA NextFollows == ASSUME FollowsInv, [Next]_vars PROVE FollowsInv'
<1>1. CASE RewriteFilter
  BY <1>1, RewriteFilterFollows
<1>2. CASE BuildQuery
  BY <1>2, BuildQueryFollows
<1>3. CASE RunQuery
  BY <1>3, RunQueryFollows
<1>4. CASE \E c \in DOMAIN names : OthersDrop(c) \/ \E n \in Names : OthersRename(c, n)
  BY <1>4, OthersDropFollows, OthersRenameFollows
<1>5. CASE UNCHANGED vars
  <2>1. /\ UNCHANGED <<kind, row, installed>> /\ UNCHANGED <<names, filter, step, spec, seen>>
        /\ UNCHANGED <<answer, renames>>
    BY <1>5 DEF vars, table
  <2>2. TypeOK' /\ SpecIsTheFilter' /\ NamesWereChecked' /\ NotAnsweredYet'
    BY <2>1 DEF FollowsInv, TypeOK, SpecIsTheFilter, NamesWereChecked, NotAnsweredYet
  <2> QED  BY <2>1, <2>2 DEF FollowsInv
<1> QED  BY <1>1, <1>2, <1>3, <1>4, <1>5 DEF Next

\* The invariant holds in every behaviour.
LEMMA FollowsInvHolds == Spec => []FollowsInv
<1>1. Init => FollowsInv
  BY InitFollows
<1>2. FollowsInv /\ [Next]_vars => FollowsInv'
  BY NextFollows
<1> QED  BY <1>1, <1>2, PTL DEF Spec

\* A filter never tests another column than the one it was sent for unless two statements
\* of others hand its name on, and a column that does not exist is found out before the
\* query runs, unless the table changes or the filter is nothing but a column.
THEOREM FilterFollowsItsColumnHolds == Spec => []FilterFollowsItsColumn
<1>1. FollowsInv => FilterFollowsItsColumn
  BY DEF FollowsInv, FilterFollowsItsColumn
<1> QED  BY <1>1, FollowsInvHolds, PTL

-----------------------------------------------------------------------------
(***************************************************************************)
(* What the interface is offered works.                                    *)
(***************************************************************************)

\* A node of a rewritten filter is one of the filter's or the name of one of its columns.
LEMMA RewrittenNode ==
    ASSUME NEW t, NEW n, NEW p \in DOMAIN t
    PROVE  /\ p \in DOMAIN Rewrite(t, n) /\ DOMAIN Rewrite(t, n) = DOMAIN t
           /\ t[p].id = "column_id" => Rewrite(t, n)[p] = Name(n[t[p].column])
           /\ t[p].id # "column_id" => Rewrite(t, n)[p] = t[p]
BY DEF Rewrite

\* The name of a column is no call.
LEMMA NameNode ==
    ASSUME NEW x
    PROVE  Name(x).id = "column_name" /\ Name(x).column = x /\ ~IsCall(Name(x))
BY DEF Name, IsCall

\* What is no function calls none, and no function is called like a column.
LEMMA IdsOfNodes ==
    /\ CalledBy("column_name") = {}
    /\ \A f \in DOMAIN KnownDbFunctions : f \notin {"column_id", "bare"}
    /\ CalledBy("literal") = {}
<1>1. Declares(Base, BaseIds)
  BY BaseDeclared
<1>2. \A f \in {"column_name", "literal"} : f \notin DOMAIN ExtractTests /\ f \notin DOMAIN Base
  BY <1>1, ExtractIds DEF Declares, BaseIds
<1>3. ASSUME NEW f \in DOMAIN KnownDbFunctions PROVE f \notin {"column_id", "bare"}
  <2>1. f \in BaseIds \cup PackedIds
    BY KnownFunctions
  <2> QED  BY <2>1 DEF BaseIds, PackedIds
<1> QED  BY <1>2, <1>3 DEF CalledBy

\* The kinds of nodes of a good filter, once it has been rewritten.
GoodSpecNode(node, onDatabase, n) ==
    IF IsCall(node)
    THEN /\ node.id \in DOMAIN KnownDbFunctions /\ Takes(node.id, node.arity)
         /\ CalledBy(node.id) \subseteq onDatabase /\ node.id # "column_name"
    ELSE \/ node.id = "literal"
         \/ node.id = "column_name" /\ \E c \in {Subject, Flag} : node.column = n[c]

\* The nodes of a good filter that has been rewritten are of those kinds.
LEMMA NodesOfGoodSpec ==
    ASSUME NEW t, NEW db, NEW n, GoodFilter(t, db), NEW node \in Nodes(Rewrite(t, n))
    PROVE  GoodSpecNode(node, db, n)
<1>1. PICK p \in DOMAIN t : node = Rewrite(t, n)[p]
  BY RewrittenNode DEF Nodes, Rewrite
<1>2. GoodNode(t[p], db)
  BY DEF GoodFilter, Nodes
<1>3. CASE t[p].id = "column_id"
  <2>1. node = Name(n[t[p].column])
    BY <1>1, <1>3, RewrittenNode
  <2>2. t[p].column \in {Subject, Flag}
    BY <1>2, <1>3, IdsOfNodes DEF GoodNode
  <2> QED  BY <2>1, <2>2, NameNode DEF GoodSpecNode
<1>4. CASE t[p].id # "column_id"
  <2>1. node = t[p]
    BY <1>1, <1>4, RewrittenNode
  <2>2. \A f \in DOMAIN KnownDbFunctions : f # "column_name"
    <3>1. ASSUME NEW f \in DOMAIN KnownDbFunctions PROVE f # "column_name"
      <4>1. f \in BaseIds \cup PackedIds
        BY KnownFunctions
      <4> QED  BY <4>1 DEF BaseIds, PackedIds
    <3> QED  BY <3>1
  <2> QED  BY <1>2, <1>4, <2>1, <2>2 DEF GoodNode, GoodSpecNode
<1> QED  BY <1>3, <1>4

\* A good filter, rewritten, passes every check of the request.
Passes(s, db, n) ==
    /\ Deserializes(s) /\ NamesIn(s) \subseteq {n[c] : c \in DOMAIN n}
    /\ Builds(s) /\ Calls(s) \subseteq db /\ IsBoolean(s)

\* A good filter, rewritten to names of both columns, passes.
LEMMA GoodFiltersPass ==
    ASSUME NEW t, NEW db, NEW n, GoodFilter(t, db), {Subject, Flag} \subseteq DOMAIN n
    PROVE  /\ IdsIn(t) \subseteq {Subject, Flag} /\ Root(t).id # "bare"
           /\ Passes(Rewrite(t, n), db, n)
<1>0. PICK s : s = Rewrite(t, n)
  OBVIOUS
<1>1. \A node \in Nodes(s) : GoodSpecNode(node, db, n)
  BY <1>0, NodesOfGoodSpec
<1>2. IdsIn(t) \subseteq {Subject, Flag}
  <2>1. SUFFICES ASSUME NEW node \in Nodes(t), node.id = "column_id"
                 PROVE  node.column \in {Subject, Flag}
    BY DEF IdsIn
  <2>2. GoodNode(node, db)
    BY DEF GoodFilter
  <2> QED  BY <2>1, <2>2, IdsOfNodes DEF GoodNode
<1>3. Root(t).id # "bare"
  <2>1. GoodNode(Root(t), db) /\ IsCall(Root(t))
    BY DEF GoodFilter, Nodes, Root, IsTree
  <2> QED  BY <2>1, IdsOfNodes DEF GoodNode
<1>4. Deserializes(s)
  BY <1>1 DEF Deserializes, GoodSpecNode
<1>5. NamesIn(s) \subseteq {n[c] : c \in DOMAIN n}
  <2>1. SUFFICES ASSUME NEW node \in Nodes(s), node.id = "column_name"
                 PROVE  node.column \in {n[c] : c \in DOMAIN n}
    BY DEF NamesIn
  <2>2. \E c \in {Subject, Flag} : node.column = n[c]
    BY <1>1, <2>1 DEF GoodSpecNode
  <2> QED  BY <2>2
<1>6. Builds(s)
  BY <1>1 DEF Builds, GoodSpecNode
<1>7. Calls(s) \subseteq db
  <2>1. ASSUME NEW node \in Nodes(s) PROVE CalledBy(node.id) \subseteq db
    BY <1>1, IdsOfNodes DEF GoodSpecNode
  <2> QED  BY <2>1 DEF Calls
<1>8. IsBoolean(s)
  <2>1. DOMAIN s = DOMAIN t
    BY <1>0 DEF Rewrite
  <2>2. SUFFICES ASSUME NEW p \in DOMAIN t, IsCondition(s, p) PROVE GivesBoolean(s[p])
    BY <2>1 DEF IsBoolean
  <2>3. ~IsOperand(t, p)
    <3>1. SUFFICES ASSUME NEW k \in 0 .. Len(p) - 1, NEW q, q = SubSeq(p, 1, k), q \in DOMAIN t,
                          t[q].id \notin Connectives
                   PROVE  FALSE
      BY DEF IsOperand
    <3>2. s[q].id \in Connectives
      BY <2>2, <3>1 DEF IsCondition
    <3>3. CASE t[q].id = "column_id"
      <4>1. s[q].id = "column_name"
        BY <1>0, <3>1, <3>3, RewrittenNode, NameNode
      <4> QED  BY <3>2, <4>1 DEF Connectives
    <3>4. CASE t[q].id # "column_id"
      BY <1>0, <3>1, <3>2, <3>4, RewrittenNode
    <3> QED  BY <3>3, <3>4
  <2>4. IsTrueOrFalse(t[p]) /\ GoodNode(t[p], db)
    BY <2>3 DEF GoodFilter, Nodes
  <2>5. t[p].id # "column_id"
    BY <2>4, IdsOfNodes DEF GoodNode, IsTrueOrFalse
  <2>6. s[p] = t[p]
    BY <1>0, <2>5, RewrittenNode
  <2> QED  BY <2>4, <2>6 DEF GivesBoolean, IsTrueOrFalse
<1> QED  BY <1>0, <1>2, <1>3, <1>4, <1>5, <1>6, <1>7, <1>8 DEF Passes

\* While the table stays as it is, a good filter that has been answered was answered with
\* rows.
OfferedInv ==
    /\ filter \in Combined(kind) \cup Odd
    /\ renames = 0 => DOMAIN names = Columns
    /\ renames = 0 /\ GoodFilter(filter, installed) /\ step = "done" => answer \in {"row", "no_row"}

\* The invariant holds at the start.
LEMMA InitOffers == Init => OfferedInv
<1> SUFFICES ASSUME Init PROVE OfferedInv
  OBVIOUS
<1>1. names \in [Columns -> Names]
  BY FunctionsAssumption DEF Init
<1>2. step # "done" /\ filter \in Combined(kind) \cup Odd
  BY DEF Init
<1> QED  BY <1>1, <1>2 DEF OfferedInv

\* The steps of the request, of a good filter while the table stays as it is.
LEMMA GoodFilterIsRewritten ==
    ASSUME FollowsInv, OfferedInv, RewriteFilter, renames = 0, GoodFilter(filter, installed)
    PROVE  step' # "done"
<1>1. IdsIn(filter) \subseteq DOMAIN names /\ Root(filter).id # "bare"
  BY GoodFiltersPass, FunctionsAssumption DEF OfferedInv
<1> QED  BY <1>1 DEF RewriteFilter

\* The spec of a good filter passes while the table stays as it is.
LEMMA GoodFilterPasses ==
    ASSUME FollowsInv, OfferedInv, step \notin {"ids", "done"}, renames = 0,
           GoodFilter(filter, installed)
    PROVE  /\ spec = Rewrite(filter, names) /\ IdsIn(filter) \subseteq DOMAIN names
           /\ Passes(spec, installed, names)
<1>1. spec = Rewrite(filter, names)
  BY DEF FollowsInv, SpecIsTheFilter
<1>2. {Subject, Flag} \subseteq DOMAIN names
  BY FunctionsAssumption DEF OfferedInv
<1> QED  BY <1>1, <1>2, GoodFiltersPass

\* No check of the built query fails.
LEMMA GoodFilterIsBuilt ==
    ASSUME FollowsInv, OfferedInv, BuildQuery, renames = 0, GoodFilter(filter, installed)
    PROVE  step' # "done"
<1>1. step \notin {"ids", "done"}
  BY DEF BuildQuery
<1>2. Passes(spec, installed, names)
  BY <1>1, GoodFilterPasses
<1>3. Deserializes(spec) /\ Builds(spec) /\ ReferencedColumns(spec) \subseteq {names[c] : c \in DOMAIN names}
  BY <1>2 DEF Passes, ReferencedColumns
<1> QED  BY <1>3 DEF BuildQuery

\* No error of the query that is run is answered.
LEMMA GoodFilterIsAnswered ==
    ASSUME FollowsInv, OfferedInv, RunQuery, renames = 0, GoodFilter(filter, installed),
           step' = "done"
    PROVE  answer' \in {"row", "no_row"}
<1>1. step \notin {"ids", "done"} /\ step \in {"count", "page"}
  BY DEF RunQuery
<1>2. spec = Rewrite(filter, names) /\ IdsIn(filter) \subseteq DOMAIN names
      /\ Passes(spec, installed, names)
  BY <1>1, GoodFilterPasses
<1>3. seen = names
  BY DEF FollowsInv, NamesWereChecked
<1>4. NamesRun \subseteq {names[c] : c \in DOMAIN names}
  BY <1>2, <1>3 DEF NamesRun, Passes
<1>5. Calls(spec) \subseteq installed /\ IsBoolean(spec) /\ ReadsItsColumns
  BY <1>2 DEF Passes, ReadsItsColumns
<1>6. \/ Fail("row") \/ Fail("no_row") \/ step' = "counted"
  BY <1>4, <1>5 DEF RunQuery
<1> QED  BY <1>6 DEF Fail

\* Every step keeps the invariant.
LEMMA NextOffers == ASSUME FollowsInv, OfferedInv, [Next]_vars PROVE OfferedInv'
<1>1. kind' = kind /\ installed' = installed /\ filter' = filter
  BY DEF Next, vars, table, RewriteFilter, BuildQuery, RunQuery, OthersRename, OthersDrop, Fail
<1>2. renames \in Nat
  BY FunctionsAssumption DEF FollowsInv, TypeOK
<1>3. CASE RewriteFilter \/ BuildQuery \/ RunQuery
  <2>1. renames' = renames /\ names' = names
    BY <1>3 DEF RewriteFilter, BuildQuery, RunQuery, Fail
  <2>2. ASSUME renames = 0, GoodFilter(filter, installed), step' = "done"
        PROVE  answer' \in {"row", "no_row"}
    BY <1>3, <2>2, GoodFilterIsRewritten, GoodFilterIsBuilt, GoodFilterIsAnswered
  <2> QED  BY <1>1, <2>1, <2>2 DEF OfferedInv
<1>4. CASE \E c \in DOMAIN names : OthersDrop(c) \/ \E n \in Names : OthersRename(c, n)
  <2>1. renames' # 0
    BY <1>2, <1>4 DEF OthersDrop, OthersRename
  <2> QED  BY <1>1, <2>1 DEF OfferedInv
<1>5. CASE UNCHANGED vars
  BY <1>1, <1>5 DEF vars, OfferedInv
<1> QED  BY <1>3, <1>4, <1>5 DEF Next

\* A hint that all types of a type of the interface have, and there is one, is its hint.
LEMMA HintOfUIType ==
    ASSUME NEW ui \in DOMAIN UIType, NEW h, NEW t0 \in UIType[ui],
           \A t \in UIType[ui] : h \in DbTypesHinted[t]
    PROVE  ui \in UITypesThatSatisfy({h})
BY DEF UITypesThatSatisfy, UITypeHintset

\* The hints of the types of the interface that stand for one kind of values.
LEMMA HintedTypes ==
    /\ StringLikeTypes \cup NumericTypes \cup {"boolean", "email", "uri", "_array", "mathesar_json_array"}
          \subseteq KnownDbTypes
    /\ \A t \in StringLikeTypes : "string_like" \in DbTypesHinted[t]
    /\ \A t \in NumericTypes : "numeric" \in DbTypesHinted[t] /\ "comparable" \in DbTypesHinted[t]
    /\ \A t \in NumericTypes : "any" \in DbTypesHinted[t]
    /\ "email" \in DbTypesHinted["email"] /\ "uri" \in DbTypesHinted["uri"]
    /\ "array" \in DbTypesHinted["_array"] /\ "jsonlist" \in DbTypesHinted["mathesar_json_array"]
<1>1. StringLikeTypes \cup NumericTypes \cup {"boolean", "email", "uri", "_array", "mathesar_json_array"}
          \subseteq KnownDbTypes
  BY DEF StringLikeTypes, StringTypes, NumericTypes, IntegerTypes, DecimalTypes, KnownDbTypes,
         PostgresTypes, CustomTypes
<1>2. \A t \in StringLikeTypes : "string_like" \in DbTypesHinted[t]
  BY <1>1 DEF DbTypesHinted
<1>3. \A t \in NumericTypes : t \in ComparableTypes
  BY DEF ComparableTypes
<1>4. \A t \in NumericTypes : "numeric" \in DbTypesHinted[t] /\ "comparable" \in DbTypesHinted[t]
                              /\ "any" \in DbTypesHinted[t]
  BY <1>1, <1>3 DEF DbTypesHinted
<1>5. "email" \in DbTypesHinted["email"] /\ "uri" \in DbTypesHinted["uri"]
      /\ "array" \in DbTypesHinted["_array"] /\ "jsonlist" \in DbTypesHinted["mathesar_json_array"]
  BY <1>1 DEF DbTypesHinted
<1> QED  BY <1>1, <1>2, <1>4, <1>5

\* The database types those types of the interface stand for.
LEMMA TypesOfTheInterface ==
    /\ {"email", "number", "text", "uri", "jsonlist", "array"} \subseteq DOMAIN UIType
    /\ UIType["email"] = {"email"} /\ UIType["number"] = NumericTypes
    /\ UIType["text"] = StringLikeTypes /\ UIType["uri"] = {"uri"}
    /\ UIType["jsonlist"] = {"mathesar_json_array"} /\ UIType["array"] = {"_array"}
BY DEF UIType

\* Whatever hints a parameter asks for, there is a type of the interface that has them.
LEMMA HintsAreSatisfied ==
    ASSUME NEW hints \in HintSets
    PROVE  UITypesThatSatisfy(hints) # {}
<1>0. "numeric" \in NumericTypes /\ "text" \in StringLikeTypes
  BY DEF NumericTypes, StringLikeTypes, StringTypes
<1>1. "number" \in UITypesThatSatisfy({"any"})
  BY <1>0, HintedTypes, TypesOfTheInterface, HintOfUIType
<1>2. "number" \in UITypesThatSatisfy({"comparable"})
  BY <1>0, HintedTypes, TypesOfTheInterface, HintOfUIType
<1>3. "number" \in UITypesThatSatisfy({"numeric"})
  BY <1>0, HintedTypes, TypesOfTheInterface, HintOfUIType
<1>4. "text" \in UITypesThatSatisfy({"string_like"})
  BY <1>0, HintedTypes, TypesOfTheInterface, HintOfUIType
<1>5. "email" \in UITypesThatSatisfy({"email"})
  BY HintedTypes, TypesOfTheInterface, HintOfUIType
<1>6. "uri" \in UITypesThatSatisfy({"uri"})
  BY HintedTypes, TypesOfTheInterface, HintOfUIType
<1>7. "array" \in UITypesThatSatisfy({"array"})
  BY HintedTypes, TypesOfTheInterface, HintOfUIType
<1>8. "jsonlist" \in UITypesThatSatisfy({"jsonlist"})
  BY HintedTypes, TypesOfTheInterface, HintOfUIType
<1>9. "number" \in UITypesThatSatisfy({})
  BY TypesOfTheInterface DEF UITypesThatSatisfy
<1> QED  BY <1>1, <1>2, <1>3, <1>4, <1>5, <1>6, <1>7, <1>8, <1>9 DEF HintSets

\* What the interface is offered works: every parameter of an available filter has a type
\* of the interface, and an available filter that is a test, alone, negated or in company,
\* is answered with rows while the table stays as it is.
THEOREM OfferedFiltersWorkHolds == Spec => []OfferedFiltersWork
<1>1. Init => FollowsInv /\ OfferedInv
  BY InitFollows, InitOffers
<1>2. FollowsInv /\ OfferedInv /\ [Next]_vars => (FollowsInv /\ OfferedInv)'
  BY NextFollows, NextOffers
<1>3. ASSUME NEW f \in DOMAIN KnownDbFunctions, NEW i \in DOMAIN KnownDbFunctions[f].parameters
      PROVE  ParameterUITypes[f][i] # {}
  <2>1. KnownDbFunctions[f].parameters[i] \in HintSets
    BY KnownFunctions
  <2> QED  BY <2>1, HintsAreSatisfied DEF ParameterUITypes
<1>4. FollowsInv /\ OfferedInv => OfferedFiltersWork
  <2>1. SUFFICES ASSUME OfferedInv,
                        step = "done", renames = 0, filter \notin Odd,
                        Top(filter) \in AvailableFilters(installed),
                        KnownDbFunctions[Top(filter)].returns = {"boolean"}
                 PROVE  answer \in {"row", "no_row"}
    BY <1>3 DEF OfferedFiltersWork, AvailableFilters
  <2>2. IsCombination(filter)
    BY <2>1, CombinedSent DEF OfferedInv
  <2>3. GoodFilter(filter, installed)
    BY <2>1, <2>2, OfferedAreGood
  <2> QED  BY <2>1, <2>3 DEF OfferedInv
<1> QED  BY <1>1, <1>2, <1>4, PTL DEF Spec

-----------------------------------------------------------------------------
(***************************************************************************)
(* What a tree evaluates to.                                               *)
(***************************************************************************)

\* The value of a function that is called, and of a node whose parameters' values are known.
CallValue(f, args) == IF f \in DOMAIN Packed THEN Unpack(f, args) ELSE Apply(f, args)
NodeValue(tree, valueOf, at, p) ==
    LET node == tree[p]
        args == [i \in 1 .. node.arity |-> at[Append(p, i)]]
    IN  CASE node.id = "column_name" -> valueOf[node.column]
          [] node.id = "literal" -> node.value
          [] node.id \in DOMAIN Packed -> Unpack(node.id, args)
          [] node.id \in DOMAIN Base -> Apply(node.id, args)
IsEvaluation(tree, valueOf, at) == at = [p \in DOMAIN tree |-> NodeValue(tree, valueOf, at, p)]

\* Every function in a tree has its parameters.
IsLeafNode(node) == node.id \in {"column_name", "literal"}
Closed(t) == \A p \in DOMAIN t : IsLeafNode(t[p]) \/
    (t[p].arity \in Nat /\ \A i \in 1 .. t[p].arity : Append(p, i) \in DOMAIN t)

\* A tree has an evaluation, and every one gives it a value.
Yields(t, valueOf, v) ==
    /\ IsTree(t) /\ Closed(t)
    /\ \E at : IsEvaluation(t, valueOf, at)
    /\ \A at : IsEvaluation(t, valueOf, at) => at[<<>>] = v

\* A tree that yields a value evaluates to it.
LEMMA EvaluatesToYield ==
    ASSUME NEW t, NEW valueOf, NEW v, Yields(t, valueOf, v)
    PROVE  Evaluate(t, valueOf) = v
<1>1. PICK e : e = CHOOSE at : IsEvaluation(t, valueOf, at)
  OBVIOUS
<1>2. IsEvaluation(t, valueOf, e)
  BY <1>1, Zenon DEF Yields
<1>3. Evaluate(t, valueOf) = e[<<>>]
  BY <1>1, Zenon DEF Evaluate, IsEvaluation, NodeValue
<1> QED  BY <1>2, <1>3 DEF Yields

\* The ids of columns and literals are no functions'.
LEMMA LeafIdsAreNoFunctions ==
    \A id \in {"column_name", "literal"} : id \notin DOMAIN Base /\ id \notin DOMAIN Packed
<1>1. Declares(Base, BaseIds) /\ Declares(Packed, PackedIds)
  BY BaseDeclared, PackedDeclared
<1> QED  BY <1>1 DEF Declares, BaseIds, PackedIds

\* The value of a leaf.
LEMMA ValueOfLeaf ==
    ASSUME NEW t, NEW valueOf, NEW at, NEW p
    PROVE  /\ t[p].id = "column_name" => NodeValue(t, valueOf, at, p) = valueOf[t[p].column]
           /\ t[p].id = "literal" => NodeValue(t, valueOf, at, p) = t[p].value
<1>1. CASE t[p].id = "column_name"
  BY <1>1, LeafIdsAreNoFunctions DEF NodeValue
<1>2. CASE t[p].id = "literal"
  BY <1>2, LeafIdsAreNoFunctions DEF NodeValue
<1> QED  BY <1>1, <1>2

\* A name of a column and a literal yield their values.
LEMMA LeafYields ==
    ASSUME NEW node, NEW valueOf, NEW v,
           \/ node.id = "column_name" /\ v = valueOf[node.column]
           \/ node.id = "literal" /\ v = node.value
    PROVE  Yields(Leaf(node), valueOf, v)
<1> PICK t : t = Leaf(node)
  OBVIOUS
<1>1. IsTree(t) /\ DOMAIN t = {<<>>} /\ t[<<>>] = node
  BY LeafTree DEF Root
<1>2. Closed(t)
  BY <1>1 DEF Closed, IsLeafNode
<1>3. ASSUME NEW at PROVE NodeValue(t, valueOf, at, <<>>) = v
  BY <1>1, ValueOfLeaf
<1>4. IsEvaluation(t, valueOf, [p \in DOMAIN t |-> v])
  BY <1>1, <1>3, Zenon DEF IsEvaluation
<1>5. ASSUME NEW at, IsEvaluation(t, valueOf, at) PROVE at[<<>>] = v
  <2>1. at[<<>>] = NodeValue(t, valueOf, at, <<>>)
    BY <1>1, <1>5, Zenon DEF IsEvaluation
  <2> QED  BY <1>3, <2>1
<1>6. \E at : IsEvaluation(t, valueOf, at)
  BY <1>4
<1> QED  BY <1>1, <1>2, <1>5, <1>6 DEF Yields

\* The node of a function that is known has the value of its call.
LEMMA ValueOfCall ==
    ASSUME NEW t, NEW valueOf, NEW at, NEW p, t[p].id \in DOMAIN Base \cup DOMAIN Packed,
           NEW a, a = [i \in 1 .. t[p].arity |-> at[Append(p, i)]]
    PROVE  NodeValue(t, valueOf, at, p) = CallValue(t[p].id, a)
<1>1. t[p].id \notin {"column_name", "literal"}
  <2>1. t[p].id \in BaseIds \cup PackedIds
    BY BaseDeclared, PackedDeclared DEF Declares
  <2> QED  BY <2>1 DEF BaseIds, PackedIds
<1>2. CASE t[p].id \in DOMAIN Packed
  <2>1. t[p].id \notin DOMAIN Base
    BY <1>2, BaseDeclared, PackedDeclared DEF Declares, BaseIds, PackedIds
  <2> QED  BY <1>1, <1>2, <2>1 DEF NodeValue, CallValue
<1>3. CASE t[p].id \notin DOMAIN Packed
  <2>1. t[p].id \in DOMAIN Base
    BY <1>3
  <2> QED  BY <1>1, <1>3, <2>1 DEF NodeValue, CallValue
<1> QED  BY <1>2, <1>3

\* A node's value is made of its own and of those of its parameters.
LEMMA ValueOfNode ==
    ASSUME NEW t, NEW u, NEW valueOf, NEW at, NEW bt, NEW p, NEW q, t[p] = u[q],
           IsLeafNode(t[p]) \/ \A i \in 1 .. t[p].arity : at[Append(p, i)] = bt[Append(q, i)]
    PROVE  NodeValue(t, valueOf, at, p) = NodeValue(u, valueOf, bt, q)
<1>1. CASE IsLeafNode(t[p])
  <2>1. CASE t[p].id = "column_name"
    BY <2>1, ValueOfLeaf
  <2>2. CASE t[p].id = "literal"
    BY <2>2, ValueOfLeaf
  <2> QED  BY <1>1, <2>1, <2>2 DEF IsLeafNode
<1>2. CASE \A i \in 1 .. t[p].arity : at[Append(p, i)] = bt[Append(q, i)]
  <2>1. [i \in 1 .. t[p].arity |-> at[Append(p, i)]] = [i \in 1 .. u[q].arity |-> bt[Append(q, i)]]
    BY <1>2, Zenon
  <2> QED  BY <2>1, Zenon DEF NodeValue
<1> QED  BY <1>1, <1>2

\* A parameter's position is put before a place in it, and a position after.
LEMMA PlacesBelow ==
    ASSUME NEW i \in Nat, NEW q \in Seq(Nat), NEW j \in Nat
    PROVE  Append(<<i>> \o q, j) = <<i>> \o Append(q, j) /\ Append(<<>>, i) = <<i>> \o <<>>
OBVIOUS

\* The part of an evaluation of a call that is one parameter's.
PartFor(at, args, i) == [q \in DOMAIN args[i] |-> at[<<i>> \o q]]

\* A call of closed trees is closed.
LEMMA CallIsClosed ==
    ASSUME NEW t, NEW f, NEW args, IsCallOf(t, f, args), AreTrees(args),
           \A i \in DOMAIN args : Closed(args[i])
    PROVE  Closed(t)
<1>1. SUFFICES ASSUME NEW p \in DOMAIN t, ~IsLeafNode(t[p])
               PROVE  t[p].arity \in Nat /\ \A j \in 1 .. t[p].arity : Append(p, j) \in DOMAIN t
  BY DEF Closed
<1>2. CASE p = <<>>
  <2>1. t[p].arity = Len(args)
    BY <1>2 DEF IsCallOf, Root
  <2>2. ASSUME NEW j \in 1 .. Len(args) PROVE Append(p, j) \in DOMAIN t
    <3>1. j \in DOMAIN args /\ <<>> \in DOMAIN args[j] /\ <<>> \in Seq(Nat) /\ j \in Nat
      BY DEF AreTrees, IsTree
    <3>2. <<j>> \o <<>> \in DOMAIN t
      BY <3>1 DEF IsCallOf
    <3> QED  BY <1>2, <3>1, <3>2, PlacesBelow
  <2> QED  BY <2>1, <2>2 DEF AreTrees
<1>3. CASE p # <<>>
  <2>1. PICK i \in DOMAIN args : \E q \in DOMAIN args[i] : p = <<i>> \o q /\ t[p] = args[i][q]
    BY <1>3 DEF IsCallOf
  <2>2. PICK q \in DOMAIN args[i] : p = <<i>> \o q /\ t[p] = args[i][q]
    BY <2>1
  <2>3. i \in Nat /\ q \in Seq(Nat)
    BY DEF AreTrees, IsTree
  <2>4. t[p].arity \in Nat /\ \A j \in 1 .. t[p].arity : Append(q, j) \in DOMAIN args[i]
    BY <1>1, <2>2 DEF Closed
  <2>5. ASSUME NEW j \in 1 .. t[p].arity PROVE Append(p, j) \in DOMAIN t
    <3>1. <<i>> \o Append(q, j) \in DOMAIN t
      BY <2>4 DEF IsCallOf
    <3>2. j \in Nat
      BY <2>4
    <3> QED  BY <2>2, <2>3, <3>1, <3>2, PlacesBelow
  <2> QED  BY <2>4, <2>5
<1> QED  BY <1>2, <1>3

\* The part of an evaluation of a call that is a parameter's is an evaluation of it.
LEMMA PartsAreEvaluations ==
    ASSUME NEW t, NEW f, NEW args, NEW valueOf, NEW at, IsCallOf(t, f, args), AreTrees(args),
           IsEvaluation(t, valueOf, at), NEW i \in DOMAIN args, Closed(args[i])
    PROVE  IsEvaluation(args[i], valueOf, PartFor(at, args, i))
<1> PICK part : part = PartFor(at, args, i)
  OBVIOUS
<1>1. i \in Nat /\ DOMAIN args[i] \subseteq Seq(Nat)
  BY DEF AreTrees, IsTree
<1>2. part = [q \in DOMAIN args[i] |-> at[<<i>> \o q]]
  BY DEF PartFor
<1>3. ASSUME NEW q \in DOMAIN args[i]
      PROVE  at[<<i>> \o q] = NodeValue(args[i], valueOf, part, q)
  <2>1. <<i>> \o q \in DOMAIN t /\ t[<<i>> \o q] = args[i][q]
    BY DEF IsCallOf
  <2>2. at[<<i>> \o q] = NodeValue(t, valueOf, at, <<i>> \o q)
    BY <2>1, Zenon DEF IsEvaluation
  <2>3. CASE IsLeafNode(args[i][q])
    BY <2>1, <2>2, <2>3, ValueOfNode
  <2>4. CASE ~IsLeafNode(args[i][q])
    <3>1. ASSUME NEW j \in 1 .. args[i][q].arity
          PROVE  at[Append(<<i>> \o q, j)] = part[Append(q, j)]
      <4>1. args[i][q].arity \in Nat /\ Append(q, j) \in DOMAIN args[i]
        BY <2>4 DEF Closed
      <4>2. Append(<<i>> \o q, j) = <<i>> \o Append(q, j)
        BY <1>1, <4>1, PlacesBelow
      <4> QED  BY <1>2, <4>1, <4>2
    <3> QED  BY <2>1, <2>2, <3>1, ValueOfNode
  <2> QED  BY <2>3, <2>4
<1>4. part = [q \in DOMAIN args[i] |-> NodeValue(args[i], valueOf, part, q)]
  BY <1>2, <1>3, Zenon
<1> QED  BY <1>4 DEF IsEvaluation

\* The values of the parameters, as the call gets them.
LEMMA CallGetsValues ==
    ASSUME NEW t, NEW f, NEW args, NEW valueOf, NEW vals, NEW at,
           IsCallOf(t, f, args), AreTrees(args), f \in DOMAIN Base \cup DOMAIN Packed,
           \A i \in 1 .. Len(args) : at[<<i>> \o <<>>] = vals[i]
    PROVE  NodeValue(t, valueOf, at, <<>>) = CallValue(f, [i \in 1 .. Len(args) |-> vals[i]])
<1>1. t[<<>>].id = f /\ t[<<>>].arity = Len(args)
  BY DEF IsCallOf, Root
<1>0. PICK root : root = <<>>
  OBVIOUS
<1>5. PICK a : a = [i \in 1 .. t[root].arity |-> at[Append(root, i)]]
  OBVIOUS
<1>6. t[root].id \in DOMAIN Base \cup DOMAIN Packed
  BY <1>0, <1>1
<1>7. NodeValue(t, valueOf, at, root) = CallValue(t[root].id, a)
  BY <1>5, <1>6, ValueOfCall
<1>2. NodeValue(t, valueOf, at, <<>>) = CallValue(f, a)
  BY <1>0, <1>1, <1>7
<1>3. ASSUME NEW i \in 1 .. Len(args) PROVE at[Append(<<>>, i)] = vals[i]
  <2>1. i \in Nat /\ <<>> \in Seq(Nat)
    BY DEF AreTrees
  <2> QED  BY <2>1, PlacesBelow
<1>4. a = [i \in 1 .. Len(args) |-> vals[i]]
  BY <1>0, <1>1, <1>3, <1>5, Zenon
<1> QED  BY <1>2, <1>4

\* Evaluations of the parameters make one of the call.
LEMMA EvaluationsMakeOne ==
    ASSUME NEW t, NEW f, NEW args, NEW valueOf, NEW vals, NEW ats,
           IsCallOf(t, f, args), AreTrees(args), f \in DOMAIN Base \cup DOMAIN Packed,
           \A i \in DOMAIN args : /\ Closed(args[i]) /\ IsEvaluation(args[i], valueOf, ats[i])
                                  /\ ats[i][<<>>] = vals[i]
    PROVE  \E at : IsEvaluation(t, valueOf, at)
<1>0. PICK at : at = [p \in DOMAIN t |->
        IF p = <<>> THEN CallValue(f, [i \in 1 .. Len(args) |-> vals[i]])
        ELSE ats[Head(p)][Tail(p)]]
  OBVIOUS
<1>1. ASSUME NEW i \in DOMAIN args, NEW q \in DOMAIN args[i]
      PROVE  /\ <<i>> \o q \in DOMAIN t /\ t[<<i>> \o q] = args[i][q]
             /\ at[<<i>> \o q] = ats[i][q] /\ i \in Nat /\ q \in Seq(Nat)
  <2>1. <<i>> \o q \in DOMAIN t /\ t[<<i>> \o q] = args[i][q]
    BY DEF IsCallOf
  <2>2. i \in Nat /\ q \in Seq(Nat)
    BY DEF AreTrees, IsTree
  <2>3. <<i>> \o q # <<>> /\ Head(<<i>> \o q) = i /\ Tail(<<i>> \o q) = q
    BY <2>2, PlaceBelow
  <2> QED  BY <1>0, <2>1, <2>2, <2>3
<1>2. ASSUME NEW p \in DOMAIN t PROVE at[p] = NodeValue(t, valueOf, at, p)
  <2>1. CASE p = <<>>
    <3>1. ASSUME NEW i \in 1 .. Len(args) PROVE at[<<i>> \o <<>>] = vals[i]
      <4>1. i \in DOMAIN args /\ <<>> \in DOMAIN args[i]
        BY DEF AreTrees, IsTree
      <4> QED  BY <1>1, <4>1
    <3>2. NodeValue(t, valueOf, at, <<>>) = CallValue(f, [i \in 1 .. Len(args) |-> vals[i]])
      BY <3>1, CallGetsValues
    <3> QED  BY <1>0, <2>1, <3>2
  <2>2. CASE p # <<>>
    <3>1. PICK i \in DOMAIN args : \E q \in DOMAIN args[i] : p = <<i>> \o q /\ t[p] = args[i][q]
      BY <2>2 DEF IsCallOf
    <3>2. PICK q \in DOMAIN args[i] : p = <<i>> \o q /\ t[p] = args[i][q]
      BY <3>1
    <3>3. ats[i] = [r \in DOMAIN args[i] |-> NodeValue(args[i], valueOf, ats[i], r)]
      BY DEF IsEvaluation
    <3>4. at[p] = NodeValue(args[i], valueOf, ats[i], q)
      <4>1. at[p] = ats[i][q]
        BY <1>1, <3>2
      <4> QED  BY <3>3, <4>1, Zenon
    <3>5. NodeValue(t, valueOf, at, p) = NodeValue(args[i], valueOf, ats[i], q)
      <4>1. CASE IsLeafNode(t[p])
        BY <3>2, <4>1, ValueOfNode
      <4>2. CASE ~IsLeafNode(t[p])
        <5>1. ASSUME NEW j \in 1 .. t[p].arity PROVE at[Append(p, j)] = ats[i][Append(q, j)]
          <6>1. t[p].arity \in Nat /\ Append(q, j) \in DOMAIN args[i]
            BY <3>2, <4>2 DEF Closed
          <6>4. j \in Nat
            BY <6>1
          <6>5. i \in Nat /\ q \in Seq(Nat)
            BY DEF AreTrees, IsTree
          <6>2. j \in Nat /\ i \in Nat /\ q \in Seq(Nat)
            BY <6>4, <6>5
          <6>3. Append(p, j) = <<i>> \o Append(q, j)
            BY <3>2, <6>2, PlacesBelow
          <6> QED  BY <1>1, <6>1, <6>3
        <5> QED  BY <3>2, <5>1, ValueOfNode
      <4> QED  BY <4>1, <4>2
    <3> QED  BY <3>4, <3>5
  <2> QED  BY <2>1, <2>2
<1>3. at = [p \in DOMAIN t |-> NodeValue(t, valueOf, at, p)]
  BY <1>0, <1>2, Zenon
<1> QED  BY <1>3 DEF IsEvaluation

\* A call yields what its function makes of what its parameters yield.
LEMMA CallYields ==
    ASSUME NEW t, NEW f, NEW args, NEW valueOf, NEW vals,
           IsCallOf(t, f, args), AreTrees(args), f \in DOMAIN Base \cup DOMAIN Packed,
           \A i \in DOMAIN args : Yields(args[i], valueOf, vals[i])
    PROVE  Yields(t, valueOf, CallValue(f, [i \in 1 .. Len(args) |-> vals[i]]))
<1>1. Closed(t)
  BY CallIsClosed DEF Yields
<1>2. \E at : IsEvaluation(t, valueOf, at)
  <2> PICK ats : ats = [i \in DOMAIN args |-> CHOOSE at : IsEvaluation(args[i], valueOf, at)]
    OBVIOUS
  <2>1. ASSUME NEW i \in DOMAIN args
        PROVE  /\ Closed(args[i]) /\ IsEvaluation(args[i], valueOf, ats[i])
               /\ ats[i][<<>>] = vals[i]
    <3>1. Yields(args[i], valueOf, vals[i])
      OBVIOUS
    <3>2. PICK e : e = CHOOSE at : IsEvaluation(args[i], valueOf, at)
      OBVIOUS
    <3>3. IsEvaluation(args[i], valueOf, e)
      BY <3>1, <3>2, Zenon DEF Yields
    <3>4. ats[i] = e
      BY <3>2
    <3> QED  BY <3>1, <3>3, <3>4 DEF Yields
  <2> QED  BY <2>1, EvaluationsMakeOne
<1>3. ASSUME NEW at, IsEvaluation(t, valueOf, at)
      PROVE  at[<<>>] = CallValue(f, [i \in 1 .. Len(args) |-> vals[i]])
  <2>1. ASSUME NEW i \in 1 .. Len(args) PROVE at[<<i>> \o <<>>] = vals[i]
    <3>1. i \in DOMAIN args /\ <<>> \in DOMAIN args[i]
      BY DEF AreTrees, IsTree
    <3>2. Yields(args[i], valueOf, vals[i])
      BY <3>1
    <3>3. IsEvaluation(args[i], valueOf, PartFor(at, args, i))
      BY <1>3, <3>1, <3>2, PartsAreEvaluations DEF Yields
    <3>4. PartFor(at, args, i)[<<>>] = vals[i]
      BY <3>2, <3>3 DEF Yields
    <3> QED  BY <3>1, <3>4 DEF PartFor
  <2>2. at[<<>>] = NodeValue(t, valueOf, at, <<>>)
    <3>1. <<>> \in DOMAIN t
      BY DEF IsCallOf, IsTree
    <3> QED  BY <1>3, <3>1, Zenon DEF IsEvaluation
  <2> QED  BY <2>1, <2>2, CallGetsValues
<1>4. IsTree(t)
  BY DEF IsCallOf
<1> QED  BY <1>1, <1>2, <1>3, <1>4 DEF Yields

-----------------------------------------------------------------------------
(***************************************************************************)
(* LIKE.                                                                   *)
(***************************************************************************)

\* The places in a text from which the rest of a pattern matches.
Places(from, s, pattern, j) ==
    IF j = Len(pattern) + 1 THEN {Len(s) + 1}
    ELSE IF pattern[j] = "%" THEN {i \in 1 .. Len(s) + 1 : \E k \in from[j + 1] : i <= k}
    ELSE {i \in 1 .. Len(s) : s[i] = pattern[j] /\ i + 1 \in from[j + 1]}
IsMatching(from, s, pattern) ==
    from = [j \in 1 .. Len(pattern) + 1 |-> Places(from, s, pattern, j)]

\* LIKE is what such a function says of all of both.
LEMMA LikeIsMatching ==
    ASSUME NEW s, NEW pattern, NEW g, IsMatching(g, s, pattern)
    PROVE  \E from : IsMatching(from, s, pattern) /\ (Like(s, pattern) <=> 1 \in from[1])
<1>1. PICK e : e = CHOOSE from : IsMatching(from, s, pattern)
  OBVIOUS
<1>2. IsMatching(e, s, pattern)
  BY <1>1, Zenon
<1>3. Like(s, pattern) <=> 1 \in e[1]
  BY <1>1, Zenon DEF Like, IsMatching, Places
<1> QED  BY <1>2, <1>3

\* Places depend on those of the rest of the pattern after the next character only.
LEMMA PlacesOfRest ==
    ASSUME NEW s, NEW pattern, NEW f, NEW g, NEW j,
           j = Len(pattern) + 1 \/ f[j + 1] = g[j + 1]
    PROVE  Places(f, s, pattern, j) = Places(g, s, pattern, j)
<1>1. CASE j = Len(pattern) + 1
  BY <1>1, Zenon DEF Places
<1>2. CASE f[j + 1] = g[j + 1]
  BY <1>2, Zenon DEF Places
<1> QED  BY <1>1, <1>2

\* There is one such function.
LEMMA OneMatching ==
    ASSUME NEW s, NEW pattern, Len(pattern) \in Nat, NEW f, NEW g,
           IsMatching(f, s, pattern), IsMatching(g, s, pattern)
    PROVE  f = g
<1> PICK n : n = Len(pattern)
  OBVIOUS
<1>1. \A j \in 1 .. n + 1 : f[j] = Places(f, s, pattern, j) /\ g[j] = Places(g, s, pattern, j)
  BY Zenon DEF IsMatching
<1>2. PICK S : S = {m \in 0 .. n : f[n + 1 - m] # g[n + 1 - m]}
  OBVIOUS
<1>3. S = {}
  <2>1. SUFFICES ASSUME S # {} PROVE FALSE
    OBVIOUS
  <2>2. S \in SUBSET Nat
    BY <1>2
  <2>3. Min(S) \in S /\ \A x \in S : Min(S) <= x
    BY <2>1, <2>2, SmallestIsThere
  <2>4. PICK m : m = Min(S)
    OBVIOUS
  <2>5. m \in 0 .. n /\ f[n + 1 - m] # g[n + 1 - m]
    BY <1>2, <2>3, <2>4
  <2>6. PICK j : j = n + 1 - m
    OBVIOUS
  <2>7. j \in 1 .. n + 1 /\ f[j] # g[j]
    BY <2>5, <2>6
  <2>8. j = n + 1 \/ f[j + 1] = g[j + 1]
    <3>1. CASE m = 0
      BY <2>5, <2>6, <3>1
    <3>2. CASE m # 0
      <4>1. m - 1 \in 0 .. n /\ m - 1 \notin S
        BY <2>3, <2>4, <2>5, <3>2
      <4>2. f[n + 1 - (m - 1)] = g[n + 1 - (m - 1)]
        BY <1>2, <4>1
      <4>3. n + 1 - (m - 1) = j + 1
        BY <2>5, <2>6
      <4> QED  BY <4>2, <4>3
    <3> QED  BY <3>1, <3>2
  <2>9. Places(f, s, pattern, j) = Places(g, s, pattern, j)
    BY <2>8, PlacesOfRest
  <2> QED  BY <1>1, <2>7, <2>9
<1>4. ASSUME NEW j \in 1 .. n + 1 PROVE f[j] = g[j]
  <2>1. n + 1 - j \in 0 .. n /\ n + 1 - j \notin S /\ n + 1 - (n + 1 - j) = j
    BY <1>3
  <2>2. f[n + 1 - (n + 1 - j)] = g[n + 1 - (n + 1 - j)]
    BY <1>2, <2>1
  <2> QED  BY <2>1, <2>2
<1>5. DOMAIN f = 1 .. n + 1 /\ DOMAIN g = 1 .. n + 1
  BY Zenon DEF IsMatching
<1>6. f = [j \in 1 .. n + 1 |-> f[j]] /\ g = [j \in 1 .. n + 1 |-> g[j]]
  BY <1>5, Zenon DEF IsMatching
<1> QED  BY <1>4, <1>6, Zenon

\* A text has another, from its dth character on, from place i on.
HasFrom(s, t, i, d) == /\ i + Len(t) + 1 - d <= Len(s) + 1
                       /\ \A e \in d .. Len(t) : s[i + e - d] = t[e]

\* The pattern of LIKE is a text and %, after % or not.
IsPattern(pattern, t, o) ==
    /\ o \in {0, 1} /\ Len(t) \in Nat /\ Len(pattern) = o + Len(t) + 1
    /\ \A d \in 1 .. Len(t) : pattern[o + d] = t[d] /\ t[d] # "%"
    /\ pattern[o + Len(t) + 1] = "%" /\ (o = 1 => pattern[1] = "%")
PlacesOf(s, t, o, j) ==
    IF j = o + Len(t) + 2 THEN {Len(s) + 1}
    ELSE IF j > o THEN {i \in 1 .. Len(s) + 1 : HasFrom(s, t, i, j - o)}
    ELSE {i \in 1 .. Len(s) + 1 : \E k \in i .. Len(s) + 1 : HasFrom(s, t, k, 1)}

\* One character of the text that is sought.
LEMMA HasOneMore ==
    ASSUME NEW s, NEW t, Len(s) \in Nat, Len(t) \in Nat, NEW i \in Nat, NEW d \in 1 .. Len(t)
    PROVE  HasFrom(s, t, i, d) <=> i <= Len(s) /\ s[i] = t[d] /\ HasFrom(s, t, i + 1, d + 1)
<1> PICK n, m : n = Len(t) /\ m = Len(s)
  OBVIOUS
<1>1. ASSUME HasFrom(s, t, i, d)
      PROVE  i <= Len(s) /\ s[i] = t[d] /\ HasFrom(s, t, i + 1, d + 1)
  <2>1. i + n + 1 - d <= m + 1 /\ \A e \in d .. n : s[i + e - d] = t[e]
    BY <1>1 DEF HasFrom
  <2>2. i <= m /\ i + 1 + n + 1 - (d + 1) <= m + 1
    BY <2>1
  <2>3. s[i] = t[d]
    <3>1. d \in d .. n /\ i + d - d = i
      OBVIOUS
    <3>2. s[i + d - d] = t[d]
      BY <2>1, <3>1
    <3> QED  BY <3>1, <3>2
  <2>4. ASSUME NEW e \in d + 1 .. n PROVE s[i + 1 + e - (d + 1)] = t[e]
    <3>1. e \in d .. n /\ i + 1 + e - (d + 1) = i + e - d
      OBVIOUS
    <3> QED  BY <2>1, <3>1
  <2> QED  BY <2>2, <2>3, <2>4 DEF HasFrom
<1>2. ASSUME i <= Len(s), s[i] = t[d], HasFrom(s, t, i + 1, d + 1)
      PROVE  HasFrom(s, t, i, d)
  <2>1. i + 1 + n + 1 - (d + 1) <= m + 1 /\ \A e \in d + 1 .. n : s[i + 1 + e - (d + 1)] = t[e]
    BY <1>2 DEF HasFrom
  <2>2. i + n + 1 - d <= m + 1
    BY <2>1
  <2>3. ASSUME NEW e \in d .. n PROVE s[i + e - d] = t[e]
    <3>1. CASE e = d
      <4>1. i + e - d = i
        BY <3>1
      <4> QED  BY <1>2, <3>1, <4>1
    <3>2. CASE e # d
      <4>1. e \in d + 1 .. n /\ i + 1 + e - (d + 1) = i + e - d
        BY <3>2
      <4> QED  BY <2>1, <4>1
    <3> QED  BY <3>1, <3>2
  <2> QED  BY <2>2, <2>3 DEF HasFrom
<1> QED  BY <1>1, <1>2

\* Inside of the text that is sought.
LEMMA PlacesInText ==
    ASSUME NEW s, NEW t, NEW o, NEW h, h # o + Len(t) + 2, h > o, NEW d, d = h - o
    PROVE  PlacesOf(s, t, o, h) = {i \in 1 .. Len(s) + 1 : HasFrom(s, t, i, d)}
BY Zenon DEF PlacesOf

\* The places from which the rest of such a pattern matches.
LEMMA PlacesOfPattern ==
    ASSUME NEW s, Len(s) \in Nat, NEW t, NEW o, NEW pattern, IsPattern(pattern, t, o),
           NEW g, g = [j \in 1 .. Len(pattern) + 1 |-> PlacesOf(s, t, o, j)]
    PROVE  IsMatching(g, s, pattern)
<1> PICK n, m, l : n = Len(t) /\ m = Len(s) /\ l = Len(pattern)
  OBVIOUS
<1>1. o \in {0, 1} /\ n \in Nat /\ l = o + n + 1 /\ m \in Nat
  BY DEF IsPattern
<1>2. ASSUME NEW j \in 1 .. l + 1
      PROVE  PlacesOf(s, t, o, j) = Places(g, s, pattern, j)
  <2>1. CASE j = l + 1
    <3>1. j = o + n + 2
      BY <1>1, <2>1
    <3>2. PlacesOf(s, t, o, j) = {m + 1}
      BY <3>1 DEF PlacesOf
    <3>3. Places(g, s, pattern, j) = {m + 1}
      BY <2>1 DEF Places
    <3> QED  BY <3>2, <3>3
  <2>2. CASE j = l
    <3>1. j # l + 1 /\ j > o /\ j # o + n + 2 /\ j - o = n + 1 /\ j + 1 \in 1 .. l + 1
          /\ j + 1 = o + n + 2
      BY <1>1, <2>2
    <3>2. pattern[j] = "%" /\ g[j + 1] = {m + 1}
      <4>1. pattern[j] = "%"
        BY <1>1, <2>2 DEF IsPattern
      <4>2. PlacesOf(s, t, o, j + 1) = {m + 1}
        BY <3>1 DEF PlacesOf
      <4> QED  BY <3>1, <4>1, <4>2
    <3>3. Places(g, s, pattern, j) = {i \in 1 .. m + 1 : \E k \in g[j + 1] : i <= k}
      BY <3>1, <3>2 DEF Places
    <3>4. PlacesOf(s, t, o, j) = {i \in 1 .. m + 1 : HasFrom(s, t, i, n + 1)}
      BY <3>1 DEF PlacesOf
    <3>5. ASSUME NEW i \in 1 .. m + 1
          PROVE  HasFrom(s, t, i, n + 1) /\ \E k \in g[j + 1] : i <= k
      <4>1. HasFrom(s, t, i, n + 1)
        BY <1>1 DEF HasFrom
      <4>2. m + 1 \in g[j + 1] /\ i <= m + 1
        BY <3>2
      <4> QED  BY <4>1, <4>2
    <3> QED  BY <3>3, <3>4, <3>5
  <2>3. CASE j \in o + 1 .. o + n
    <3>1. PICK d : d = j - o
      OBVIOUS
    <3>2. d \in 1 .. n /\ j = o + d /\ j # l + 1 /\ j > o /\ j # o + n + 2 /\ j + 1 \in 1 .. l + 1
          /\ j + 1 > o /\ j + 1 # o + n + 2 /\ j + 1 - o = d + 1
      BY <1>1, <2>3, <3>1
    <3>3. pattern[j] = t[d] /\ t[d] # "%"
      BY <3>2 DEF IsPattern
    <3>4. g[j + 1] = {i \in 1 .. m + 1 : HasFrom(s, t, i, d + 1)}
      <4>1. g[j + 1] = PlacesOf(s, t, o, j + 1)
        BY <3>2
      <4> PICK h : h = j + 1
        OBVIOUS
      <4>2. h # o + Len(t) + 2 /\ h > o /\ d + 1 = h - o
        BY <1>1, <3>2
      <4>3. PlacesOf(s, t, o, h) = {i \in 1 .. Len(s) + 1 : HasFrom(s, t, i, d + 1)}
        BY <4>2, PlacesInText, Zenon
      <4> QED  BY <4>1, <4>3, Zenon
    <3>5. Places(g, s, pattern, j) = {i \in 1 .. m : s[i] = t[d] /\ i + 1 \in g[j + 1]}
      BY <3>2, <3>3 DEF Places
    <3>6. PlacesOf(s, t, o, j) = {i \in 1 .. m + 1 : HasFrom(s, t, i, d)}
      BY <3>1, <3>2 DEF PlacesOf
    <3>7. ASSUME NEW i \in Nat \ {0}
          PROVE  i \in 1 .. m + 1 /\ HasFrom(s, t, i, d)
                    <=> i \in 1 .. m /\ s[i] = t[d] /\ i + 1 \in g[j + 1]
      <4>1. HasFrom(s, t, i, d) <=> i <= m /\ s[i] = t[d] /\ HasFrom(s, t, i + 1, d + 1)
        BY <1>1, <3>2, HasOneMore
      <4>2. i <= m => (i + 1 \in g[j + 1] <=> HasFrom(s, t, i + 1, d + 1))
        <5>1. SUFFICES ASSUME i <= m PROVE i + 1 \in g[j + 1] <=> HasFrom(s, t, i + 1, d + 1)
          OBVIOUS
        <5>2. PICK h : h = i + 1
          OBVIOUS
        <5>3. h \in 1 .. m + 1
          BY <1>1, <5>1, <5>2
        <5>4. h \in g[j + 1] <=> HasFrom(s, t, h, d + 1)
          BY <3>4, <5>3, Zenon
        <5> QED  BY <5>2, <5>4, Zenon
      <4> QED  BY <1>1, <4>1, <4>2
    <3>8. \A i \in 1 .. m + 1 : i \in Nat \ {0}
      BY <1>1
    <3> QED  BY <3>5, <3>6, <3>7, <3>8
  <2>4. CASE o = 1 /\ j = 1
    <3>1. j # l + 1 /\ ~(j > o) /\ j # o + n + 2 /\ j + 1 \in 1 .. l + 1 /\ j + 1 > o
          /\ j + 1 # o + n + 2 /\ j + 1 - o = 1
      BY <1>1, <2>4
    <3>2. pattern[j] = "%"
      BY <2>4 DEF IsPattern
    <3>3. g[j + 1] = {k \in 1 .. m + 1 : HasFrom(s, t, k, 1)}
      <4>1. g[j + 1] = PlacesOf(s, t, o, j + 1)
        BY <3>1
      <4> PICK h : h = j + 1
        OBVIOUS
      <4>2. h # o + Len(t) + 2 /\ h > o /\ 1 = h - o
        BY <1>1, <2>4, <3>1
      <4>3. PlacesOf(s, t, o, h) = {k \in 1 .. Len(s) + 1 : HasFrom(s, t, k, 1)}
        BY <4>2, PlacesInText, Zenon
      <4> QED  BY <4>1, <4>3, Zenon
    <3>4. Places(g, s, pattern, j) = {i \in 1 .. m + 1 : \E k \in g[j + 1] : i <= k}
      BY <3>1, <3>2 DEF Places
    <3>5. PlacesOf(s, t, o, j) = {i \in 1 .. m + 1 : \E k \in i .. m + 1 : HasFrom(s, t, k, 1)}
      BY <3>1 DEF PlacesOf
    <3>6. ASSUME NEW i \in 1 .. m + 1
          PROVE  (\E k \in g[j + 1] : i <= k) <=> (\E k \in i .. m + 1 : HasFrom(s, t, k, 1))
      <4>1. ASSUME NEW k \in g[j + 1], i <= k PROVE \E h \in i .. m + 1 : HasFrom(s, t, h, 1)
        <5>1. k \in i .. m + 1 /\ HasFrom(s, t, k, 1)
          BY <1>1, <3>3, <4>1
        <5> QED  BY <5>1
      <4>2. ASSUME NEW k \in i .. m + 1, HasFrom(s, t, k, 1) PROVE \E h \in g[j + 1] : i <= h
        <5>2. k \in 1 .. m + 1 /\ i <= k
          BY <1>1
        <5>1. k \in g[j + 1] /\ i <= k
          BY <3>3, <4>2, <5>2, Zenon
        <5> QED  BY <5>1
      <4> QED  BY <4>1, <4>2
    <3> QED  BY <3>4, <3>5, <3>6
  <2>5. j = l + 1 \/ j = l \/ j \in o + 1 .. o + n \/ (o = 1 /\ j = 1)
    BY <1>1
  <2> QED  BY <2>1, <2>2, <2>3, <2>4, <2>5
<1>3. g = [j \in 1 .. l + 1 |-> Places(g, s, pattern, j)]
  BY <1>2, Zenon
<1> QED  BY <1>3 DEF IsMatching

\* LIKE with such a pattern asks whether the text has the other at its start, or anywhere.
LEMMA LikeAsksForText ==
    ASSUME NEW s, Len(s) \in Nat, NEW t, NEW o, NEW pattern, IsPattern(pattern, t, o)
    PROVE  /\ o = 0 => (Like(s, pattern) <=> HasFrom(s, t, 1, 1))
           /\ o = 1 => (Like(s, pattern) <=> \E k \in 1 .. Len(s) + 1 : HasFrom(s, t, k, 1))
<1> PICK g : g = [j \in 1 .. Len(pattern) + 1 |-> PlacesOf(s, t, o, j)]
  OBVIOUS
<1>0. o \in {0, 1} /\ Len(t) \in Nat /\ Len(pattern) = o + Len(t) + 1
  BY DEF IsPattern
<1>1. IsMatching(g, s, pattern)
  BY PlacesOfPattern
<1>2. PICK from : IsMatching(from, s, pattern) /\ (Like(s, pattern) <=> 1 \in from[1])
  BY <1>1, LikeIsMatching
<1>3. from = g
  BY <1>0, <1>1, <1>2, OneMatching
<1>4. Like(s, pattern) <=> 1 \in PlacesOf(s, t, o, 1)
  <2>1. 1 \in 1 .. Len(pattern) + 1
    BY <1>0
  <2> QED  BY <1>2, <1>3, <2>1
<1>5. CASE o = 0
  <2>1. PlacesOf(s, t, o, 1) = {i \in 1 .. Len(s) + 1 : HasFrom(s, t, i, 1)}
    BY <1>0, <1>5 DEF PlacesOf
  <2> QED  BY <1>4, <1>5, <2>1
<1>6. CASE o = 1
  <2>1. PlacesOf(s, t, o, 1) = {i \in 1 .. Len(s) + 1 : \E k \in i .. Len(s) + 1 : HasFrom(s, t, k, 1)}
    BY <1>0, <1>6 DEF PlacesOf
  <2> QED  BY <1>4, <1>6, <2>1
<1> QED  BY <1>0, <1>5, <1>6

\* A text has another from a place on when that is the part from there of its length.
LEMMA HasFromIsPart ==
    ASSUME NEW C, NEW s \in Seq(C), NEW t \in Seq(C), NEW k \in Nat
    PROVE  HasFrom(s, t, k + 1, 1)
              <=> k <= Len(s) - Len(t) /\ SubSeq(s, k + 1, k + Len(t)) = t
<1> PICK n, m : n = Len(t) /\ m = Len(s)
  OBVIOUS
<1>1. n \in Nat /\ m \in Nat /\ DOMAIN s = 1 .. m /\ DOMAIN t = 1 .. n
  OBVIOUS
<1>2. CASE k <= m - n
  <2>1. PICK part : part = SubSeq(s, k + 1, k + n)
    OBVIOUS
  <2>2. part \in Seq(C) /\ Len(part) = n /\ \A e \in 1 .. n : part[e] = s[k + e]
    <3>1. k + 1 \in 1 .. m + 1 /\ k + n \in k .. m
      BY <1>1, <1>2
    <3>2. SubSeq(s, k + 1, k + n) \in Seq(C)
      BY <1>1, <1>2
    <3>3. Len(part) = n
      BY <1>1, <1>2, <2>1
    <3>4. ASSUME NEW e \in 1 .. n PROVE part[e] = s[k + e]
      BY <1>1, <1>2, <2>1
    <3> QED  BY <2>1, <3>2, <3>3, <3>4
  <2>3. part = t <=> \A e \in 1 .. n : part[e] = t[e]
    <3>1. part = t => \A e \in 1 .. n : part[e] = t[e]
      OBVIOUS
    <3>2. ASSUME \A e \in 1 .. n : part[e] = t[e] PROVE part = t
      BY <2>2, <3>2
    <3> QED  BY <3>1, <3>2
  <2>4. \A e \in 1 .. n : k + 1 + e - 1 = k + e
    BY <1>1
  <2>5. k + 1 + n + 1 - 1 <= m + 1
    BY <1>1, <1>2
  <2>6. HasFrom(s, t, k + 1, 1) <=> \A e \in 1 .. n : s[k + 1 + e - 1] = t[e]
    BY <2>5 DEF HasFrom
  <2>7. HasFrom(s, t, k + 1, 1) <=> \A e \in 1 .. n : s[k + e] = t[e]
    BY <2>4, <2>6
  <2> QED  BY <1>2, <2>1, <2>2, <2>3, <2>7
<1>3. CASE ~(k <= m - n)
  <2>1. ~(k + 1 + n + 1 - 1 <= m + 1)
    BY <1>1, <1>3
  <2> QED  BY <1>3, <2>1 DEF HasFrom
<1> QED  BY <1>2, <1>3

\* LIKE with such a pattern says whether a text starts with another, or contains it.
LEMMA LikeSays ==
    ASSUME NEW C, NEW s \in Seq(C), NEW t \in Seq(C), NEW o, NEW pattern, IsPattern(pattern, t, o)
    PROVE  /\ o = 0 => (Like(s, pattern) <=> Prefix(s, t))
           /\ o = 1 => (Like(s, pattern) <=> Infix(s, t))
<1>1. Len(s) \in Nat /\ Len(t) \in Nat
  OBVIOUS
<1>2. /\ o = 0 => (Like(s, pattern) <=> HasFrom(s, t, 1, 1))
      /\ o = 1 => (Like(s, pattern) <=> \E k \in 1 .. Len(s) + 1 : HasFrom(s, t, k, 1))
  BY <1>1, LikeAsksForText
<1>3. HasFrom(s, t, 1, 1) <=> Prefix(s, t)
  <2>1. HasFrom(s, t, 0 + 1, 1) <=> 0 <= Len(s) - Len(t) /\ SubSeq(s, 0 + 1, 0 + Len(t)) = t
    BY HasFromIsPart
  <2>2. 0 + 1 = 1 /\ 0 + Len(t) = Len(t) /\ (0 <= Len(s) - Len(t) <=> Len(t) <= Len(s))
    BY <1>1
  <2> QED  BY <2>1, <2>2 DEF Prefix
<1>4. (\E k \in 1 .. Len(s) + 1 : HasFrom(s, t, k, 1)) <=> Infix(s, t)
  <2>1. ASSUME NEW k \in 1 .. Len(s) + 1, HasFrom(s, t, k, 1) PROVE Infix(s, t)
    <3>1. PICK h \in Nat : k = h + 1
      <4>1. k - 1 \in Nat /\ k = (k - 1) + 1
        BY <1>1
      <4> QED  BY <4>1
    <3>2. h <= Len(s) - Len(t) /\ SubSeq(s, h + 1, h + Len(t)) = t
      BY <2>1, <3>1, HasFromIsPart
    <3>3. h \in 0 .. Len(s) - Len(t)
      BY <1>1, <3>2
    <3> QED  BY <3>2, <3>3 DEF Infix
  <2>2. ASSUME Infix(s, t) PROVE \E k \in 1 .. Len(s) + 1 : HasFrom(s, t, k, 1)
    <3>1. PICK h \in 0 .. Len(s) - Len(t) : SubSeq(s, h + 1, h + Len(t)) = t
      BY <2>2 DEF Infix
    <3>2. h \in Nat /\ h <= Len(s) - Len(t) /\ h + 1 \in 1 .. Len(s) + 1
      BY <1>1
    <3>3. HasFrom(s, t, h + 1, 1)
      BY <3>1, <3>2, HasFromIsPart
    <3> QED  BY <3>2, <3>3
  <2> QED  BY <2>1, <2>2
<1> QED  BY <1>2, <1>3, <1>4

\* The patterns of the four functions on texts.
LEMMA PatternsAreMade ==
    ASSUME NEW C, "%" \in C, NEW t \in Seq(C \ {"%"})
    PROVE  /\ IsPattern(t \o <<"%">>, t, 0) /\ IsPattern(<<"%">> \o t \o <<"%">>, t, 1)
           /\ t \o <<"%">> \in Seq(C) /\ <<"%">> \o t \o <<"%">> \in Seq(C)
<1>1. <<"%">> \in Seq(C) /\ t \in Seq(C) /\ Len(<<"%">>) = 1 /\ <<"%">>[1] = "%" /\ Len(t) \in Nat
  OBVIOUS
<1>2. PICK p : p = t \o <<"%">>
  OBVIOUS
<1>3. p \in Seq(C) /\ Len(p) = Len(t) + 1 /\ p[Len(t) + 1] = "%" /\ \A d \in 1 .. Len(t) : p[d] = t[d]
  BY <1>1, <1>2
<1>4. PICK q : q = <<"%">> \o p
  OBVIOUS
<1>5. q \in Seq(C) /\ Len(q) = Len(p) + 1 /\ q[1] = "%" /\ \A d \in 1 .. Len(p) : q[d + 1] = p[d]
  BY <1>1, <1>3, <1>4
<1>6. q = <<"%">> \o t \o <<"%">>
  BY <1>1, <1>2, <1>4
<1>7. \A d \in 1 .. Len(t) : t[d] # "%"
  OBVIOUS
<1>8. IsPattern(p, t, 0)
  BY <1>1, <1>3, <1>7 DEF IsPattern
<1>9. IsPattern(q, t, 1)
  <2>1. Len(q) = 1 + Len(t) + 1 /\ q[1 + Len(t) + 1] = "%"
    <3>1. Len(t) + 1 \in 1 .. Len(p) /\ (Len(t) + 1) + 1 = 1 + Len(t) + 1
      BY <1>1, <1>3
    <3> QED  BY <1>1, <1>3, <1>5, <3>1
  <2>2. ASSUME NEW d \in 1 .. Len(t) PROVE q[1 + d] = t[d]
    <3>1. d \in 1 .. Len(p) /\ 1 + d = d + 1
      BY <1>1, <1>3
    <3> QED  BY <1>3, <1>5, <3>1
  <2> QED  BY <1>1, <1>5, <1>7, <2>1, <2>2 DEF IsPattern
<1> QED  BY <1>2, <1>3, <1>5, <1>6, <1>8, <1>9

-----------------------------------------------------------------------------
(***************************************************************************)
(* What each function makes of its values.                                 *)
(***************************************************************************)

\* The ids of the tables of functions.
LEMMA IdsOfTables ==
    /\ DOMAIN LogicalFunctions = {"null", "not", "and", "or"}
    /\ DOMAIN ComparisonFunctions = {"equal", "greater", "lesser"}
    /\ DOMAIN LengthFunctions = {"array_length", "json_array_length"}
    /\ DOMAIN ExtractFunctions = {"uri_authority", "uri_scheme", "email_domain_name"}
<1>1. ASSUME NEW S, NEW T PROVE DOMAIN (S ++ T) = DOMAIN S \cup DOMAIN T
  BY DEF ++
<1>2. ASSUME NEW f, NEW d PROVE DOMAIN Single(f, d) = {f}
  BY DEF Single
<1>3. DOMAIN LogicalFunctions = {"null"} \cup {"not", "and", "or"}
  <2>1. PICK S : S = Single("null", Filter(<<{"any"}>>))
    OBVIOUS
  <2>2. PICK T : T = [f \in {"not", "and", "or"} |-> Fn({"boolean"}, <<>>, FALSE, {})]
    OBVIOUS
  <2>3. LogicalFunctions = S ++ T
    BY <2>1, <2>2 DEF LogicalFunctions
  <2>4. DOMAIN S = {"null"}
    BY <1>2, <2>1
  <2>5. DOMAIN T = {"not", "and", "or"}
    BY <2>2
  <2>6. DOMAIN (S ++ T) = DOMAIN S \cup DOMAIN T
    BY <1>1
  <2> QED  BY <2>3, <2>4, <2>5, <2>6
<1>4. DOMAIN ComparisonFunctions = {"equal"} \cup {"greater", "lesser"}
  <2>1. PICK S : S = Single("equal", Filter(<<{"any"}, {"any"}>>))
    OBVIOUS
  <2>2. PICK T : T = [f \in {"greater", "lesser"} |-> Filter(<<{"comparable"}, {"comparable"}>>)]
    OBVIOUS
  <2>3. ComparisonFunctions = S ++ T
    BY <2>1, <2>2 DEF ComparisonFunctions
  <2>4. DOMAIN S = {"equal"}
    BY <1>2, <2>1
  <2>5. DOMAIN T = {"greater", "lesser"}
    BY <2>2
  <2>6. DOMAIN (S ++ T) = DOMAIN S \cup DOMAIN T
    BY <1>1
  <2> QED  BY <2>3, <2>4, <2>5, <2>6
<1>5. DOMAIN LengthFunctions = {"array_length"} \cup {"json_array_length"}
  <2>1. PICK S : S = Single("array_length", Fn({"comparable"}, <<{"array"}, {"any"}>>, TRUE, {}))
    OBVIOUS
  <2>2. PICK T : T = Single("json_array_length", Fn({"comparable"}, <<{"jsonlist"}>>, TRUE, {}))
    OBVIOUS
  <2>3. LengthFunctions = S ++ T
    BY <2>1, <2>2 DEF LengthFunctions
  <2>4. DOMAIN S = {"array_length"}
    BY <1>2, <2>1
  <2>5. DOMAIN T = {"json_array_length"}
    BY <1>2, <2>2
  <2>6. DOMAIN (S ++ T) = DOMAIN S \cup DOMAIN T
    BY <1>1
  <2> QED  BY <2>3, <2>4, <2>5, <2>6
<1> QED  BY <1>3, <1>4, <1>5, ExtractIds

\* What a base function is applied as.
LEMMA Applications ==
    ASSUME NEW f, NEW a
    PROVE  /\ f \in {"null", "not", "and", "or"} => Apply(f, a) = Logical(f, a)
           /\ f \in {"equal", "greater", "lesser"} => Apply(f, a) = Comparison(f, a[1], a[2])
           /\ f \in {"array_length", "json_array_length"} => Apply(f, a) = LengthOf(f, a[1])
           /\ f \in {"uri_authority", "uri_scheme", "email_domain_name"} =>
                 Apply(f, a) = Extract(f, a[1])
           /\ f \in {"starts_with", "contains", "starts_with_case_insensitive",
                     "contains_case_insensitive"} => Apply(f, a) = TextMatch(f, a[1], a[2])
<1> DEFINE L == {"null", "not", "and", "or"}
           C == {"equal", "greater", "lesser"}
           N == {"array_length", "json_array_length"}
           X == {"uri_authority", "uri_scheme", "email_domain_name"}
           T == {"starts_with", "contains", "starts_with_case_insensitive",
                 "contains_case_insensitive"}
<1>1. /\ DOMAIN LogicalFunctions = L /\ DOMAIN ComparisonFunctions = C
      /\ DOMAIN LengthFunctions = N /\ DOMAIN ExtractFunctions = X
  BY IdsOfTables
<1>2. /\ f \in L => f \notin C \cup N \cup X
      /\ f \in C => f \notin L \cup N \cup X
      /\ f \in N => f \notin L \cup C \cup X
      /\ f \in X => f \notin L \cup C \cup N
      /\ f \in T => f \notin L \cup C \cup N \cup X
  OBVIOUS
<1>3. CASE f \in L
  BY <1>1, <1>2, <1>3 DEF Apply
<1>4. CASE f \in C
  BY <1>1, <1>2, <1>4 DEF Apply
<1>5. CASE f \in N
  BY <1>1, <1>2, <1>5 DEF Apply
<1>6. CASE f \in X
  BY <1>1, <1>2, <1>6 DEF Apply
<1>7. CASE f \in T
  BY <1>1, <1>2, <1>7 DEF Apply
<1> QED  BY <1>2, <1>3, <1>4, <1>5, <1>6, <1>7

\* What the values of a call make of it: its value or, of a packed one, that of what it is
\* made of.
LEMMA CallsOfKnown ==
    ASSUME NEW f \in DOMAIN KnownDbFunctions, NEW a
    PROVE  /\ f \in BaseIds => CallValue(f, a) = Apply(f, a)
           /\ f \in PackedIds => CallValue(f, a) = Unpack(f, a)
<1>1. Declares(Base, BaseIds) /\ Declares(Packed, PackedIds)
  BY BaseDeclared, PackedDeclared
<1>2. BaseIds \cap PackedIds = {}
  BY DEF BaseIds, PackedIds
<1>3. f \in DOMAIN Base \/ f \in DOMAIN Packed
  BY DEF KnownDbFunctions, ++
<1>4. /\ f \in BaseIds => f \notin DOMAIN Packed
      /\ f \in PackedIds => f \in DOMAIN Packed
  BY <1>1, <1>2, <1>3 DEF Declares
<1> QED  BY <1>4 DEF CallValue

\* A value of a test: whether there is one, and whether it holds.
Says(value, has, holds) == /\ has /\ holds => value = <<TRUE>>
                           /\ has /\ ~holds => value = <<FALSE>>
                           /\ ~has => value = <<>>

\* A function of two values says what its test says, where there are both.
LEMMA LiftSays ==
    ASSUME NEW a, NEW b, NEW value \in BOOLEAN
    PROVE  Says(Lift(a, b, value), a # <<>> /\ b # <<>>, value)
<1>1. CASE a = <<>> \/ b = <<>>
  BY <1>1 DEF Lift, Says
<1>2. CASE ~(a = <<>> \/ b = <<>>)
  <2>1. Lift(a, b, value) = <<value>>
    BY <1>2 DEF Lift
  <2>2. value = TRUE \/ value = FALSE
    OBVIOUS
  <2> QED  BY <1>2, <2>1, <2>2 DEF Says
<1> QED  BY <1>1, <1>2

\* The value of a sequence of one.
LEMMA HeadOfOne == ASSUME NEW v PROVE Head(<<v>>) = v /\ <<v>> # <<>>
OBVIOUS

\* The truth values of SQL are three.
Truths == {<<>>, <<TRUE>>, <<FALSE>>}

\* They are different, and negated and joined as SQL does.
LEMMA ThreeTruths ==
    /\ <<TRUE>> # <<FALSE>> /\ <<TRUE>> # <<>> /\ <<FALSE>> # <<>>
    /\ Negation(<<TRUE>>) = <<FALSE>> /\ Negation(<<FALSE>>) = <<TRUE>> /\ Negation(<<>>) = <<>>
<1>1. <<TRUE>>[1] = TRUE /\ <<FALSE>>[1] = FALSE
  OBVIOUS
<1>2. <<TRUE>> # <<FALSE>> /\ <<TRUE>> # <<>> /\ <<FALSE>> # <<>>
  BY <1>1
<1>3. Head(<<TRUE>>) = TRUE /\ Head(<<FALSE>>) = FALSE
  BY HeadOfOne, Zenon
<1>4. Negation(<<TRUE>>) = <<~TRUE>> /\ Negation(<<FALSE>>) = <<~FALSE>>
  BY <1>2, <1>3 DEF Negation
<1>5. ~TRUE = FALSE /\ ~FALSE = TRUE
  OBVIOUS
<1>6. Negation(<<>>) = <<>>
  BY DEF Negation
<1> QED  BY <1>2, <1>4, <1>5, <1>6

\* One truth value joined, and two.
LEMMA OneTruth ==
    ASSUME NEW a, a \in Truths
    PROVE  Conjunction(<<a>>) = a
<1>2. PICK args : args = <<a>>
  OBVIOUS
<1>3. DOMAIN args = {1} /\ args[1] = a
  <2>1. Len(args) = 1 /\ args[1] = a /\ DOMAIN args = 1 .. 1
    BY <1>2
  <2> QED  BY <2>1
<1>4. Conjunction(args) = a
  BY <1>3, ThreeTruths DEF Conjunction, Truths
<1> QED  BY <1>2, <1>4

\* Two truth values joined.
LEMMA TwoTruths ==
    ASSUME NEW a \in Truths, NEW b \in Truths
    PROVE  Conjunction(<<a, b>>) = IF a = <<FALSE>> \/ b = <<FALSE>> THEN <<FALSE>>
                                   ELSE IF a = <<>> \/ b = <<>> THEN <<>> ELSE <<TRUE>>
<1>2. PICK args : args = <<a, b>>
  OBVIOUS
<1>3. DOMAIN args = {1, 2} /\ args[1] = a /\ args[2] = b
  BY <1>2
<1>4. Conjunction(args) = IF a = <<FALSE>> \/ b = <<FALSE>> THEN <<FALSE>>
                          ELSE IF a = <<>> \/ b = <<>> THEN <<>> ELSE <<TRUE>>
  BY <1>3 DEF Conjunction
<1> QED  BY <1>2, <1>4

\* The ids of the tests of lengths.
LEMMA LengthTestIds ==
    /\ DOMAIN ArrayLengthTests =
         {"array_length_equals", "array_length_greater_than", "array_length_lesser_than",
          "array_length_greater_than_or_equal", "array_length_lesser_than_or_equal"}
    /\ DOMAIN JsonLengthTests =
         {"json_array_length_equals", "json_array_length_greater_than",
          "json_array_length_less_than", "json_array_length_greater_or_equal",
          "json_array_length_less_or_equal"}
BY DEF ArrayLengthTests, JsonLengthTests

\* NULL and NOT NULL.
LEMMA NullSays ==
    ASSUME NEW a, NEW v, a[1] = v, NEW t, Root(t).id \in {"null", "not_null"},
           Root(t).id \in DOMAIN KnownDbFunctions
    PROVE  Says(CallValue(Root(t).id, a), HasValue(t, v), Holds(t, v))
<1>1. HasValue(t, v)
  BY DEF HasValue
<1>2. CASE Root(t).id = "null"
  <2>1. CallValue("null", a) = <<v = <<>>>>
    <3>1. CallValue("null", a) = Apply("null", a)
      BY <1>2, CallsOfKnown DEF BaseIds
    <3>2. Logical("null", a) = <<a[1] = <<>>>>
      BY DEF Logical
    <3> QED  BY <3>1, <3>2, Applications
  <2>2. Holds(t, v) <=> v = <<>>
    BY <1>2, LengthTestIds DEF Holds
  <2> QED  BY <1>1, <1>2, <2>1, <2>2 DEF Says
<1>3. CASE Root(t).id = "not_null"
  <2>1. CallValue("not_null", a) = Apply("not", <<Apply("null", a)>>)
    <3>1. CallValue("not_null", a) = Unpack("not_null", a)
      BY <1>3, CallsOfKnown DEF PackedIds
    <3> QED  BY <3>1 DEF Unpack, ArrayLengthTests, JsonLengthTests, ExtractTests
  <2>2. Apply("null", a) = <<v = <<>>>>
    <3>2. Logical("null", a) = <<a[1] = <<>>>>
      BY DEF Logical
    <3> QED  BY <3>2, Applications
  <2>3. Apply("not", <<Apply("null", a)>>) = Negation(Conjunction(<<Apply("null", a)>>))
    BY Applications DEF Logical
  <2>4. Holds(t, v) <=> v # <<>>
    BY <1>3, LengthTestIds DEF Holds
  <2>5. CASE v = <<>>
    <3>1. Apply("null", a) = <<TRUE>>
      BY <2>2, <2>5
    <3>2. Conjunction(<<<<TRUE>>>>) = <<TRUE>> /\ Negation(<<TRUE>>) = <<FALSE>>
      BY OneTruth, ThreeTruths DEF Truths
    <3> QED  BY <1>1, <1>3, <2>1, <2>3, <2>4, <2>5, <3>1, <3>2 DEF Says
  <2>6. CASE v # <<>>
    <3>1. Apply("null", a) = <<FALSE>>
      BY <2>2, <2>6
    <3>2. Conjunction(<<<<FALSE>>>>) = <<FALSE>> /\ Negation(<<FALSE>>) = <<TRUE>>
      BY OneTruth, ThreeTruths DEF Truths
    <3> QED  BY <1>1, <1>3, <2>1, <2>3, <2>4, <2>6, <3>1, <3>2 DEF Says
  <2> QED  BY <2>5, <2>6
<1> QED  BY <1>2, <1>3

\* A value that says something is a truth value.
LEMMA SaysIsTruth ==
    ASSUME NEW value, NEW has, NEW holds, Says(value, has, holds)
    PROVE  /\ value \in Truths /\ (value = <<TRUE>> <=> has /\ holds)
           /\ (value = <<FALSE>> <=> has /\ ~holds)
BY ThreeTruths DEF Says, Truths

\* The connectives of one and of two truth values.
LEMMA ConnectivesSay ==
    ASSUME NEW a \in Truths, NEW b \in Truths
    PROVE  /\ Apply("not", <<a>>) = Negation(a)
           /\ Apply("and", <<a, b>>) = <<TRUE>> <=> a = <<TRUE>> /\ b = <<TRUE>>
           /\ Apply("or", <<a, b>>) = <<TRUE>> <=> a = <<TRUE>> \/ b = <<TRUE>>
           /\ Apply("or", <<a, b>>) = <<FALSE>> <=> a = <<FALSE>> /\ b = <<FALSE>>
           /\ Apply("or", <<a, b>>) \in Truths
<1>1. Apply("not", <<a>>) = Negation(a)
  <2>1. Conjunction(<<a>>) = a
    BY OneTruth
  <2>2. Apply("not", <<a>>) = Negation(Conjunction(<<a>>))
    BY Applications DEF Logical
  <2> QED  BY <2>1, <2>2
<1>2. Apply("and", <<a, b>>) = Conjunction(<<a, b>>)
  BY Applications DEF Logical
<1>3. PICK args : args = <<a, b>>
  OBVIOUS
<1>4. PICK neg : neg = [i \in DOMAIN args |-> Negation(args[i])]
  OBVIOUS
<1>5. Apply("or", args) = Negation(Conjunction(neg))
  BY <1>4, Applications DEF Logical
<1>6. neg = <<Negation(a), Negation(b)>>
  BY <1>3, <1>4
<1>7. Negation(a) \in Truths /\ Negation(b) \in Truths
  BY ThreeTruths DEF Truths
<1>8. Conjunction(neg) =
        IF Negation(a) = <<FALSE>> \/ Negation(b) = <<FALSE>> THEN <<FALSE>>
        ELSE IF Negation(a) = <<>> \/ Negation(b) = <<>> THEN <<>> ELSE <<TRUE>>
  BY <1>6, <1>7, TwoTruths
<1>9. /\ Negation(Conjunction(neg)) = <<TRUE>> <=> a = <<TRUE>> \/ b = <<TRUE>>
      /\ Negation(Conjunction(neg)) = <<FALSE>> <=> a = <<FALSE>> /\ b = <<FALSE>>
      /\ Negation(Conjunction(neg)) \in Truths
  BY <1>8, ThreeTruths DEF Truths
<1>10. Apply("and", <<a, b>>) = <<TRUE>> <=> a = <<TRUE>> /\ b = <<TRUE>>
  BY <1>2, TwoTruths, ThreeTruths DEF Truths
<1> QED  BY <1>1, <1>3, <1>5, <1>9, <1>10

\* OR of a comparison and equality: holds when one of both does.
LEMMA OrEqualSays ==
    ASSUME NEW f, NEW a, Apply(f, a) \in Truths, Apply("equal", a) \in Truths
    PROVE  /\ OrEqual(f, a) \in Truths
           /\ OrEqual(f, a) = <<TRUE>> <=> Apply(f, a) = <<TRUE>> \/ Apply("equal", a) = <<TRUE>>
           /\ OrEqual(f, a) = <<FALSE>> <=> Apply(f, a) = <<FALSE>> /\ Apply("equal", a) = <<FALSE>>
BY ConnectivesSay DEF OrEqual

\* The comparison of a value with another says what it should, where there is a value.
Comparators == {"equal", "greater", "lesser", "greater_or_equal", "lesser_or_equal"}

\* A number is compared with another.
LEMMA ComparesNumbers ==
    ASSUME NEW g \in Comparators, NEW a, NEW n \in Nat, NEW m \in Nat,
           a[1] = <<>> \/ a[1] = <<n>>, a[2] = <<m>>
    PROVE  Says(Compare(g, a), a[1] # <<>>, Stands(n, Compares(g), m))
<1> PICK x, y : x = a[1] /\ y = a[2]
  OBVIOUS
<1>1. y # <<>> /\ (x # <<>> => Head(x) = n) /\ Head(y) = m
  BY HeadOfOne
<1>2. Says(Apply("equal", a), x # <<>>, n = m)
  <2>1. Apply("equal", a) = Lift(x, y, x = y)
    BY Applications DEF Comparison
  <2>2. Says(Lift(x, y, x = y), x # <<>> /\ y # <<>>, x = y)
    BY LiftSays
  <2>3. x # <<>> => (x = y <=> n = m)
    BY <1>1
  <2> QED  BY <1>1, <2>1, <2>2, <2>3 DEF Says
<1>3. Says(Apply("greater", a), x # <<>>, n > m)
  <2>1. Apply("greater", a) = Lift(x, y, Head(x) > Head(y))
    BY Applications DEF Comparison
  <2>2. CASE x = <<>>
    BY <2>1, <2>2 DEF Lift, Says
  <2>3. CASE x # <<>>
    <3>1. Lift(x, y, Head(x) > Head(y)) = <<n > m>>
      BY <1>1, <2>3 DEF Lift
    <3>2. CASE n > m
      <4>1. <<n > m>> = <<TRUE>>
        BY <3>2
      <4> QED  BY <2>1, <2>3, <3>1, <3>2, <4>1 DEF Says
    <3>3. CASE ~(n > m)
      <4>2. (n > m) = FALSE
        BY <3>3
      <4>1. <<n > m>> = <<FALSE>>
        BY <4>2, Zenon
      <4> QED  BY <2>1, <2>3, <3>1, <3>3, <4>1 DEF Says
    <3> QED  BY <3>2, <3>3
  <2> QED  BY <2>2, <2>3
<1>4. Says(Apply("lesser", a), x # <<>>, n < m)
  <2>1. Apply("lesser", a) = Lift(x, y, Head(x) < Head(y))
    BY Applications DEF Comparison
  <2>2. CASE x = <<>>
    BY <2>1, <2>2 DEF Lift, Says
  <2>3. CASE x # <<>>
    <3>1. Lift(x, y, Head(x) < Head(y)) = <<n < m>>
      BY <1>1, <2>3 DEF Lift
    <3>2. CASE n < m
      <4>1. <<n < m>> = <<TRUE>>
        BY <3>2
      <4> QED  BY <2>1, <2>3, <3>1, <3>2, <4>1 DEF Says
    <3>3. CASE ~(n < m)
      <4>2. (n < m) = FALSE
        BY <3>3
      <4>1. <<n < m>> = <<FALSE>>
        BY <4>2, Zenon
      <4> QED  BY <2>1, <2>3, <3>1, <3>3, <4>1 DEF Says
    <3> QED  BY <3>2, <3>3
  <2> QED  BY <2>2, <2>3
<1>5. CASE g = "equal"
  <2>1. Compare(g, a) = Apply("equal", a) /\ (Stands(n, Compares(g), m) <=> n = m)
    BY <1>5 DEF Compare, Compares, Stands
  <2> QED  BY <1>2, <2>1 DEF Says
<1>6. CASE g = "greater"
  <2>1. Compare(g, a) = Apply("greater", a) /\ (Stands(n, Compares(g), m) <=> n > m)
    BY <1>6 DEF Compare, Compares, Stands
  <2> QED  BY <1>3, <2>1 DEF Says
<1>7. CASE g = "lesser"
  <2>1. Compare(g, a) = Apply("lesser", a) /\ (Stands(n, Compares(g), m) <=> n < m)
    BY <1>7 DEF Compare, Compares, Stands
  <2> QED  BY <1>4, <2>1 DEF Says
<1>8. CASE g = "greater_or_equal"
  <2>1. Compare(g, a) = OrEqual("greater", a) /\ (Stands(n, Compares(g), m) <=> n > m \/ n = m)
    BY <1>8 DEF Compare, Compares, Stands
  <2>2. Says(OrEqual("greater", a), x # <<>>, n > m \/ n = m)
    <3>1. Apply("greater", a) \in Truths /\ Apply("equal", a) \in Truths
      BY <1>2, <1>3 DEF Says, Truths
    <3>2. /\ OrEqual("greater", a) \in Truths
          /\ OrEqual("greater", a) = <<TRUE>>
                <=> Apply("greater", a) = <<TRUE>> \/ Apply("equal", a) = <<TRUE>>
          /\ OrEqual("greater", a) = <<FALSE>>
                <=> Apply("greater", a) = <<FALSE>> /\ Apply("equal", a) = <<FALSE>>
      BY <3>1, OrEqualSays
    <3> QED  BY <1>2, <1>3, <3>2, ThreeTruths DEF Says, Truths
  <2> QED  BY <2>1, <2>2 DEF Says
<1>9. CASE g = "lesser_or_equal"
  <2>1. Compare(g, a) = OrEqual("lesser", a) /\ (Stands(n, Compares(g), m) <=> n < m \/ n = m)
    BY <1>9 DEF Compare, Compares, Stands
  <2>2. Says(OrEqual("lesser", a), x # <<>>, n < m \/ n = m)
    <3>1. Apply("lesser", a) \in Truths /\ Apply("equal", a) \in Truths
      BY <1>2, <1>4 DEF Says, Truths
    <3>2. /\ OrEqual("lesser", a) \in Truths
          /\ OrEqual("lesser", a) = <<TRUE>>
                <=> Apply("lesser", a) = <<TRUE>> \/ Apply("equal", a) = <<TRUE>>
          /\ OrEqual("lesser", a) = <<FALSE>>
                <=> Apply("lesser", a) = <<FALSE>> /\ Apply("equal", a) = <<FALSE>>
      BY <3>1, OrEqualSays
    <3> QED  BY <1>2, <1>4, <3>2, ThreeTruths DEF Says, Truths
  <2> QED  BY <2>1, <2>2 DEF Says
<1> QED  BY <1>5, <1>6, <1>7, <1>8, <1>9 DEF Comparators

\* Equality of values of any kind.
LEMMA EqualSays ==
    ASSUME NEW a, NEW v, a[1] = v, NEW x, v = <<>> \/ v = <<x>>, NEW y, a[2] = <<y>>,
           NEW t, Root(t).id = "equal", Asked(t) = <<y>>, "equal" \in DOMAIN KnownDbFunctions
    PROVE  Says(CallValue("equal", a), HasValue(t, v), Holds(t, v))
<1>1. CallValue("equal", a) = Lift(v, <<y>>, v = <<y>>)
  <2>1. CallValue("equal", a) = Apply("equal", a)
    BY CallsOfKnown DEF BaseIds
  <2> QED  BY <2>1, Applications DEF Comparison
<1>2. HasValue(t, v) <=> v # <<>>
  BY LengthTestIds, ExtractIds DEF HasValue
<1>3. v # <<>> => (Holds(t, v) <=> x = y)
  <2>1. Holds(t, v) <=> Stands(Head(v), Compares("equal"), Head(Asked(t)))
    BY LengthTestIds, ExtractIds DEF Holds
  <2>2. Stands(Head(v), Compares("equal"), Head(Asked(t))) <=> Head(v) = Head(<<y>>)
    BY DEF Stands, Compares
  <2>3. v # <<>> => Head(v) = x
    BY HeadOfOne
  <2> QED  BY <2>1, <2>2, <2>3, HeadOfOne
<1>4. CASE v = <<>>
  BY <1>1, <1>2, <1>4 DEF Lift, Says
<1>5. CASE v # <<>>
  <2>1. <<y>> # <<>> /\ v = <<x>>
    BY <1>5, HeadOfOne
  <2>2. CallValue("equal", a) = <<v = <<y>>>>
    BY <1>1, <1>5, <2>1 DEF Lift
  <2>3. CASE x = y
    <3>1. (v = <<y>>) = TRUE
      BY <2>1, <2>3
    <3>2. CallValue("equal", a) = <<TRUE>>
      BY <2>2, <3>1, Zenon
    <3> QED  BY <1>2, <1>3, <1>5, <2>3, <3>2 DEF Says
  <2>4. CASE x # y
    <3>1. (v = <<y>>) = FALSE
      BY <2>1, <2>4, HeadOfOne
    <3>2. CallValue("equal", a) = <<FALSE>>
      BY <2>2, <3>1, Zenon
    <3> QED  BY <1>2, <1>3, <1>5, <2>4, <3>2 DEF Says
  <2> QED  BY <2>3, <2>4
<1> QED  BY <1>4, <1>5

\* Comparisons of numbers.
LEMMA ComparisonSays ==
    ASSUME NEW f \in {"greater", "lesser", "greater_or_equal", "lesser_or_equal"},
           f \in DOMAIN KnownDbFunctions,
           NEW a, NEW v, a[1] = v, NEW n \in Nat, v = <<>> \/ v = <<n>>, NEW m \in Nat, a[2] = <<m>>,
           NEW t, Root(t).id = f, Asked(t) = <<m>>
    PROVE  Says(CallValue(f, a), HasValue(t, v), Holds(t, v))
<1>1. CallValue(f, a) = Compare(f, a)
  <2>1. CASE f \in {"greater", "lesser"}
    <3>1. CallValue(f, a) = Apply(f, a)
      BY <2>1, CallsOfKnown DEF BaseIds
    <3> QED  BY <2>1, <3>1 DEF Compare
  <2>2. CASE f \in {"greater_or_equal", "lesser_or_equal"}
    <3>1. CallValue(f, a) = Unpack(f, a)
      BY <2>2, CallsOfKnown DEF PackedIds
    <3> QED  BY <2>2, <3>1, LengthTestIds, ExtractIds DEF Unpack
  <2> QED  BY <2>1, <2>2
<1>2. HasValue(t, v) <=> v # <<>>
  BY LengthTestIds, ExtractIds DEF HasValue
<1>3. v # <<>> => (Holds(t, v) <=> Stands(n, Compares(f), m))
  <2>1. Holds(t, v) <=> Stands(Head(v), Compares(f), Head(Asked(t)))
    BY LengthTestIds, ExtractIds DEF Holds
  <2>3. v # <<>> => Head(v) = n
    BY HeadOfOne
  <2> QED  BY <2>1, <2>3, HeadOfOne
<1>4. Says(Compare(f, a), v # <<>>, Stands(n, Compares(f), m))
  <2>1. f \in Comparators
    BY DEF Comparators
  <2> QED  BY <2>1, ComparesNumbers
<1> QED  BY <1>1, <1>2, <1>3, <1>4 DEF Says

\* Comparisons of the length of an array, which counts as empty when there is none.
LEMMA ArrayLengthSays ==
    ASSUME NEW f \in DOMAIN ArrayLengthTests, f \in DOMAIN KnownDbFunctions,
           NEW a, NEW v, a[1] = v, NEW n \in Nat, v = <<>> \/ v = <<n>>, NEW m \in Nat, a[3] = <<m>>,
           NEW t, Root(t).id = f, Asked(t) = <<m>>
    PROVE  Says(CallValue(f, a), HasValue(t, v), Holds(t, v))
<1> PICK g : g = ArrayLengthTests[f]
  OBVIOUS
<1>1. g \in Comparators /\ Compares(f) = Compares(g)
  BY DEF ArrayLengthTests, Comparators, Compares
<1> PICK b : b = <<Apply("array_length", a), a[3]>>
  OBVIOUS
<1>2. CallValue(f, a) = Compare(g, b)
  <2>1. CallValue(f, a) = Unpack(f, a)
    BY CallsOfKnown, LengthTestIds DEF PackedIds
  <2> QED  BY <2>1, LengthTestIds, ExtractIds DEF Unpack
<1> PICK k : k = IF v = <<>> THEN 0 ELSE n
  OBVIOUS
<1>3. b[1] = <<k>> /\ b[2] = <<m>> /\ k \in Nat /\ b[1] # <<>>
  <2>1. Apply("array_length", a) = LengthOf("array_length", v)
    BY Applications
  <2> QED  BY <2>1, HeadOfOne DEF LengthOf
<1>4. Says(Compare(g, b), b[1] # <<>>, Stands(k, Compares(g), m))
  BY <1>1, <1>3, ComparesNumbers
<1>5. HasValue(t, v)
  BY DEF HasValue
<1>6. Holds(t, v) <=> Stands(k, Compares(f), m)
  <2>1. Holds(t, v) <=> Stands(IF v = <<>> THEN 0 ELSE Head(v), Compares(f), Head(Asked(t)))
    BY LengthTestIds, ExtractIds DEF Holds
  <2> QED  BY <2>1, HeadOfOne
<1> QED  BY <1>1, <1>2, <1>3, <1>4, <1>5, <1>6 DEF Says

\* Comparisons of the length of a list, where there is one.
LEMMA ListLengthSays ==
    ASSUME NEW f \in DOMAIN JsonLengthTests, f \in DOMAIN KnownDbFunctions,
           NEW a, NEW v, a[1] = v, NEW n \in Nat, v = <<>> \/ v = <<n>>, NEW m \in Nat, a[2] = <<m>>,
           NEW t, Root(t).id = f, Asked(t) = <<m>>
    PROVE  Says(CallValue(f, a), HasValue(t, v), Holds(t, v))
<1> PICK g : g = JsonLengthTests[f]
  OBVIOUS
<1>1. g \in Comparators /\ Compares(f) = Compares(g)
  BY DEF JsonLengthTests, Comparators, Compares
<1> PICK b : b = <<Apply("json_array_length", a), a[2]>>
  OBVIOUS
<1>2. CallValue(f, a) = Compare(g, b)
  <2>1. CallValue(f, a) = Unpack(f, a)
    BY CallsOfKnown, LengthTestIds DEF PackedIds
  <2> QED  BY <2>1, LengthTestIds, ExtractIds DEF Unpack
<1>3. b[1] = v /\ b[2] = <<m>>
  <2>1. Apply("json_array_length", a) = LengthOf("json_array_length", v)
    BY Applications
  <2> QED  BY <2>1 DEF LengthOf
<1>4. Says(Compare(g, b), b[1] # <<>>, Stands(n, Compares(g), m))
  BY <1>1, <1>3, ComparesNumbers
<1>5. HasValue(t, v) <=> v # <<>>
  BY LengthTestIds, ExtractIds DEF HasValue
<1>6. v # <<>> => (Holds(t, v) <=> Stands(n, Compares(f), m))
  <2>1. Holds(t, v) <=> Stands(IF v = <<>> THEN 0 ELSE Head(v), Compares(f), Head(Asked(t)))
    BY LengthTestIds, ExtractIds DEF Holds
  <2> QED  BY <2>1, HeadOfOne
<1> QED  BY <1>1, <1>2, <1>3, <1>4, <1>5, <1>6 DEF Says

\* Tests for arrays and lists that are not empty.
LEMMA NotEmptySays ==
    ASSUME NEW f \in {"array_not_empty", "json_array_not_empty"}, f \in DOMAIN KnownDbFunctions,
           NEW a, NEW v, a[1] = v, NEW n \in Nat, v = <<>> \/ v = <<n>>,
           NEW t, Root(t).id = f
    PROVE  Says(CallValue(f, a), HasValue(t, v), Holds(t, v))
<1> PICK l : l = IF f = "array_not_empty" THEN "array_length" ELSE "json_array_length"
  OBVIOUS
<1> PICK b : b = <<Apply(l, a), Zero>>
  OBVIOUS
<1>1. CallValue(f, a) = Compare("greater", b)
  <2>1. CallValue(f, a) = Unpack(f, a)
    BY CallsOfKnown DEF PackedIds
  <2>2. Unpack(f, a) = Apply("greater", b)
    BY LengthTestIds, ExtractIds DEF Unpack
  <2> QED  BY <2>1, <2>2 DEF Compare
<1> PICK k : k = IF v = <<>> THEN 0 ELSE n
  OBVIOUS
<1>2. /\ b[1] = IF f = "array_not_empty" THEN <<k>> ELSE v
      /\ b[2] = <<0>> /\ k \in Nat
  <2>1. Apply(l, a) = LengthOf(l, v)
    BY Applications
  <2> QED  BY <2>1, HeadOfOne DEF LengthOf, Zero
<1>3. "greater" \in Comparators /\ (Stands(k, Compares("greater"), 0) <=> k > 0)
  BY DEF Comparators, Stands, Compares
<1>4. Says(Compare("greater", b), b[1] # <<>>, Stands(k, Compares("greater"), 0))
  BY <1>2, <1>3, ComparesNumbers
<1>5. HasValue(t, v) <=> b[1] # <<>>
  BY <1>2, LengthTestIds, ExtractIds, HeadOfOne DEF HasValue
<1>6. Holds(t, v) <=> k > 0
  <2>1. Holds(t, v) <=> (IF v = <<>> THEN 0 ELSE Head(v)) > 0
    BY LengthTestIds, ExtractIds DEF Holds
  <2> QED  BY <2>1, HeadOfOne
<1> QED  BY <1>1, <1>3, <1>4, <1>5, <1>6 DEF Says

\* Texts without wildcards, and all texts.
Letters == {"A", "a", "b"}
Characters == Letters \cup {"%"}

\* The texts that are stored and sought.
LEMMA TextsAreOfLetters ==
    /\ Texts \subseteq Seq(Letters) /\ <<"%">> \in Seq(Characters)
    /\ Seq(Letters) \subseteq Seq(Characters)
<1>1. <<>> \in Seq(Letters) /\ <<"A", "b">> \in Seq(Letters) /\ <<"b">> \in Seq(Letters)
  BY DEF Letters
<1>2. Texts \subseteq Seq(Letters)
  BY <1>1 DEF Texts
<1>3. <<"%">> \in Seq(Characters)
  BY DEF Characters
<1>4. Letters \subseteq Characters
  BY DEF Characters
<1> QED  BY <1>2, <1>3, <1>4

\* A text in lower case has as many characters, and % where it had.
LEMMA LowerCase ==
    ASSUME NEW s \in Seq(Characters)
    PROVE  /\ Lower(s) \in Seq(Characters) /\ Len(Lower(s)) = Len(s)
           /\ \A i \in 1 .. Len(s) :
                 Lower(s)[i] = (IF s[i] = "A" THEN "a" ELSE s[i]) /\ (Lower(s)[i] = "%" <=> s[i] = "%")
           /\ s \in Seq(Letters) => Lower(s) \in Seq(Letters)
<1> PICK n : n = Len(s)
  OBVIOUS
<1>0. n \in Nat /\ DOMAIN s = 1 .. n /\ \A i \in 1 .. n : s[i] \in Characters
  OBVIOUS
<1>1. Lower(s) = [i \in 1 .. n |-> IF s[i] = "A" THEN "a" ELSE s[i]]
  BY <1>0 DEF Lower
<1>2. \A i \in 1 .. n : Lower(s)[i] = (IF s[i] = "A" THEN "a" ELSE s[i])
  BY <1>1
<1>3. \A i \in 1 .. n : Lower(s)[i] \in Characters /\ (Lower(s)[i] = "%" <=> s[i] = "%")
  BY <1>0, <1>2 DEF Characters, Letters
<1>4. Lower(s) \in Seq(Characters) /\ Len(Lower(s)) = n
  BY <1>0, <1>1, <1>3
<1>5. s \in Seq(Letters) => Lower(s) \in Seq(Letters)
  <2>1. SUFFICES ASSUME s \in Seq(Letters) PROVE Lower(s) \in Seq(Letters)
    OBVIOUS
  <2>2. \A i \in 1 .. n : s[i] \in Letters
    BY <2>1
  <2>3. \A i \in 1 .. n : Lower(s)[i] \in Letters
    BY <1>2, <2>2 DEF Letters
  <2> QED  BY <1>0, <1>1, <2>3
<1> QED  BY <1>2, <1>3, <1>4, <1>5

\* A pattern in lower case is a pattern of the text in lower case.
LEMMA LowerPattern ==
    ASSUME NEW p \in Seq(Characters), NEW t \in Seq(Letters), NEW o, IsPattern(p, t, o)
    PROVE  IsPattern(Lower(p), Lower(t), o)
<1>1. t \in Seq(Characters)
  BY TextsAreOfLetters
<1>2. /\ Len(Lower(p)) = Len(p) /\ Len(Lower(t)) = Len(t)
      /\ \A i \in 1 .. Len(p) : Lower(p)[i] = (IF p[i] = "A" THEN "a" ELSE p[i])
                                /\ (Lower(p)[i] = "%" <=> p[i] = "%")
      /\ \A i \in 1 .. Len(t) : Lower(t)[i] = (IF t[i] = "A" THEN "a" ELSE t[i])
                                /\ (Lower(t)[i] = "%" <=> t[i] = "%")
  BY <1>1, LowerCase
<1>3. /\ o \in {0, 1} /\ Len(t) \in Nat /\ Len(p) = o + Len(t) + 1
      /\ \A d \in 1 .. Len(t) : p[o + d] = t[d] /\ t[d] # "%"
      /\ p[o + Len(t) + 1] = "%" /\ (o = 1 => p[1] = "%")
  BY DEF IsPattern
<1>4. ASSUME NEW d \in 1 .. Len(t) PROVE Lower(p)[o + d] = Lower(t)[d] /\ Lower(t)[d] # "%"
  <2>1. o + d \in 1 .. Len(p)
    BY <1>3
  <2> QED  BY <1>2, <1>3, <2>1
<1>5. Lower(p)[o + Len(t) + 1] = "%" /\ (o = 1 => Lower(p)[1] = "%")
  <2>1. o + Len(t) + 1 \in 1 .. Len(p) /\ 1 \in 1 .. Len(p)
    BY <1>3
  <2> QED  BY <1>2, <1>3, <2>1
<1> QED  BY <1>2, <1>3, <1>4, <1>5 DEF IsPattern

\* LIKE is true or false.
LEMMA LikeIsTrueOrFalse == ASSUME NEW s, NEW p PROVE Like(s, p) = TRUE \/ Like(s, p) = FALSE
BY DEF Like

\* The functions on texts say what they promise.
TextTests == {"starts_with", "contains", "starts_with_case_insensitive", "contains_case_insensitive"}
Matches(f, s, t) == CASE f = "starts_with" -> Prefix(s, t)
                      [] f = "contains" -> Infix(s, t)
                      [] f = "starts_with_case_insensitive" -> Prefix(Lower(s), Lower(t))
                      [] f = "contains_case_insensitive" -> Infix(Lower(s), Lower(t))

\* A text matches another or it does not, and NULL does neither.
LEMMA TextMatchSays ==
    ASSUME NEW f \in TextTests, NEW a, NEW v, a[1] = v,
           NEW s \in Seq(Letters), v = <<>> \/ v = <<s>>, NEW t \in Seq(Letters), a[2] = <<t>>
    PROVE  Says(Apply(f, a), v # <<>>, Matches(f, s, t))
<1> PICK o : o = IF f \in {"contains", "contains_case_insensitive"} THEN 1 ELSE 0
  OBVIOUS
<1> PICK p : p = IF o = 1 THEN <<"%">> \o t \o <<"%">> ELSE t \o <<"%">>
  OBVIOUS
<1>1. s \in Seq(Characters) /\ t \in Seq(Characters)
  BY TextsAreOfLetters
<1>2. IsPattern(p, t, o) /\ p \in Seq(Characters)
  <2>1. "%" \in Characters /\ Characters \ {"%"} = Letters
    BY DEF Characters, Letters
  <2> QED  BY <2>1, PatternsAreMade
<1>3. IsPattern(Lower(p), Lower(t), o) /\ Lower(s) \in Seq(Characters) /\ Lower(t) \in Seq(Characters)
  BY <1>1, <1>2, LowerPattern, LowerCase
<1>4. /\ o = 0 => (Like(s, p) <=> Prefix(s, t))
      /\ o = 1 => (Like(s, p) <=> Infix(s, t))
  BY <1>1, <1>2, LikeSays
<1>5. /\ o = 0 => (Like(Lower(s), Lower(p)) <=> Prefix(Lower(s), Lower(t)))
      /\ o = 1 => (Like(Lower(s), Lower(p)) <=> Infix(Lower(s), Lower(t)))
  BY <1>1, <1>3, LikeSays
<1>6. Apply(f, a) = TextMatch(f, v, <<t>>)
  BY Applications DEF TextTests
<1>7. CASE v = <<>>
  <2>1. TextMatch(f, v, <<t>>) = <<>>
    BY <1>7 DEF TextMatch, Lift
  <2> QED  BY <1>6, <1>7, <2>1 DEF Says
<1>8. CASE v # <<>>
  <2>1. v = <<s>> /\ Head(v) = s /\ Head(<<t>>) = t /\ <<t>> # <<>>
    BY <1>8, HeadOfOne
  <2>2. CASE f \in {"starts_with", "contains"}
    <3>1. TextMatch(f, v, <<t>>) = <<Like(s, p)>>
      BY <1>8, <2>1, <2>2 DEF TextMatch, Lift
    <3>2. Like(s, p) <=> Matches(f, s, t)
      BY <1>4, <2>2 DEF Matches
    <3>3. Like(s, p) = TRUE \/ Like(s, p) = FALSE
      BY LikeIsTrueOrFalse
    <3> QED  BY <1>6, <1>8, <3>1, <3>2, <3>3 DEF Says
  <2>3. CASE f \in {"starts_with_case_insensitive", "contains_case_insensitive"}
    <3>1. TextMatch(f, v, <<t>>) = <<Like(Lower(s), Lower(p))>>
      BY <1>8, <2>1, <2>3 DEF TextMatch, Lift
    <3>2. Like(Lower(s), Lower(p)) <=> Matches(f, s, t)
      BY <1>5, <2>3 DEF Matches
    <3>3. Like(Lower(s), Lower(p)) = TRUE \/ Like(Lower(s), Lower(p)) = FALSE
      BY LikeIsTrueOrFalse
    <3> QED  BY <1>6, <1>8, <3>1, <3>2, <3>3 DEF Says
  <2> QED  BY <2>2, <2>3 DEF TextTests
<1> QED  BY <1>7, <1>8

\* Tests of texts.
LEMMA TextSays ==
    ASSUME NEW f \in {"starts_with_case_insensitive", "contains_case_insensitive"},
           f \in DOMAIN KnownDbFunctions, NEW a, NEW v, a[1] = v,
           NEW s \in Seq(Letters), v = <<>> \/ v = <<s>>, NEW t \in Seq(Letters), a[2] = <<t>>,
           NEW u, Root(u).id = f, Asked(u) = <<t>>
    PROVE  Says(CallValue(f, a), HasValue(u, v), Holds(u, v))
<1>1. CallValue(f, a) = Apply(f, a)
  BY CallsOfKnown DEF BaseIds
<1>2. HasValue(u, v) <=> v # <<>>
  BY LengthTestIds, ExtractIds DEF HasValue
<1>3. v # <<>> => (Holds(u, v) <=> Matches(f, s, t))
  <2>1. f = "starts_with_case_insensitive" =>
           (Holds(u, v) <=> Prefix(Lower(Head(v)), Lower(Head(Asked(u)))))
    BY LengthTestIds, ExtractIds DEF Holds
  <2>2. f = "contains_case_insensitive" =>
           (Holds(u, v) <=> Infix(Lower(Head(v)), Lower(Head(Asked(u)))))
    BY LengthTestIds, ExtractIds DEF Holds
  <2>3. v # <<>> => Head(v) = s /\ Head(Asked(u)) = t
    BY HeadOfOne
  <2> QED  BY <2>1, <2>2, <2>3 DEF Matches
<1>4. Says(Apply(f, a), v # <<>>, Matches(f, s, t))
  BY TextMatchSays DEF TextTests
<1> QED  BY <1>1, <1>2, <1>3, <1>4 DEF Says

\* Tests of a part of a URI or an email address.
LEMMA PartSays ==
    ASSUME NEW f \in DOMAIN ExtractTests, f \in DOMAIN KnownDbFunctions, NEW a, NEW v, a[1] = v,
           NEW part, part = (IF v = <<>> THEN <<>> ELSE PartOf(f, v)),
           NEW s \in Seq(Letters), part = <<>> \/ part = <<s>>, NEW t \in Seq(Letters), a[2] = <<t>>,
           NEW u, Root(u).id = f, Asked(u) = <<t>>
    PROVE  Says(CallValue(f, a), HasValue(u, v), Holds(u, v))
<1> PICK x, g : x = ExtractTests[f][1] /\ g = ExtractTests[f][2]
  OBVIOUS
<1> PICK b : b = <<Apply(x, a), a[2]>>
  OBVIOUS
<1>1. CallValue(f, a) = Apply(g, b)
  <2>1. CallValue(f, a) = Unpack(f, a)
    BY CallsOfKnown, ExtractIds DEF PackedIds
  <2> QED  BY <2>1, LengthTestIds, ExtractIds DEF Unpack
<1>2. b[1] = part /\ b[2] = <<t>>
  <2>1. Apply(x, a) = Extract(x, v)
    BY Applications, ExtractIds
  <2>2. Extract(x, v) = part
    BY ExtractIds DEF ExtractTests, Extract, PartOf
  <2> QED  BY <2>1, <2>2
<1>3. HasValue(u, v) <=> part # <<>>
  BY LengthTestIds, ExtractIds DEF HasValue
<1>4. CASE f \in {"uri_authority_contains", "email_domain_contains"}
  <2>1. g = "contains"
    BY <1>4 DEF ExtractTests
  <2>2. Says(Apply(g, b), part # <<>>, Matches("contains", s, t))
    BY <1>2, <2>1, TextMatchSays DEF TextTests
  <2>3. part # <<>> => (Holds(u, v) <=> Infix(s, t))
    <3>1. Holds(u, v) <=> Infix(Head(PartOf(f, v)), Head(Asked(u)))
      BY <1>4, LengthTestIds, ExtractIds DEF Holds
    <3>2. part # <<>> => part = PartOf(f, v) /\ Head(part) = s /\ Head(Asked(u)) = t
      BY HeadOfOne
    <3> QED  BY <3>1, <3>2
  <2>4. Matches("contains", s, t) <=> Infix(s, t)
    BY DEF Matches
  <2> QED  BY <1>1, <1>3, <2>2, <2>3, <2>4 DEF Says
<1>5. CASE f \in {"uri_scheme_equals", "email_domain_equals"}
  <2>1. g = "equal"
    BY <1>5 DEF ExtractTests
  <2>2. Apply(g, b) = Lift(part, <<t>>, part = <<t>>)
    <3>1. Apply(g, b) = Comparison("equal", b[1], b[2])
      BY <2>1, Applications
    <3>2. Comparison("equal", part, <<t>>) = Lift(part, <<t>>, part = <<t>>)
      BY DEF Comparison
    <3> QED  BY <1>2, <3>1, <3>2
  <2>3. part # <<>> => (Holds(u, v) <=> part = <<t>>)
    <3>1. Holds(u, v) <=> PartOf(f, v) = Asked(u)
      BY <1>5, LengthTestIds, ExtractIds DEF Holds
    <3> QED  BY <3>1
  <2>4. CASE part = <<>>
    <3>1. Apply(g, b) = <<>>
      BY <2>2, <2>4 DEF Lift
    <3> QED  BY <1>1, <1>3, <2>4, <3>1 DEF Says
  <2>5. CASE part # <<>>
    <3>1. Apply(g, b) = <<part = <<t>>>>
      BY <2>2, <2>5, HeadOfOne DEF Lift
    <3>2. CASE part = <<t>>
      <4>1. (part = <<t>>) = TRUE
        BY <3>2
      <4>2. Apply(g, b) = <<TRUE>>
        BY <3>1, <4>1, Zenon
      <4> QED  BY <1>1, <1>3, <2>3, <2>5, <3>2, <4>2 DEF Says
    <3>3. CASE part # <<t>>
      <4>1. (part = <<t>>) = FALSE
        BY <3>3
      <4>2. Apply(g, b) = <<FALSE>>
        BY <3>1, <4>1, Zenon
      <4> QED  BY <1>1, <1>3, <2>3, <2>5, <3>3, <4>2 DEF Says
    <3> QED  BY <3>2, <3>3
  <2> QED  BY <2>4, <2>5
<1> QED  BY <1>4, <1>5, ExtractIds

-----------------------------------------------------------------------------
(***************************************************************************)
(* The filters there are, and the kinds of columns they are for.           *)
(***************************************************************************)

\* What a filter that returns a boolean asks of its parameters.
IsDeclaredTest(f, p) ==
    \/ f \in {"null", "not_null"} /\ Len(p) = 1
    \/ f = "equal" /\ p = <<{"any"}, {"any"}>>
    \/ f \in {"greater", "lesser", "greater_or_equal", "lesser_or_equal"}
         /\ p = <<{"comparable"}, {"comparable"}>>
    \/ f \in {"starts_with_case_insensitive", "contains_case_insensitive"}
         /\ p = <<{"string_like"}, {"string_like"}>>
    \/ f \in DOMAIN ArrayLengthTests /\ p = <<{"array"}, {"any"}, {"numeric"}>>
    \/ f \in DOMAIN JsonLengthTests /\ Len(p) = 2 /\ p[1] = {"jsonlist"}
    \/ f = "array_not_empty" /\ p = <<{"array"}, {"any"}>>
    \/ f = "json_array_not_empty" /\ p = <<{"jsonlist"}>>
    \/ f \in {"uri_authority_contains", "uri_scheme_equals"} /\ p = <<{"uri"}, {"string_like"}>>
    \/ f \in {"email_domain_contains", "email_domain_equals"} /\ p = <<{"email"}, {"string_like"}>>
DeclaresTests(T) ==
    \A f \in DOMAIN T : T[f].filter /\ T[f].returns = {"boolean"} => IsDeclaredTest(f, T[f].parameters)

\* Two tables of tests are one.
LEMMA JoinedTests ==
    ASSUME NEW S, NEW T, DeclaresTests(S), DeclaresTests(T)
    PROVE  DeclaresTests(S ++ T)
<1>1. \A f \in DOMAIN (S ++ T) : \/ f \in DOMAIN S /\ (S ++ T)[f] = S[f]
                                 \/ f \in DOMAIN T /\ (S ++ T)[f] = T[f]
  BY DEF ++
<1>2. ASSUME NEW f \in DOMAIN (S ++ T), (S ++ T)[f].filter, (S ++ T)[f].returns = {"boolean"}
      PROVE  IsDeclaredTest(f, (S ++ T)[f].parameters)
  <2>1. CASE f \in DOMAIN S /\ (S ++ T)[f] = S[f]
    BY <1>2, <2>1 DEF DeclaresTests
  <2>2. CASE f \in DOMAIN T /\ (S ++ T)[f] = T[f]
    BY <1>2, <2>2 DEF DeclaresTests
  <2> QED  BY <1>1, <2>1, <2>2
<1> QED  BY <1>2 DEF DeclaresTests

\* One test, and several declared alike.
LEMMA AlikeTests ==
    ASSUME NEW ids, NEW p, \A f \in ids : IsDeclaredTest(f, p)
    PROVE  DeclaresTests([f \in ids |-> Filter(p)])
<1> PICK T : T = [f \in ids |-> Filter(p)]
  OBVIOUS
<1>1. \A f \in DOMAIN T : f \in ids /\ T[f].parameters = p
  BY DEF Filter, Fn
<1> QED  BY <1>1 DEF DeclaresTests

\* One test.
LEMMA OneTest ==
    ASSUME NEW f, NEW p, IsDeclaredTest(f, p)
    PROVE  DeclaresTests(Single(f, Filter(p)))
<1> PICK T : T = Single(f, Filter(p))
  OBVIOUS
<1>1. DOMAIN T = {f} /\ T[f].parameters = p
  BY DEF Filter, Fn, Single
<1> QED  BY <1>1 DEF DeclaresTests

\* The base functions that are tests.
LEMMA BaseTests == DeclaresTests(Base)
<1>1. DeclaresTests(LogicalFunctions)
  <2>1. DeclaresTests(Single("null", Filter(<<{"any"}>>)))
    <3>1. IsDeclaredTest("null", <<{"any"}>>)
      BY DEF IsDeclaredTest
    <3> QED  BY <3>1, OneTest
  <2>2. DeclaresTests([f \in {"not", "and", "or"} |-> Fn({"boolean"}, <<>>, FALSE, {})])
    BY DEF DeclaresTests, Fn
  <2> QED  BY <2>1, <2>2, JoinedTests, Zenon DEF LogicalFunctions
<1>2. DeclaresTests(ComparisonFunctions)
  <2>1. DeclaresTests(Single("equal", Filter(<<{"any"}, {"any"}>>)))
    <3>1. IsDeclaredTest("equal", <<{"any"}, {"any"}>>)
      BY DEF IsDeclaredTest
    <3> QED  BY <3>1, OneTest
  <2>2. DeclaresTests([f \in {"greater", "lesser"} |-> Filter(<<{"comparable"}, {"comparable"}>>)])
    <3>1. \A f \in {"greater", "lesser"} : IsDeclaredTest(f, <<{"comparable"}, {"comparable"}>>)
      BY DEF IsDeclaredTest
    <3> QED  BY <3>1, AlikeTests, Zenon
  <2> QED  BY <2>1, <2>2, JoinedTests, Zenon DEF ComparisonFunctions
<1>3. DeclaresTests(TextFunctions)
  <2>1. DeclaresTests([f \in {"starts_with", "contains"} |->
            Fn({"boolean"}, <<{"string_like"}, {"string_like"}>>, FALSE, {})])
    BY DEF DeclaresTests, Fn
  <2>2. DeclaresTests([f \in {"starts_with_case_insensitive", "contains_case_insensitive"} |->
            Filter(<<{"string_like"}, {"string_like"}>>)])
    <3>1. \A f \in {"starts_with_case_insensitive", "contains_case_insensitive"} :
              IsDeclaredTest(f, <<{"string_like"}, {"string_like"}>>)
      BY DEF IsDeclaredTest
    <3> QED  BY <3>1, AlikeTests, Zenon
  <2>3. DeclaresTests(Single("to_lowercase", Fn({"string_like"}, <<{"string_like"}>>, TRUE, {})))
    BY DEF DeclaresTests, Fn, Single
  <2> QED  BY <2>1, <2>2, <2>3, JoinedTests, Zenon DEF TextFunctions
<1>4. DeclaresTests(LengthFunctions)
  <2>1. DeclaresTests(Single("array_length", Fn({"comparable"}, <<{"array"}, {"any"}>>, TRUE, {})))
    BY DEF DeclaresTests, Fn, Single
  <2>2. DeclaresTests(Single("json_array_length", Fn({"comparable"}, <<{"jsonlist"}>>, TRUE, {})))
    BY DEF DeclaresTests, Fn, Single
  <2> QED  BY <2>1, <2>2, JoinedTests, Zenon DEF LengthFunctions
<1>5. DeclaresTests(ExtractFunctions)
  BY DEF DeclaresTests, ExtractFunctions, Fn
<1> QED  BY <1>1, <1>2, <1>3, <1>4, <1>5, JoinedTests, Zenon DEF Base

\* The packed functions are all tests.
LEMMA PackedTests == DeclaresTests(Packed)
<1>1. DeclaresTests(PackedComparisons)
  <2>1. DeclaresTests(Single("not_null", Filter(<<{"any"}>>)))
    <3>1. IsDeclaredTest("not_null", <<{"any"}>>)
      BY DEF IsDeclaredTest
    <3> QED  BY <3>1, OneTest
  <2>2. DeclaresTests([f \in {"lesser_or_equal", "greater_or_equal"} |->
            Filter(<<{"comparable"}, {"comparable"}>>)])
    <3>1. \A f \in {"lesser_or_equal", "greater_or_equal"} :
              IsDeclaredTest(f, <<{"comparable"}, {"comparable"}>>)
      BY DEF IsDeclaredTest
    <3> QED  BY <3>1, AlikeTests, Zenon
  <2> QED  BY <2>1, <2>2, JoinedTests, Zenon DEF PackedComparisons
<1>2. DeclaresTests(PackedLengths)
  <2>1. DeclaresTests([f \in DOMAIN ArrayLengthTests |-> Filter(<<{"array"}, {"any"}, {"numeric"}>>)])
    <3>1. \A f \in DOMAIN ArrayLengthTests : IsDeclaredTest(f, <<{"array"}, {"any"}, {"numeric"}>>)
      BY DEF IsDeclaredTest
    <3> QED  BY <3>1, AlikeTests, Zenon
  <2>2. DeclaresTests([f \in DOMAIN JsonLengthTests |-> Filter(<<{"jsonlist"},
            IF f = "json_array_length_equals" THEN {"any"} ELSE {"numeric"}>>)])
    <3> PICK T : T = [f \in DOMAIN JsonLengthTests |-> Filter(<<{"jsonlist"},
                         IF f = "json_array_length_equals" THEN {"any"} ELSE {"numeric"}>>)]
      OBVIOUS
    <3>1. ASSUME NEW f \in DOMAIN T PROVE IsDeclaredTest(f, T[f].parameters)
      <4>1. f \in DOMAIN JsonLengthTests
        OBVIOUS
      <4>2. T[f].parameters = <<{"jsonlist"}, IF f = "json_array_length_equals" THEN {"any"} ELSE {"numeric"}>>
        BY DEF Filter, Fn
      <4>3. Len(T[f].parameters) = 2 /\ T[f].parameters[1] = {"jsonlist"}
        BY <4>2
      <4> QED  BY <4>1, <4>3 DEF IsDeclaredTest
    <3> QED  BY <3>1 DEF DeclaresTests
  <2> QED  BY <2>1, <2>2, JoinedTests, Zenon DEF PackedLengths
<1>3. DeclaresTests(NotEmptyTests)
  <2>1. DeclaresTests(Single("array_not_empty", Filter(<<{"array"}, {"any"}>>)))
    <3>1. IsDeclaredTest("array_not_empty", <<{"array"}, {"any"}>>)
      BY DEF IsDeclaredTest
    <3> QED  BY <3>1, OneTest
  <2>2. DeclaresTests(Single("json_array_not_empty", Filter(<<{"jsonlist"}>>)))
    <3>1. IsDeclaredTest("json_array_not_empty", <<{"jsonlist"}>>)
      BY DEF IsDeclaredTest
    <3> QED  BY <3>1, OneTest
  <2> QED  BY <2>1, <2>2, JoinedTests, Zenon DEF NotEmptyTests
<1>4. DeclaresTests(PackedExtracts)
  <2>1. ASSUME NEW f \in DOMAIN PackedExtracts PROVE IsDeclaredTest(f, PackedExtracts[f].parameters)
    <3>1. f \in DOMAIN ExtractTests
      BY DEF PackedExtracts
    <3>2. PackedExtracts[f].parameters
             = <<{IF ExtractTests[f][1] = "email_domain_name" THEN "email" ELSE "uri"}, {"string_like"}>>
      BY <3>1 DEF PackedExtracts, Fn
    <3>3. /\ f \in {"uri_authority_contains", "uri_scheme_equals"} =>
               ExtractTests[f][1] # "email_domain_name"
          /\ f \in {"email_domain_contains", "email_domain_equals"} =>
               ExtractTests[f][1] = "email_domain_name"
      BY DEF ExtractTests
    <3> QED  BY <3>1, <3>2, <3>3, ExtractIds DEF IsDeclaredTest
  <2> QED  BY <2>1 DEF DeclaresTests
<1> QED  BY <1>1, <1>2, <1>3, <1>4, JoinedTests, Zenon DEF Packed

\* Every filter that returns a boolean is one of those tests.
LEMMA KnownTests ==
    ASSUME NEW f \in DOMAIN KnownDbFunctions, KnownDbFunctions[f].filter,
           KnownDbFunctions[f].returns = {"boolean"}
    PROVE  IsDeclaredTest(f, KnownDbFunctions[f].parameters)
<1>1. DeclaresTests(KnownDbFunctions)
  BY BaseTests, PackedTests, JoinedTests DEF KnownDbFunctions
<1> QED  BY <1>1 DEF DeclaresTests

\* The hints a type of the interface has are those of each of its types.
LEMMA HintOfEachType ==
    ASSUME NEW ui, NEW hints, ui \in UITypesThatSatisfy(hints), NEW t \in UIType[ui]
    PROVE  hints \subseteq DbTypesHinted[t]
BY DEF UITypesThatSatisfy, UITypeHintset

\* The hints of one database type of each kind.
LEMMA HintsOfTypes ==
    /\ DbTypesHinted["integer"] = {"any", "comparable", "numeric"}
    /\ DbTypesHinted["text"] = {"any", "string_like"}
    /\ DbTypesHinted["email"] = {"any", "email"} /\ DbTypesHinted["uri"] = {"any", "uri"}
    /\ DbTypesHinted["_array"] = {"any", "array"}
    /\ DbTypesHinted["mathesar_json_array"] = {"any", "jsonlist"}
<1>1. {"integer", "text", "email", "uri", "_array", "mathesar_json_array"} \subseteq KnownDbTypes
  BY DEF KnownDbTypes, PostgresTypes, CustomTypes
<1>2. /\ "integer" \in NumericTypes /\ "integer" \in ComparableTypes
      /\ \A t \in {"text", "email", "uri", "_array", "mathesar_json_array"} :
            t \notin NumericTypes /\ t \notin ComparableTypes
  BY DEF NumericTypes, IntegerTypes, DecimalTypes, ComparableTypes, MoneyTypes, PointInTimeTypes,
         TimeOfDayTypes, DatetimeTypes
<1>3. /\ "text" \in StringLikeTypes
      /\ \A t \in {"integer", "email", "uri", "_array", "mathesar_json_array"} : t \notin StringLikeTypes
  BY DEF StringLikeTypes, StringTypes
<1>4. \A t \in {"integer", "text", "email", "uri", "_array", "mathesar_json_array"} :
          t \notin TimeOfDayTypes \union DatetimeTypes /\ t \notin DatetimeTypes \union {"date"}
          /\ t \notin PointInTimeTypes
  BY DEF PointInTimeTypes, TimeOfDayTypes, DatetimeTypes
<1>5. DbTypesHinted["integer"] = {"any", "comparable", "numeric"}
  BY <1>1, <1>2, <1>3, <1>4 DEF DbTypesHinted
<1>6. DbTypesHinted["text"] = {"any", "string_like"}
  BY <1>1, <1>2, <1>3, <1>4 DEF DbTypesHinted
<1>7. DbTypesHinted["email"] = {"any", "email"}
  BY <1>1, <1>2, <1>3, <1>4 DEF DbTypesHinted
<1>8. DbTypesHinted["uri"] = {"any", "uri"}
  BY <1>1, <1>2, <1>3, <1>4 DEF DbTypesHinted
<1>9. DbTypesHinted["_array"] = {"any", "array"}
  BY <1>1, <1>2, <1>3, <1>4 DEF DbTypesHinted
<1>10. DbTypesHinted["mathesar_json_array"] = {"any", "jsonlist"}
  BY <1>1, <1>2, <1>3, <1>4 DEF DbTypesHinted
<1> QED  BY <1>5, <1>6, <1>7, <1>8, <1>9, <1>10

\* The kind of column a filter with such a hint is offered for.
LEMMA KindsHinted ==
    ASSUME NEW k \in Kinds
    PROVE  /\ k \in UITypesThatSatisfy({"comparable"}) => k = "number"
           /\ k \in UITypesThatSatisfy({"string_like"}) => k = "text"
           /\ k \in UITypesThatSatisfy({"array"}) => k = "array"
           /\ k \in UITypesThatSatisfy({"jsonlist"}) => k = "jsonlist"
           /\ k \in UITypesThatSatisfy({"uri"}) => k = "uri"
           /\ k \in UITypesThatSatisfy({"email"}) => k = "email"
<1>1. "integer" \in UIType["number"] /\ "text" \in UIType["text"] /\ "email" \in UIType["email"]
      /\ "uri" \in UIType["uri"] /\ "_array" \in UIType["array"]
      /\ "mathesar_json_array" \in UIType["jsonlist"]
  BY TypesOfTheInterface DEF NumericTypes, IntegerTypes, StringLikeTypes, StringTypes
<1>2. k \in UITypesThatSatisfy({"comparable"}) => k = "number"
  BY <1>1, HintOfEachType, HintsOfTypes DEF Kinds
<1>3. k \in UITypesThatSatisfy({"string_like"}) => k = "text"
  BY <1>1, HintOfEachType, HintsOfTypes DEF Kinds
<1>4. k \in UITypesThatSatisfy({"array"}) => k = "array"
  BY <1>1, HintOfEachType, HintsOfTypes DEF Kinds
<1>5. k \in UITypesThatSatisfy({"jsonlist"}) => k = "jsonlist"
  BY <1>1, HintOfEachType, HintsOfTypes DEF Kinds
<1>6. k \in UITypesThatSatisfy({"uri"}) => k = "uri"
  BY <1>1, HintOfEachType, HintsOfTypes DEF Kinds
<1>7. k \in UITypesThatSatisfy({"email"}) => k = "email"
  BY <1>1, HintOfEachType, HintsOfTypes DEF Kinds
<1> QED  BY <1>2, <1>3, <1>4, <1>5, <1>6, <1>7

\* What is sent with a test: the subject column, and literals.
IsSentWith(t, k, f, args) ==
    /\ t = Call(f, args) /\ AreTrees(args) /\ f \in TestsWith(k, Len(args)) /\ f \notin Connectives
    /\ Len(args) \in {1, 2, 3} /\ args[1] = Id(Subject)
    /\ Len(args) = 2 => args[2] \in Arguments(k, f, 2)
    /\ Len(args) = 3 => args[2] = Dimension /\ args[3] \in Arguments(k, f, 3)

\* Every test that is sent is sent with those.
LEMMA TestsAreSentWith ==
    ASSUME NEW k, NEW t \in Tests(k)
    PROVE  \E f, args : IsSentWith(t, k, f, args)
<1>0. Argument(Id(Subject), Subject) /\ Argument(Dimension, Subject)
  BY DEF Argument, Dimension
<1>1. \/ \E f \in TestsWith(k, 1) : t = Call(f, <<Id(Subject)>>)
      \/ \E f \in TestsWith(k, 2) : \E b \in Arguments(k, f, 2) : t = Call(f, <<Id(Subject), b>>)
      \/ \E f \in TestsWith(k, 3) : \E b \in Arguments(k, f, 3) :
            t = Call(f, <<Id(Subject), Dimension, b>>)
  <2>1. t \in {Call(f, <<Id(Subject)>>) : f \in TestsWith(k, 1)}
        \/ t \in UNION {{Call(f, <<Id(Subject), b>>) : b \in Arguments(k, f, 2)} :
                          f \in TestsWith(k, 2)}
        \/ t \in UNION {{Call(f, <<Id(Subject), Dimension, b>>) : b \in Arguments(k, f, 3)} :
                          f \in TestsWith(k, 3)}
    BY Zenon DEF Tests
  <2> HIDE DEF Call
  <2> QED  BY <2>1, Zenon
<1>2. \A n \in {1, 2, 3} : \A f \in TestsWith(k, n) : f \notin Connectives
  BY KnownFunctions DEF TestsWith
<1>3. CASE \E f \in TestsWith(k, 1) : t = Call(f, <<Id(Subject)>>)
  <2>1. PICK f \in TestsWith(k, 1) : t = Call(f, <<Id(Subject)>>)
    BY <1>3
  <2>2. PICK args : args = <<Id(Subject)>>
    OBVIOUS
  <2>3. AreTrees(args) /\ Len(args) = 1
    BY <1>0, <2>2, OneArgument
  <2>4. IsSentWith(t, k, f, args)
    BY <1>2, <2>1, <2>2, <2>3 DEF IsSentWith
  <2> QED  BY <2>4
<1>4. CASE \E f \in TestsWith(k, 2) : \E b \in Arguments(k, f, 2) : t = Call(f, <<Id(Subject), b>>)
  <2>0. PICK f \in TestsWith(k, 2) : \E b \in Arguments(k, f, 2) : t = Call(f, <<Id(Subject), b>>)
    BY <1>4
  <2>1. PICK b \in Arguments(k, f, 2) : t = Call(f, <<Id(Subject), b>>)
    BY <2>0
  <2>2. PICK args : args = <<Id(Subject), b>>
    OBVIOUS
  <2>3. AreTrees(args) /\ Len(args) = 2
    BY <1>0, <2>2, ArgumentsSent, TwoArguments
  <2>4. IsSentWith(t, k, f, args)
    BY <1>2, <2>1, <2>2, <2>3 DEF IsSentWith
  <2> QED  BY <2>4
<1>5. CASE \E f \in TestsWith(k, 3) : \E b \in Arguments(k, f, 3) :
            t = Call(f, <<Id(Subject), Dimension, b>>)
  <2>0. PICK f \in TestsWith(k, 3) : \E b \in Arguments(k, f, 3) : t = Call(f, <<Id(Subject), Dimension, b>>)
    BY <1>5
  <2>1. PICK b \in Arguments(k, f, 3) : t = Call(f, <<Id(Subject), Dimension, b>>)
    BY <2>0
  <2>2. PICK args : args = <<Id(Subject), Dimension, b>>
    OBVIOUS
  <2>3. AreTrees(args) /\ Len(args) = 3
    BY <1>0, <2>2, ArgumentsSent, ThreeArguments
  <2>4. IsSentWith(t, k, f, args)
    BY <1>2, <2>1, <2>2, <2>3 DEF IsSentWith
  <2> QED  BY <2>4
<1> QED  BY <1>1, <1>3, <1>4, <1>5

\* A node of a leaf is its only one.
LEMMA LiteralNode ==
    ASSUME NEW w
    PROVE  /\ Literal(w)[<<>>] = [id |-> "literal", value |-> w] /\ Literal(w)[<<>>].value = w
           /\ <<>> \in DOMAIN Literal(w)
BY LeafTree DEF Literal, Root

\* The literal sent last is the one that is asked for.
LEMMA AskedForTheLast ==
    ASSUME NEW t, NEW f, NEW args, AreTrees(args), t = Call(f, args), Len(args) # 0,
           NEW w, args[Len(args)] = Literal(w)
    PROVE  Root(t).id = f /\ Root(t).arity = Len(args) /\ Asked(t) = w
<1>1. IsCallOf(t, f, args)
  BY CallTree
<1>2. Root(t).id = f /\ Root(t).arity = Len(args)
  BY <1>1 DEF IsCallOf
<1> PICK n : n = Len(args)
  OBVIOUS
<1>3. n \in DOMAIN args /\ <<n>> \o <<>> = <<n>>
  BY DEF AreTrees
<1>4. args[n] = Literal(w)
  OBVIOUS
<1> PICK root : root = <<>>
  OBVIOUS
<1>5. root \in DOMAIN args[n] /\ args[n][root].value = w
  BY <1>4, LiteralNode
<1>6. t[<<n>> \o root] = args[n][root]
  BY <1>1, <1>3, <1>5 DEF IsCallOf
<1>7. t[<<n>>].value = w
  BY <1>3, <1>5, <1>6
<1> QED  BY <1>2, <1>7 DEF Asked

\* The values a column of each kind holds.
LEMMA ValuesOfKinds ==
    ASSUME NEW k \in Kinds, NEW v \in {<<>>} \cup Values(k)
    PROVE  /\ k \in {"number", "array", "jsonlist"} => \E n \in Nat : v = <<>> \/ v = <<n>>
           /\ k \in {"text", "email"} => \E s \in Seq(Letters) : v = <<>> \/ v = <<s>>
           /\ k = "uri" => v = <<>> \/ \E r :
                 /\ v = <<r>> /\ \E s \in Seq(Letters) : r.scheme = <<s>>
                 /\ \E s \in Seq(Letters) : r.authority = <<>> \/ r.authority = <<s>>
           /\ \E x : v = <<>> \/ v = <<x>>
<1>1. 0 \in Nat /\ <<>> \in Seq(Letters)
  OBVIOUS
<1>2. CASE v = <<>>
  BY <1>1, <1>2
<1>3. CASE v \in Values(k) /\ k \in {"number", "array", "jsonlist"}
  <2>1. \E n \in Numbers : v = <<n>>
    BY <1>3 DEF Values
  <2> QED  BY <1>3, <2>1, FunctionsAssumption
<1>4. CASE v \in Values(k) /\ k \in {"text", "email"}
  <2>1. \E t \in Texts : v = <<t>>
    BY <1>4 DEF Values
  <2> QED  BY <1>4, <2>1, TextsAreOfLetters
<1>5. CASE v \in Values(k) /\ k = "uri"
  <2>1. \E s \in Texts \ {<<>>} : \E a \in {<<>>} \cup {<<t>> : t \in Texts} :
            v = <<[scheme |-> <<s>>, authority |-> a]>>
    BY <1>5 DEF Values
  <2>2. PICK s \in Texts \ {<<>>} : \E a \in {<<>>} \cup {<<t>> : t \in Texts} :
            v = <<[scheme |-> <<s>>, authority |-> a]>>
    BY <2>1
  <2>3. PICK a \in {<<>>} \cup {<<t>> : t \in Texts} : v = <<[scheme |-> <<s>>, authority |-> a]>>
    BY <2>2
  <2>4. PICK r : r = [scheme |-> <<s>>, authority |-> a]
    OBVIOUS
  <2>5. r.scheme = <<s>> /\ r.authority = a /\ v = <<r>>
    BY <2>3, <2>4
  <2>6. s \in Seq(Letters)
    BY TextsAreOfLetters
  <2>7. \E x \in Seq(Letters) : a = <<>> \/ a = <<x>>
    BY <1>1, TextsAreOfLetters
  <2> QED  BY <1>5, <2>5, <2>6, <2>7
<1> QED  BY <1>2, <1>3, <1>4, <1>5 DEF Kinds

\* What the last literal is that is sent with a test of so many parameters.
IsLiteralFor(k, f, hints, n, w) ==
    /\ (hints[1] = {"array"} /\ n = 3) \/ hints[1] = {"jsonlist"} => \E m \in Nat : w = <<m>>
    /\ hints[1] \notin {{"array"}, {"jsonlist"}} /\ "string_like" \in hints[n] =>
          \E s \in Texts \cup {<<"%">>} : w = <<s>>
    /\ hints[1] \notin {{"array"}, {"jsonlist"}} /\ "string_like" \notin hints[n]
       /\ f # "uri_scheme_equals" => w \in Values(k)

\* The literal sent with a test.
LEMMA LiteralsSent ==
    ASSUME NEW t, NEW k, NEW f, NEW args, IsSentWith(t, k, f, args), Len(args) # 1
    PROVE  \E w : /\ args[Len(args)] = Literal(w)
                  /\ IsLiteralFor(k, f, KnownDbFunctions[f].parameters, Len(args), w)
<1>h. PICK hints : hints = KnownDbFunctions[f].parameters
  OBVIOUS
<1>n. PICK n : n = Len(args)
  OBVIOUS
<1>a. SUFFICES \E w : args[n] = Literal(w) /\ IsLiteralFor(k, f, hints, n, w)
  BY <1>h, <1>n
<1>1. CASE n = 2 /\ hints[1] = {"array"}
  <2>1. args[n] \in {Dimension}
    BY <1>1, <1>h, <1>n DEF IsSentWith, Arguments
  <2>2. args[n] = Literal(<<1>>)
    BY <2>1 DEF Dimension
  <2>3. {"array"} # {"jsonlist"}
    OBVIOUS
  <2> QED  BY <1>1, <2>2, <2>3 DEF IsLiteralFor
<1>2. CASE n \in {2, 3} /\ ~(n = 2 /\ hints[1] = {"array"})
  <2>1. args[n] \in Arguments(k, f, n)
    BY <1>2, <1>h, <1>n DEF IsSentWith
  <2>2. CASE hints[1] \in {{"array"}, {"jsonlist"}}
    <3>1. args[n] \in {Literal(<<m>>) : m \in Numbers}
      BY <1>2, <2>1, <2>2, <1>h DEF Arguments
    <3>2. PICK m \in Numbers : args[n] = Literal(<<m>>)
      BY <3>1
    <3> QED  BY <2>2, <3>2, FunctionsAssumption DEF IsLiteralFor
  <2>3. CASE hints[1] \notin {{"array"}, {"jsonlist"}} /\ (f = "uri_scheme_equals" \/ "string_like" \in hints[n])
    <3>1. args[n] \in {Literal(<<s>>) : s \in Texts \cup {<<"%">>}}
      BY <1>2, <2>1, <2>3, <1>h DEF Arguments
    <3>2. PICK s \in Texts \cup {<<"%">>} : args[n] = Literal(<<s>>)
      BY <3>1
    <3> QED  BY <2>3, <3>2 DEF IsLiteralFor
  <2>4. CASE hints[1] \notin {{"array"}, {"jsonlist"}} /\ ~(f = "uri_scheme_equals" \/ "string_like" \in hints[n])
    <3>1. args[n] \in {Literal(v) : v \in Values(k)}
      BY <1>2, <2>1, <2>4, <1>h DEF Arguments
    <3>2. PICK v \in Values(k) : args[n] = Literal(v)
      BY <3>1
    <3> QED  BY <2>4, <3>2 DEF IsLiteralFor
  <2> QED  BY <2>2, <2>3, <2>4
<1> QED  BY <1>1, <1>2, <1>n DEF IsSentWith

\* What is known of a test that is sent.
LEMMA SentTest ==
    ASSUME NEW t, NEW k, NEW f, NEW args, IsSentWith(t, k, f, args),
           KnownDbFunctions[f].returns = {"boolean"},
           NEW p, p = KnownDbFunctions[f].parameters
    PROVE  /\ f \in DOMAIN KnownDbFunctions /\ IsDeclaredTest(f, p) /\ Len(p) = Len(args)
           /\ k \in UITypesThatSatisfy(p[1]) /\ Root(t).id = f /\ Root(t).arity = Len(args)
           /\ f \notin Connectives
<1>1. /\ f \in DOMAIN KnownDbFunctions /\ KnownDbFunctions[f].filter /\ Len(p) = Len(args)
      /\ k \in ParameterUITypes[f][1]
  BY DEF IsSentWith, TestsWith
<1>2. IsDeclaredTest(f, p)
  BY <1>1, KnownTests
<1>3. 1 \in DOMAIN KnownDbFunctions[f].parameters
  BY <1>1, KnownFunctions DEF IsSentWith
<1>4. k \in UITypesThatSatisfy(p[1])
  BY <1>1, <1>3 DEF ParameterUITypes
<1>5. IsCallOf(t, f, args)
  BY CallTree DEF IsSentWith
<1>6. Root(t).id = f /\ Root(t).arity = Len(args)
  BY <1>5 DEF IsCallOf
<1> QED  BY <1>1, <1>2, <1>4, <1>6 DEF IsSentWith

\* The hints of a function of two or three parameters.
LEMMA HintsInOrder ==
    ASSUME NEW a, NEW b, NEW c
    PROVE  /\ Len(<<a, b>>) = 2 /\ <<a, b>>[1] = a /\ <<a, b>>[2] = b
           /\ Len(<<a, b, c>>) = 3 /\ <<a, b, c>>[1] = a /\ <<a>>[1] = a
OBVIOUS

\* A test that is sent says what its name promises of the value of its column.
LEMMA TestSays ==
    ASSUME NEW k \in Kinds, NEW t, NEW f, NEW args, IsSentWith(t, k, f, args),
           KnownDbFunctions[f].returns = {"boolean"}, NEW v \in {<<>>} \cup Values(k),
           NEW a, a[1] = v, \A i \in DOMAIN args : \A w : args[i] = Literal(w) => a[i] = w,
           k \in {"text", "uri", "email"} /\ Len(args) = 2 /\ f # "equal" => Asked(t) # <<<<"%">>>>
    PROVE  Says(CallValue(f, a), HasValue(t, v), Holds(t, v))
<1>p. PICK p : p = KnownDbFunctions[f].parameters
  OBVIOUS
<1>n. PICK n : n = Len(args)
  OBVIOUS
<1>1. /\ f \in DOMAIN KnownDbFunctions /\ IsDeclaredTest(f, p) /\ Len(p) = n
      /\ k \in UITypesThatSatisfy(p[1]) /\ Root(t).id = f /\ n \in {1, 2, 3}
  <2>1. /\ f \in DOMAIN KnownDbFunctions /\ IsDeclaredTest(f, p) /\ Len(p) = Len(args)
        /\ k \in UITypesThatSatisfy(p[1]) /\ Root(t).id = f
    BY <1>p, SentTest
  <2>2. Len(args) \in {1, 2, 3}
    BY DEF IsSentWith
  <2> QED  BY <1>n, <2>1, <2>2
<1>2. AreTrees(args) /\ t = Call(f, args)
  BY DEF IsSentWith
<1>2a. n # 1 => \E w : args[n] = Literal(w) /\ IsLiteralFor(k, f, p, n, w)
  BY <1>p, <1>n, LiteralsSent
<1>3. ASSUME NEW w, args[n] = Literal(w) PROVE a[n] = w /\ Asked(t) = w
  BY <1>1, <1>2, <1>3, <1>n, AskedForTheLast DEF AreTrees
<1>4. CASE f \in {"null", "not_null"}
  BY <1>1, <1>4, NullSays
<1>5. CASE f = "equal" /\ p = <<{"any"}, {"any"}>>
  <2>1. PICK w : args[n] = Literal(w) /\ w \in Values(k)
    <3>1. p[1] = {"any"} /\ p[2] = {"any"} /\ n = 2
      BY <1>1, <1>5, HintsInOrder
    <3>2. p[1] \notin {{"array"}, {"jsonlist"}} /\ "string_like" \notin p[n]
      BY <3>1
    <3>3. PICK w : args[n] = Literal(w) /\ IsLiteralFor(k, f, p, n, w)
      BY <3>1, <1>2a
    <3> QED  BY <1>5, <3>2, <3>3 DEF IsLiteralFor
  <2>2. w # <<>>
    BY <2>1 DEF Values, Kinds
  <2>3. \E y : w = <<y>>
    BY <2>1, <2>2, ValuesOfKinds
  <2>4. \E x : v = <<>> \/ v = <<x>>
    BY ValuesOfKinds
  <2>5. a[2] = w /\ Asked(t) = w
    BY <1>1, <1>3, <1>5, <2>1
  <2> QED  BY <1>1, <1>5, <2>3, <2>4, <2>5, EqualSays
<1>6. CASE f \in {"greater", "lesser", "greater_or_equal", "lesser_or_equal"}
           /\ p = <<{"comparable"}, {"comparable"}>>
  <2>1. p[1] = {"comparable"} /\ p[2] = {"comparable"} /\ n = 2
    BY <1>1, <1>6, HintsInOrder
  <2>2. k = "number"
    <3>1. k \in UITypesThatSatisfy({"comparable"})
      BY <1>1, <2>1
    <3> QED  BY <3>1, KindsHinted
  <2>3. PICK w : args[n] = Literal(w) /\ w \in Values(k)
    <3>2. p[1] \notin {{"array"}, {"jsonlist"}} /\ "string_like" \notin p[n]
      BY <2>1
    <3>3. PICK w : args[n] = Literal(w) /\ IsLiteralFor(k, f, p, n, w)
      BY <2>1, <1>2a
    <3> QED  BY <1>6, <3>2, <3>3 DEF IsLiteralFor
  <2>4. \E m \in Nat : w = <<m>>
    BY <2>2, <2>3, FunctionsAssumption DEF Values
  <2>5. \E x \in Nat : v = <<>> \/ v = <<x>>
    BY <2>2, ValuesOfKinds
  <2>6. a[2] = w /\ Asked(t) = w
    BY <1>3, <2>1, <2>3
  <2> QED  BY <1>1, <1>6, <2>4, <2>5, <2>6, ComparisonSays
<1>7. CASE f \in {"starts_with_case_insensitive", "contains_case_insensitive"}
           /\ p = <<{"string_like"}, {"string_like"}>>
  <2>1. p[1] = {"string_like"} /\ p[2] = {"string_like"} /\ n = 2
    BY <1>1, <1>7, HintsInOrder
  <2>2. k = "text"
    <3>1. k \in UITypesThatSatisfy({"string_like"})
      BY <1>1, <2>1
    <3> QED  BY <3>1, KindsHinted
  <2>3. PICK w : args[n] = Literal(w) /\ \E s \in Texts \cup {<<"%">>} : w = <<s>>
    <3>2. p[1] \notin {{"array"}, {"jsonlist"}} /\ "string_like" \in p[n]
      BY <2>1
    <3>3. PICK w : args[n] = Literal(w) /\ IsLiteralFor(k, f, p, n, w)
      BY <2>1, <1>2a
    <3> QED  BY <3>2, <3>3 DEF IsLiteralFor
  <2>6. a[2] = w /\ Asked(t) = w
    BY <1>3, <2>1, <2>3
  <2>4. \E s \in Seq(Letters) : w = <<s>>
    BY <1>7, <2>1, <2>2, <2>3, <2>6, <1>n, TextsAreOfLetters
  <2>5. \E x \in Seq(Letters) : v = <<>> \/ v = <<x>>
    BY <2>2, ValuesOfKinds
  <2> QED  BY <1>1, <1>7, <2>4, <2>5, <2>6, TextSays
<1>8. CASE f \in DOMAIN ArrayLengthTests /\ p = <<{"array"}, {"any"}, {"numeric"}>>
  <2>1. p[1] = {"array"} /\ n = 3
    BY <1>1, <1>8, HintsInOrder
  <2>2. k = "array"
    <3>1. k \in UITypesThatSatisfy({"array"})
      BY <1>1, <2>1
    <3> QED  BY <3>1, KindsHinted
  <2>3. PICK w : args[n] = Literal(w) /\ \E m \in Nat : w = <<m>>
    BY <2>1, <1>2a DEF IsLiteralFor
  <2>5. \E x \in Nat : v = <<>> \/ v = <<x>>
    BY <2>2, ValuesOfKinds
  <2>6. a[3] = w /\ Asked(t) = w
    BY <1>3, <2>1, <2>3
  <2> QED  BY <1>1, <1>8, <2>3, <2>5, <2>6, ArrayLengthSays
<1>9. CASE f \in DOMAIN JsonLengthTests /\ Len(p) = 2 /\ p[1] = {"jsonlist"}
  <2>1. p[1] = {"jsonlist"} /\ n = 2
    BY <1>1, <1>9, HintsInOrder
  <2>2. k = "jsonlist"
    <3>1. k \in UITypesThatSatisfy({"jsonlist"})
      BY <1>1, <2>1
    <3> QED  BY <3>1, KindsHinted
  <2>3. PICK w : args[n] = Literal(w) /\ \E m \in Nat : w = <<m>>
    BY <2>1, <1>2a DEF IsLiteralFor
  <2>5. \E x \in Nat : v = <<>> \/ v = <<x>>
    BY <2>2, ValuesOfKinds
  <2>6. a[2] = w /\ Asked(t) = w
    BY <1>3, <2>1, <2>3
  <2> QED  BY <1>1, <1>9, <2>3, <2>5, <2>6, ListLengthSays
<1>10. CASE f = "array_not_empty" /\ p = <<{"array"}, {"any"}>>
  <2>1. p[1] = {"array"}
    BY <1>10, HintsInOrder
  <2>2. k = "array"
    <3>1. k \in UITypesThatSatisfy({"array"})
      BY <1>1, <2>1
    <3> QED  BY <3>1, KindsHinted
  <2>3. \E x \in Nat : v = <<>> \/ v = <<x>>
    BY <2>2, ValuesOfKinds
  <2> QED  BY <1>1, <1>10, <2>3, NotEmptySays
<1>13. CASE f = "json_array_not_empty" /\ p = <<{"jsonlist"}>>
  <2>1. p[1] = {"jsonlist"}
    BY <1>13, HintsInOrder
  <2>2. k = "jsonlist"
    <3>1. k \in UITypesThatSatisfy({"jsonlist"})
      BY <1>1, <2>1
    <3> QED  BY <3>1, KindsHinted
  <2>3. \E x \in Nat : v = <<>> \/ v = <<x>>
    BY <2>2, ValuesOfKinds
  <2> QED  BY <1>1, <1>13, <2>3, NotEmptySays
<1>11. CASE f \in {"uri_authority_contains", "uri_scheme_equals"} /\ p = <<{"uri"}, {"string_like"}>>
  <2>1. p[1] = {"uri"} /\ p[2] = {"string_like"} /\ n = 2
    BY <1>1, <1>11, HintsInOrder
  <2>2. k = "uri"
    <3>1. k \in UITypesThatSatisfy({"uri"})
      BY <1>1, <2>1
    <3> QED  BY <3>1, KindsHinted
  <2>3. PICK w : args[n] = Literal(w) /\ \E s \in Texts \cup {<<"%">>} : w = <<s>>
    <3>2. p[1] \notin {{"array"}, {"jsonlist"}} /\ "string_like" \in p[n]
      BY <2>1
    <3>3. PICK w : args[n] = Literal(w) /\ IsLiteralFor(k, f, p, n, w)
      BY <2>1, <1>2a
    <3> QED  BY <3>2, <3>3 DEF IsLiteralFor
  <2>6. a[2] = w /\ Asked(t) = w
    BY <1>3, <2>1, <2>3
  <2>4. \E s \in Seq(Letters) : w = <<s>>
    BY <1>11, <2>1, <2>2, <2>3, <2>6, <1>n, TextsAreOfLetters
  <2> PICK part : part = (IF v = <<>> THEN <<>> ELSE PartOf(f, v))
    OBVIOUS
  <2>5. \E s \in Seq(Letters) : part = <<>> \/ part = <<s>>
    <3>1. CASE v = <<>>
      <4>1. <<>> \in Seq(Letters)
        OBVIOUS
      <4> QED  BY <3>1, <4>1
    <3>2. CASE v # <<>>
      <4>1. PICK r : /\ v = <<r>> /\ \E s \in Seq(Letters) : r.scheme = <<s>>
                     /\ \E s \in Seq(Letters) : r.authority = <<>> \/ r.authority = <<s>>
        BY <2>2, <3>2, ValuesOfKinds
      <4>2. Head(v) = r
        BY <4>1, HeadOfOne
      <4> QED  BY <1>11, <3>2, <4>1, <4>2 DEF PartOf
    <3> QED  BY <3>1, <3>2
  <2>7. f \in DOMAIN ExtractTests
    BY <1>11, ExtractIds
  <2> QED  BY <1>1, <2>4, <2>5, <2>6, <2>7, PartSays
<1>12. CASE f \in {"email_domain_contains", "email_domain_equals"} /\ p = <<{"email"}, {"string_like"}>>
  <2>1. p[1] = {"email"} /\ p[2] = {"string_like"} /\ n = 2
    BY <1>1, <1>12, HintsInOrder
  <2>2. k = "email"
    <3>1. k \in UITypesThatSatisfy({"email"})
      BY <1>1, <2>1
    <3> QED  BY <3>1, KindsHinted
  <2>3. PICK w : args[n] = Literal(w) /\ \E s \in Texts \cup {<<"%">>} : w = <<s>>
    <3>2. p[1] \notin {{"array"}, {"jsonlist"}} /\ "string_like" \in p[n]
      BY <2>1
    <3>3. PICK w : args[n] = Literal(w) /\ IsLiteralFor(k, f, p, n, w)
      BY <2>1, <1>2a
    <3> QED  BY <3>2, <3>3 DEF IsLiteralFor
  <2>6. a[2] = w /\ Asked(t) = w
    BY <1>3, <2>1, <2>3
  <2>4. \E s \in Seq(Letters) : w = <<s>>
    BY <1>12, <2>1, <2>2, <2>3, <2>6, <1>n, TextsAreOfLetters
  <2> PICK part : part = (IF v = <<>> THEN <<>> ELSE PartOf(f, v))
    OBVIOUS
  <2>5. \E s \in Seq(Letters) : part = <<>> \/ part = <<s>>
    <3>1. part = v
      BY <1>12 DEF PartOf
    <3> QED  BY <2>2, <3>1, ValuesOfKinds
  <2>7. f \in DOMAIN ExtractTests
    BY <1>12, ExtractIds
  <2> QED  BY <1>1, <2>4, <2>5, <2>6, <2>7, PartSays
<1> QED  BY <1>1, <1>4, <1>5, <1>6, <1>7, <1>8, <1>9, <1>10, <1>11, <1>12, <1>13, Zenon DEF IsDeclaredTest

-----------------------------------------------------------------------------
(***************************************************************************)
(* What a filter evaluates to once it is rewritten to names.               *)
(***************************************************************************)

\* The nodes a column and a literal are.
LEMMA LeavesSent ==
    ASSUME NEW c, NEW w, NEW n
    PROVE  /\ Rewrite(Id(c), n) = Leaf(Name(n[c])) /\ Rewrite(Literal(w), n) = Literal(w)
           /\ Id(c) # Literal(w)
<1>1. ASSUME NEW node, NEW other, other = IF node.id = "column_id" THEN Name(n[node.column]) ELSE node
      PROVE  Rewrite(Leaf(node), n) = Leaf(other)
  <2>1. PICK t : t = Leaf(node)
    OBVIOUS
  <2>2. DOMAIN t = {<<>>} /\ t[<<>>] = node
    BY <2>1, LeafTree DEF Root
  <2>3. Rewrite(t, n) = [p \in {<<>>} |-> other]
    BY <1>1, <2>2 DEF Rewrite
  <2> QED  BY <2>1, <2>3 DEF Leaf, Single
<1>2. PICK node : node = [id |-> "column_id", column |-> c]
  OBVIOUS
<1>3. node.id = "column_id" /\ node.column = c /\ Id(c) = Leaf(node)
  BY <1>2 DEF Id
<1>4. Rewrite(Id(c), n) = Leaf(Name(n[c]))
  BY <1>1, <1>3
<1>5. PICK leaf : leaf = [id |-> "literal", value |-> w]
  OBVIOUS
<1>6. leaf.id = "literal" /\ Literal(w) = Leaf(leaf)
  BY <1>5 DEF Literal
<1>7. Rewrite(Literal(w), n) = Literal(w)
  <2>1. leaf = IF leaf.id = "column_id" THEN Name(n[leaf.column]) ELSE leaf
    BY <1>6
  <2> QED  BY <1>1, <1>6, <2>1
<1>8. Id(c)[<<>>].id = "column_id" /\ Literal(w)[<<>>].id = "literal"
  BY <1>3, <1>6, LeafTree DEF Root
<1> QED  BY <1>4, <1>7, <1>8

\* A call, rewritten, is a call of what its parameters are rewritten to.
LEMMA CallRewritten ==
    ASSUME NEW t, NEW f, NEW args, IsCallOf(t, f, args), AreTrees(args), f # "column_id", NEW n,
           NEW rargs, rargs = [i \in 1 .. Len(args) |-> Rewrite(args[i], n)]
    PROVE  IsCallOf(Rewrite(t, n), f, rargs) /\ AreTrees(rargs) /\ Len(rargs) = Len(args)
<1>0. PICK r : r = Rewrite(t, n)
  OBVIOUS
<1>1. Len(rargs) = Len(args) /\ DOMAIN rargs = 1 .. Len(rargs) /\ Len(rargs) \in Nat
  BY DEF AreTrees
<1>2. \A i \in DOMAIN args : rargs[i] = Rewrite(args[i], n) /\ DOMAIN rargs[i] = DOMAIN args[i]
  BY <1>1 DEF AreTrees, Rewrite
<1>3. DOMAIN args = DOMAIN rargs
  BY <1>1 DEF AreTrees
<1>4. AreTrees(rargs)
  BY <1>1, <1>2, <1>3 DEF AreTrees, IsTree
<1>5. DOMAIN r = DOMAIN t /\ IsTree(r)
  BY <1>0 DEF IsCallOf, IsTree, Rewrite
<1>6. Root(r) = [id |-> f, arity |-> Len(rargs)]
  <2>1. t[<<>>].id = f /\ <<>> \in DOMAIN t /\ t[<<>>] = [id |-> f, arity |-> Len(args)]
    BY DEF IsCallOf, Root, IsTree
  <2>2. r[<<>>] = t[<<>>]
    BY <1>0, <2>1, RewrittenNode
  <2> QED  BY <1>1, <2>1, <2>2 DEF Root
<1>7. ASSUME NEW i \in DOMAIN args, NEW q \in DOMAIN args[i]
      PROVE  <<i>> \o q \in DOMAIN r /\ r[<<i>> \o q] = rargs[i][q]
  <2>1. PICK p, a : p = <<i>> \o q /\ a = args[i]
    OBVIOUS
  <2>2. p \in DOMAIN t /\ t[p] = a[q]
    BY <2>1 DEF IsCallOf
  <2>3. r[p] = rargs[i][q]
    <3>1. CASE t[p].id = "column_id"
      <4>1. r[p] = Name(n[t[p].column])
        BY <1>0, <2>2, <3>1, RewrittenNode
      <4>2. Rewrite(a, n)[q] = Name(n[a[q].column])
        BY <2>1, <2>2, <3>1, RewrittenNode
      <4> QED  BY <1>2, <2>1, <2>2, <4>1, <4>2
    <3>2. CASE t[p].id # "column_id"
      <4>1. r[p] = t[p]
        BY <1>0, <2>2, <3>2, RewrittenNode
      <4>2. Rewrite(a, n)[q] = a[q]
        BY <2>1, <2>2, <3>2, RewrittenNode
      <4> QED  BY <1>2, <2>1, <2>2, <4>1, <4>2
    <3> QED  BY <3>1, <3>2
  <2> QED  BY <1>5, <2>1, <2>2, <2>3
<1>8. ASSUME NEW p \in DOMAIN r, p # <<>>
      PROVE  \E i \in DOMAIN rargs : \E q \in DOMAIN rargs[i] : p = <<i>> \o q /\ r[p] = rargs[i][q]
  <2>1. PICK i \in DOMAIN args : \E q \in DOMAIN args[i] : p = <<i>> \o q /\ t[p] = args[i][q]
    BY <1>5, <1>8 DEF IsCallOf
  <2>2. PICK q \in DOMAIN args[i] : p = <<i>> \o q
    BY <2>1
  <2>3. i \in DOMAIN rargs /\ q \in DOMAIN rargs[i]
    BY <1>2, <1>3
  <2> QED  BY <1>7, <2>2, <2>3
<1>9. ASSUME NEW i \in DOMAIN rargs, NEW q \in DOMAIN rargs[i]
      PROVE  <<i>> \o q \in DOMAIN r /\ r[<<i>> \o q] = rargs[i][q]
  <2>1. i \in DOMAIN args /\ q \in DOMAIN args[i]
    BY <1>2, <1>3
  <2> QED  BY <1>7, <2>1
<1> QED  BY <1>0, <1>1, <1>4, <1>5, <1>6, <1>8, <1>9 DEF IsCallOf

\* Functions that are known are those of Base and of Packed.
LEMMA KnownAreBoth == DOMAIN KnownDbFunctions = DOMAIN Base \cup DOMAIN Packed
BY DEF KnownDbFunctions, ++

\* A test that is sent, rewritten to names, yields what its name promises of the value of
\* the column it is about.
LEMMA TestYields ==
    ASSUME NEW k \in Kinds, NEW t, NEW f, NEW args, IsSentWith(t, k, f, args),
           KnownDbFunctions[f].returns = {"boolean"}, NEW v \in {<<>>} \cup Values(k),
           NEW n, NEW valueOf, valueOf[n[Subject]] = v,
           k \in {"text", "uri", "email"} /\ Len(args) = 2 /\ f # "equal" => Asked(t) # <<<<"%">>>>
    PROVE  \E x : Yields(Rewrite(t, n), valueOf, x) /\ Says(x, HasValue(t, v), Holds(t, v))
<1>1. AreTrees(args) /\ t = Call(f, args) /\ Len(args) \in {1, 2, 3} /\ args[1] = Id(Subject)
  BY DEF IsSentWith
<1>2. f \in DOMAIN KnownDbFunctions /\ f # "column_id"
  BY IdsOfNodes DEF IsSentWith, TestsWith
<1>3. PICK rargs : rargs = [i \in 1 .. Len(args) |-> Rewrite(args[i], n)]
  OBVIOUS
<1>4. IsCallOf(Rewrite(t, n), f, rargs) /\ AreTrees(rargs) /\ Len(rargs) = Len(args)
  BY <1>1, <1>2, <1>3, CallTree, CallRewritten
<1>5. ASSUME NEW i \in DOMAIN args, i # 1 PROVE \E w : args[i] = Literal(w)
  <2>1. i = 2 \/ i = 3
    BY <1>1, <1>5 DEF AreTrees
  <2>2. CASE i = Len(args)
    BY <1>5, <2>2, LiteralsSent
  <2>3. CASE i # Len(args)
    <3>1. i = 2 /\ Len(args) = 3
      BY <1>1, <2>1, <2>3 DEF AreTrees
    <3> QED  BY <3>1 DEF IsSentWith, Dimension
  <2> QED  BY <2>2, <2>3
<1>6. PICK vals : vals = [i \in 1 .. Len(args) |-> IF i = 1 THEN v ELSE args[i][<<>>].value]
  OBVIOUS
<1>7. ASSUME NEW i \in DOMAIN args, NEW w, args[i] = Literal(w) PROVE i # 1 /\ vals[i] = w
  <2>1. i # 1
    BY <1>1, <1>7, LeavesSent
  <2>2. args[i][<<>>].value = w
    BY <1>7, LiteralNode
  <2> QED  BY <1>6, <2>1, <2>2 DEF AreTrees, IsSentWith
<1>8. ASSUME NEW i \in DOMAIN rargs PROVE Yields(rargs[i], valueOf, vals[i])
  <2>1. i \in DOMAIN args /\ rargs[i] = Rewrite(args[i], n) /\ i \in 1 .. Len(args)
    BY <1>1, <1>3 DEF AreTrees
  <2>2. CASE i = 1
    <3>1. rargs[i] = Leaf(Name(n[Subject])) /\ vals[i] = v
      BY <1>1, <1>6, <2>1, <2>2, LeavesSent
    <3> QED  BY <3>1, LeafYields, NameNode
  <2>3. CASE i # 1
    <3>1. PICK w : args[i] = Literal(w)
      BY <1>5, <2>1, <2>3
    <3>2. rargs[i] = Literal(w) /\ vals[i] = w
      BY <1>7, <2>1, <3>1, LeavesSent
    <3>3. PICK node : node = [id |-> "literal", value |-> w]
      OBVIOUS
    <3>4. node.id = "literal" /\ node.value = w /\ Literal(w) = Leaf(node)
      BY <3>3 DEF Literal
    <3> QED  BY <3>2, <3>4, LeafYields
  <2> QED  BY <2>2, <2>3
<1>9. PICK a : a = [i \in 1 .. Len(rargs) |-> vals[i]]
  OBVIOUS
<1>10. Yields(Rewrite(t, n), valueOf, CallValue(f, a))
  BY <1>2, <1>4, <1>8, <1>9, CallYields, KnownAreBoth
<1>11. a[1] = v
  BY <1>1, <1>4, <1>6, <1>9
<1>12. \A i \in DOMAIN args : \A w : args[i] = Literal(w) => a[i] = w
  BY <1>1, <1>4, <1>7, <1>9 DEF AreTrees
<1>13. Says(CallValue(f, a), HasValue(t, v), Holds(t, v))
  BY <1>11, <1>12, TestSays
<1> QED  BY <1>10, <1>13

\* The test of the flag column yields whether it is set.
LEMMA FlagYields ==
    ASSUME NEW b, NEW n, NEW valueOf, valueOf[n[Flag]] = b
    PROVE  \E x : Yields(Rewrite(FlagIsSet, n), valueOf, x) /\ Says(x, TRUE, b # <<>>)
<1>1. PICK t, f, args : t = FlagIsSet /\ f = "not_null" /\ args = <<Id(Flag)>>
  OBVIOUS
<1>2. Argument(Id(Flag), Flag)
  BY DEF Argument
<1>3. AreTrees(args) /\ Len(args) = 1 /\ t = Call(f, args)
  BY <1>1, <1>2, OneArgument DEF FlagIsSet
<1>4. f \in DOMAIN KnownDbFunctions /\ f # "column_id"
  BY <1>1, NotNullIsKnown
<1>5. PICK rargs : rargs = [i \in 1 .. Len(args) |-> Rewrite(args[i], n)]
  OBVIOUS
<1>6. IsCallOf(Rewrite(t, n), f, rargs) /\ AreTrees(rargs) /\ Len(rargs) = Len(args)
  BY <1>3, <1>4, <1>5, CallTree, CallRewritten
<1>7. PICK vals : vals = <<b>>
  OBVIOUS
<1>8. ASSUME NEW i \in DOMAIN rargs PROVE Yields(rargs[i], valueOf, vals[i])
  <2>1. i = 1 /\ i \in 1 .. Len(args)
    BY <1>3, <1>6 DEF AreTrees
  <2>2. rargs[i] = Leaf(Name(n[Flag])) /\ vals[i] = b
    BY <1>1, <1>5, <1>7, <2>1, LeavesSent
  <2> QED  BY <2>2, LeafYields, NameNode
<1>9. PICK a : a = [i \in 1 .. Len(rargs) |-> vals[i]]
  OBVIOUS
<1>10. Yields(Rewrite(t, n), valueOf, CallValue(f, a))
  BY <1>4, <1>6, <1>8, <1>9, CallYields, KnownAreBoth
<1>11. a[1] = b
  BY <1>3, <1>6, <1>7, <1>9
<1>12. Root(t).id = f
  BY <1>3, CallTree DEF IsCallOf
<1>13. Says(CallValue(f, a), HasValue(t, b), Holds(t, b))
  BY <1>1, <1>4, <1>11, <1>12, NullSays
<1>14. HasValue(t, b) /\ (Holds(t, b) <=> b # <<>>)
  <2>1. Root(t).id = "not_null"
    BY <1>1, <1>12
  <2>2. HasValue(t, b)
    BY <2>1 DEF HasValue
  <2>3. Holds(t, b) <=> b # <<>>
    BY <2>1, LengthTestIds, ExtractIds DEF Holds
  <2> QED  BY <2>2, <2>3
<1>15. Says(CallValue(f, a), TRUE, b # <<>>)
  BY <1>13, <1>14 DEF Says
<1> QED  BY <1>1, <1>10, <1>15

\* The first parameter of a call is the tree it was given.
LEMMA ParamOfCall ==
    ASSUME NEW f, NEW args, AreTrees(args), Len(args) # 0, NEW u, u = args[1],
           u = [q \in DOMAIN u |-> u[q]]
    PROVE  Param(Call(f, args), 1) = u
<1>1. PICK t : t = Call(f, args)
  OBVIOUS
<1>2. IsCallOf(t, f, args)
  BY <1>1, CallTree
<1>3. 1 \in DOMAIN args /\ DOMAIN u \subseteq Seq(Nat)
  BY DEF AreTrees, IsTree
<1>4. PICK D : D = {Tail(q) : q \in {q \in DOMAIN t : q # <<>> /\ Head(q) = 1}}
  OBVIOUS
<1>5. ASSUME NEW q \in DOMAIN u
      PROVE  q \in D /\ t[<<1>> \o q] = u[q]
  <2>1. PICK p : p = <<1>> \o q
    OBVIOUS
  <2>2. p \in DOMAIN t /\ t[p] = u[q]
    BY <1>2, <1>3, <2>1 DEF IsCallOf
  <2>3. p # <<>> /\ Head(p) = 1 /\ Tail(p) = q
    BY <1>3, <2>1, PlaceBelow
  <2> QED  BY <1>4, <2>1, <2>2, <2>3
<1>6. ASSUME NEW d \in D PROVE d \in DOMAIN u
  <2>1. PICK p \in DOMAIN t : p # <<>> /\ Head(p) = 1 /\ d = Tail(p)
    BY <1>4
  <2>2. PICK i \in DOMAIN args : \E q \in DOMAIN args[i] : p = <<i>> \o q
    BY <1>2, <2>1 DEF IsCallOf
  <2>3. PICK q \in DOMAIN args[i] : p = <<i>> \o q
    BY <2>2
  <2>4. i \in Nat /\ q \in Seq(Nat)
    BY DEF AreTrees, IsTree
  <2>5. Head(p) = i /\ Tail(p) = q
    BY <2>3, <2>4, PlaceBelow
  <2> QED  BY <2>1, <2>5
<1>7. D = DOMAIN u
  BY <1>5, <1>6
<1>8. Param(t, 1) = [p \in D |-> t[<<1>> \o p]]
  BY <1>4 DEF Param
<1>9. Param(t, 1) = [q \in DOMAIN u |-> u[q]]
  BY <1>5, <1>7, <1>8
<1> QED  BY <1>1, <1>9

\* What a connective is put on is what its test is.
LEMMA TestOfConnective ==
    ASSUME NEW g \in Connectives, NEW args, AreTrees(args), Len(args) # 0,
           NEW f, NEW uargs, args[1] = Call(f, uargs)
    PROVE  Test(Call(g, args)) = args[1] /\ Root(Call(g, args)).id = g
<1>1. Root(Call(g, args)).id = g
  BY CallTree DEF IsCallOf
<1>2. PICK u : u = args[1]
  OBVIOUS
<1>3. u = [q \in DOMAIN u |-> u[q]]
  BY <1>2 DEF Call
<1>4. Param(Call(g, args), 1) = u
  BY <1>2, <1>3, ParamOfCall
<1> QED  BY <1>1, <1>2, <1>4 DEF Test

\* A call is about the columns its parameters are about.
LEMMA IdsOfCall ==
    ASSUME NEW t, NEW f, NEW args, IsCallOf(t, f, args), NEW i \in DOMAIN args
    PROVE  IdsIn(args[i]) \subseteq IdsIn(t)
<1>1. SUFFICES ASSUME NEW q \in DOMAIN args[i], args[i][q].id = "column_id"
               PROVE  args[i][q].column \in IdsIn(t)
  BY DEF IdsIn, Nodes
<1>2. <<i>> \o q \in DOMAIN t /\ t[<<i>> \o q] = args[i][q]
  BY DEF IsCallOf
<1> QED  BY <1>1, <1>2 DEF IdsIn, Nodes

\* A column's id is about the column.
LEMMA IdsOfId == ASSUME NEW c PROVE c \in IdsIn(Id(c))
<1>1. PICK node : node = [id |-> "column_id", column |-> c]
  OBVIOUS
<1>2. node.id = "column_id" /\ node.column = c /\ Id(c) = Leaf(node)
  BY <1>1 DEF Id
<1>3. Nodes(Id(c)) = {node}
  BY <1>2, LeafTree
<1> QED  BY <1>2, <1>3 DEF IdsIn

\* The root of a filter that is a condition is one of a function that returns a boolean.
LEMMA RootIsBoolean ==
    ASSUME NEW u, NEW f, NEW uargs, IsCallOf(u, f, uargs), f # "column_id", NEW n,
           IsBoolean(Rewrite(u, n))
    PROVE  KnownDbFunctions[f].returns = {"boolean"}
<1>0. PICK s, root : s = Rewrite(u, n) /\ root = <<>>
  OBVIOUS
<1>1. root \in DOMAIN s /\ s[root] = [id |-> f, arity |-> Len(uargs)]
  <2>1. u[root] = [id |-> f, arity |-> Len(uargs)] /\ root \in DOMAIN u /\ u[root].id = f
    BY <1>0 DEF IsCallOf, Root, IsTree
  <2> QED  BY <1>0, <2>1, RewrittenNode
<1>2. IsCondition(s, root)
  <2>1. Len(root) = 0
    BY <1>0
  <2> QED  BY <2>1 DEF IsCondition
<1>3. GivesBoolean(s[root])
  BY <1>0, <1>1, <1>2 DEF IsBoolean
<1>4. IsCall(s[root]) /\ s[root].id = f
  BY <1>1 DEF IsCall
<1> QED  BY <1>3, <1>4 DEF GivesBoolean

\* And so is that of the first operand of a connective.
LEMMA OperandIsBoolean ==
    ASSUME NEW t, NEW g \in Connectives, NEW args, IsCallOf(t, g, args), AreTrees(args), Len(args) # 0,
           NEW f, NEW uargs, IsCallOf(args[1], f, uargs), f # "column_id", NEW n,
           IsBoolean(Rewrite(t, n))
    PROVE  KnownDbFunctions[f].returns = {"boolean"}
<1>0. PICK s, root, p, u : s = Rewrite(t, n) /\ root = <<>> /\ p = <<1>> /\ u = args[1]
  OBVIOUS
<1>1. root \in DOMAIN s /\ s[root].id = g
  <2>1. t[root].id = g /\ root \in DOMAIN t /\ g # "column_id"
    BY <1>0 DEF IsCallOf, Root, IsTree, Connectives
  <2> QED  BY <1>0, <2>1, RewrittenNode
<1>2. p \in DOMAIN s /\ s[p] = [id |-> f, arity |-> Len(uargs)]
  <2>1. u[root] = [id |-> f, arity |-> Len(uargs)] /\ root \in DOMAIN u /\ u[root].id = f
    BY <1>0 DEF IsCallOf, Root, IsTree
  <2>2. 1 \in DOMAIN args /\ <<1>> \o root = p
    BY <1>0 DEF AreTrees
  <2>3. p \in DOMAIN t /\ t[p] = u[root]
    BY <1>0, <2>1, <2>2 DEF IsCallOf
  <2> QED  BY <1>0, <2>1, <2>3, RewrittenNode
<1>3. IsCondition(s, p)
  <2>1. Len(p) = 1 /\ SubSeq(p, 1, 0) = root
    BY <1>0
  <2>2. \A j \in 0 .. Len(p) - 1 : j = 0
    BY <2>1
  <2> QED  BY <1>1, <2>1, <2>2 DEF IsCondition
<1>4. GivesBoolean(s[p])
  BY <1>0, <1>2, <1>3 DEF IsBoolean
<1>5. IsCall(s[p]) /\ s[p].id = f
  BY <1>2 DEF IsCall
<1> QED  BY <1>4, <1>5 DEF GivesBoolean

\* A connective of trees that yield truths, rewritten, evaluates to what it makes of them.
LEMMA ConnectiveEvaluates ==
    ASSUME NEW g \in Connectives, NEW args, AreTrees(args), NEW n, NEW valueOf, NEW vals,
           \A i \in DOMAIN args : Yields(Rewrite(args[i], n), valueOf, vals[i]),
           NEW a, a = [i \in 1 .. Len(args) |-> vals[i]]
    PROVE  Evaluate(Rewrite(Call(g, args), n), valueOf) = Apply(g, a)
<1>1. PICK t : t = Call(g, args)
  OBVIOUS
<1>2. g \in DOMAIN KnownDbFunctions /\ g \in BaseIds /\ g # "column_id"
  BY ConnectivesAreKnown DEF BaseIds, Connectives
<1>3. PICK rargs : rargs = [i \in 1 .. Len(args) |-> Rewrite(args[i], n)]
  OBVIOUS
<1>4. IsCallOf(Rewrite(t, n), g, rargs) /\ AreTrees(rargs) /\ Len(rargs) = Len(args)
  BY <1>1, <1>2, <1>3, CallTree, CallRewritten
<1>5. ASSUME NEW i \in DOMAIN rargs PROVE Yields(rargs[i], valueOf, vals[i])
  <2>1. i \in DOMAIN args /\ rargs[i] = Rewrite(args[i], n)
    BY <1>3, <1>4 DEF AreTrees
  <2> QED  BY <2>1
<1>6. PICK b : b = [i \in 1 .. Len(rargs) |-> vals[i]]
  OBVIOUS
<1>7. Yields(Rewrite(t, n), valueOf, CallValue(g, b))
  BY <1>2, <1>4, <1>5, <1>6, CallYields, KnownAreBoth
<1>8. b = a
  BY <1>4, <1>6
<1>9. Evaluate(Rewrite(t, n), valueOf) = CallValue(g, a)
  BY <1>7, <1>8, EvaluatesToYield
<1> QED  BY <1>1, <1>2, <1>9, CallsOfKnown

\* A filter that is a condition and is evaluated on a row that has the values of its columns
\* says whether it selects the row.
LEMMA FilterSelects ==
    ASSUME kind \in Kinds, NEW t \in Combined(kind), NEW n, NEW r, NEW valueOf,
           \A c \in IdsIn(t) : valueOf[n[c]] = r[c], r[Subject] \in {<<>>} \cup Values(kind),
           IsBoolean(Rewrite(t, n)), NoWildcard(t)
    PROVE  Evaluate(Rewrite(t, n), valueOf) = <<TRUE>> <=> Selects(t, r)
<1>0. PICK v : v = r[Subject]
  OBVIOUS
<1>1. PICK u \in Tests(kind) : \/ t = u \/ t = Call("not", <<u>>)
                               \/ \E g \in {"and", "or"} : t = Call(g, <<u, FlagIsSet>>)
  BY DEF Combined
<1>2. PICK f, uargs : IsSentWith(u, kind, f, uargs)
  BY TestsAreSentWith
<1>3. /\ AreTrees(uargs) /\ u = Call(f, uargs) /\ Len(uargs) \in {1, 2, 3} /\ f \notin Connectives
      /\ uargs[1] = Id(Subject) /\ f \in DOMAIN KnownDbFunctions
  BY <1>2 DEF IsSentWith, TestsWith
<1>4. IsCallOf(u, f, uargs) /\ f # "column_id" /\ Root(u) = [id |-> f, arity |-> Len(uargs)]
  <2>1. IsCallOf(u, f, uargs)
    BY <1>3, CallTree
  <2>2. f # "column_id"
    BY <1>3, IdsOfNodes
  <2> QED  BY <2>1, <2>2 DEF IsCallOf
<1>5. Subject \in IdsIn(u)
  <2>1. 1 \in DOMAIN uargs
    BY <1>3 DEF AreTrees
  <2> QED  BY <1>3, <1>4, <2>1, IdsOfCall, IdsOfId
<1>6. ASSUME Test(t) = u, KnownDbFunctions[f].returns = {"boolean"}, Subject \in IdsIn(t)
      PROVE  \E x : Yields(Rewrite(u, n), valueOf, x) /\ Says(x, HasValue(u, v), Holds(u, v))
  <2>1. kind \in {"text", "uri", "email"} /\ Len(uargs) = 2 /\ f # "equal" => Asked(u) # <<<<"%">>>>
    BY <1>4, <1>6 DEF NoWildcard
  <2>2. valueOf[n[Subject]] = v
    BY <1>0, <1>6
  <2>3. v \in {<<>>} \cup Values(kind)
    BY <1>0
  <2> QED  BY <1>2, <1>6, <2>1, <2>2, <2>3, TestYields
<1>7. CASE t = u
  <2>1. Root(t).id \notin Connectives /\ Test(t) = u
    BY <1>3, <1>4, <1>7 DEF Test
  <2>2. KnownDbFunctions[f].returns = {"boolean"}
    BY <1>4, <1>7, RootIsBoolean
  <2>3. PICK x : Yields(Rewrite(u, n), valueOf, x) /\ Says(x, HasValue(u, v), Holds(u, v))
    BY <1>5, <1>6, <1>7, <2>1, <2>2
  <2>4. Evaluate(Rewrite(t, n), valueOf) = x
    BY <1>7, <2>3, EvaluatesToYield
  <2>5. Selects(t, r) <=> HasValue(u, v) /\ Holds(u, v)
    BY <1>0, <2>1 DEF Selects, Connectives
  <2> QED  BY <2>3, <2>4, <2>5, ThreeTruths DEF Says
<1>8. CASE t = Call("not", <<u>>)
  <2>1. PICK args : args = <<u>>
    OBVIOUS
  <2>2. AreTrees(args) /\ Len(args) = 1 /\ args[1] = u /\ t = Call("not", args)
    BY <1>4, <1>8, <2>1 DEF AreTrees, IsCallOf
  <2>3. "not" \in Connectives
    BY DEF Connectives
  <2>4. Test(t) = u /\ Root(t).id = "not" /\ IsCallOf(t, "not", args)
    BY <1>3, <2>2, <2>3, TestOfConnective, CallTree
  <2>5. KnownDbFunctions[f].returns = {"boolean"}
    <3>1. IsCallOf(args[1], f, uargs) /\ Len(args) # 0
      BY <1>4, <2>2
    <3> QED  BY <1>4, <2>2, <2>3, <2>4, <3>1, OperandIsBoolean
  <2>6. Subject \in IdsIn(t)
    <3>1. 1 \in DOMAIN args
      BY <2>2 DEF AreTrees
    <3> QED  BY <1>5, <2>2, <2>4, <3>1, IdsOfCall
  <2>7. PICK x : Yields(Rewrite(u, n), valueOf, x) /\ Says(x, HasValue(u, v), Holds(u, v))
    BY <1>6, <2>4, <2>5, <2>6
  <2>8. PICK a : a = <<x>>
    OBVIOUS
  <2>9. a = [i \in 1 .. Len(args) |-> a[i]] /\ a[1] = x
    BY <2>2, <2>8
  <2>10. \A i \in DOMAIN args : Yields(Rewrite(args[i], n), valueOf, a[i])
    BY <2>2, <2>7, <2>9 DEF AreTrees
  <2>11. Evaluate(Rewrite(t, n), valueOf) = Apply("not", a)
    BY <2>2, <2>3, <2>9, <2>10, ConnectiveEvaluates
  <2>12. x \in Truths /\ (x = <<FALSE>> <=> HasValue(u, v) /\ ~Holds(u, v))
    BY <2>7, ThreeTruths DEF Says, Truths
  <2>13. Apply("not", a) = Negation(x)
    BY <2>8, <2>12, ConnectivesSay
  <2>14. Negation(x) = <<TRUE>> <=> x = <<FALSE>>
    BY <2>12, ThreeTruths DEF Truths
  <2>15. Selects(t, r) <=> HasValue(u, v) /\ ~Holds(u, v)
    BY <1>0, <2>4 DEF Selects
  <2> QED  BY <2>11, <2>12, <2>13, <2>14, <2>15
<1>9. ASSUME NEW g \in {"and", "or"}, t = Call(g, <<u, FlagIsSet>>)
      PROVE  Evaluate(Rewrite(t, n), valueOf) = <<TRUE>> <=> Selects(t, r)
  <2>1. PICK args : args = <<u, FlagIsSet>>
    OBVIOUS
  <2>2. AreTrees(args) /\ Len(args) = 2 /\ args[1] = u /\ args[2] = FlagIsSet /\ t = Call(g, args)
    <3>1. IsTree(FlagIsSet)
      BY FlagTest, TestTrees DEF IsTestTree
    <3> QED  BY <1>4, <1>9, <2>1, <3>1 DEF AreTrees, IsCallOf
  <2>3. g \in Connectives
    BY DEF Connectives
  <2>4. Test(t) = u /\ Root(t).id = g /\ IsCallOf(t, g, args)
    BY <1>3, <2>2, <2>3, TestOfConnective, CallTree
  <2>5. KnownDbFunctions[f].returns = {"boolean"}
    <3>1. IsCallOf(args[1], f, uargs) /\ Len(args) # 0
      BY <1>4, <2>2
    <3> QED  BY <1>4, <2>2, <2>3, <2>4, <3>1, OperandIsBoolean
  <2>6. Subject \in IdsIn(t) /\ Flag \in IdsIn(t)
    <3>1. 1 \in DOMAIN args /\ 2 \in DOMAIN args
      BY <2>2 DEF AreTrees
    <3>2. Flag \in IdsIn(FlagIsSet)
      <4>1. PICK fargs : fargs = <<Id(Flag)>>
        OBVIOUS
      <4>2. AreTrees(fargs) /\ fargs[1] = Id(Flag) /\ 1 \in DOMAIN fargs
        BY <4>1, OneArgument DEF Argument
      <4>3. IsCallOf(FlagIsSet, "not_null", fargs)
        BY <4>1, <4>2, CallTree DEF FlagIsSet
      <4> QED  BY <4>2, <4>3, IdsOfCall, IdsOfId
    <3>3. IdsIn(u) \subseteq IdsIn(t) /\ IdsIn(FlagIsSet) \subseteq IdsIn(t)
      BY <2>2, <2>4, <3>1, IdsOfCall
    <3> QED  BY <1>5, <3>2, <3>3
  <2>7. PICK x : Yields(Rewrite(u, n), valueOf, x) /\ Says(x, HasValue(u, v), Holds(u, v))
    BY <1>6, <2>4, <2>5, <2>6
  <2>8. PICK y : Yields(Rewrite(FlagIsSet, n), valueOf, y) /\ Says(y, TRUE, r[Flag] # <<>>)
    BY <2>6, FlagYields
  <2>9. PICK a : a = <<x, y>>
    OBVIOUS
  <2>10. a = [i \in 1 .. Len(args) |-> a[i]] /\ a[1] = x /\ a[2] = y
    BY <2>2, <2>9
  <2>11. \A i \in DOMAIN args : Yields(Rewrite(args[i], n), valueOf, a[i])
    BY <2>2, <2>7, <2>8, <2>10 DEF AreTrees
  <2>12. Evaluate(Rewrite(t, n), valueOf) = Apply(g, a)
    BY <2>2, <2>3, <2>10, <2>11, ConnectiveEvaluates
  <2>13. x \in Truths /\ (x = <<TRUE>> <=> HasValue(u, v) /\ Holds(u, v))
    BY <2>7, ThreeTruths DEF Says, Truths
  <2>14. y \in Truths /\ (y = <<TRUE>> <=> r[Flag] # <<>>)
    BY <2>8, ThreeTruths DEF Says, Truths
  <2>15. CASE g = "and"
    <3>1. Apply("and", a) = <<TRUE>> <=> x = <<TRUE>> /\ y = <<TRUE>>
      BY <2>9, <2>13, <2>14, ConnectivesSay
    <3>2. Selects(t, r) <=> (HasValue(u, v) /\ Holds(u, v)) /\ r[Flag] # <<>>
      BY <1>0, <2>4, <2>15 DEF Selects
    <3> QED  BY <2>12, <2>13, <2>14, <2>15, <3>1, <3>2
  <2>16. CASE g = "or"
    <3>1. Apply("or", a) = <<TRUE>> <=> x = <<TRUE>> \/ y = <<TRUE>>
      BY <2>9, <2>13, <2>14, ConnectivesSay
    <3>2. Selects(t, r) <=> (HasValue(u, v) /\ Holds(u, v)) \/ r[Flag] # <<>>
      BY <1>0, <2>4, <2>16 DEF Selects
    <3> QED  BY <2>12, <2>13, <2>14, <2>16, <3>1, <3>2
  <2> QED  BY <2>15, <2>16
<1> QED  BY <1>1, <1>7, <1>8, <1>9

-----------------------------------------------------------------------------
(***************************************************************************)
(* Filters mean what they say.                                             *)
(***************************************************************************)

\* The row looked at has a value of the kind of the subject column, and what has been
\* answered is right.
MeaningInv ==
    /\ row[Subject] \in {<<>>} \cup Values(kind)
    /\ FiltersMeanWhatTheySay

\* The row is typed at the start, and nothing is answered.
LEMMA InitMeans == Init => MeaningInv
<1> SUFFICES ASSUME Init PROVE MeaningInv
  OBVIOUS
<1>1. PICK v \in {<<>>} \cup Values(kind) : \E b \in {<<>>, <<TRUE>>} :
          row = Single(Subject, v) ++ Single(Flag, b)
  BY DEF Init
<1>2. PICK b : row = Single(Subject, v) ++ Single(Flag, b)
  BY <1>1
<1>3. row[Subject] = v
  BY <1>2 DEF ++, Single
<1>4. answer = "none"
  BY DEF Init
<1> QED  BY <1>1, <1>3, <1>4 DEF MeaningInv, FiltersMeanWhatTheySay

\* Nothing but the end of a query answers with rows.
LEMMA OthersAnswerNoRows ==
    ASSUME MeaningInv, UNCHANGED <<table, filter>>, answer' = answer \/ answer' \notin {"row", "no_row"}
    PROVE  MeaningInv'
<1>1. kind' = kind /\ row' = row /\ filter' = filter
  BY DEF table
<1>2. FiltersMeanWhatTheySay'
  <2>1. CASE answer' = answer
    <3>1. NoWildcard(filter)' = NoWildcard(filter)
      BY <1>1 DEF NoWildcard
    <3> QED  BY <1>1, <2>1, <3>1 DEF MeaningInv, FiltersMeanWhatTheySay
  <2>2. CASE answer' \notin {"row", "no_row"}
    BY <2>2 DEF FiltersMeanWhatTheySay
  <2> QED  BY <2>1, <2>2
<1> QED  BY <1>1, <1>2 DEF MeaningInv

\* The query is answered with the row just if the filter selects it.
LEMMA RunQueryMeans ==
    ASSUME FollowsInv, OfferedInv, MeaningInv, RunQuery
    PROVE  MeaningInv'
<1>1. UNCHANGED <<table, filter>>
  BY DEF RunQuery, Fail
<1>2. kind' = kind /\ row' = row /\ filter' = filter
  BY <1>1 DEF table
<1>3. PICK valueOf : valueOf = [n \in {names[c] : c \in DOMAIN names} |-> row[ColumnNamed(n)]]
  OBVIOUS
<1>4. \/ answer' = answer \/ answer' \notin {"row", "no_row"}
      \/ /\ ReadsItsColumns /\ IsBoolean(spec) /\ answer' \in {"row", "no_row"}
         /\ answer' = "row" <=> Evaluate(spec, valueOf) = <<TRUE>>
  BY <1>3 DEF RunQuery, Fail
<1>5. CASE answer' = answer \/ answer' \notin {"row", "no_row"}
  BY <1>1, <1>5, OthersAnswerNoRows
<1>6. CASE /\ ReadsItsColumns /\ IsBoolean(spec) /\ answer' \in {"row", "no_row"}
           /\ answer' = "row" <=> Evaluate(spec, valueOf) = <<TRUE>>
  <2>1. SUFFICES ASSUME filter \notin Odd, NoWildcard(filter)
                 PROVE  answer' = "row" <=> Selects(filter, row)
    <3>1. NoWildcard(filter)' = NoWildcard(filter)
      BY <1>2 DEF NoWildcard
    <3> QED  BY <1>2, <1>6, <3>1 DEF MeaningInv, FiltersMeanWhatTheySay
  <2>2. filter \in Combined(kind) /\ kind \in Kinds /\ IsInjective(names)
    BY <2>1 DEF OfferedInv, FollowsInv, TypeOK
  <2>3. spec = Rewrite(filter, names) /\ IdsIn(filter) \subseteq DOMAIN names
    BY <1>6 DEF ReadsItsColumns
  <2>4. ASSUME NEW c \in IdsIn(filter) PROVE valueOf[names[c]] = row[c]
    <3>1. c \in DOMAIN names
      BY <2>3
    <3>2. PICK d : d = ColumnNamed(names[c])
      OBVIOUS
    <3>3. d \in DOMAIN names /\ names[d] = names[c]
      BY <3>1, <3>2, Zenon DEF ColumnNamed
    <3>4. d = c
      BY <2>2, <3>1, <3>3 DEF IsInjective
    <3> QED  BY <1>3, <3>1, <3>2, <3>4
  <2>5. row[Subject] \in {<<>>} \cup Values(kind)
    BY DEF MeaningInv
  <2>6. Evaluate(spec, valueOf) = <<TRUE>> <=> Selects(filter, row)
    BY <1>6, <2>1, <2>2, <2>3, <2>4, <2>5, FilterSelects
  <2> QED  BY <1>6, <2>6
<1> QED  BY <1>4, <1>5, <1>6

\* Every step keeps the invariant.
LEMMA NextMeans == ASSUME FollowsInv, OfferedInv, MeaningInv, [Next]_vars PROVE MeaningInv'
<1>1. CASE RewriteFilter
  <2>1. UNCHANGED <<table, filter>> /\ (answer' = answer \/ answer' \notin {"row", "no_row"})
    BY <1>1 DEF RewriteFilter, Fail
  <2> QED  BY <2>1, OthersAnswerNoRows
<1>2. CASE BuildQuery
  <2>1. UNCHANGED <<table, filter>> /\ (answer' = answer \/ answer' \notin {"row", "no_row"})
    BY <1>2 DEF BuildQuery, Fail
  <2> QED  BY <2>1, OthersAnswerNoRows
<1>3. CASE RunQuery
  BY <1>3, RunQueryMeans
<1>4. CASE \E c \in DOMAIN names : OthersDrop(c) \/ \E n \in Names : OthersRename(c, n)
  <2>1. UNCHANGED <<table, filter>> /\ answer' = answer
    BY <1>4 DEF OthersDrop, OthersRename
  <2> QED  BY <2>1, OthersAnswerNoRows
<1>5. CASE UNCHANGED vars
  <2>1. UNCHANGED <<table, filter>> /\ answer' = answer
    BY <1>5 DEF vars
  <2> QED  BY <2>1, OthersAnswerNoRows
<1> QED  BY <1>1, <1>2, <1>3, <1>4, <1>5 DEF Next

\* A filter selects the rows its name and its values promise, alone, negated and in company,
\* on rows with and without values, whatever the others do to the table meanwhile: what a
\* function unpacks to, the default for empty arrays, LIKE and SQL's third truth value do
\* not get in the way.
THEOREM FiltersMeanWhatTheySayHolds == Spec => []FiltersMeanWhatTheySay
<1>1. Init => FollowsInv /\ OfferedInv /\ MeaningInv
  BY InitFollows, InitOffers, InitMeans
<1>2. FollowsInv /\ OfferedInv /\ MeaningInv /\ [Next]_vars
        => (FollowsInv /\ OfferedInv /\ MeaningInv)'
  BY NextFollows, NextOffers, NextMeans
<1>3. FollowsInv /\ OfferedInv /\ MeaningInv => FiltersMeanWhatTheySay
  BY DEF MeaningInv
<1> QED  BY <1>1, <1>2, <1>3, PTL DEF Spec

=============================================================================
