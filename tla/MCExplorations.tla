----------------------------- MODULE MCExplorations -----------------------------
(* The values TLC checks Explorations with: authors, the cities they live in and    *)
(* the articles they wrote.                                                          *)
EXTENDS Explorations

MCColumns == {<<"author", n>> : n \in 1..4} \union {<<"city", n>> : n \in 1..2}
             \union {<<"article", n>> : n \in 1..3}
Id == <<"author", 1>>
Nickname == <<"author", 2>>
Lives == <<"author", 3>>
Cv == <<"author", 4>>
City == <<"city", 1>>
CityName == <<"city", 2>>
Article == <<"article", 1>>
Author == <<"article", 2>>
Editor == <<"article", 3>>
MCForeignKeys == {<<Lives, City>>, <<Author, Id>>, <<Editor, Id>>}
MCPrimaryKeys == {Id, City, Article}
MCTemplates == "author" :> <<Nickname, Lives>>
MCConstraints == {{Id}, {City}, {Article}, {CityName, City}}

MCJson == {Cv}
Person(id, name, city) == <<<<id>>, name, city, <<7>>>>
MCContents ==
    {[author |-> <<Person(1, <<5>>, <<1>>), Person(2, <<5>>, <<>>)>>,
      city |-> <<<<<<1>>, <<5, 6>>>>>>,
      article |-> <<<<<<1>>, <<1>>, <<2>>>>, <<<<2>>, <<1>>, <<>>>>>>],
     [author |-> <<Person(1, <<5, 6>>, <<1>>), Person(2, <<15>>, <<2>>), Person(3, <<>>, <<1>>)>>,
      city |-> <<<<<<1>>, <<5>>>>, <<<<2>>, <<5>>>>>>,
      article |-> <<<<<<1>>, <<3>>, <<2>>>>>>],
     [author |-> <<>>, city |-> <<>>, article |-> <<>>]}
\* The second is of an author there already is, in all databases but the empty one.
MCInsertions == {<<"author", Person(4, <<5>>, <<1>>)>>, <<"author", Person(1, <<5>>, <<>>)>>}

I(alias, column, id, path) == InitialColumn(<<alias>>, column, id, path)
ToCity == <<Lives, City>>
ToArticle == <<Id, Author>>
Authors == <<I("id", Id, 1, <<>>), I("name", Nickname, 2, <<>>)>>
Living == <<I("id", Id, 1, <<>>), I("name", Nickname, 2, <<>>), I("city", CityName, 6, <<ToCity>>)>>
Writing == <<I("id", Id, 1, <<>>), I("article", Article, 7, <<ToArticle>>)>>
Cities == <<I("city", City, 5, <<ToCity>>), I("called", CityName, 6, <<ToCity>>), I("name", Nickname, 2, <<>>)>>
Documents == <<I("id", Id, 1, <<>>), I("cv", Cv, 4, <<>>)>>
Articles == <<I("city", CityName, 6, <<<<Author, Id>>, ToCity>>), I("article", Article, 7, <<>>)>>

Summary(base, grouping, aggregation) ==
    Transform("summarize", [base |-> base, grouping |-> grouping, aggregation |-> aggregation])
By(alias) == Summary(alias, <<Grouping(alias, Append(alias, "grouped"), "none")>>, <<>>)
MCQueries ==
    {Query("author", Authors, <<>>),
     Query("author", Living, <<Transform("hide", {<<"id">>})>>),
     Query("author", Living, <<By(<<"id">>)>>),
     Query("author", Writing, <<By(<<"id">>)>>),
     Query("author", Cities, <<By(<<"city">>)>>),
     Query("author", Living, <<By(<<"city">>), Transform("hide", {<<"name", "agged">>})>>),
     Query("author", Living, <<Summary(<<"name">>, <<Grouping(<<"name">>, <<"half">>, "half")>>,
                                       <<Aggregation(<<"id">>, <<"number">>, "count")>>)>>),
     Query("author", Authors, <<Transform("order", <<Key(<<"name">>, "desc", "default")>>)>>),
     Query("author", Living, <<Transform("duplicate_only", {<<"name">>})>>),
     Query("author", Living, <<Transform("filter", [field |-> <<"name">>, value |-> <<5>>]),
                               Transform("select", <<<<"city">>>>)>>),
     Query("author", Documents, <<>>),
     Query("article", Articles, <<By(<<"article">>), By(<<"article", "grouped">>)>>)}
MCSavedQueries == {Query("author", Authors, <<>>), Query("author", Living, <<By(<<"id">>)>>)}

Group(mode, by, preproc, number, bounds) ==
    [NoListing EXCEPT !.group = {GroupBy(mode, by, preproc, number, bounds)}]
MCListings ==
    {NoListing,
     [NoListing EXCEPT !.filter = {[field |-> <<"name">>, value |-> <<5>>]}],
     [NoListing EXCEPT !.duplicates = {<<"name">>}],
     [NoListing EXCEPT !.order = <<Key(<<"name">>, "asc", "first")>>],
     [NoListing EXCEPT !.search = {<<"name">> :> <<5>>}],
     Group("distinct", <<<<"name">>>>, <<>>, 0, <<>>),
     Group("distinct", <<<<"name">>>>, <<"half">>, 0, <<>>),
     Group("extract", <<<<"id">>>>, <<>>, 2, <<>>),
     Group("prefix", <<<<"name">>>>, <<>>, 1, <<>>),
     Group("magnitude", <<<<"id">>>>, <<>>, 0, <<>>),
     Group("percentile", <<<<"name">>, <<"id">>>>, <<>>, 2, <<>>),
     Group("endpoints", <<<<"id">>>>, <<>>, 0, <<<<<<1>>>>, <<<<3>>>>>>),
     Group("count_by", <<<<"id">>>>, <<>>, 1, <<1, 3>>),
     Group("prefix", <<<<"name">>, <<"id">>>>, <<>>, 1, <<>>)}
MCTableListings ==
    {<<"article", NoListing>>,
     <<"article", [NoListing EXCEPT !.filter = {[field |-> Named(Author), value |-> <<1>>]}]>>,
     <<"article", Group("distinct", <<Named(Editor)>>, <<>>, 0, <<>>)>>,
     <<"article", Group("endpoints", <<Named(Article)>>, <<>>, 0, <<<<<<1>>>>, <<<<3>>>>>>)>>,
     <<"author", NoListing>>}
=============================================================================
