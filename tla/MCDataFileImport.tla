---------------------------- MODULE MCDataFileImport ----------------------------
(***************************************************************************)
(* Uploads of one column of values, and uploads that have ids, odd names,   *)
(* rows of another length, nested objects, empty cells, or another form     *)
(* than their name says.                                                    *)
(***************************************************************************)
EXTENDS DataFileImport

Upload(form, extension, lines, objects) ==
    [source |-> "file", form |-> form, extension |-> extension, header |-> TRUE, max_level |-> 0,
     lines |-> lines, objects |-> objects]
Text(lines) == Upload("delimited", "csv", lines, <<>>)
Sheet(lines) == Upload("sheet", "xlsx", lines, <<>>)
Json(lines, objects) == Upload("json", "json", lines, objects)
Object(names, row) == [i \in DOMAIN names |-> [path |-> <<names[i]>>, text |-> row[i]]]
\* The same columns and rows in each form.
Table(form, names, rows) ==
    IF form = "csv" THEN Text(<<names>> \o rows)
    ELSE IF form = "excel" THEN Sheet(<<names>> \o rows)
    ELSE Json(<<>>, [i \in DOMAIN rows |-> Object(names, rows[i])])

MCTexts == {"0", "1", "2.5", "2.555", "40000", "$2.50", "t", "day", "day 2h",
            "day 2h+0", "day 0h+2", "2h", "2h+2", "3 days", "a@b.co", "x.org", "x.org/A",
            "http://x.org/a", "[1]", "{}", "true"}
MCPairs == {<<"1", "2.5">>, <<"1", Null>>, <<"1", "t">>, <<"2.5", "$2.50">>, <<"day", "day 2h">>,
            <<"day 2h", "day 2h+0">>, <<"x.org", "3 days">>, <<Null, Null>>}
Nested == Json(<<<<"{v: {w: 1", " x: t}}">>>>,
               <<<<[path |-> <<"v", "w">>, text |-> "1"], [path |-> <<"v", "x">>, text |-> "t"]>>>>)
MCUploads ==
    {Text(<<<<"v">>, <<x>>>>) : x \in MCTexts}
    \union {Text(<<<<"v">>, <<pair[1]>>, <<pair[2]>>>>) : pair \in MCPairs}
    \union {Table(form, <<"id", "v">>, <<<<ids[1], "x.org">>, <<ids[2], "1">>>>) :
               form \in {"csv", "json", "excel"},
               ids \in {<<"2", "1">>, <<"1", "1">>, <<"1", "t">>, <<"1", "2147483647">>}}
    \union {Table(form, <<"id", "id_original">>, <<<<ids[1], "x.org">>, <<ids[2], "1">>>>) :
               form \in {"csv", "json", "excel"}, ids \in {<<"2", "1">>, <<"1", "1">>}}
    \union {Table(form, <<" v", "">>, <<<<"1", "2.5">>>>) : form \in {"csv", "json"}}
    \union {Text(<<<<" v", "v">>, <<"1", "2.5">>>>)}
    \* Moments with and without a zone, beside days.
    \union {Text(<<<<"v", "w">>, <<"day", "day 2h">>, <<"day", "day 0h+2">>>>)}
    \* Rows of another length among the first lines and after them, and no header.
    \union {Text(<<<<"v">>, <<"1", "t">>>>), Text(<<<<"v">>, <<"1">>, <<"1", "t">>>>)}
    \union {[Text(<<<<"t", "1">>, <<"2.5", "1">>>>) EXCEPT !.header = FALSE],
             [Sheet(<<<<"v">>, <<"1">>>>) EXCEPT !.header = FALSE]}
    \* JSON with objects in objects, with missing keys, a scalar, and no extension.
    \union {Nested, [Nested EXCEPT !.max_level = 1], [Nested EXCEPT !.extension = ""],
             [Nested EXCEPT !.extension = "", !.lines = <<>>],
             Json(<<>>, <<Object(<<"v">>, <<"1">>), Object(<<"w">>, <<"t">>)>>)}
    \* What is pasted or downloaded.
    \union {[Text(<<<<"v">>, <<"1">>>>) EXCEPT !.source = "paste"], [Nested EXCEPT !.source = "paste"],
             [Upload("scalar", "", <<<<"1">>>>, <<>>) EXCEPT !.source = "paste"]}
    \union {[contentType |-> contentType, downloads |-> downloads] @@ [Text(<<<<"v">>, <<"1">>>>) EXCEPT !.source = "url"] :
               contentType \in {"text/csv", "text/html"}, downloads \in BOOLEAN}
    \* Sheets with empty lines and columns, and with a header that is not at the top.
    \union {Sheet(<<<<Null, Null>>, <<Null, Null>>, <<"v", "w">>, <<"1", "t">>>>),
             Sheet(<<<<"v", Null>>, <<"1", Null>>, <<Null, Null>>, <<"t", Null>>>>),
             Sheet(<<<<"v", "w">>, <<"1", "t">>, <<Null, Null>>>>),
             Sheet(<<<<"v", Null>>, <<Null, "1">>, <<Null, "t">>>>)}

\* A column of character holds one character; char and name are not offered.
MCTargets == KnownDbTypes \ {"character", "\"char\"", "name"}
MCTogether == {"text", "date", "timestamp with time zone"}
MCAdded == {"t", "2.5"}
MCSymmetry == Permutations(Requests)
=============================================================================
