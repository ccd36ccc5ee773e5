------------------------------- MODULE DataFiles -------------------------------
(***************************************************************************)
(* Data files: what may be uploaded, the type an upload is given, and the   *)
(* columns and rows that are read from it by that type.                     *)
(*                                                                         *)
(* An upload is a file, a pasted text or a page that was downloaded.  Its   *)
(* form is what it is written in: delimited text, JSON, a JSON scalar or a  *)
(* sheet.  Lines are tuples of cells, as the text looks to a reader of      *)
(* delimited text (there are none if no delimiter is detected), or those of *)
(* the sheet; an empty cell is Null.  Objects are those of the JSON, each a *)
(* sequence of texts with the path of keys that leads to them.              *)
(***************************************************************************)
EXTENDS TypeCasts, SequencesExt

CONSTANTS CheckRows       \* lines whose length is compared on upload (10)
ASSUME CheckRowsIsNatural == CheckRows \in Nat

ALLOWED_FILE_FORMATS == {"csv", "tsv", "json", "xls", "xlsx", "xlsm", "xlsb", "odf", "ods", "odt"}
COLUMN_NAME_TEMPLATE == "Column "

-----------------------------------------------------------------------------
\* Uploading.

is_valid_json(u) == u.form \in {"json", "scalar"}
validate_json_format(u) == u.form = "json"

\* Without an extension that is known a file is delimited text: the first check
\* makes a reader and reads nothing, so that it never fails and no other is made.
is_valid_csv(u) == TRUE
get_file_type(u) ==
    IF u.extension \notin ALLOWED_FILE_FORMATS
    THEN IF is_valid_csv(u) THEN "csv" ELSE IF is_valid_json(u) THEN "json" ELSE "excel"
    ELSE IF u.extension \in {"csv", "tsv", "json"} THEN u.extension ELSE "excel"
TypeOf(u) == IF u.source = "paste" THEN IF is_valid_json(u) THEN "json" ELSE "tsv"
             ELSE get_file_type(u)

SameLength(lines) == \A i, j \in DOMAIN lines : Len(lines[i]) = Len(lines[j])
check_dialect(lines) == SameLength(SubSeq(lines, 1, Min({CheckRows, Len(lines)})))
get_sv_dialect(u) == u.form # "sheet" /\ u.lines # <<>> /\ check_dialect(u.lines)

\* A page is asked for its content type, and then downloaded.
SUPPORTED_URL_CONTENT_TYPES == {"text/csv", "text/plain"}
validate_url(u) == u.source = "url" => u.contentType \in SUPPORTED_URL_CONTENT_TYPES
download_datafile(u) == u.source = "url" => u.downloads

IsAccepted(u) == /\ validate_url(u) /\ download_datafile(u)
                 /\ TypeOf(u) = "json" => validate_json_format(u)
                 /\ TypeOf(u) \in {"csv", "tsv"} => get_sv_dialect(u)
create_datafile(u) == [upload |-> u, type |-> TypeOf(u), header |-> u.header]

-----------------------------------------------------------------------------
\* Reading: the names of the columns, in their order, and the rows as tuples.

Numbers(line) == [i \in DOMAIN line |-> COLUMN_NAME_TEMPLATE \o ToString(i - 1)]
get_sv_reader(file) ==
    LET lines == file.upload.lines
    IN IF file.header THEN [names |-> lines[1], rows |-> Tail(lines)]
                      ELSE [names |-> Numbers(lines[1]), rows |-> lines]

\* The key a text is found under when objects down to a level are flattened.
flattened_key(path, max_level) ==
    FoldLeft(LAMBDA prefix, k : prefix \o "." \o k, path[1], SubSeq(path, 2, Min({Len(path), max_level + 1})))
AddKey(keys, k) == IF Contains(keys, k) THEN keys ELSE Append(keys, k)
get_column_names_from_json(objects, max_level) ==
    FoldLeft(LAMBDA keys, t : AddKey(keys, flattened_key(t.path, max_level)), <<>>, FlattenSeq(objects))
\* Deeper objects stay together, as a JSON text.
JsonCell(o, k, max_level) ==
    LET found == {t \in ToSet(o) : flattened_key(t.path, max_level) = k}
    IN IF found = {} THEN Null
       ELSE IF \E t \in found : Len(t.path) > max_level + 1 THEN "{}"
       ELSE (CHOOSE t \in found : TRUE).text
json_normalize(u) ==
    LET names == get_column_names_from_json(u.objects, u.max_level)
    IN [names |-> names,
        rows |-> [i \in DOMAIN u.objects |->
                     [c \in DOMAIN names |-> JsonCell(u.objects[i], names[c], u.max_level)]]]

\* Sheets whose first row has empty cells lose their empty rows and then their empty
\* columns, the named ones included; if no column is left with a name, the names are
\* taken from the next row.
IsEmpty(line) == \A c \in DOMAIN line : line[c] = Null
Unnamed(i) == "Unnamed: " \o ToString(i - 1)
IsUnnamed(frame) == ToSet(frame.names) \subseteq {Unnamed(i) : i \in frame.of}
read_excel(lines) == [of |-> DOMAIN lines[1], rows |-> Tail(lines),
                      names |-> [c \in DOMAIN lines[1] |-> IF lines[1][c] = Null THEN Unnamed(c) ELSE lines[1][c]]]
\* What is at the places that are kept, in their order.
Picked(s, kept) ==
    [n \in 1..Cardinality(kept) |-> s[CHOOSE i \in kept : Cardinality({j \in kept : j <= i}) = n]]
dropna(frame) ==
    LET rows == Picked(frame.rows, {i \in DOMAIN frame.rows : ~IsEmpty(frame.rows[i])})
        kept == {c \in frame.of : \E i \in DOMAIN rows : rows[i][c] # Null}
    IN [frame EXCEPT !.names = Picked(@, kept), !.rows = [i \in DOMAIN rows |-> Picked(rows[i], kept)]]
remove_empty_rows_and_columns_from_dataframe(frame) ==
    LET some == IF Null \in ToSet(frame.rows[1]) THEN dropna(frame) ELSE frame
    IN IF IsUnnamed(some) /\ some.rows # <<>> THEN [some EXCEPT !.names = some.rows[1], !.rows = Tail(@)] ELSE some

\* Reading a sheet fails without a header (its columns have numbers for names then),
\* without a row, and if a name is left empty.
Readable(file) ==
    file.type # "excel" \/
        /\ file.header /\ Len(file.upload.lines) > 1
        /\ LET frame == remove_empty_rows_and_columns_from_dataframe(read_excel(file.upload.lines))
           IN ~IsUnnamed(frame) /\ Null \notin ToSet(frame.names)
Read(file) ==
    IF file.type \in {"csv", "tsv"} THEN get_sv_reader(file)
    ELSE IF file.type = "json" THEN json_normalize(file.upload)
    ELSE remove_empty_rows_and_columns_from_dataframe(read_excel(file.upload.lines))
=============================================================================
