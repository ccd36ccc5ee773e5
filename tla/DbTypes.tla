-------------------------------- MODULE DbTypes --------------------------------
(***************************************************************************)
(* The database types Mathesar knows, the categories and hints it gives     *)
(* them, and the types of its user interface.  No state: the modules on     *)
(* filters and on casts are built from it.                                  *)
(***************************************************************************)
EXTENDS Naturals, FiniteSets

PostgresTypes ==
    {"_array", "bigint", "bit varying", "bit", "boolean", "bytea", "\"char\"",
     "character varying", "character", "cidr", "date", "daterange",
     "double precision", "hstore", "inet", "int4range", "int8range", "integer",
     "interval", "json", "jsonb", "macaddr", "money", "name", "numeric",
     "numrange", "oid", "real", "regclass", "smallint", "text",
     "time with time zone", "time without time zone", "timestamp with time zone",
     "timestamp without time zone", "tsrange", "tstzrange", "tsvector", "uuid"}

CustomTypes == {"email", "mathesar_money", "multicurrency_money", "uri",
                "mathesar_json_object", "mathesar_json_array"}

KnownDbTypes == PostgresTypes \union CustomTypes

\* Types reflected as another type are ignored; _array is SQLAlchemy's name for
\* every array type; hstore is an extension a server may lack.
Inconsistent == {"name", "bit varying"}
SaOnly == {"_array"}
OptionalTypes == {"hstore"}
ApplicationSupported == KnownDbTypes \ (Inconsistent \union SaOnly)
AvailableKnownDbTypes(onDatabase) == (KnownDbTypes \ Inconsistent) \intersect onDatabase
\* Every server has the vanilla types but for the two kinds above, and the custom
\* ones once Mathesar is installed on it.
TypesOnDatabase == {KnownDbTypes \ SaOnly, KnownDbTypes \ (SaOnly \union OptionalTypes)}

StringTypes == {"character", "character varying", "text"}
StringLikeTypes == StringTypes \union {"\"char\"", "name"}
IntegerTypes == {"bigint", "integer", "smallint"}
DecimalTypes == {"double precision", "real"}
TimeOfDayTypes == {"time with time zone", "time without time zone"}
DatetimeTypes == {"timestamp with time zone", "timestamp without time zone"}
PointInTimeTypes == TimeOfDayTypes \union DatetimeTypes \union {"date"}
MoneyTypes == {"multicurrency_money", "money", "mathesar_money"}
NumericTypes == IntegerTypes \union DecimalTypes \union {"numeric"}
ComparableTypes == NumericTypes \union MoneyTypes \union PointInTimeTypes \union {"interval"}
JsonTypes == {"json", "jsonb", "mathesar_json_object", "mathesar_json_array"}

\* The hints of a type: what a parameter may ask of it.
DbTypesHinted ==
    [t \in KnownDbTypes |->
        {"any"}
        \union (IF t \in {"boolean", "uri", "email"} THEN {t} ELSE {})
        \union (IF t \in StringLikeTypes THEN {"string_like"} ELSE {})
        \union (IF t \in TimeOfDayTypes \union DatetimeTypes THEN {"time"} ELSE {})
        \union (IF t \in DatetimeTypes \union {"date"} THEN {"date"} ELSE {})
        \union (IF t \in PointInTimeTypes THEN {"point_in_time"} ELSE {})
        \union (IF t = "interval" THEN {"duration"} ELSE {})
        \union (IF t \in ComparableTypes THEN {"comparable"} ELSE {})
        \union (IF t \in NumericTypes THEN {"numeric"} ELSE {})
        \union (IF t = "mathesar_json_array" THEN {"jsonlist"} ELSE {})
        \union (IF t = "_array" THEN {"array"} ELSE {})]

\* The types of the user interface and the database types each stands for.
UIType ==
    [boolean |-> {"boolean"}, date |-> {"date"}, time |-> TimeOfDayTypes,
     datetime |-> DatetimeTypes, duration |-> {"interval"}, email |-> {"email"},
     money |-> MoneyTypes, number |-> NumericTypes, text |-> StringLikeTypes,
     uri |-> {"uri"}, jsonlist |-> {"mathesar_json_array"},
     map |-> {"mathesar_json_object"}, array |-> {"_array"},
     other |-> {"bit varying", "bit", "bytea", "cidr", "daterange", "hstore", "inet",
                "int4range", "int8range", "json", "jsonb", "macaddr", "numrange",
                "oid", "regclass", "tsrange", "tstzrange", "tsvector", "uuid"}]

UITypeHintset(ui) == {h \in UNION {DbTypesHinted[t] : t \in UIType[ui]} :
                         \A t \in UIType[ui] : h \in DbTypesHinted[t]}
UITypesThatSatisfy(hintset) == {ui \in DOMAIN UIType : hintset \subseteq UITypeHintset(ui)}
UITypeFromDbType(t) == CHOOSE ui \in DOMAIN UIType : t \in UIType[ui]
=============================================================================
