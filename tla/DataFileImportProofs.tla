------------------------ MODULE DataFileImportProofs ------------------------
(***************************************************************************)
(* Proofs about DataFileImport: every request for types works on a copy of *)
(* its own, the types suggested are not refused, the next id of an         *)
(* imported table is free whatever others do between two transactions,     *)
(* every cast that is offered for a column works, and an import that fails *)
(* leaves no rows in the schema.                                           *)
(***************************************************************************)
EXTENDS DataFileImport, OrderLemmas, SequenceTheorems

-----------------------------------------------------------------------------
(***************************************************************************)
(* The inductive invariant.                                                *)
(***************************************************************************)
\* The next id of a table is above those it has.
NextIsFree(t) == \A i \in DOMAIN t.rows : t.rows[i].id < t.next

\* A value that maps each member of its domain, and nothing else.
IsMapping(f) == f = [x \in DOMAIN f |-> f[x]]

\* A table: its rows are a tuple, have a cell for each column, and ids with a bound.
TableOK(t) ==
    /\ DOMAIN t = {"oid", "next", "rows", "columns"}
    /\ t.next \in Nat /\ IsTuple(t.rows)
    /\ \A i \in DOMAIN t.rows :
         /\ DOMAIN t.rows[i] = {"id", "cells"}
         /\ DOMAIN t.rows[i].cells = DOMAIN t.columns
         /\ t.rows[i].id \in Nat
         /\ t.rows[i].id <= MaxInteger \/ t.rows[i].id <= t.next + Len(t.rows)
    /\ \A c \in DOMAIN t.columns : t.columns[c] \in KnownDbTypes

\* The tables have oids of their own, used once.
CatalogOK ==
    /\ made \in Nat /\ IsFiniteSet(DOMAIN catalog)
    /\ IsMapping(catalog)
    /\ \A name \in DOMAIN catalog : TableOK(catalog[name]) /\ catalog[name].oid \in 1 .. made
    /\ \A name, other \in DOMAIN catalog : catalog[name].oid = catalog[other].oid => name = other

\* An uploaded file can be read.
FileOK(d) ==
    /\ DOMAIN d = {"upload", "type", "header"} /\ d.upload \in Uploads
    /\ d.type \in {"csv", "tsv", "json", "excel"}
    /\ d.type \in {"csv", "tsv"} => d.upload.lines # <<>>

\* The import at each of its steps: the table it has made last is there, no retry has
\* an id column, and at the end the next id is free.
ImportOK(i) ==
    /\ DOMAIN i = {"step", "file", "name", "tables", "retry", "names"}
    /\ i.step \in {"create", "fill", "sequence", "drop", "finish"} /\ i.retry \in BOOLEAN
    /\ FileOK(i.file.of) /\ IsTuple(i.file.rows) /\ IsTuple(i.name)
    /\ i.tables \subseteq 1 .. made
    /\ i.retry => "id" \notin ToSet(i.names)
    /\ i.step \in {"fill", "sequence", "finish"} => i.tables # {} /\ Max(i.tables) \in Oids
    /\ i.step = "finish" =>
         \A name \in DOMAIN catalog : catalog[name].oid = Max(i.tables) => NextIsFree(catalog[name])
ImportsOK ==
    /\ \A d \in datafile : FileOK(d)
    /\ \A i, j \in importing : i = j
    /\ \A i \in importing : ImportOK(i)

\* No import runs when one has ended well, and its table stays.
ImportedOK ==
    /\ imported # {} => importing = Idle
    /\ \A i \in imported : i.oid \in Oids
    /\ \A i \in imported : \A name \in DOMAIN catalog :
         catalog[name].oid = i.oid => NextIsFree(catalog[name])

\* The names of copies so far.
TempNames == {Waiting} \union {Numbered(TempTable, s) : s \in 0 .. second}

\* A request is about an imported table.
RequestsOK ==
    /\ DOMAIN requests = Requests
    /\ \A r \in Requests :
         /\ DOMAIN requests[r] = {"step", "oid", "temp"}
         /\ requests[r].step # "none" =>
              requests[r].temp \in TempNames /\ \E i \in imported : i.oid = requests[r].oid

\* A table of this oid has these columns.
HasColumns(oid, C) == \A name \in DOMAIN catalog : catalog[name].oid = oid => DOMAIN catalog[name].columns = C

\* A table of this oid has these columns, and may have others.
HasAtLeast(oid, C) == \A name \in DOMAIN catalog : catalog[name].oid = oid => C \subseteq DOMAIN catalog[name].columns

\* Types found for columns of a table: what the column has, or what all its cells can
\* be cast to.
Found(t, types) ==
    /\ DOMAIN types \subseteq DOMAIN t.columns
    /\ \A c \in DOMAIN types :
         /\ types[c] \in KnownDbTypes
         /\ types[c] = t.columns[c] \/ CastsInAnyZone(t.columns[c], types[c], Cells(t, c))

\* Copies belong to the request that made them, and so do the types found so far.
Owned ==
    /\ \A r \in Requests : requests[r].step = "infer" =>
         requests[r].temp \in DOMAIN temps /\ temps[requests[r].temp].owner = r
    /\ \A name \in DOMAIN temps :
         /\ temps[name].owner \in Requests /\ requests[temps[name].owner].temp = name
         /\ requests[temps[name].owner].step \in {"infer", "stopped"}
CopyOK(copy) ==
    /\ DOMAIN copy = {"owner", "table", "types"}
    /\ TableOK(copy.table) /\ copy.table.oid \in 1 .. made
    /\ HasColumns(copy.table.oid, DOMAIN copy.table.columns)
    /\ Found(copy.table, copy.types)
TempsOK ==
    /\ DOMAIN temps \subseteq TempNames /\ IsMapping(temps)
    /\ \A name \in DOMAIN temps : CopyOK(temps[name])

\* Types suggested are those found for a table.
SuggestionsOK ==
    \A s \in suggestions :
        /\ s.seen.oid \in 1 .. made /\ HasColumns(s.seen.oid, DOMAIN s.seen.columns)
        /\ Found(s.seen, s.types)

\* A change of a table is one of columns it has.
PatchOK ==
    /\ \A p, q \in patch : p = q
    /\ \A p \in patch :
         /\ DOMAIN p = {"step", "oid", "name", "newName", "types"} /\ p.oid \in 1 .. made
         /\ p.newName \in {{}, {OtherName}}
         /\ \A c \in DOMAIN p.types : p.types[c] \in KnownDbTypes
         /\ HasAtLeast(p.oid, DOMAIN p.types)

CountsOK == zone \in ZoneHours /\ asked \in 0 .. MaxAsked /\ second \in Nat /\ second <= asked

ImportInv ==
    /\ CatalogOK /\ ImportsOK /\ ImportedOK /\ RequestsOK /\ Owned /\ TempsOK
    /\ SuggestionsOK /\ PatchOK /\ CountsOK

-----------------------------------------------------------------------------
(***************************************************************************)
(* Casts.                                                                  *)
(***************************************************************************)
\* The types functions are installed for.
InstalledTargets ==
    {"boolean", "date", "email", "interval", "multicurrency_money", "uri", "character", "character varying", "text",
     "\"char\"", "name", "json", "jsonb", "mathesar_json_object", "mathesar_json_array", "money", "mathesar_money",
     "bigint", "integer", "smallint", "double precision", "real", "numeric",
     "time with time zone", "time without time zone", "timestamp with time zone", "timestamp without time zone"}

\* Two maps joined.
LEMMA JoinIs ==
    ASSUME NEW f, NEW g
    PROVE  /\ DOMAIN (f ++ g) = DOMAIN f \union DOMAIN g
           /\ \A x \in DOMAIN f : (f ++ g)[x] = f[x]
           /\ \A x \in DOMAIN g : x \notin DOMAIN f => (f ++ g)[x] = g[x]
BY DEF ++

\* The map of each type that functions are installed for.
LEMMA InstalledIs ==
    /\ DOMAIN InstalledCasts = InstalledTargets
    /\ \A t \in IntegerTypes : InstalledCasts[t] = IntegerTypeBodyMap
    /\ \A t \in StringLikeTypes : InstalledCasts[t] = TextualTypeBodyMap
    /\ \A t \in JsonTypes : InstalledCasts[t] = JsonTypeBodyMap
    /\ \A t \in DecimalTypes : InstalledCasts[t] = DecimalNumberTypeBodyMap
    /\ \A t \in TimeOfDayTypes : InstalledCasts[t] = TimeTypeBodyMap
    /\ InstalledCasts["boolean"] = BooleanTypeBodyMap
    /\ InstalledCasts["date"] = DateTypeBodyMap
    /\ InstalledCasts["email"] = EmailTypeBodyMap
    /\ InstalledCasts["mathesar_money"] = MathesarMoneyTypeBodyMap
    /\ InstalledCasts["money"] = MoneyTypeBodyMap
    /\ InstalledCasts["multicurrency_money"] = MulticurrencyMoneyTypeBodyMap
    /\ InstalledCasts["interval"] = IntervalTypeBodyMap
    /\ InstalledCasts["numeric"] = NumericTypeBodyMap
    /\ InstalledCasts["timestamp with time zone"] = TimestampWithTimezoneTypeBodyMap
    /\ InstalledCasts["timestamp without time zone"] = TimestampWithoutTimezoneTypeBodyMap
    /\ InstalledCasts["uri"] = UriTypeBodyMap
BY DEF InstalledCasts, InstalledTargets, IntegerTypes, StringLikeTypes, StringTypes, JsonTypes, DecimalTypes,
       TimeOfDayTypes, MoneyWithoutCurrency, NumericTypes, DatetimeTypes

\* The types of texts and of numbers, and types there are.
LEMMA SomeTypes ==
    /\ StringTypes = {"character", "character varying", "text"}
    /\ NumericTypes = {"bigint", "integer", "smallint", "double precision", "real", "numeric"}
    /\ InstalledTargets \ {"name"} \subseteq AvailableKnownDbTypes(KnownDbTypes)
    /\ InstalledTargets \subseteq KnownDbTypes
<1>1. InstalledTargets \subseteq KnownDbTypes
  BY SMT DEF InstalledTargets, KnownDbTypes, PostgresTypes, CustomTypes
<1>2. (InstalledTargets \ {"name"}) \intersect Inconsistent = {}
  BY DEF InstalledTargets, Inconsistent
<1>3. InstalledTargets \ {"name"} \subseteq AvailableKnownDbTypes(KnownDbTypes)
  BY <1>1, <1>2 DEF AvailableKnownDbTypes
<1> QED BY <1>1, <1>3 DEF StringTypes, NumericTypes, IntegerTypes, DecimalTypes

\* The same body for all sources.
LEMMA BodiesAre ==
    ASSUME NEW S, NEW body
    PROVE  DOMAIN Bodies(S, body) = S /\ \A source \in S : Bodies(S, body)[source] = body
BY DEF Bodies

\* What numeric has functions from, and what casts to it are offered from.
LEMMA NumericCasts ==
    /\ DOMAIN NumericTypeBodyMap = NumericTypes \union {"money", "boolean"} \union StringTypes
    /\ DOMAIN DecimalNumberTypeBodyMap =
         NumericTypes \union StringTypes \union {"money", "mathesar_money", "boolean"}
<1> PICK boolean : boolean = BooleanToNumber
  OBVIOUS
<1> PICK numbers : numbers = Bodies(NumericTypes \union {"money"}, "default")
  OBVIOUS
<1> PICK texts : texts = Bodies(StringTypes, "numeric from text")
  OBVIOUS
<1> PICK others : others = Bodies(NumericTypes \union StringTypes \union MoneyWithoutCurrency, "default")
  OBVIOUS
<1> PICK both : both = numbers ++ boolean
  OBVIOUS
<1> PICK N : N = NumericTypes
  OBVIOUS
<1>1. DOMAIN boolean = {"boolean"}
  BY BodiesAre DEF BooleanToNumber
<1>2. DOMAIN numbers = N \union {"money"}
  BY BodiesAre
<1>3. DOMAIN texts = StringTypes
  BY BodiesAre
<1>4. DOMAIN others = N \union StringTypes \union {"money", "mathesar_money"}
  BY BodiesAre DEF MoneyWithoutCurrency
<1>5. NumericTypeBodyMap = both ++ texts /\ DecimalNumberTypeBodyMap = others ++ boolean
  BY DEF NumericTypeBodyMap, DecimalNumberTypeBodyMap
<1>6. DOMAIN both = DOMAIN numbers \union DOMAIN boolean
  BY JoinIs
<1>7. DOMAIN NumericTypeBodyMap = (DOMAIN numbers \union DOMAIN boolean) \union DOMAIN texts
  BY ONLY <1>5, <1>6, JoinIs
<1>8. DOMAIN DecimalNumberTypeBodyMap = DOMAIN others \union DOMAIN boolean
  BY <1>5, JoinIs
<1> QED BY <1>1, <1>2, <1>3, <1>4, <1>7, <1>8

\* Whatever cast is offered has a function.
LEMMA OfferedHasFunction ==
    ASSUME NEW target \in OfferedTargets, NEW source \in OfferedSources(target)
    PROVE  HasFunction(source, target)
<1>1. CASE target # "numeric"
  BY <1>1 DEF OfferedSources, HasFunction
<1>2. CASE target = "numeric"
  <2>1. InstalledCasts["numeric"] = NumericTypeBodyMap
    BY InstalledIs
  <2>2. source \in DOMAIN NumericTypeBodyMap \union {"mathesar_money"}
    BY <1>2, NumericCasts DEF OfferedSources
  <2>3. BaseType("mathesar_money") = "numeric"
    BY DEF BaseType
  <2>4. "numeric" \in DOMAIN NumericTypeBodyMap
    BY NumericCasts, SomeTypes
  <2> QED BY <1>2, <2>1, <2>2, <2>3, <2>4 DEF HasFunction
<1> QED BY <1>1, <1>2

\* The types that casts are offered to, and what is offered for each.
LEMMA OfferedHaveCasts ==
    /\ OfferedTargets = InstalledTargets \ {"\"char\"", "name"}
    /\ OfferedTargets \subseteq DOMAIN FullCastMap
    /\ \A source \in DOMAIN FullCastMap : FullCastMap[source] = {t \in OfferedTargets : source \in OfferedSources(t)}
<1>1. OfferedTargets = InstalledTargets \ {"\"char\"", "name"}
  BY InstalledIs DEF OfferedTargets
<1>2. DOMAIN TextualTypeBodyMap = AvailableKnownDbTypes(KnownDbTypes)
  BY DEF TextualTypeBodyMap, Bodies
<1>3. "text" \in OfferedTargets /\ OfferedSources("text") = AvailableKnownDbTypes(KnownDbTypes)
  BY <1>1, <1>2, InstalledIs DEF InstalledTargets, OfferedSources, StringLikeTypes, StringTypes
<1>4. OfferedTargets \subseteq OfferedSources("text")
  BY <1>1, <1>3, SomeTypes
<1>5. DOMAIN FullCastMap = UNION {OfferedSources(t) : t \in OfferedTargets}
  BY DEF FullCastMap
<1>6. OfferedTargets \subseteq DOMAIN FullCastMap
  BY <1>3, <1>4, <1>5
<1>7. \A source \in DOMAIN FullCastMap : FullCastMap[source] = {t \in OfferedTargets : source \in OfferedSources(t)}
  BY DEF FullCastMap
<1> QED BY <1>1, <1>6, <1>7

\* Text with the scheme of a URI, or none.
LEMMA SchemesAreThere == \A x \in DOMAIN WithoutScheme : WithoutScheme[x] \in WithScheme
<1> PICK one : one = Single("x.org", "http://x.org")
  OBVIOUS
<1> PICK two : two = Single("x.org/A", "http://x.org/a")
  OBVIOUS
<1> PICK three : three = Single("a@b.co", "http://b.co")
  OBVIOUS
<1> PICK both : both = one ++ two
  OBVIOUS
<1>1. /\ DOMAIN one = {"x.org"} /\ one["x.org"] = "http://x.org"
      /\ DOMAIN two = {"x.org/A"} /\ two["x.org/A"] = "http://x.org/a"
      /\ DOMAIN three = {"a@b.co"} /\ three["a@b.co"] = "http://b.co"
  BY DEF Single
<1>2. both = [y \in DOMAIN one \union DOMAIN two |-> IF y \in DOMAIN one THEN one[y] ELSE two[y]]
  BY DEF ++
<1>3. WithoutScheme = [y \in DOMAIN both \union DOMAIN three |-> IF y \in DOMAIN both THEN both[y] ELSE three[y]]
  BY DEF WithoutScheme, ++
<1>4. \A x \in DOMAIN WithoutScheme : WithoutScheme[x] \in {"http://x.org", "http://x.org/a", "http://b.co"}
  BY <1>1, <1>2, <1>3
<1>5. {"http://x.org", "http://x.org/a", "http://b.co"} \subseteq WithScheme
  BY DEF WithScheme
<1> QED BY <1>4, <1>5

\* What is cast to a URI has a scheme, whatever it is cast from.
LEMMA UrisHaveSchemes ==
    ASSUME NEW source, HasFunction(source, "uri"), NEW x, NEW z
    PROVE  Cast(z, source, "uri", x) \subseteq WithScheme \union {Null}
<1>1. CASE x = Null
  BY <1>1 DEF Cast
<1>2. CASE x # Null
  <2> PICK from : from = IF source \in DOMAIN InstalledCasts["uri"] THEN source ELSE BaseType(source)
    OBVIOUS
  <2>1. Cast(z, source, "uri", x) = Apply(InstalledCasts["uri"][from], z, source, "uri", x)
    BY <1>2 DEF Cast, CastBody
  <2>2. from \in DOMAIN InstalledCasts["uri"]
    BY DEF HasFunction
  <2>3. InstalledCasts["uri"][from] = "uri from text"
    <3>1. InstalledCasts["uri"] = UriTypeBodyMap
    BY InstalledIs
  <3>2. \A y \in DOMAIN UriTypeBodyMap : UriTypeBodyMap[y] = "uri from text"
    BY BodiesAre DEF UriTypeBodyMap
  <3> QED BY <2>2, <3>1, <3>2
  <2>4. Apply("uri from text", z, source, "uri", x) = UriFromText(x)
    BY DEF Apply
  <2>5. UriFromText(x) \subseteq WithScheme
    BY SchemesAreThere DEF UriFromText, Image
  <2> QED BY <2>1, <2>3, <2>4, <2>5
<1> QED BY <1>1, <1>2

\* The first of two maps decides.
LEMMA FirstDecides ==
    ASSUME NEW f, NEW g, NEW x \in DOMAIN f
    PROVE  x \in DOMAIN (f ++ g) /\ (f ++ g)[x] = f[x]
BY DEF ++

\* A type has a body in a map.
Own(map, t, body) == t \in DOMAIN map /\ map[t] = body

\* It has it if the first of the maps it is made of gives it.
LEMMA OwnIs ==
    /\ \A S, t, body : t \in S => Own(Bodies(S, body), t, body)
    /\ \A f, g, t, body : Own(f, t, body) => Own(f ++ g, t, body)
<1>1. \A S, t, body : t \in S => Own(Bodies(S, body), t, body)
  BY BodiesAre DEF Own
<1>2. ASSUME NEW f, NEW g, NEW t, NEW body, Own(f, t, body)
      PROVE  Own(f ++ g, t, body)
  BY <1>2, FirstDecides DEF Own
<1> QED BY <1>1, <1>2

\* The function that casts a type to itself.
LEMMA OwnBody ==
    ASSUME NEW t \in OfferedTargets
    PROVE  Own(InstalledCasts[t], t,
               IF t \in StringTypes THEN "text" ELSE IF t = "uri" THEN "uri from text" ELSE "default")
<1>1. ASSUME t \in IntegerTypes PROVE  Own(InstalledCasts[t], t, "default")
  <2>1. t \in IntegerTypes \union StringTypes
    BY <1>1
  <2>2. Own(Bodies(IntegerTypes \union StringTypes, "default"), t, "default")
    BY <2>1, OwnIs
  <2>3. Own(IntegerTypeBodyMap, t, "default")
    BY <2>2, OwnIs DEF IntegerTypeBodyMap
  <2> QED BY <1>1, <2>3, InstalledIs
<1>2. ASSUME t \in StringTypes PROVE  Own(InstalledCasts[t], t, "text")
  <2>1. t \in AvailableKnownDbTypes(KnownDbTypes)
    BY <1>2, SomeTypes, OfferedHaveCasts, t # "name" DEF StringTypes
  <2>2. Own(Bodies(AvailableKnownDbTypes(KnownDbTypes), "text"), t, "text")
    BY <2>1, OwnIs
  <2>3. Own(TextualTypeBodyMap, t, "text")
    BY <2>2, OwnIs DEF TextualTypeBodyMap
  <2> QED BY <1>2, <2>3, InstalledIs DEF StringLikeTypes
<1>3. ASSUME t \in JsonTypes PROVE  Own(InstalledCasts[t], t, "default")
  <2>1. t \in StringTypes \union JsonTypes
    BY <1>3
  <2>2. Own(Bodies(StringTypes \union JsonTypes, "default"), t, "default")
    BY <2>1, OwnIs
  <2>3. Own(JsonTypeBodyMap, t, "default")
    BY <2>2, OwnIs DEF JsonTypeBodyMap
  <2> QED BY <1>3, <2>3, InstalledIs
<1>4. ASSUME t \in DecimalTypes PROVE  Own(InstalledCasts[t], t, "default")
  <2>1. t \in NumericTypes \union StringTypes \union MoneyWithoutCurrency
    BY <1>4 DEF NumericTypes
  <2>2. Own(Bodies(NumericTypes \union StringTypes \union MoneyWithoutCurrency, "default"), t, "default")
    BY <2>1, OwnIs
  <2>3. Own(DecimalNumberTypeBodyMap, t, "default")
    BY <2>2, OwnIs DEF DecimalNumberTypeBodyMap
  <2> QED BY <1>4, <2>3, InstalledIs
<1>5. ASSUME t \in TimeOfDayTypes PROVE  Own(InstalledCasts[t], t, "default")
  <2>1. t \in {"text", "character varying"} \union TimeOfDayTypes
    BY <1>5
  <2>2. Own(Bodies({"text", "character varying"} \union TimeOfDayTypes, "default"), t, "default")
    BY <2>1, OwnIs
  <2>3. Own(TimeTypeBodyMap, t, "default")
    BY <2>2, OwnIs DEF TimeTypeBodyMap
  <2> QED BY <1>5, <2>3, InstalledIs
<1>6. ASSUME t = "boolean" PROVE  Own(InstalledCasts[t], t, "default")
  <2>1. t \in {"boolean"}
    BY <1>6
  <2>2. Own(Bodies({"boolean"}, "default"), t, "default")
    BY <2>1, OwnIs
  <2>3. Own(BooleanTypeBodyMap, t, "default")
    BY <2>2, OwnIs DEF BooleanTypeBodyMap
  <2> QED BY <1>6, <2>3, InstalledIs
<1>7. ASSUME t = "date" PROVE  Own(InstalledCasts[t], t, "default")
  <2>1. t \in {"date"}
    BY <1>7
  <2>2. Own(Bodies({"date"}, "default"), t, "default")
    BY <2>1, OwnIs
  <2>3. Own(DateTypeBodyMap, t, "default")
    BY <2>2, OwnIs DEF DateTypeBodyMap
  <2> QED BY <1>7, <2>3, InstalledIs
<1>8. ASSUME t = "email" PROVE  Own(InstalledCasts[t], t, "default")
  <2>1. t \in StringTypes \union {"email"}
    BY <1>8
  <2>2. Own(Bodies(StringTypes \union {"email"}, "default"), t, "default")
    BY <2>1, OwnIs
  <2>3. Own(EmailTypeBodyMap, t, "default")
    BY <2>2, OwnIs DEF EmailTypeBodyMap
  <2> QED BY <1>8, <2>3, InstalledIs
<1>9. ASSUME t = "mathesar_money" PROVE  Own(InstalledCasts[t], t, "default")
  <2>1. t \in {"mathesar_money"}
    BY <1>9
  <2>2. Own(Bodies({"mathesar_money"}, "default"), t, "default")
    BY <2>1, OwnIs
  <2>3. Own(MathesarMoneyTypeBodyMap, t, "default")
    BY <2>2, OwnIs DEF MathesarMoneyTypeBodyMap
  <2> QED BY <1>9, <2>3, InstalledIs
<1>10. ASSUME t = "money" PROVE  Own(InstalledCasts[t], t, "default")
  <2>1. t \in {"money", "mathesar_money"}
    BY <1>10
  <2>2. Own(Bodies({"money", "mathesar_money"}, "default"), t, "default")
    BY <2>1, OwnIs
  <2>3. Own(MoneyTypeBodyMap, t, "default")
    BY <2>2, OwnIs DEF MoneyTypeBodyMap
  <2> QED BY <1>10, <2>3, InstalledIs
<1>11. ASSUME t = "multicurrency_money" PROVE  Own(InstalledCasts[t], t, "default")
  <2>1. t \in {"multicurrency_money"}
    BY <1>11
  <2>2. Own(Bodies({"multicurrency_money"}, "default"), t, "default")
    BY <2>1, OwnIs
  <2>3. Own(MulticurrencyMoneyTypeBodyMap, t, "default")
    BY <2>2, OwnIs DEF MulticurrencyMoneyTypeBodyMap
  <2> QED BY <1>11, <2>3, InstalledIs
<1>12. ASSUME t = "interval" PROVE  Own(InstalledCasts[t], t, "default")
  <2>1. t \in {"interval"}
    BY <1>12
  <2>2. Own(Bodies({"interval"}, "default"), t, "default")
    BY <2>1, OwnIs
  <2>3. Own(IntervalTypeBodyMap, t, "default")
    BY <2>2, OwnIs DEF IntervalTypeBodyMap
  <2> QED BY <1>12, <2>3, InstalledIs
<1>13. ASSUME t = "numeric" PROVE  Own(InstalledCasts[t], t, "default")
  <2>1. t \in NumericTypes \union {"money"}
    BY <1>13 DEF NumericTypes
  <2>2. Own(Bodies(NumericTypes \union {"money"}, "default"), t, "default")
    BY <2>1, OwnIs
  <2>3. Own(NumericTypeBodyMap, t, "default")
    BY <2>2, OwnIs DEF NumericTypeBodyMap
  <2> QED BY <1>13, <2>3, InstalledIs
<1>14. ASSUME t = "timestamp with time zone" PROVE  Own(InstalledCasts[t], t, "default")
  <2>1. t \in DatetimeTypes \union StringTypes
    BY <1>14 DEF DatetimeTypes
  <2>2. Own(Bodies(DatetimeTypes \union StringTypes, "default"), t, "default")
    BY <2>1, OwnIs
  <2>3. Own(TimestampWithTimezoneTypeBodyMap, t, "default")
    BY <2>2, OwnIs DEF TimestampWithTimezoneTypeBodyMap
  <2> QED BY <1>14, <2>3, InstalledIs
<1>15. ASSUME t = "timestamp without time zone" PROVE  Own(InstalledCasts[t], t, "default")
  <2>1. t \in {"timestamp without time zone"}
    BY <1>15
  <2>2. Own(Bodies({"timestamp without time zone"}, "default"), t, "default")
    BY <2>1, BodiesAre DEF Own
  <2>3. Own(TimestampWithoutTimezoneTypeBodyMap, t, "default")
    BY <2>2, OwnIs DEF TimestampWithoutTimezoneTypeBodyMap
  <2> QED BY <1>15, <2>3, InstalledIs
<1>16. ASSUME t = "uri" PROVE  Own(InstalledCasts[t], t, "uri from text")
  <2>1. t \in StringTypes \union {"uri"}
    BY <1>16
  <2>2. Own(Bodies(StringTypes \union {"uri"}, "uri from text"), t, "uri from text")
    BY ONLY <2>1, OwnIs
  <2>3. Own(UriTypeBodyMap, t, "uri from text")
    BY <2>2, OwnIs DEF UriTypeBodyMap
  <2> QED BY <1>16, <2>3, InstalledIs
<1>17. t \in InstalledTargets /\ t \notin {"\"char\"", "name"}
  BY OfferedHaveCasts
<1>18. \/ t \in IntegerTypes \/ t \in StringTypes \/ t \in JsonTypes \/ t \in DecimalTypes \/ t \in TimeOfDayTypes
       \/ t = "boolean" \/ t = "date" \/ t = "email" \/ t = "mathesar_money" \/ t = "money"
       \/ t = "multicurrency_money" \/ t = "interval" \/ t = "numeric"
       \/ t = "timestamp with time zone" \/ t = "timestamp without time zone" \/ t = "uri"
  BY <1>17 DEF InstalledTargets, IntegerTypes, StringTypes, JsonTypes, DecimalTypes, TimeOfDayTypes
<1>19. t \in StringTypes \union {"uri"} \/ Own(InstalledCasts[t], t, "default")
  BY <1>1, <1>3, <1>4, <1>5, <1>6, <1>7, <1>8, <1>9, <1>10, <1>11, <1>12, <1>13, <1>14, <1>15, <1>18
<1>20. "uri" \notin StringTypes
  BY DEF StringTypes
<1> QED BY <1>2, <1>16, <1>19, <1>20

\* A cast of a type to itself changes nothing, if what is a URI has a scheme.
LEMMA CastToItself ==
    ASSUME NEW t \in OfferedTargets, NEW z, NEW x, t = "uri" => x \in WithScheme \union {Null}
    PROVE  Cast(z, t, t, x) = {x}
<1>1. CASE x = Null
  BY <1>1 DEF Cast
<1>2. CASE x # Null
  <2> PICK body : body = InstalledCasts[t][t]
    OBVIOUS
  <2>1. Cast(z, t, t, x) = Apply(body, z, t, t, x)
    BY <1>2, OwnBody DEF Cast, CastBody, Own
  <2>2. body = IF t \in StringTypes THEN "text" ELSE IF t = "uri" THEN "uri from text" ELSE "default"
    BY OwnBody DEF Own
  <2>3. "timestamp with time zone" \notin StringTypes /\ "uri" \notin StringTypes
    BY DEF StringTypes
  <2>4. CASE t \in StringTypes
    <3>1. Apply("text", z, t, t, x) = {Shown(z, t, x)}
      BY DEF Apply
    <3> QED BY <2>1, <2>2, <2>3, <2>4, <3>1 DEF Shown
  <2>5. CASE t = "uri"
    <3>1. Apply("uri from text", z, t, t, x) = UriFromText(x)
      BY DEF Apply
    <3> QED BY <1>2, <2>1, <2>2, <2>3, <2>5, <3>1 DEF UriFromText
  <2>6. CASE t \notin StringTypes /\ t # "uri"
    <3>1. Apply("default", z, t, t, x) = Default(z, t, t, x)
      BY DEF Apply
    <3>2. Default(z, t, t, x) = {x}
      BY <2>6 DEF Default
    <3> QED BY <2>1, <2>2, <2>6, <3>1, <3>2
  <2> QED BY <2>4, <2>5, <2>6
<1> QED BY <1>1, <1>2

\* The types that are inferred are offered.
LEMMA InferredAreOffered ==
    {"boolean", "date", "numeric", "mathesar_money", "timestamp without time zone",
     "timestamp with time zone", "time without time zone", "interval", "email",
     "mathesar_json_array", "mathesar_json_object", "uri", "text"} \subseteq OfferedTargets
BY OfferedHaveCasts DEF InstalledTargets

\* The types that are inferred.
Inferred == {"boolean", "date", "numeric", "mathesar_money", "timestamp without time zone",
             "timestamp with time zone", "time without time zone", "interval", "email",
             "mathesar_json_array", "mathesar_json_object", "uri"}

\* They are types Mathesar knows.
LEMMA InferredAreKnown == TypeInferenceDag \in Seq(Inferred) /\ Inferred \subseteq KnownDbTypes
<1>1. TypeInferenceDag \in Seq(Inferred)
  BY SMT DEF TypeInferenceDag, Inferred
<1>2. Inferred \subseteq KnownDbTypes
  BY DEF Inferred, KnownDbTypes, PostgresTypes, CustomTypes
<1> QED BY <1>1, <1>2

\* The bodies of the functions from texts to the types that are inferred.
LEMMA TextBodies ==
    ASSUME NEW s \in {"text", "character varying"}
    PROVE  /\ CastBody(s, "boolean") = "boolean from text"
           /\ CastBody(s, "date") = "unzoned"
           /\ CastBody(s, "numeric") = "numeric from text"
           /\ CastBody(s, "mathesar_money") = "money from text"
           /\ CastBody(s, "timestamp without time zone") = "unzoned"
           /\ CastBody(s, "interval") = "interval from text"
           /\ CastBody(s, "uri") = "uri from text"
           /\ \A t \in {"timestamp with time zone", "time without time zone", "email",
                        "mathesar_json_array", "mathesar_json_object"} : CastBody(s, t) = "default"
<1>1. CastBody(s, "boolean") = "boolean from text"
  BY InstalledIs, SomeTypes DEF CastBody, BooleanTypeBodyMap, Bodies, ++
<1>2. CastBody(s, "date") = "unzoned"
  BY InstalledIs, SomeTypes DEF CastBody, DateTypeBodyMap, Bodies, ++
<1>3. CastBody(s, "numeric") = "numeric from text"
  BY InstalledIs, SomeTypes DEF CastBody, NumericTypeBodyMap, BooleanToNumber, Bodies, ++
<1>4. CastBody(s, "mathesar_money") = "money from text"
  BY InstalledIs, SomeTypes DEF CastBody, MathesarMoneyTypeBodyMap, Bodies, ++
<1>5. CastBody(s, "timestamp without time zone") = "unzoned"
  BY InstalledIs, SomeTypes DEF CastBody, TimestampWithoutTimezoneTypeBodyMap, Bodies, ++
<1>6. CastBody(s, "interval") = "interval from text"
  BY InstalledIs, SomeTypes DEF CastBody, IntervalTypeBodyMap, Bodies, ++
<1>7. CastBody(s, "uri") = "uri from text"
  BY InstalledIs, SomeTypes DEF CastBody, UriTypeBodyMap, Bodies
<1>8. CastBody(s, "timestamp with time zone") = "default"
  BY InstalledIs, SomeTypes DEF CastBody, TimestampWithTimezoneTypeBodyMap, Bodies
<1>9. CastBody(s, "time without time zone") = "default"
  BY InstalledIs DEF CastBody, TimeTypeBodyMap, TimeOfDayTypes, Bodies
<1>10. CastBody(s, "email") = "default"
  BY InstalledIs, SomeTypes DEF CastBody, EmailTypeBodyMap, Bodies
<1>11. CastBody(s, "mathesar_json_array") = "default" /\ CastBody(s, "mathesar_json_object") = "default"
  BY InstalledIs, SomeTypes DEF CastBody, JsonTypeBodyMap, JsonTypes, Bodies
<1> QED BY <1>1, <1>2, <1>3, <1>4, <1>5, <1>6, <1>7, <1>8, <1>9, <1>10, <1>11

\* The hours of moments are numbers.
LEMMA HoursAreNumbers == \A h \in Hours : h - 0 = h
BY DEF Hours

\* What is a moment has an hour there is.
LEMMA MomentsHaveHours == \A x \in DOMAIN MomentOf : MomentOf[x].hour \in Hours
<1> PICK moments : moments = [hour : Hours, zone : Optional(ZoneHours)]
  OBVIOUS
<1> PICK written : written = [x \in {MomentText(m) : m \in moments} |-> CHOOSE m \in moments : MomentText(m) = x]
  OBVIOUS
<1>1. MomentOf = written ++ Single("day", [hour |-> 0, zone |-> {}])
  BY DEF MomentOf
<1>2. \A x \in DOMAIN written : written[x] \in moments
  OBVIOUS
<1>3. \A x \in DOMAIN written : written[x].hour \in Hours
  BY <1>2
<1>4. 0 \in Hours
  BY DEF Hours
<1>5. \A x \in DOMAIN MomentOf : MomentOf[x] = IF x \in DOMAIN written THEN written[x] ELSE [hour |-> 0, zone |-> {}]
  BY <1>1 DEF ++, Single
<1> QED BY <1>3, <1>4, <1>5

\* What the database reads as a moment with a zone in one session's zone, it reads in UTC.
LEMMA MomentsAreReadInUtc ==
    ASSUME NEW z, NEW x, Input(z, "timestamp with time zone", x) # {}
    PROVE  Input(0, "timestamp with time zone", x) # {}
<1>1. \A w : Input(w, "timestamp with time zone", x) = UNION {Within(Utc(m, w)) : m \in Image(MomentOf, {x})}
  BY DEF Input, StringLikeTypes, StringTypes, IntegerTypes, DecimalTypes
<1>2. PICK m \in Image(MomentOf, {x}) : Within(Utc(m, z)) # {}
  <2>1. PICK y : y \in UNION {Within(Utc(m, z)) : m \in Image(MomentOf, {x})}
    BY <1>1
  <2> QED BY <2>1
<1>3. m.hour \in Hours
  BY <1>2, MomentsHaveHours DEF Image
<1>4. Within(Utc(m, 0)) # {}
  <2>1. CASE m.zone = {}
    <3>1. Utc(m, 0) = m.hour - 0
      BY <2>1 DEF Utc
    <3>2. m.hour - 0 = m.hour
      BY <1>3, HoursAreNumbers
    <3> QED BY <1>3, <3>1, <3>2 DEF Within
  <2>2. CASE m.zone # {}
    <3>1. Utc(m, 0) = Utc(m, z)
      BY <2>2 DEF Utc
    <3> QED BY <1>2, <3>1
  <2> QED BY <2>1, <2>2
<1> QED BY <1>1, <1>4

\* A text that can be cast to a type that is inferred can be cast to it in UTC, too.
LEMMA TextsFitInUtc ==
    ASSUME NEW s \in {"text", "character varying"}, NEW t \in Inferred, NEW z, NEW x, Cast(z, s, t, x) # {}
    PROVE  Cast(0, s, t, x) # {}
<1>1. CASE x = Null
  BY <1>1 DEF Cast
<1>2. CASE x # Null
  <2> PICK body : body = CastBody(s, t)
    OBVIOUS
  <2>1. \A w : Cast(w, s, t, x) = Apply(body, w, s, t, x)
    BY <1>2 DEF Cast
  <2>2. /\ t = "boolean" => body = "boolean from text"
        /\ t \in {"date", "timestamp without time zone"} => body = "unzoned"
        /\ t = "numeric" => body = "numeric from text"
        /\ t = "mathesar_money" => body = "money from text"
        /\ t = "interval" => body = "interval from text"
        /\ t = "uri" => body = "uri from text"
        /\ t \in {"timestamp with time zone", "time without time zone", "email",
                    "mathesar_json_array", "mathesar_json_object"} => body = "default"
    BY TextBodies
  <2>3. body = "default" => t \in {"timestamp with time zone", "time without time zone", "email",
                                   "mathesar_json_array", "mathesar_json_object"}
    BY <2>2 DEF Inferred
  <2>4. body \in {"default", "interval from text", "boolean from text", "unzoned", "numeric from text",
                  "money from text", "uri from text"}
    BY <2>2 DEF Inferred
  <2>5. CASE body = "default"
    <3>1. \A w : Apply(body, w, s, t, x) = Input(w, t, x)
      BY <2>5, SomeTypes DEF Apply, Default
    <3>2. CASE t = "timestamp with time zone"
      BY <2>1, <3>1, <3>2, MomentsAreReadInUtc
    <3>3. CASE t \in {"time without time zone", "email", "mathesar_json_array", "mathesar_json_object"}
      <4>1. Input(0, t, x) = Input(z, t, x)
        BY <3>3 DEF Input, StringLikeTypes, StringTypes, IntegerTypes, DecimalTypes
      <4> QED BY <2>1, <3>1, <4>1
    <3> QED BY <2>5, <2>3, <3>2, <3>3
  <2>6. CASE body = "interval from text"
    <3>1. Input(0, "interval", x) = Input(z, "interval", x)
      BY DEF Input, StringLikeTypes, StringTypes, IntegerTypes, DecimalTypes
    <3>2. Apply(body, 0, s, t, x) = Apply(body, z, s, t, x)
      BY <2>6, <3>1 DEF Apply, IntervalFromText
    <3> QED BY <2>1, <3>2
  <2>7. CASE body \in {"boolean from text", "unzoned", "numeric from text", "money from text", "uri from text"}
    <3>1. Apply(body, 0, s, t, x) = Apply(body, z, s, t, x)
      BY <2>7 DEF Apply
    <3> QED BY <2>1, <3>1
  <2> QED BY <2>5, <2>6, <2>7, <2>4
<1> QED BY <1>1, <1>2

-----------------------------------------------------------------------------
(***************************************************************************)
(* Tuples and mappings.                                                    *)
(***************************************************************************)
\* A tuple is a sequence of what is in it.
LEMMA TupleIsSeq ==
    ASSUME NEW s, IsTuple(s)
    PROVE  s \in Seq(ToSet(s)) /\ Len(s) \in Nat /\ DOMAIN s = 1 .. Len(s)
<1>1. Len(s) \in Nat /\ s = [i \in 1 .. Len(s) |-> s[i]]
  BY DEF IsTuple
<1>2. DOMAIN s = 1 .. Len(s)
  BY <1>1
<1>3. \A i \in 1 .. Len(s) : s[i] \in ToSet(s)
  BY <1>2 DEF ToSet
<1>4. s \in [1 .. Len(s) -> ToSet(s)]
  BY <1>1, <1>3
<1> QED BY <1>1, <1>2, <1>4, SeqDef

\* A function on the first numbers is a tuple.
LEMMA TupleMade ==
    ASSUME NEW n \in Nat, NEW s, s = [i \in 1 .. n |-> s[i]]
    PROVE  IsTuple(s) /\ Len(s) = n
<1> DEFINE S == {s[i] : i \in 1 .. n}
<1>1. s \in [1 .. n -> S]
  OBVIOUS
<1>2. s \in Seq(S) /\ DOMAIN s = 1 .. n
  <2> HIDE DEF S
  <2> QED BY <1>1, SeqDef
<1>3. Len(s) = n
  <2> HIDE DEF S
  <2> QED BY <1>2, LenProperties
<1> QED BY <1>3 DEF IsTuple

\* A sequence is a tuple.
LEMMA SeqIsTuple ==
    ASSUME NEW S, NEW s \in Seq(S)
    PROVE  IsTuple(s)
<1>1. Len(s) \in Nat /\ s \in [1 .. Len(s) -> S]
  BY LenProperties
<1> QED BY <1>1 DEF IsTuple

\* The tail of a tuple.
LEMMA TailIsTuple ==
    ASSUME NEW s, IsTuple(s), s # <<>>
    PROVE  IsTuple(Tail(s))
<1> PICK S : S = ToSet(s)
  OBVIOUS
<1>1. s \in Seq(S)
  BY TupleIsSeq
<1>2. Tail(s) \in Seq(S)
  BY <1>1, HeadTailProperties
<1> QED BY <1>2, SeqIsTuple

\* A tuple with one more element.
LEMMA AppendIsTuple ==
    ASSUME NEW s, IsTuple(s), NEW e, NEW t, t = Append(s, e)
    PROVE  /\ IsTuple(t) /\ Len(t) = Len(s) + 1 /\ DOMAIN t = 1 .. Len(s) + 1
           /\ \A i \in DOMAIN s : t[i] = s[i]
           /\ t[Len(s) + 1] = e
<1> PICK S : S = ToSet(s) \union {e}
  OBVIOUS
<1>1. Len(s) \in Nat /\ DOMAIN s = 1 .. Len(s) /\ s \in Seq(ToSet(s))
  BY TupleIsSeq
<1>2. s \in Seq(S) /\ e \in S
  <2>1. s \in [1 .. Len(s) -> S]
    BY <1>1 DEF ToSet, IsTuple
  <2> QED BY <1>1, <2>1, SeqDef
<1>3. /\ t \in Seq(S) /\ Len(t) = Len(s) + 1
      /\ \A i \in 1 .. Len(s) : t[i] = s[i]
      /\ t[Len(s) + 1] = e
  BY <1>2, AppendProperties
<1>4. IsTuple(t)
  BY <1>3, SeqIsTuple
<1> QED BY <1>1, <1>3, <1>4, TupleIsSeq

\* Numbers tell the names apart.
LEMMA NumbersDiffer ==
    ASSUME NEW base, IsTuple(base), NEW m, NEW n, Numbered(base, m) = Numbered(base, n)
    PROVE  m = n
<1> PICK s : s = Numbered(base, m)
  OBVIOUS
<1>1. s[Len(base) + 1] = m
  BY AppendIsTuple DEF Numbered
<1>2. s[Len(base) + 1] = n
  BY AppendIsTuple DEF Numbered
<1> QED BY <1>1, <1>2

\* A numbered name is a tuple.
LEMMA NumberedIsTuple ==
    ASSUME NEW base, IsTuple(base), NEW n
    PROVE  IsTuple(Numbered(base, n))
BY AppendIsTuple DEF Numbered

\* The names used are tuples.
LEMMA WordsAreTuples == IsTuple(BaseName) /\ IsTuple(TempTable)
<1>1. <<"A">> \in Seq({"A"}) /\ <<"temp_table">> \in Seq({"temp_table"})
  OBVIOUS
<1> QED BY <1>1, SeqIsTuple DEF BaseName, TempTable

\* A name that is numbered until it is free is free: there are fewer names taken than
\* numbers to try.
LEMMA FirstFreeIsFree ==
    ASSUME NEW base, IsTuple(base), NEW from \in Nat, NEW taken, IsFiniteSet(taken)
    PROVE  FirstFree(base, from, taken) \notin taken
<1> PICK n : n = Cardinality(taken)
  OBVIOUS
<1> PICK tried : tried = from .. from + n
  OBVIOUS
<1> PICK names : names = {Numbered(base, k) : k \in tried}
  OBVIOUS
<1> DEFINE free == {k \in tried : Numbered(base, k) \notin taken}
<1>1. n \in Nat
  BY FS_CardinalityType
<1>2. free # {}
  <2> SUFFICES ASSUME names \subseteq taken PROVE FALSE
    OBVIOUS
  <2>1. IsFiniteSet(names) /\ Cardinality(names) <= n
    BY FS_Subset
  <2>2. IsFiniteSet(tried) /\ Cardinality(tried) = n + 1
    BY <1>1, FS_Interval
  <2>3. [k \in tried |-> Numbered(base, k)] \in Bijection(tried, names)
    <3> DEFINE f == [k \in tried |-> Numbered(base, k)]
    <3>1. f \in [tried -> names] /\ \A x \in names : \E k \in tried : f[k] = x
      OBVIOUS
    <3>2. \A j, k \in tried : f[j] = f[k] => j = k
      BY NumbersDiffer
    <3> QED BY <3>1, <3>2 DEF Bijection, Injection, Surjection, IsInjective
  <2>4. Cardinality(tried) = Cardinality(names)
    BY <2>2, <2>3, FS_Bijection DEF ExistsBijection
  <2> QED BY <1>1, <2>1, <2>2, <2>4
<1>3. free \in SUBSET Nat
  BY <1>1
<1>4. PICK k \in free : \A m \in free : k <= m
  BY <1>2, <1>3, SmallestIsThere
<1>5. /\ k \in from .. from + Cardinality(taken) /\ Numbered(base, k) \notin taken
      /\ \A m \in from .. k - 1 : Numbered(base, m) \in taken
  BY <1>1, <1>3, <1>4
<1> QED BY <1>5 DEF FirstFree

\* A new table gets a name that is free.
LEMMA NewNameIsFree ==
    ASSUME NEW name, IsTuple(name), IsFiniteSet(DOMAIN catalog)
    PROVE  AddMathesarTable(name, DOMAIN catalog) \notin DOMAIN catalog
<1>1. Cardinality(DOMAIN catalog) + 1 \in Nat
  BY FS_CardinalityType
<1>2. FirstFree(name, Cardinality(DOMAIN catalog) + 1, DOMAIN catalog) \notin DOMAIN catalog
  BY <1>1, FirstFreeIsFree
<1> QED BY <1>2 DEF AddMathesarTable

\* g is f with v for k.
IsPut(g, f, k, v) ==
    /\ DOMAIN g = DOMAIN f \union {k} /\ g[k] = v
    /\ \A x \in DOMAIN f \ {k} : g[x] = f[x]
    /\ IsMapping(g)

\* A mapping with a value put in.
LEMMA PutIs ==
    ASSUME NEW f, NEW k, NEW v
    PROVE  IsPut(Put(f, k, v), f, k, v)
<1> PICK g : g = Put(f, k, v)
  OBVIOUS
<1>1. DOMAIN Single(k, v) = {k} /\ Single(k, v)[k] = v
  BY DEF Single
<1>2. g = [x \in DOMAIN Single(k, v) \union DOMAIN f |->
             IF x \in DOMAIN Single(k, v) THEN Single(k, v)[x] ELSE f[x]]
  BY Zenon DEF Put, ++
<1>3. DOMAIN g = DOMAIN f \union {k}
  BY <1>1, <1>2
<1>4. IsMapping(g)
  BY <1>2 DEF IsMapping
<1>5. g[k] = v /\ \A x \in DOMAIN f \ {k} : g[x] = f[x]
  BY <1>1, <1>2
<1> QED BY <1>3, <1>4, <1>5 DEF IsPut

-----------------------------------------------------------------------------
(***************************************************************************)
(* Statements on the catalog.                                              *)
(***************************************************************************)
\* Tables are new, or are there already with the columns they have.
Evolves ==
    /\ made' \in Nat /\ made <= made'
    /\ \A name \in DOMAIN catalog' : catalog'[name].oid > made \/
         \E other \in DOMAIN catalog : /\ catalog'[name].oid = catalog[other].oid
                                       /\ DOMAIN catalog'[name].columns = DOMAIN catalog[other].columns

\* Next ids that were free are free.
FreeStays ==
    \A name \in DOMAIN catalog', other \in DOMAIN catalog :
        catalog'[name].oid = catalog[other].oid /\ NextIsFree(catalog[other]) => NextIsFree(catalog'[name])

\* A table is made, with an oid that was not used before.
LEMMA TableAdded ==
    ASSUME CatalogOK, NEW name, IsTuple(name), NEW t, TableOK(t), t.oid = made + 1, made' = made + 1,
           catalog' = Put(catalog, AddMathesarTable(name, DOMAIN catalog), t)
    PROVE  /\ CatalogOK' /\ Evolves /\ FreeStays /\ Oids' = Oids \union {made + 1}
           /\ \A x \in DOMAIN catalog' : catalog'[x].oid = made + 1 => catalog'[x] = t
<1> PICK new : new = AddMathesarTable(name, DOMAIN catalog)
  OBVIOUS
<1>1. new \notin DOMAIN catalog
  BY NewNameIsFree DEF CatalogOK
<1>2. /\ DOMAIN catalog' = DOMAIN catalog \union {new} /\ catalog'[new] = t
      /\ \A x \in DOMAIN catalog \ {new} : catalog'[x] = catalog[x]
      /\ IsMapping(catalog')
  <2>1. catalog' = Put(catalog, new, t)
    OBVIOUS
  <2>2. IsPut(catalog', catalog, new, t)
    BY <2>1, PutIs
  <2> QED BY <2>2 DEF IsPut
<1>3. \A x \in DOMAIN catalog : catalog'[x] = catalog[x]
  BY <1>1, <1>2
<1>4. made \in Nat /\ \A x \in DOMAIN catalog : catalog[x].oid \in 1 .. made
  BY DEF CatalogOK
<1>5. IsFiniteSet(DOMAIN catalog')
  BY <1>2, FS_AddElement DEF CatalogOK
<1>6. \A x \in DOMAIN catalog' : TableOK(catalog'[x]) /\ catalog'[x].oid \in 1 .. made'
  BY <1>2, <1>3, <1>4 DEF CatalogOK
<1>7. \A x, y \in DOMAIN catalog' : catalog'[x].oid = catalog'[y].oid => x = y
  BY <1>2, <1>3, <1>4 DEF CatalogOK
<1>8. CatalogOK'
  BY <1>2, <1>4, <1>5, <1>6, <1>7 DEF CatalogOK
<1>9. Evolves /\ FreeStays
  BY <1>2, <1>3, <1>4 DEF Evolves, FreeStays, CatalogOK
<1>10. Oids' = Oids \union {made + 1}
  BY <1>2, <1>3 DEF Oids, Tables
<1>11. \A x \in DOMAIN catalog' : catalog'[x].oid = made + 1 => catalog'[x] = t
  BY <1>2, <1>3, <1>4
<1> QED BY <1>8, <1>9, <1>10, <1>11

\* A table is changed, and keeps its columns.
LEMMA TableChanged ==
    ASSUME CatalogOK, NEW name \in DOMAIN catalog, NEW u, TableOK(u), u.oid = catalog[name].oid,
           DOMAIN u.columns = DOMAIN catalog[name].columns, made' = made,
           catalog' = [catalog EXCEPT ![name] = u]
    PROVE  /\ CatalogOK' /\ Evolves /\ Oids' = Oids
           /\ (NextIsFree(catalog[name]) => NextIsFree(u)) => FreeStays
           /\ \A x \in DOMAIN catalog' : catalog'[x].oid = u.oid => catalog'[x] = u
<1>1. DOMAIN catalog' = DOMAIN catalog /\ IsMapping(catalog')
  BY DEF IsMapping
<1>2. catalog'[name] = u /\ \A x \in DOMAIN catalog \ {name} : catalog'[x] = catalog[x]
  OBVIOUS
<1>3. made \in Nat /\ \A x \in DOMAIN catalog : catalog[x].oid \in 1 .. made
  BY DEF CatalogOK
<1>4. \A x \in DOMAIN catalog : catalog'[x].oid = catalog[x].oid
  BY <1>2
<1>5. CatalogOK'
  BY <1>1, <1>2, <1>3, <1>4 DEF CatalogOK
<1>6. Evolves
  <2>1. \A x \in DOMAIN catalog : DOMAIN catalog'[x].columns = DOMAIN catalog[x].columns
    BY <1>2
  <2> QED BY <1>1, <1>3, <1>4, <2>1 DEF Evolves
<1>7. Oids' = Oids
  BY <1>1, <1>4 DEF Oids, Tables
<1>8. (NextIsFree(catalog[name]) => NextIsFree(u)) => FreeStays
  BY <1>1, <1>2, <1>4 DEF FreeStays, CatalogOK
<1>9. \A x \in DOMAIN catalog' : catalog'[x].oid = u.oid => catalog'[x] = u
  BY <1>1, <1>2, <1>4 DEF CatalogOK
<1> QED BY <1>5, <1>6, <1>7, <1>8, <1>9

\* A table gets a name that is free.
LEMMA TableRenamed ==
    ASSUME CatalogOK, NEW name \in DOMAIN catalog, NEW new, new \notin DOMAIN catalog,
           RenameTable(name, new), made' = made
    PROVE  CatalogOK' /\ Evolves /\ FreeStays /\ Oids' = Oids
<1> PICK rest : rest = Without(catalog, name)
  OBVIOUS
<1>1. DOMAIN rest = DOMAIN catalog \ {name} /\ \A x \in DOMAIN rest : rest[x] = catalog[x]
  BY DEF Without
<1>2. catalog' = Put(rest, new, catalog[name])
  BY DEF RenameTable
<1>3. /\ DOMAIN catalog' = DOMAIN rest \union {new} /\ catalog'[new] = catalog[name]
      /\ \A x \in DOMAIN rest \ {new} : catalog'[x] = rest[x]
      /\ IsMapping(catalog')
  <2>1. IsPut(catalog', rest, new, catalog[name])
    BY <1>2, PutIs
  <2> QED BY <2>1 DEF IsPut
<1>4. /\ DOMAIN catalog' = (DOMAIN catalog \ {name}) \union {new} /\ catalog'[new] = catalog[name]
      /\ \A x \in DOMAIN catalog \ {name} : catalog'[x] = catalog[x]
  BY <1>1, <1>3
<1>5. IsFiniteSet(DOMAIN catalog \ {name})
  BY FS_Subset DEF CatalogOK
<1>6. IsFiniteSet(DOMAIN catalog')
  BY <1>4, <1>5, FS_AddElement
<1>7. \A x \in DOMAIN catalog' : \E y \in DOMAIN catalog : catalog'[x] = catalog[y] /\ y = IF x = new THEN name ELSE x
  BY <1>4
<1>8. \A x, y \in DOMAIN catalog' : catalog'[x].oid = catalog'[y].oid => x = y
  BY <1>4 DEF CatalogOK
<1>9. CatalogOK'
  BY <1>3, <1>6, <1>7, <1>8 DEF CatalogOK
<1>10. Evolves
  BY <1>7 DEF Evolves, CatalogOK
<1>11. FreeStays
  BY <1>7 DEF FreeStays, CatalogOK
<1>12. Oids' = Oids
  <2>1. \A x \in DOMAIN catalog : \E y \in DOMAIN catalog' : catalog'[y] = catalog[x]
    BY <1>4
  <2> QED BY <1>7, <2>1 DEF Oids, Tables
<1> QED BY <1>9, <1>10, <1>11, <1>12

\* A table is dropped.
LEMMA TableDropped ==
    ASSUME CatalogOK, NEW name, catalog' = Without(catalog, name), made' = made
    PROVE  CatalogOK' /\ Evolves /\ FreeStays
<1>1. DOMAIN catalog' = DOMAIN catalog \ {name} /\ \A x \in DOMAIN catalog' : catalog'[x] = catalog[x]
  BY DEF Without
<1>2. IsMapping(catalog')
  BY DEF Without, IsMapping
<1>3. IsFiniteSet(DOMAIN catalog')
  BY <1>1, FS_Subset DEF CatalogOK
<1> QED BY <1>1, <1>2, <1>3 DEF CatalogOK, Evolves, FreeStays

\* The catalog is left alone.
LEMMA CatalogStays ==
    ASSUME CatalogOK, UNCHANGED <<catalog, made>>
    PROVE  CatalogOK' /\ Evolves /\ FreeStays /\ Oids' = Oids
BY DEF CatalogOK, Evolves, FreeStays, Oids, Tables

-----------------------------------------------------------------------------
(***************************************************************************)
(* What is said of the catalog elsewhere stays true when it evolves.       *)
(***************************************************************************)
\* Columns stay.
LEMMA ColumnsStay ==
    ASSUME CatalogOK, Evolves, NEW oid \in 1 .. made, NEW C, HasColumns(oid, C)
    PROVE  oid \in 1 .. made' /\ HasColumns(oid, C)'
<1>1. made \in Nat
  BY DEF CatalogOK
<1>2. oid \in 1 .. made'
  BY <1>1 DEF Evolves
<1>3. ASSUME NEW name \in DOMAIN catalog', catalog'[name].oid = oid
      PROVE  DOMAIN catalog'[name].columns = C
  <2>1. ~(catalog'[name].oid > made)
    BY <1>1, <1>3
  <2>2. PICK other \in DOMAIN catalog : /\ catalog'[name].oid = catalog[other].oid
                                        /\ DOMAIN catalog'[name].columns = DOMAIN catalog[other].columns
    BY <2>1 DEF Evolves
  <2> QED BY <1>3, <2>2 DEF HasColumns
<1> QED BY <1>2, <1>3 DEF HasColumns

\* The suggestions that are there.
LEMMA SuggestionsStay ==
    ASSUME CatalogOK, Evolves, SuggestionsOK, UNCHANGED <<zone, suggestions>>
    PROVE  SuggestionsOK'
<1>1. ASSUME NEW s \in suggestions
      PROVE  s.seen.oid \in 1 .. made' /\ HasColumns(s.seen.oid, DOMAIN s.seen.columns)'
  BY ColumnsStay DEF SuggestionsOK
<1>2. ASSUME NEW s \in suggestions
      PROVE  Found(s.seen, s.types)'
  BY DEF SuggestionsOK, Found, CastsInAnyZone, CastZones
<1> QED BY <1>1, <1>2 DEF SuggestionsOK

\* A copy.
LEMMA CopyStays ==
    ASSUME CatalogOK, Evolves, NEW copy, CopyOK(copy), zone' = zone
    PROVE  CopyOK(copy)'
<1>1. copy.table.oid \in 1 .. made' /\ HasColumns(copy.table.oid, DOMAIN copy.table.columns)'
  BY ColumnsStay DEF CopyOK
<1>2. Found(copy.table, copy.types)'
  BY DEF CopyOK, Found, CastsInAnyZone, CastZones
<1> QED BY <1>1, <1>2 DEF CopyOK, TableOK

\* The copies that are there.
LEMMA TempsStay ==
    ASSUME CatalogOK, Evolves, TempsOK, UNCHANGED <<zone, second, temps>>
    PROVE  TempsOK'
<1>1. ASSUME NEW name \in DOMAIN temps
      PROVE  CopyOK(temps[name])'
  <2> PICK copy : copy = temps[name]
    OBVIOUS
  <2>1. CopyOK(copy)'
    BY CopyStays DEF TempsOK
  <2> QED BY <2>1
<1> QED BY <1>1 DEF TempsOK, TempNames, IsMapping

\* Columns that are there at least.
LEMMA AtLeastStays ==
    ASSUME CatalogOK, Evolves, NEW oid \in 1 .. made, NEW C, HasAtLeast(oid, C)
    PROVE  oid \in 1 .. made' /\ HasAtLeast(oid, C)'
<1>1. made \in Nat
  BY DEF CatalogOK
<1>2. oid \in 1 .. made'
  BY <1>1 DEF Evolves
<1>3. ASSUME NEW name \in DOMAIN catalog', catalog'[name].oid = oid
      PROVE  C \subseteq DOMAIN catalog'[name].columns
  <2>1. ~(catalog'[name].oid > made)
    BY <1>1, <1>3
  <2>2. PICK other \in DOMAIN catalog : /\ catalog'[name].oid = catalog[other].oid
                                        /\ DOMAIN catalog'[name].columns = DOMAIN catalog[other].columns
    BY <2>1 DEF Evolves
  <2> QED BY <1>3, <2>2 DEF HasAtLeast
<1> QED BY <1>2, <1>3 DEF HasAtLeast

\* The change that is under way.
LEMMA PatchStays ==
    ASSUME CatalogOK, Evolves, PatchOK, UNCHANGED patch
    PROVE  PatchOK'
<1>1. ASSUME NEW p \in patch
      PROVE  p.oid \in 1 .. made' /\ HasAtLeast(p.oid, DOMAIN p.types)'
  BY AtLeastStays DEF PatchOK
<1> QED BY <1>1 DEF PatchOK

\* What the requests are about.
LEMMA RequestsStay ==
    ASSUME RequestsOK, imported \subseteq imported', UNCHANGED <<requests, second>>
    PROVE  RequestsOK'
BY DEF RequestsOK, TempNames

\* The tables of imports that ended well.
LEMMA ImportedStays ==
    ASSUME ImportedOK, FreeStays, Oids \subseteq Oids', imported' = imported, imported # {} => importing' = Idle
    PROVE  ImportedOK'
<1>1. ASSUME NEW i \in imported, NEW name \in DOMAIN catalog', catalog'[name].oid = i.oid
      PROVE  NextIsFree(catalog'[name])
  <2>1. PICK other \in DOMAIN catalog : catalog[other].oid = i.oid
    BY DEF ImportedOK, Oids, Tables
  <2>2. NextIsFree(catalog[other])
    BY <2>1 DEF ImportedOK
  <2> QED BY <1>1, <2>1, <2>2 DEF FreeStays
<1> QED BY <1>1 DEF ImportedOK

\* An import.
LEMMA ImportStays ==
    ASSUME CatalogOK, Evolves, FreeStays, Oids \subseteq Oids', NEW i, ImportOK(i)
    PROVE  ImportOK(i)'
<1>1. i.tables \subseteq 1 .. made'
  BY DEF ImportOK, CatalogOK, Evolves
<1>2. ASSUME i.step = "finish", NEW name \in DOMAIN catalog', catalog'[name].oid = Max(i.tables)
      PROVE  NextIsFree(catalog'[name])
  <2>1. PICK other \in DOMAIN catalog : catalog[other].oid = Max(i.tables)
    BY <1>2 DEF ImportOK, Oids, Tables
  <2>2. NextIsFree(catalog[other])
    BY <1>2, <2>1 DEF ImportOK
  <2> QED BY <1>2, <2>1, <2>2 DEF FreeStays
<1>3. FileOK(i.file.of)' /\ IsTuple(i.file.rows)' /\ IsTuple(i.name)'
  BY DEF ImportOK, FileOK, IsTuple
<1>4. i.step \in {"fill", "sequence", "finish"} => i.tables # {} /\ Max(i.tables) \in Oids'
  BY DEF ImportOK
<1>5. /\ DOMAIN i = {"step", "file", "name", "tables", "retry", "names"}
      /\ i.step \in {"create", "fill", "sequence", "drop", "finish"} /\ i.retry \in BOOLEAN
      /\ i.retry => "id" \notin ToSet(i.names)
  BY DEF ImportOK
<1>6. i.step = "finish" => \A name \in DOMAIN catalog' : catalog'[name].oid = Max(i.tables) => NextIsFree(catalog'[name])
  BY <1>2
<1> QED BY <1>1, <1>3, <1>4, <1>5, <1>6, Zenon DEF ImportOK

\* The import under way, and the file.
LEMMA ImportsStay ==
    ASSUME CatalogOK, Evolves, FreeStays, Oids \subseteq Oids', ImportsOK, UNCHANGED <<importing, datafile>>
    PROVE  ImportsOK'
<1>1. \A i \in importing : ImportOK(i)'
  BY ImportStays DEF ImportsOK
<1> QED BY <1>1 DEF ImportsOK, FileOK

\* All that an import leaves aside.
LEMMA AsideStays ==
    ASSUME ImportInv, Evolves, UNCHANGED <<zone, inference, patch, asked>>, imported \subseteq imported'
    PROVE  RequestsOK' /\ Owned' /\ TempsOK' /\ SuggestionsOK' /\ PatchOK' /\ CountsOK'
<1>1. RequestsOK'
  BY RequestsStay DEF ImportInv, inference
<1>2. Owned'
  BY DEF ImportInv, inference, Owned
<1>3. TempsOK' /\ SuggestionsOK' /\ PatchOK'
  BY TempsStay, SuggestionsStay, PatchStays DEF ImportInv, inference
<1>4. CountsOK'
  BY DEF ImportInv, inference, CountsOK
<1> QED BY <1>1, <1>2, <1>3, <1>4

-----------------------------------------------------------------------------
(***************************************************************************)
(* Importing.                                                              *)
(***************************************************************************)
\* One import is under way, if any.
LEMMA TheImport ==
    ASSUME ImportsOK, importing # Idle
    PROVE  Import \in importing /\ importing = {Import} /\ ImportOK(Import)
BY DEF ImportsOK, Idle, Import

\* An upload is given a type it can be read by.
LEMMA CreateDataFileKeeps ==
    ASSUME ImportInv, CreateDataFile
    PROVE  ImportInv'
<1>1. CatalogOK' /\ Evolves /\ FreeStays /\ Oids' = Oids
  BY CatalogStays DEF ImportInv, CreateDataFile
<1>2. PICK u \in Uploads : IsAccepted(u) /\ datafile' = {create_datafile(u)}
  BY DEF CreateDataFile
<1>3. FileOK(create_datafile(u))
  <2>1. TypeOf(u) \in {"csv", "tsv", "json", "excel"}
    BY DEF TypeOf, get_file_type
  <2> QED BY <1>2, <2>1 DEF create_datafile, FileOK, IsAccepted, get_sv_dialect
<1>4. \A i \in importing : ImportOK(i)'
  BY <1>1, ImportStays DEF ImportInv, ImportsOK
<1>5. ImportsOK'
  BY <1>2, <1>3, <1>4 DEF ImportInv, ImportsOK, CreateDataFile, FileOK
<1>6. ImportedOK'
  BY <1>1, ImportedStays DEF ImportInv, ImportedOK, CreateDataFile
<1>7. RequestsOK' /\ Owned' /\ TempsOK' /\ SuggestionsOK' /\ PatchOK' /\ CountsOK'
  BY <1>1, AsideStays DEF CreateDataFile
<1> QED BY <1>1, <1>5, <1>6, <1>7 DEF ImportInv

\* The header is switched.
LEMMA PatchHeaderKeeps ==
    ASSUME ImportInv, PatchHeader
    PROVE  ImportInv'
<1>1. CatalogOK' /\ Evolves /\ FreeStays /\ Oids' = Oids
  BY CatalogStays DEF ImportInv, PatchHeader
<1>2. PICK file \in datafile : datafile' = {[file EXCEPT !.header = ~@]}
  BY DEF PatchHeader
<1>3. FileOK([file EXCEPT !.header = ~@])
  BY <1>2 DEF ImportInv, ImportsOK, FileOK
<1>4. \A i \in importing : ImportOK(i)'
  BY <1>1, ImportStays DEF ImportInv, ImportsOK
<1>5. ImportsOK'
  BY <1>2, <1>3, <1>4 DEF ImportInv, ImportsOK, PatchHeader, FileOK
<1>6. ImportedOK'
  BY <1>1, ImportedStays DEF ImportInv, ImportedOK, PatchHeader
<1>7. RequestsOK' /\ Owned' /\ TempsOK' /\ SuggestionsOK' /\ PatchOK'
  BY <1>1, RequestsStay, TempsStay, SuggestionsStay, PatchStays DEF ImportInv, PatchHeader, inference, Owned
<1>8. CountsOK'
  BY ImportAssumption DEF ImportInv, PatchHeader, inference, CountsOK
<1> QED BY <1>1, <1>5, <1>6, <1>7, <1>8 DEF ImportInv

\* What is read from a file: its rows are a tuple.
HasTuple(frame) == "rows" \in DOMAIN frame /\ IsTuple(frame.rows)

\* A sheet.
LEMMA SheetIsTuple ==
    ASSUME NEW lines, IsTuple(lines), lines # <<>>
    PROVE  HasTuple(remove_empty_rows_and_columns_from_dataframe(read_excel(lines)))
<1> PICK frame : frame = read_excel(lines)
  OBVIOUS
<1>1. DOMAIN frame = {"of", "rows", "names"} /\ frame.rows = Tail(lines) /\ IsTuple(frame.rows)
  BY TailIsTuple DEF read_excel
<1> PICK some : some = IF Null \in ToSet(frame.rows[1]) THEN dropna(frame) ELSE frame
  OBVIOUS
<1>2. IsTuple(dropna(frame).rows) /\ DOMAIN dropna(frame) = {"of", "rows", "names"}
  <2> PICK kept : kept = {i \in DOMAIN frame.rows : ~IsEmpty(frame.rows[i])}
    OBVIOUS
  <2> PICK rows : rows = Picked(frame.rows, kept)
    OBVIOUS
  <2> PICK n : n = Len(frame.rows)
    OBVIOUS
  <2>1. kept \subseteq 1 .. n /\ n \in Nat
    BY <1>1, TupleIsSeq
  <2>2. Cardinality(kept) \in Nat
    <3>1. IsFiniteSet(1 .. n)
      BY <2>1, FS_Interval
    <3>2. IsFiniteSet(kept)
      BY <2>1, <3>1, FS_Subset
    <3> QED BY <3>2, FS_CardinalityType
  <2>3. DOMAIN rows = 1 .. Cardinality(kept)
    BY DEF Picked
  <2> PICK columns : columns = {c \in frame.of : \E i \in DOMAIN rows : rows[i][c] # Null}
    OBVIOUS
  <2>4. dropna(frame) = [frame EXCEPT !.names = Picked(@, columns), !.rows = [i \in DOMAIN rows |-> Picked(rows[i], columns)]]
    BY DEF dropna
  <2>5. /\ dropna(frame).rows = [i \in 1 .. Cardinality(kept) |-> Picked(rows[i], columns)]
        /\ DOMAIN dropna(frame) = {"of", "rows", "names"}
    BY <1>1, <2>3, <2>4
  <2>6. dropna(frame).rows = [i \in 1 .. Cardinality(kept) |-> dropna(frame).rows[i]]
    BY <2>5
  <2> QED BY <2>2, <2>5, <2>6, TupleMade
<1>3. IsTuple(some.rows) /\ DOMAIN some = {"of", "rows", "names"}
  BY <1>1, <1>2
<1>4. remove_empty_rows_and_columns_from_dataframe(frame) =
        IF IsUnnamed(some) /\ some.rows # <<>> THEN [some EXCEPT !.names = some.rows[1], !.rows = Tail(@)] ELSE some
  BY DEF remove_empty_rows_and_columns_from_dataframe
<1>5. CASE IsUnnamed(some) /\ some.rows # <<>>
  <2> PICK result : result = remove_empty_rows_and_columns_from_dataframe(frame)
    OBVIOUS
  <2>1. result = [some EXCEPT !.names = some.rows[1], !.rows = Tail(@)]
    BY <1>4, <1>5
  <2>2. "rows" \in DOMAIN result /\ result.rows = Tail(some.rows)
    BY <1>3, <2>1
  <2> QED BY <1>3, <1>5, <2>2, TailIsTuple DEF HasTuple
<1>6. CASE ~(IsUnnamed(some) /\ some.rows # <<>>)
  BY <1>3, <1>4, <1>6 DEF HasTuple
<1> QED BY <1>5, <1>6

\* Delimited text.
LEMMA TextIsTuple ==
    ASSUME NEW d, IsTuple(d.upload.lines), d.upload.lines # <<>>
    PROVE  HasTuple(get_sv_reader(d))
BY TailIsTuple DEF get_sv_reader, HasTuple

\* Every file.
LEMMA ReadIsTuple ==
    ASSUME NEW d, FileOK(d), Readable(d)
    PROVE  HasTuple(Read(d))
<1>1. IsTuple(d.upload.lines) /\ IsTuple(d.upload.objects)
  BY ImportAssumption DEF FileOK
<1>2. CASE d.type \in {"csv", "tsv"}
  BY <1>1, <1>2, TextIsTuple DEF FileOK, Read
<1>3. CASE d.type = "json"
  <2> PICK rows : rows = Read(d).rows
    OBVIOUS
  <2>1. /\ DOMAIN rows = DOMAIN d.upload.objects /\ rows = [i \in DOMAIN rows |-> rows[i]]
        /\ "rows" \in DOMAIN Read(d)
    BY <1>3 DEF Read, json_normalize
  <2>2. DOMAIN d.upload.objects = 1 .. Len(d.upload.objects) /\ Len(d.upload.objects) \in Nat
    BY <1>1, TupleIsSeq
  <2> QED BY <2>1, <2>2, TupleMade DEF HasTuple
<1>4. CASE d.type \notin {"csv", "tsv", "json"}
  <2>1. d.type = "excel" /\ Len(d.upload.lines) > 1
    BY <1>4 DEF FileOK, Readable
  <2>2. d.upload.lines # <<>>
    BY <2>1
  <2> QED BY <1>1, <1>4, <2>2, SheetIsTuple DEF Read
<1> QED BY <1>2, <1>3, <1>4

\* The fields of the import under way that a step sets.
LEMMA SetIs ==
    ASSUME NEW fields, Set(fields)
    PROVE  \E j : /\ importing' = {j} /\ DOMAIN j = DOMAIN Import
                  /\ \A f \in DOMAIN Import : j[f] = IF f \in DOMAIN fields THEN fields[f] ELSE Import[f]
<1> PICK i : i = Import
  OBVIOUS
<1> PICK j : j = [f \in DOMAIN i |-> IF f \in DOMAIN fields THEN fields[f] ELSE i[f]]
  OBVIOUS
<1>1. importing' = {j}
  BY DEF Set
<1>2. DOMAIN j = DOMAIN i /\ \A f \in DOMAIN i : j[f] = IF f \in DOMAIN fields THEN fields[f] ELSE i[f]
  OBVIOUS
<1> QED BY <1>1, <1>2

\* A step of an import that leaves a fitting import, or none.
LEMMA ImportMoves ==
    ASSUME ImportInv, importing # Idle, UNCHANGED aside, CatalogOK', Evolves,
           importing' = Idle \/ \E j : importing' = {j} /\ ImportOK(j)'
    PROVE  ImportInv'
<1>1. imported = {} /\ imported' = imported
  BY DEF ImportInv, ImportedOK, aside
<1>2. ImportedOK'
  BY <1>1 DEF ImportedOK
<1>3. ImportsOK'
  <2>1. \A d \in datafile' : FileOK(d)'
    BY DEF ImportInv, ImportsOK, aside, FileOK
  <2> QED BY <2>1 DEF ImportsOK, Idle
<1>4. RequestsOK' /\ Owned' /\ TempsOK' /\ SuggestionsOK' /\ PatchOK' /\ CountsOK'
  BY AsideStays DEF aside
<1> QED BY <1>2, <1>3, <1>4 DEF ImportInv

\* An import begins.
LEMMA StartImportKeeps ==
    ASSUME ImportInv, StartImport
    PROVE  ImportInv'
<1>1. CatalogOK' /\ Evolves /\ FreeStays /\ Oids' = Oids
  BY CatalogStays DEF ImportInv, StartImport
<1>2. PICK d \in datafile, name \in {BaseName, GenTableName(DOMAIN catalog)} :
        /\ Readable(d)
        /\ importing' = {[step |-> "create", file |-> AsRead(d), name |-> name, tables |-> {}, retry |-> FALSE,
                          names |-> ProcessColumnNames(AsRead(d).names)]}
  BY DEF StartImport
<1> PICK file : file = AsRead(d)
  OBVIOUS
<1>3. FileOK(d) /\ HasTuple(Read(d))
  BY <1>2, ReadIsTuple DEF ImportInv, ImportsOK
<1>4. file.of = d /\ file.rows = Read(d).rows
  <2> PICK front : front = [of |-> d, kind |-> IF d.type = "tsv" THEN "csv" ELSE d.type]
    OBVIOUS
  <2>1. DOMAIN front = {"of", "kind"} /\ front.of = d
    OBVIOUS
  <2>2. file = [x \in DOMAIN front \union DOMAIN Read(d) |-> IF x \in DOMAIN front THEN front[x] ELSE Read(d)[x]]
    BY DEF AsRead, ++
  <2> QED BY <1>3, <2>1, <2>2 DEF HasTuple
<1>5. IsTuple(name)
  <2>1. CASE name = BaseName
    BY <2>1, WordsAreTuples
  <2>2. CASE name = GenTableName(DOMAIN catalog)
    BY <2>2, WordsAreTuples, NumberedIsTuple DEF GenTableName, FirstFree
  <2> QED BY <1>2, <2>1, <2>2
<1> PICK i : i = [step |-> "create", file |-> file, name |-> name, tables |-> {}, retry |-> FALSE,
                  names |-> ProcessColumnNames(file.names)]
  OBVIOUS
<1>6. /\ DOMAIN i = {"step", "file", "name", "tables", "retry", "names"}
      /\ i.step = "create" /\ i.file = file /\ i.name = name /\ i.tables = {} /\ i.retry = FALSE
  OBVIOUS
<1>7. ImportOK(i)'
  BY <1>3, <1>4, <1>5, <1>6 DEF ImportOK, FileOK, HasTuple, IsTuple
<1>8. ImportsOK'
  BY <1>2, <1>7 DEF ImportInv, ImportsOK, StartImport, aside, FileOK
<1>9. ImportedOK'
  BY DEF ImportedOK, StartImport, aside
<1>10. RequestsOK' /\ Owned' /\ TempsOK' /\ SuggestionsOK' /\ PatchOK' /\ CountsOK'
  BY <1>1, AsideStays DEF StartImport, aside
<1> QED BY <1>1, <1>8, <1>9, <1>10 DEF ImportInv

\* The largest of the oids of an import.
LEMMA LargestOid ==
    ASSUME NEW n \in Nat, NEW S, S \subseteq 1 .. n
    PROVE  Max(S \union {n + 1}) = n + 1
<1>1. S \union {n + 1} \in SUBSET (0 .. n + 1) /\ n + 1 \in Nat
  OBVIOUS
<1> PICK m : m = Max(S \union {n + 1})
  OBVIOUS
<1>2. m \in S \union {n + 1} /\ \A x \in S \union {n + 1} : x <= m
  BY <1>1, LargestIsThere
<1>3. m \in 0 .. n + 1 /\ n + 1 <= m
  BY <1>1, <1>2
<1> QED BY <1>3

\* The table of columns of text is made.
LEMMA CreateTableKeeps ==
    ASSUME ImportInv, CreateTable
    PROVE  ImportInv'
<1>1. importing # Idle /\ UNCHANGED aside /\ ImportOK(Import) /\ Import.step = "create" /\ CatalogOK
  BY TheImport DEF ImportInv, CreateTable
<1>2. CASE HasDuplicates(Import.names)
  <2>1. importing' = Idle /\ UNCHANGED <<catalog, made>>
    BY <1>2 DEF CreateTable, Fail
  <2>2. CatalogOK' /\ Evolves
    BY <1>1, <2>1, CatalogStays
  <2> QED BY <1>1, <2>1, <2>2, ImportMoves
<1>3. CASE ~HasDuplicates(Import.names)
  <2> PICK fields : fields = [step |-> "fill", tables |-> Import.tables \union {made + 1}]
    OBVIOUS
  <2>1. DOMAIN fields = {"step", "tables"} /\ fields["step"] = "fill" /\ fields["tables"] = Import.tables \union {made + 1}
    OBVIOUS
  <2>2. CreateStringColumnTable(Import.name, Import.names) /\ Set(fields)
    BY <1>3 DEF CreateTable
  <2> PICK t : t = [oid |-> made + 1, next |-> 1, rows |-> <<>>,
                    columns |-> [c \in ToSet(Import.names) \ {"id"} |-> "text"]]
    OBVIOUS
  <2>3. catalog' = Put(catalog, AddMathesarTable(Import.name, DOMAIN catalog), t) /\ made' = made + 1
    BY <2>2 DEF CreateStringColumnTable
  <2>4. TableOK(t) /\ t.oid = made + 1
    <3>1. \A c \in DOMAIN t.columns : t.columns[c] \in KnownDbTypes
      <4>1. "text" \in KnownDbTypes
        BY DEF KnownDbTypes, PostgresTypes
      <4> QED BY <4>1
    <3>2. IsTuple(t.rows) /\ DOMAIN t.rows = {}
      BY DEF IsTuple
    <3> QED BY <3>1, <3>2 DEF TableOK
  <2>5. IsTuple(Import.name)
    BY <1>1 DEF ImportOK
  <2>6. CatalogOK' /\ Evolves /\ FreeStays /\ Oids' = Oids \union {made + 1}
    BY <1>1, <2>3, <2>4, <2>5, TableAdded
  <2>7. PICK j : /\ importing' = {j} /\ DOMAIN j = DOMAIN Import
                 /\ \A f \in DOMAIN Import : j[f] = IF f \in DOMAIN fields THEN fields[f] ELSE Import[f]
    BY <2>2, SetIs
  <2>8. /\ j.step = "fill" /\ j.tables = Import.tables \union {made + 1} /\ j.file = Import.file
        /\ j.name = Import.name /\ j.retry = Import.retry /\ j.names = Import.names
    BY <1>1, <2>1, <2>7 DEF ImportOK
  <2>9. made \in Nat /\ Import.tables \subseteq 1 .. made
    BY <1>1 DEF ImportOK, CatalogOK
  <2>10. j.tables # {} /\ Max(j.tables) \in Oids' /\ j.tables \subseteq 1 .. made'
    <3>1. Max(Import.tables \union {made + 1}) = made + 1
      BY <2>9, LargestOid
    <3>2. Import.tables \union {made + 1} \subseteq 1 .. made + 1
      BY <2>9
    <3> QED BY <2>3, <2>6, <2>8, <3>1, <3>2
  <2>11. ImportOK(j)'
    BY <1>1, <2>7, <2>8, <2>10 DEF ImportOK, FileOK, IsTuple
  <2> QED BY <1>1, <2>6, <2>7, <2>11, ImportMoves
<1> QED BY <1>2, <1>3

\* The greatest integer.
LEMMA MaxIsNatural == MaxInteger \in Nat /\ 2 < MaxInteger
BY SMT DEF MaxInteger

\* The ids a file may give.
LEMMA IdsAreIntegers ==
    ASSUME NEW x \in DOMAIN IdOf
    PROVE  IdOf[x] \in 0 .. MaxInteger
<1> PICK one : one = Single("1", 1)
  OBVIOUS
<1> PICK two : two = Single("2", 2)
  OBVIOUS
<1> PICK largest : largest = Single("2147483647", MaxInteger)
  OBVIOUS
<1> PICK both : both = one ++ two
  OBVIOUS
<1>1. /\ DOMAIN one = {"1"} /\ one["1"] = 1
      /\ DOMAIN two = {"2"} /\ two["2"] = 2
      /\ DOMAIN largest = {"2147483647"} /\ largest["2147483647"] = MaxInteger
  BY DEF Single
<1>2. both = [y \in DOMAIN one \union DOMAIN two |-> IF y \in DOMAIN one THEN one[y] ELSE two[y]]
  BY DEF ++
<1>3. IdOf = [y \in DOMAIN both \union DOMAIN largest |-> IF y \in DOMAIN both THEN both[y] ELSE largest[y]]
  BY DEF IdOf, ++
<1>4. \A y \in DOMAIN both : both[y] \in {1, 2}
  BY <1>1, <1>2
<1>5. IdOf[x] \in {1, 2, MaxInteger}
  BY <1>1, <1>3, <1>4
<1> QED BY <1>5, MaxIsNatural

\* The rows are inserted: those with an id have one of the file's, and each other its
\* number.
LEMMA InsertedOK ==
    ASSUME NEW t, TableOK(t), NEW file, IsTuple(file.rows), NEW names, FillError(file, names) = "none",
           NEW u, u = InsertRecords(t, file, names)
    PROVE  /\ TableOK(u) /\ u.oid = t.oid /\ u.columns = t.columns
           /\ "id" \notin ToSet(names) => NextIsFree(u)
<1> PICK given : given = Given(file, names)
  OBVIOUS
<1> PICK n : n = Len(given)
  OBVIOUS
<1>1. given = [i \in DOMAIN file.rows |-> given[i]] /\ DOMAIN given = DOMAIN file.rows
  BY DEF Given
<1>2. IsTuple(given) /\ n \in Nat /\ DOMAIN given = 1 .. n
  BY <1>1, TupleIsSeq, TupleMade
<1>3. \A i \in DOMAIN given : "id" \in DOMAIN given[i] => given[i]["id"] \in DOMAIN IdOf
  <2> PICK ids : ids = {i \in DOMAIN given : "id" \in DOMAIN given[i]}
    OBVIOUS
  <2>1. /\ ~(\E i \in ids : given[i]["id"] \notin DOMAIN IdOf \union {Null})
        /\ ~(\E i \in ids : given[i]["id"] = Null \/ \E j \in ids : i # j /\ given[i]["id"] = given[j]["id"])
    BY DEF FillError
  <2> QED BY <2>1
<1> PICK rows : rows = [i \in DOMAIN given |->
                           [id |-> IF "id" \in DOMAIN given[i] THEN IdOf[given[i]["id"]] ELSE i,
                            cells |-> [c \in DOMAIN t.columns |-> given[i][c]]]]
  OBVIOUS
<1> PICK next : next = IF Len(given) > 0 /\ "id" \in DOMAIN given[1] THEN t.next ELSE Len(given) + 1
  OBVIOUS
<1>4. u = [t EXCEPT !.rows = rows, !.next = next]
  BY DEF InsertRecords
<1>5. DOMAIN t = {"oid", "next", "rows", "columns"} /\ t.next \in Nat
  BY DEF TableOK
<1>6. /\ DOMAIN u = DOMAIN t /\ u.rows = rows /\ u.next = next /\ u.oid = t.oid /\ u.columns = t.columns
  BY <1>4, <1>5
<1>7. IsTuple(rows) /\ Len(rows) = n /\ DOMAIN rows = 1 .. n
  <2>1. rows = [i \in 1 .. n |-> rows[i]]
    BY <1>2
  <2> QED BY <1>2, <2>1, TupleMade
<1>8. next \in Nat
  BY <1>2, <1>5
<1>9. ASSUME NEW i \in DOMAIN rows
      PROVE  /\ DOMAIN rows[i] = {"id", "cells"} /\ DOMAIN rows[i].cells = DOMAIN t.columns
             /\ rows[i].id \in Nat
             /\ rows[i].id <= MaxInteger \/ rows[i].id <= next + n
             /\ "id" \notin DOMAIN given[i] => rows[i].id = i
  <2>1. /\ rows[i] = [id |-> IF "id" \in DOMAIN given[i] THEN IdOf[given[i]["id"]] ELSE i,
                      cells |-> [c \in DOMAIN t.columns |-> given[i][c]]]
        /\ i \in 1 .. n
    BY <1>2, <1>7
  <2>2. DOMAIN rows[i] = {"id", "cells"} /\ DOMAIN rows[i].cells = DOMAIN t.columns
    BY <2>1
  <2>3. CASE "id" \in DOMAIN given[i]
    <3>1. rows[i].id = IdOf[given[i]["id"]] /\ given[i]["id"] \in DOMAIN IdOf
      BY <1>2, <1>3, <2>1, <2>3
    <3>2. rows[i].id \in 0 .. MaxInteger
      BY <3>1, IdsAreIntegers
    <3> QED BY <2>2, <2>3, <3>2, MaxIsNatural
  <2>4. CASE "id" \notin DOMAIN given[i]
    <3>1. rows[i].id = i
      BY <2>1, <2>4
    <3> QED BY <1>2, <1>8, <2>1, <2>2, <3>1
  <2> QED BY <2>3, <2>4
<1>10. TableOK(u)
  <2>1. \A c \in DOMAIN t.columns : t.columns[c] \in KnownDbTypes
    BY DEF TableOK
  <2> QED BY <1>5, <1>6, <1>7, <1>8, <1>9, <2>1 DEF TableOK
<1>11. ASSUME "id" \notin ToSet(names)
       PROVE  NextIsFree(u)
  <2>1. \A i \in DOMAIN given : DOMAIN given[i] \subseteq ToSet(names)
    BY DEF Given
  <2>2. \A i \in DOMAIN given : "id" \notin DOMAIN given[i]
    BY <1>11, <2>1
  <2>3. next = n + 1
    BY <1>2, <2>2
  <2>4. \A i \in DOMAIN rows : rows[i].id = i /\ i \in 1 .. n
    BY <1>2, <1>7, <1>9, <2>2
  <2> QED BY <1>2, <1>6, <2>3, <2>4 DEF NextIsFree
<1> QED BY <1>6, <1>10, <1>11

\* The import with another step.
LEMMA StepIs ==
    ASSUME NEW s, Set([step |-> s]), ImportOK(Import)
    PROVE  \E j : /\ importing' = {j} /\ DOMAIN j = {"step", "file", "name", "tables", "retry", "names"}
                  /\ j.step = s /\ j.tables = Import.tables /\ j.file = Import.file
                  /\ j.name = Import.name /\ j.retry = Import.retry /\ j.names = Import.names
<1> PICK fields : fields = [step |-> s]
  OBVIOUS
<1>1. DOMAIN fields = {"step"} /\ fields["step"] = s
  OBVIOUS
<1>2. PICK j : /\ importing' = {j} /\ DOMAIN j = DOMAIN Import
               /\ \A f \in DOMAIN Import : j[f] = IF f \in DOMAIN fields THEN fields[f] ELSE Import[f]
  BY SetIs
<1>3. DOMAIN Import = {"step", "file", "name", "tables", "retry", "names"}
  BY DEF ImportOK
<1> QED BY <1>1, <1>2, <1>3

\* The rows are put in the table made last, once.
LEMMA FillKeeps ==
    ASSUME ImportInv, Fill
    PROVE  ImportInv'
<1>1. /\ importing # Idle /\ UNCHANGED aside /\ ImportOK(Import) /\ Import.step = "fill" /\ CatalogOK
      /\ made' = made /\ made \in Nat
  BY TheImport DEF ImportInv, Fill, CatalogOK
<1> PICK error : error = FillError(Import.file, Import.names)
  OBVIOUS
<1>2. CASE error = "none"
  <2>1. PICK name \in DOMAIN catalog : /\ catalog[name].oid \in NewTable
                                       /\ catalog' = [catalog EXCEPT ![name] = InsertRecords(@, Import.file, Import.names)]
    BY <1>2 DEF Fill
  <2> PICK u : u = InsertRecords(catalog[name], Import.file, Import.names)
    OBVIOUS
  <2>2. /\ TableOK(u) /\ u.oid = catalog[name].oid /\ u.columns = catalog[name].columns
        /\ "id" \notin ToSet(Import.names) => NextIsFree(u)
    <3> PICK t : t = catalog[name]
      OBVIOUS
    <3> PICK file : file = Import.file
      OBVIOUS
    <3>1. TableOK(t) /\ IsTuple(file.rows)
      BY <1>1 DEF CatalogOK, ImportOK
    <3>2. u = InsertRecords(t, file, Import.names) /\ FillError(file, Import.names) = "none"
      BY <1>2
    <3> QED BY <3>1, <3>2, InsertedOK
  <2>3. catalog' = [catalog EXCEPT ![name] = u]
    BY <2>1
  <2>4. /\ CatalogOK' /\ Evolves /\ Oids' = Oids
        /\ \A x \in DOMAIN catalog' : catalog'[x].oid = u.oid => catalog'[x] = u
    BY <1>1, <2>2, <2>3, TableChanged
  <2> PICK s : s = IF Import.retry THEN "finish" ELSE "sequence"
    OBVIOUS
  <2>5. Set([step |-> s])
    BY <1>2 DEF Fill
  <2>6. PICK j : /\ importing' = {j} /\ DOMAIN j = {"step", "file", "name", "tables", "retry", "names"}
                 /\ j.step = s /\ j.tables = Import.tables /\ j.file = Import.file
                 /\ j.name = Import.name /\ j.retry = Import.retry /\ j.names = Import.names
    BY <1>1, <2>5, StepIs
  <2>7. u.oid = Max(Import.tables)
    BY <2>1, <2>2 DEF NewTable
  <2>8. s = "finish" => NextIsFree(u)
    BY <1>1, <2>2 DEF ImportOK
  <2>9. ImportOK(j)'
    <3>1. j.tables # {} /\ Max(j.tables) \in Oids' /\ j.tables \subseteq 1 .. made'
      BY <1>1, <2>4, <2>6 DEF ImportOK
    <3>2. j.step = "finish" => \A x \in DOMAIN catalog' : catalog'[x].oid = Max(j.tables) => NextIsFree(catalog'[x])
      BY <2>4, <2>6, <2>7, <2>8
    <3>3. FileOK(j.file.of)' /\ IsTuple(j.file.rows)' /\ IsTuple(j.name)'
      BY <1>1, <2>6 DEF ImportOK, FileOK, IsTuple
    <3>4. j.step \in {"finish", "sequence"}
      BY <2>6
    <3>5. j.retry \in BOOLEAN /\ (j.retry => "id" \notin ToSet(j.names))
      BY <1>1, <2>6 DEF ImportOK
    <3> QED BY <2>6, <3>1, <3>2, <3>3, <3>4, <3>5 DEF ImportOK
  <2> QED BY <1>1, <2>4, <2>6, <2>9, ImportMoves
<1>3. CASE error # "none"
  <2>1. catalog' = catalog /\ (importing' = Idle \/ Set([step |-> "drop"]))
    BY <1>3 DEF Fill, Fail
  <2>2. CatalogOK' /\ Evolves /\ Oids' = Oids
    BY <1>1, <2>1, CatalogStays
  <2>3. CASE importing' = Idle
    BY <1>1, <2>2, <2>3, ImportMoves
  <2>4. CASE Set([step |-> "drop"])
    <3>1. PICK j : /\ importing' = {j} /\ DOMAIN j = {"step", "file", "name", "tables", "retry", "names"}
                   /\ j.step = "drop" /\ j.tables = Import.tables /\ j.file = Import.file
                   /\ j.name = Import.name /\ j.retry = Import.retry /\ j.names = Import.names
      BY <1>1, <2>4, StepIs
    <3>2. ImportOK(j)'
      BY <1>1, <3>1 DEF ImportOK, FileOK, IsTuple
    <3> QED BY <1>1, <2>2, <3>1, <3>2, ImportMoves
  <2> QED BY <2>1, <2>3, <2>4
<1> QED BY <1>2, <1>3

\* The sequence is moved above the ids of the table made last.
LEMMA UpdatePkSequenceKeeps ==
    ASSUME ImportInv, UpdatePkSequenceToLatest
    PROVE  ImportInv'
<1>1. /\ importing # Idle /\ UNCHANGED aside /\ ImportOK(Import) /\ Import.step = "sequence" /\ CatalogOK
      /\ made' = made /\ made \in Nat
  BY TheImport DEF ImportInv, UpdatePkSequenceToLatest, CatalogOK
<1>2. PICK name \in DOMAIN catalog :
        /\ catalog[name].oid \in NewTable
        /\ LET ids == {0} \union {row.id : row \in ToSet(catalog[name].rows)}
           IN IF MaxInteger \in ids THEN Fail /\ UNCHANGED catalog
              ELSE /\ catalog' = [catalog EXCEPT ![name].next = Max(ids) + 1]
                   /\ Set([step |-> "finish"])
                   /\ UNCHANGED failed
  BY DEF UpdatePkSequenceToLatest
<1> PICK t : t = catalog[name]
  OBVIOUS
<1> PICK ids : ids = {0} \union {row.id : row \in ToSet(t.rows)}
  OBVIOUS
<1>3. CASE MaxInteger \in ids
  <2>1. catalog' = catalog /\ importing' = Idle
    BY <1>2, <1>3 DEF Fail
  <2>2. CatalogOK' /\ Evolves
    BY <1>1, <2>1, CatalogStays
  <2> QED BY <1>1, <2>1, <2>2, ImportMoves
<1>4. CASE MaxInteger \notin ids
  <2>1. catalog' = [catalog EXCEPT ![name].next = Max(ids) + 1] /\ Set([step |-> "finish"])
    BY <1>2, <1>4
  <2>2. TableOK(t) /\ DOMAIN t.rows = 1 .. Len(t.rows) /\ Len(t.rows) \in Nat
    BY <1>1, TupleIsSeq DEF CatalogOK, TableOK
  <2>3. ids = {0} \union {t.rows[i].id : i \in DOMAIN t.rows}
    BY DEF ToSet
  <2> PICK n : n = MaxInteger + t.next + Len(t.rows)
    OBVIOUS
  <2>4. n \in Nat /\ \A i \in DOMAIN t.rows : t.rows[i].id \in 0 .. n
    BY <2>2, MaxIsNatural DEF TableOK
  <2>5. ids \in SUBSET (0 .. n) /\ ids # {}
    <3>1. 0 \in 0 .. n
      BY <2>4
    <3> QED BY <2>3, <2>4, <3>1, Zenon
  <2> PICK m : m = Max(ids)
    OBVIOUS
  <2>6. m \in ids /\ \A x \in ids : x <= m
    BY <2>4, <2>5, LargestIsThere
  <2>7. m \in Nat /\ \A i \in DOMAIN t.rows : t.rows[i].id <= m
    <3>1. m \in Nat
      BY <2>4, <2>5, <2>6
    <3>2. \A i \in DOMAIN t.rows : t.rows[i].id \in ids
      BY <2>3
    <3> QED BY <2>6, <3>1, <3>2
  <2> PICK u : u = [t EXCEPT !.next = m + 1]
    OBVIOUS
  <2>8. DOMAIN u = DOMAIN t /\ u.next = m + 1 /\ u.rows = t.rows /\ u.columns = t.columns /\ u.oid = t.oid
    BY <2>2 DEF TableOK
  <2>9. TableOK(u)
    <3>1. Len(t.rows) \in Nat /\ DOMAIN t.rows = 1 .. Len(t.rows)
      BY <2>2, TupleIsSeq DEF TableOK
    <3>2. DOMAIN u = {"oid", "next", "rows", "columns"} /\ u.next \in Nat /\ IsTuple(u.rows)
      BY ONLY <2>2, <2>7, <2>8 DEF TableOK
    <3>3. ASSUME NEW i \in DOMAIN t.rows
          PROVE  /\ DOMAIN t.rows[i] = {"id", "cells"} /\ DOMAIN t.rows[i].cells = DOMAIN t.columns
                 /\ t.rows[i].id \in Nat
                 /\ t.rows[i].id <= m + 1 + Len(t.rows)
      <4>1. /\ DOMAIN t.rows[i] = {"id", "cells"} /\ DOMAIN t.rows[i].cells = DOMAIN t.columns
            /\ t.rows[i].id \in Nat
        BY ONLY <2>2, <3>3 DEF TableOK
      <4>2. t.rows[i].id <= m /\ m \in Nat
        BY ONLY <2>7, <3>3
      <4>3. ASSUME NEW id \in Nat, id <= m, NEW l \in Nat
            PROVE  id <= m + 1 + l
        BY ONLY <4>2, <4>3
      <4> QED BY ONLY <3>1, <4>1, <4>2, <4>3
    <3>4. \A c \in DOMAIN t.columns : t.columns[c] \in KnownDbTypes
      BY ONLY <2>2 DEF TableOK
    <3> QED BY ONLY <2>8, <3>2, <3>3, <3>4 DEF TableOK
  <2>10. NextIsFree(u)
    BY <2>2, <2>7, <2>8 DEF NextIsFree, TableOK
  <2>11. catalog' = [catalog EXCEPT ![name] = u]
    BY <2>1
  <2>12. /\ CatalogOK' /\ Evolves /\ Oids' = Oids
         /\ \A x \in DOMAIN catalog' : catalog'[x].oid = u.oid => catalog'[x] = u
    <3>1. u.oid = catalog[name].oid /\ DOMAIN u.columns = DOMAIN catalog[name].columns
      BY <2>8
    <3> QED BY <1>1, <2>9, <2>11, <3>1, TableChanged
  <2>13. PICK j : /\ importing' = {j} /\ DOMAIN j = {"step", "file", "name", "tables", "retry", "names"}
                  /\ j.step = "finish" /\ j.tables = Import.tables /\ j.file = Import.file
                  /\ j.name = Import.name /\ j.retry = Import.retry /\ j.names = Import.names
    BY <1>1, <2>1, StepIs
  <2>14. ImportOK(j)'
    <3>1. j.tables # {} /\ Max(j.tables) \in Oids' /\ j.tables \subseteq 1 .. made'
      BY <1>1, <2>12, <2>13 DEF ImportOK
    <3>2. \A x \in DOMAIN catalog' : catalog'[x].oid = Max(j.tables) => NextIsFree(catalog'[x])
      BY <1>2, <2>8, <2>10, <2>12, <2>13 DEF NewTable
    <3>3. FileOK(j.file.of)' /\ IsTuple(j.file.rows)' /\ IsTuple(j.name)'
      BY <1>1, <2>13 DEF ImportOK, FileOK, IsTuple
    <3>4. j.retry \in BOOLEAN /\ (j.retry => "id" \notin ToSet(j.names))
      BY <1>1, <2>13 DEF ImportOK
    <3> QED BY <2>13, <3>1, <3>2, <3>3, <3>4 DEF ImportOK
  <2> QED BY <1>1, <2>12, <2>13, <2>14, ImportMoves
<1> QED BY <1>3, <1>4

\* The table of the name asked for is dropped, and made again without ids.
LEMMA DropTableKeeps ==
    ASSUME ImportInv, DropTable
    PROVE  ImportInv'
<1>1. /\ importing # Idle /\ UNCHANGED aside /\ ImportOK(Import) /\ Import.step = "drop" /\ CatalogOK
      /\ made' = made
  BY TheImport DEF ImportInv, DropTable
<1>2. CASE Import.name \in DOMAIN catalog
  <2> PICK fields : fields = [step |-> "create", retry |-> TRUE, names |-> AlternateColumnNames(Import.names)]
    OBVIOUS
  <2>1. /\ DOMAIN fields = {"step", "retry", "names"} /\ fields["step"] = "create" /\ fields["retry"] = TRUE
        /\ fields["names"] = AlternateColumnNames(Import.names)
    OBVIOUS
  <2>2. catalog' = Without(catalog, Import.name) /\ Set(fields)
    BY <1>2 DEF DropTable
  <2>3. CatalogOK' /\ Evolves
    BY <1>1, <2>2, TableDropped
  <2>4. PICK j : /\ importing' = {j} /\ DOMAIN j = DOMAIN Import
                 /\ \A f \in DOMAIN Import : j[f] = IF f \in DOMAIN fields THEN fields[f] ELSE Import[f]
    BY <2>2, SetIs
  <2>5. /\ j.step = "create" /\ j.tables = Import.tables /\ j.file = Import.file
        /\ j.name = Import.name /\ j.retry = TRUE /\ j.names = AlternateColumnNames(Import.names)
    BY <1>1, <2>1, <2>4 DEF ImportOK
  <2>6. "id" \notin ToSet(j.names)
    BY <2>5 DEF AlternateColumnNames, ToSet
  <2>7. ImportOK(j)'
    <3>1. DOMAIN j = {"step", "file", "name", "tables", "retry", "names"} /\ j.tables \subseteq 1 .. made'
      BY <1>1, <2>4, <2>5 DEF ImportOK
    <3>2. FileOK(j.file.of)' /\ IsTuple(j.file.rows)' /\ IsTuple(j.name)'
      BY <1>1, <2>5 DEF ImportOK, FileOK, IsTuple
    <3> QED BY <2>5, <2>6, <3>1, <3>2 DEF ImportOK
  <2> QED BY <1>1, <2>3, <2>4, <2>7, ImportMoves
<1>3. CASE Import.name \notin DOMAIN catalog
  <2>1. catalog' = catalog /\ importing' = Idle
    BY <1>3 DEF DropTable, Fail
  <2>2. CatalogOK' /\ Evolves
    BY <1>1, <2>1, CatalogStays
  <2> QED BY <1>1, <2>1, <2>2, ImportMoves
<1> QED BY <1>2, <1>3

\* The import has ended well.
LEMMA FinishImportKeeps ==
    ASSUME ImportInv, FinishImport
    PROVE  ImportInv'
<1>1. importing # Idle /\ ImportOK(Import) /\ Import.step = "finish" /\ importing' = Idle
  BY TheImport DEF ImportInv, FinishImport
<1>2. CatalogOK' /\ Evolves /\ FreeStays /\ Oids' = Oids
  BY CatalogStays DEF ImportInv, FinishImport
<1>3. /\ imported = {} /\ catalog' = catalog /\ datafile' = {Import.file.of}
      /\ imported' = {[file |-> Import.file, oid |-> oid] : oid \in NewTable}
  BY <1>1 DEF ImportInv, ImportedOK, FinishImport
<1>4. \A i \in imported' : i.oid = Max(Import.tables)
  BY <1>3 DEF NewTable
<1>5. ImportedOK'
  BY <1>1, <1>2, <1>3, <1>4 DEF ImportedOK, ImportOK
<1>6. ImportsOK'
  BY <1>1, <1>3 DEF ImportsOK, ImportOK, FileOK, Idle
<1>7. RequestsOK' /\ Owned' /\ TempsOK' /\ SuggestionsOK' /\ PatchOK' /\ CountsOK'
  BY <1>2, <1>3, AsideStays DEF FinishImport
<1> QED BY <1>2, <1>5, <1>6, <1>7 DEF ImportInv

\* The import of RPC.
LEMMA ImportCsvKeeps ==
    ASSUME ImportInv, ImportCsv
    PROVE  ImportInv'
<1>1. importing = Idle /\ importing' = Idle /\ imported = {} /\ datafile' = datafile /\ CatalogOK
  BY DEF ImportInv, ImportCsv
<1>2. PICK d \in datafile :
        /\ d.upload.form # "sheet" /\ d.upload.lines # <<>>
        /\ LET file == [of |-> [d EXCEPT !.type = "csv"], kind |-> "csv"] ++ get_sv_reader(d)
               names == ProcessColumnNames(file.names)
               name == AddMathesarTable(BaseName, DOMAIN catalog)
               table == [oid |-> made + 1, next |-> 1, rows |-> <<>>,
                         columns |-> [c \in ToSet(names) |-> "text"]]
           IN /\ ~HasDuplicates(names) /\ "id" \notin ToSet(names) /\ FillError(file, names) = "none"
              /\ catalog' = Put(catalog, name, InsertRecords(table, file, names))
              /\ imported' = {[file |-> file, oid |-> made + 1]}
              /\ made' = made + 1
  BY DEF ImportCsv
<1> PICK front : front = [of |-> [d EXCEPT !.type = "csv"], kind |-> "csv"]
  OBVIOUS
<1> PICK file : file = front ++ get_sv_reader(d)
  OBVIOUS
<1> PICK names : names = ProcessColumnNames(file.names)
  OBVIOUS
<1> PICK t : t = [oid |-> made + 1, next |-> 1, rows |-> <<>>, columns |-> [c \in ToSet(names) |-> "text"]]
  OBVIOUS
<1> PICK u : u = InsertRecords(t, file, names)
  OBVIOUS
<1>3. /\ "id" \notin ToSet(names) /\ FillError(file, names) = "none"
      /\ catalog' = Put(catalog, AddMathesarTable(BaseName, DOMAIN catalog), u)
      /\ imported' = {[file |-> file, oid |-> made + 1]}
      /\ made' = made + 1
  BY <1>2
<1>4. IsTuple(file.rows)
  <2>1. IsTuple(d.upload.lines)
    BY ImportAssumption DEF ImportInv, ImportsOK, FileOK
  <2>2. HasTuple(get_sv_reader(d))
    BY <1>2, <2>1, TextIsTuple
  <2>3. DOMAIN front = {"of", "kind"}
    OBVIOUS
  <2>4. file = [x \in DOMAIN front \union DOMAIN get_sv_reader(d) |->
                  IF x \in DOMAIN front THEN front[x] ELSE get_sv_reader(d)[x]]
    BY DEF ++
  <2> QED BY <2>2, <2>3, <2>4 DEF HasTuple
<1>5. TableOK(t) /\ t.oid = made + 1
  <2>1. "text" \in KnownDbTypes
    BY DEF KnownDbTypes, PostgresTypes
  <2>2. \A c \in DOMAIN t.columns : t.columns[c] \in KnownDbTypes
    BY <2>1
  <2>3. IsTuple(t.rows) /\ DOMAIN t.rows = {}
    BY DEF IsTuple
  <2> QED BY <2>2, <2>3 DEF TableOK
<1>6. TableOK(u) /\ u.oid = made + 1 /\ NextIsFree(u)
  BY <1>3, <1>4, <1>5, InsertedOK
<1>7. /\ CatalogOK' /\ Evolves /\ FreeStays /\ Oids' = Oids \union {made + 1}
      /\ \A x \in DOMAIN catalog' : catalog'[x].oid = made + 1 => catalog'[x] = u
  BY <1>1, <1>3, <1>6, WordsAreTuples, TableAdded
<1>8. ImportedOK'
  BY <1>1, <1>3, <1>6, <1>7 DEF ImportedOK
<1>9. ImportsOK'
  BY <1>1 DEF ImportInv, ImportsOK, FileOK, Idle
<1>10. RequestsOK' /\ Owned' /\ TempsOK' /\ SuggestionsOK' /\ PatchOK' /\ CountsOK'
  BY <1>1, <1>7, AsideStays DEF ImportCsv
<1> QED BY <1>7, <1>8, <1>9, <1>10 DEF ImportInv

-----------------------------------------------------------------------------
(***************************************************************************)
(* Type suggestions.                                                       *)
(***************************************************************************)
\* A step of a request that leaves its part as it should be.
LEMMA InferenceMoves ==
    ASSUME ImportInv, UNCHANGED beside, asked' = asked \/ Ask, second' \in Nat, second' <= asked',
           RequestsOK', Owned', TempsOK', SuggestionsOK'
    PROVE  ImportInv'
<1>1. /\ CatalogOK' /\ Evolves /\ FreeStays /\ Oids' = Oids
      /\ UNCHANGED <<zone, datafile, importing, imported, patch>>
  BY CatalogStays DEF ImportInv, beside
<1>2. ImportsOK' /\ PatchOK'
  BY <1>1, ImportsStay, PatchStays DEF ImportInv
<1>3. ImportedOK'
  BY <1>1, ImportedStays DEF ImportInv, ImportedOK
<1>4. CountsOK'
  BY <1>1, ImportAssumption DEF ImportInv, CountsOK, Ask
<1> QED BY <1>1, <1>2, <1>3, <1>4 DEF ImportInv

\* The request of a step, and the others.
LEMMA RequestIs ==
    ASSUME RequestsOK, NEW r \in Requests, NEW fields, Request(r, fields),
           DOMAIN fields \subseteq {"step", "oid", "temp"}
    PROVE  /\ DOMAIN requests' = Requests /\ DOMAIN requests'[r] = {"step", "oid", "temp"}
           /\ \A f \in {"step", "oid", "temp"} :
                requests'[r][f] = IF f \in DOMAIN fields THEN fields[f] ELSE requests[r][f]
           /\ \A q \in Requests \ {r} : requests'[q] = requests[q]
<1>1. DOMAIN requests = Requests /\ DOMAIN requests[r] = {"step", "oid", "temp"}
  BY DEF RequestsOK
<1> PICK new : new = [f \in DOMAIN requests[r] |-> IF f \in DOMAIN fields THEN fields[f] ELSE requests[r][f]]
  OBVIOUS
<1>2. requests' = [requests EXCEPT ![r] = new]
  BY DEF Request
<1>3. requests'[r] = new /\ DOMAIN requests' = Requests /\ \A q \in Requests \ {r} : requests'[q] = requests[q]
  BY <1>1, <1>2
<1>4. DOMAIN new = {"step", "oid", "temp"} /\ \A f \in {"step", "oid", "temp"} :
        new[f] = IF f \in DOMAIN fields THEN fields[f] ELSE requests[r][f]
  BY <1>1
<1> QED BY <1>3, <1>4

\* A request with another step.
LEMMA NextStepIs ==
    ASSUME RequestsOK, NEW r \in Requests, NEW s, Request(r, [step |-> s])
    PROVE  /\ DOMAIN requests' = Requests /\ DOMAIN requests'[r] = {"step", "oid", "temp"}
           /\ requests'[r].step = s /\ requests'[r].oid = requests[r].oid /\ requests'[r].temp = requests[r].temp
           /\ \A q \in Requests \ {r} : requests'[q] = requests[q]
<1> PICK fields : fields = [step |-> s]
  OBVIOUS
<1>1. DOMAIN fields = {"step"} /\ fields["step"] = s
  OBVIOUS
<1>2. Request(r, fields) /\ DOMAIN fields \subseteq {"step", "oid", "temp"}
  BY <1>1
<1> QED BY <1>1, <1>2, RequestIs

\* Another step of a request that is not there for the first time.
LEMMA NextStepOK ==
    ASSUME RequestsOK, NEW r \in Requests, NEW s, Request(r, [step |-> s]), requests[r].step # "none",
           imported' = imported, second' = second
    PROVE  RequestsOK'
BY NextStepIs DEF RequestsOK, TempNames

\* The table of a request is there.
LEMMA TableIsThere ==
    ASSUME CatalogOK, NEW oid \in Oids
    PROVE  NameOf(oid) \in DOMAIN catalog /\ catalog[NameOf(oid)].oid = oid
BY DEF Oids, Tables, NameOf

\* A request begins.
LEMMA BeginInferenceKeeps ==
    ASSUME ImportInv, NEW r \in Requests, BeginInference(r)
    PROVE  ImportInv'
<1>1. PICK table \in Tables :
        /\ \E i \in imported : i.oid = table.oid
        /\ Request(r, [oid |-> table.oid,
                       step |-> IF Second \in DOMAIN temps THEN "wait" ELSE "copy",
                       temp |-> IF Second \in DOMAIN temps THEN Waiting ELSE Second])
  BY DEF BeginInference
<1> PICK s : s = IF Second \in DOMAIN temps THEN "wait" ELSE "copy"
  OBVIOUS
<1> PICK temp : temp = IF Second \in DOMAIN temps THEN Waiting ELSE Second
  OBVIOUS
<1> PICK fields : fields = [oid |-> table.oid, step |-> s, temp |-> temp]
  OBVIOUS
<1>2. DOMAIN fields = {"step", "oid", "temp"} /\ fields["step"] = s /\ fields["oid"] = table.oid /\ fields["temp"] = temp
  OBVIOUS
<1>3. Request(r, fields) /\ RequestsOK
  BY <1>1 DEF ImportInv
<1>4. /\ DOMAIN requests' = Requests /\ DOMAIN requests'[r] = {"step", "oid", "temp"}
      /\ requests'[r].step = s /\ requests'[r].oid = table.oid /\ requests'[r].temp = temp
      /\ \A q \in Requests \ {r} : requests'[q] = requests[q]
  BY <1>2, <1>3, RequestIs
<1>5. temp \in TempNames /\ s \in {"wait", "copy"}
  BY DEF TempNames, Second, ImportInv, CountsOK
<1>6. UNCHANGED <<second, temps, suggestions, beside>> /\ Ask /\ requests[r].step = "none"
  BY DEF BeginInference
<1>7. RequestsOK'
  BY <1>1, <1>3, <1>4, <1>5, <1>6 DEF RequestsOK, TempNames, beside
<1>8. Owned'
  BY <1>4, <1>5, <1>6 DEF ImportInv, Owned
<1>9. TempsOK' /\ SuggestionsOK'
  BY <1>6, CatalogStays, TempsStay, SuggestionsStay DEF ImportInv, beside
<1>10. second' \in Nat /\ second' <= asked'
  BY <1>6, ImportAssumption DEF Ask, ImportInv, CountsOK
<1> QED BY <1>6, <1>7, <1>8, <1>9, <1>10, InferenceMoves

\* A request waits no more.
LEMMA StopWaitingKeeps ==
    ASSUME ImportInv, NEW r \in Requests, StopWaiting(r)
    PROVE  ImportInv'
<1>1. /\ UNCHANGED <<second, temps, suggestions, beside, asked>> /\ requests[r].step = "wait"
      /\ Request(r, [step |-> "copy"]) /\ RequestsOK
  BY DEF StopWaiting, ImportInv
<1>2. RequestsOK'
  BY <1>1, NextStepOK DEF beside
<1>3. Owned'
  BY <1>1, NextStepIs DEF ImportInv, Owned
<1>4. TempsOK' /\ SuggestionsOK'
  BY <1>1, CatalogStays, TempsStay, SuggestionsStay DEF ImportInv, beside
<1>5. second' \in Nat /\ second' <= asked'
  BY <1>1 DEF ImportInv, CountsOK
<1> QED BY <1>1, <1>2, <1>3, <1>4, <1>5, InferenceMoves

\* The catalog stays, and so does what is said of it.
LEMMA BesideStays ==
    ASSUME ImportInv, UNCHANGED <<beside, second>>
    PROVE  /\ suggestions' = suggestions => SuggestionsOK'
           /\ temps' = temps => TempsOK'
           /\ TempNames' = TempNames
<1>1. UNCHANGED <<zone, second>> /\ CatalogOK /\ Evolves
  BY CatalogStays DEF ImportInv, beside
<1>2. (suggestions' = suggestions => SuggestionsOK') /\ (temps' = temps => TempsOK')
  BY <1>1, SuggestionsStay, TempsStay DEF ImportInv
<1> QED BY <1>1, <1>2 DEF TempNames

\* Copies of which one may have been put in.
LEMMA CopiesMove ==
    ASSUME ImportInv, UNCHANGED <<beside, second>>, NEW n \in TempNames, NEW copy, CopyOK(copy),
           DOMAIN temps' \subseteq DOMAIN temps \union {n}, IsMapping(temps'),
           \A name \in DOMAIN temps' : temps'[name] = copy \/ (name \in DOMAIN temps /\ temps'[name] = temps[name])
    PROVE  TempsOK'
<1>1. zone' = zone /\ CatalogOK /\ Evolves /\ TempsOK /\ TempNames' = TempNames
  BY CatalogStays, BesideStays DEF ImportInv, beside
<1>2. ASSUME NEW name \in DOMAIN temps'
      PROVE  CopyOK(temps[name])'
  <2> PICK now : now = temps'[name]
    OBVIOUS
  <2>1. CopyOK(now)
    BY <1>1, <1>2 DEF TempsOK
  <2>2. CopyOK(now)'
    BY <1>1, <2>1, CopyStays
  <2> QED BY <2>2
<1> QED BY <1>1, <1>2 DEF TempsOK

\* The table is copied under a name that is free.
LEMMA CreateTableAsKeeps ==
    ASSUME ImportInv, NEW r \in Requests, CreateTableAs(r)
    PROVE  ImportInv'
<1>1. /\ UNCHANGED <<second, suggestions, beside, asked>> /\ requests[r].step = "copy"
      /\ RequestsOK /\ CatalogOK /\ Owned /\ TempsOK
  BY DEF CreateTableAs, ImportInv
<1>2. SuggestionsOK'
  BY <1>1, BesideStays
<1>3. second' \in Nat /\ second' <= asked'
  BY <1>1 DEF ImportInv, CountsOK
<1> PICK n : n = requests[r].temp
  OBVIOUS
<1>4. CASE n \in DOMAIN temps
  <2>1. Request(r, [step |-> "failed"]) /\ temps' = temps
    BY <1>4 DEF CreateTableAs
  <2>2. RequestsOK'
    BY <1>1, <2>1, NextStepOK DEF beside
  <2>3. Owned'
    BY <1>1, <2>1, NextStepIs DEF Owned
  <2>4. TempsOK'
    BY <1>1, <2>1, BesideStays
  <2> QED BY <1>1, <1>2, <1>3, <2>2, <2>3, <2>4, InferenceMoves
<1>5. CASE n \notin DOMAIN temps
  <2> PICK t : t = TableOf(requests[r].oid)
    OBVIOUS
  <2> PICK copy : copy = [owner |-> r, table |-> t, types |-> <<>>]
    OBVIOUS
  <2>1. Request(r, [step |-> "infer"]) /\ temps' = Put(temps, n, copy)
    BY <1>5 DEF CreateTableAs
  <2>2. IsPut(temps', temps, n, copy)
    BY <2>1, PutIs
  <2>3. RequestsOK'
    BY <1>1, <2>1, NextStepOK DEF beside
  <2>4. PICK at \in DOMAIN catalog : t = catalog[at]
    <3>1. requests[r].oid \in Oids
      BY <1>1 DEF RequestsOK, ImportInv, ImportedOK
    <3> PICK oid : oid = requests[r].oid
      OBVIOUS
    <3>2. NameOf(oid) \in DOMAIN catalog
      BY <1>1, <3>1, TableIsThere
    <3> QED BY <3>2 DEF TableOf
  <2>5. DOMAIN copy = {"owner", "table", "types"} /\ copy.owner = r /\ copy.table = t /\ DOMAIN copy.types = {}
    OBVIOUS
  <2>6. CopyOK(copy)
    <3>1. TableOK(t) /\ t.oid \in 1 .. made
      BY <1>1, <2>4 DEF CatalogOK
    <3>2. HasColumns(t.oid, DOMAIN t.columns)
      BY <1>1, <2>4 DEF HasColumns, CatalogOK
    <3>3. Found(t, copy.types)
      BY <2>5 DEF Found
    <3> QED BY <2>5, <3>1, <3>2, <3>3 DEF CopyOK
  <2>7. TempsOK'
    <3>1. n \in TempNames
      BY <1>1 DEF RequestsOK
    <3>2. /\ DOMAIN temps' \subseteq DOMAIN temps \union {n} /\ IsMapping(temps')
          /\ \A name \in DOMAIN temps' : temps'[name] = copy \/ (name \in DOMAIN temps /\ temps'[name] = temps[name])
      BY <2>2 DEF IsPut
    <3> QED BY <1>1, <2>6, <3>1, <3>2, CopiesMove
  <2>8. Owned'
    <3>1. /\ DOMAIN temps' = DOMAIN temps \union {n} /\ temps'[n].owner = r
          /\ \A name \in DOMAIN temps : temps'[name] = temps[name]
      BY <1>5, <2>2, <2>5 DEF IsPut
    <3>2. /\ requests'[r].step = "infer" /\ requests'[r].temp = n
          /\ \A q \in Requests \ {r} : requests'[q] = requests[q]
      BY <1>1, <2>1, NextStepIs
    <3> QED BY <1>1, <3>1, <3>2 DEF Owned
  <2> QED BY <1>1, <1>2, <1>3, <2>3, <2>7, <2>8, InferenceMoves
<1> QED BY <1>4, <1>5

\* The type found for a column of the copy is the one it has, or one that all its cells
\* can be cast to.
LEMMA InferredFits ==
    ASSUME NEW type \in KnownDbTypes, NEW cells, NEW new, new = InferColumnType(zone, type, cells)
    PROVE  new \in KnownDbTypes /\ (new = type \/ CastsInAnyZone(type, new, cells))
<1> PICK fits : fits = {i \in DOMAIN TypeInferenceDag : CastsAll(zone, type, TypeInferenceDag[i], cells)}
  OBVIOUS
<1>1. new = type \/ (fits # {} /\ new = TypeInferenceDag[CHOOSE i \in fits : \A j \in fits : i <= j])
  BY DEF InferColumnType
<1>2. CASE new = type
  BY <1>2
<1>3. CASE fits # {} /\ new = TypeInferenceDag[CHOOSE i \in fits : \A j \in fits : i <= j]
  <2>1. DOMAIN TypeInferenceDag \subseteq Nat /\ \A i \in DOMAIN TypeInferenceDag : TypeInferenceDag[i] \in KnownDbTypes
    <3>1. TypeInferenceDag \in Seq(Inferred) /\ Inferred \subseteq KnownDbTypes
      BY InferredAreKnown
    <3> QED BY <3>1
  <2>2. fits \in SUBSET Nat
    BY <2>1
  <2>3. \E i \in fits : \A j \in fits : i <= j
    BY <1>3, <2>2, SmallestIsThere
  <2>4. PICK i \in fits : new = TypeInferenceDag[i]
    BY <1>3, <2>3
  <2>5. i \in DOMAIN TypeInferenceDag /\ CastsAll(zone, type, new, cells)
    BY <2>4
  <2>6. new \in KnownDbTypes
    BY <2>4, <2>5, <2>1
  <2>7. new \in Inferred
    BY <2>4, InferredAreKnown
  <2>8. CASE type \in {"text", "character varying"}
    <3>1. ASSUME NEW z \in CastZones, NEW x \in cells
          PROVE  HasFunction(type, new) /\ Cast(z, type, new, x) # {}
      BY <2>5, <2>7, <2>8, <3>1, TextsFitInUtc DEF CastsAll, CastZones
    <3>2. CastsInAnyZone(type, new, cells)
      BY <2>5, <3>1 DEF CastsInAnyZone, CastsAll
    <3> QED BY <2>6, <3>2
  <2>9. CASE type \notin {"text", "character varying"}
    BY <2>9 DEF InferColumnType
  <2> QED BY <2>8, <2>9
<1> QED BY <1>1, <1>2, <1>3

\* The type of a column is found.
LEMMA InferColumnKeeps ==
    ASSUME ImportInv, NEW r \in Requests, InferColumn(r)
    PROVE  ImportInv'
<1>1. /\ UNCHANGED <<second, requests, suggestions, beside, asked>> /\ requests[r].step = "infer"
      /\ RequestsOK /\ CatalogOK /\ Owned /\ TempsOK
  BY DEF InferColumn, ImportInv
<1> PICK n : n = requests[r].temp
  OBVIOUS
<1> PICK copy : copy = temps[n]
  OBVIOUS
<1>2. n \in DOMAIN temps /\ CopyOK(copy) /\ copy.owner = r
  BY <1>1 DEF Owned, TempsOK
<1>3. PICK c \in DOMAIN copy.table.columns \ DOMAIN copy.types :
        temps' = [temps EXCEPT ![n].types = Put(@, c, InferColumnType(zone, copy.table.columns[c], Cells(copy.table, c)))]
  BY DEF InferColumn
<1> PICK new : new = InferColumnType(zone, copy.table.columns[c], Cells(copy.table, c))
  OBVIOUS
<1> PICK types : types = Put(copy.types, c, new)
  OBVIOUS
<1> PICK now : now = [copy EXCEPT !.types = types]
  OBVIOUS
<1>4. temps' = [temps EXCEPT ![n] = now]
  BY <1>3
<1>5. /\ DOMAIN now = {"owner", "table", "types"} /\ now.owner = r /\ now.table = copy.table /\ now.types = types
  BY <1>2 DEF CopyOK
<1>6. Found(copy.table, types)
  <2>1. IsPut(types, copy.types, c, new)
    BY PutIs
  <2>2. copy.table.columns[c] \in KnownDbTypes
    BY <1>2, <1>3 DEF CopyOK, TableOK
  <2>3. new \in KnownDbTypes /\ (new = copy.table.columns[c] \/ CastsInAnyZone(copy.table.columns[c], new, Cells(copy.table, c)))
    BY <2>2, InferredFits
  <2>4. Found(copy.table, copy.types)
    BY <1>2 DEF CopyOK
  <2>5. DOMAIN types = DOMAIN copy.types \union {c} /\ types[c] = new /\ \A x \in DOMAIN copy.types : types[x] = copy.types[x]
    BY <1>3, <2>1 DEF IsPut
  <2>6. DOMAIN types \subseteq DOMAIN copy.table.columns
    BY <1>3, <2>4, <2>5 DEF Found
  <2>7. ASSUME NEW x \in DOMAIN types
        PROVE  /\ types[x] \in KnownDbTypes
               /\ types[x] = copy.table.columns[x] \/ CastsInAnyZone(copy.table.columns[x], types[x], Cells(copy.table, x))
    <3>1. CASE x = c
      BY <2>3, <2>5, <3>1
    <3>2. CASE x \in DOMAIN copy.types
      BY <2>4, <2>5, <3>2 DEF Found
    <3> QED BY <2>5, <3>1, <3>2
  <2> QED BY <2>6, <2>7 DEF Found
<1>7. CopyOK(now)
  BY <1>2, <1>5, <1>6 DEF CopyOK
<1>8. /\ DOMAIN temps' = DOMAIN temps /\ IsMapping(temps') /\ temps'[n] = now
      /\ \A name \in DOMAIN temps \ {n} : temps'[name] = temps[name]
  BY <1>2, <1>4 DEF IsMapping
<1>9. TempsOK'
  <2>1. n \in TempNames
    BY <1>1 DEF RequestsOK
  <2>2. \A name \in DOMAIN temps' : temps'[name] = now \/ (name \in DOMAIN temps /\ temps'[name] = temps[name])
    BY <1>8
  <2> QED BY <1>1, <1>7, <1>8, <2>1, <2>2, CopiesMove
<1>10. Owned'
  BY <1>1, <1>2, <1>5, <1>8 DEF Owned
<1>11. RequestsOK' /\ SuggestionsOK'
  BY <1>1, RequestsStay, BesideStays DEF beside
<1>12. second' \in Nat /\ second' <= asked'
  BY <1>1 DEF ImportInv, CountsOK
<1> QED BY <1>1, <1>9, <1>10, <1>11, <1>12, InferenceMoves

\* A copy is dropped, and its request ends.
LEMMA CopyDropped ==
    ASSUME ImportInv, NEW r \in Requests, requests[r].step = "infer", NEW s, s \notin {"none", "infer"},
           Request(r, [step |-> s]), temps' = Without(temps, requests[r].temp),
           UNCHANGED <<second, beside>>
    PROVE  RequestsOK' /\ Owned' /\ TempsOK'
<1>1. RequestsOK /\ Owned /\ TempsOK
  BY DEF ImportInv
<1> PICK n : n = requests[r].temp
  OBVIOUS
<1>2. n \in DOMAIN temps /\ temps[n].owner = r /\ n \in TempNames
  BY <1>1 DEF Owned, TempsOK
<1>3. DOMAIN temps' = DOMAIN temps \ {n} /\ \A name \in DOMAIN temps' : temps'[name] = temps[name]
  BY DEF Without
<1>4. IsMapping(temps')
  BY DEF Without, IsMapping
<1>5. TempsOK'
  <2> PICK copy : copy = temps[n]
    OBVIOUS
  <2>1. CopyOK(copy)
    BY <1>1, <1>2 DEF TempsOK
  <2> QED BY <1>2, <1>3, <1>4, <2>1, CopiesMove
<1>6. /\ requests'[r].step = s /\ requests'[r].temp = n
      /\ \A q \in Requests \ {r} : requests'[q] = requests[q]
  BY <1>1, NextStepIs
<1>7. Owned'
  <2>1. ASSUME NEW q \in Requests, requests'[q].step = "infer"
        PROVE  requests'[q].temp \in DOMAIN temps' /\ temps'[requests'[q].temp].owner = q
    <3>1. q # r /\ requests'[q] = requests[q]
      BY <1>6, <2>1
    <3>2. requests[q].temp \in DOMAIN temps /\ temps[requests[q].temp].owner = q
      BY <1>1, <2>1, <3>1 DEF Owned
    <3> QED BY <1>2, <1>3, <3>1, <3>2
  <2>2. ASSUME NEW name \in DOMAIN temps'
        PROVE  /\ temps'[name].owner \in Requests /\ requests'[temps'[name].owner].temp = name
               /\ requests'[temps'[name].owner].step \in {"infer", "stopped"}
    <3>1. /\ name \in DOMAIN temps /\ name # n /\ temps'[name] = temps[name]
          /\ temps[name].owner \in Requests /\ requests[temps[name].owner].temp = name
          /\ requests[temps[name].owner].step \in {"infer", "stopped"}
      BY <1>1, <1>3, <2>2 DEF Owned
    <3>2. temps[name].owner # r
      BY <3>1
    <3> QED BY <1>6, <3>1, <3>2
  <2> QED BY <2>1, <2>2 DEF Owned
<1>8. RequestsOK'
  BY <1>1, NextStepOK DEF beside
<1> QED BY <1>5, <1>7, <1>8

\* All the types are found.
LEMMA FinishInferenceKeeps ==
    ASSUME ImportInv, NEW r \in Requests, FinishInference(r)
    PROVE  ImportInv'
<1> PICK copy : copy = temps[requests[r].temp]
  OBVIOUS
<1>1. /\ UNCHANGED <<second, beside, asked>> /\ requests[r].step = "infer" /\ Request(r, [step |-> "done"])
      /\ temps' = Without(temps, requests[r].temp)
      /\ suggestions' = suggestions \union {[seen |-> copy.table, types |-> copy.types]}
  BY DEF FinishInference
<1>2. RequestsOK' /\ Owned' /\ TempsOK'
  BY <1>1, CopyDropped
<1>3. CopyOK(copy)
  BY <1>1 DEF ImportInv, Owned, TempsOK
<1>4. CatalogOK /\ Evolves /\ zone' = zone /\ SuggestionsOK
  BY <1>1, CatalogStays DEF ImportInv, beside
<1>5. ASSUME NEW s \in suggestions'
      PROVE  s.seen.oid \in 1 .. made' /\ HasColumns(s.seen.oid, DOMAIN s.seen.columns)' /\ Found(s.seen, s.types)'
  <2>1. s.seen.oid \in 1 .. made /\ HasColumns(s.seen.oid, DOMAIN s.seen.columns) /\ Found(s.seen, s.types)
    <3>1. CASE s \in suggestions
      BY <1>4, <3>1 DEF SuggestionsOK
    <3>2. CASE s = [seen |-> copy.table, types |-> copy.types]
      BY <1>3, <3>2 DEF CopyOK
    <3> QED BY <1>1, <1>5, <3>1, <3>2
  <2>2. s.seen.oid \in 1 .. made' /\ HasColumns(s.seen.oid, DOMAIN s.seen.columns)'
    BY <1>4, <2>1, ColumnsStay
  <2>3. Found(s.seen, s.types)'
    BY <1>4, <2>1 DEF Found, CastsInAnyZone, CastZones
  <2> QED BY <2>2, <2>3
<1>6. SuggestionsOK'
  BY <1>5 DEF SuggestionsOK
<1>7. second' \in Nat /\ second' <= asked'
  BY <1>1 DEF ImportInv, CountsOK
<1> QED BY <1>1, <1>2, <1>6, <1>7, InferenceMoves

\* A request fails.
LEMMA InferenceFailsKeeps ==
    ASSUME ImportInv, NEW r \in Requests, InferenceFails(r)
    PROVE  ImportInv'
<1>1. /\ UNCHANGED <<second, suggestions, beside, asked>> /\ requests[r].step = "infer"
      /\ Request(r, [step |-> "failed"]) /\ temps' = Without(temps, requests[r].temp)
  BY DEF InferenceFails
<1>2. RequestsOK' /\ Owned' /\ TempsOK'
  BY <1>1, CopyDropped
<1>3. SuggestionsOK'
  BY <1>1, BesideStays
<1>4. second' \in Nat /\ second' <= asked'
  BY <1>1 DEF ImportInv, CountsOK
<1> QED BY <1>1, <1>2, <1>3, <1>4, InferenceMoves

\* The server stops.
LEMMA ServerStopsKeeps ==
    ASSUME ImportInv, NEW r \in Requests, ServerStops(r)
    PROVE  ImportInv'
<1>1. /\ UNCHANGED <<second, temps, suggestions, beside, asked>> /\ requests[r].step \in {"copy", "infer"}
      /\ Request(r, [step |-> "stopped"]) /\ RequestsOK /\ Owned
  BY DEF ServerStops, ImportInv
<1>2. RequestsOK'
  BY <1>1, NextStepOK DEF beside
<1>3. /\ requests'[r].step = "stopped" /\ requests'[r].temp = requests[r].temp
      /\ \A q \in Requests \ {r} : requests'[q] = requests[q]
  BY <1>1, NextStepIs
<1>4. Owned'
  BY <1>1, <1>3 DEF Owned
<1>5. TempsOK' /\ SuggestionsOK'
  BY <1>1, BesideStays
<1>6. second' \in Nat /\ second' <= asked'
  BY <1>1 DEF ImportInv, CountsOK
<1> QED BY <1>1, <1>2, <1>4, <1>5, <1>6, InferenceMoves

\* A second passes.
LEMMA TickKeeps ==
    ASSUME ImportInv, Tick
    PROVE  ImportInv'
<1>1. /\ UNCHANGED <<temps, requests, suggestions, beside>> /\ Ask /\ second' = second + 1
      /\ second \in Nat /\ asked \in Nat /\ second <= asked
  BY ImportAssumption DEF Tick, ImportInv, CountsOK
<1>2. TempNames \subseteq TempNames'
  BY <1>1 DEF TempNames
<1>3. RequestsOK'
  BY <1>1, <1>2 DEF ImportInv, RequestsOK, beside
<1>4. Owned'
  BY <1>1 DEF ImportInv, Owned
<1>5. zone' = zone /\ CatalogOK /\ Evolves /\ TempsOK
  BY <1>1, CatalogStays DEF ImportInv, beside
<1>6. SuggestionsOK'
  BY <1>1, <1>5, SuggestionsStay DEF ImportInv
<1>7. ASSUME NEW name \in DOMAIN temps
      PROVE  CopyOK(temps[name])'
  <2> PICK copy : copy = temps[name]
    OBVIOUS
  <2>1. CopyOK(copy)'
    BY <1>5, CopyStays DEF TempsOK
  <2> QED BY <1>1, <2>1
<1>8. TempsOK'
  BY <1>1, <1>2, <1>5, <1>7 DEF TempsOK, IsMapping
<1>9. second' \in Nat /\ second' <= asked'
  BY <1>1 DEF Ask
<1> QED BY <1>1, <1>3, <1>4, <1>6, <1>8, <1>9, InferenceMoves

-----------------------------------------------------------------------------
(***************************************************************************)
(* Changes of tables, and other users.                                     *)
(***************************************************************************)
\* A step that changes tables and no more than a change under way.
LEMMA CatalogMoves ==
    ASSUME ImportInv, CatalogOK', Evolves, FreeStays, Oids \subseteq Oids', PatchOK', asked' = asked \/ Ask,
           UNCHANGED <<zone, datafile, importing, imported, inference>>
    PROVE  ImportInv'
<1>1. ImportsOK' /\ ImportedOK'
  BY ImportsStay, ImportedStays DEF ImportInv, ImportedOK
<1>2. RequestsOK' /\ Owned' /\ TempsOK' /\ SuggestionsOK'
  BY RequestsStay, TempsStay, SuggestionsStay DEF ImportInv, inference, Owned
<1>3. CountsOK'
  BY ImportAssumption DEF ImportInv, CountsOK, Ask, inference
<1> QED BY <1>1, <1>2, <1>3 DEF ImportInv

\* What a change asks for is there: a column of the table, or the types suggested for it.
LEMMA ChangesFit ==
    ASSUME ImportInv, NEW name \in DOMAIN catalog, NEW change \in Changes(catalog[name])
    PROVE  /\ change.newName \in {{}, {OtherName}}
           /\ DOMAIN change.types \subseteq DOMAIN catalog[name].columns
           /\ \A c \in DOMAIN change.types : change.types[c] \in KnownDbTypes
<1> PICK t : t = catalog[name]
  OBVIOUS
<1>1. CASE change \in [newName : {{}},
                       types : UNION {{Single(c, type) : type \in Targets \intersect FullCastMap[t.columns[c]]} :
                                          c \in DOMAIN t.columns}]
  <2>1. change.newName = {}
    BY <1>1
  <2>2. change.types \in UNION {{Single(c, type) : type \in Targets \intersect FullCastMap[t.columns[c]]} :
                                    c \in DOMAIN t.columns}
    BY <1>1
  <2>3. PICK c \in DOMAIN t.columns : change.types \in {Single(c, type) : type \in Targets \intersect FullCastMap[t.columns[c]]}
    BY <2>2
  <2>4. PICK type \in Targets : change.types = Single(c, type)
    BY <2>3
  <2>5. type \in KnownDbTypes
    BY ImportAssumption
  <2>6. DOMAIN change.types = {c} /\ change.types[c] = type
    BY <2>4 DEF Single
  <2> QED BY <2>1, <2>5, <2>6
<1>2. CASE change \in [newName : {{OtherName}},
                       types : {<<>>} \union {s.types : s \in {s \in suggestions : s.seen.oid = t.oid}}]
  <2>1. change.newName = {OtherName}
    BY <1>2
  <2>2. change.types = <<>> \/ \E s \in suggestions : s.seen.oid = t.oid /\ change.types = s.types
    BY <1>2
  <2>3. CASE change.types = <<>>
    <3>1. DOMAIN change.types = {}
      BY <2>3
    <3> QED BY <2>1, <3>1
  <2>4. CASE change.types # <<>>
    <3>1. PICK s \in suggestions : s.seen.oid = t.oid /\ change.types = s.types
      BY <2>2, <2>4
    <3>2. HasColumns(s.seen.oid, DOMAIN s.seen.columns) /\ Found(s.seen, s.types)
      BY DEF ImportInv, SuggestionsOK
    <3>3. DOMAIN t.columns = DOMAIN s.seen.columns
      BY <3>1, <3>2 DEF HasColumns
    <3> QED BY <2>1, <3>1, <3>2, <3>3 DEF Found
  <2> QED BY <2>3, <2>4
<1>3. CASE change \in [newName : {{}}, types : {types \in [DOMAIN t.columns -> Together] :
                          \A c \in DOMAIN types : types[c] \in FullCastMap[t.columns[c]]}]
  <2>1. change.newName = {} /\ change.types \in [DOMAIN t.columns -> Together]
    BY <1>3
  <2>2. Together \subseteq KnownDbTypes
    BY ImportAssumption
  <2> QED BY <2>1, <2>2
<1> QED BY <1>1, <1>2, <1>3 DEF Changes

\* A change begins.
LEMMA StartPatchKeeps ==
    ASSUME ImportInv, StartPatch
    PROVE  ImportInv'
<1>1. PICK name \in DOMAIN catalog : \E change \in Changes(catalog[name]) :
        patch' = {[step |-> "rename", oid |-> catalog[name].oid, name |-> name,
                   newName |-> change.newName, types |-> change.types]}
  BY DEF StartPatch
<1> PICK change \in Changes(catalog[name]) :
      patch' = {[step |-> "rename", oid |-> catalog[name].oid, name |-> name,
                 newName |-> change.newName, types |-> change.types]}
  BY <1>1
<1>2. /\ change.newName \in {{}, {OtherName}}
      /\ DOMAIN change.types \subseteq DOMAIN catalog[name].columns
      /\ \A c \in DOMAIN change.types : change.types[c] \in KnownDbTypes
  BY ChangesFit
<1>3. UNCHANGED <<zone, catalog, made, datafile, importing, imported, inference>> /\ Ask
  BY DEF StartPatch
<1>4. CatalogOK' /\ Evolves /\ FreeStays /\ Oids' = Oids /\ CatalogOK
  BY <1>3, CatalogStays DEF ImportInv
<1> PICK p : p = [step |-> "rename", oid |-> catalog[name].oid, name |-> name,
                  newName |-> change.newName, types |-> change.types]
  OBVIOUS
<1>5. /\ DOMAIN p = {"step", "oid", "name", "newName", "types"} /\ p.oid = catalog[name].oid
      /\ p.newName = change.newName /\ p.types = change.types
  OBVIOUS
<1>6. p.oid \in 1 .. made'
  BY <1>3, <1>4, <1>5 DEF CatalogOK
<1>7. HasAtLeast(p.oid, DOMAIN p.types)'
  BY <1>2, <1>3, <1>4, <1>5 DEF CatalogOK, HasAtLeast
<1>8. PatchOK'
  BY <1>1, <1>2, <1>5, <1>6, <1>7 DEF PatchOK
<1> QED BY <1>3, <1>4, <1>8, CatalogMoves

\* One change is under way, if any.
LEMMA ThePatch ==
    ASSUME PatchOK, patch # Idle
    PROVE  Patch \in patch
BY DEF Idle, Patch

\* The table is renamed, if the name is free.
LEMMA PatchNameKeeps ==
    ASSUME ImportInv, PatchName
    PROVE  ImportInv'
<1>1. /\ UNCHANGED <<zone, made, datafile, importing, imported, inference, asked>>
      /\ CatalogOK /\ PatchOK /\ Patch \in patch
  BY ThePatch DEF ImportInv, PatchName
<1> PICK p : p = Patch
  OBVIOUS
<1> PICK newName : newName = p.newName \ {p.name}
  OBVIOUS
<1>2. \/ patch' = Idle /\ catalog' = catalog
      \/ /\ newName = {} /\ catalog' = catalog /\ patch' = {[p EXCEPT !.step = "columns"]}
      \/ /\ newName # {} /\ p.name \in DOMAIN catalog /\ ~(newName \subseteq DOMAIN catalog)
         /\ RenameTable(p.name, The(newName)) /\ patch' = {[p EXCEPT !.step = "columns"]}
  BY DEF PatchName
<1>3. CatalogOK' /\ Evolves /\ FreeStays /\ Oids' = Oids
  <2>1. CASE catalog' = catalog
    BY <1>1, <2>1, CatalogStays
  <2>2. CASE /\ newName # {} /\ p.name \in DOMAIN catalog /\ ~(newName \subseteq DOMAIN catalog)
             /\ RenameTable(p.name, The(newName))
    <3>1. newName = {OtherName}
      BY <1>1, <2>2 DEF PatchOK
    <3>2. The(newName) \notin DOMAIN catalog
      BY <2>2, <3>1 DEF The
    <3> QED BY <1>1, <2>2, <3>2, TableRenamed
  <2> QED BY <1>2, <2>1, <2>2
<1>4. PatchOK'
  <2>1. CASE patch' = Idle
    BY <2>1 DEF PatchOK, Idle
  <2>2. CASE patch' = {[p EXCEPT !.step = "columns"]}
    <3> PICK q : q = [p EXCEPT !.step = "columns"]
      OBVIOUS
    <3>1. DOMAIN p = {"step", "oid", "name", "newName", "types"}
      BY <1>1 DEF PatchOK
    <3>2. DOMAIN q = DOMAIN p /\ q.oid = p.oid /\ q.newName = p.newName /\ q.types = p.types
      BY <3>1
    <3>3. p.oid \in 1 .. made /\ HasAtLeast(p.oid, DOMAIN p.types)
      BY <1>1 DEF PatchOK, HasAtLeast
    <3>4. p.oid \in 1 .. made' /\ HasAtLeast(p.oid, DOMAIN p.types)'
      BY <1>1, <1>3, <3>3, AtLeastStays
    <3>5. p.newName \in {{}, {OtherName}} /\ \A c \in DOMAIN p.types : p.types[c] \in KnownDbTypes
      BY <1>1 DEF PatchOK
    <3> QED BY <2>2, <3>1, <3>2, <3>4, <3>5 DEF PatchOK, HasAtLeast
  <2> QED BY <1>2, <2>1, <2>2
<1> QED BY <1>1, <1>3, <1>4, CatalogMoves

\* Changed columns have cells and ids as before.
LEMMA AlteredOK ==
    ASSUME NEW t, TableOK(t), NEW types, DOMAIN types \subseteq DOMAIN t.columns,
           \A c \in DOMAIN types : types[c] \in KnownDbTypes, NEW order,
           NEW u, u = AlterColumns(t, types, order)
    PROVE  /\ TableOK(u) /\ u.oid = t.oid /\ DOMAIN u.columns = DOMAIN t.columns
           /\ NextIsFree(t) => NextIsFree(u)
<1>1. DOMAIN t = {"oid", "next", "rows", "columns"} /\ t.next \in Nat /\ IsTuple(t.rows)
  BY DEF TableOK
<1> PICK columns : columns = types ++ t.columns
  OBVIOUS
<1>2. PICK rows : /\ rows = [i \in DOMAIN t.rows |-> rows[i]]
                  /\ \A i \in DOMAIN t.rows : DOMAIN t.rows[i] = {"id", "cells"} =>
                       /\ DOMAIN rows[i] = {"id", "cells"} /\ rows[i].id = t.rows[i].id
                       /\ DOMAIN rows[i].cells = DOMAIN t.columns
                  /\ u = [t EXCEPT !.columns = columns, !.rows = rows]
  <2> DEFINE cells(i) == [c \in DOMAIN t.columns |-> The(Altered(t, types, order, i, c))]
             changed == [i \in DOMAIN t.rows |-> [t.rows[i] EXCEPT !.cells = cells(i)]]
  <2>1. u = [t EXCEPT !.columns = columns, !.rows = changed]
    BY DEF AlterColumns
  <2>2. \A i \in DOMAIN t.rows : DOMAIN cells(i) = DOMAIN t.columns
    OBVIOUS
  <2>3. \A i \in DOMAIN t.rows : changed[i] = [t.rows[i] EXCEPT !.cells = cells(i)]
    OBVIOUS
  <2>4. changed = [i \in DOMAIN t.rows |-> changed[i]]
    OBVIOUS
  <2> HIDE DEF changed, cells
  <2>5. \A i \in DOMAIN t.rows : DOMAIN t.rows[i] = {"id", "cells"} =>
          /\ DOMAIN changed[i] = {"id", "cells"} /\ changed[i].id = t.rows[i].id
          /\ DOMAIN changed[i].cells = DOMAIN t.columns
    BY <2>2, <2>3
  <2> QED BY <2>1, <2>4, <2>5
<1>3. DOMAIN u = DOMAIN t /\ u.columns = columns /\ u.rows = rows /\ u.next = t.next /\ u.oid = t.oid
  BY <1>1, <1>2
<1>4. columns = [c \in DOMAIN types \union DOMAIN t.columns |-> IF c \in DOMAIN types THEN types[c] ELSE t.columns[c]]
  BY DEF ++
<1>5. DOMAIN columns = DOMAIN t.columns /\ \A c \in DOMAIN columns : columns[c] \in KnownDbTypes
  BY <1>4 DEF TableOK
<1>6. IsTuple(rows) /\ Len(rows) = Len(t.rows) /\ DOMAIN rows = DOMAIN t.rows
  <2>1. DOMAIN t.rows = 1 .. Len(t.rows) /\ Len(t.rows) \in Nat
    BY <1>1, TupleIsSeq
  <2>2. rows = [i \in 1 .. Len(t.rows) |-> rows[i]]
    BY <1>2, <2>1
  <2> QED BY <1>2, <2>1, <2>2, TupleMade
<1>7. \A i \in DOMAIN rows : /\ DOMAIN rows[i] = {"id", "cells"} /\ rows[i].id = t.rows[i].id
                             /\ DOMAIN rows[i].cells = DOMAIN t.columns
  BY <1>2, <1>6 DEF TableOK
<1>8. TableOK(u)
  <2>1. \A i \in DOMAIN rows : rows[i].id \in Nat /\ (rows[i].id <= MaxInteger \/ rows[i].id <= t.next + Len(rows))
    BY <1>6, <1>7 DEF TableOK
  <2> QED BY <1>1, <1>3, <1>5, <1>6, <1>7, <2>1 DEF TableOK
<1>9. NextIsFree(t) => NextIsFree(u)
  BY <1>3, <1>6, <1>7 DEF NextIsFree
<1> QED BY <1>3, <1>5, <1>8, <1>9

\* The columns of the table are changed, or none is.
LEMMA PatchColumnsKeeps ==
    ASSUME ImportInv, PatchColumns
    PROVE  ImportInv'
<1>1. /\ UNCHANGED <<zone, made, datafile, importing, imported, inference, asked>>
      /\ patch' = Idle /\ CatalogOK /\ PatchOK /\ Patch \in patch
  BY ThePatch DEF ImportInv, PatchColumns
<1> PICK p : p = Patch
  OBVIOUS
<1>2. PICK order : \/ catalog' = catalog
                   \/ p.oid \in Oids /\ catalog' = [catalog EXCEPT ![NameOf(p.oid)] = AlterColumns(@, p.types, order)]
  BY DEF PatchColumns
<1>3. CatalogOK' /\ Evolves /\ FreeStays /\ Oids' = Oids
  <2>1. CASE catalog' = catalog
    BY <1>1, <2>1, CatalogStays
  <2>2. CASE p.oid \in Oids /\ catalog' = [catalog EXCEPT ![NameOf(p.oid)] = AlterColumns(@, p.types, order)]
    <3> PICK oid : oid = p.oid
      OBVIOUS
    <3> PICK name : name = NameOf(oid)
      OBVIOUS
    <3>1. name \in DOMAIN catalog /\ catalog[name].oid = oid
      BY <1>1, <2>2, TableIsThere
    <3> PICK t : t = catalog[name]
      OBVIOUS
    <3> PICK types : types = p.types
      OBVIOUS
    <3> PICK u : u = AlterColumns(t, types, order)
      OBVIOUS
    <3>2. TableOK(t) /\ DOMAIN types \subseteq DOMAIN t.columns /\ \A c \in DOMAIN types : types[c] \in KnownDbTypes
      BY <1>1, <3>1 DEF CatalogOK, PatchOK, HasAtLeast
    <3>3. /\ TableOK(u) /\ u.oid = t.oid /\ DOMAIN u.columns = DOMAIN t.columns
          /\ NextIsFree(t) => NextIsFree(u)
      BY <3>2, AlteredOK
    <3>4. catalog' = [catalog EXCEPT ![name] = u]
      BY <2>2
    <3> QED BY <1>1, <3>1, <3>3, <3>4, TableChanged
  <2> QED BY <1>2, <2>1, <2>2
<1>4. PatchOK'
  BY <1>1 DEF PatchOK, Idle
<1> QED BY <1>1, <1>3, <1>4, CatalogMoves

\* Another user makes a table.
LEMMA OtherCreatesKeeps ==
    ASSUME ImportInv, OtherCreates
    PROVE  ImportInv'
<1> PICK t : t = [oid |-> made + 1, columns |-> <<>>, rows |-> <<>>, next |-> 1]
  OBVIOUS
<1>1. /\ catalog' = Put(catalog, AddMathesarTable(BaseName, DOMAIN catalog), t) /\ made' = made + 1
      /\ UNCHANGED <<zone, datafile, importing, imported, failed, inference, patch>> /\ Ask /\ CatalogOK
  BY DEF OtherCreates, Others, ImportInv
<1>2. TableOK(t) /\ t.oid = made + 1
  <2>1. IsTuple(t.rows) /\ DOMAIN t.rows = {} /\ DOMAIN t.columns = {}
    BY DEF IsTuple
  <2> QED BY <2>1 DEF TableOK
<1>3. CatalogOK' /\ Evolves /\ FreeStays /\ Oids' = Oids \union {made + 1}
  BY <1>1, <1>2, WordsAreTuples, TableAdded
<1>4. PatchOK'
  BY <1>1, <1>3, PatchStays DEF ImportInv
<1> QED BY <1>1, <1>3, <1>4, CatalogMoves

\* Another user renames a table.
LEMMA OtherRenamesKeeps ==
    ASSUME ImportInv, OtherRenames
    PROVE  ImportInv'
<1>1. /\ UNCHANGED <<zone, datafile, importing, imported, failed, inference, patch>> /\ Ask /\ CatalogOK /\ made' = made
  BY DEF OtherRenames, Others, ImportInv
<1>2. PICK name \in DOMAIN catalog : OtherName \notin DOMAIN catalog /\ RenameTable(name, OtherName)
  BY DEF OtherRenames
<1>3. CatalogOK' /\ Evolves /\ FreeStays /\ Oids' = Oids
  BY <1>1, <1>2, TableRenamed
<1>4. PatchOK'
  BY <1>1, <1>3, PatchStays DEF ImportInv
<1> QED BY <1>1, <1>3, <1>4, CatalogMoves

\* Another user adds a row.
LEMMA OtherAddsRowKeeps ==
    ASSUME ImportInv, OtherAddsRow
    PROVE  ImportInv'
<1>1. /\ UNCHANGED <<zone, datafile, importing, imported, failed, inference, patch>> /\ Ask /\ CatalogOK /\ made' = made
  BY DEF OtherAddsRow, Others, ImportInv
<1>2. PICK name \in DOMAIN catalog, x \in AddedText : catalog' = [catalog EXCEPT ![name] = WithRow(@, x)]
  BY DEF OtherAddsRow
<1> PICK t : t = catalog[name]
  OBVIOUS
<1> PICK row : row = [id |-> t.next, cells |-> [c \in DOMAIN t.columns |-> IF t.columns[c] = "text" THEN x ELSE Null]]
  OBVIOUS
<1> PICK u : u = WithRow(t, x)
  OBVIOUS
<1>3. catalog' = [catalog EXCEPT ![name] = u]
  BY <1>2
<1> PICK old : old = t.rows
  OBVIOUS
<1> PICK rows : rows = Append(old, row)
  OBVIOUS
<1>4. TableOK(t) /\ DOMAIN t = {"oid", "next", "rows", "columns"} /\ t.next \in Nat /\ IsTuple(t.rows)
  BY <1>1 DEF CatalogOK, TableOK
<1>5. DOMAIN u = DOMAIN t /\ u.next = t.next + 1 /\ u.rows = rows /\ u.columns = t.columns /\ u.oid = t.oid
  BY <1>4 DEF WithRow
<1>6. DOMAIN row = {"id", "cells"} /\ row.id = t.next /\ DOMAIN row.cells = DOMAIN t.columns
  OBVIOUS
<1>7. /\ IsTuple(rows) /\ Len(rows) = Len(t.rows) + 1 /\ DOMAIN rows = 1 .. Len(t.rows) + 1
      /\ \A i \in DOMAIN t.rows : rows[i] = t.rows[i]
      /\ rows[Len(t.rows) + 1] = row
  <2>1. IsTuple(old) /\ rows = Append(old, row)
    BY <1>4
  <2>2. IsTuple(rows)
    BY ONLY <2>1, AppendIsTuple
  <2>3. Len(rows) = Len(old) + 1 /\ DOMAIN rows = 1 .. Len(old) + 1
    BY ONLY <2>1, AppendIsTuple
  <2>4. \A i \in DOMAIN old : rows[i] = old[i]
    BY ONLY <2>1, AppendIsTuple
  <2>5. rows[Len(old) + 1] = row
    BY ONLY <2>1, AppendIsTuple
  <2> QED BY <2>2, <2>3, <2>4, <2>5
<1>8. Len(t.rows) \in Nat /\ DOMAIN t.rows = 1 .. Len(t.rows)
  BY <1>4, TupleIsSeq
<1>9. \A i \in DOMAIN rows : rows[i] = row \/ (i \in DOMAIN t.rows /\ rows[i] = t.rows[i])
  BY <1>7, <1>8
<1>10. TableOK(u)
  <2>1. ASSUME NEW i \in DOMAIN rows
        PROVE  /\ DOMAIN rows[i] = {"id", "cells"} /\ DOMAIN rows[i].cells = DOMAIN t.columns
               /\ rows[i].id \in Nat
               /\ rows[i].id <= MaxInteger \/ rows[i].id <= u.next + Len(rows)
    <3>1. CASE rows[i] = row
      BY <1>4, <1>5, <1>6, <1>7, <1>8, <3>1
    <3>2. CASE i \in DOMAIN t.rows /\ rows[i] = t.rows[i]
      <4> PICK id : id = t.rows[i].id
        OBVIOUS
      <4>1. id \in Nat /\ (id <= MaxInteger \/ id <= t.next + Len(t.rows))
        BY <1>4, <3>2 DEF TableOK
      <4>2. id <= MaxInteger \/ id <= u.next + Len(rows)
        BY <1>4, <1>5, <1>7, <1>8, <4>1, MaxIsNatural
      <4> QED BY <1>4, <3>2, <4>1, <4>2 DEF TableOK
    <3> QED BY <1>9, <2>1, <3>1, <3>2
  <2> QED BY <1>4, <1>5, <1>7, <2>1 DEF TableOK
<1>11. NextIsFree(t) => NextIsFree(u)
  BY <1>4, <1>5, <1>6, <1>9 DEF NextIsFree, TableOK
<1>12. CatalogOK' /\ Evolves /\ FreeStays /\ Oids' = Oids
  <2>1. u.oid = catalog[name].oid /\ DOMAIN u.columns = DOMAIN catalog[name].columns
    BY <1>5
  <2> QED BY <1>1, <1>3, <1>10, <1>11, <2>1, TableChanged
<1>13. PatchOK'
  BY <1>1, <1>12, PatchStays DEF ImportInv
<1> QED BY <1>1, <1>12, <1>13, CatalogMoves

-----------------------------------------------------------------------------
(***************************************************************************)
(* The invariant.                                                          *)
(***************************************************************************)
\* It holds at the start.
LEMMA InitInv ==
    ASSUME Init
    PROVE  ImportInv
<1>1. catalog = <<>> /\ made = 0 /\ DOMAIN catalog = {} /\ IsMapping(catalog)
  BY DEF Init, IsMapping
<1>2. CatalogOK
  BY <1>1, FS_EmptySet DEF CatalogOK
<1>3. ImportsOK /\ ImportedOK /\ PatchOK /\ SuggestionsOK
  BY DEF Init, ImportsOK, ImportedOK, PatchOK, SuggestionsOK, Idle
<1>4. RequestsOK
  BY DEF Init, RequestsOK
<1>5. temps = <<>> /\ DOMAIN temps = {} /\ IsMapping(temps)
  BY DEF Init, IsMapping
<1>6. Owned /\ TempsOK
  BY <1>5 DEF Init, Owned, TempsOK
<1>7. CountsOK
  BY ImportAssumption DEF Init, CountsOK
<1> QED BY <1>2, <1>3, <1>4, <1>6, <1>7 DEF ImportInv

\* No step breaks it.
LEMMA NextInv ==
    ASSUME ImportInv, [Next]_vars
    PROVE  ImportInv'
<1>1. CASE UNCHANGED vars
  <2>1. CatalogOK' /\ Evolves /\ FreeStays /\ Oids' = Oids /\ PatchOK'
    BY <1>1, CatalogStays, PatchStays DEF ImportInv, vars
  <2> QED BY <1>1, <2>1, CatalogMoves DEF vars, inference
<1>2. CASE CreateDataFile \/ PatchHeader
  BY <1>2, CreateDataFileKeeps, PatchHeaderKeeps
<1>3. CASE StartImport \/ CreateTable \/ Fill \/ UpdatePkSequenceToLatest \/ DropTable \/ FinishImport \/ ImportCsv
  BY <1>3, StartImportKeeps, CreateTableKeeps, FillKeeps, UpdatePkSequenceKeeps, DropTableKeeps,
     FinishImportKeeps, ImportCsvKeeps
<1>4. ASSUME NEW r \in Requests,
             \/ BeginInference(r) \/ StopWaiting(r) \/ CreateTableAs(r) \/ InferColumn(r)
             \/ FinishInference(r) \/ InferenceFails(r) \/ ServerStops(r)
      PROVE  ImportInv'
  BY <1>4, BeginInferenceKeeps, StopWaitingKeeps, CreateTableAsKeeps, InferColumnKeeps,
     FinishInferenceKeeps, InferenceFailsKeeps, ServerStopsKeeps
<1>5. CASE Tick \/ StartPatch \/ PatchName \/ PatchColumns
  BY <1>5, TickKeeps, StartPatchKeeps, PatchNameKeeps, PatchColumnsKeeps
<1>6. CASE OtherCreates \/ OtherRenames \/ OtherAddsRow
  BY <1>6, OtherCreatesKeeps, OtherRenamesKeeps, OtherAddsRowKeeps
<1> QED BY <1>1, <1>2, <1>3, <1>4, <1>5, <1>6 DEF Next

\* It holds throughout.
LEMMA ImportInvHolds == Spec => []ImportInv
<1>1. Init => ImportInv
  BY InitInv
<1>2. ImportInv /\ [Next]_vars => ImportInv'
  BY NextInv
<1> QED BY <1>1, <1>2, PTL DEF Spec

\* There are as many oids as names.
LEMMA OneOidEach ==
    ASSUME CatalogOK
    PROVE  Cardinality(Oids) = Cardinality(DOMAIN catalog)
<1> DEFINE f == [name \in DOMAIN catalog |-> catalog[name].oid]
<1>1. f \in [DOMAIN catalog -> Oids] /\ \A x \in Oids : \E name \in DOMAIN catalog : f[name] = x
  BY DEF Oids, Tables
<1>2. \A name, other \in DOMAIN catalog : f[name] = f[other] => name = other
  BY DEF CatalogOK
<1>3. f \in Bijection(DOMAIN catalog, Oids)
  BY <1>1, <1>2 DEF Bijection, Injection, Surjection, IsInjective
<1> QED BY <1>3, FS_Bijection DEF ExistsBijection, CatalogOK

\* What the invariant says of types.
LEMMA InvTyped ==
    ASSUME ImportInv
    PROVE  TypeOK
<1>1. CatalogOK /\ ImportsOK /\ TempsOK /\ CountsOK
  BY DEF ImportInv
<1>2. ASSUME NEW t \in Tables
      PROVE  /\ t.oid \in 1 .. made /\ \A c \in DOMAIN t.columns : t.columns[c] \in KnownDbTypes
             /\ \A row \in ToSet(t.rows) : DOMAIN row.cells = DOMAIN t.columns
  BY <1>1 DEF Tables, CatalogOK, TableOK, ToSet
<1>3. importing = Idle \/ Import.step \in {"create", "fill", "sequence", "drop", "finish"}
  BY <1>1, TheImport DEF ImportOK
<1>4. Cardinality(Oids) = Cardinality(DOMAIN catalog)
  BY <1>1, OneOidEach
<1>5. DOMAIN temps \subseteq {Waiting} \union {Numbered(TempTable, s) : s \in 0 .. second}
  BY <1>1 DEF TempsOK, TempNames
<1>6. zone \in ZoneHours /\ asked \in 0 .. MaxAsked /\ second <= asked
  BY <1>1 DEF CountsOK
<1> QED BY <1>2, <1>3, <1>4, <1>5, <1>6 DEF TypeOK

\* A request for types works on a copy that is its own, and no copy outlives its request
\* unless the server stopped, whatever names others give their tables and however many
\* requests share a second; the catalog keeps its types.  (infer_table_column_types)
THEOREM CopiesHaveOwnersHolds == Spec => []CopiesHaveOwners
<1>1. ImportInv => CopiesHaveOwners
  BY InvTyped DEF ImportInv, Owned, CopiesHaveOwners
<1> QED BY <1>1, ImportInvHolds, PTL

\* The types suggested for a table are not refused as long as it is what it was when its
\* copy was made: each is the type the column has, or one that all its cells can be cast
\* to, in the zone of the session and in the one casts of other columns may leave.  (infer_table_column_types, batch_update_columns)
THEOREM SuggestionsFitHolds == Spec => []SuggestionsFit
<1>1. ImportInv => SuggestionsFit
  BY DEF ImportInv, SuggestionsOK, Found, SuggestionsFit
<1> QED BY <1>1, ImportInvHolds, PTL

\* The next id of an imported table is above those it has, those of the file included,
\* whichever of the ways of importing it took and whatever is done to it afterwards.
\* (update_pk_sequence_to_latest)
THEOREM NextIdIsFreeHolds == Spec => []NextIdIsFree
<1>1. ASSUME ImportInv, NEW i \in imported
      PROVE  \A row \in ToSet(TableOf(i.oid).rows) : row.id < TableOf(i.oid).next
  <2> PICK oid : oid = i.oid
    OBVIOUS
  <2> PICK name : name = NameOf(oid)
    OBVIOUS
  <2>1. oid \in Oids /\ CatalogOK
    BY <1>1 DEF ImportInv, ImportedOK
  <2>2. name \in DOMAIN catalog /\ catalog[name].oid = oid
    BY <2>1, TableIsThere
  <2>3. NextIsFree(catalog[name])
    BY <1>1, <2>2 DEF ImportInv, ImportedOK
  <2>4. TableOf(i.oid) = catalog[name]
    BY DEF TableOf
  <2> QED BY <2>3, <2>4 DEF NextIsFree, ToSet
<1>2. ImportInv => NextIdIsFree
  BY <1>1 DEF NextIdIsFree
<1> QED BY <1>2, ImportInvHolds, PTL

-----------------------------------------------------------------------------
(***************************************************************************)
(* What the cells of the columns are, and the tables of an import.         *)
(***************************************************************************)
\* The columns of a table are of types that casts are offered to, and those of URIs hold
\* texts with a scheme.
TypesFit(t) ==
    \A c \in DOMAIN t.columns :
        /\ t.columns[c] \in OfferedTargets
        /\ t.columns[c] = "uri" =>
             \A i \in DOMAIN t.rows : t.rows[i].cells[c] \in WithScheme \union {Null}
TablesFit == \A name \in DOMAIN catalog : TypesFit(catalog[name])

\* Whatever type is found, suggested or asked for is one that casts are offered to.
AreOffered(types) == \A c \in DOMAIN types : types[c] \in OfferedTargets
TypesOffered ==
    /\ \A name \in DOMAIN temps : AreOffered(temps[name].table.columns) /\ AreOffered(temps[name].types)
    /\ \A s \in suggestions : AreOffered(s.types)
    /\ \A p \in patch : AreOffered(p.types)

\* A table of an import has columns of text, and no rows before they are put in.
Fresh(t, step) ==
    /\ \A c \in DOMAIN t.columns : t.columns[c] = "text"
    /\ step \in {"create", "fill", "drop"} => t.rows = <<>>

\* Nobody else changes the tables of an import; it has one, unless it was tried again.
MadeForIt(i) ==
    /\ \A name \in DOMAIN catalog : catalog[name].oid \in i.tables => Fresh(catalog[name], i.step)
    /\ \A p \in patch : p.oid \notin i.tables
    /\ ~i.retry => i.tables = IF i.step = "create" THEN {} ELSE {Max(i.tables)}
    /\ i.step = "sequence" => ~i.retry
ImportsAlone == \A i \in importing : MadeForIt(i)

CellsInv == TablesFit /\ TypesOffered /\ ImportsAlone

\* The tables are those there were, and those of U.
OnlyNew(U) == \A name \in DOMAIN catalog' : catalog'[name] \in U \/ \E other \in DOMAIN catalog : catalog'[name] = catalog[other]

\* A table is put in.
LEMMA PutLeaves ==
    ASSUME NEW name, NEW u, catalog' = Put(catalog, name, u)
    PROVE  OnlyNew({u})
<1>1. IsPut(catalog', catalog, name, u)
  BY PutIs
<1> QED BY <1>1 DEF IsPut, OnlyNew

\* A table is changed.
LEMMA ChangeLeaves ==
    ASSUME NEW name \in DOMAIN catalog, NEW u, catalog' = [catalog EXCEPT ![name] = u]
    PROVE  OnlyNew({u})
BY DEF OnlyNew

\* A table is dropped.
LEMMA DropLeaves ==
    ASSUME NEW name, catalog' = Without(catalog, name)
    PROVE  OnlyNew({})
BY DEF OnlyNew, Without

\* A table is renamed.
LEMMA RenameLeaves ==
    ASSUME NEW name \in DOMAIN catalog, NEW new, RenameTable(name, new)
    PROVE  OnlyNew({})
<1> PICK rest : rest = Without(catalog, name)
  OBVIOUS
<1>1. DOMAIN rest = DOMAIN catalog \ {name} /\ \A x \in DOMAIN rest : rest[x] = catalog[x]
  BY DEF Without
<1>2. IsPut(catalog', rest, new, catalog[name])
  BY PutIs DEF RenameTable
<1> QED BY <1>1, <1>2 DEF IsPut, OnlyNew

\* Columns stay as they should be if those of the new tables are.
LEMMA FitStays ==
    ASSUME TablesFit, NEW U, OnlyNew(U), \A u \in U : TypesFit(u)
    PROVE  TablesFit'
<1>1. ASSUME NEW name \in DOMAIN catalog'
      PROVE  TypesFit(catalog'[name])
  <2>1. CASE catalog'[name] \in U
    BY <2>1
  <2>2. CASE \E other \in DOMAIN catalog : catalog'[name] = catalog[other]
    BY <2>2 DEF TablesFit
  <2> QED BY <1>1, <2>1, <2>2 DEF OnlyNew
<1>2. ASSUME NEW name \in DOMAIN catalog'
      PROVE  TypesFit(catalog[name])'
  BY <1>1 DEF TypesFit
<1> QED BY <1>2 DEF TablesFit

\* What others do leaves an import alone.
LEMMA AloneStays ==
    ASSUME ImportsAlone, NEW U, OnlyNew(U), \A u \in U, i \in importing : u.oid \notin i.tables,
           importing' = importing, \A p \in patch', i \in importing : p.oid \notin i.tables
    PROVE  ImportsAlone'
<1>1. ASSUME NEW i \in importing
      PROVE  MadeForIt(i)'
  <2>1. ASSUME NEW name \in DOMAIN catalog', catalog'[name].oid \in i.tables
        PROVE  Fresh(catalog'[name], i.step)
    <3>1. PICK other \in DOMAIN catalog : catalog'[name] = catalog[other]
      BY <2>1 DEF OnlyNew
    <3> QED BY <2>1, <3>1 DEF ImportsAlone, MadeForIt
  <2>2. \A name \in DOMAIN catalog' : catalog'[name].oid \in i.tables => Fresh(catalog[name], i.step)'
    BY <2>1 DEF Fresh
  <2>3. (~i.retry => i.tables = IF i.step = "create" THEN {} ELSE {Max(i.tables)}) /\ (i.step = "sequence" => ~i.retry)
    BY DEF ImportsAlone, MadeForIt
  <2> QED BY <2>2, <2>3 DEF MadeForIt
<1> QED BY <1>1 DEF ImportsAlone

\* The import j goes on from i, with the tables of U.
GoesOn(i, j, U) ==
    /\ \A u \in U : u.oid \in j.tables => Fresh(u, j.step)
    /\ \A p \in patch : p.oid \notin j.tables
    /\ j.step \in {"create", "fill", "drop"} => i.step \in {"create", "fill", "drop"}
    /\ \A name \in DOMAIN catalog : catalog[name].oid \in j.tables => catalog[name].oid \in i.tables
    /\ ~j.retry => j.tables = IF j.step = "create" THEN {} ELSE {Max(j.tables)}
    /\ j.step = "sequence" => ~j.retry

\* A step of an import leaves it as it should be.
LEMMA AloneMoves ==
    ASSUME NEW i, MadeForIt(i), NEW U, OnlyNew(U), patch' = patch, NEW j, importing' = {j}, GoesOn(i, j, U)
    PROVE  ImportsAlone'
<1>1. ASSUME NEW name \in DOMAIN catalog', catalog'[name].oid \in j.tables
      PROVE  Fresh(catalog'[name], j.step)
  <2>1. CASE catalog'[name] \in U
    BY <1>1, <2>1 DEF GoesOn
  <2>2. CASE \E other \in DOMAIN catalog : catalog'[name] = catalog[other]
    <3>1. PICK other \in DOMAIN catalog : catalog'[name] = catalog[other]
      BY <2>2
    <3>2. Fresh(catalog[other], i.step)
      BY <1>1, <3>1 DEF MadeForIt, GoesOn
    <3> QED BY <3>1, <3>2 DEF Fresh, GoesOn
  <2> QED BY <1>1, <2>1, <2>2 DEF OnlyNew
<1>2. \A name \in DOMAIN catalog' : catalog'[name].oid \in j.tables => Fresh(catalog[name], j.step)'
  BY <1>1 DEF Fresh
<1>3. MadeForIt(j)'
  BY <1>2 DEF MadeForIt, GoesOn
<1> QED BY <1>3 DEF ImportsAlone

\* No table is there that an import will make.
LEMMA NoneAlone ==
    ASSUME importing' = Idle
    PROVE  ImportsAlone'
BY DEF ImportsAlone, Idle

\* The columns of a new table.
LEMMA TextIsOffered == "text" \in OfferedTargets
BY InferredAreOffered

\* A table of text fits.
LEMMA TextFits ==
    ASSUME NEW t, \A c \in DOMAIN t.columns : t.columns[c] = "text"
    PROVE  TypesFit(t)
BY TextIsOffered DEF TypesFit

\* An import begins.
LEMMA StartImportLeaves ==
    ASSUME ImportInv, CellsInv, StartImport
    PROVE  CellsInv'
<1>1. UNCHANGED <<catalog, made, aside>>
  BY DEF StartImport
<1>2. TablesFit' /\ TypesOffered'
  BY <1>1 DEF CellsInv, TablesFit, TypesOffered, TypesFit, AreOffered, aside, inference
<1>3. PICK i : /\ importing' = {i} /\ i.tables = {} /\ i.step = "create" /\ i.retry = FALSE
  <2>1. PICK file, name :
          importing' = {[step |-> "create", file |-> file, name |-> name, tables |-> {}, retry |-> FALSE,
                         names |-> ProcessColumnNames(file.names)]}
    BY DEF StartImport
  <2> PICK i : i = [step |-> "create", file |-> file, name |-> name, tables |-> {}, retry |-> FALSE,
                    names |-> ProcessColumnNames(file.names)]
    OBVIOUS
  <2>2. i.tables = {} /\ i.step = "create" /\ i.retry = FALSE
    OBVIOUS
  <2> QED BY <2>1, <2>2
<1>4. MadeForIt(i)'
  BY <1>3 DEF MadeForIt
<1>5. ImportsAlone'
  BY <1>3, <1>4 DEF ImportsAlone
<1> QED BY <1>2, <1>5 DEF CellsInv

\* What a step of an import leaves aside.
LEMMA TypesStay ==
    ASSUME TypesOffered, UNCHANGED <<temps, suggestions, patch>>
    PROVE  TypesOffered'
BY DEF TypesOffered, AreOffered

\* The table of columns of text is made.
LEMMA CreateTableLeaves ==
    ASSUME ImportInv, CellsInv, CreateTable
    PROVE  CellsInv'
<1>1. /\ importing # Idle /\ UNCHANGED aside /\ Import \in importing /\ ImportOK(Import) /\ Import.step = "create"
      /\ CatalogOK /\ made \in Nat
  BY TheImport DEF ImportInv, CreateTable, CatalogOK
<1>2. TypesOffered'
  BY <1>1, TypesStay DEF CellsInv, aside, inference
<1>3. CASE HasDuplicates(Import.names)
  <2>1. importing' = Idle /\ UNCHANGED catalog
    BY <1>3 DEF CreateTable, Fail
  <2>2. OnlyNew({})
    BY <2>1 DEF OnlyNew
  <2>3. TablesFit'
    BY <2>2, FitStays DEF CellsInv
  <2> QED BY <1>2, <2>1, <2>3, NoneAlone DEF CellsInv
<1>4. CASE ~HasDuplicates(Import.names)
  <2> PICK fields : fields = [step |-> "fill", tables |-> Import.tables \union {made + 1}]
    OBVIOUS
  <2>1. DOMAIN fields = {"step", "tables"} /\ fields["step"] = "fill" /\ fields["tables"] = Import.tables \union {made + 1}
    OBVIOUS
  <2>2. CreateStringColumnTable(Import.name, Import.names) /\ Set(fields)
    BY <1>4 DEF CreateTable
  <2> PICK t : t = [oid |-> made + 1, next |-> 1, rows |-> <<>>,
                    columns |-> [c \in ToSet(Import.names) \ {"id"} |-> "text"]]
    OBVIOUS
  <2>3. OnlyNew({t})
    BY <2>2, PutLeaves DEF CreateStringColumnTable
  <2>4. Fresh(t, "fill") /\ TypesFit(t)
    <3>1. t.rows = <<>> /\ \A c \in DOMAIN t.columns : t.columns[c] = "text"
      OBVIOUS
    <3> QED BY <3>1, TextFits DEF Fresh
  <2>5. PICK j : /\ importing' = {j} /\ DOMAIN j = DOMAIN Import
                 /\ \A f \in DOMAIN Import : j[f] = IF f \in DOMAIN fields THEN fields[f] ELSE Import[f]
    BY <2>2, SetIs
  <2>6. j.step = "fill" /\ j.tables = Import.tables \union {made + 1} /\ j.retry = Import.retry
    BY <1>1, <2>1, <2>5 DEF ImportOK
  <2>7. MadeForIt(Import)
    BY <1>1 DEF CellsInv, ImportsAlone
  <2>8. \A p \in patch : p.oid \notin j.tables
    BY <1>1, <2>6, <2>7 DEF MadeForIt, ImportInv, PatchOK
  <2>9. \A other \in DOMAIN catalog : catalog[other].oid \in j.tables => catalog[other].oid \in Import.tables
    BY <1>1, <2>6 DEF CatalogOK
  <2>10. ~j.retry => j.tables = {Max(j.tables)}
    <3> SUFFICES ASSUME ~j.retry PROVE j.tables = {Max(j.tables)}
      OBVIOUS
    <3>1. Import.tables = {}
      BY <1>1, <2>6, <2>7 DEF MadeForIt
    <3>2. Max({} \union {made + 1}) = made + 1
      BY <1>1, LargestOid
    <3>3. {} \union {made + 1} = {made + 1}
      OBVIOUS
    <3> QED BY <2>6, <3>1, <3>2, <3>3
  <2>11. ImportsAlone'
    <3> PICK i : i = Import
      OBVIOUS
    <3>1. MadeForIt(i)
      BY <2>7
    <3>2. patch' = patch /\ i.step = "create"
      BY <1>1 DEF aside
    <3>3. \A u \in {t} : u.oid \in j.tables => Fresh(u, j.step)
      BY <2>4, <2>6
    <3>4. \A other \in DOMAIN catalog : catalog[other].oid \in j.tables => catalog[other].oid \in i.tables
      BY <2>9
    <3>5. GoesOn(i, j, {t})
      BY <2>6, <2>8, <2>10, <3>2, <3>3, <3>4 DEF GoesOn
    <3> QED BY <2>3, <2>5, <3>1, <3>2, <3>5, AloneMoves
  <2>12. TablesFit'
    BY <2>3, <2>4, FitStays DEF CellsInv
  <2> QED BY <1>2, <2>11, <2>12 DEF CellsInv
<1> QED BY <1>3, <1>4

\* The rows are put in: the columns are still those of text.
LEMMA FillLeaves ==
    ASSUME ImportInv, CellsInv, Fill
    PROVE  CellsInv'
<1>1. /\ importing # Idle /\ UNCHANGED aside /\ Import \in importing /\ ImportOK(Import) /\ Import.step = "fill"
      /\ CatalogOK
  BY TheImport DEF ImportInv, Fill
<1>2. TypesOffered'
  BY <1>1, TypesStay DEF CellsInv, aside, inference
<1> PICK i : i = Import
  OBVIOUS
<1>3. MadeForIt(i) /\ patch' = patch /\ i.step = "fill"
  BY <1>1 DEF CellsInv, ImportsAlone, aside
<1> PICK error : error = FillError(Import.file, Import.names)
  OBVIOUS
<1>4. CASE error = "none"
  <2>1. PICK name \in DOMAIN catalog : /\ catalog[name].oid \in NewTable
                                       /\ catalog' = [catalog EXCEPT ![name] = InsertRecords(@, Import.file, Import.names)]
    BY <1>4 DEF Fill
  <2> PICK u : u = InsertRecords(catalog[name], Import.file, Import.names)
    OBVIOUS
  <2>2. u.columns = catalog[name].columns /\ u.oid = catalog[name].oid
    <3> PICK t : t = catalog[name]
      OBVIOUS
    <3> PICK file : file = Import.file
      OBVIOUS
    <3>1. TableOK(t) /\ IsTuple(file.rows)
      BY <1>1 DEF CatalogOK, ImportOK
    <3>2. u = InsertRecords(t, file, Import.names) /\ FillError(file, Import.names) = "none"
      BY <1>4
    <3> QED BY <3>1, <3>2, InsertedOK
  <2>3. OnlyNew({u})
    BY <2>1, ChangeLeaves
  <2>4. \A c \in DOMAIN u.columns : u.columns[c] = "text"
    BY <1>3, <2>1, <2>2 DEF NewTable, MadeForIt, Fresh
  <2>5. TablesFit'
    BY <2>3, <2>4, TextFits, FitStays DEF CellsInv
  <2> PICK s : s = IF Import.retry THEN "finish" ELSE "sequence"
    OBVIOUS
  <2>6. Set([step |-> s])
    BY <1>4 DEF Fill
  <2>7. PICK j : /\ importing' = {j} /\ DOMAIN j = {"step", "file", "name", "tables", "retry", "names"}
                 /\ j.step = s /\ j.tables = Import.tables /\ j.file = Import.file
                 /\ j.name = Import.name /\ j.retry = Import.retry /\ j.names = Import.names
    BY <1>1, <2>6, StepIs
  <2>8. \A x \in {u} : x.oid \in j.tables => Fresh(x, j.step)
    BY <2>4, <2>7 DEF Fresh
  <2>9. ~j.retry => j.tables = IF j.step = "create" THEN {} ELSE {Max(j.tables)}
    BY <1>3, <2>7 DEF MadeForIt
  <2>10. ImportsAlone'
    <3>1. /\ \A p \in patch : p.oid \notin j.tables
          /\ \A other \in DOMAIN catalog : catalog[other].oid \in j.tables => catalog[other].oid \in i.tables
          /\ j.step = "sequence" => ~j.retry
      BY <1>3, <2>7 DEF MadeForIt
    <3>2. GoesOn(i, j, {u})
      BY <1>3, <2>7, <2>8, <2>9, <3>1 DEF GoesOn
    <3> QED BY <1>3, <2>3, <2>7, <3>2, AloneMoves
  <2> QED BY <1>2, <2>5, <2>10 DEF CellsInv
<1>5. CASE error # "none"
  <2>1. catalog' = catalog /\ (importing' = Idle \/ Set([step |-> "drop"]))
    BY <1>5 DEF Fill, Fail
  <2>2. OnlyNew({})
    BY <2>1 DEF OnlyNew
  <2>3. TablesFit'
    BY <2>2, FitStays DEF CellsInv
  <2>4. CASE importing' = Idle
    BY <1>2, <2>3, <2>4, NoneAlone DEF CellsInv
  <2>5. CASE Set([step |-> "drop"])
    <3>1. PICK j : /\ importing' = {j} /\ DOMAIN j = {"step", "file", "name", "tables", "retry", "names"}
                   /\ j.step = "drop" /\ j.tables = Import.tables /\ j.file = Import.file
                   /\ j.name = Import.name /\ j.retry = Import.retry /\ j.names = Import.names
      BY <1>1, <2>5, StepIs
    <3>2. /\ \A p \in patch : p.oid \notin j.tables
          /\ \A other \in DOMAIN catalog : catalog[other].oid \in j.tables => catalog[other].oid \in i.tables
          /\ ~j.retry => j.tables = IF j.step = "create" THEN {} ELSE {Max(j.tables)}
      BY <1>3, <3>1 DEF MadeForIt
    <3>3. ImportsAlone'
      <4>1. GoesOn(i, j, {})
        BY <1>3, <3>1, <3>2 DEF GoesOn
      <4> QED BY <1>3, <2>2, <3>1, <4>1, AloneMoves
    <3> QED BY <1>2, <2>3, <3>3 DEF CellsInv
  <2> QED BY <2>1, <2>4, <2>5
<1> QED BY <1>4, <1>5

\* The sequence is moved.
LEMMA UpdatePkSequenceLeaves ==
    ASSUME ImportInv, CellsInv, UpdatePkSequenceToLatest
    PROVE  CellsInv'
<1>1. /\ importing # Idle /\ UNCHANGED aside /\ Import \in importing /\ ImportOK(Import) /\ Import.step = "sequence"
      /\ CatalogOK
  BY TheImport DEF ImportInv, UpdatePkSequenceToLatest
<1>2. TypesOffered'
  BY <1>1, TypesStay DEF CellsInv, aside, inference
<1> PICK i : i = Import
  OBVIOUS
<1>3. MadeForIt(i) /\ patch' = patch /\ i.step = "sequence"
  BY <1>1 DEF CellsInv, ImportsAlone, aside
<1>4. PICK name \in DOMAIN catalog :
        /\ catalog[name].oid \in NewTable
        /\ LET ids == {0} \union {row.id : row \in ToSet(catalog[name].rows)}
           IN IF MaxInteger \in ids THEN Fail /\ UNCHANGED catalog
              ELSE /\ catalog' = [catalog EXCEPT ![name].next = Max(ids) + 1]
                   /\ Set([step |-> "finish"])
                   /\ UNCHANGED failed
  BY DEF UpdatePkSequenceToLatest
<1> PICK t : t = catalog[name]
  OBVIOUS
<1> PICK next : next = Max({0} \union {row.id : row \in ToSet(t.rows)}) + 1
  OBVIOUS
<1>5. CASE catalog' = catalog /\ Fail
  <2>1. OnlyNew({})
    BY <1>5 DEF OnlyNew
  <2>2. TablesFit' /\ importing' = Idle
    BY <1>5, <2>1, FitStays DEF CellsInv, Fail
  <2> QED BY <1>2, <2>2, NoneAlone DEF CellsInv
<1>6. CASE catalog' = [catalog EXCEPT ![name].next = next] /\ Set([step |-> "finish"])
  <2> PICK u : u = [t EXCEPT !.next = next]
    OBVIOUS
  <2>1. catalog' = [catalog EXCEPT ![name] = u]
    BY <1>6
  <2>2. u.columns = t.columns /\ u.rows = t.rows /\ u.oid = t.oid
    <3>1. DOMAIN t = {"oid", "next", "rows", "columns"}
      BY <1>1 DEF CatalogOK, TableOK
    <3> QED BY <3>1
  <2>3. OnlyNew({u})
    BY <2>1, ChangeLeaves
  <2>4. \A c \in DOMAIN u.columns : u.columns[c] = "text"
    BY <1>3, <1>4, <2>2 DEF NewTable, MadeForIt, Fresh
  <2>5. TablesFit'
    BY <2>3, <2>4, TextFits, FitStays DEF CellsInv
  <2>6. PICK j : /\ importing' = {j} /\ DOMAIN j = {"step", "file", "name", "tables", "retry", "names"}
                 /\ j.step = "finish" /\ j.tables = Import.tables /\ j.file = Import.file
                 /\ j.name = Import.name /\ j.retry = Import.retry /\ j.names = Import.names
    BY <1>1, <1>6, StepIs
  <2>7. \A x \in {u} : x.oid \in j.tables => Fresh(x, j.step)
    BY <2>4, <2>6 DEF Fresh
  <2>8. /\ \A p \in patch : p.oid \notin j.tables
        /\ \A other \in DOMAIN catalog : catalog[other].oid \in j.tables => catalog[other].oid \in i.tables
        /\ ~j.retry => j.tables = IF j.step = "create" THEN {} ELSE {Max(j.tables)}
    BY <1>3, <2>6 DEF MadeForIt
  <2>9. ImportsAlone'
    <3>1. GoesOn(i, j, {u})
      BY <1>3, <2>6, <2>7, <2>8 DEF GoesOn
    <3> QED BY <1>3, <2>3, <2>6, <3>1, AloneMoves
  <2> QED BY <1>2, <2>5, <2>9 DEF CellsInv
<1> QED BY <1>4, <1>5, <1>6

\* A table is dropped, and the import tried again.
LEMMA DropTableLeaves ==
    ASSUME ImportInv, CellsInv, DropTable
    PROVE  CellsInv'
<1>1. /\ importing # Idle /\ UNCHANGED aside /\ Import \in importing /\ ImportOK(Import) /\ Import.step = "drop"
      /\ CatalogOK
  BY TheImport DEF ImportInv, DropTable
<1>2. TypesOffered'
  BY <1>1, TypesStay DEF CellsInv, aside, inference
<1> PICK i : i = Import
  OBVIOUS
<1>3. MadeForIt(i) /\ patch' = patch /\ i.step = "drop"
  BY <1>1 DEF CellsInv, ImportsAlone, aside
<1>4. CASE Import.name \in DOMAIN catalog
  <2> PICK fields : fields = [step |-> "create", retry |-> TRUE, names |-> AlternateColumnNames(Import.names)]
    OBVIOUS
  <2>1. DOMAIN fields = {"step", "retry", "names"} /\ fields["step"] = "create" /\ fields["retry"] = TRUE
    OBVIOUS
  <2>2. catalog' = Without(catalog, Import.name) /\ Set(fields)
    BY <1>4 DEF DropTable
  <2>3. OnlyNew({})
    BY <2>2, DropLeaves
  <2>4. TablesFit'
    BY <2>3, FitStays DEF CellsInv
  <2>5. PICK j : /\ importing' = {j} /\ DOMAIN j = DOMAIN Import
                 /\ \A f \in DOMAIN Import : j[f] = IF f \in DOMAIN fields THEN fields[f] ELSE Import[f]
    BY <2>2, SetIs
  <2>6. j.step = "create" /\ j.tables = i.tables /\ j.retry = TRUE
    BY <1>1, <2>1, <2>5 DEF ImportOK
  <2>7. /\ \A p \in patch : p.oid \notin j.tables
        /\ \A other \in DOMAIN catalog : catalog[other].oid \in j.tables => catalog[other].oid \in i.tables
    BY <1>3, <2>6 DEF MadeForIt
  <2>8. ImportsAlone'
    <3>1. GoesOn(i, j, {})
      BY <1>3, <2>6, <2>7 DEF GoesOn
    <3> QED BY <1>3, <2>3, <2>5, <3>1, AloneMoves
  <2> QED BY <1>2, <2>4, <2>8 DEF CellsInv
<1>5. CASE Import.name \notin DOMAIN catalog
  <2>1. catalog' = catalog /\ importing' = Idle
    BY <1>5 DEF DropTable, Fail
  <2>2. OnlyNew({})
    BY <2>1 DEF OnlyNew
  <2>3. TablesFit'
    BY <2>2, FitStays DEF CellsInv
  <2> QED BY <1>2, <2>1, <2>3, NoneAlone DEF CellsInv
<1> QED BY <1>4, <1>5

\* The import has ended well.
LEMMA FinishImportLeaves ==
    ASSUME ImportInv, CellsInv, FinishImport
    PROVE  CellsInv'
<1>1. importing' = Idle /\ UNCHANGED <<catalog, inference, patch>>
  BY DEF FinishImport
<1>2. OnlyNew({})
  BY <1>1 DEF OnlyNew
<1>3. TablesFit' /\ TypesOffered'
  BY <1>1, <1>2, FitStays, TypesStay DEF CellsInv, inference
<1> QED BY <1>1, <1>3, NoneAlone DEF CellsInv

\* The import of RPC makes a table of text.
LEMMA ImportCsvLeaves ==
    ASSUME ImportInv, CellsInv, ImportCsv
    PROVE  CellsInv'
<1>1. importing = Idle /\ importing' = Idle /\ UNCHANGED <<inference, patch>>
  BY DEF ImportCsv
<1>2. PICK file, names, t :
        /\ t = [oid |-> made + 1, next |-> 1, rows |-> <<>>, columns |-> [c \in ToSet(names) |-> "text"]]
        /\ catalog' = Put(catalog, AddMathesarTable(BaseName, DOMAIN catalog), InsertRecords(t, file, names))
  BY DEF ImportCsv
<1> PICK u : u = InsertRecords(t, file, names)
  OBVIOUS
<1>3. DOMAIN t = {"oid", "next", "rows", "columns"} /\ \A c \in DOMAIN t.columns : t.columns[c] = "text"
  BY <1>2
<1>4. u.columns = t.columns
  BY <1>3 DEF InsertRecords
<1>5. TypesFit(u)
  BY <1>3, <1>4, TextFits
<1>6. OnlyNew({u})
  BY <1>2, PutLeaves
<1>7. TablesFit' /\ TypesOffered'
  BY <1>1, <1>5, <1>6, FitStays, TypesStay DEF CellsInv, inference
<1> QED BY <1>1, <1>7, NoneAlone DEF CellsInv

\* A file is uploaded, or its header switched.
LEMMA FilesLeave ==
    ASSUME CellsInv, UNCHANGED <<catalog, importing, temps, suggestions, patch>>
    PROVE  CellsInv'
<1>1. OnlyNew({})
  BY DEF OnlyNew
<1>2. TablesFit' /\ TypesOffered'
  BY <1>1, FitStays, TypesStay DEF CellsInv
<1>3. ImportsAlone'
  BY DEF CellsInv, ImportsAlone, MadeForIt, Fresh
<1> QED BY <1>2, <1>3 DEF CellsInv

\* Types of copies and of suggestions.
LEMMA TypesMove ==
    ASSUME CellsInv, UNCHANGED beside,
           \A name \in DOMAIN temps' : AreOffered(temps'[name].table.columns) /\ AreOffered(temps'[name].types),
           \A s \in suggestions' : AreOffered(s.types)
    PROVE  CellsInv'
<1>1. UNCHANGED <<catalog, importing, patch>>
  BY DEF beside
<1>2. OnlyNew({})
  BY <1>1 DEF OnlyNew
<1>3. TablesFit'
  BY <1>2, FitStays DEF CellsInv
<1>4. ImportsAlone'
  BY <1>1 DEF CellsInv, ImportsAlone, MadeForIt, Fresh
<1>5. TypesOffered'
  BY <1>1 DEF CellsInv, TypesOffered, AreOffered
<1> QED BY <1>3, <1>4, <1>5 DEF CellsInv

\* A table is copied.
LEMMA CreateTableAsLeaves ==
    ASSUME ImportInv, CellsInv, NEW r \in Requests, CreateTableAs(r)
    PROVE  CellsInv'
<1>1. UNCHANGED <<suggestions, beside>> /\ requests[r].step = "copy" /\ TypesOffered /\ TablesFit
  BY DEF CreateTableAs, CellsInv
<1> PICK n : n = requests[r].temp
  OBVIOUS
<1>2. CASE temps' = temps
  BY <1>1, <1>2, TypesMove DEF TypesOffered
<1>3. CASE temps' = Put(temps, n, [owner |-> r, table |-> TableOf(requests[r].oid), types |-> <<>>])
  <2> PICK oid : oid = requests[r].oid
    OBVIOUS
  <2> PICK copy : copy = [owner |-> r, table |-> TableOf(oid), types |-> <<>>]
    OBVIOUS
  <2>1. copy.table = TableOf(oid) /\ DOMAIN copy.types = {}
    OBVIOUS
  <2>2. oid \in Oids /\ CatalogOK
    BY <1>1 DEF RequestsOK, ImportInv, ImportedOK
  <2>3. NameOf(oid) \in DOMAIN catalog
    BY <2>2, TableIsThere
  <2>4. AreOffered(copy.table.columns) /\ AreOffered(copy.types)
    BY <1>1, <2>1, <2>3 DEF TableOf, TablesFit, TypesFit, AreOffered
  <2>5. IsPut(temps', temps, n, copy)
    BY <1>3, PutIs
  <2>6. \A name \in DOMAIN temps' : AreOffered(temps'[name].table.columns) /\ AreOffered(temps'[name].types)
    BY <1>1, <2>4, <2>5 DEF IsPut, TypesOffered
  <2> QED BY <1>1, <2>6, TypesMove DEF TypesOffered
<1> QED BY <1>2, <1>3 DEF CreateTableAs

\* A type that is inferred is one that casts are offered to.
LEMMA InferredIsOffered ==
    ASSUME NEW type \in OfferedTargets, NEW cells
    PROVE  InferColumnType(zone, type, cells) \in OfferedTargets
<1> PICK fits : fits = {i \in DOMAIN TypeInferenceDag : CastsAll(zone, type, TypeInferenceDag[i], cells)}
  OBVIOUS
<1> PICK new : new = InferColumnType(zone, type, cells)
  OBVIOUS
<1>1. new = type \/ (fits # {} /\ new = TypeInferenceDag[CHOOSE i \in fits : \A j \in fits : i <= j])
  BY DEF InferColumnType
<1>2. Inferred \subseteq OfferedTargets
  BY InferredAreOffered DEF Inferred
<1>3. CASE fits # {} /\ new = TypeInferenceDag[CHOOSE i \in fits : \A j \in fits : i <= j]
  <2>1. TypeInferenceDag \in Seq(Inferred)
    BY InferredAreKnown
  <2>2. fits \in SUBSET Nat
    BY <2>1
  <2>3. \E i \in fits : \A j \in fits : i <= j
    BY <1>3, <2>2, SmallestIsThere
  <2>4. PICK i \in fits : new = TypeInferenceDag[i]
    BY <1>3, <2>3
  <2>5. i \in DOMAIN TypeInferenceDag
    BY <2>4
  <2>6. new \in Inferred
    BY <2>1, <2>4, <2>5
  <2> QED BY <1>2, <2>6
<1> QED BY <1>1, <1>3

\* The type of a column is found.
LEMMA InferColumnLeaves ==
    ASSUME ImportInv, CellsInv, NEW r \in Requests, InferColumn(r)
    PROVE  CellsInv'
<1>1. UNCHANGED <<suggestions, beside>> /\ requests[r].step = "infer" /\ TypesOffered
  BY DEF InferColumn, CellsInv
<1> PICK n : n = requests[r].temp
  OBVIOUS
<1> PICK copy : copy = temps[n]
  OBVIOUS
<1>2. n \in DOMAIN temps /\ DOMAIN copy = {"owner", "table", "types"}
  BY <1>1 DEF ImportInv, Owned, TempsOK, CopyOK
<1>3. PICK c \in DOMAIN copy.table.columns \ DOMAIN copy.types :
        temps' = [temps EXCEPT ![n].types = Put(@, c, InferColumnType(zone, copy.table.columns[c], Cells(copy.table, c)))]
  BY DEF InferColumn
<1> PICK new : new = InferColumnType(zone, copy.table.columns[c], Cells(copy.table, c))
  OBVIOUS
<1> PICK types : types = Put(copy.types, c, new)
  OBVIOUS
<1> PICK now : now = [copy EXCEPT !.types = types]
  OBVIOUS
<1>4. temps' = [temps EXCEPT ![n] = now]
  BY <1>3
<1>5. now.table = copy.table /\ now.types = types
  BY <1>2
<1>6. AreOffered(copy.table.columns) /\ AreOffered(copy.types)
  BY <1>1, <1>2 DEF TypesOffered
<1>7. new \in OfferedTargets
  BY <1>3, <1>6, InferredIsOffered DEF AreOffered
<1>8. IsPut(types, copy.types, c, new)
  BY PutIs
<1>9. AreOffered(types)
  <2>1. DOMAIN types = DOMAIN copy.types \union {c} /\ types[c] = new /\ \A x \in DOMAIN copy.types : types[x] = copy.types[x]
    BY <1>3, <1>8 DEF IsPut
  <2>2. \A x \in DOMAIN copy.types : copy.types[x] \in OfferedTargets
    BY <1>6 DEF AreOffered
  <2>3. \A x \in DOMAIN types : types[x] \in OfferedTargets
    BY ONLY <1>7, <2>1, <2>2
  <2> QED BY <2>3 DEF AreOffered
<1>10. DOMAIN temps' = DOMAIN temps /\ temps'[n] = now /\ \A name \in DOMAIN temps \ {n} : temps'[name] = temps[name]
  BY <1>2, <1>4
<1>11. \A name \in DOMAIN temps' : AreOffered(temps'[name].table.columns) /\ AreOffered(temps'[name].types)
  <2>1. ASSUME NEW name \in DOMAIN temps'
        PROVE  AreOffered(temps'[name].table.columns) /\ AreOffered(temps'[name].types)
    <3>1. CASE name = n
      BY <1>5, <1>6, <1>9, <1>10, <3>1
    <3>2. CASE name # n
      BY <1>1, <1>10, <2>1, <3>2 DEF TypesOffered
    <3> QED BY <3>1, <3>2
  <2> QED BY <2>1
<1> QED BY <1>1, <1>11, TypesMove DEF TypesOffered

\* The types found are suggested.
LEMMA FinishInferenceLeaves ==
    ASSUME ImportInv, CellsInv, NEW r \in Requests, FinishInference(r)
    PROVE  CellsInv'
<1> PICK copy : copy = temps[requests[r].temp]
  OBVIOUS
<1>1. /\ UNCHANGED beside /\ requests[r].step = "infer" /\ TypesOffered
      /\ temps' = Without(temps, requests[r].temp)
      /\ suggestions' = suggestions \union {[seen |-> copy.table, types |-> copy.types]}
  BY DEF FinishInference, CellsInv
<1>2. requests[r].temp \in DOMAIN temps
  BY <1>1 DEF ImportInv, Owned
<1>3. AreOffered(copy.types)
  BY <1>1, <1>2 DEF TypesOffered
<1>4. \A s \in suggestions' : AreOffered(s.types)
  BY <1>1, <1>3 DEF TypesOffered
<1>5. \A name \in DOMAIN temps' : AreOffered(temps'[name].table.columns) /\ AreOffered(temps'[name].types)
  BY <1>1 DEF TypesOffered, Without
<1> QED BY <1>1, <1>4, <1>5, TypesMove

\* The other steps of requests leave no types.
LEMMA RequestsLeave ==
    ASSUME CellsInv, NEW r \in Requests,
           BeginInference(r) \/ StopWaiting(r) \/ InferenceFails(r) \/ ServerStops(r)
    PROVE  CellsInv'
<1>1. UNCHANGED <<suggestions, beside>> /\ TypesOffered
  BY DEF BeginInference, StopWaiting, InferenceFails, ServerStops, CellsInv
<1>2. temps' = temps \/ temps' = Without(temps, requests[r].temp)
  BY DEF BeginInference, StopWaiting, InferenceFails, ServerStops
<1>3. \A name \in DOMAIN temps' : name \in DOMAIN temps /\ temps'[name] = temps[name]
  BY <1>2 DEF Without
<1> QED BY <1>1, <1>3, TypesMove DEF TypesOffered

\* A change asks for types that casts are offered to.
LEMMA ChangesOffered ==
    ASSUME CellsInv, NEW name \in DOMAIN catalog, NEW change \in Changes(catalog[name])
    PROVE  AreOffered(change.types)
<1> PICK t : t = catalog[name]
  OBVIOUS
<1>1. CASE change.types \in UNION {{Single(c, type) : type \in Targets \intersect FullCastMap[t.columns[c]]} :
                                       c \in DOMAIN t.columns}
  <2>1. PICK c \in DOMAIN t.columns : change.types \in {Single(c, type) : type \in Targets \intersect FullCastMap[t.columns[c]]}
    BY <1>1
  <2>2. PICK type \in FullCastMap[t.columns[c]] : change.types = Single(c, type)
    BY <2>1
  <2>3. t.columns[c] \in OfferedTargets
    BY <2>1 DEF CellsInv, TablesFit, TypesFit
  <2>4. type \in OfferedTargets
    BY <2>2, <2>3, OfferedHaveCasts
  <2> QED BY <2>2, <2>4 DEF AreOffered, Single
<1>2. CASE change.types = <<>>
  BY <1>2 DEF AreOffered
<1>3. CASE \E s \in suggestions : change.types = s.types
  BY <1>3 DEF CellsInv, TypesOffered
<1>4. \/ change.types \in UNION {{Single(c, type) : type \in Targets \intersect FullCastMap[t.columns[c]]} :
                                      c \in DOMAIN t.columns}
      \/ change.types = <<>>
      \/ \E s \in suggestions : change.types = s.types
      \/ change.types \in {types \in [DOMAIN t.columns -> Together] :
                                 \A c \in DOMAIN types : types[c] \in FullCastMap[t.columns[c]]}
  <2>1. CASE change \in [newName : {{}},
                         types : UNION {{Single(c, type) : type \in Targets \intersect FullCastMap[t.columns[c]]} :
                                            c \in DOMAIN t.columns}]
    BY <2>1
  <2>2. CASE change \in [newName : {{OtherName}},
                         types : {<<>>} \union {s.types : s \in {s \in suggestions : s.seen.oid = t.oid}}]
    BY <2>2
  <2>3. CASE change \in [newName : {{}}, types : {types \in [DOMAIN t.columns -> Together] :
                            \A c \in DOMAIN types : types[c] \in FullCastMap[t.columns[c]]}]
    BY <2>3
  <2> QED BY <2>1, <2>2, <2>3 DEF Changes
<1>5. CASE change.types \in {types \in [DOMAIN t.columns -> Together] :
                                 \A c \in DOMAIN types : types[c] \in FullCastMap[t.columns[c]]}
  <2>1. ASSUME NEW c \in DOMAIN change.types
        PROVE  change.types[c] \in OfferedTargets
    <3>1. c \in DOMAIN t.columns /\ change.types[c] \in FullCastMap[t.columns[c]]
      BY <1>5
    <3>2. t.columns[c] \in OfferedTargets
      BY <3>1 DEF CellsInv, TablesFit, TypesFit
    <3> QED BY <3>1, <3>2, OfferedHaveCasts
  <2> QED BY <2>1 DEF AreOffered
<1> QED BY <1>1, <1>2, <1>3, <1>4, <1>5

\* A change begins, of a table that no import is at work on.
LEMMA StartPatchLeaves ==
    ASSUME ImportInv, CellsInv, StartPatch
    PROVE  CellsInv'
<1>1. PICK name \in DOMAIN catalog :
        /\ Free(catalog[name].oid)
        /\ \E change \in Changes(catalog[name]) :
             patch' = {[step |-> "rename", oid |-> catalog[name].oid, name |-> name,
                        newName |-> change.newName, types |-> change.types]}
  BY DEF StartPatch
<1> PICK change \in Changes(catalog[name]) :
      patch' = {[step |-> "rename", oid |-> catalog[name].oid, name |-> name,
                 newName |-> change.newName, types |-> change.types]}
  BY <1>1
<1> PICK p : p = [step |-> "rename", oid |-> catalog[name].oid, name |-> name,
                  newName |-> change.newName, types |-> change.types]
  OBVIOUS
<1>2. patch' = {p} /\ p.oid = catalog[name].oid /\ p.types = change.types
  OBVIOUS
<1>3. UNCHANGED <<catalog, importing, inference>> /\ TypesOffered
  BY DEF StartPatch, CellsInv
<1>4. AreOffered(p.types)
  BY <1>2, ChangesOffered
<1>5. TypesOffered'
  BY <1>2, <1>3, <1>4 DEF TypesOffered, AreOffered, inference
<1>6. OnlyNew({})
  BY <1>3 DEF OnlyNew
<1>7. TablesFit'
  BY <1>6, FitStays DEF CellsInv
<1>8. ImportsAlone'
  BY <1>1, <1>2, <1>3, <1>6, AloneStays DEF CellsInv, Free
<1> QED BY <1>5, <1>7, <1>8 DEF CellsInv

\* What others do to tables.
LEMMA OthersLeave ==
    ASSUME CellsInv, NEW U, OnlyNew(U), \A u \in U : TypesFit(u), \A u \in U, i \in importing : u.oid \notin i.tables,
           UNCHANGED <<importing, temps, suggestions>>, \A p \in patch' : \E q \in patch : p.oid = q.oid /\ p.types = q.types
    PROVE  CellsInv'
<1>1. TablesFit'
  BY FitStays DEF CellsInv
<1>2. TypesOffered'
  BY DEF CellsInv, TypesOffered, AreOffered
<1>3. ImportsAlone'
  <2>1. \A p \in patch', i \in importing : p.oid \notin i.tables
    BY DEF CellsInv, ImportsAlone, MadeForIt
  <2> QED BY <2>1, AloneStays DEF CellsInv
<1> QED BY <1>1, <1>2, <1>3 DEF CellsInv

\* The table is renamed.
LEMMA PatchNameLeaves ==
    ASSUME ImportInv, CellsInv, PatchName
    PROVE  CellsInv'
<1>1. UNCHANGED <<importing, inference>> /\ PatchOK /\ Patch \in patch
  BY ThePatch DEF ImportInv, PatchName
<1> PICK p : p = Patch
  OBVIOUS
<1> PICK newName : newName = p.newName \ {p.name}
  OBVIOUS
<1>2. \/ patch' = Idle /\ catalog' = catalog
      \/ /\ newName = {} /\ catalog' = catalog /\ patch' = {[p EXCEPT !.step = "columns"]}
      \/ /\ newName # {} /\ p.name \in DOMAIN catalog
         /\ RenameTable(p.name, The(newName)) /\ patch' = {[p EXCEPT !.step = "columns"]}
  BY DEF PatchName
<1>3. OnlyNew({})
  <2>1. CASE catalog' = catalog
    BY <2>1 DEF OnlyNew
  <2>2. CASE p.name \in DOMAIN catalog /\ RenameTable(p.name, The(newName))
    BY <2>2, RenameLeaves
  <2> QED BY <1>2, <2>1, <2>2
<1>4. \A x \in patch' : \E y \in patch : x.oid = y.oid /\ x.types = y.types
  <2> PICK q : q = [p EXCEPT !.step = "columns"]
    OBVIOUS
  <2>1. q.oid = p.oid /\ q.types = p.types
    BY <1>1 DEF PatchOK
  <2> QED BY <1>1, <1>2, <2>1 DEF Idle
<1> QED BY <1>1, <1>3, <1>4, OthersLeave DEF inference

\* Values cast to a type are what it takes.
LEMMA AlteredFits ==
    ASSUME NEW t, TableOK(t), TypesFit(t), NEW types, AreOffered(types), DOMAIN types \subseteq DOMAIN t.columns,
           NEW order, CanAlter(t, types, order), NEW u, u = AlterColumns(t, types, order)
    PROVE  TypesFit(u)
<1> DEFINE cells(i) == [c \in DOMAIN t.columns |-> The(Altered(t, types, order, i, c))]
<1> PICK columns : columns = types ++ t.columns
  OBVIOUS
<1> PICK changed : changed = [i \in DOMAIN t.rows |-> [t.rows[i] EXCEPT !.cells = cells(i)]]
  OBVIOUS
<1>1. u = [t EXCEPT !.columns = columns, !.rows = changed]
  BY DEF AlterColumns
<1>2. DOMAIN t = {"oid", "next", "rows", "columns"}
  BY DEF TableOK
<1>3. u.columns = columns /\ u.rows = changed
  BY <1>1, <1>2
<1>4. DOMAIN columns = DOMAIN t.columns
  BY DEF ++
<1>5. \A c \in DOMAIN columns : columns[c] = IF c \in DOMAIN types THEN types[c] ELSE t.columns[c]
  BY DEF ++
<1>6. \A i \in DOMAIN t.rows : changed[i].cells = cells(i)
  BY DEF TableOK
<1>7. ASSUME NEW c \in DOMAIN columns
      PROVE  columns[c] \in OfferedTargets
  BY <1>4, <1>5 DEF TypesFit, AreOffered
<1>8. ASSUME NEW c \in DOMAIN columns, columns[c] = "uri", NEW i \in DOMAIN t.rows
      PROVE  changed[i].cells[c] \in WithScheme \union {Null}
  <2> PICK x : x = t.rows[i].cells[c]
    OBVIOUS
  <2>1. changed[i].cells[c] = The(Altered(t, types, order, i, c))
    BY <1>4, <1>6, <1>8
  <2>2. CASE c \in DOMAIN types
    <3> PICK z : z = ZoneAt(t, types, order, i, c)
      OBVIOUS
    <3> PICK S : S = Cast(z, t.columns[c], "uri", x)
      OBVIOUS
    <3>1. types[c] = "uri"
      BY <1>5, <1>8, <2>2
    <3>2. Altered(t, types, order, i, c) = S
      BY <2>2, <3>1 DEF Altered
    <3>3. HasFunction(t.columns[c], "uri") /\ S # {}
      BY <1>8, <2>2, <3>1, <3>2 DEF CanAlter
    <3>4. S \subseteq WithScheme \union {Null}
      BY <3>3, UrisHaveSchemes
    <3>5. The(S) \in S
      BY <3>3 DEF The
    <3>6. changed[i].cells[c] = The(S)
      BY <2>1, <3>2
    <3> QED BY <3>4, <3>5, <3>6
  <2>3. CASE c \notin DOMAIN types
    <3>1. t.columns[c] = "uri" /\ c \in DOMAIN t.columns
      BY <1>4, <1>5, <1>8, <2>3
    <3>2. changed[i].cells[c] = x
      BY <2>1, <2>3 DEF Altered, The
    <3> QED BY <3>1, <3>2 DEF TypesFit
  <2> QED BY <2>2, <2>3
<1>9. DOMAIN changed = DOMAIN t.rows
  OBVIOUS
<1> QED BY <1>3, <1>7, <1>8, <1>9 DEF TypesFit

\* The columns of a table are changed.
LEMMA PatchColumnsLeaves ==
    ASSUME ImportInv, CellsInv, PatchColumns
    PROVE  CellsInv'
<1>1. /\ UNCHANGED <<importing, inference>> /\ patch' = Idle /\ CatalogOK /\ PatchOK /\ Patch \in patch
      /\ TablesFit /\ TypesOffered /\ ImportsAlone
  BY ThePatch DEF ImportInv, PatchColumns, CellsInv
<1> PICK p : p = Patch
  OBVIOUS
<1> PICK t : t = TableOf(p.oid)
  OBVIOUS
<1>2. CASE catalog' = catalog
  <2>1. OnlyNew({})
    BY <1>2 DEF OnlyNew
  <2> QED BY <1>1, <2>1, OthersLeave DEF Idle, inference
<1>3. ASSUME NEW order, p.oid \in Oids, CanAlter(t, p.types, order),
             catalog' = [catalog EXCEPT ![NameOf(p.oid)] = AlterColumns(@, p.types, order)]
      PROVE  CellsInv'
  <2> PICK oid : oid = p.oid
    OBVIOUS
  <2> PICK name : name = NameOf(oid)
    OBVIOUS
  <2> PICK types : types = p.types
    OBVIOUS
  <2>1. name \in DOMAIN catalog /\ catalog[name].oid = oid /\ catalog[name] = t
    BY <1>1, <1>3, TableIsThere DEF TableOf
  <2> PICK u : u = AlterColumns(t, types, order)
    OBVIOUS
  <2>2. TableOK(t) /\ TypesFit(t) /\ AreOffered(types)
    BY <1>1, <2>1 DEF CatalogOK, TablesFit, TypesOffered
  <2>3. DOMAIN types \subseteq DOMAIN t.columns /\ \A c \in DOMAIN types : types[c] \in KnownDbTypes
    BY <1>1, <2>1 DEF PatchOK, HasAtLeast
  <2>4. TypesFit(u)
    BY <1>3, <2>2, <2>3, AlteredFits
  <2>5. u.oid = oid
    BY <2>1, <2>2, <2>3, AlteredOK
  <2>6. OnlyNew({u})
    BY <1>3, <2>1, ChangeLeaves
  <2>7. \A i \in importing : u.oid \notin i.tables
    BY <1>1, <2>5 DEF ImportsAlone, MadeForIt
  <2> QED BY <1>1, <2>4, <2>6, <2>7, OthersLeave DEF Idle, inference
<1> QED BY <1>2, <1>3 DEF PatchColumns

\* Others make, rename and fill tables of their own.
LEMMA OthersStepsLeave ==
    ASSUME ImportInv, CellsInv, OtherCreates \/ OtherRenames \/ OtherAddsRow
    PROVE  CellsInv'
<1>1. UNCHANGED <<importing, inference, patch>> /\ CatalogOK /\ ImportsOK /\ TablesFit
  BY DEF OtherCreates, OtherRenames, OtherAddsRow, Others, ImportInv, CellsInv
<1>2. \A p \in patch' : \E q \in patch : p.oid = q.oid /\ p.types = q.types
  BY <1>1
<1>3. CASE OtherCreates
  <2> PICK t : t = [oid |-> made + 1, columns |-> <<>>, rows |-> <<>>, next |-> 1]
    OBVIOUS
  <2>1. t.oid = made + 1 /\ DOMAIN t.columns = {}
    OBVIOUS
  <2>2. OnlyNew({t}) /\ TypesFit(t)
    BY <1>3, <2>1, PutLeaves DEF OtherCreates, TypesFit
  <2>3. \A i \in importing : t.oid \notin i.tables
    BY <1>1, <2>1 DEF ImportsOK, ImportOK, CatalogOK
  <2> QED BY <1>1, <1>2, <2>2, <2>3, OthersLeave DEF inference
<1>4. CASE OtherRenames
  <2>1. OnlyNew({})
    BY <1>4, RenameLeaves DEF OtherRenames
  <2> QED BY <1>1, <1>2, <2>1, OthersLeave DEF inference
<1>5. CASE OtherAddsRow
  <2>1. PICK name \in DOMAIN catalog, x \in AddedText :
          Free(catalog[name].oid) /\ catalog' = [catalog EXCEPT ![name] = WithRow(@, x)]
    BY <1>5 DEF OtherAddsRow
  <2> PICK t : t = catalog[name]
    OBVIOUS
  <2> PICK row : row = [id |-> t.next, cells |-> [c \in DOMAIN t.columns |-> IF t.columns[c] = "text" THEN x ELSE Null]]
    OBVIOUS
  <2> PICK old : old = t.rows
    OBVIOUS
  <2> PICK rows : rows = Append(old, row)
    OBVIOUS
  <2> PICK u : u = WithRow(t, x)
    OBVIOUS
  <2>2. TableOK(t) /\ TypesFit(t) /\ DOMAIN t = {"oid", "next", "rows", "columns"} /\ IsTuple(old)
    BY <1>1, <2>1 DEF CatalogOK, TablesFit, TableOK
  <2>3. u.oid = t.oid /\ u.rows = rows /\ u.columns = t.columns
    BY <2>2 DEF WithRow
  <2>4. ASSUME NEW i \in DOMAIN rows
        PROVE  rows[i] = row \/ (i \in DOMAIN old /\ rows[i] = old[i])
    <3>1. DOMAIN rows = 1 .. Len(old) + 1 /\ rows[Len(old) + 1] = row
      BY <2>2, AppendIsTuple
    <3>2. \A k \in DOMAIN old : rows[k] = old[k]
      BY <2>2, AppendIsTuple
    <3>3. Len(old) \in Nat /\ DOMAIN old = 1 .. Len(old)
      BY <2>2, TupleIsSeq
    <3> QED BY <2>4, <3>1, <3>2, <3>3
  <2>5. \A c \in DOMAIN t.columns : t.columns[c] = "uri" => row.cells[c] = Null
    OBVIOUS
  <2>6. TypesFit(u)
    BY <2>2, <2>3, <2>4, <2>5 DEF TypesFit
  <2>7. OnlyNew({u})
    BY <2>1, ChangeLeaves
  <2>8. \A i \in importing : u.oid \notin i.tables
    BY <2>1, <2>3 DEF Free
  <2> QED BY <1>1, <1>2, <2>6, <2>7, <2>8, OthersLeave DEF inference
<1> QED BY <1>3, <1>4, <1>5

\* No step breaks it.
LEMMA NextCells ==
    ASSUME ImportInv, CellsInv, [Next]_vars
    PROVE  CellsInv'
<1>1. CASE UNCHANGED vars
  BY <1>1, FilesLeave DEF vars, inference
<1>2. CASE CreateDataFile \/ PatchHeader
  BY <1>2, FilesLeave DEF CreateDataFile, PatchHeader, inference
<1>3. CASE StartImport \/ CreateTable \/ Fill \/ UpdatePkSequenceToLatest \/ DropTable \/ FinishImport \/ ImportCsv
  BY <1>3, StartImportLeaves, CreateTableLeaves, FillLeaves, UpdatePkSequenceLeaves, DropTableLeaves,
     FinishImportLeaves, ImportCsvLeaves
<1>4. ASSUME NEW r \in Requests,
             \/ BeginInference(r) \/ StopWaiting(r) \/ CreateTableAs(r) \/ InferColumn(r)
             \/ FinishInference(r) \/ InferenceFails(r) \/ ServerStops(r)
      PROVE  CellsInv'
  BY <1>4, CreateTableAsLeaves, InferColumnLeaves, FinishInferenceLeaves, RequestsLeave
<1>5. CASE Tick
  BY <1>5, FilesLeave DEF Tick, beside
<1>6. CASE StartPatch \/ PatchName \/ PatchColumns
  BY <1>6, StartPatchLeaves, PatchNameLeaves, PatchColumnsLeaves
<1>7. CASE OtherCreates \/ OtherRenames \/ OtherAddsRow
  BY <1>7, OthersStepsLeave
<1> QED BY <1>1, <1>2, <1>3, <1>4, <1>5, <1>6, <1>7 DEF Next

\* Columns fit, and imports are left alone, throughout.
LEMMA CellsInvHolds == Spec => []CellsInv
<1>1. Init => CellsInv
  BY DEF Init, CellsInv, TablesFit, TypesOffered, ImportsAlone, Idle
<1>2. ImportInv /\ CellsInv /\ [Next]_vars => CellsInv'
  BY NextCells
<1> QED BY <1>1, <1>2, ImportInvHolds, PTL DEF Spec

\* A preview shows what the change will do to a cell.
LEMMA PreviewAgrees ==
    ASSUME CatalogOK, TablesFit, NEW t \in Tables, NEW c \in DOMAIN t.columns,
           NEW target \in Targets \intersect FullCastMap[t.columns[c]], NEW z, NEW x \in Cells(t, c)
    PROVE  ColumnCast(z, t.columns[c], target, x) = Cast(z, t.columns[c], target, x)
<1>1. PICK name \in DOMAIN catalog : t = catalog[name]
  BY DEF Tables
<1>2. TableOK(t) /\ TypesFit(t)
  BY <1>1 DEF CatalogOK, TablesFit
<1> PICK type : type = t.columns[c]
  OBVIOUS
<1>3. type \in OfferedTargets
  BY <1>2 DEF TypesFit
<1>4. PICK i \in DOMAIN t.rows : x = t.rows[i].cells[c]
  BY DEF Cells, ToSet
<1>5. type = "uri" => x \in WithScheme \union {Null}
  BY <1>2, <1>4 DEF TypesFit
<1>6. Cast(z, type, type, x) = {x}
  BY <1>3, <1>5, CastToItself
<1>7. CASE type = target
  BY <1>6, <1>7 DEF ColumnCast
<1>8. CASE type # target
  BY <1>8 DEF ColumnCast
<1> QED BY <1>7, <1>8

\* Every type offered for a column has a function that casts the column's type to it, and
\* the previews and the change itself agree on every cell whose turn comes in the same zone,
\* for all tables that imports, requests for types, changes and other users make.
\* (cast.py: the map of offered casts is not the maps the functions are made from;
\* get_column_cast_expression; msar.get_preview)
THEOREM PromisedCastsWorkHolds == Spec => []PromisedCastsWork
<1>1. ASSUME CatalogOK, TablesFit, NEW t \in Tables, NEW c \in DOMAIN t.columns, NEW target \in FullCastMap[t.columns[c]]
      PROVE  HasFunction(t.columns[c], target)
  <2>1. PICK name \in DOMAIN catalog : t = catalog[name]
    BY <1>1 DEF Tables
  <2> PICK type : type = t.columns[c]
    OBVIOUS
  <2>2. type \in OfferedTargets
    BY <1>1, <2>1 DEF TablesFit, TypesFit
  <2>3. target \in OfferedTargets /\ type \in OfferedSources(target)
    BY <1>1, <2>2, OfferedHaveCasts
  <2> QED BY <2>3, OfferedHasFunction
<1>2. ImportInv /\ CellsInv => PreviewsAgree
  BY PreviewAgrees DEF ImportInv, CellsInv, PreviewsAgree
<1>3. ImportInv /\ CellsInv => PromisedCastsWork
  BY <1>1, <1>2 DEF ImportInv, CellsInv, PromisedCastsWork
<1> QED BY <1>3, ImportInvHolds, CellsInvHolds, PTL

\* An import fails where it has put no rows into its tables, or in moving the sequence of
\* its only one.
LEMMA FailsEmpty ==
    ASSUME ImportInv, CellsInv, Next, NEW oid \in (failed' \ failed) \intersect Oids'
    PROVE  \/ TableOf(oid)'.rows = <<>>
           \/ \E row \in ToSet(TableOf(oid)'.rows) : row.id = MaxInteger
<1>1. failed' # failed
  OBVIOUS
<1>2. CreateTable \/ Fill \/ UpdatePkSequenceToLatest \/ DropTable
  BY <1>1 DEF Next, CreateDataFile, PatchHeader, StartImport, FinishImport, ImportCsv, BeginInference, StopWaiting,
     CreateTableAs, InferColumn, FinishInference, InferenceFails, ServerStops, Tick, StartPatch, PatchName,
     PatchColumns, OtherCreates, OtherRenames, OtherAddsRow, Others, beside
<1>3. importing # Idle /\ Import \in importing /\ CatalogOK /\ ImportOK(Import)
  BY <1>2, TheImport DEF CreateTable, Fill, UpdatePkSequenceToLatest, DropTable, ImportInv
<1>4. MadeForIt(Import)
  BY <1>3 DEF CellsInv, ImportsAlone
<1>5. ASSUME Fail, catalog' = catalog
      PROVE  /\ oid \in Import.tables /\ NameOf(oid) \in DOMAIN catalog /\ catalog[NameOf(oid)].oid = oid
             /\ TableOf(oid)' = catalog[NameOf(oid)]
  <2>1. oid \in Oids /\ oid \in Import.tables
    BY <1>5 DEF Fail, Oids, Tables
  <2>2. NameOf(oid) \in DOMAIN catalog /\ catalog[NameOf(oid)].oid = oid
    BY <1>3, <2>1, TableIsThere
  <2>3. TableOf(oid)' = catalog[NameOf(oid)]
    BY <1>5 DEF TableOf, NameOf
  <2> QED BY <2>1, <2>2, <2>3
<1>6. ASSUME Import.step \in {"create", "fill", "drop"}, Fail, catalog' = catalog
      PROVE  TableOf(oid)'.rows = <<>>
  BY <1>4, <1>5, <1>6 DEF MadeForIt, Fresh
<1>7. CASE CreateTable
  <2>1. Fail /\ catalog' = catalog /\ Import.step = "create"
    BY <1>1, <1>7 DEF CreateTable
  <2> QED BY <1>6, <2>1
<1>8. CASE Fill
  <2>1. Fail /\ catalog' = catalog /\ Import.step = "fill"
    BY <1>1, <1>8 DEF Fill
  <2> QED BY <1>6, <2>1
<1>9. CASE DropTable
  <2>1. Fail /\ catalog' = catalog /\ Import.step = "drop"
    BY <1>1, <1>9 DEF DropTable
  <2> QED BY <1>6, <2>1
<1>10. CASE UpdatePkSequenceToLatest
  <2>1. PICK name \in DOMAIN catalog :
          /\ catalog[name].oid \in NewTable
          /\ MaxInteger \in {0} \union {row.id : row \in ToSet(catalog[name].rows)}
          /\ Fail /\ catalog' = catalog
    BY <1>1, <1>10 DEF UpdatePkSequenceToLatest
  <2>2. Import.step = "sequence" /\ Import.tables = {Max(Import.tables)}
    BY <1>4, <1>10 DEF UpdatePkSequenceToLatest, MadeForIt
  <2>3. catalog[name].oid = oid
    BY <1>5, <2>1, <2>2 DEF NewTable
  <2>4. NameOf(oid) = name
    BY <1>3, <1>5, <2>1, <2>3 DEF CatalogOK
  <2>5. MaxInteger # 0
    BY MaxIsNatural
  <2>6. PICK row \in ToSet(catalog[name].rows) : row.id = MaxInteger
    BY <2>1, <2>5
  <2> QED BY <1>5, <2>1, <2>4, <2>6
<1> QED BY <1>2, <1>7, <1>8, <1>9, <1>10

\* An import that fails leaves no rows behind, however often it was tried and whatever
\* others do meanwhile, unless the file has the greatest id: rows and sequence are two
\* transactions.  (imports/csv.py and json.py: the except branches;
\* update_pk_sequence_to_latest)
THEOREM FailedImportsLeaveNoRows == Spec => [][NoRowsAreLeft]_vars
<1>1. ImportInv /\ CellsInv /\ [Next]_vars => [NoRowsAreLeft]_vars
  BY FailsEmpty DEF NoRowsAreLeft
<1> QED BY <1>1, ImportInvHolds, CellsInvHolds, PTL DEF Spec

=============================================================================
