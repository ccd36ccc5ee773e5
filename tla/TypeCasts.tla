-------------------------------- MODULE TypeCasts --------------------------------
(***************************************************************************)
(* The functions Mathesar installs to cast a value of one type to another,  *)
(* the casts it offers for a column, and the type it infers for a column of *)
(* text.  A value is the text the database shows for it, from a small set   *)
(* that has the texts the casts tell apart; a cast gives the set of its     *)
(* results, empty when it raises an exception.  No state.                   *)
(***************************************************************************)
EXTENDS DbTypes, Integers, Sequences, TLC, Mappings

Null == "null"
The(S) == CHOOSE x \in S : TRUE
Image(f, S) == {f[x] : x \in S \intersect DOMAIN f}

-----------------------------------------------------------------------------
\* The values.  Numbers in thousandths; their scale is left out.

NumberOf == "0" :> 0 @@ "1" :> 1000 @@ "2.5" :> 2500 @@ "2.555" :> 2555 @@ "2.56" :> 2560 @@ "3" :> 3000
            @@ "40000" :> 40000000 @@ "1000.5" :> 1000500
CurrencyOf == "$0.00" :> 0 @@ "$1.00" :> 1000 @@ "$2.50" :> 2500 @@ "$2.56" :> 2560
              @@ "$40,000.00" :> 40000000 @@ "$1,000.50" :> 1000500
NumberText(n) == CHOOSE x \in DOMAIN NumberOf : NumberOf[x] = n
CurrencyText(n) == CHOOSE x \in DOMAIN CurrencyOf : CurrencyOf[x] = n
ToCents(n) == ((n + 5) \div 10) * 10
MaxSmallint == 32767
WithCode(x) == "(" \o x \o ",USD)"

\* Moments of one day in hours from its midnight, with or without a zone, and the
\* times of a day.  A date is the day; an instant is written in UTC.
Hours == (-6)..16
ZoneHours == {0, 2}
Optional(S) == {{}} \union {{s} : s \in S}
ZoneText(z) == IF z = {} THEN "" ELSE "+" \o ToString(The(z))
MomentText(m) == "day " \o ToString(m.hour) \o "h" \o ZoneText(m.zone)
TimeText(t) == ToString(t.hour) \o "h" \o ZoneText(t.zone)
MomentOf ==
    LET moments == [hour : Hours, zone : Optional(ZoneHours)]
    IN [x \in {MomentText(m) : m \in moments} |-> CHOOSE m \in moments : MomentText(m) = x]
       ++ Single("day", [hour |-> 0, zone |-> {}])
TimeOf ==
    LET times == [hour : Hours, zone : Optional(ZoneHours)]
    IN [x \in {TimeText(t) : t \in times} |-> CHOOSE t \in times : TimeText(t) = x]
Stamp(h) == MomentText([hour |-> h, zone |-> {}])
Instant(h) == MomentText([hour |-> h, zone |-> {0}])
\* The hour in UTC, in a session whose time zone is the given number of hours ahead.
Utc(m, zone) == m.hour - (IF m.zone = {} THEN zone ELSE The(m.zone))
Within(h) == IF h \in Hours THEN {Instant(h)} ELSE {}

Spans == {"3 days"} \union {x \in DOMAIN TimeOf : TimeOf[x].zone = {}}
Emails == {"a@b.co"}
WithScheme == {"http://x.org", "http://x.org/a", "http://b.co"}
              \union DOMAIN TimeOf \union (DOMAIN MomentOf \ {"day"})  \* they have a colon
\* Texts that are a URI once a scheme is put before them and the whole put in lower
\* case, their authority ending in a top level domain.
WithoutScheme == Single("x.org", "http://x.org") ++ Single("x.org/A", "http://x.org/a")
                 ++ Single("a@b.co", "http://b.co")
JsonArrays == {"[1]"}
JsonObjects == {"{}"}
Jsons == DOMAIN NumberOf \union {"true", "false"} \union JsonArrays \union JsonObjects

Rounded(target, n) ==                \* to an integer type that has room for it
    LET rounded == ((n + 500) \div 1000) * 1000
    IN IF (target = "smallint" /\ rounded > MaxSmallint * 1000)
          \/ rounded \notin {NumberOf[x] : x \in DOMAIN NumberOf} THEN {}
       ELSE {NumberText(rounded)}

\* A text read by the input function of a type.
Input(zone, target, x) ==
    LET number == {x} \intersect DOMAIN NumberOf
        moment == Image(MomentOf, {x})
        times == Image(TimeOf, {x}) \union
                 {[hour |-> m.hour, zone |-> m.zone] : m \in {m \in moment : x # "day"}}
    IN CASE target \in StringLikeTypes -> {x}
         [] target \in IntegerTypes ->
                UNION {Rounded(target, NumberOf[y]) : y \in
                           {y \in number : NumberOf[y] % 1000 = 0}}
         [] target \in DecimalTypes \union {"numeric", "mathesar_money"} -> number
         [] target = "money" ->
                {CurrencyText(ToCents(NumberOf[y])) : y \in number}
                \union ({x} \intersect DOMAIN CurrencyOf)
         [] target = "date" -> {"day" : m \in {m \in moment : m.hour >= 0}}
         [] target = "timestamp without time zone" -> {Stamp(m.hour) : m \in moment}
         [] target = "timestamp with time zone" ->
                UNION {Within(Utc(m, zone)) : m \in moment}
         [] target = "time without time zone" ->
                {TimeText([t EXCEPT !.zone = {}]) : t \in {t \in times : t.hour >= 0}}
         [] target = "time with time zone" ->
                {TimeText([t EXCEPT !.zone = IF @ = {} THEN {zone} ELSE @]) :
                     t \in {t \in times : t.hour >= 0}}
         [] target = "interval" -> {x} \intersect (Spans \union DOMAIN NumberOf)
         [] target = "email" -> {x} \intersect Emails
         [] target = "uri" -> {x} \intersect WithScheme
         [] target = "mathesar_json_array" -> {x} \intersect JsonArrays
         [] target = "mathesar_json_object" -> {x} \intersect JsonObjects
         [] target \in {"json", "jsonb"} -> {x} \intersect Jsons
         [] OTHER -> {}

\* The value as text: instants are shown in the zone of the session.
Shown(zone, source, x) ==
    IF source # "timestamp with time zone" THEN x
    ELSE MomentText([hour |-> MomentOf[x].hour + zone, zone |-> {zone}])

\* The database's own cast between two types, where it has one.
Default(zone, source, target, x) ==
    LET exact == DecimalTypes \union {"numeric", "mathesar_money"}
        numbers == IntegerTypes \union exact
    IN IF source \in StringTypes THEN Input(zone, target, x)
       ELSE IF target \in StringTypes THEN {Shown(zone, source, x)}
       ELSE IF source = target THEN {x}
       ELSE CASE source \in numbers /\ target \in IntegerTypes -> Rounded(target, NumberOf[x])
              [] source \in numbers /\ target \in exact -> {x}
              [] source \in {"numeric", "mathesar_money"} \union IntegerTypes /\ target = "money" ->
                     {CurrencyText(ToCents(NumberOf[x]))}
              [] source = "money" /\ target \in {"numeric", "mathesar_money"} -> {NumberText(CurrencyOf[x])}
              [] source \in PointInTimeTypes /\ target \in PointInTimeTypes ->
                     IF target = "timestamp without time zone" /\ source = "timestamp with time zone"
                     THEN Input(zone, target, Shown(zone, source, x)) ELSE Input(zone, target, x)
              [] source \in JsonTypes /\ target \in JsonTypes -> Input(zone, target, x)
              [] OTHER -> {}

-----------------------------------------------------------------------------
\* The bodies of the functions named cast_to_<type>, one for each source type.

TrueTexts == {"1", "on", "t", "true", "y", "yes"}
FalseTexts == {"0", "off", "f", "false", "n", "no"}
BooleanFromNumber(x) == {IF n = 0 THEN "false" ELSE "true" : n \in {NumberOf[x]} \intersect {0, 1000}}
BooleanFromText(x) == {"true" : t \in {x} \intersect TrueTexts} \union
                      {"false" : t \in {x} \intersect FalseTexts}
NumberFromBoolean(x) == {IF x = "true" THEN "1" ELSE "0"}
NoRounding_Rounds(zone, source, target, x) == Default(zone, source, target, x)   \* mutant
NoRounding(zone, source, target, x) ==
    {y \in Default(zone, source, target, x) : NumberOf[y] = NumberOf[x]}
IntervalFromText(zone, x) ==         \* a number is likelier than a span of seconds
    IF x \in DOMAIN NumberOf THEN {} ELSE Input(zone, "interval", x)
\* The zone of the session is set to UTC, for the rest of the transaction, and the value
\* has to be the same moment as target and as a moment with a zone.
Unzoned(target, x) ==
    {y \in Input(0, target, x) : MomentOf[y].hour = Utc(MomentOf[x], 0)}
\* A text is money when it has a currency, before or after the number.
MoneyFromText(x) == {NumberText(n) : n \in Image(CurrencyOf, {x})}
LocaleMoney(x) == {x} \intersect DOMAIN CurrencyOf
MoneyFromNumber(x) == {CurrencyText(ToCents(NumberOf[x]))}
Multicurrency(source, x) ==          \* through numeric, from a text or from money
    {WithCode(y) : y \in IF source = "money" THEN MoneyFromText(x) ELSE {x} \intersect DOMAIN NumberOf}
UriFromText(x) == IF x \in WithScheme THEN {x} ELSE Image(WithoutScheme, {x})
AmbiguousNumbers == {"2.555"}        \* one separator before three digits
NumericFromText(x) == {x} \intersect (DOMAIN NumberOf \ AmbiguousNumbers)

Apply(body, zone, source, target, x) ==
    CASE body = "default" -> Default(zone, source, target, x)
      [] body = "boolean from number" -> BooleanFromNumber(x)
      [] body = "boolean from text" -> BooleanFromText(x)
      [] body = "number from boolean" -> NumberFromBoolean(x)
      [] body = "no rounding" -> NoRounding(zone, source, target, x)
      [] body = "interval from text" -> IntervalFromText(zone, x)
      [] body = "unzoned" -> Unzoned(target, x)
      [] body = "numeric" -> {x}
      [] body = "money from text" -> MoneyFromText(x)
      [] body = "money from number" -> MoneyFromNumber(x)
      [] body = "locale money" -> LocaleMoney(x)
      [] body = "multicurrency" -> Multicurrency(source, x)
      [] body = "text" -> {Shown(zone, source, x)}
      [] body = "uri from text" -> UriFromText(x)
      [] body = "numeric from text" -> NumericFromText(x)

-----------------------------------------------------------------------------
\* Which body each source type gets, for every target type.

Bodies(sources, body) == [source \in sources |-> body]
MoneyWithoutCurrency == {"money", "mathesar_money"}
BooleanToNumber == Bodies({"boolean"}, "number from boolean")
JsonTypeBodyMap == Bodies(StringTypes \union JsonTypes, "default")
BooleanTypeBodyMap == Bodies({"boolean"}, "default") ++ Bodies(NumericTypes, "boolean from number")
                      ++ Bodies(StringTypes, "boolean from text")
EmailTypeBodyMap == Bodies(StringTypes \union {"email"}, "default")
IntervalTypeBodyMap == Bodies({"interval"}, "default") ++ Bodies(StringTypes, "interval from text")
IntegerTypeBodyMap ==
    Bodies(IntegerTypes \union StringTypes, "default") ++ BooleanToNumber
    ++ Bodies(DecimalTypes \union MoneyWithoutCurrency \union {"numeric"}, "no rounding")
DecimalNumberTypeBodyMap ==
    Bodies(NumericTypes \union StringTypes \union MoneyWithoutCurrency, "default") ++ BooleanToNumber
TimeTypeBodyMap == Bodies({"text", "character varying"} \union TimeOfDayTypes, "default")
TimestampWithTimezoneTypeBodyMap == Bodies(DatetimeTypes \union StringTypes, "default")
TimestampWithoutTimezoneTypeBodyMap ==
    Bodies({"timestamp without time zone"}, "default")
    ++ Bodies(StringTypes \union {"timestamp with time zone", "date"}, "unzoned")
MathesarMoneyTypeBodyMap ==
    Bodies({"mathesar_money"}, "default") ++ Bodies(NumericTypes, "numeric")
    ++ Bodies(StringTypes \union {"money"}, "money from text")
MoneyTypeBodyMap ==
    Bodies({"money", "mathesar_money"}, "default") ++ Bodies(NumericTypes, "money from number")
    ++ Bodies(StringTypes, "locale money")
MulticurrencyMoneyTypeBodyMap ==
    Bodies({"multicurrency_money"}, "default")
    ++ Bodies(NumericTypes \union StringTypes \union MoneyWithoutCurrency, "multicurrency")
TextualTypeBodyMap == Bodies(AvailableKnownDbTypes(KnownDbTypes), "text")
DateTypeBodyMap == Bodies({"date"}, "default") ++ Bodies(StringTypes \union DatetimeTypes, "unzoned")
UriTypeBodyMap == Bodies(StringTypes \union {"uri"}, "uri from text")
NumericTypeBodyMap == Bodies(NumericTypes \union {"money"}, "default") ++ BooleanToNumber
                      ++ Bodies(StringTypes, "numeric from text")

\* The functions that are installed, and the casts that are offered for a column.
InstalledCasts ==
    LET BodyMap(target) ==
            CASE target \in IntegerTypes -> IntegerTypeBodyMap
              [] target = "boolean" -> BooleanTypeBodyMap
              [] target \in StringLikeTypes -> TextualTypeBodyMap
              [] target = "date" -> DateTypeBodyMap
              [] target \in JsonTypes -> JsonTypeBodyMap
              [] target \in DecimalTypes -> DecimalNumberTypeBodyMap
              [] target = "email" -> EmailTypeBodyMap
              [] target = "mathesar_money" -> MathesarMoneyTypeBodyMap
              [] target = "money" -> MoneyTypeBodyMap
              [] target = "multicurrency_money" -> MulticurrencyMoneyTypeBodyMap
              [] target = "interval" -> IntervalTypeBodyMap
              [] target = "numeric" -> NumericTypeBodyMap
              [] target \in TimeOfDayTypes -> TimeTypeBodyMap
              [] target = "timestamp with time zone" -> TimestampWithTimezoneTypeBodyMap
              [] target = "timestamp without time zone" -> TimestampWithoutTimezoneTypeBodyMap
              [] target = "uri" -> UriTypeBodyMap
    IN [target \in {"boolean", "date", "email", "interval", "multicurrency_money", "uri"}
                   \union StringLikeTypes \union JsonTypes \union MoneyWithoutCurrency
                   \union NumericTypes \union TimeOfDayTypes \union DatetimeTypes
            |-> BodyMap(target)]

\* Offered by other maps than those the functions are installed from: numeric has
\* the map of the decimal types, and two textual types are left out.
OfferedTargets == DOMAIN InstalledCasts \ {"\"char\"", "name"}
OfferedSources(target) ==
    IF target = "numeric" THEN DOMAIN DecimalNumberTypeBodyMap ELSE DOMAIN InstalledCasts[target]
FullCastMap ==
    [source \in UNION {OfferedSources(t) : t \in OfferedTargets} |->
        {t \in OfferedTargets : source \in OfferedSources(t)}]

\* A function for a domain's base type serves the domain.
BaseType_Itself(source) == source    \* mutant: domains are taken for types of their own
BaseType(source) ==
    CASE source = "mathesar_money" -> "numeric"
      [] source \in {"uri", "email"} -> "text"
      [] source \in {"mathesar_json_array", "mathesar_json_object"} -> "jsonb"
      [] OTHER -> source
HasFunction(source, target) == {source, BaseType(source)} \intersect DOMAIN InstalledCasts[target] # {}
CastBody(source, target) ==
    InstalledCasts[target][IF source \in DOMAIN InstalledCasts[target] THEN source ELSE BaseType(source)]
\* Null has no cast to go through.
Cast(zone, source, target, x) ==
    IF x = Null THEN {Null} ELSE Apply(CastBody(source, target), zone, source, target, x)
\* The zone of the session stays UTC, in the casts that follow in the transaction.
LeavesUtc(source, target, x) == x # Null /\ CastBody(source, target) = "unzoned"
\* The cast of a preview leaves a column of the type asked for alone.
ColumnCast(zone, source, target, x) ==
    IF source = target THEN {x} ELSE Cast(zone, source, target, x)
CastsAll(zone, source, target, cells) ==
    HasFunction(source, target) /\ \A x \in cells : Cast(zone, source, target, x) # {}

-----------------------------------------------------------------------------
\* The type inferred for a column: the first that all its texts can be cast to.

TypeInferenceDag ==
    <<"boolean", "date", "numeric", "mathesar_money", "timestamp without time zone",
      "timestamp with time zone", "time without time zone", "interval", "email",
      "mathesar_json_array", "mathesar_json_object", "uri">>
InferColumnType_OneCell(zone, type, cells) ==   \* mutant: one value decides
    LET fits == {i \in DOMAIN TypeInferenceDag : \E x \in cells : CastsAll(zone, type, TypeInferenceDag[i], {x})}
    IN IF type \notin {"text", "character varying"} \/ cells \subseteq {Null} \/ fits = {} THEN type
       ELSE TypeInferenceDag[CHOOSE i \in fits : \A j \in fits : i <= j]
InferColumnType(zone, type, cells) ==
    LET fits == {i \in DOMAIN TypeInferenceDag : CastsAll(zone, type, TypeInferenceDag[i], cells)}
    IN IF type \notin {"text", "character varying"} \/ cells \subseteq {Null} \/ fits = {} THEN type
       ELSE TypeInferenceDag[CHOOSE i \in fits : \A j \in fits : i <= j]

-----------------------------------------------------------------------------
\* Not in the code: what a value says, for the property on changes of type.  A text
\* may be read as a number, a moment or an address; a value, as its text.

Site == "x.org" :> "x.org" @@ "http://x.org" :> "x.org" @@ "x.org/A" :> "x.org/A"
        @@ "http://x.org/a" :> "x.org/a" @@ "a@b.co" :> "b.co" @@ "http://b.co" :> "b.co"
AmountOf == NumberOf @@ CurrencyOf @@ [x \in {WithCode(y) : y \in DOMAIN NumberOf} |->
                CHOOSE n \in {NumberOf[y] : y \in DOMAIN NumberOf} : WithCode(NumberText(n)) = x]
            @@ [x \in TrueTexts |-> 1000] @@ [x \in FalseTexts |-> 0]
Means(zone, type, x) ==
    LET shown == Shown(zone, type, x)
        moments == Image(MomentOf, {shown})
    IN {<<"text", shown>>}
       \union {<<"amount", n>> : n \in Image(AmountOf, {shown})}
       \union {<<"instant", Utc(m, zone)>> : m \in moments}
       \union {<<"hour", t.hour>> : t \in moments \union Image(TimeOf, {shown})}
       \union {<<"site", site>> : site \in Image(Site, {shown})}
=============================================================================
