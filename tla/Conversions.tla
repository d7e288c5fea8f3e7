---------------------------- MODULE Conversions ----------------------------
(***************************************************************************)
(* The conversions of the drivers, each applied to every input of a small  *)
(* set: names against LIKE patterns, literals, encodings, fields of a row,  *)
(* and the types that the SQLite drivers read out of a statement.          *)
(* A behaviour is one call.                                                *)
(***************************************************************************)
EXTENDS WildCompare, SqliteFieldTypes, Quoting, FieldReading, FirebirdValues, Encodings
LOCAL INSTANCE SequencesExt
LOCAL INSTANCE TLC

-----------------------------------------------------------------------------
(* Fields, with the ends of the range of every integer type                 *)

SomeNumbers == UNION {{-(Pow(b) \div 2), Pow(b) \div 2 - 1, Pow(b) \div 2, Pow(b) - 1} : b \in {1, 2, 3, 4, 8}}
               \cup {-1, 0, 1}
SomeDecimals == {<<-1, 5>>, <<2, 5>>, <<0, 0>>}
SomeMoments == {<<7, 9>>}
SomeDates == {d \o t : d \in {<<31, 0, 2008>>, <<1, 11, 1999>>}, t \in {<<0, 0, 0>>, <<23, 0, 59>>}}
SomeTexts == Strings({65, 32}, 2)
SomeBytes == Strings({0, 65}, 3)

firebird_fields ==
    SignedIn("firebird", TRUE, [SHORT |-> 2, LONG |-> 4, INT64 |-> 8])
    \cup In("firebird", {"FLOAT", "DOUBLE"}, {TRUE}, Decimals)
    \cup In("firebird", {"TYPE_DATE"}, {TRUE}, DateOnly) \cup In("firebird", {"TYPE_TIME"}, {TRUE}, TimeOnly)
    \cup In("firebird", {"TIMESTAMP"}, {TRUE}, Moments)
    \cup In("firebird", {"TEXT", "VARYING"}, {TRUE}, Texts) \cup In("firebird", {"BLOB"}, {TRUE}, Bytes)
    \cup NotNull(In("firebird", {"TEXT", "VARYING"}, {FALSE}, Texts))

\* Ways to store bytes in segments.
Segments(v) == {<<v>>} \cup {<<SubSeq(v, 1, i), SubSeq(v, i + 1, Len(v))>> : i \in 1..(Len(v) - 1)}

\* dbd_fetch_row() of one field of the firebird driver.
ReadFirebirdField ==
    LET column == [type |-> input.type, flag |-> input.flag]
        a      == firebird_field_info(column)
        v      == input.value
    IN  /\ output = <<>> /\ input.kind = "field" /\ input.driver = "firebird"
        /\ UNCHANGED input
        /\ \E junk \in {<<0>>, <<65, 0>>} :
           \E s \in (IF a = Bin /\ v # SqlNull THEN Segments(dbd_encode_binary(v)) ELSE {v}) :
             output' = <<Row(a, firebird_row_data(a, column, s, junk), FALSE)>>

-----------------------------------------------------------------------------
(* Statements, with the type that each result column has                    *)

\* The documented column types and what libdbi takes them for.
DocumentedTypes ==
    ("BLOB" :> {<<"TINY", "BLOB">>, <<"BLOB">>, <<"MEDIUM", "BLOB">>, <<"LONG", "BLOB">>, <<"BYTEA">>})
    @@ ("STRING" :> {<<"CHAR", "(", "9", ")">>, <<"VAR", "CHAR", "(", "9", ")">>, <<"TINY", "TEXT">>,
                     <<"TEXT">>, <<"MEDIUM", "TEXT">>, <<"LONG", "TEXT">>, <<"ENUM">>, <<"SET">>, <<"YEAR">>})
    @@ ("TINY" :> {<<"TINY", "INT">>, <<"INT", "1">>, <<"CHAR">>})
    @@ ("SHORT" :> {<<"SMALL", "INT">>, <<"INT", "2">>})
    @@ ("INT24" :> {<<"MEDIUM", "INT">>})
    @@ ("LONG" :> {<<"INT">>, <<"INT", "EGER">>, <<"INT", "4">>})
    @@ ("LONGLONG" :> {<<"BIG", "INT">>, <<"INT", "8">>})
    @@ ("DECIMAL" :> {<<"DECIMAL">>, <<"NUMERIC">>})
    @@ ("TIMESTAMP" :> {<<"TIME", "STAMP">>, <<"DATE", "TIME">>})
    @@ ("DATE" :> {<<"DATE">>}) @@ ("TIME" :> {<<"TIME">>})
    @@ ("FLOAT" :> {<<"FLOAT">>, <<"FLOAT", "4">>, <<"REAL">>})
    @@ ("DOUBLE" :> {<<"DOUBLE">>, <<"DOUBLE", " ", "PRECISION">>, <<"FLOAT", "8">>})

columnTypes == [x |-> "LONGLONG", y |-> "STRING", z |-> "DATE"]
functionTypes == [count |-> "LONG", sum |-> "FLOAT", lower |-> "STRING", random |-> "LONGLONG", zeroblob |-> "BLOB"]
v2_functionTypes == [count |-> "LONG", sum |-> "LONG", lower |-> "STRING", random |-> "LONG"]

\* A table with columns x and y, y being of the given type, in either order.
Declared(type) ==
    LET x == [name |-> "x", type |-> <<"BIG", "INT">>]
        y == [name |-> "y", type |-> type]
    IN  {<<x, y>>, <<y, x>>}
SomeTables == [a |-> <<[name |-> "x", type |-> <<"BIG", "INT">>], [name |-> "y", type |-> <<"TEXT">>]>>,
               b |-> <<[name |-> "z", type |-> <<"DATE">>]>>,
               joined |-> <<[name |-> "w", type |-> <<"DATE">>]>>]

CreateText(table, columns) ==
    <<"create", " ", "table", " ", table, " ", "(">>
    \o FlattenSeq([i \in 1..Len(columns) |->
         (IF i = 1 THEN <<>> ELSE <<",", " ">>) \o <<columns[i].name, " ">> \o columns[i].type])
    \o <<")">>
Creates(tables) == [t \in DOMAIN tables |-> CreateText(t, tables[t])]

\* An entry of the column list: its text, the name that SQLite gives the
\* result column, and the types it may be taken for.
Item(text, name, types) == [text |-> text, name |-> name, types |-> types]
As(text, alias) == text \o <<" ", "as", " ", alias>>

ColumnTexts(c) == {<<c>>, <<"a", ".", c>>}
CallTexts(f) == {<<f, "(", "x", ")">>, <<f, "(", " ", "x", " ", ")">>, <<f, "(", "x", ",", "y", ")">>}

\* A call in a call is taken for either function, a call whose argument has a
\* table in front for the function or for a column that no table has.
NestedCall(f, g) == <<f, "(", g, "(", "x", ")", ")">>
QualifiedCall(f) == <<f, "(", "a", ".", "x", ")">>

v2_CallTexts(f) == IF f = "random" THEN {<<f, "(", "*", ")">>} ELSE CallTexts(f)

\* sqlite3: functions and expressions are aliased, as the manual demands.
PlainItems(alias) ==
    {Item(t, <<"x">>, {columnTypes.x}) : t \in ColumnTexts("x")}
    \cup {Item(As(t, alias), <<alias>>, {columnTypes.y}) : t \in ColumnTexts("y")}
CallItems(alias, functions) ==
    UNION {{Item(As(t, alias), <<alias>>, {functionTypes[f]}) : t \in CallTexts(f)} : f \in functions}
BracketItem(alias) == Item(As(<<"(", "x", " ", "+", " ", "y", ")">>, alias), <<alias>>, {"STRING"})
MisreadItems(alias) ==
    {Item(As(NestedCall(f, g), alias), <<alias>>, {functionTypes[f], functionTypes[g]}) :
        f \in {"count", "lower"}, g \in {"sum", "lower"}}
    \cup {Item(As(QualifiedCall(f), alias), <<alias>>, {functionTypes[f], "STRING"}) : f \in {"sum", "lower"}}

Lists == {<<i>> : i \in CallItems("k", DOMAIN functionTypes) \cup MisreadItems("k")}
         \cup {<<i, j>> : i \in PlainItems("k") \cup CallItems("k", {"sum"})
                               \cup {BracketItem("k"), Item(As(<<"x">>, "y"), <<"y">>, {columnTypes.x})},
                          j \in {Item(As(<<"y">>, "l"), <<"l">>, {columnTypes.y}), BracketItem("l")}
                               \cup CallItems("l", {"zeroblob"}) \cup MisreadItems("l")}

\* Tables, aliases, nested selects, up to MAX_TABLES_IN_QUERY of them, and
\* joins that a comma follows.
FromTexts ==
    {<<"a">>, <<"a", ",", "b">>, <<"b", ",", " ", "a">>, <<"a", " ", "as", " ", "c">>, <<"a", " ", "c">>,
     <<"b", " ", ",", " ", "(", "select", " ", "x", ",", "y", " ", "from", " ", "a", ")">>,
     <<"(", "select", " ", "x", ",", " ", "y", " ", "from", " ", "a", ",", "b", ")">>,
     <<"joined", ",", " ", "b", ",", " ", "a">>,
     <<"b", " ", "join", " ", "joined", " ", ",", " ", "a">>,
     <<"b", " ", "join", " ", "joined", " ", "on", " ", "w", " ", "=", " ", "z", ",", " ", "a">>}

\* A join that no comma follows, whose end the scan does not find or whose
\* words do not fit the buffer, and one table more than the array has.
OverrunTexts ==
    {<<"b", " ", "join", " ", "a">>, <<"a", " ", "natural", " ", "left", " ", "join", " ", "b">>,
     <<"a", " ", "join", " ", "b", " ", "on", " ", "x", " ", "=", " ", "z">>,
     <<"b", " ", "join", " ", "joined", " ", "on", " ", "w", " ", "=", " ", "z", " ", "join", " ", "a">>,
     <<"a", " ", "join", " ", "joined", " ", "using", " ", "(", "w", ")">>,
     <<"(", "select", " ", "x", ",", "y", " ", "from", " ", "b", " ", "join", " ", "a", ")">>,
     <<"joined", ",", " ", "b", ",", " ", "b", " ", "as", " ", "c", ",", " ", "a">>}

Tails ==
    {<<>>, <<";">>, <<" ", "where", " ", "x", "=", "y">>, <<" ", "order", " ", "by", " ", "y", ",", " ", "x">>,
     <<" ", "where", " ", "x", " ", "in", " ", "(", "select", " ", "z", " ", "from", " ", "b", ")">>}

SelectText(texts, comma, from, tail) ==
    <<"select", " ">>
    \o FlattenSeq([i \in 1..Len(texts) |-> (IF i = 1 THEN <<>> ELSE comma) \o texts[i]])
    \o <<" ", "from", " ">> \o from \o tail

Typed(driver, field, statement, tables, types) ==
    [kind |-> "type", driver |-> driver, field |-> field, statement |-> statement,
     tables |-> tables, types |-> types]

TypeInputs ==
    \* every documented type
    \/ \E driver \in {"sqlite", "sqlite3"}, type \in DOMAIN DocumentedTypes :
       \E words \in DocumentedTypes[type] : \E columns \in Declared(words) :
         input = Typed(driver, <<"y">>, SelectText(<<<<"y">>>>, <<>>, <<"a">>, <<>>), [a |-> columns], {type})
    \* every form of statement
    \/ \E list \in Lists, comma \in {<<",">>, <<",", " ">>}, from \in FromTexts \cup OverrunTexts, tail \in Tails :
       \E i \in 1..Len(list) :
         input = Typed("sqlite3", list[i].name,
                       SelectText([k \in 1..Len(list) |-> list[k].text], comma, from, tail), SomeTables,
                       list[i].types \cup (IF from \in OverrunTexts THEN {"outside"} ELSE {}))
    \* SQLite 2: a column is named with or without its table; unqualified, the first table counts
    \/ \E c \in {"x", "y"}, f \in DOMAIN v2_functionTypes, comma \in {<<",">>, <<",", " ">>}, tail \in Tails :
       \E column \in ColumnTexts(c), call \in v2_CallTexts(f) :
       \E from \in {<<"a">>, <<"a", ",", "b">>} \cup (IF Len(column) = 1 THEN {} ELSE {<<"b", ",", " ", "a">>}),
          texts \in {<<column, call>>, <<call, column>>} :
         \/ \E field \in {column} \cup (IF texts[1] = column THEN {<<c>>} ELSE {}) :
              input = Typed("sqlite", field, SelectText(texts, comma, from, tail), SomeTables, {columnTypes[c]})
         \/ input = Typed("sqlite", call, SelectText(texts, comma, from, tail), SomeTables, {v2_functionTypes[f]})
    \/ \E f, g \in {"count", "lower"} :
         \/ input = Typed("sqlite", NestedCall(f, g), SelectText(<<NestedCall(f, g)>>, <<>>, <<"a">>, <<>>),
                          SomeTables, {v2_functionTypes[f], v2_functionTypes[g]})
         \/ input = Typed("sqlite", QualifiedCall(f), SelectText(<<QualifiedCall(f)>>, <<>>, <<"a">>, <<>>),
                          SomeTables, {v2_functionTypes[f], "DECIMAL"})
    \/ \E c \in {"name", "rootpage"} :
         input = Typed("sqlite", <<c>>, SelectText(<<<<c>>>>, <<>>, <<"sqlite_master">>, <<>>), SomeTables,
                       {IF c = "name" THEN "STRING" ELSE "LONG"})

\* _get_field_info() of the SQLite drivers asks for the type of each column.
TypeColumn ==
    /\ output = <<>> /\ input.kind = "type"
    /\ UNCHANGED input
    /\ output' = IF input.driver = "sqlite3"
                 THEN <<find_result_field_types(input.field, input.statement, input.tables)>>
                 ELSE <<v2_find_result_field_types(input.field, input.statement, Creates(input.tables))>>

-----------------------------------------------------------------------------
(* Encodings: each name of a driver's table as option, database's encoding  *)
(* and default of the connection; the calls that set and ask it may fail.   *)

EngineNames(driver) == {row[1] : row \in ToSet(encoding_hash[driver])}
IanaNames(driver) == {row[2] : row \in ToSet(encoding_hash[driver])} \ {""}

Encoded(driver, options, databases, defaults) ==
    [kind : {"encoding"}, driver : {driver}, option : options, database : databases,
     default : defaults, accepted : BOOLEAN, answered : BOOLEAN]

\* PostgreSQL's client encoding is the database's to begin with.
EncodingInputs ==
    \/ input \in Encoded("mysql", IanaNames("mysql") \cup {"auto", Null}, EngineNames("mysql"), {"latin1", "utf8"})
    \/ \E e \in EngineNames("pgsql") :
         input \in Encoded("pgsql", IanaNames("pgsql") \cup {"auto", Null}, {e}, {e})
    \/ input \in Encoded("firebird", IanaNames("firebird") \cup EngineNames("firebird") \cup {Null}, {"NONE"}, {"NONE"})
    \/ \E e \in EngineNames("freetds") : input \in Encoded("freetds", {Null}, {e}, {e})

\* dbd_connect() with an encoding option, then dbd_get_encoding().
GetEncoding ==
    /\ output = <<>> /\ input.kind = "encoding"
    /\ UNCHANGED input
    /\ \E told \in EncodingTold(input) : output' = <<told>>

\* The attachment with an encoding that Firebird does not know.
Unattached ==
    /\ output = <<>> /\ input.kind = "encoding" /\ EncodingTold(input) = {}
    /\ UNCHANGED input /\ output' = <<[client |-> Null, told |-> Null]>>

-----------------------------------------------------------------------------

Init == output = <<>> /\ (FieldInputs \/ input \in firebird_fields \/ QuoteInputs \/ TypeInputs \/ NameInputs \/ EncodingInputs)

Returned == output # <<>> /\ UNCHANGED callVars

Next == ReadField \/ ReadFirebirdField \/ QuoteString \/ QuoteBinary \/ TypeColumn \/ ListEntry
        \/ GetEncoding \/ Unattached \/ Returned
Spec == Init /\ [][Next]_callVars

-----------------------------------------------------------------------------
(* Properties *)

\* Both SQLite drivers find the type that the manual promises for a column:
\* qualified, aliased, in a function call or in brackets, from one of several
\* tables (in sqlite the first, unless it is qualified), a nested select or a
\* join, and with any tail.  A call in a call has the type of one of the two
\* functions; a call with a qualified argument may be taken for an unknown
\* column (STRING, in sqlite DECIMAL).  getTables() leaves its text, its word
\* buffer or its array only where a join is not followed by a comma or the
\* statement has more than MAX_TABLES_IN_QUERY tables.
ColumnTypesFound == Done("type") => output[1] \in input.types

\* Encodings that are known to be told wrongly: a row's name begins with the
\* name of an earlier row, the server refused what "auto" asked for, the
\* query that looks for the database's encoding failed.
ToldWrongly(in, client) ==
    \/ in.driver = "freetds" /\ client # "mac" /\ StartsWith(client, "mac")
    \/ in.driver = "firebird" /\ client = "ISO8859_13"
    \/ in.driver = "mysql" /\ in.option = "auto" /\ ~in.accepted
    \/ in.driver = "pgsql" /\ in.option = Null /\ ~in.answered

\* What dbd_get_encoding() tells is the IANA name of the encoding that the
\* connection uses, whether or not the server took the one that was asked
\* for; if it took it, it is the IANA name asked for, or with "auto" that of
\* the database.
EncodingTrue ==
    Done("encoding") /\ output[1].client # Null =>
        LET table == ToSet(encoding_hash[input.driver])
            told == output[1].told
        IN  ~ToldWrongly(input, output[1].client) =>
              /\ <<output[1].client, told>> \in table
              /\ input.accepted /\ input.option \in IanaNames(input.driver) => told = input.option
              /\ input.accepted /\ input.option = "auto" /\ input.answered => <<input.database, told>> \in table
=============================================================================
