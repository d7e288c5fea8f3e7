---------------------------- MODULE FieldReading ----------------------------
(***************************************************************************)
(* One field of a row, from the server's column to the application: the    *)
(* driver announces a type, stores the field, and libdbi's getter reads it. *)
(* Every driver but firebird, whose fields arrive in another form.         *)
(***************************************************************************)
EXTENDS FieldValues, Calls

CONSTANTS
    Numbers,    \* integers
    Decimals,   \* numbers with a digit behind the point
    Moments,    \* dates with a time
    Dates,      \* dates with a time, broken down: day, month from 0, year, hour, minute, second
    Texts,      \* texts
    Bytes       \* binary data

\* A text is a C string.
ASSUME ReadingAssumption ==
    /\ Numbers \subseteq Int
    /\ Decimals \subseteq Int \X Int
    /\ Moments \subseteq Nat \X Nat
    /\ Dates \subseteq [1..6 -> Nat]
    /\ Texts \subseteq Seq(Nat \ {0})
    /\ Bytes \subseteq Seq(Nat)

-----------------------------------------------------------------------------
(* Columns: every type that a server sends                                  *)

\* Fields of a column of each of the types, NULL included.
In(driver, types, flags, values) ==
    [kind : {"field"}, driver : {driver}, type : types, flag : flags, value : values \cup {SqlNull}]
NotNull(fields) == {f \in fields : f.value # SqlNull}

\* The range of a type of so many bytes.
Fits(n, bytes) == -(Pow(bytes) \div 2) <= n /\ n < Pow(bytes) \div 2
FitsUnsigned(n, bytes) == 0 <= n /\ n < Pow(bytes)

\* Integer columns, with the size of each type; the flag is UNSIGNED.
Whole == {<<n, 0>> : n \in Numbers}
SignedIn(driver, flag, bytes) ==
    {f \in In(driver, DOMAIN bytes, {flag}, Whole) : f.value # SqlNull => Fits(f.value[1], bytes[f.type])}
UnsignedIn(driver, flag, bytes) ==
    {f \in In(driver, DOMAIN bytes, {flag}, Whole) : f.value # SqlNull => FitsUnsigned(f.value[1], bytes[f.type])}

DateOnly == {<<m[1], 0>> : m \in Moments}
TimeOnly == {<<0, m[2]>> : m \in Moments}

\* A number that the driver leaves to the application as a text.
NumberTexts == {t \in Texts : t # <<>> /\ t[Len(t)] # 32}

mysql_sizes == [TINY |-> 1, SHORT |-> 2, INT24 |-> 3, LONG |-> 4, LONGLONG |-> 8]

mysql_fields ==
    SignedIn("mysql", FALSE, mysql_sizes)
    \cup UnsignedIn("mysql", TRUE, mysql_sizes) \cup UnsignedIn("mysql", FALSE, [YEAR |-> 2])
    \cup In("mysql", {"FLOAT", "DOUBLE"}, {FALSE}, Decimals)
    \cup In("mysql", {"DATE"}, {FALSE}, DateOnly) \cup In("mysql", {"TIME"}, {FALSE}, TimeOnly)
    \cup In("mysql", {"DATETIME", "TIMESTAMP"}, {FALSE}, Moments)
    \cup In("mysql", {"STRING", "VAR_STRING", "BLOB", "ENUM", "SET"}, {FALSE}, Texts)
    \cup In("mysql", {"DECIMAL", "NEWDECIMAL"}, {FALSE}, NumberTexts)
    \cup In("mysql", {"STRING", "BLOB"}, {TRUE}, Bytes)

pgsql_fields ==
    SignedIn("pgsql", FALSE, [INT2 |-> 2, INT4 |-> 4, INT8 |-> 8]) \cup UnsignedIn("pgsql", FALSE, [OID |-> 4])
    \cup In("pgsql", {"FLOAT4", "FLOAT8"}, {FALSE}, Decimals)
    \cup In("pgsql", {"DATE"}, {FALSE}, DateOnly) \cup In("pgsql", {"TIME", "TIMETZ"}, {FALSE}, TimeOnly)
    \cup In("pgsql", {"TIMESTAMP", "TIMESTAMPTZ"}, {FALSE}, Moments)
    \cup In("pgsql", {"TEXT", "VARCHAR", "NAME"}, {FALSE}, Texts) \cup In("pgsql", {"NUMERIC"}, {FALSE}, NumberTexts)
    \cup In("pgsql", {"BYTEA"}, {FALSE}, Bytes)

\* SQLite stores what it is given, whatever the type of the column.
sqlite_fields(driver) ==
    SignedIn(driver, FALSE, mysql_sizes) \cup UnsignedIn(driver, FALSE, mysql_sizes)
    \cup In(driver, {"FLOAT", "DOUBLE"}, {FALSE}, Decimals)
    \cup In(driver, {"DATE"}, {FALSE}, DateOnly) \cup In(driver, {"TIME"}, {FALSE}, TimeOnly)
    \cup In(driver, {"TIMESTAMP"}, {FALSE}, Moments)
    \cup In(driver, {"STRING"}, {FALSE}, Texts) \cup In(driver, {"DECIMAL"}, {FALSE}, NumberTexts)
    \cup In(driver, {"BLOB"}, {FALSE}, Bytes)

msql_fields ==
    SignedIn("msql", FALSE, [INT |-> 4, INT64 |-> 8, INT8 |-> 1, INT16 |-> 2, BYTE |-> 1])
    \cup UnsignedIn("msql", FALSE, [UINT |-> 4, UINT64 |-> 8, UINT8 |-> 1, UINT16 |-> 2])
    \cup In("msql", {"REAL"}, {FALSE}, Decimals)
    \cup In("msql", {"DATE"}, {FALSE}, DateOnly) \cup In("msql", {"TIME"}, {FALSE}, TimeOnly)
    \cup In("msql", {"CHAR", "TEXT"}, {FALSE}, Texts) \cup In("msql", {"MONEY"}, {FALSE}, NumberTexts)

freetds_fields == NotNull(
    SignedIn("freetds", FALSE, [LONG |-> 8, INT |-> 4, SMALLINT |-> 2]) \cup UnsignedIn("freetds", FALSE, [TINYINT |-> 1])
    \cup In("freetds", {"REAL", "FLOAT"}, {FALSE}, Decimals)
    \cup In("freetds", {"DATETIME", "DATETIME4"}, {FALSE}, Moments)
    \cup In("freetds", {"CHAR", "TEXT", "VARCHAR"}, {FALSE}, Texts)
    \cup In("freetds", {"IMAGE", "BINARY"}, {FALSE}, Bytes))

\* The flag is the scale.
oracle_fields == NotNull(
    SignedIn("oracle", 0, [INT |-> 8, LNG |-> 8, NUM |-> 8])
    \cup In("oracle", {"NUM"}, {2, -127}, Decimals) \cup In("oracle", {"FLT"}, {0}, Decimals)
    \cup In("oracle", {"DAT"}, {0}, Moments) \cup In("oracle", {"STR", "CHR", "AFC"}, {0}, Texts))

ingres_fields ==
    SignedIn("ingres", FALSE, [INT1 |-> 1, INT2 |-> 2, INT4 |-> 4, INT8 |-> 8])
    \cup In("ingres", {"FLT4", "FLT8"}, {FALSE}, Decimals) \cup In("ingres", {"DEC", "MNY"}, {FALSE}, NumberTexts)
    \cup In("ingres", {"VCH", "TXT", "CHA", "NVCH"}, {FALSE}, Texts)
    \cup In("ingres", {"BYTE", "VBYTE", "TABKEY"}, {FALSE}, Bytes) \cup In("ingres", {"DTE"}, {FALSE}, Dates)

FieldInputs ==
    input \in mysql_fields \cup pgsql_fields \cup sqlite_fields("sqlite3") \cup sqlite_fields("sqlite")
              \cup msql_fields \cup freetds_fields \cup oracle_fields \cup ingres_fields

-----------------------------------------------------------------------------
(* Calls *)

\* A date as Ingres formats it, by default with the name of the month.
DateText(v, digits) ==
    <<v[1], dash, IF digits THEN v[2] + 1 ELSE MonthName(v[2]), dash, v[3]>>
    \o IF v[4] = 0 /\ v[5] = 0 /\ v[6] = 0 THEN <<>> ELSE <<blank, v[4], colon, v[5], colon, v[6]>>

\* What Ingres converts a value to; a number is filled up with blanks.
IngresTexts(type, v, digits) ==
    IF v = SqlNull THEN {v}
    ELSE IF type = "DTE" THEN {DateText(v, digits)}
    ELSE IF type \in {"DEC", "MNY"} THEN {v, v \o <<32>>, v \o <<32, 32>>}
    ELSE {v}

\* What a field can become: the announced type, the field, and an option.
Row(a, field, option) == [a |-> a, field |-> field, option |-> option]

\* dbd_fetch_row() of one field.
ReadField ==
    LET column == [type |-> input.type, flag |-> input.flag]
        v      == input.value
        Raw(a) == IF a = Bin /\ v # SqlNull THEN dbd_encode_binary(v) ELSE v
    IN  /\ output = <<>> /\ input.kind = "field"
        /\ UNCHANGED input
        /\ \/ /\ input.driver = "mysql"
              /\ \E option \in BOOLEAN : LET a == mysql_field_info(column) IN
                   output' = <<Row(a, mysql_row_data(a, v, option), option)>>
           \/ /\ input.driver = "pgsql"
              /\ LET a == pgsql_field_info(column) IN output' = <<Row(a, pgsql_row_data(a, Raw(a)), FALSE)>>
           \/ /\ input.driver = "sqlite3"
              /\ \E c, r \in 0..1 : LET a == translate_sqlite3_type(column) IN
                   output' = <<Row(a, sqlite3_row_data(a, SomeTable(Raw(a), c, r), c, r, 2), FALSE)>>
           \/ /\ input.driver = "sqlite"
              /\ \E c, r \in 0..1 : LET a == translate_sqlite_type(column) IN
                   output' = <<Row(a, sqlite_row_data(a, SomeTable(Raw(a), c, r), c, r, 2), FALSE)>>
           \/ /\ input.driver = "msql"
              /\ LET a == msql_field_info(column) IN output' = <<Row(a, msql_row_data(a, v), FALSE)>>
           \/ /\ input.driver = "freetds"
              /\ LET a == translate_freetds_type(column) IN
                   output' = <<Row(a, freetds_row_data(a, column, Raw(a)), FALSE)>>
           \/ /\ input.driver = "oracle"
              /\ LET a == oracle_field_info(column) IN
                   \E option \in BOOLEAN, junk \in {32, 65}, width \in Len(v)..(Len(v) + 2) :
                     output' = <<Row(a, oracle_row_data(a, v, width, junk, option), option)>>
           \/ /\ input.driver = "ingres"
              /\ \E option \in BOOLEAN : \E raw \in IngresTexts(column.type, v, option) :
                   output' = <<Row(ingres_classify_field(column), ingres_row_data(column, raw), option)>>

FieldInit == output = <<>> /\ FieldInputs
FieldSpec == FieldInit /\ [][ReadField]_callVars

-----------------------------------------------------------------------------
(* Properties *)

\* Values that are known not to survive: 8-byte unsigned numbers above the
\* signed range (atoll() stops there), SQL Server's TINYINT above the signed
\* range (announced as signed), Oracle's dates (month and year are off) and
\* Ingres dates in a format that has the month in digits (the year is off).
Lost(f, row) ==
    \/ f.driver \in {"mysql", "msql", "sqlite", "sqlite3"} /\ row.a.type = "INTEGER"
       /\ f.value[1] # Saturated(f.value[1])
    \/ f.driver = "freetds" /\ f.type = "TINYINT" /\ f.value[1] >= Pow(1) \div 2
    \/ f.driver = "oracle" /\ f.type = "DAT"
    \/ f.driver = "ingres" /\ f.type = "DTE" /\ row.option

\* The getter: with SQLite the application chooses the unsigned one.
Getter(f, row) ==
    IF f.driver \in {"sqlite", "sqlite3"} /\ row.a.type = "INTEGER"
    THEN [row.a EXCEPT !.unsigned = f.value[1] >= 0] ELSE row.a

\* What an option of the driver lets the value become.
Expected(f, row) ==
    IF f.driver = "mysql" /\ row.option /\ row.a = Bin THEN {Append(f.value, 0)}
    ELSE IF f.driver = "oracle" /\ row.option THEN {f.value, ChopBlanks(f.value)}
    ELSE {f.value}

\* One column f, read into the given row.
ReadsBack(f, row) ==
    LET got == dbi_get(Getter(f, row), row.field)
    IN  /\ row.field.null <=> f.value = SqlNull /\ f.driver \notin {"sqlite", "sqlite3"}
        /\ f.value = SqlNull /\ ~row.field.null => row.field.member = "none"
        /\ f.value # SqlNull /\ ~Lost(f, row) =>
             IF f.driver = "firebird" /\ f.type \in {"TEXT", "BLOB"}
             THEN \E v \in got : Len(f.value) <= Len(v) /\ SubSeq(v, 1, Len(f.value)) = f.value
             ELSE \E v \in got : v \in Expected(f, row)

\* The member of the union that _get_row_data() assigns is the one that
\* libdbi reads for the type that _get_field_info() announced, and it holds
\* the column's value over the whole range of the server's type; NULL is told
\* apart from every value (by a flag, or by the SQLite drivers by a pointer
\* that stays NULL), also from an empty text and from 0.  Of Firebird's CHAR
\* and BLOB columns only field_sizes, or less, is the column's.
FieldsReadBack == Done("field") => ReadsBack(input, output[1])
=============================================================================
