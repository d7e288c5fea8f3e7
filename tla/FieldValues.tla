---------------------------- MODULE FieldValues ----------------------------
(***************************************************************************)
(* What type each driver announces for a column (_translate_*_type() and   *)
(* _get_field_info()) and how it stores one field of a row                 *)
(* (_get_row_data()), next to how libdbi's getters read the field back.    *)
(* A column is [type, flag]: the server's type and the one attribute that  *)
(* the driver also looks at.  A value is a sequence of integers: a number  *)
(* <<n, f>> with f the digit behind the point, a date and time <<d, t>>    *)
(* with 0 for an absent part, a text or bytes its characters (0 is NUL).   *)
(***************************************************************************)
EXTENDS Integers, Sequences

CONSTANT
    Byte        \* number of values of a byte (256; smaller in the model)

ASSUME FieldAssumption == Byte \in Nat \ {0} /\ Byte % 2 = 0

SqlNull == <<-1, -1, -1>>     \* no value has this form

-----------------------------------------------------------------------------
(* libdbi                                                                   *)

Announced(type, size, unsigned) == [type |-> type, size |-> size, unsigned |-> unsigned]
SInt(n) == Announced("INTEGER", n, FALSE)
UInt(n) == Announced("INTEGER", n, TRUE)
Dec(n) == Announced("DECIMAL", n, FALSE)
Str == Announced("STRING", 0, FALSE)
Chars == Announced("STRING", 1, FALSE)     \* DBI_STRING_FIXEDSIZE
Bin == Announced("BINARY", 0, FALSE)
Time(parts) == Announced("DATETIME", parts, FALSE)   \* 1 DATE, 2 TIME, 3 both

\* A field of dbi_row_t: its NULL flag, the member of the union that was
\* assigned, and its field_sizes entry.
Field(member, v, size) == [null |-> FALSE, member |-> member, v |-> v, size |-> size]
Unset == Field("none", <<>>, 0)
NullField == [Unset EXCEPT !.null = TRUE]

\* Number of values of an integer of so many bytes.
Pow(bytes) ==
    LET two  == Byte * Byte
        four == two * two
    IN  CASE bytes = 1 -> Byte [] bytes = 2 -> two [] bytes = 3 -> two * Byte [] bytes = 4 -> four
          [] bytes = 8 -> four * four
Signed(n, bytes) == ((n + Pow(bytes) \div 2) % Pow(bytes)) - Pow(bytes) \div 2
Saturated(n) == LET m == Pow(8) \div 2 IN IF n >= m THEN m - 1 ELSE IF n < -m THEN -m ELSE n

IntMember(size) ==
    CASE size = 1 -> "d_char" [] size = 2 -> "d_short" [] size \in {3, 4} -> "d_long"
      [] size = 8 -> "d_longlong"
MemberBytes == [d_char |-> 1, d_short |-> 2, d_long |-> 4, d_longlong |-> 8]
DecMember(size) == IF size = 4 THEN "d_float" ELSE "d_double"

\* The lowest of some positions, 0 if there is none.
First(positions) ==
    IF positions = {} THEN 0 ELSE CHOOSE i \in positions : \A k \in positions : i <= k

\* The characters in front of the first NUL.
CString(v) ==
    LET nul == First({i \in 1..Len(v) : v[i] = 0}) IN IF nul = 0 THEN v ELSE SubSeq(v, 1, nul - 1)

\* The value that the application gets, in a set; {} when the getter reads a
\* member that was not assigned.
dbi_get(a, field) ==
    CASE a.type = "INTEGER" ->
           LET member == IntMember(a.size)
           IN  IF field.member # member THEN {}
               ELSE IF a.unsigned THEN {<<field.v[1] % Pow(MemberBytes[member]), 0>>}
               ELSE {field.v}
      [] a.type = "DECIMAL" -> IF field.member # DecMember(a.size) THEN {} ELSE {field.v}
      [] a.type = "STRING" -> IF field.member # "d_string" THEN {} ELSE {CString(field.v)}
      [] a.type = "BINARY" ->
           IF field.member # "d_string" \/ field.size > Len(field.v) THEN {}
           ELSE {SubSeq(field.v, 1, field.size)}
      [] a.type = "DATETIME" -> IF field.member # "d_datetime" THEN {} ELSE {field.v}

dbd_parse_datetime(text, parts) ==
    <<IF parts \in {1, 3} THEN text[1] ELSE 0, IF parts \in {2, 3} THEN text[2] ELSE 0>>

\* An encoding without NULs and quotes.
dbd_encode_binary(v) == <<256>> \o [i \in 1..Len(v) |-> v[i] + 256]
dbd_decode_binary(v) == [i \in 1..(Len(v) - 1) |-> v[i + 1] - 256]

-----------------------------------------------------------------------------
(* Fields that arrive as text                                               *)

\* (type) atol(raw): the C cast keeps the low bytes.
IntField(a, raw) ==
    LET member == IntMember(a.size)
    IN  Field(member, <<Signed(Saturated(raw[1]), MemberBytes[member]), 0>>, 0)
DecField(a, raw) == Field(DecMember(a.size), raw, 0)
TimeField(a, raw) == Field("d_datetime", dbd_parse_datetime(raw, a.size), 0)

\* The cases that all text protocols share.
Scalar(a, raw) ==
    CASE a.type = "INTEGER" -> IntField(a, raw)
      [] a.type = "DECIMAL" -> DecField(a, raw)
      [] a.type = "DATETIME" -> TimeField(a, raw)
Scalars == {"INTEGER", "DECIMAL", "DATETIME"}

-----------------------------------------------------------------------------
(* mysql: flag is charsetnr = 63 for texts, UNSIGNED_FLAG for numbers       *)

mysql_types ==
    [TINY |-> SInt(1), YEAR |-> UInt(2), SHORT |-> SInt(2), INT24 |-> SInt(3), LONG |-> SInt(4),
     BIT |-> UInt(8), LONGLONG |-> SInt(8), FLOAT |-> Dec(4), DOUBLE |-> Dec(8),
     DATE |-> Time(1), TIME |-> Time(2), DATETIME |-> Time(3), TIMESTAMP |-> Time(3),
     NEWDECIMAL |-> Str, DECIMAL |-> Str, ENUM |-> Str, SET |-> Str]

translate_mysql_type(column) ==
    IF column.type \in DOMAIN mysql_types THEN mysql_types[column.type]
    ELSE IF column.flag THEN Bin ELSE Str

\* Mutated: the server's UNSIGNED_FLAG is not looked at.
mysql_field_info_signed(column) == translate_mysql_type(column)

mysql_field_info(column) ==
    LET a == translate_mysql_type(column)
    IN  IF a.type = "INTEGER" /\ column.flag THEN [a EXCEPT !.unsigned = TRUE] ELSE a

\* trailing_null: the option mysql_include_trailing_null.
mysql_row_data(a, raw, trailing_null) ==
    IF raw = SqlNull THEN NullField
    ELSE IF a.type \in Scalars THEN Scalar(a, raw)
    ELSE IF a.type = "BINARY"
    THEN Field("d_string", Append(raw, 0), Len(raw) + IF trailing_null THEN 1 ELSE 0)
    ELSE Field("d_string", CString(raw), Len(raw))

-----------------------------------------------------------------------------
(* pgsql                                                                    *)

pgsql_types ==
    [CHAR |-> SInt(1), INT2 |-> SInt(2), INT4 |-> SInt(4), INT8 |-> SInt(8), OID |-> UInt(8),
     FLOAT4 |-> Dec(4), FLOAT8 |-> Dec(8), DATE |-> Time(1), TIME |-> Time(2),
     TIMETZ |-> Time(2), TIMESTAMP |-> Time(3), TIMESTAMPTZ |-> Time(3), BYTEA |-> Bin]

translate_postgresql_type(column) ==
    IF column.type \in DOMAIN pgsql_types THEN pgsql_types[column.type] ELSE Str

pgsql_field_info(column) == translate_postgresql_type(column)

\* PQgetisnull() tells NULL from the empty text that PQgetvalue() gives.
pgsql_row_data(a, raw) ==
    IF raw = SqlNull THEN NullField
    ELSE IF a.type \in Scalars THEN Scalar(a, raw)
    ELSE IF a.type = "BINARY"
    THEN LET temp == dbd_decode_binary(raw) IN Field("d_string", temp, Len(temp))
    ELSE Field("d_string", CString(raw), Len(raw))

-----------------------------------------------------------------------------
(* sqlite3 and sqlite: the type is what SqliteFieldTypes finds              *)

sqlite_types ==
    [TINY |-> SInt(1), YEAR |-> UInt(2), SHORT |-> SInt(2), INT24 |-> SInt(3), LONG |-> SInt(4),
     LONGLONG |-> SInt(8), FLOAT |-> Dec(4), DOUBLE |-> Dec(8), DATE |-> Time(1),
     TIME |-> Time(2), DATETIME |-> Time(3), TIMESTAMP |-> Time(3), BLOB |-> Bin]

translate_sqlite3_type(column) ==
    IF column.type \in DOMAIN sqlite_types THEN sqlite_types[column.type] ELSE Str

\* The sqlite driver has the same table.
translate_sqlite_type(column) == translate_sqlite3_type(column)

\* "the first row always contains the column names"
TableCell(table, curfield, rowidx, numfields) == table[curfield + (rowidx + 1) * numfields + 1]

\* sqlite3_get_table(): two columns and two rows behind their names, the
\* value in one of the cells.
SomeTable(value, curfield, rowidx) ==
    [i \in 1..6 |-> IF i = 2 * (rowidx + 1) + curfield + 1 THEN value ELSE <<77, 0>>]

sqlite3_row_data(a, table, curfield, rowidx, numfields) ==
    LET raw == TableCell(table, curfield, rowidx, numfields)
    IN  IF raw = SqlNull THEN Unset
        ELSE IF a.type \in Scalars THEN Scalar(a, raw)
        ELSE IF a.type = "BINARY"
        THEN LET bytes == dbd_decode_binary(CString(raw)) IN Field("d_string", bytes, Len(bytes))
        ELSE Field("d_string", CString(raw), Len(CString(raw)))

\* The sqlite driver reads its rows the same way.
sqlite_row_data(a, table, curfield, rowidx, numfields) ==
    sqlite3_row_data(a, table, curfield, rowidx, numfields)

-----------------------------------------------------------------------------
(* msql                                                                     *)

msql_types ==
    [UINT |-> UInt(3), INT |-> SInt(3), UINT64 |-> UInt(8), INT64 |-> SInt(8),
     UINT8 |-> UInt(1), INT8 |-> SInt(1), UINT16 |-> UInt(2), INT16 |-> SInt(2),
     BYTE |-> SInt(1), DATE |-> Time(1), TIME |-> Time(2), REAL |-> Dec(4)]

translate_msql_type(column) ==
    IF column.type \in DOMAIN msql_types THEN msql_types[column.type] ELSE Str

msql_field_info(column) == translate_msql_type(column)

\* The NULL flag is set, but the NULL pointer is read all the same.
msql_row_data(a, raw) ==
    IF raw = SqlNull THEN [NullField EXCEPT !.member = "crash"]
    ELSE IF a.type \in Scalars THEN Scalar(a, raw)
    ELSE Field("d_string", CString(raw), Len(CString(raw)))

-----------------------------------------------------------------------------
(* freetds: ct_bind() writes into the union or into a buffer                *)

freetds_types ==
    [LONG |-> SInt(8), INT |-> SInt(4), SMALLINT |-> SInt(2), BIT |-> SInt(1), TINYINT |-> SInt(1),
     DATETIME |-> Time(3), DATETIME4 |-> Time(3), REAL |-> Dec(4), FLOAT |-> Dec(8),
     CHAR |-> Str, TEXT |-> Str, VARCHAR |-> Str]

translate_freetds_type(column) ==
    IF column.type \in DOMAIN freetds_types THEN freetds_types[column.type] ELSE Bin

Decoded == {"UNIQUE", "IMAGE", "BINARY", "VARBINARY", "UNICHAR"}

\* The field after the row was fetched and, with the next call, converted.
freetds_row_data(a, column, raw) ==
    CASE a.type = "INTEGER" ->
           Field(IntMember(a.size), <<Signed(raw[1], MemberBytes[IntMember(a.size)]), 0>>, 0)
      [] a.type = "DECIMAL" -> Field(DecMember(a.size), raw, 0)
      [] a.type = "DATETIME" -> TimeField(a, raw)
      [] a.type = "STRING" -> Field("d_string", Append(raw, 0), Len(CString(raw)))
      [] a.type = "BINARY" /\ column.type \in Decoded ->
           LET bytes == dbd_decode_binary(raw) IN Field("d_string", bytes, Len(bytes))
      [] OTHER -> Field("d_string", <<>>, 1)    \* the server's binary number

-----------------------------------------------------------------------------
(* oracle: flag is a scale other than 0                                     *)

\* _translate_oracle_type() takes the sb1 scale as ub1: FLOAT's -127 is 129.
ScaleIsPositive(scale) == scale % 256 > 0

oracle_types ==
    [INT |-> SInt(8), LNG |-> SInt(8), FLT |-> Dec(8), BIN |-> Bin, LBI |-> Bin, DAT |-> Time(0)]

translate_oracle_type(type, scale) ==
    IF type = "NUM" THEN IF ScaleIsPositive(scale) THEN Dec(8) ELSE SInt(8)
    ELSE IF type \in DOMAIN oracle_types THEN oracle_types[type] ELSE Str

\* Only a NUMBER's scale is asked for.
oracle_field_info(column) ==
    translate_oracle_type(column.type, IF column.type = "NUM" THEN column.flag ELSE 0)

\* tm_mon and tm_year are not adjusted to struct tm's counting: another date.
oradate_to_time_t(raw) == <<raw[1] + 1, raw[2]>>

ChopBlanks(s) ==
    SubSeq(s, 1, CHOOSE n \in 0..Len(s) : /\ n = 0 \/ s[n] # 32
                                         /\ \A i \in (n + 1)..Len(s) : s[i] = 32)

\* Columns are fetched as texts into buffers of the column's width, of which
\* what lies behind the terminator was never written: junk.  chop: the
\* option oracle_chop_blanks.
oracle_row_data(a, raw, width, junk, chop) ==
    LET cols == SubSeq(raw \o <<0>> \o [i \in 1..width |-> junk], 1, width)
        kept == IF chop /\ CString(cols) # <<>> THEN ChopBlanks(cols) ELSE cols
    IN  CASE a.type = "INTEGER" -> Field("d_longlong", <<Saturated(raw[1]), 0>>, 0)
          [] a.type = "DECIMAL" -> Field("d_double", raw, 0)
          [] a.type = "DATETIME" -> Field("d_datetime", oradate_to_time_t(raw), 0)
          [] a.type = "STRING" -> Field("d_string", Append(kept, 0), Len(kept))
          [] a.type = "BINARY" -> Field("d_string", cols, width)

-----------------------------------------------------------------------------
(* ingres: a column's type holds its length too                             *)

ingres_types ==
    [INT1 |-> SInt(1), INT2 |-> SInt(2), INT4 |-> SInt(4), INT8 |-> SInt(8), FLT4 |-> Dec(4),
     FLT8 |-> Dec(8), LOGKEY |-> Bin, TABKEY |-> Bin, LBYTE |-> Bin, VBYTE |-> Bin, BYTE |-> Bin,
     VCH |-> Str, LVCH |-> Str, TXT |-> Str, CHR |-> Str, CHA |-> Str, LTXT |-> Str, NCHA |-> Str,
     NVCH |-> Str, LNVCH |-> Str, DEC |-> Str, MNY |-> Str, DTE |-> Time(0)]

ingres_classify_field(column) == ingres_types[column.type]

\* The text of a date: numbers, these separators, and names of months.
dash == -1
blank == -2
colon == -3
MonthName(m) == -10 - m
BadDate == <<>>

\* Mutated: the day and the month change places.
BrokenDown_us(mday, mon, year, time) == <<mon + 1, mday - 1, year>> \o time

\* struct tm
BrokenDown(mday, mon, year, time) == <<mday, mon, year>> \o time

\* The number at a place of the text; the separator behind the month; the
\* first thing behind blanks.
atoi(raw, i) == IF i <= Len(raw) /\ raw[i] >= 0 THEN raw[i] ELSE 0
SecondSep(raw) == First({i \in 3..Len(raw) : raw[i] = raw[2]})
BehindBlanks(raw, from) == First({i \in from..Len(raw) : raw[i] # blank})

\* "dd-mmm-yyyy [hh:mm:ss]".  After a month in digits the separator is not
\* skipped, and atoi() reads the year with a dash as its sign.
ingres_date(raw) ==
    LET sep    == SecondSep(raw)
        digits == raw[3] >= 0
        y      == IF digits THEN sep ELSE sep + 1
        year   == IF digits /\ raw[y] = dash THEN -atoi(raw, y + 1) ELSE atoi(raw, y)
        mon    == IF digits THEN raw[3] - 1 ELSE -10 - raw[3]
        t      == BehindBlanks(raw, IF digits THEN y ELSE y + 1)
    IN  IF Len(raw) < 3 \/ raw[1] < 0 \/ sep = 0 \/ y > Len(raw) THEN BadDate
        ELSE IF t = 0 \/ raw[t] < 0 THEN BrokenDown(raw[1], mon, year, <<0, 0, 0>>)
        ELSE IF Len(raw) < t + 3 THEN BadDate
        ELSE BrokenDown(raw[1], mon, year, <<raw[t], atoi(raw, t + 2), atoi(raw, t + 4)>>)

\* raw: the fetched value, converted to text where the driver asks for that.
ingres_field(column, raw) ==
    CASE column.type = "DTE" -> Field("d_datetime", ingres_date(raw), 0)
      [] column.type \in {"DEC", "MNY"} ->
           LET s == ChopBlanks(raw) IN Field("d_string", Append(s, 0), Len(s))
      [] column.type \in {"NCHA", "NVCH", "VCH", "VBYTE", "TXT", "BYTE", "CHR", "CHA", "LOGKEY", "TABKEY"} ->
           Field("d_string", Append(raw, 0), Len(raw))
      [] column.type \in {"INT1", "INT2", "INT4", "INT8"} ->
           Field(IntMember(ingres_types[column.type].size), raw, 0)
      [] column.type \in {"FLT4", "FLT8"} -> Field(DecMember(ingres_types[column.type].size), raw, 0)
      [] OTHER -> Unset

\* The caller, ingres_results(), looks at the NULL indicator first.
ingres_row_data(column, raw) == IF raw = SqlNull THEN NullField ELSE ingres_field(column, raw)
=============================================================================
