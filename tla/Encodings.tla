------------------------------ MODULE Encodings ------------------------------
(***************************************************************************)
(* Character encodings: the application names one by its IANA name when it *)
(* connects, dbd_encoding_from_iana() turns it into the engine's name, and *)
(* dbd_get_encoding() turns the engine's answer back.                       *)
(*   mysql    SET NAMES, whose failure is not looked at; "auto" takes the   *)
(*            encoding out of the text of SHOW CREATE DATABASE             *)
(*   pgsql    PQsetClientEncoding(), whose failure is not looked at         *)
(*   firebird a parameter of the attachment; an unknown name refuses it     *)
(*   freetds  never set, only read                                          *)
(* A name is compared as the C code compares it: whole, or, where the      *)
(* code uses strncmp() with the length of the row's name, by its beginning. *)
(***************************************************************************)
EXTENDS Integers, Sequences
LOCAL INSTANCE SequencesExt

\* The tables <<engine's name, IANA name>>, without the empty last row.
mysql_encoding_hash ==
    <<<<"ascii","US-ASCII">>, <<"ujis","EUC-JP">>, <<"euc_kr","EUC-KR">>, <<"euckr","EUC-KR">>,
      <<"utf8","UTF-8">>, <<"latin1","ISO-8859-1">>, <<"latin2","ISO-8859-2">>, <<"latin5","ISO-8859-9">>,
      <<"latin7","ISO-8859-13">>, <<"greek","ISO-8859-7">>, <<"hebrew","ISO-8859-8">>,
      <<"koi8_ru","KOI8-R">>, <<"koi8r","KOI8-R">>, <<"koi8_ukr","KOI8-U">>, <<"koi8u","KOI8-U">>,
      <<"cp1251","windows-1251">>, <<"win1250","windows-1250">>, <<"cp1250","windows-1250">>,
      <<"cp1256","windows-1256">>, <<"win1257","windows-1257">>, <<"cp1257","windows-1257">>,
      <<"cp850","IBM850">>, <<"cp852","IBM852">>, <<"dos","IBM865">>, <<"cp866","IBM866">>,
      <<"big5","Big5">>, <<"gb2312","GB2312">>, <<"sjis","Shift_JIS">>, <<"danish","ISO646-NO">>,
      <<"hungarian","ISO646-HU">>, <<"gbk","GBK">>, <<"ucs2","ISO-10646-UCS-2">>, <<"dec8","DEC-MCS">>,
      <<"tis620","TIS-620">>, <<"hp8","hp-roman8">>>>

pgsql_encoding_hash ==
    <<<<"SQL_ASCII","US-ASCII">>, <<"EUC_JP","EUC-JP">>, <<"EUC_KR","EUC-KR">>, <<"UNICODE","UTF-8">>,
      <<"LATIN1","ISO-8859-1">>, <<"LATIN2","ISO-8859-2">>, <<"LATIN3","ISO-8859-3">>,
      <<"LATIN4","ISO-8859-4">>, <<"LATIN5","ISO-8859-9">>, <<"LATIN6","ISO-8859-10">>,
      <<"LATIN7","ISO-8859-13">>, <<"LATIN8","ISO-8859-14">>, <<"LATIN9","ISO-8859-15">>,
      <<"LATIN10","ISO-8859-16">>, <<"ISO-8859-5","ISO-8859-5">>, <<"ISO-8859-6","ISO-8859-6">>,
      <<"ISO-8859-7","ISO-8859-7">>, <<"ISO-8859-8","ISO-8859-8">>, <<"KOI8","KOI8-R">>,
      <<"WIN","windows-1251">>, <<"ALT","IBM866">>>>

freetds_encoding_hash ==
    <<<<"iso_1","ISO-8859-1">>, <<"ascii_8","ISO-8859-1">>, <<"utf8","UTF-8">>, <<"big5","BIG-5">>,
      <<"cp1250","CP1250">>, <<"cp1251","CP1251">>, <<"cp1252","CP1252">>, <<"cp1253","CP1253">>,
      <<"cp1254","CP1254">>, <<"cp1255","CP1255">>, <<"cp1256","CP1256">>, <<"cp1257","CP1257">>,
      <<"cp1258","CP1258">>, <<"cp437","CP437">>, <<"cp850","CP850">>, <<"cp862","CP862">>,
      <<"cp866","CP866">>, <<"cp874","CP874">>, <<"cp932","CP932">>, <<"cp936","CP936">>,
      <<"cp949","CP949">>, <<"cp950","CP950">>, <<"iso10","ISO-8859-10">>, <<"iso13","ISO-8859-13">>,
      <<"iso14","ISO-8859-14">>, <<"iso15","ISO-8859-15">>, <<"iso88592","ISO-8859-2">>,
      <<"iso88595","ISO-8859-5">>, <<"iso88596","ISO-8859-6">>, <<"iso88597","ISO-8859-7">>,
      <<"greek8","ISO-8859-7">>, <<"iso88598","ISO-8859-8">>, <<"iso88599","ISO-8859-9">>,
      <<"tis620","ISO-IR-166">>, <<"koi8","KOI8-R">>, <<"mac","MAC">>, <<"mac_cyr","MACCYRILLIC">>,
      <<"macgreek","MACGREEK">>, <<"macthai","MACTHAI">>, <<"macturk","MACTURKISH">>, <<"roman8","ROMAN8">>,
      <<"sjis","SJIS">>, <<"iso646","US-ASCII">>>>

firebird_encoding_hash ==
    <<<<"NONE","US-ASCII">>, <<"ASCII","US-ASCII">>, <<"ASCII7","US-ASCII">>, <<"USASCII","US-ASCII">>,
      <<"DOS437","US-ASCII">>, <<"DOS_437","">>, <<"BIG_5","Big5">>, <<"BIG5, , ","Big5">>,
      <<"WIN_950","Big5">>, <<"DOS_950","Big5">>, <<"DOS737","latin-greek">>, <<"DOS_737","latin-greek">>,
      <<"DOS775","ISO-8859-7">>, <<"DOS850","ISO-8859-1">>, <<"LATIN1","ISO-8859-1">>,
      <<"DOS_850","ISO-8859-1">>, <<"DOS852","ISO-8859-2">>, <<"LATIN2","ISO-8859-2">>,
      <<"DOS_852","ISO-8859-2">>, <<"DOS857","IBM857">>, <<"DOS_857","IBM857">>, <<"DOS858","">>,
      <<"DOS_858","">>, <<"DOS860","PT">>, <<"DOS_860","PT">>, <<"DOS861","ISO-8859-1">>,
      <<"DOS_861","ISO-8859-1">>, <<"DOS862","ISO-8859-8">>, <<"DOS_862","ISO-8859-8">>,
      <<"DOS863","ISO646-FR">>, <<"DOS_863","ISO646-FR">>, <<"DOS864","ISO-8859-6">>,
      <<"DOS_864","ISO-8859-6">>, <<"DOS865","ISO_8859-1">>, <<"DOS_865","ISO_8859-1">>, <<"DOS866","">>,
      <<"DOS_866","">>, <<"DOS869","ISO-8859-7">>, <<"DOS_869","ISO-8859-7">>, <<"EUCJ_0208","">>,
      <<"EUCJ","ISO-10646-J-1">>, <<"GB_2312","">>, <<"DOS_936","">>, <<"WIN_936","">>, <<"GB2312","">>,
      <<"ISO8859_1","ISO-8859-1">>, <<"ISO8859_2","ISO-8859-2">>, <<"ISO-8859-2","ISO-8859-2">>,
      <<"LATIN2","ISO-8859-2">>, <<"ISO88592","ISO-8859-2">>, <<"ISO8859_3","ISO-8859-3">>,
      <<"ISO-8859-3","ISO-8859-3">>, <<"LATIN3","ISO-8859-3">>, <<"ISO88593","ISO-8859-3">>,
      <<"ISO8859_4","ISO-8859-4">>, <<"ISO-8859-4","ISO-8859-4">>, <<"LATIN4","ISO-8859-4">>,
      <<"ISO88594","ISO-8859-4">>, <<"ISO8859_6","ISO-8859-6">>, <<"ISO-8859-6","ISO-8859-6">>,
      <<"ISO8859_7","ISO-8859-7">>, <<"ISO-8859-7","ISO-8859-7">>, <<"ISO88597","ISO-8859-7">>,
      <<"ISO8859_8","ISO-8859-8">>, <<"ISO-8859-8","ISO-8859-8">>, <<"ISO88598","ISO-8859-8">>,
      <<"ISO8859_9","ISO-8859-9">>, <<"ISO-8859-9","ISO-8859-9">>, <<"LATIN5","ISO-8859-9">>,
      <<"ISO88599","ISO-8859-9">>, <<"ISO8859_13","ISO-8859-13">>, <<"ISO-8859-13","ISO-8859-13">>,
      <<"LATIN7","ISO-8859-13">>, <<"ISO885913","ISO-8859-13">>, <<"KSC_5601","iso-ir-149">>,
      <<"OS_949","iso-ir-149">>, <<"WIN_949","iso-ir-149">>, <<"KSC5601","iso-ir-149">>, <<"OCTETS","">>,
      <<"BINARY","">>, <<"SJIS_0208","Shift_JIS">>, <<"SJIS","Shift_JIS">>, <<"UNICODE_FSS","UTF-8">>,
      <<"SQL_TEXT","UTF-8">>, <<"UTF_FSS","UTF-8">>, <<"UTF-8","UTF-8">>, <<"UTF8","UTF-8">>,
      <<"WIN1250","windows-1250">>, <<"WIN_1250","windows-1250">>, <<"WIN1251","windows-1251">>,
      <<"WIN_1251","windows-1251">>, <<"WIN1252","windows-1252">>, <<"WIN_1252","windows-1252">>,
      <<"WIN1253","windows-1253">>, <<"WIN_1253","windows-1253">>, <<"WIN1254","windows-1254">>,
      <<"WIN_1254","windows-1254">>, <<"WIN1255","windows-1255">>, <<"WIN_1255","windows-1255">>,
      <<"WIN1256","windows-1256">>, <<"WIN_1256","windows-1256">>, <<"WIN1257","windows-1257">>,
      <<"WIN_1257","windows-1257">>>>

encoding_hash ==
    [mysql |-> mysql_encoding_hash, pgsql |-> pgsql_encoding_hash,
     freetds |-> freetds_encoding_hash, firebird |-> firebird_encoding_hash]

\* strncmp(prefix, name, strlen(prefix)) == 0
StartsWith(name, prefix) == Len(prefix) <= Len(name) /\ SubSeq(name, 1, Len(prefix)) = prefix

\* Mutated: names are compared whole in every driver.
SameName_whole(driver, row, name) == row = name

\* The comparison of dbd_encoding_to_iana().
SameName(driver, row, name) == IF driver = "pgsql" THEN row = name ELSE StartsWith(name, row)

\* The first row whose engine's name fits; without one the name itself.
dbd_encoding_to_iana(driver, name) ==
    LET table == encoding_hash[driver]
        i == SelectInSeq(table, LAMBDA row : SameName(driver, row[1], name))
    IN  IF i = 0 THEN name ELSE table[i][2]

\* The first row with the IANA name.  The loop ends at an empty IANA name,
\* which the firebird driver's table has in its sixth row.
dbd_encoding_from_iana(driver, iana) ==
    LET table == encoding_hash[driver]
        i == SelectInSeq(table, LAMBDA row : row[2] \in {iana, ""})
    IN  IF i = 0 \/ table[i][2] = "" THEN iana ELSE table[i][1]

\* No option, or no answer.
Null == "NULL"
\* What a variable without a value may hold instead.
Garbage == "garbage"

-----------------------------------------------------------------------------
(* s.option    option "encoding": an IANA name, "auto" or Null              *)
(* s.database  the encoding of the database, by its engine's name           *)
(* s.default   the connection's encoding before the driver sets one         *)
(* s.accepted  the statement or the call that sets the encoding succeeds    *)
(* s.answered  the catalog query of dbd_get_encoding() succeeds             *)

\* dbd_get_encoding() with the connection's encoding at client.  The text
\* goes on after the name in the answer to SHOW CREATE DATABASE; the other
\* queries of the mysql driver answer with the connection's encoding.
mysql_get_encoding(s, client) ==
    {dbd_encoding_to_iana("mysql",
        IF s.option = "auto" /\ s.answered THEN s.database \o " */" ELSE client)}

\* dbd_connect(), the part after mysql_real_connect(): the connection's
\* encoding when it returns.
mysql_connect(s) ==
    IF s.option = Null \/ ~s.accepted THEN {s.default}
    ELSE {dbd_encoding_from_iana("mysql", iana) :
            iana \in IF s.option = "auto" THEN mysql_get_encoding(s, s.default) ELSE {s.option}}

\* Without an option the encoding of the database is asked for, and my_enc
\* has no value when the query fails.
pgsql_get_encoding(s, client) ==
    IF s.option # Null THEN {dbd_encoding_to_iana("pgsql", client)}
    ELSE IF s.answered THEN {dbd_encoding_to_iana("pgsql", s.database)} ELSE {Null, Garbage}

pgsql_connect(s) ==
    IF s.option \in {Null, "auto"} \/ ~s.accepted THEN {s.default}
    ELSE {dbd_encoding_from_iana("pgsql", s.option)}

\* iconn->charset, which is the option as it was given.
charset(s) == IF s.option = Null THEN "NONE" ELSE s.option

firebird_get_encoding(s, client) == {dbd_encoding_to_iana("firebird", charset(s))}

\* The server attaches only with a character set that it has, by one of the
\* names of the table.
firebird_connect(s) ==
    {dbd_encoding_from_iana("firebird", charset(s))}
        \cap {row[1] : row \in ToSet(firebird_encoding_hash)}

freetds_get_encoding(s, client) == {dbd_encoding_to_iana("freetds", client)}
freetds_connect(s) == {s.default}

\* Connect, then ask: pairs of the encoding in use and the name told.
EncodingTold(s) ==
    LET Told(clients, get(_, _)) ==
            UNION {{[client |-> c, told |-> t] : t \in get(s, c)} : c \in clients}
    IN  CASE s.driver = "mysql"    -> Told(mysql_connect(s), mysql_get_encoding)
          [] s.driver = "pgsql"    -> Told(pgsql_connect(s), pgsql_get_encoding)
          [] s.driver = "firebird" -> Told(firebird_connect(s), firebird_get_encoding)
          [] s.driver = "freetds"  -> Told(freetds_connect(s), freetds_get_encoding)
=============================================================================
