------------------------------ MODULE Quoting ------------------------------
(***************************************************************************)
(* dbd_quote_string() and dbd_quote_binary() of every driver, next to how  *)
(* the server reads a literal.  A text is a sequence of character codes;   *)
(* a quoted literal is [text, returned, room]: what was written, the       *)
(* length that the function returns and the size of the buffer.            *)
(***************************************************************************)
EXTENDS FieldValues, Calls

CONSTANTS
    TextChars,  \* characters of texts
    Octets,     \* bytes of binary data
    MaxText,    \* bound: length of a text to quote
    MaxBytes    \* bound: length of binary data to quote

\* A text is a C string.
ASSUME QuotingAssumption ==
    /\ TextChars \subseteq Nat \ {0}
    /\ Octets \subseteq 0..255
    /\ {MaxText, MaxBytes} \subseteq Nat

quote == 39
backslash == 92
dquote == 34
ctrl_z == 26
char_Z == 90
char_0 == 48

\* libdbi gives dest room for every character twice, and 5 more.
Dest(orig) == 2 * Len(orig) + 5

Literal(text, returned, room) == [text |-> text, returned |-> returned, room |-> room]
InQuotes(s) == <<quote>> \o s \o <<quote>>

\* Pieces of text one after the other; from[i] is what follows the first i.
JoinedAt(p, from, i) == IF i = Len(p) THEN <<>> ELSE p[i + 1] \o from[i + 1]
JoinedFrom(p) == LET from[i \in 0..Len(p)] == JoinedAt(p, from, i) IN from
Joined(p) == JoinedFrom(p)[0]

EachChar(s, Esc(_)) == Joined([i \in 1..Len(s) |-> Esc(s[i])])

-----------------------------------------------------------------------------
(* Quotes are doubled: sqlite3, sqlite, oracle, ingres, firebird, freetds   *)

\* Mutated: a quote is left as it is.
Doubled_not(c) == <<c>>

Doubled(c) == IF c = quote THEN <<quote, quote>> ELSE <<c>>

\* "stolen from MySQL": NUL and control-Z get a backslash.
sqlite3_escape_char(c) ==
    CASE c = 0 -> <<backslash, char_0>> [] c = ctrl_z -> <<backslash, char_Z>> [] OTHER -> Doubled(c)

sqlite3_escape_string(from) == EachChar(from, sqlite3_escape_char)

sqlite3_quote_string(orig) ==
    LET s == sqlite3_escape_string(orig) IN Literal(InQuotes(s), Len(s) + 2, Dest(orig))

\* The sqlite and oracle drivers have copies of the two functions.
sqlite_escape_string(from) == sqlite3_escape_string(from)
sqlite_quote_string(orig) == sqlite3_quote_string(orig)
oracle_escape_string(from) == sqlite3_escape_string(from)
oracle_quote_string(orig) == sqlite3_quote_string(orig)

ingres_quote_string(orig) ==
    LET s == InQuotes(EachChar(orig, Doubled)) IN Literal(s, Len(s), Dest(orig))

\* The last turn of the loop copies the terminator, and strcat() puts the
\* quote over it.
firebird_quote_string(orig) ==
    LET s == EachChar(orig, Doubled) \o <<0>>
        j == 1 + Len(s)
    IN  Literal(CString(<<quote>> \o s) \o <<quote>>, j, Dest(orig))

freetds_escape_chars(orig, toescape) ==
    EachChar(orig, LAMBDA c : IF c \in toescape THEN <<quote, c>> ELSE <<c>>)

freetds_quote_string(orig) ==
    LET s == freetds_escape_chars(orig, {quote}) IN Literal(InQuotes(s), Len(s) + 2, Dest(orig))

-----------------------------------------------------------------------------
(* The client library escapes: mysql, pgsql; libdbi does for msql           *)

Backslashed(chars, c) == IF c \in chars THEN <<backslash, c>> ELSE <<c>>

mysql_escape_char(c) ==
    CASE c = 0 -> <<backslash, char_0>> [] c = ctrl_z -> <<backslash, char_Z>>
      [] OTHER -> Backslashed({quote, dquote, backslash}, c)

mysql_real_escape_string(from) == EachChar(from, mysql_escape_char)

mysql_quote_string(orig) ==
    LET s == mysql_real_escape_string(orig) IN Literal(InQuotes(s), Len(s) + 2, Dest(orig))

PQescapeString(from) == EachChar(from, LAMBDA c : IF c \in {quote, backslash} THEN <<c, c>> ELSE <<c>>)

pgsql_quote_string(orig) ==
    LET s == PQescapeString(orig) IN Literal(InQuotes(s), Len(s) + 2, Dest(orig))

dbd_escape_chars(orig, toescape) == EachChar(orig, LAMBDA c : Backslashed(toescape, c))

\* The text is written over the opening quote.
msql_quote_string(orig) ==
    LET s == dbd_escape_chars(orig, {quote, dquote, backslash})
    IN  Literal(Append(s, quote), Len(s) + 2, Dest(orig))

-----------------------------------------------------------------------------
(* Binary literals                                                          *)

\* sqlite3; the copies in sqlite, oracle, firebird, freetds and msql.
encoded_quote_binary(orig) ==
    LET s == IF orig = <<>> THEN <<>> ELSE dbd_encode_binary(orig)
    IN  Literal(InQuotes(s), Len(s) + 2, 2 * Len(orig))

sqlite3_quote_binary(orig) == encoded_quote_binary(orig)
sqlite_quote_binary(orig) == encoded_quote_binary(orig)
oracle_quote_binary(orig) == encoded_quote_binary(orig)
firebird_quote_binary(orig) == encoded_quote_binary(orig)
freetds_quote_binary(orig) == encoded_quote_binary(orig)
msql_quote_binary(orig) == encoded_quote_binary(orig)

\* "plus an extra two escape chars and a terminating zero"
mysql_quote_binary(orig) ==
    LET s == mysql_real_escape_string(orig) IN Literal(InQuotes(s), Len(s) + 2, 2 * Len(orig) + 1 + 2)

\* The bytea text: NUL and backslash as backslash sequences; to_length counts
\* the terminator.
PQescapeBytea(from) ==
    LET s == EachChar(from, LAMBDA c : CASE c = 0 -> <<backslash, backslash, char_0>>
                                         [] c = quote -> <<quote, quote>>
                                         [] c = backslash -> <<c, c, c, c>>
                                         [] OTHER -> <<c>>)
    IN  [text |-> s, to_length |-> Len(s) + 1]

pgsql_quote_binary(orig) ==
    LET temp == PQescapeBytea(orig)
    IN  Literal(InQuotes(temp.text), temp.to_length + 1, temp.to_length + 2)

\* X'..': two digits for each byte; here a byte is its two halves.
ingres_quote_binary(orig) ==
    LET to_length == 2 * Len(orig) + 4
        Digit(k) == LET c == orig[(k + 1) \div 2] IN 100 + IF k % 2 = 1 THEN c \div 16 ELSE c % 16
    IN  Literal(<<88>> \o InQuotes([k \in 1..(2 * Len(orig)) |-> Digit(k)]), to_length, to_length)

-----------------------------------------------------------------------------
(* The server's reading of a literal, in a set; {} for one that does not    *)
(* end where it should.                                                     *)

Meant(c) == CASE c = char_0 -> 0 [] c = char_Z -> ctrl_z [] OTHER -> c

\* What the server does not take as it stands in a literal.
Special(driver) == IF driver \in {"mysql", "pgsql"} THEN {quote, backslash} ELSE {quote}

\* read[q]: the characters of the text behind the q-th.  A backslash that is
\* special begins a sequence, a quote that is special has to be doubled.
UnquoteAt(t, special, read, q) ==
    IF q = Len(t) THEN <<>>
    ELSE IF t[q + 1] \notin special THEN <<t[q + 1]>> \o read[q + 1]
    ELSE IF q + 1 = Len(t) THEN <<-1>>      \* the literal ends elsewhere
    ELSE IF t[q + 1] = backslash THEN <<Meant(t[q + 2])>> \o read[q + 2]
    ELSE IF t[q + 2] = quote THEN <<quote>> \o read[q + 2]
    ELSE <<-1>>

UnquoteFrom(t, special) ==
    LET read[q \in 0..Len(t)] == UnquoteAt(t, special, read, q) IN read
Unquote(t, special) == UnquoteFrom(t, special)[0]

ReadLiteral(text, special) ==
    IF Len(text) < 2 \/ text[1] # quote \/ text[Len(text)] # quote THEN {}
    ELSE LET v == Unquote(SubSeq(text, 2, Len(text) - 1), special)
         IN  IF \E i \in 1..Len(v) : v[i] = -1 THEN {} ELSE {v}

\* bytea takes a second round of backslashes off the literal.
ReadBytea(text) == {Unquote(v, {backslash}) : v \in ReadLiteral(text, Special("pgsql"))}

ReadHex(text) ==
    LET n == (Len(text) - 3) \div 2
    IN  IF Len(text) < 3 \/ text[1] # 88 \/ text[2] # quote \/ text[Len(text)] # quote THEN {}
        ELSE {[i \in 1..n |-> 16 * (text[2 * i + 1] - 100) + text[2 * i + 2] - 100]}

-----------------------------------------------------------------------------
(* Calls *)

Encoders == {"sqlite3", "sqlite", "oracle", "firebird", "freetds", "msql"}
Drivers == Encoders \cup {"mysql", "pgsql", "ingres"}

QuoteInputs ==
    \/ input \in [kind : {"string"}, driver : Drivers,
                  orig : Strings(TextChars, MaxText)]
    \/ input \in [kind : {"binary"}, driver : Drivers, orig : Strings(Octets, MaxBytes)]

dbd_quote_string(driver, orig) ==
    CASE driver = "sqlite3" -> sqlite3_quote_string(orig)
      [] driver = "sqlite" -> sqlite_quote_string(orig)
      [] driver = "oracle" -> oracle_quote_string(orig)
      [] driver = "ingres" -> ingres_quote_string(orig)
      [] driver = "firebird" -> firebird_quote_string(orig)
      [] driver = "freetds" -> freetds_quote_string(orig)
      [] driver = "mysql" -> mysql_quote_string(orig)
      [] driver = "pgsql" -> pgsql_quote_string(orig)
      [] driver = "msql" -> msql_quote_string(orig)

dbd_quote_binary(driver, orig) ==
    CASE driver = "sqlite3" -> sqlite3_quote_binary(orig)
      [] driver = "sqlite" -> sqlite_quote_binary(orig)
      [] driver = "oracle" -> oracle_quote_binary(orig)
      [] driver = "ingres" -> ingres_quote_binary(orig)
      [] driver = "firebird" -> firebird_quote_binary(orig)
      [] driver = "freetds" -> freetds_quote_binary(orig)
      [] driver = "mysql" -> mysql_quote_binary(orig)
      [] driver = "pgsql" -> pgsql_quote_binary(orig)
      [] driver = "msql" -> msql_quote_binary(orig)

\* dbd_quote_string(), and dbd_conn_quote_string(), which calls it.
QuoteString ==
    /\ output = <<>> /\ input.kind = "string"
    /\ UNCHANGED input
    /\ output' = <<dbd_quote_string(input.driver, input.orig)>>

\* dbd_quote_binary()
QuoteBinary ==
    /\ output = <<>> /\ input.kind = "binary"
    /\ UNCHANGED input
    /\ output' = <<dbd_quote_binary(input.driver, input.orig)>>

QuoteInit == output = <<>> /\ QuoteInputs
QuoteSpec == QuoteInit /\ [][QuoteString \/ QuoteBinary]_callVars

-----------------------------------------------------------------------------
(* Properties *)

\* Literals that are known to be wrong: the mSQL driver writes over the
\* opening quote, and the three copies of MySQL's escape function turn
\* control-Z into two characters that these servers do not turn back.
BadLiteral ==
    \/ input.driver = "msql"
    \/ input.driver \in {"sqlite3", "sqlite", "oracle"} /\ \E i \in 1..Len(input.orig) : input.orig[i] = ctrl_z

\* A quoted string ends where it should, whatever quotes, backslashes and
\* control characters it holds, is read by the server as the original, has
\* the length that is returned and fits libdbi's buffer.  Quoted binary data
\* do so too, and come back from the field reader; the buffer of
\* malloc(2 * length) holds them from four bytes on.
QuotedReadBack ==
    /\ Done("string") /\ ~BadLiteral =>
         LET q == output[1]
         IN  /\ ReadLiteral(q.text, Special(input.driver)) = {input.orig}
             /\ q.returned = Len(q.text) /\ Len(q.text) + 1 <= q.room
    /\ Done("binary") =>
         LET q == output[1]
             stored == ReadLiteral(q.text, Special(input.driver))
         IN  /\ q.returned = IF input.driver = "ingres" THEN Len(q.text) + 1 ELSE Len(q.text)
             /\ Len(q.text) + 1 <= q.room <=> input.driver \notin Encoders \/ Len(input.orig) >= 4
             /\ CASE input.driver = "ingres" -> ReadHex(q.text) = {input.orig}
                  [] input.driver = "pgsql" -> ReadBytea(q.text) = {input.orig}
                  [] input.driver = "mysql" -> stored = {input.orig}
                  [] OTHER -> /\ stored # {}
                              /\ input.orig # <<>> =>
                                   \A v \in stored :
                                     dbi_get(Bin, sqlite3_row_data(Bin, SomeTable(v, 0, 0), 0, 0, 2)) = {input.orig}
=============================================================================
