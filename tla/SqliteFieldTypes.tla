-------------------------- MODULE SqliteFieldTypes --------------------------
(***************************************************************************)
(* How the SQLite drivers find the type of a result column.  SQLite does   *)
(* not tell, so both read the caller's statement to learn which column of  *)
(* which table a result column comes from, and take the type that it was   *)
(* declared with: drivers/sqlite3/dbd_sqlite3.c from PRAGMA table_info,    *)
(* drivers/sqlite/dbd_sqlite.c (SQLite 2, operators named v2_) from the    *)
(* text of the CREATE TABLE statement.                                     *)
(* A schema maps a table's name to its columns [name, type]; statements,   *)
(* names and types are texts as in CStrings.                               *)
(***************************************************************************)
EXTENDS CStrings
LOCAL INSTANCE SequencesExt

CONSTANT MAX_TABLES_IN_QUERY   \* entries of the tables array (50 in the driver)

ASSUME MaxTablesAssumption == MAX_TABLES_IN_QUERY \in Nat

AfterDot(t) == Drop(t, strchr(t, "."))
BeforeDot(t) == SubSeq(t, 1, strchr(t, ".") - 1)

\* The first rule of which a word occurs in the text decides.
Classify(rules, text) ==
    LET i == SelectInSeq(rules, LAMBDA r : \E w \in r.words : strstr(text, w) # 0)
    IN  IF i = 0 THEN "STRING" ELSE rules[i].type

Rule(type, words) == [type |-> type, words |-> words]

-----------------------------------------------------------------------------
(* The type names: parts of a name are lexemes, <<"VAR", "CHAR">>.          *)

TextRule == Rule("STRING", {<<"CHAR", "(">>, <<"CLOB">>, <<"TEXT">>, <<"VAR", "CHAR">>,
                            <<"ENUM">>, <<"SET">>, <<"YEAR">>})
BlobRule == Rule("BLOB", {<<"BLOB">>, <<"BYTEA">>})
TinyRule == Rule("TINY", {<<"CHAR">>, <<"TINY", "INT">>, <<"INT", "1">>})
SmallRules == <<TinyRule, Rule("SHORT", {<<"SMALL", "INT">>, <<"INT", "2">>}),
                Rule("INT24", {<<"MEDIUM", "INT">>})>>
BigRule == Rule("LONGLONG", {<<"BIG", "INT">>, <<"INT", "8">>})
KeyRule == Rule("LONGLONG", {<<"INT", "EGER", " ", "PRIMARY", " ", "KEY">>})

OtherRules ==
    <<Rule("LONG", {<<"INT">>}),
      Rule("DECIMAL", {<<"DECIMAL">>, <<"NUMERIC">>}),
      Rule("TIMESTAMP", {<<"TIME", "STAMP">>, <<"DATE", "TIME">>}),
      Rule("DATE", {<<"DATE">>}), Rule("TIME", {<<"TIME">>}),
      Rule("DOUBLE", {<<"DOUBLE">>, <<"FLOAT", "8">>}),
      Rule("FLOAT", {<<"REAL">>, <<"FLOAT">>})>>

TypeRules == <<TextRule, BlobRule>> \o SmallRules \o <<BigRule, KeyRule>> \o OtherRules
v2_TypeRules == <<BlobRule, TextRule>> \o SmallRules \o <<BigRule>> \o OtherRules

-----------------------------------------------------------------------------
(* sqlite3: what the statement says about the column                        *)

Call(f) == <<f, "(">>

\* Functions that are not named here, and those that the driver lists as
\* returning text, give a string.
FunctionRules ==
    <<Rule("FLOAT", {Call("avg"), Call("sum"), Call("total"), Call("abs"), Call("round")}),
      Rule("LONG", {Call("julianday"), Call("count"), Call("max"), Call("min"),
                    Call("last_insert_rowid"), Call("length")}),
      Rule("LONGLONG", {Call("random")}),
      Rule("BLOB", {Call("randomblob"), Call("zeroblob")})>>

\* Brackets that are still open after t, where n were open before it; the
\* rest of t is not looked at once they are all closed.
RECURSIVE Opens(_, _)
Opens(t, n) ==
    IF n = 0 \/ t = <<>> THEN n
    ELSE Opens(Tail(t), CASE Head(t) = "(" -> n + 1 [] Head(t) = ")" -> n - 1 [] OTHER -> n)

\* Take tokens until the brackets are closed.  At the end of the statement
\* strtok_r() returns NULL, which the loop reads through.
RECURSIVE Close(_, _, _)
Close(token, toks, n) ==
    IF n = 0 THEN [token |-> token, toks |-> toks, null |-> FALSE]
    ELSE IF toks = <<>> THEN [token |-> <<>>, toks |-> <<>>, null |-> TRUE]
    ELSE Close(Head(toks), Tail(toks), Opens(Head(toks), n))

\* Mutated: a bracketed column ends with its first token.
Column_no_close(token, toks) ==
    LET p == strchr(token, "(")
    IN  [kind |-> IF p = 0 THEN "field" ELSE IF p = 1 THEN "expression" ELSE "function",
         last |-> [token |-> token, toks |-> toks, null |-> FALSE]]

\* A token of the column list: a column, an expression in brackets or a
\* function call, the last two with all the tokens up to the closing bracket.
Column(token, toks) ==
    LET p == strchr(token, "(")
    IN  [kind |-> IF p = 0 THEN "field" ELSE IF p = 1 THEN "expression" ELSE "function",
         last |-> Close(token, toks, IF p = 0 THEN 0 ELSE Opens(Drop(token, p), 1))]

\* An alias was found for the column in st.item: returns its type, or goes
\* on with the column's own name.
Aliased(st) ==
    CASE st.kind = "expression" -> [st EXCEPT !.ret = "STRING"]
      [] st.kind = "function"   -> [st EXCEPT !.ret = Classify(FunctionRules, st.item)]
      [] OTHER -> [st EXCEPT !.field = AfterDot(st.item), !.as = FALSE]

\* The token loop.  st: the flags, the last column seen (itemstore) and its
\* kind, the name looked for, and the type if the function returns it.
RECURSIVE ResolveTokens(_, _)
ResolveTokens(toks, st) ==
    IF toks = <<>> \/ st.ret # "" THEN st
    ELSE LET token == AfterDot(Head(toks))
             rest  == Tail(toks)
         IN  CASE st.from ->
                    ResolveTokens(rest, [st EXCEPT !.from =
                        token \notin {<<"select">>, <<"SELECT">>, <<"(", "select">>, <<"(", "SELECT">>}])
               [] ~st.from /\ st.as ->
                    ResolveTokens(rest, IF token = st.field THEN Aliased(st)
                                        ELSE [st EXCEPT !.as = FALSE])
               [] ~st.from /\ ~st.as /\ token \in {<<"as">>, <<"AS">>} ->
                    ResolveTokens(rest, [st EXCEPT !.as = TRUE])
               [] OTHER ->
                    LET c == Column(token, rest)
                    IN  ResolveTokens(c.last.toks,
                          [st EXCEPT !.kind = c.kind, !.item = token,
                                     !.from = c.last.token \in {<<"from">>, <<"FROM">>},
                                     !.ret = IF c.last.null THEN "crash" ELSE ""])

-----------------------------------------------------------------------------
(* sqlite3: the tables of the statement                                     *)

endwords == {"where", "group", "having", "union", "intersect", "except", "order", "limit"}
nottables == {"natural", "left", "right", "full", "outer", "inner", "cross", "join", "as"}
Is(word, names) == Len(word) = 1 /\ word[1] \in names

\* Characters of a text.
RECURSIVE strlen(_)
strlen(t) == IF t = <<>> THEN 0 ELSE Len(Head(t)) + strlen(Tail(t))

\* Position of the bracket that closes the one in front of s, 0 if none.
CloseAt(s) ==
    LET at == {i \in 1..Len(s) : Opens(SubSeq(s, 1, i), 1) = 0}
    IN  IF at = {} THEN 0 ELSE CHOOSE i \in at : \A j \in at : i <= j

\* "we can ignore everything until the next ',' or 'join'": the text after
\* that, and whether it was a join.  The end of the statement stops neither
\* loop, and words are copied into a buffer of the joined table's length.
RECURSIVE SkipJoined(_, _)
SkipJoined(s, room) ==
    IF s # <<>> /\ Head(s) = " " THEN SkipJoined(Tail(s), room)
    ELSE LET close == IF s # <<>> /\ Head(s) = "(" THEN CloseAt(Tail(s)) + 1 ELSE 0
             n == close + strcspn(Drop(s, close), {",", " ", "("})
             word == SubSeq(s, 1, n)
         IN  CASE close = 1 \/ n = Len(s) -> [s |-> <<>>, join |-> FALSE, outside |-> TRUE]
               [] close # 1 /\ n < Len(s) /\ s[n + 1] = "," ->
                    [s |-> Drop(s, n), join |-> FALSE, outside |-> FALSE]
               [] OTHER ->
                    IF strlen(word) > room THEN [s |-> <<>>, join |-> FALSE, outside |-> TRUE]
                    ELSE IF word = <<"join">> THEN [s |-> Drop(s, n), join |-> TRUE, outside |-> FALSE]
                    ELSE SkipJoined(Drop(s, n), room)

EndsList(word) == Is(word, endwords)

RECURSIVE getTables(_, _)
RECURSIVE ScanTables(_, _, _, _)

\* getTables(): the tables found so far and whether memory outside the
\* statement, the word buffer or the tables array was touched.
getTables(found, statement) ==
    LET lower == strstr(statement, <<" ", "from", " ">>)
        at    == IF lower # 0 THEN lower ELSE strstr(statement, <<" ", "FROM", " ">>)
    IN  IF at = 0 THEN found ELSE ScanTables(Drop(statement, at + 2), found, FALSE, FALSE)

ScanTables(s, found, join_flag, as_flag) ==
    IF s = <<>> \/ found.outside THEN found
    ELSE IF Head(s) \in {" ", ","} THEN ScanTables(Tail(s), found, join_flag, as_flag)
    ELSE IF Head(s) = "("
    THEN LET close == CloseAt(Tail(s))
         IN  IF close = 0 THEN [found EXCEPT !.outside = TRUE]
             ELSE ScanTables(Drop(s, close + 1), getTables(found, SubSeq(s, 2, close)),
                             join_flag, as_flag)
    ELSE LET n    == strcspn(s, {",", " ", ")", ";"})
             word == SubSeq(s, 1, n)
             rest == Drop(s, n + 1)
         IN  CASE EndsList(word) -> found
               [] ~EndsList(word) /\ Is(word, nottables) ->
                    ScanTables(rest, found, join_flag \/ Is(word, {"join"}),
                               as_flag \/ Is(word, {"as"}))
               [] ~EndsList(word) /\ ~Is(word, nottables) /\ as_flag ->
                    ScanTables(rest, found, join_flag, FALSE)
               [] OTHER ->
                    LET added == [tables |-> Append(found.tables, word),
                                  outside |-> Len(found.tables) = MAX_TABLES_IN_QUERY]
                        skip  == SkipJoined(Drop(s, n), strlen(word))
                    IN  IF ~join_flag THEN ScanTables(rest, added, FALSE, FALSE)
                        ELSE ScanTables(Drop(skip.s, 1),
                               [added EXCEPT !.outside = @ \/ skip.outside], skip.join, FALSE)

NoTables == [tables |-> <<>>, outside |-> FALSE]

-----------------------------------------------------------------------------
(* sqlite3: the declared type                                               *)

\* PRAGMA table_info: no rows for a name that is not a table.
table_info(schema, table) ==
    IF Is(table, DOMAIN schema) THEN schema[table[1]] ELSE <<>>

\* The type of the last row with the field's name, in a set; {} if none.
get_field_type(rows, field) ==
    LET i == SelectLastInSeq(rows, LAMBDA r : <<r.name>> = field)
    IN  IF i = 0 THEN {} ELSE {rows[i].type}

\* "crash" and "outside" stand for the undefined behaviour that the scans
\* run into.
find_result_field_types(field, statement, schema) ==
    LET table  == BeforeDot(field)
        st     == ResolveTokens(strtok(statement, {" ", ",", ";"}),
                    [from |-> FALSE, as |-> FALSE, item |-> <<>>, kind |-> "field",
                     field |-> AfterDot(field), ret |-> ""])
        list   == IF table # <<>> THEN [tables |-> <<table>>, outside |-> FALSE]
                  ELSE getTables(NoTables, statement)
        found(t) == get_field_type(table_info(schema, t), st.field)
        hit    == SelectInSeq(list.tables, LAMBDA t : found(t) # {})
    IN  IF st.ret # "" THEN st.ret
        ELSE IF list.outside THEN "outside"
        ELSE IF hit = 0 THEN "STRING"
        ELSE Classify(TypeRules, CHOOSE t \in found(list.tables[hit]) : TRUE)

-----------------------------------------------------------------------------
(* sqlite: the CREATE TABLE statement                                       *)

Blanks(s) == strcspn(s, {x \in {s[i] : i \in 1..Len(s)} : x # " "})

\* One turn of the strtok(",") loop of get_field_type().  The search for the
\* blank behind the field's name does not stop at the end of the item: it
\* then ends the string, and the list with it, inside the items that follow.
RECURSIVE v2_FieldItems(_, _)
v2_FieldItems(s, field) ==
    LET text  == Drop(s, strcspn(s, {x \in {s[i] : i \in 1..Len(s)} : x # ","}))
        n     == strcspn(text, {","})
        item  == Drop(SubSeq(text, 1, n), Blanks(SubSeq(text, 1, n)))
        after == Drop(text, n + 1)
        blank == strchr(item, " ")
        past  == strchr(after, " ")
    IN  IF text = <<>> THEN {}
        ELSE IF blank # 0
        THEN IF SubSeq(item, 1, blank - 1) = field
             THEN {Drop(item, blank - 1 + Blanks(Drop(item, blank - 1)))}
             ELSE v2_FieldItems(after, field)
        ELSE IF past = 0 THEN {<<"outside">>}
        ELSE IF item = field THEN {Drop(after, past - 1 + Blanks(Drop(after, past - 1)))}
        ELSE v2_FieldItems(SubSeq(after, 1, past - 1), field)

v2_get_field_type(create, field) ==
    LET open == strchr(create, "(")
    IN  IF open = 0 THEN {} ELSE v2_FieldItems(Drop(create, open), field)

v2_FunctionRules ==
    <<Rule("LONG", {Call("abs"), Call("last_insert_rowid"), Call("length"), Call("max"),
                    Call("min"), <<"random", "(", "*", ")">>, Call("round"), Call("avg"),
                    Call("count"), Call("sum")}),
      Rule("TEXT", {Call("coalesce"), Call("glob"), Call("like"), Call("lower"),
                    Call("substr"), Call("upper")})>>

\* The column list has the field with its table in front, "table.field".
v2_Qualified(field, list) ==
    LET at == strstr(list, field) IN at > 1 /\ list[at - 1] = "."

\* That table, or the first one after "from".
v2_TableOf(field, statement, from) ==
    LET list  == SubSeq(statement, 1, from - 1)
        at    == strstr(list, field)
        delim == {i \in 1..(at - 1) : list[i] \in {" ", ","}}
        start == IF delim = {} THEN 1 ELSE 1 + CHOOSE i \in delim : \A j \in delim : j <= i
        rest  == Drop(statement, from + 2)
        first == Drop(rest, Blanks(rest))
    IN  IF v2_Qualified(field, list) THEN SubSeq(list, start, at - 2)
        ELSE SubSeq(first, 1, strcspn(first, {" ", ",", ";"}))

\* find_result_field_types() of the sqlite driver; create: the text of each
\* table's CREATE TABLE statement.  0, its result for "not found", is
\* FIELD_TYPE_DECIMAL.
v2_find_result_field_types(field, statement, create) ==
    LET lower == strstr(statement, <<" ", "from", " ">>)
        from  == IF lower # 0 THEN lower ELSE strstr(statement, <<" ", "FROM", " ">>)
        dot   == strchr(field, ".")
        table == IF dot # 0 THEN BeforeDot(field) ELSE v2_TableOf(field, statement, from)
        name  == AfterDot(field)
        function == Classify(v2_FunctionRules, name)
        known == Is(table, DOMAIN create)
        type  == IF known THEN v2_get_field_type(create[table[1]], name) ELSE {}
    IN  CASE dot = 0 /\ from = 0 -> "DECIMAL"
          [] dot = 0 /\ from # 0 /\ ~v2_Qualified(field, SubSeq(statement, 1, from - 1))
             /\ Is(table, {"sqlite_master", "sqlite_temp_master"}) ->
               IF field = <<"rootpage">> THEN "LONG" ELSE "STRING"
          [] OTHER ->
               IF function = "LONG" THEN "LONG"
               ELSE IF function = "TEXT" THEN "STRING"
               ELSE IF type = {} THEN "DECIMAL"
               ELSE IF type = {<<"outside">>} THEN "outside"
               ELSE Classify(v2_TypeRules, CHOOSE t \in type : TRUE)
=============================================================================
