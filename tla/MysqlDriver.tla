---------------------------- MODULE MysqlDriver ----------------------------
(***************************************************************************)
(* Connection and results of drivers/mysql/dbd_mysql.c.  A result is       *)
(* stored on the client; dbd_goto_row() moves the cursor of its MYSQL_RES  *)
(* and dbd_fetch_row() copies the row under the cursor, ignoring the row   *)
(* number that it is given.  With mysql_client_multi_statements one query  *)
(* may have several results, of which the driver takes the first.          *)
(* A MYSQL object is a number (0 is NULL).  libmysqlclient does not        *)
(* reconnect by itself unless asked to, which the driver does not.         *)
(***************************************************************************)
EXTENDS Naturals

CONSTANTS
    Dbs, NoDb,
    MaxConns,       \* bound: MYSQL objects made
    MaxRows,        \* bound: rows of a result
    Multi           \* the multi_statements option is set

ASSUME MysqlAssumption == NoDb \notin Dbs /\ MaxConns \in Nat /\ MaxRows \in Nat /\ Multi \in BOOLEAN

VARIABLES
    connection, \* conn->connection
    current_db, \* conn->current_db
    mysqls,     \* libmysqlclient: MYSQL objects not closed yet
    mydb,       \* the database the server session uses
    up,         \* the server session is alive
    more,       \* SERVER_MORE_RESULTS_EXISTS: results that nobody fetched
    next,       \* the next MYSQL object
    result,     \* the caller's dbi_result_t
    asking,     \* where dbd_get_encoding() is: 0..2 the query that comes next,
                \* Releasing the frees, Done when it is not running
    my_enc,     \* the result that my_enc points into; {} when my_enc is NULL
    dbires,     \* dbires, dbires1 and dbires2: NULL, or what became of the result
    closed,     \* dbd_disconnect() has been called
    outofsync,  \* a statement was refused with CR_COMMANDS_OUT_OF_SYNC
    told, ran   \* as in DbdSession

client == <<mysqls, mydb, up, more, next>>
encoding == <<asking, my_enc, dbires>>
vars == <<connection, current_db, client, result, encoding, closed, outofsync, told, ran>>

NULL == 0

\* n rows, the cursor of the MYSQL_RES, libdbi's row cache and current row.
NoRows == [k \in {} |-> 0]
Stored(n) == [n |-> n, pos |-> 0, rows |-> NoRows, cur |-> 0]

Releasing == 3
Done == 4
Idle == asking = Done

Init ==
    /\ connection = NULL /\ current_db = NoDb
    /\ mysqls = {} /\ mydb = NoDb /\ up = FALSE /\ more = FALSE /\ next = 1
    /\ result = Stored(0)
    /\ asking = Done /\ my_enc = {} /\ dbires = [i \in 0..2 |-> "NULL"]
    /\ closed = FALSE /\ outofsync = FALSE
    /\ told = NoDb /\ ran = NoDb

Open == ~closed /\ connection # NULL
InSync == Open /\ up /\ ~more

-----------------------------------------------------------------------------
(* dbd_get_encoding()                                                       *)

\* The call begins: the character set of the database is asked for only if
\* the encoding option is "auto".
Begin(auto) ==
    /\ asking' = IF auto THEN 0 ELSE 1
    /\ my_enc' = {} /\ dbires' = [i \in 0..2 |-> "NULL"]

\* dbd_get_encoding() called by the application.
GetEncoding ==
    /\ Open /\ Idle
    /\ \E auto \in BOOLEAN : Begin(auto)
    /\ UNCHANGED <<connection, current_db, client, result, closed, outofsync, told, ran>>

\* One catalog query: SHOW CREATE DATABASE, character_set_connection, then
\* character_set of older servers.  It fails and makes no result; makes one
\* that does not name a character set; or one that my_enc then points into.
Ask ==
    /\ asking \in 0..2
    /\ \/ /\ asking' = asking + 1
          /\ outofsync' = (outofsync \/ (up /\ more))
          /\ UNCHANGED <<my_enc, dbires, ran>>
       \/ /\ InSync
          /\ ran' = mydb
          /\ dbires' = [dbires EXCEPT ![asking] = "live"]
          /\ \/ asking' = asking + 1 /\ UNCHANGED my_enc
             \/ asking' = Releasing /\ my_enc' = {asking}
          /\ UNCHANGED outofsync
    /\ UNCHANGED <<connection, current_db, client, result, closed, told>>

\* if (dbires_i) dbi_result_free(dbires_j)
FreeIf(res, i, j) ==
    IF res[i] = "NULL" THEN res
    ELSE [res EXCEPT ![j] = IF @ = "live" THEN "freed" ELSE IF @ = "freed" THEN "twice" ELSE @]

\* The way out without a name: dbires1 is freed where dbires2 is asked for.
FreeUnnamed(res) == FreeIf(FreeIf(FreeIf(res, 0, 0), 1, 1), 2, 1)

\* Mutated: the way out with a name has the same slip.
FreeNamed_slip(res) == FreeIf(FreeIf(FreeIf(res, 0, 0), 1, 1), 2, 1)

\* The way out with a name, once dbd_encoding_to_iana() has looked it up.
FreeNamed(res) == FreeIf(FreeIf(FreeIf(res, 0, 0), 1, 1), 2, 2)

\* The frees, and the return.
Release ==
    /\ asking = Releasing
    /\ dbires' = IF my_enc = {} THEN FreeUnnamed(dbires) ELSE FreeNamed(dbires)
    /\ asking' = Done
    /\ UNCHANGED <<my_enc, connection, current_db, client, result, closed, outofsync, told, ran>>

-----------------------------------------------------------------------------
(* Connection                                                               *)

\* dbd_connect(): the MYSQL object of a failed connect is closed again.  With
\* an encoding option SET NAMES follows, whose failure is not looked at; with
\* "auto" its argument comes from dbd_get_encoding(), which this call begins.
Connect(d) ==
    /\ ~closed /\ connection = NULL /\ next <= MaxConns /\ Idle
    /\ next' = next + 1
    /\ \/ /\ connection' = next /\ current_db' = d
          /\ mysqls' = mysqls \cup {next} /\ mydb' = d /\ up' = TRUE
          /\ told' = d
          /\ UNCHANGED encoding \/ Begin(TRUE)
       \/ UNCHANGED <<connection, current_db, mysqls, mydb, up, told, encoding>>
    /\ UNCHANGED <<more, result, closed, outofsync, ran>>

\* Mutated: the result of mysql_select_db() is not looked at.
SelectDb_unchecked(d) ==
    /\ Open /\ Idle
    /\ current_db' = d /\ told' = d
    /\ mydb' \in (IF InSync THEN {d, mydb} ELSE {mydb})
    /\ UNCHANGED <<connection, mysqls, up, more, next, result, encoding, closed, outofsync, ran>>

\* dbd_select_db(): in place; a refusal leaves the session where it was.
SelectDb(d) ==
    /\ Open /\ Idle
    /\ \/ InSync /\ mydb' = d /\ current_db' = d /\ told' = d
       \/ UNCHANGED <<mydb, current_db, told>>
    /\ outofsync' = (outofsync \/ (up /\ more))
    /\ UNCHANGED <<connection, mysqls, up, more, next, result, encoding, closed, ran>>

\* dbd_disconnect()
Disconnect ==
    /\ ~closed /\ Idle
    /\ mysqls' = mysqls \ {connection}
    /\ up' = FALSE /\ more' = FALSE
    /\ closed' = TRUE
    /\ UNCHANGED <<connection, current_db, mydb, next, result, encoding, outofsync, told, ran>>

\* The server goes away, or kills the session.
ServerGone ==
    /\ Open /\ up
    /\ up' = FALSE /\ more' = FALSE
    /\ UNCHANGED <<connection, current_db, mysqls, mydb, next, result, encoding, closed, outofsync, told, ran>>

-----------------------------------------------------------------------------
(* Statements and rows                                                      *)

\* dbd_query(): mysql_query() succeeds and mysql_store_result() copies the
\* rows; with none, or none that could be copied, the result has no rows.
\* The results of further statements in the string stay on the connection.
Query(n) ==
    /\ InSync /\ Idle
    /\ ran' = mydb
    /\ result' = Stored(n)
    /\ more' \in (IF Multi THEN BOOLEAN ELSE {FALSE})
    /\ UNCHANGED <<connection, current_db, mysqls, mydb, up, next, encoding, closed, outofsync, told>>

\* mysql_query() fails: the server refuses the statement, has gone, or there
\* are results that must be fetched first.
QueryFails ==
    /\ Open /\ Idle
    /\ outofsync' = (outofsync \/ (up /\ more))
    /\ UNCHANGED <<connection, current_db, client, result, encoding, closed, told, ran>>

\* Mutated: the cursor is left where the last fetch put it.
Goto_ignored(k) == result.pos

\* dbd_goto_row(): mysql_data_seek()
Goto(k) == k

\* _dbd_row_finalize() files row rowidx under rowidx + 1.
CacheIndex(k) == k + 1

\* mysql_fetch_row(): the row under the cursor; NULL past the last.
RowAt(pos) == IF pos < result.n THEN pos + 1 ELSE 0

\* dbi_result_seek_row(k): a row that libdbi has is not fetched again; else
\* dbd_goto_row(k - 1), dbd_fetch_row(k - 1).
SeekRow(k) ==
    /\ ~closed /\ Idle /\ k \in 1..result.n
    /\ result' = IF k \in DOMAIN result.rows THEN [result EXCEPT !.cur = k]
                 ELSE LET pos == Goto(k - 1)
                          i == CacheIndex(k - 1)
                      IN [result EXCEPT !.cur = k, !.pos = pos + 1,
                            !.rows = [x \in DOMAIN @ \cup {i} |-> IF x = i THEN RowAt(pos) ELSE @[x]]]
    /\ UNCHANGED <<connection, current_db, client, encoding, closed, outofsync, told, ran>>

Closed == closed /\ UNCHANGED vars

Next ==
    \/ \E d \in Dbs : Connect(d) \/ SelectDb(d)
    \/ \E n \in 0..MaxRows : Query(n)
    \/ \E k \in 1..MaxRows : SeekRow(k)
    \/ Disconnect \/ ServerGone \/ QueryFails \/ GetEncoding \/ Ask \/ Release \/ Closed

Spec == Init /\ [][Next]_vars

-----------------------------------------------------------------------------
(* Properties *)

\* When dbd_get_encoding() returns, each result that its queries made has been
\* freed once, whichever of them failed, found nothing or lost the server,
\* but for one way out: the third query made a result and named nothing, and
\* then that result is never freed, and the second, if there is one, twice.
EncodingResultsFreed ==
    Idle => IF my_enc = {} /\ dbires[2] # "NULL"
            THEN dbires[2] = "live" /\ dbires[1] \in {"NULL", "twice"}
            ELSE \A i \in 0..2 : dbires[i] \in {"NULL", "freed"}

\* The database that statements reach.
Attached == IF Open /\ up THEN mydb ELSE NoDb

\* The mysql driver keeps the promise of DbdSession.
Contract == INSTANCE DbdSession WITH att <- Attached
ContractSpec == Contract!Spec

\* The row that the caller sees.
Shown == IF result.cur \in DOMAIN result.rows THEN result.rows[result.cur] ELSE 0

\* Rows may be visited in any order, and again, although dbd_fetch_row() does
\* not look at the row number that it is given: the promise of DbiRows.
Rows == INSTANCE DbiRows WITH cur <- result.cur, shown <- Shown
RowsSpec == Rows!Spec

\* With mysql_client_multi_results "the client can handle multiple result
\* sets from multiple statements" (dbd_mysql.sgml): a statement is never refused because results of
\* an earlier one were left unread.
MultipleResultsHandled == ~outofsync
=============================================================================
