--------------------------- MODULE FirebirdDriver ---------------------------
(***************************************************************************)
(* Connection, transaction and rows of drivers/firebird (dbd_firebird.c    *)
(* and utility.c).  Firebird cannot count the rows of a cursor, so the     *)
(* driver announces one row more than it has fetched, enlarges the result  *)
(* with every fetch and takes the extra row back at the end.  All          *)
(* statements run in one transaction, which DDL, select_db and disconnect  *)
(* commit.                                                                 *)
(* An ibase_conn_t is a number (0 is NULL), numbers are not reused.  Using *)
(* one that has been freed, or NULL, is undefined: ub ends a behaviour.    *)
(* The model follows which row a fetch delivers, not its bytes: those lie  *)
(* in a buffer that dbd_query() has already freed (dbd_firebird.c:496).    *)
(***************************************************************************)
EXTENDS Naturals

CONSTANTS
    Dbs, NoDb,
    MaxConns,   \* bound: ibase_conn_t structures made
    MaxRows,    \* bound: rows of a cursor
    MaxWork     \* bound: statements that change something

ASSUME FirebirdAssumption ==
    NoDb \notin Dbs /\ MaxConns \in Nat /\ MaxRows \in Nat /\ MaxWork \in Nat

VARIABLES
    connection, \* conn->connection
    dbname,     \* the connection option that _dbd_real_connect() reads
    iconns,     \* ibase_conn_t structures not freed yet
    next,       \* the next ibase_conn_t
    db, up,     \* server: database of the attachment, and whether it is alive
    work,       \* server: changes in the open transaction
    committed,  \* server: changes that have been committed
    trans,      \* iconn->trans is a transaction that was started
    refused,    \* the last isc_commit_transaction() failed
    result,     \* the caller's dbi_result_t and its cursor
    ub, closed,
    told, ran   \* as in DbdSession

server == <<db, up, work, committed, trans, refused>>
vars == <<connection, dbname, iconns, next, server, result, ub, closed, told, ran>>

NULL == 0
NoRows == [k \in {} |-> 0]

\* n rows on the server, of which the cursor has passed pos; numrows_matched,
\* the length of result->rows, the rows in it, the current row.
Result(n, numrows) ==
    [n |-> n, pos |-> 0, open |-> TRUE, numrows |-> numrows, alloc |-> numrows + 1,
     rows |-> NoRows, cur |-> 0, ended |-> FALSE]

Init ==
    /\ connection = NULL /\ dbname = NoDb /\ iconns = {} /\ next = 1
    /\ db = NoDb /\ up = FALSE /\ work = 0 /\ committed = 0 /\ trans = FALSE /\ refused = FALSE
    /\ result = Result(0, 0)
    /\ ub = FALSE /\ closed = FALSE
    /\ told = NoDb /\ ran = NoDb

Active == ~closed /\ ~ub
Usable == connection \in iconns

\* A transaction that has ended takes its cursors with it.
CursorClosed(res) == [res EXCEPT !.open = FALSE]

\* isc_commit_transaction().  It fails without a server or a transaction, and
\* a live server may refuse it too (deferred checks, a trigger on commit).
CommitTransaction ==
    \/ up /\ trans /\ committed' = committed + work /\ refused' = FALSE
    \/ refused' = TRUE /\ UNCHANGED committed

\* dbd_select_db() and dbd_disconnect(): the status is not looked at, and the
\* detach and the free follow; what was not committed is out of reach.
CommitConnected ==
    \/ connection # NULL /\ CommitTransaction
    \/ connection = NULL /\ UNCHANGED <<committed, refused>>

-----------------------------------------------------------------------------
(* Connection                                                               *)

\* _dbd_real_connect(): conn->connection is set only when the attach worked.
\* A failed one releases the new structure through dealocate_iconn(), which
\* reads its charset although nothing has set it.  Whether the transaction
\* could be started is not looked at.
\* before: the structures that are left when the function is called.
_dbd_real_connect(d, before) ==
    /\ next' = next + 1
    /\ \/ /\ connection' = next /\ iconns' = before \cup {next}
          /\ db' = d /\ up' = TRUE /\ work' = 0 /\ trans' \in BOOLEAN
          /\ ub' = FALSE
       \/ /\ iconns' = before /\ up' = FALSE /\ work' = 0 /\ trans' = FALSE
          /\ ub' \in BOOLEAN
          /\ UNCHANGED <<connection, db>>

\* dbd_connect()
Connect(d) ==
    /\ Active /\ connection = NULL /\ next <= MaxConns
    /\ dbname' = d
    /\ _dbd_real_connect(d, iconns)
    /\ told' = IF connection' = NULL THEN told ELSE d
    /\ UNCHANGED <<committed, refused, result, closed, ran>>

\* Mutated: the new name is not stored in the option.
SelectDb_keeps_option(d) ==
    /\ Active /\ next <= MaxConns /\ Usable
    /\ CommitTransaction
    /\ dbname' = dbname
    /\ _dbd_real_connect(d, iconns \ {connection})
    /\ told' = IF up' THEN d ELSE told
    /\ result' = CursorClosed(result)
    /\ UNCHANGED <<closed, ran>>

\* Mutated: the transaction is not committed before the detach.
SelectDb_no_commit(d) ==
    /\ Active /\ next <= MaxConns /\ Usable
    /\ dbname' = d
    /\ _dbd_real_connect(d, iconns \ {connection})
    /\ told' = IF up' THEN d ELSE told
    /\ result' = CursorClosed(result)
    /\ UNCHANGED <<committed, refused, closed, ran>>

\* dbd_select_db(): commit (its status is not looked at), detach, free the
\* structure, connect to the new name.  When that fails conn->connection
\* still points at the freed structure.
SelectDb(d) ==
    /\ Active /\ next <= MaxConns /\ (connection = NULL \/ Usable)
    /\ CommitConnected
    /\ dbname' = d
    /\ _dbd_real_connect(d, iconns \ {connection})
    /\ told' = IF up' THEN d ELSE told
    /\ result' = CursorClosed(result)
    /\ UNCHANGED <<closed, ran>>

\* dbd_disconnect(): commit, detach, free.
Disconnect ==
    /\ Active /\ (connection = NULL \/ Usable)
    /\ CommitConnected
    /\ iconns' = iconns \ {connection}
    /\ work' = 0 /\ trans' = FALSE
    /\ result' = CursorClosed(result)
    /\ closed' = TRUE
    /\ UNCHANGED <<connection, dbname, next, db, up, ub, told, ran>>

\* dbd_ping() when isc_database_info() fails: the structure is freed and the
\* option's database is connected again.  (When it succeeds nothing changes.)
PingLost ==
    /\ Active /\ Usable /\ ~up /\ next <= MaxConns
    /\ _dbd_real_connect(dbname, iconns \ {connection})
    /\ UNCHANGED <<dbname, committed, refused, result, closed, told, ran>>

\* The server goes away: the open transaction is rolled back.
ServerGone ==
    /\ Active /\ Usable /\ up
    /\ up' = FALSE /\ work' = 0 /\ trans' = FALSE
    /\ result' = CursorClosed(result)
    /\ UNCHANGED <<connection, dbname, iconns, next, db, committed, refused, ub, closed, told, ran>>

\* Any other call on a structure that has been freed, or on NULL.
UseFreed ==
    /\ Active /\ ~Usable
    /\ ub' = TRUE
    /\ UNCHANGED <<connection, dbname, iconns, next, server, result, closed, told, ran>>

-----------------------------------------------------------------------------
(* Statements                                                               *)

\* A statement is executed only inside a transaction.
Ready == Active /\ Usable /\ up /\ trans

\* dbd_query() with a statement that has no columns and is not DDL.
Change ==
    /\ Ready /\ work + committed < MaxWork
    /\ work' = work + 1 /\ ran' = db
    /\ result' = Result(0, 0)
    /\ UNCHANGED <<connection, dbname, iconns, next, db, up, committed, trans, refused, ub, closed, told>>

\* dbd_query() with DDL: executed, then committed; whether a new transaction
\* could be started is not looked at.  When the commit fails the old
\* transaction stays, with the DDL in it, and there is no result.  After a
\* commit the caller has the new result, or goes on reading its earlier one,
\* whose cursor the commit has closed.
Ddl ==
    /\ Ready /\ work + committed < MaxWork
    /\ ran' = db
    /\ \/ /\ committed' = committed + work + 1 /\ work' = 0 /\ refused' = FALSE
          /\ trans' \in BOOLEAN
          /\ result' \in {Result(0, 0), CursorClosed(result)}
       \/ /\ work' = work + 1 /\ refused' = TRUE
          /\ UNCHANGED <<committed, trans, result>>
    /\ UNCHANGED <<connection, dbname, iconns, next, db, up, ub, closed, told>>

\* dbd_query() with a SELECT, and dbd_list_tables(): one row is announced.
Select(n) ==
    /\ Ready
    /\ ran' = db
    /\ result' = Result(n, 1)
    /\ UNCHANGED <<connection, dbname, iconns, next, server, ub, closed, told>>

\* prepare or execute is refused, or there is no transaction: no result.
QueryFails ==
    /\ Active /\ Usable
    /\ UNCHANGED vars

\* return_generator_value() for dbd_get_seq_last() and dbd_get_seq_next():
\* the statement's only row; when the query fails, NULL is followed.
Generator ==
    /\ Active /\ Usable
    /\ \/ Ready /\ ran' = db /\ ub' = FALSE
       \/ ran' = ran /\ ub' = TRUE
    /\ UNCHANGED <<connection, dbname, iconns, next, server, result, closed, told>>

-----------------------------------------------------------------------------
(* Rows                                                                     *)

\* Mutated: the extra row is not taken back when the cursor ends.
AfterEnd_keeps_count(res) == [res EXCEPT !.ended = TRUE]

\* _get_row_data() when isc_dsql_fetch() has nothing or fails.
AfterEnd(res) == [res EXCEPT !.numrows = @ - 1, !.ended = TRUE]

\* Entries of result->rows after the realloc that a fetched row brings.
Enlarged(numrows) == numrows + 1

\* Mutated: the row is filed under its zero-based number.
AfterFetch_zero_based(res, k) ==
    [res EXCEPT !.pos = @ + 1, !.alloc = Enlarged(res.numrows), !.numrows = @ + 1, !.cur = k,
                !.rows = [x \in DOMAIN @ \cup {k - 1} |-> IF x = k - 1 THEN res.pos + 1 ELSE @[x]]]

\* _get_row_data(), then _dbd_row_finalize() at index k: the next row of the
\* cursor, and one more announced.
AfterFetch(res, k) ==
    [res EXCEPT !.pos = @ + 1, !.alloc = Enlarged(res.numrows), !.numrows = @ + 1, !.cur = k,
                !.rows = [x \in DOMAIN @ \cup {k} |-> IF x = k THEN res.pos + 1 ELSE @[x]]]

\* dbi_result_seek_row(k), and next_row() and prev_row() through it: a row that
\* libdbi has is not fetched again; else dbd_goto_row(), which does nothing,
\* and dbd_fetch_row(), which gives up the row when there is no data.
SeekRow(k) ==
    /\ Active /\ Usable /\ k \in 1..result.numrows
    /\ result' =
         IF k \in DOMAIN result.rows THEN [result EXCEPT !.cur = k]
         ELSE IF result.open /\ result.pos < result.n THEN AfterFetch(result, k)
         ELSE AfterEnd(result)
    /\ UNCHANGED <<connection, dbname, iconns, next, server, ub, closed, told, ran>>

Stop == ~Active /\ UNCHANGED vars

Next ==
    \/ \E d \in Dbs : Connect(d) \/ SelectDb(d)
    \/ Disconnect \/ PingLost \/ ServerGone \/ UseFreed
    \/ Change \/ Ddl \/ QueryFails \/ Generator
    \/ \E n \in 0..MaxRows : Select(n)
    \/ \E k \in 1..(MaxRows + 1) : SeekRow(k)
    \/ Stop

Spec == Init /\ [][Next]_vars

-----------------------------------------------------------------------------
(* Properties *)

\* The announced rows are the fetched ones and, until the end is met, one
\* more; each fetched row lies inside the array that was enlarged for it; and
\* a cursor that was not closed under the caller's feet is read to its end.
OneRowAhead ==
    result.numrows > 0 \/ result.ended =>
        /\ DOMAIN result.rows = 1..result.pos
        /\ result.numrows = result.pos + (IF result.ended THEN 0 ELSE 1)
        /\ \A k \in DOMAIN result.rows : k < result.alloc
        /\ result.ended /\ result.open => result.pos = result.n

\* Rows may be visited again in any order although dbd_goto_row() does
\* nothing: the promise of DbiRows.
Shown == IF result.cur \in DOMAIN result.rows THEN result.rows[result.cur] ELSE 0
Rows == INSTANCE DbiRows WITH cur <- result.cur, shown <- Shown
RowsSpec == Rows!Spec

\* Changes of the caller stay in the transaction or are committed: no
\* select_db, disconnect, ping or DDL drops them, unless the last commit that
\* it sent was refused, or the server goes away.
WorkKept ==
    [][work' + committed' >= work + committed \/ refused' \/ ServerGone]_vars

\* The database that statements reach.
Attached == IF Active /\ Usable /\ up THEN db ELSE NoDb

\* The firebird driver keeps the promise of DbdSession, the connection that
\* dbd_ping() makes after a loss included.
Contract == INSTANCE DbdSession WITH att <- Attached
ContractSpec == Contract!Spec
=============================================================================
