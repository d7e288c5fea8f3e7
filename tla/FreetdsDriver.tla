--------------------------- MODULE FreetdsDriver ---------------------------
(***************************************************************************)
(* drivers/freetds/dbd_freetds.c on Client-Library (ct-lib).  dbd_query()  *)
(* sends a command and must read everything the server answers before the  *)
(* next command may be sent, but it has many early returns that leave the  *)
(* answer half read.  Rows are fetched into buffers bound beforehand, and  *)
(* the values of a row are converted only while the buffers of the next    *)
(* row are bound.  dbd_select_db(), dbd_list_tables() and dbd_ping() are   *)
(* sequences of such queries: todo holds the statements still to run.      *)
(* The libct calls themselves are external: what they may answer is a      *)
(* choice, and a command is refused when the session is down or an answer  *)
(* is pending.                                                             *)
(***************************************************************************)
EXTENDS Naturals, Sequences

CONSTANTS
    Dbs, DefaultDb, NoDb,
    MaxConns,   \* bound: FREETDSCON structures made
    MaxSets,    \* bound: answers of ct_results() to one command
    MaxRows     \* bound: rows of one row result

ASSUME FreetdsAssumption ==
    /\ DefaultDb \in Dbs /\ NoDb \notin Dbs
    /\ MaxConns \in Nat /\ MaxSets \in Nat /\ MaxRows \in Nat

VARIABLES
    connection, \* conn->connection, 0 for NULL
    current_db, \* conn->current_db
    structs,    \* FREETDSCON structures not freed
    sessions,   \* structures whose server session is alive
    srvdb,      \* database of the session of conn->connection
    pending,    \* its command has an answer that is not fully read
    next,       \* the next structure
    call,       \* the driver function that is running, or the last one
    todo,       \* statements it still has to run
    pc,         \* where in dbd_query()
    sets,       \* results that ct_results() has reported for the command
    server,     \* rows of the current row result, and how many were fetched
    result,     \* dbd_query(): result
    datafmt,    \* dbd_query(): datafmt
    reply,      \* what the last query of the caller, or ping, returned
    selected,   \* a select_db succeeded since the last connect
    uncancelled, \* structures whose ct_cancel() failed, never released
    unrestored  \* the server refused dbd_list_tables() the way back

conn == <<connection, current_db, structs, sessions, srvdb, next>>
query == <<sets, server, result, datafmt>>
asked == <<selected, unrestored>>
vars == <<conn, query, pending, call, todo, pc, reply, asked, uncancelled>>

NULL == [state |-> "NULL", rows |-> <<>>]
Created(state) == [state |-> state, rows |-> <<>>]

\* Statements: USE a database, anything else of the driver or its caller.
Use(d) == [kind |-> "use", db |-> d]
Sql == [kind |-> "sql", db |-> NoDb]

Init ==
    /\ connection = 0 /\ current_db = NoDb
    /\ structs = {} /\ sessions = {} /\ srvdb = NoDb /\ next = 1
    /\ pending = FALSE
    /\ call = "none" /\ todo = <<>> /\ pc = "idle"
    /\ sets = 0 /\ server = [rows |-> 0, fetched |-> 0]
    /\ result = NULL /\ datafmt = "NULL"
    /\ reply = NULL /\ selected = FALSE
    /\ uncancelled = {} /\ unrestored = FALSE

-----------------------------------------------------------------------------
(* dbd_connect(), dbd_disconnect()                                          *)

Alive == connection \in sessions

\* kept are the structures left by an earlier disconnect.  The client
\* structures cannot be allocated: conn->connection is untouched.  They can,
\* but the login fails: it points to a structure without a session.
Connected(kept) ==
    /\ next' = next + 1
    /\ \/ /\ structs' = kept /\ sessions' = sessions \cap kept
          /\ UNCHANGED <<connection, srvdb, pending, asked>>
       \/ /\ connection' = next /\ structs' = kept \cup {next}
          /\ pending' = FALSE /\ selected' = FALSE /\ unrestored' = FALSE
          /\ \/ sessions' = sessions \cap kept /\ srvdb' = NoDb
             \/ sessions' = (sessions \cap kept) \cup {next} /\ srvdb' = DefaultDb

\* ct_cancel(): fails on a dead session and may fail on a live one.
Cancels == IF Alive THEN BOOLEAN ELSE {FALSE}

\* Mutated: the test of what ct_cancel() returned is the wrong way round.
Kept_swapped(cancelled) == IF cancelled THEN structs ELSE structs \ {connection}

\* dbd_disconnect(): gives up when ct_cancel() fails, and otherwise releases
\* everything.  The pointer stays.
Kept(cancelled) == IF cancelled THEN structs \ {connection} ELSE structs
GivenUp(cancelled) == uncancelled' = IF cancelled THEN uncancelled ELSE uncancelled \cup {connection}

\* Calls that use a freed structure are undefined and not modelled.
Ready == pc = "idle" /\ connection \in structs

\* dbd_connect() called by the application, perhaps after a failed connect.
Connect ==
    /\ pc = "idle" /\ ~Alive /\ next <= MaxConns
    /\ Connected(structs)
    /\ call' = "connect"
    /\ UNCHANGED <<current_db, query, todo, pc, reply, uncancelled>>

\* dbd_disconnect() called by the application, the last call.
Disconnect ==
    /\ Ready
    /\ \E cancelled \in Cancels : structs' = Kept(cancelled) /\ GivenUp(cancelled)
    /\ sessions' = sessions \cap structs'
    /\ call' = "disconnect" /\ pc' = "closed"
    /\ UNCHANGED <<connection, current_db, srvdb, pending, next, query, todo, reply, asked>>

\* The server goes away.
ServerGone ==
    /\ pc \notin {"closed", "aborted"} /\ Alive
    /\ sessions' = sessions \ {connection}
    /\ UNCHANGED <<connection, current_db, structs, srvdb, next, query, pending, call, todo, pc, reply, asked,
                   uncancelled>>

-----------------------------------------------------------------------------
(* The driver's functions as sequences of queries                           *)

Start(name, statements) ==
    /\ Ready
    /\ call' = name /\ todo' = statements /\ pc' = "send"
    /\ UNCHANGED <<conn, query, pending, reply, asked, uncancelled>>

\* dbd_query() of the application; dbd_list_dbs() is one, too.
Query == Start("query", <<Sql>>)

\* dbd_select_db(): USE db.
SelectDb(d) == Start("select_db", <<Use(d)>>)

\* Mutated: the database of the connection is not selected again.
Listing_no_restore(d) == <<Use(d), Sql>>

\* dbd_list_tables() of a database that is named: it is selected, the catalog
\* is queried, and the former database, if there is one, selected again.
Listing(d) == <<Use(d), Sql>> \o (IF current_db # NoDb THEN <<Use(current_db)>> ELSE <<>>)
ListTables(d) == Start("list_tables", Listing(d))

\* dbd_ping(): SELECT 1; the result is not freed.
Ping == next <= MaxConns /\ Start("ping", <<Sql>>)

-----------------------------------------------------------------------------
(* dbd_query()                                                              *)

\* The function returns r.  pending stays as it is: nothing is cancelled.
Return(r) ==
    /\ pc' = "returned"
    /\ result' = r
    /\ UNCHANGED <<conn, call, todo, reply, selected, uncancelled>>

\* ct_command() and ct_send().
Send ==
    /\ pc = "send"
    /\ IF Alive /\ ~pending
       THEN /\ pending' = TRUE /\ pc' = "results"
            /\ result' = NULL /\ datafmt' = "NULL" /\ sets' = 0
            /\ UNCHANGED <<conn, server, call, todo, reply, asked, uncancelled>>
       ELSE Return(NULL) /\ UNCHANGED <<sets, server, datafmt, pending, unrestored>>

Answer == pc = "results" /\ sets < MaxSets /\ sets' = sets + 1

\* The USE at the end of dbd_list_tables().
Restoring == call = "list_tables" /\ Len(todo) = 1 /\ Head(todo).kind = "use"

\* CS_CMD_SUCCEED: the first one makes a result, unless memory is short; then
\* there may be more to read, or that was all.
CmdSucceed ==
    /\ Answer /\ Alive
    /\ srvdb' = IF Head(todo).kind = "use" THEN Head(todo).db ELSE srvdb
    /\ unrestored' = (unrestored /\ ~Restoring)
    /\ \/ pc' = pc /\ UNCHANGED pending
          /\ result' = IF result = NULL THEN Created("NOTHING_RETURNED") ELSE result
       \/ result = NULL /\ result' = NULL /\ pc' = "returned" /\ pending' \in BOOLEAN
    /\ UNCHANGED <<connection, current_db, structs, sessions, next, server, datafmt, call, todo, reply, selected,
                   uncancelled>>

\* CS_ROWFMT_RESULT, CS_CMD_DONE and CS_STATUS_RESULT are skipped.
Skip == Answer /\ UNCHANGED <<conn, server, result, datafmt, pending, call, todo, pc, reply, asked, uncancelled>>

\* CS_CMD_FAIL: there is no result.  With several statements in the command
\* more answers follow and are left unread; after a single one, as a USE, the
\* session is idle.
CmdFail ==
    /\ Answer /\ Alive
    /\ pending' \in BOOLEAN
    /\ unrestored' = (unrestored \/ Restoring)
    /\ Return(NULL)
    /\ UNCHANGED <<server, datafmt>>

\* CS_COMPUTE_RESULT, a type that is not known, a row result that cannot be
\* made or described: the rest of the answer is left unread.
Refused == Answer /\ Return(NULL) /\ UNCHANGED <<server, datafmt, pending, unrestored>>

\* CS_ROW_RESULT with n rows: a new result, whatever there was before.  The
\* second one of a command reallocates the freed datafmt: undefined, and here
\* either unnoticed or the end of the program.
RowResult(n) ==
    /\ Answer /\ Alive /\ Head(todo).kind = "sql"
    /\ result' = Created("ROWS_RETURNED")
    /\ server' = [rows |-> n, fetched |-> 0]
    /\ datafmt' = "live"
    /\ pc' \in (IF datafmt = "freed" THEN {"bind", "aborted"} ELSE {"bind"})
    /\ UNCHANGED <<conn, pending, call, todo, reply, asked, uncancelled>>

\* Mutated: the guard is off by one.
Lag_two == 2

\* The first row count at which there is a previous row to convert.
Lag == 1

\* _dbd_freetds_buffers_binding(): the last stored row is converted, the
\* buffers of the next one are bound; or memory or ct_bind() fails.
Bind ==
    /\ pc = "bind"
    /\ LET n == Len(result.rows)
       IN  \/ /\ result' = IF n >= Lag THEN [result EXCEPT !.rows[n].converted = @ + 1] ELSE result
              /\ pc' = "fetch"
              /\ UNCHANGED <<conn, call, todo, reply, selected, uncancelled>>
           \/ Return(NULL)
    /\ UNCHANGED <<sets, server, datafmt, pending, unrestored>>

\* ct_fetch() has a row: it is filed and new buffers are bound.
FetchRow ==
    /\ pc = "fetch" /\ Alive /\ server.fetched < server.rows
    /\ server' = [server EXCEPT !.fetched = @ + 1]
    /\ result' = [result EXCEPT !.rows = Append(@, [row |-> server.fetched + 1, converted |-> 0])]
    /\ pc' = "bind"
    /\ UNCHANGED <<conn, sets, datafmt, pending, call, todo, reply, asked, uncancelled>>

\* ct_fetch() fails: CS_ROW_FAIL, CS_FAIL, CS_CANCELED; or the row array
\* cannot grow.
FetchFails ==
    /\ pc = "fetch"
    /\ Return(NULL)
    /\ UNCHANGED <<sets, server, datafmt, pending, unrestored>>

\* CS_END_DATA: the spare row and the column descriptions are freed; datafmt
\* keeps its address.
FetchEnd ==
    /\ pc = "fetch" /\ server.fetched = server.rows
    /\ datafmt' = "freed" /\ pc' = "results"
    /\ UNCHANGED <<conn, sets, server, result, pending, call, todo, reply, asked, uncancelled>>

\* The server's answer to a USE has no rows and succeeds or fails.
Ended == Head(todo).kind = "use" => result # NULL

\* Mutated: the return value that ended the loop is not looked at.
EndResults_any ==
    /\ pc = "results"
    /\ \/ Alive /\ Ended /\ pending' = FALSE
       \/ UNCHANGED pending
    /\ Return(result)
    /\ UNCHANGED <<sets, server, datafmt, unrestored>>

\* ct_results() returns CS_END_RESULTS, or CS_FAIL, after which the answer
\* would have to be cancelled.
EndResults ==
    /\ pc = "results"
    /\ \/ Alive /\ Ended /\ pending' = FALSE /\ Return(result)
       \/ UNCHANGED pending /\ Return(NULL)
    /\ UNCHANGED <<sets, server, datafmt, unrestored>>

-----------------------------------------------------------------------------
(* What the functions do with the result of a query                         *)

\* Mutated: a failed ping does not drop the connection.
PingFails_gives_up ==
    /\ pc = "returned" /\ call = "ping" /\ result = NULL
    /\ todo' = <<>> /\ pc' = "idle" /\ reply' = NULL
    /\ UNCHANGED <<conn, query, pending, call, asked, uncancelled>>

\* dbd_ping() without a result disconnects and connects.
PingFails ==
    /\ pc = "returned" /\ call = "ping" /\ result = NULL
    /\ \E cancelled \in Cancels : Connected(Kept(cancelled)) /\ GivenUp(cancelled)
    /\ todo' = <<>> /\ pc' = "idle" /\ reply' = NULL
    /\ UNCHANGED <<current_db, query, call>>

\* libdbi keeps the name that a successful dbd_select_db() returned; whether
\* it keeps the old one after a failure is left open.
SelectReturns ==
    /\ pc = "returned" /\ call = "select_db"
    /\ todo' = <<>> /\ pc' = "idle"
    /\ IF result # NULL
       THEN current_db' = Head(todo).db /\ selected' = TRUE /\ unrestored' = FALSE
       ELSE current_db' \in {current_db, NoDb} /\ selected' = FALSE /\ UNCHANGED unrestored
    /\ UNCHANGED <<connection, structs, sessions, srvdb, next, query, pending, call, reply, uncancelled>>

\* Other queries: the next statement of dbd_list_tables(), whether or not
\* this one had a result; the catalog query's result is what is returned.
Proceed ==
    /\ pc = "returned" /\ (call \in {"query", "list_tables"} \/ (call = "ping" /\ result # NULL))
    /\ todo' = Tail(todo)
    /\ reply' = IF Head(todo) = Sql THEN result ELSE reply
    /\ pc' = IF Tail(todo) = <<>> THEN "idle" ELSE "send"
    /\ UNCHANGED <<conn, query, pending, call, asked, uncancelled>>

\* Nothing can be done: the connection is closed or dangling.
Stopped == (pc \in {"closed", "aborted"} \/ (pc = "idle" /\ ~Ready /\ next > MaxConns)) /\ UNCHANGED vars

Next ==
    \/ Connect \/ Disconnect \/ ServerGone
    \/ Query \/ Ping \/ \E d \in Dbs : SelectDb(d) \/ ListTables(d)
    \/ Send \/ CmdSucceed \/ Skip \/ CmdFail \/ Refused \/ \E n \in 0..MaxRows : RowResult(n)
    \/ Bind \/ FetchRow \/ FetchFails \/ FetchEnd \/ EndResults
    \/ PingFails \/ SelectReturns \/ Proceed \/ Stopped

Spec == Init /\ [][Next]_vars

-----------------------------------------------------------------------------
(* Properties *)

\* A result that dbd_query() returns has every row of the last row result of
\* the command, in the order of the server, and each was converted exactly
\* once although the conversion happens one row late.
RowsComplete ==
    pc = "returned" /\ result.state = "ROWS_RETURNED" =>
        result.rows = [i \in 1..server.rows |-> [row |-> i, converted |-> 1]]

\* A query that returned a result has read the whole answer, so that the
\* next command can be sent; only a NULL result leaves the answer pending.
ResultMeansInSync == pc = "returned" /\ result # NULL => ~pending

\* Once dbd_ping() is done, a session that is alive can take commands again,
\* whatever earlier calls left unread, unless the session refused ct_cancel()
\* and a new one could not be had.
PingRecovers ==
    pc = "idle" /\ call = "ping" /\ Alive /\ connection \notin uncancelled => ~pending

\* A server session that is alive is the one of conn->connection, or one that
\* refused ct_cancel(): in no other way does dbd_ping() leave a second session
\* behind, or dbd_disconnect() one.
OneSession ==
    /\ sessions \subseteq {connection} \cup uncancelled
    /\ pc = "closed" => sessions \subseteq uncancelled

\* A database that the caller selected stays the one its statements run in
\* for as long as statements can run at all and ping has not reconnected:
\* dbd_list_tables() of another database finds its way back whichever of its
\* statements fails, unless the server refuses the last USE itself.
SelectedDbKept ==
    pc = "idle" /\ selected /\ ~unrestored /\ Alive /\ ~pending => srvdb = current_db
=============================================================================
