---------------------------- MODULE OracleDriver ----------------------------
(***************************************************************************)
(* Connections and results of drivers/oracle/dbd_oracle.c on OCI.  A       *)
(* result is an OCI statement handle, scrolled to a row each time one is   *)
(* asked for, and so depends on the session it was executed in and on the  *)
(* environment it was allocated from, which dbd_ping() may have replaced   *)
(* in the meantime.  A connection has the same number as its Oraconn, OCI  *)
(* environment and server session; 0 is NULL.                              *)
(***************************************************************************)
EXTENDS Naturals

CONSTANTS
    MaxConns,   \* bound: connections made
    MaxRows     \* bound: rows of a result

ASSUME OracleAssumption == MaxConns \in Nat /\ MaxRows \in Nat

VARIABLES
    connection, \* conn->connection
    oraconns,   \* Oraconn structures not freed
    envs,       \* OCI environments not freed
    sessions,   \* logged-in sessions that are alive
    next,       \* the next connection
    result,     \* the caller's dbi_result_t
    stmts,      \* number of OCI statement handles not freed
    pc,         \* where a function that runs a statement is, "idle" in none
    loggedon,   \* sessions whose OCILogoff() failed
    closed      \* dbd_disconnect() has been called by the application

conn == <<connection, oraconns, envs, sessions, next>>
vars == <<conn, result, stmts, pc, loggedon, closed>>

\* stmt: the connection that the statement handle belongs to, 0 without one;
\* n: numrows_matched; rows: libdbi's row cache, from row number to the row
\* of the statement, 0 for a row whose values were never set; failed: the
\* rows whose fetch failed.
NoRows == [k \in {} |-> 0]
Result(stmt, n) == [stmt |-> stmt, n |-> n, rows |-> NoRows, cur |-> 0, failed |-> {}]

Init ==
    /\ connection = 0 /\ oraconns = {} /\ envs = {} /\ sessions = {} /\ next = 1
    /\ result = Result(0, 0) /\ stmts = 0
    /\ pc = "idle" /\ loggedon = {} /\ closed = FALSE

Idle == pc = "idle"

\* conn->connection is followed without a test: NULL is undefined.
Open == ~closed /\ connection # 0
Alive == Open /\ connection \in sessions

-----------------------------------------------------------------------------
(* Connection                                                               *)

\* dbd_connect(), from the given values of conn->connection and of the OCI
\* objects: fails without an environment, with one but no handles or login,
\* or succeeds; what was allocated before a failure is not released.
Connected(old, olds, oldenvs, oldsessions) ==
    /\ next' = next + 1
    /\ oraconns' = olds \cup {next}
    /\ \/ connection' = old /\ envs' = oldenvs /\ sessions' = oldsessions
       \/ connection' = old /\ envs' = oldenvs \cup {next} /\ sessions' = oldsessions
       \/ connection' = next /\ envs' = oldenvs \cup {next} /\ sessions' = oldsessions \cup {next}

Connect ==
    /\ ~closed /\ connection = 0 /\ next <= MaxConns
    /\ Connected(0, oraconns, envs, sessions)
    /\ UNCHANGED <<result, stmts, pc, loggedon, closed>>

\* Mutated: the environment is freed, and with it the handles of results.
EnvsAfter_freed == envs \ {connection}

\* dbd_disconnect() frees the handles and the Oraconn; the environment stays.
EnvsAfter == envs

\* OCILogoff(): fails without a session and may fail with one.
Logoffs == IF connection \in sessions THEN BOOLEAN ELSE {FALSE}

\* Mutated: without OCILogoff().
SessionsAfter_logged_on(off) == sessions

\* Its status is not looked at: the handles are freed in any case.
SessionsAfter(off) == IF off THEN sessions \ {connection} ELSE sessions
LoggedOn(off) == loggedon' = IF off THEN loggedon ELSE loggedon \cup {connection}

Disconnect ==
    /\ ~closed /\ Idle
    /\ closed' = TRUE
    /\ connection' = 0
    /\ oraconns' = oraconns \ {connection}
    /\ envs' = EnvsAfter
    /\ \E off \in Logoffs : sessions' = SessionsAfter(off) /\ LoggedOn(off)
    /\ UNCHANGED <<next, result, stmts, pc>>

ServerGone ==
    /\ Alive
    /\ sessions' = sessions \ {connection}
    /\ UNCHANGED <<connection, oraconns, envs, next, result, stmts, pc, loggedon, closed>>

-----------------------------------------------------------------------------
(* A single value: dbd_ping(), dbd_get_seq_last(), dbd_get_seq_next()       *)

\* _oracle_query_to_longlong() allocates a handle ...
AskValue ==
    /\ Open /\ Idle
    /\ pc' = "sequence" \/ (pc' = "ping" /\ next <= MaxConns)
    /\ stmts' = stmts + 1
    /\ UNCHANGED <<conn, result, loggedon, closed>>

\* ... runs the statement, looks at no status, and frees it.
ValueRead ==
    /\ pc = "sequence" \/ (pc = "ping" /\ Alive)
    /\ pc' = "idle"
    /\ stmts' = stmts - 1
    /\ UNCHANGED <<conn, result, loggedon, closed>>

\* dbd_ping() has 0, which is also the value of a query that failed in a live
\* session: dbd_disconnect(), then dbd_connect().
PingFails ==
    /\ pc = "ping"
    /\ pc' = "idle"
    /\ stmts' = stmts - 1
    /\ \E off \in Logoffs :
         Connected(0, oraconns \ {connection}, EnvsAfter, SessionsAfter(off)) /\ LoggedOn(off)
    /\ UNCHANGED <<result, closed>>

-----------------------------------------------------------------------------
(* Statements and rows                                                      *)

\* The application frees the result it has before it runs a statement.
Free == IF result.stmt # 0 THEN 1 ELSE 0

\* The position after OCI_FETCH_LAST is the number of rows.
Counted(n) == n

\* dbd_query_null() allocates a handle for the statement.
Query ==
    /\ Open /\ Idle /\ Free = 0
    /\ stmts' = stmts + 1
    /\ pc' = "prepare"
    /\ UNCHANGED <<conn, result, loggedon, closed>>

\* OCIStmtPrepare(): the handle is freed if it fails.
Prepare ==
    /\ pc = "prepare"
    /\ \/ pc' = "execute" /\ UNCHANGED stmts
       \/ pc' = "idle" /\ stmts' = stmts - 1
    /\ UNCHANGED <<conn, result, loggedon, closed>>

\* Mutated: the handle of a statement that the server refused is not freed.
Execute_kept ==
    /\ pc = "execute"
    /\ (Alive /\ pc' = "count") \/ pc' = "idle"
    /\ UNCHANGED <<conn, result, stmts, loggedon, closed>>

\* OCIStmtExecute(): the same when the server refuses or is gone.
Execute ==
    /\ pc = "execute"
    /\ \/ Alive /\ pc' = "count" /\ UNCHANGED stmts
       \/ pc' = "idle" /\ stmts' = stmts - 1
    /\ UNCHANGED <<conn, result, loggedon, closed>>

\* OCI_FETCH_LAST tells the number of rows of a SELECT, and other statements
\* have none; its status is not looked at, and when it fails the number is 0.
Count(n) ==
    /\ pc = "count"
    /\ \/ Alive /\ result' = Result(connection, Counted(n))
       \/ result' = Result(connection, 0)
    /\ pc' = "idle"
    /\ UNCHANGED <<conn, stmts, loggedon, closed>>

\* dbd_free_query(), possibly after the connection is gone.
FreeQuery ==
    /\ Free = 1 /\ Idle
    /\ stmts' = stmts - 1
    /\ result' = Result(0, 0)
    /\ UNCHANGED <<conn, pc, loggedon, closed>>

\* Mutated: the row number is taken for the position.
Position_zero_based(rowidx) == rowidx

\* _get_row_data(): OCI_FETCH_ABSOLUTE counts from 1.
Position(rowidx) == rowidx + 1

\* The fetch fails without the session of the statement, and may fail in it.
Fetches(rowidx) == IF result.stmt \in sessions /\ Position(rowidx) \in 1..result.n THEN BOOLEAN ELSE {FALSE}

\* dbd_fetch_row(): the status is not looked at; the values of a row whose
\* fetch failed are those of buffers that nothing has filled.
Fetched(rowidx, ok) == IF ok THEN Position(rowidx) ELSE 0

\* dbi_result_seek_row(k): dbd_goto_row(), which does nothing, and
\* dbd_fetch_row(k - 1), unless libdbi has the row.
SeekRow(k) ==
    /\ Open /\ Idle /\ result.stmt # 0 /\ k \in 1..result.n
    /\ \/ k \in DOMAIN result.rows /\ result' = [result EXCEPT !.cur = k]
       \/ /\ k \notin DOMAIN result.rows
          /\ \E ok \in Fetches(k - 1) :
               result' = [result EXCEPT
                 !.cur = k,
                 !.failed = IF ok THEN @ ELSE @ \cup {k},
                 !.rows = [x \in DOMAIN @ \cup {k} |-> IF x = k THEN Fetched(k - 1, ok) ELSE @[x]]]
    /\ UNCHANGED <<conn, stmts, pc, loggedon, closed>>

Stopped == Idle /\ (closed \/ (connection = 0 /\ next > MaxConns)) /\ UNCHANGED vars

Next ==
    \/ Connect \/ Disconnect \/ ServerGone
    \/ AskValue \/ ValueRead \/ PingFails
    \/ Query \/ Prepare \/ Execute \/ FreeQuery
    \/ \E n \in 0..MaxRows : Count(n)
    \/ \E k \in 1..MaxRows : SeekRow(k)
    \/ Stopped

Spec == Init /\ [][Next]_vars

-----------------------------------------------------------------------------
(* Properties *)

\* Every live statement handle is the one of the caller's result or of the
\* function that is running: whichever step of a statement fails, also through
\* the loss of the session in between, its handle is freed once.
StatementsOwned == stmts = Free + (IF Idle THEN 0 ELSE 1)

\* A result outlives the connection it came from, through reconnects by
\* dbd_ping() and through dbd_disconnect(): the environment that its handle
\* was allocated from still exists when dbd_free_query() frees the handle.
HandleUsable == result.stmt # 0 => result.stmt \in envs

\* A live session belongs to conn->connection, also after a reconnect, or
\* refused OCILogoff(): no other is left logged in.
OneSession == sessions \subseteq loggedon \cup (IF connection = 0 THEN {} ELSE {connection})

\* Rows fetched in any order are the rows asked for, those whose fetch failed
\* excepted, which are unset and stay so: a row is never shown as another.
RowsFaithful ==
    \A k \in DOMAIN result.rows : result.rows[k] = IF k \in result.failed THEN 0 ELSE k
=============================================================================
