---------------------------- MODULE PgsqlSession ----------------------------
(***************************************************************************)
(* The connection of drivers/pgsql/dbd_pgsql.c.  PostgreSQL cannot switch  *)
(* databases in place, so dbd_select_db() finishes the PGconn and makes    *)
(* another; dbd_ping() may reset it.  The server may go away at any time.  *)
(* A PGconn is a number (0 is NULL); numbers are not reused.               *)
(***************************************************************************)
EXTENDS Naturals

CONSTANTS
    Dbs, NoDb,
    DefaultDb,  \* libpq: the database of a user who names none
    MaxConns    \* bound: PGconn objects made

ASSUME DbAssumption == NoDb \notin Dbs /\ DefaultDb \in Dbs
ASSUME BoundAssumption == MaxConns \in Nat

VARIABLES
    connection, \* conn->connection
    current_db, \* conn->current_db
    named,      \* the last connect that succeeded was given a name
    pgconns,    \* libpq: the PGconn objects not finished yet
    pgdb,       \* libpq: the database of the last PGconn made
    status,     \* libpq: its PQstatus
    next,       \* libpq: the next PGconn
    closed,     \* dbd_disconnect() has been called, libdbi drops the connection
    told, ran   \* as in DbdSession

libpq == <<pgconns, pgdb, status, next>>
vars == <<connection, current_db, named, libpq, closed, told, ran>>

NULL == 0

Init ==
    /\ connection = NULL /\ current_db = NoDb /\ named = FALSE
    /\ pgconns = {} /\ pgdb = NoDb /\ status = "BAD" /\ next = 1
    /\ closed = FALSE /\ told = NoDb /\ ran = NoDb

\* The database that a PGconn made without a name is for.
Database(d) == IF d = NoDb THEN DefaultDb ELSE d

\* Mutated: current_db keeps the name of the first database.
_dbd_real_connect_first_name(d, before) ==
    /\ pgdb' = Database(d) /\ next' = next + 1
    /\ \/ /\ connection' = next /\ pgconns' = before \cup {next} /\ status' = "OK"
          /\ current_db' = (IF current_db = NoDb THEN d ELSE current_db)
          /\ named' = (d # NoDb) /\ told' = Database(d)
       \/ /\ connection' = NULL /\ pgconns' = before /\ status' = "BAD"
          /\ UNCHANGED <<current_db, named, told>>

\* _dbd_real_connect(): PQconnectdb hands out a PGconn also when it cannot
\* connect; the error is read from it, then it is finished.  Without a name
\* (d is NoDb) current_db is left as it was.
\* before: the PGconns that are left when the function is called.
_dbd_real_connect(d, before) ==
    /\ pgdb' = Database(d) /\ next' = next + 1
    /\ \/ /\ connection' = next /\ pgconns' = before \cup {next} /\ status' = "OK"
          /\ current_db' = (IF d = NoDb THEN current_db ELSE d)
          /\ named' = (d # NoDb) /\ told' = Database(d)
       \/ /\ connection' = NULL /\ pgconns' = before /\ status' = "BAD"
          /\ UNCHANGED <<current_db, named, told>>

\* dbd_connect(), with or without a "dbname" option.
Connect(d) ==
    /\ ~closed /\ connection = NULL /\ next <= MaxConns
    /\ _dbd_real_connect(d, pgconns)
    /\ UNCHANGED <<closed, ran>>

\* Mutated: the failed PGconn stays in conn->connection after PQfinish.
SelectDb_dangling(d) ==
    /\ ~closed /\ next <= MaxConns
    /\ \/ _dbd_real_connect(d, pgconns \ {connection})
       \/ /\ connection' = next /\ pgconns' = pgconns \ {connection}
          /\ pgdb' = d /\ status' = "BAD" /\ next' = next + 1
          /\ UNCHANGED <<current_db, named, told>>
    /\ UNCHANGED <<closed, ran>>

\* dbd_select_db(): finish, then connect.
SelectDb(d) ==
    /\ ~closed /\ next <= MaxConns
    /\ _dbd_real_connect(d, pgconns \ {connection})
    /\ UNCHANGED <<closed, ran>>

\* dbd_disconnect(): libdbi frees the connection afterwards.
Disconnect ==
    /\ ~closed
    /\ pgconns' = pgconns \ {connection}
    /\ status' = "BAD"
    /\ closed' = TRUE
    /\ UNCHANGED <<connection, current_db, named, pgdb, next, told, ran>>

\* dbd_query(), dbd_get_seq_last(), dbd_get_seq_next(), dbd_list_dbs() and
\* dbd_list_tables() while the server answers.
Query ==
    /\ ~closed /\ connection # NULL /\ status = "OK"
    /\ ran' = pgdb
    /\ UNCHANGED <<connection, current_db, named, libpq, closed, told>>

\* PQexec on NULL or on a lost connection yields no usable result.
QueryFails ==
    /\ ~closed /\ (connection = NULL \/ status = "BAD")
    /\ UNCHANGED vars

\* Mutated: the reset is tried on another database.
Ping_other_db ==
    /\ ~closed /\ connection # NULL
    /\ \/ status = "OK" /\ UNCHANGED <<status, pgdb>>
       \/ status = "BAD" /\ status' \in {"OK", "BAD"} /\ pgdb' \in Dbs
    /\ UNCHANGED <<connection, current_db, named, pgconns, next, closed, told, ran>>

\* dbd_ping(): a probe, then one PQreset, which connects again with the
\* parameters of the PGconn.
Ping ==
    /\ ~closed /\ connection # NULL
    /\ \/ status = "OK" /\ UNCHANGED status
       \/ status = "BAD" /\ status' \in {"OK", "BAD"}
    /\ UNCHANGED <<connection, current_db, named, pgconns, pgdb, next, closed, told, ran>>

\* The server closes the connection.
ServerGone ==
    /\ ~closed /\ connection # NULL /\ status = "OK"
    /\ status' = "BAD"
    /\ UNCHANGED <<connection, current_db, named, pgconns, pgdb, next, closed, told, ran>>

Closed == closed /\ UNCHANGED vars

Next ==
    \/ \E d \in Dbs \cup {NoDb} : Connect(d)
    \/ \E d \in Dbs : SelectDb(d)
    \/ Disconnect \/ Query \/ QueryFails \/ Ping \/ ServerGone \/ Closed

Spec == Init /\ [][Next]_vars

-----------------------------------------------------------------------------
(* Properties *)

\* The types of the connection's fields and of libpq's objects.
TypeOK ==
    /\ connection \in Nat /\ current_db \in Dbs \cup {NoDb}
    /\ pgconns \subseteq Nat /\ pgdb \in Dbs \cup {NoDb}
    /\ status \in {"OK", "BAD"} /\ next \in Nat \ {0}
    /\ closed \in BOOLEAN /\ named \in BOOLEAN
    /\ told \in Dbs \cup {NoDb} /\ ran \in Dbs \cup {NoDb}

\* Through failed connects, reconnects and pings the driver holds the one
\* PGconn that conn->connection points at, or none: it is never dangling and
\* no other PGconn stays behind.
OnePgconn ==
    pgconns = IF closed \/ connection = NULL THEN {} ELSE {connection}

\* current_db, which dbd_get_encoding() puts into its catalog query, names
\* the database of the PGconn, if it was connected with a name.
CurrentDbTrue ==
    ~closed /\ connection # NULL /\ named => current_db = pgdb

\* The database that statements reach.
Attached == IF ~closed /\ connection # NULL /\ status = "OK" THEN pgdb ELSE NoDb

\* The pgsql driver keeps the promise of DbdSession.
Contract == INSTANCE DbdSession WITH att <- Attached
ContractSpec == Contract!Spec
=============================================================================
