--------------------------- MODULE Sqlite3Session ---------------------------
(***************************************************************************)
(* The connection of drivers/sqlite3/dbd_sqlite3.c.  A database is a file; *)
(* dbd_select_db() closes the handle and opens another file.  The driver   *)
(* answers dbd_list_tables() through a second connection, whose table      *)
(* names it copies into a temporary table of the caller's connection, and  *)
(* dbd_list_dbs() through a temporary table of file names.                 *)
(* A sqlite3 handle is a number (0 is NULL); numbers are not reused.       *)
(***************************************************************************)
EXTENDS Naturals

CONSTANTS
    Dbs, NoDb,
    Tables,     \* names of permanent tables
    MaxHandles, \* bound: handles opened
    Faults      \* a subset of {"connect", "select", "temp", "insert", "master", "dir",
                \* "read", "drop", "create", "query"}

ASSUME Sqlite3Assumption == NoDb \notin Dbs /\ MaxHandles \in Nat

Absent == [there |-> FALSE, names |-> {}]
Empty == [there |-> TRUE, names |-> {}]

VARIABLES
    connection, \* conn->connection
    current_db, \* conn->current_db
    handles,    \* sqlite3: handles that are open
    hdb,        \* sqlite3: the file behind the caller's last handle
    next,       \* sqlite3: the next handle
    files,      \* tables in each database file
    tablenames, \* temporary table libdbi_tablenames of the caller's session
    databases,  \* temporary table libdbi_databases of the caller's session
    answer,     \* what the last list call returned: its names, all that there
                \* was to list, the files that could not be read, whether a
                \* statement of the driver's own failed (lost: while the table
                \* was filled, refused: the DROP or CREATE before), and whether
                \* conn->error_number tells the caller
    closed,     \* dbd_disconnect() has been called
    stale,      \* a closed handle was passed to the sqlite3 library
    told, ran   \* as in DbdSession

sqlite3 == <<handles, hdb, next, files, tablenames, databases>>
vars == <<connection, current_db, sqlite3, answer, closed, stale, told, ran>>

NULL == 0
NoAnswer == [kind |-> "none", names |-> {}, all |-> {}, unread |-> {}, lost |-> FALSE,
             refused |-> FALSE, error |-> TRUE, ok |-> FALSE]

Init ==
    /\ connection = NULL /\ current_db = NoDb
    /\ handles = {} /\ hdb = NoDb /\ next = 1
    /\ files \in [Dbs -> SUBSET Tables]
    /\ tablenames = Absent /\ databases = Absent
    /\ answer = NoAnswer
    /\ closed = FALSE /\ stale = FALSE /\ told = NoDb /\ ran = NoDb

\* Calls are explored until a closed handle has been used.
Active == ~closed /\ ~stale
Usable == connection \in handles

\* Mutated: the database argument loses against the "dbname" option.
_real_dbd_connect_option_wins(d, before, mayFail) ==
    \/ /\ connection' = next /\ current_db' = d
       /\ hdb' = IF hdb = NoDb THEN d ELSE hdb
       /\ handles' = before \cup {next} /\ next' = next + 1
       /\ tablenames' = Absent /\ databases' = Absent
       /\ told' = d
    \/ /\ mayFail
       /\ handles' = before \cup {next} /\ next' = next + 1
       /\ tablenames' = Absent /\ databases' = Absent
       /\ UNCHANGED <<connection, current_db, hdb, told>>

\* _real_dbd_connect(): conn->connection and current_db are set only when the
\* file could be opened.  The handle that a failed sqlite3_open() returns is
\* not closed.  before: handles that are open when the function is called.
_real_dbd_connect(d, before, mayFail) ==
    \/ /\ connection' = next /\ current_db' = d /\ hdb' = d
       /\ handles' = before \cup {next} /\ next' = next + 1
       /\ tablenames' = Absent /\ databases' = Absent
       /\ told' = d
    \/ /\ mayFail
       /\ handles' = before \cup {next} /\ next' = next + 1
       /\ tablenames' = Absent /\ databases' = Absent
       /\ UNCHANGED <<connection, current_db, hdb, told>>

\* dbd_connect()
Connect(d) ==
    /\ Active /\ connection = NULL /\ next <= MaxHandles
    /\ _real_dbd_connect(d, handles, "connect" \in Faults)
    /\ UNCHANGED <<files, answer, closed, stale, ran>>

\* dbd_select_db(): sqlite3_close, then connect; conn->connection keeps the
\* closed handle when that fails.
SelectDb(d) ==
    /\ Active /\ next <= MaxHandles
    /\ _real_dbd_connect(d, handles \ {connection}, "select" \in Faults)
    /\ stale' = (connection # NULL /\ ~Usable)
    /\ UNCHANGED <<files, answer, closed, ran>>

\* dbd_disconnect()
Disconnect ==
    /\ Active
    /\ handles' = handles \ {connection}
    /\ stale' = (connection # NULL /\ ~Usable)
    /\ closed' = TRUE
    /\ UNCHANGED <<connection, current_db, hdb, next, files, tablenames, databases,
                   answer, told, ran>>

\* dbd_query(), dbd_ping() and the other calls that only use the handle.
Query(t) ==
    /\ Active /\ Usable
    /\ ran' = hdb
    /\ files' = [files EXCEPT ![hdb] = @ \cup {t}]
    /\ UNCHANGED <<connection, current_db, handles, hdb, next, tablenames, databases,
                   answer, closed, stale, told>>

\* Any call on a handle that has been closed.
UseClosed ==
    /\ Active /\ connection # NULL /\ ~Usable
    /\ stale' = TRUE
    /\ UNCHANGED <<connection, current_db, sqlite3, answer, closed, told, ran>>

\* Mutated: the temporary table of an earlier call is not dropped, so that
\* creating it fails and the old names stay.
Recreate_without_drop(tmp) == {[tab |-> IF tmp.there THEN tmp ELSE Empty, refused |-> FALSE]}

\* DROP TABLE, then CREATE TEMPORARY TABLE; the error of neither is looked at.
\* A table that could not be dropped stays, and the CREATE then fails too.
\* The possible [tab, refused].
Recreate(tmp) ==
    {[tab |-> Empty, refused |-> FALSE]}
    \cup (IF "drop" \in Faults /\ tmp.there THEN {[tab |-> tmp, refused |-> TRUE]} ELSE {})
    \cup (IF "create" \in Faults THEN {[tab |-> Absent, refused |-> TRUE]} ELSE {})

\* The INSERTs, of which some may fail (for a name with a quote in it, too).
Inserted(names) == IF "insert" \in Faults THEN SUBSET names ELSE {names}

\* The table after the INSERTs that went well; without a table none does.
Stocked(tab, some) == IF tab.there THEN [tab EXCEPT !.names = @ \cup some] ELSE tab

\* The SELECT from the temporary table, whose result is returned.
Selected(tab, listed) ==
    (IF tab.there THEN {listed} ELSE {NoAnswer})
    \cup (IF "query" \in Faults THEN {NoAnswer} ELSE {})

\* The names that the second connection's query returns.  When the query
\* fails (sqlite3_open does not look into the file), nothing is copied and
\* the caller is not told.
Found(names) == {names} \cup (IF "master" \in Faults THEN {{}} ELSE {})

\* dbd_list_tables(): the second connection is closed again after its names
\* have been copied.
ListTables(d) ==
    /\ Active /\ Usable
    /\ \E r \in Recreate(tablenames), found \in Found(files[d]) : \E some \in Inserted(found) :
         LET tab == Stocked(r.tab, some) IN
         /\ tablenames' = tab
         /\ answer' \in Selected(tab, [kind |-> "tables", names |-> tab.names, all |-> files[d],
                         unread |-> {}, lost |-> some # files[d], refused |-> r.refused,
                         error |-> FALSE, ok |-> TRUE])
    /\ UNCHANGED <<connection, current_db, handles, hdb, next, files, databases, closed,
                   stale, told, ran>>

\* The second connection cannot be opened: it is not closed, and the failed
\* handle is left as in _real_dbd_connect().
ListTablesFails ==
    /\ Active /\ "temp" \in Faults /\ next <= MaxHandles
    /\ handles' = handles \cup {next} /\ next' = next + 1
    /\ answer' = NoAnswer
    /\ UNCHANGED <<connection, current_db, hdb, files, tablenames, databases, closed,
                   stale, told, ran>>

\* Files that begin with the SQLite 3 magic: a file without tables is empty.
DatabaseFiles == {d \in Dbs : files[d] # {}}

\* The database files that can be opened and read.  The others are passed
\* over ("we can't read it, so forget about it").
Readable == IF "read" \in Faults THEN SUBSET DatabaseFiles ELSE {DatabaseFiles}

\* dbd_list_dbs(): every file of the directory that is seen to be a database,
\* until an INSERT fails, whose error the caller is told.
ListDbs ==
    /\ Active /\ Usable
    /\ \E r \in Recreate(databases), seen \in Readable : \E some \in Inserted(seen) :
         LET tab == Stocked(r.tab, some) IN
         /\ databases' = tab
         /\ answer' \in Selected(tab, [kind |-> "databases", names |-> tab.names,
                         all |-> DatabaseFiles, unread |-> DatabaseFiles \ seen,
                         lost |-> some # seen, refused |-> r.refused,
                         error |-> some # seen, ok |-> TRUE])
    /\ UNCHANGED <<connection, current_db, handles, hdb, next, files, tablenames, closed,
                   stale, told, ran>>

\* The directory cannot be read: the temporary table stays behind, empty.
ListDbsFails ==
    /\ Active /\ Usable /\ "dir" \in Faults
    /\ \E r \in Recreate(databases) : databases' = r.tab
    /\ answer' = NoAnswer
    /\ UNCHANGED <<connection, current_db, handles, hdb, next, files, tablenames, closed,
                   stale, told, ran>>

Stop == ~Active /\ UNCHANGED vars

Next ==
    \/ \E d \in Dbs : Connect(d) \/ SelectDb(d) \/ ListTables(d)
    \/ \E t \in Tables : Query(t)
    \/ Disconnect \/ UseClosed \/ ListTablesFails \/ ListDbs \/ ListDbsFails \/ Stop

Spec == Init /\ [][Next]_vars

-----------------------------------------------------------------------------
(* Properties *)

\* A list call shows no name that is not there, such as one that an earlier
\* call left in the temporary table, unless that table could not be dropped.
\* It shows every name there is, but for a file that cannot be read, unless a
\* statement that fills the table failed; dbd_list_dbs() reports that failure,
\* dbd_list_tables() is silent about it.
ListingFaithful ==
    answer.ok => /\ answer.refused \/ answer.names \subseteq answer.all
                 /\ \/ answer.all \ answer.unread \subseteq answer.names
                    \/ answer.lost /\ (answer.kind = "databases" => answer.error)

\* The database that statements reach.
Attached == IF ~closed /\ connection \in handles THEN hdb ELSE NoDb

\* The sqlite3 driver keeps the promise of DbdSession.
Contract == INSTANCE DbdSession WITH att <- Attached
ContractSpec == Contract!Spec
=============================================================================
