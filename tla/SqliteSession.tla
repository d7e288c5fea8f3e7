---------------------------- MODULE SqliteSession ----------------------------
(***************************************************************************)
(* The connections of both SQLite drivers.  drivers/sqlite/dbd_sqlite.c,   *)
(* for SQLite 2, was the pattern for the sqlite3 driver and has the same   *)
(* calls; what differs is what a failed open leaves behind: sqlite_open()  *)
(* returns no handle then.                                                 *)
(***************************************************************************)
EXTENDS Sqlite3Session

VARIABLE driver     \* the driver that the application loaded
allvars == <<vars, driver>>

v2_Init == Init /\ driver \in {"sqlite", "sqlite3"}

-----------------------------------------------------------------------------
(* drivers/sqlite                                                           *)

\* Mutated: current_db and the attachment are set before the open is tried.
v2_real_dbd_connect_early(d, before, mayFail) ==
    /\ current_db' = d /\ told' = d /\ tablenames' = Absent /\ databases' = Absent
    /\ \/ connection' = next /\ hdb' = d /\ handles' = before \cup {next} /\ next' = next + 1
       \/ mayFail /\ handles' = before /\ UNCHANGED <<connection, hdb, next>>

\* _real_dbd_connect()
v2_real_dbd_connect(d, before, mayFail) ==
    /\ tablenames' = Absent /\ databases' = Absent
    /\ \/ /\ connection' = next /\ current_db' = d /\ hdb' = d /\ told' = d
          /\ handles' = before \cup {next} /\ next' = next + 1
       \/ mayFail /\ handles' = before /\ UNCHANGED <<connection, current_db, hdb, next, told>>

\* dbd_connect()
v2_Connect(d) ==
    /\ Active /\ connection = NULL /\ next <= MaxHandles
    /\ v2_real_dbd_connect(d, handles, "connect" \in Faults)
    /\ UNCHANGED <<files, answer, closed, stale, ran>>

\* dbd_select_db(): sqlite_close(), then _real_dbd_connect().
v2_SelectDb(d) ==
    /\ Active /\ next <= MaxHandles
    /\ v2_real_dbd_connect(d, handles \ {connection}, "select" \in Faults)
    /\ stale' = (connection # NULL /\ ~Usable)
    /\ UNCHANGED <<files, answer, closed, ran>>

\* dbd_disconnect()
v2_Disconnect == Disconnect

\* dbd_query(), dbd_ping() and the calls that only use the handle.
v2_Query(t) == Query(t)

\* dbd_list_tables(): the names come from a second connection to d, and the
\* errors of the INSERTs are not looked at.
v2_ListTables(d) == ListTables(d)

\* The second connection cannot be opened: nothing has happened.
v2_ListTablesFails ==
    /\ Active /\ "temp" \in Faults
    /\ answer' = NoAnswer
    /\ UNCHANGED <<connection, current_db, sqlite3, closed, stale, told, ran>>

\* dbd_list_dbs(): each of its two INSERTs ends the scan when it fails.
v2_ListDbs == ListDbs

\* The directory cannot be read.
v2_ListDbsFails == ListDbsFails

v2_Next ==
    \/ \E d \in Dbs : v2_Connect(d) \/ v2_SelectDb(d) \/ v2_ListTables(d)
    \/ \E t \in Tables : v2_Query(t)
    \/ v2_Disconnect \/ UseClosed \/ v2_ListTablesFails \/ v2_ListDbs \/ v2_ListDbsFails \/ Stop

-----------------------------------------------------------------------------

EitherNext ==
    /\ \/ driver = "sqlite" /\ v2_Next
       \/ driver = "sqlite3" /\ Next
    /\ UNCHANGED driver

EitherSpec == v2_Init /\ [][EitherNext]_allvars
=============================================================================
