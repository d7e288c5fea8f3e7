--------------------------- MODULE IngresSession ---------------------------
(***************************************************************************)
(* Connections and transactions of drivers/ingres/dbd_ingres.c.  The       *)
(* caller's dbi_conn_t (Main) owns a second one (Sys) that the driver      *)
(* opens on demand for the system catalogs and keeps; dbd_list_tables()    *)
(* opens a further one for every call.  The OpenAPI service hands out      *)
(* session and transaction handles; here a handle is a number, 0 is NULL,  *)
(* and handles are never reused, so that a dead one can be told from a     *)
(* live one.                                                               *)
(***************************************************************************)
EXTENDS Naturals, FiniteSets

CONSTANTS
    Main, Sys,      \* the two connection objects
    AutocommitOptions,  \* values that Main's ingres_autocommit option may have
    MaxHandles,     \* bound: handles the service hands out
    MaxWork,        \* bound: uncommitted statements counted
    Faults          \* a subset of {"connect", "disconnect", "autocommit", "end", "query"}

ASSUME SessionAssumption ==
    /\ Main # Sys
    /\ AutocommitOptions \subseteq BOOLEAN
    /\ MaxHandles \in Nat /\ MaxWork \in Nat \ {0}

VARIABLES
    iconn,      \* [{Main, Sys} -> ingres_conn_t or NoConn]
    sysConn,    \* iconn->sysConn # NULL: the Sys object has been created
    sessions,   \* service: live session handles
    trans,      \* service: live transactions [id, sess, kind, work]
    stray,      \* live sessions that the driver has no handle of any more
    next,       \* next handle
    crashed     \* the driver followed a NULL conn->connection

service == <<sessions, trans, next>>
vars == <<iconn, sysConn, service, stray, crashed>>

Conns == {Main, Sys}
NULLTRAN == 0

\* conn->connection == NULL; an ingres_conn_t otherwise, with its session.
NoConn == [conn |-> 0, tran |-> NULLTRAN, auto |-> FALSE]

Live(t) == \E x \in trans : x.id = t
Tran(t) == CHOOSE x \in trans : x.id = t
Dead(t) == t # NULLTRAN /\ ~Live(t)
SessionTrans(s) == {x \in trans : x.sess = s}

Init ==
    /\ iconn = [c \in Conns |-> NoConn]
    /\ sysConn = FALSE
    /\ sessions = {} /\ trans = {} /\ next = 1
    /\ stray = {}
    /\ crashed = FALSE

-----------------------------------------------------------------------------
(* The OpenAPI service, as far as the driver relies on it.                  *)

\* IIapi_query on session s with transaction handle t: NULL begins a
\* transaction, whose handle is handed back; a released handle is an error.
\* The result is the set of possible [trans, next, out, ok].
QueryOutcomes(s, t) ==
    LET worked(x) == [x EXCEPT !.work = IF x.kind = "multi" /\ @ < MaxWork THEN @ + 1 ELSE @]
        fails == IF "query" \in Faults THEN {TRUE, FALSE} ELSE {TRUE}
    IN  IF t = NULLTRAN
        THEN {[trans |-> trans \cup {[id |-> next, sess |-> s, kind |-> "multi",
                                      work |-> IF ok THEN 1 ELSE 0]},
               next |-> next + 1, out |-> next, ok |-> ok] : ok \in fails}
        ELSE IF Live(t)
        THEN {[trans |-> IF ok THEN (trans \ {Tran(t)}) \cup {worked(Tran(t))} ELSE trans,
               next |-> next, out |-> t, ok |-> ok] : ok \in fails}
        ELSE {[trans |-> trans, next |-> next, out |-> t, ok |-> FALSE]}

\* IIapi_commit and IIapi_rollback release the handle when they succeed.
\* Without a live transaction they fail; the autocommit handle may be refused.
EndOutcomes(t) ==
    IF ~Live(t) THEN {FALSE}
    ELSE {TRUE} \cup (IF "end" \in Faults \/ Tran(t).kind = "auto" THEN {FALSE} ELSE {})

-----------------------------------------------------------------------------
(* The driver.                                                              *)

Connected(c) == iconn[c] # NoConn

\* ingres_connect(): the structure is allocated first; when IIapi_connect
\* fails, dbd_disconnect() frees it again.  autocommit is set before the
\* service is asked for it, and stays set when the service refuses.
\* The possible [conn, sessions, trans, next].
ConnectOutcomes(auto, s0, t0, n0) ==
    LET open(tran) == [conn |-> n0, tran |-> tran, auto |-> auto]
        plain == [conn |-> open(NULLTRAN), sessions |-> s0 \cup {n0}, trans |-> t0, next |-> n0 + 1]
        autoOn == [conn |-> open(n0 + 1), sessions |-> s0 \cup {n0},
                   trans |-> t0 \cup {[id |-> n0 + 1, sess |-> n0, kind |-> "auto", work |-> 0]},
                   next |-> n0 + 2]
        refused == [conn |-> NoConn, sessions |-> s0, trans |-> t0, next |-> n0]
    IN  (IF ~auto THEN {plain}
         ELSE {autoOn} \cup (IF "autocommit" \in Faults THEN {plain} ELSE {}))
        \cup (IF "connect" \in Faults THEN {refused} ELSE {})

\* dbd_connect()
Connect ==
    /\ ~crashed /\ ~Connected(Main)
    /\ next + 2 <= MaxHandles
    /\ \E auto \in AutocommitOptions :
       \E o \in ConnectOutcomes(auto, sessions, trans, next) :
         /\ iconn' = [iconn EXCEPT ![Main] = o.conn]
         /\ sessions' = o.sessions /\ trans' = o.trans /\ next' = o.next
    /\ UNCHANGED <<sysConn, stray, crashed>>

\* Mutated: the catalog connection is not closed.
Closed_main_only == {iconn[c].conn : c \in {d \in {Main} : Connected(d)}}

\* What dbd_disconnect() closes: the catalog connection, then its own
\* session (which ends the transactions on it).
Closed == {iconn[c].conn : c \in {d \in Conns : Connected(d)}}

\* Of these, the sessions whose IIapi_disconnect the service may refuse.  The
\* driver does not look at the status and frees the ingres_conn_t all the same.
DisconnectsRefused == IF "disconnect" \in Faults THEN SUBSET Closed ELSE {{}}

SessionsAfterClose(kept) == sessions \ (Closed \ kept)

\* In autocommit mode currTran is given back before the session is closed; the
\* service may refuse that too (exited is FALSE).  The other transactions of a
\* session that stays open are left as they are, with nobody to end them.
\* (A NULL currTran begins one more there, which no property is about.)
TransAfterClose(kept, exited) ==
    {x \in trans : x.sess \notin Closed}
    \cup {[x EXCEPT !.kind = "refused"] :
             x \in {y \in trans : y.sess \in kept /\ ~(y.kind = "auto" /\ exited)}}

\* dbd_disconnect()
Disconnect ==
    /\ ~crashed /\ Connected(Main)
    /\ \E kept \in DisconnectsRefused, exited \in BOOLEAN :
         /\ sessions' = SessionsAfterClose(kept)
         /\ trans' = TransAfterClose(kept, exited)
         /\ stray' = stray \cup kept
    /\ iconn' = [c \in Conns |-> NoConn]
    /\ sysConn' = FALSE
    /\ UNCHANGED <<next, crashed>>

\* dbd_select_db(): disconnect, then connect to the other database.
SelectDb ==
    /\ ~crashed
    /\ next + 2 <= MaxHandles
    /\ \E kept \in DisconnectsRefused, exited \in BOOLEAN, auto \in AutocommitOptions :
       \E o \in ConnectOutcomes(auto, SessionsAfterClose(kept), TransAfterClose(kept, exited), next) :
         /\ iconn' = [c \in Conns |-> IF c = Main THEN o.conn ELSE NoConn]
         /\ sessions' = o.sessions /\ trans' = o.trans /\ next' = o.next
         /\ stray' = stray \cup kept
    /\ sysConn' = FALSE
    /\ UNCHANGED crashed

\* ingres_query() without a connection: refused.
QueryUnconnected ==
    /\ ~crashed /\ ~Connected(Main)
    /\ UNCHANGED <<iconn, sysConn, service, stray, crashed>>

\* dbd_get_seq_last() asks AUTOCOMMIT_ON(conn) after the refused query.
SeqLastUnconnected ==
    /\ ~crashed /\ ~Connected(Main)
    /\ crashed' = TRUE
    /\ UNCHANGED <<iconn, sysConn, service, stray>>

\* ingres_query() with any statement but COMMIT and ROLLBACK: the caller's
\* own, or the SELECT that dbd_ping(), dbd_get_engine_version(),
\* dbd_get_seq_last() and dbd_get_seq_next() send.
Statement ==
    /\ ~crashed /\ Connected(Main)
    /\ next + 2 <= MaxHandles
    /\ LET ic == iconn[Main] IN
       /\ \E o \in QueryOutcomes(ic.conn, ic.tran) :
            /\ trans' = o.trans /\ next' = o.next
            /\ iconn' = [iconn EXCEPT ![Main].tran = o.out]
    /\ UNCHANGED <<sysConn, sessions, stray, crashed>>

\* Mutated: currTran is reset although the service refused to end it.
EndTransaction_resets_always ==
    /\ ~crashed /\ Connected(Main)
    /\ \E ok \in EndOutcomes(iconn[Main].tran) :
         trans' = IF ok THEN trans \ {Tran(iconn[Main].tran)} ELSE trans
    /\ iconn' = [iconn EXCEPT ![Main].tran = NULLTRAN]
    /\ UNCHANGED <<sysConn, sessions, next, stray, crashed>>

\* COMMIT and ROLLBACK go to the API function with currTran; success resets it.
EndTransaction ==
    /\ ~crashed /\ Connected(Main)
    /\ LET t == iconn[Main].tran IN
       /\ \E ok \in EndOutcomes(t) :
            /\ trans' = IF ok THEN trans \ {Tran(t)} ELSE trans
            /\ iconn' = IF ok THEN [iconn EXCEPT ![Main].tran = NULLTRAN] ELSE iconn
    /\ UNCHANGED <<sysConn, sessions, next, stray, crashed>>

\* Mutated: the catalog query's transaction is left open.
AfterRollback_none(tr, t) == {tr}

\* ingres_rollback() of the transaction that a catalog query left behind; the
\* service may refuse.
AfterRollback(tr, t) ==
    LET alive == \E x \in tr : x.id = t IN
    IF ~alive THEN {tr}
    ELSE {{x \in tr : x.id # t}}
         \cup (IF "end" \in Faults
               THEN {{IF x.id = t THEN [x EXCEPT !.kind = "refused"] ELSE x : x \in tr}}
               ELSE {})

\* Mutated: the caller's transaction is rolled back instead.
ListDbs_rolls_back_caller ==
    /\ ~crashed /\ Connected(Main) /\ sysConn /\ Connected(Sys)
    /\ next + 2 <= MaxHandles
    /\ \E o \in QueryOutcomes(iconn[Sys].conn, iconn[Sys].tran) :
         /\ \E tr \in AfterRollback(o.trans, iconn[Main].tran) : trans' = tr
         /\ next' = o.next
         /\ iconn' = [iconn EXCEPT ![Sys].tran = o.out]
    /\ UNCHANGED <<sysConn, sessions, stray, crashed>>

\* dbd_list_dbs() while the catalog connection is up: query it, roll back,
\* and leave sysConn's currTran as the query set it.
ListDbs ==
    /\ ~crashed /\ Connected(Main) /\ sysConn /\ Connected(Sys)
    /\ next + 2 <= MaxHandles
    /\ LET ic == iconn[Sys] IN
       /\ \E o \in QueryOutcomes(ic.conn, ic.tran) :
            /\ \E tr \in AfterRollback(o.trans, o.out) : trans' = tr
            /\ next' = o.next
            /\ iconn' = [iconn EXCEPT ![Sys].tran = o.out]
    /\ UNCHANGED <<sysConn, sessions, stray, crashed>>

\* The first dbd_list_dbs() creates the catalog connection (never in
\* autocommit mode) and then queries it.
FirstListDbs ==
    /\ ~crashed /\ Connected(Main) /\ ~sysConn
    /\ next + 2 <= MaxHandles
    /\ sysConn' = TRUE
    /\ \E o \in ConnectOutcomes(FALSE, sessions, trans, next) :
         IF o.conn = NoConn
         THEN UNCHANGED <<iconn, service>>
         ELSE LET began == [id |-> o.next, sess |-> next, kind |-> "multi", work |-> 0]
              IN /\ \E tr \in AfterRollback(o.trans \cup {began}, o.next) : trans' = tr
                 /\ sessions' = o.sessions /\ next' = o.next + 1
                 /\ iconn' = [iconn EXCEPT ![Sys] = [o.conn EXCEPT !.tran = began.id]]
    /\ UNCHANGED <<stray, crashed>>

\* dbd_list_dbs() once the catalog connection could not be opened: the object
\* exists, its connection is NULL, and the rollback follows that pointer.  On
\* an unconnected Main it follows Main's own NULL pointer.
ListDbsNull ==
    /\ ~crashed
    /\ ~Connected(Main) \/ (sysConn /\ ~Connected(Sys))
    /\ crashed' = TRUE
    /\ UNCHANGED <<iconn, sysConn, service, stray>>

\* dbd_list_tables(): a connection of its own, rolled back and left open.
ListTables ==
    /\ ~crashed /\ next + 2 <= MaxHandles
    /\ \E o \in ConnectOutcomes(FALSE, sessions, trans, next) :
         IF o.conn = NoConn
         THEN UNCHANGED <<service, stray>>
         ELSE LET began == [id |-> o.next, sess |-> next, kind |-> "multi", work |-> 0]
              IN /\ \E tr \in AfterRollback(o.trans \cup {began}, o.next) : trans' = tr
                 /\ sessions' = o.sessions /\ next' = o.next + 1
                 /\ stray' = stray \cup {next}
    /\ UNCHANGED <<iconn, sysConn, crashed>>

Crashed == crashed /\ UNCHANGED vars

\* MaxHandles is used up: no further call is explored.
Exhausted == ~crashed /\ next + 2 > MaxHandles /\ UNCHANGED vars

Next ==
    \/ Connect \/ Disconnect \/ SelectDb
    \/ QueryUnconnected \/ SeqLastUnconnected \/ Statement \/ EndTransaction
    \/ ListDbs \/ FirstListDbs \/ ListDbsNull \/ ListTables
    \/ Crashed \/ Exhausted

Spec == Init /\ [][Next]_vars

-----------------------------------------------------------------------------
(* Properties *)

\* Sessions of the connections that the driver believes to be up.
Held == {iconn[c].conn : c \in {d \in Conns : Connected(d)}}

\* However connects, reconnects and catalog queries fail, the driver holds
\* exactly one session for each connection it believes to be up.  The only
\* other sessions open are those that it has let go of: the ones that
\* dbd_list_tables() leaves behind, and the ones whose IIapi_disconnect was
\* refused (dbd_disconnect() frees its structure whatever the service says).
SessionsOwned ==
    /\ sessions = stray \cup Held
    /\ Connected(Main) /\ Connected(Sys) => iconn[Main].conn # iconn[Sys].conn
    /\ Held \cap stray = {}
    /\ ~Connected(Main) => ~Connected(Sys)

\* The transaction open on the caller's session is the one in currTran: the
\* driver never loses the handle of open work, and never keeps a dead one.
MainTransaction ==
    Connected(Main) =>
        SessionTrans(iconn[Main].conn) = {x \in trans : x.id = iconn[Main].tran}
        /\ ~Dead(iconn[Main].tran)

\* Between two calls the catalog connections hold no transaction, hence no
\* lock, but for one that the service has refused to end.
CatalogsQuiet ==
    \A x \in trans : x.kind = "refused" \/ (Connected(Main) /\ x.sess = iconn[Main].conn)

\* A call that leaves currTran alone does not undo uncommitted work of the
\* caller: dbd_list_dbs() and dbd_list_tables() roll back only their own.
KeepsWork ==
    [][\A x \in trans :
         Connected(Main) /\ x.sess = iconn[Main].conn /\ iconn'[Main] = iconn[Main] =>
            \E y \in trans' : y.id = x.id /\ y.work >= x.work]_vars

\* "every query is committed as an individual transaction" in autocommit mode
\* (dbd_ingres.sgml:253): no uncommitted work while the mode is on.
AutocommitCommits ==
    iconn[Main].auto => \A x \in SessionTrans(iconn[Main].conn) : x.work = 0
=============================================================================
