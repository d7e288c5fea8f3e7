------------------------- MODULE FreetdsDriverProofs -------------------------
(***************************************************************************)
(* The freetds driver's session, its results and the database it runs      *)
(* statements in, for every number of connections, answers and rows.       *)
(***************************************************************************)
EXTENDS FreetdsDriver, TLAPS

-----------------------------------------------------------------------------
(* One session *)

\* Connecting again keeps the sessions of kept and makes at most one more,
\* that of conn->connection.
LEMMA ConnectedSession ==
    ASSUME NEW STATE kept, Connected(kept)
    PROVE  sessions' \subseteq (sessions \cap kept) \cup {connection'}
BY DEF Connected

\* What dbd_disconnect() keeps has a live session only if ct_cancel() failed.
LEMMA KeptGivenUp ==
    ASSUME OneSession, NEW cancelled \in Cancels, GivenUp(cancelled)
    PROVE  sessions \cap Kept(cancelled) \subseteq uncancelled'
<1>1. CASE cancelled
  BY <1>1 DEF OneSession, Kept, GivenUp
<1>2. CASE ~cancelled
  BY <1>2 DEF OneSession, Kept, GivenUp
<1>3. cancelled \in BOOLEAN
  BY DEF Cancels
<1> QED BY <1>1, <1>2, <1>3

\* Every step keeps OneSession.
LEMMA OneSessionStep == OneSession /\ [Next]_vars => OneSession'
<1> SUFFICES ASSUME OneSession, [Next]_vars PROVE OneSession'
  OBVIOUS
<1>0. ASSUME UNCHANGED <<sessions, connection, uncancelled>>, pc' = "closed" => pc = "closed" PROVE OneSession'
  BY <1>0 DEF OneSession
<1>1. CASE Connect
  <2>1. sessions \subseteq uncancelled /\ pc' # "closed" /\ UNCHANGED uncancelled
    BY <1>1 DEF Connect, OneSession, Alive
  <2> QED BY <1>1, <2>1, ConnectedSession DEF Connect, OneSession
<1>2. CASE Disconnect
  <2>1. PICK cancelled \in Cancels : structs' = Kept(cancelled) /\ GivenUp(cancelled)
    BY <1>2 DEF Disconnect
  <2>2. sessions' \subseteq uncancelled'
    BY <1>2, <2>1, KeptGivenUp DEF Disconnect
  <2> QED BY <2>2 DEF OneSession
<1>3. CASE ServerGone
  BY <1>3 DEF ServerGone, OneSession
<1>4. CASE PingFails
  <2>1. PICK cancelled \in Cancels : Connected(Kept(cancelled)) /\ GivenUp(cancelled)
    BY <1>4 DEF PingFails
  <2>2. sessions' \subseteq uncancelled' \cup {connection'}
    BY <2>1, KeptGivenUp, ConnectedSession
  <2>3. pc' # "closed"
    BY <1>4 DEF PingFails
  <2> QED BY <2>2, <2>3 DEF OneSession
<1>5. ASSUME NEW name, NEW statements, Start(name, statements) PROVE OneSession'
  BY <1>5, <1>0 DEF Start, conn
<1>6. CASE Query \/ Ping \/ \E d \in Dbs : SelectDb(d) \/ ListTables(d)
  BY <1>5, <1>6 DEF Query, Ping, SelectDb, ListTables
<1>7. CASE Send
  BY <1>0, <1>7 DEF Send, Return, conn
<1>8. CASE CmdSucceed
  BY <1>0, <1>8 DEF CmdSucceed
<1>9. CASE Skip \/ CmdFail \/ Refused
  BY <1>0, <1>9 DEF Skip, CmdFail, Refused, Return, conn
<1>10. ASSUME NEW n \in 0..MaxRows, RowResult(n) PROVE OneSession'
  BY <1>0, <1>10 DEF RowResult, conn
<1>11. CASE Bind \/ FetchRow
  BY <1>0, <1>11 DEF Bind, FetchRow, Return, conn
<1>12. CASE FetchFails \/ FetchEnd \/ EndResults
  BY <1>0, <1>12 DEF FetchFails, FetchEnd, EndResults, Return, conn
<1>13. CASE SelectReturns \/ Proceed
  BY <1>0, <1>13 DEF SelectReturns, Proceed, conn
<1>14. CASE UNCHANGED vars
  BY <1>0, <1>14 DEF vars, conn
<1> QED
  BY <1>1, <1>2, <1>3, <1>4, <1>6, <1>7, <1>8, <1>9, <1>10, <1>11, <1>12, <1>13, <1>14
     DEF Next, Stopped

\* No reconnect by dbd_ping(), and no disconnect, leaves a session alive that
\* is not the one of conn->connection, but for one that refused ct_cancel().
THEOREM OneSessionHolds == Spec => []OneSession
<1>1. Init => OneSession
  BY DEF Init, OneSession
<1> QED BY <1>1, OneSessionStep, PTL DEF Spec

-----------------------------------------------------------------------------
(* Answers that were left unread *)

SyncInv == ResultMeansInSync /\ PingRecovers

\* Every step keeps SyncInv: a query that read its answer to the end is the
\* only one with a result.
LEMMA SyncStep == SyncInv /\ [Next]_vars => SyncInv'
<1> SUFFICES ASSUME SyncInv, [Next]_vars PROVE SyncInv'
  OBVIOUS
<1> USE DEF SyncInv, ResultMeansInSync, PingRecovers
<1>1. CASE Connect
  BY <1>1 DEF Connect, Connected
<1>2. CASE Disconnect
  BY <1>2 DEF Disconnect
<1>3. CASE ServerGone
  BY <1>3 DEF ServerGone, Alive, query
<1>4. CASE PingFails
  <2>1. PICK cancelled \in Cancels : Connected(Kept(cancelled)) /\ GivenUp(cancelled)
    BY <1>4 DEF PingFails
  <2>2. pc' = "idle"
    BY <1>4 DEF PingFails
  <2>3. CASE cancelled
    BY <2>1, <2>2, <2>3 DEF Connected, Kept, Alive
  <2>4. CASE ~cancelled
    BY <2>1, <2>2, <2>4 DEF Connected, GivenUp
  <2>5. cancelled \in BOOLEAN
    BY DEF Cancels
  <2> QED BY <2>3, <2>4, <2>5
<1>5. ASSUME NEW name, NEW statements, Start(name, statements) PROVE SyncInv'
  BY <1>5 DEF Start
<1>6. CASE Query \/ Ping \/ \E d \in Dbs : SelectDb(d) \/ ListTables(d)
  BY <1>5, <1>6 DEF Query, Ping, SelectDb, ListTables
<1>7. CASE Send
  BY <1>7 DEF Send, Return
<1>8. CASE CmdSucceed
  BY <1>8 DEF CmdSucceed, Answer
<1>9. CASE Skip
  BY <1>9 DEF Skip, Answer
<1>10. CASE CmdFail \/ Refused
  BY <1>10 DEF CmdFail, Refused, Return
<1>11. ASSUME NEW n \in 0..MaxRows, RowResult(n) PROVE SyncInv'
  BY <1>11 DEF RowResult
<1>12. CASE Bind
  BY <1>12 DEF Bind, Return
<1>13. CASE FetchRow
  BY <1>13 DEF FetchRow
<1>14. CASE FetchFails
  BY <1>14 DEF FetchFails, Return
<1>15. CASE FetchEnd
  BY <1>15 DEF FetchEnd
<1>16. CASE EndResults
  BY <1>16 DEF EndResults, Return
<1>17. CASE SelectReturns
  BY <1>17 DEF SelectReturns
<1>18. CASE Proceed
  BY <1>18 DEF Proceed, Alive, conn
<1>19. CASE UNCHANGED vars
  BY <1>19 DEF vars, Alive, conn, query
<1> QED
  BY <1>1, <1>2, <1>3, <1>4, <1>6, <1>7, <1>8, <1>9, <1>10, <1>11, <1>12, <1>13, <1>14, <1>15, <1>16, <1>17,
     <1>18, <1>19 DEF Next, Stopped

\* SyncInv holds throughout.
LEMMA SpecSyncInv == Spec => []SyncInv
<1>1. Init => SyncInv
  BY DEF Init, SyncInv, ResultMeansInSync, PingRecovers
<1> QED BY <1>1, SyncStep, PTL DEF Spec

\* A query with a result has left nothing unread, whichever of the answers to
\* its command it met.
THEOREM ResultMeansInSyncHolds == Spec => []ResultMeansInSync
BY SpecSyncInv, PTL DEF SyncInv

\* After dbd_ping() a live session takes commands again, unless it refused
\* ct_cancel() and was kept.
THEOREM PingRecoversHolds == Spec => []PingRecovers
BY SpecSyncInv, PTL DEF SyncInv

-----------------------------------------------------------------------------
(* Rows and their conversion, one row late *)

RowRecords == [row : Nat, converted : Nat]
Results == [state : {"NULL", "NOTHING_RETURNED", "ROWS_RETURNED"}, rows : Seq(RowRecords)]

\* The first k rows of the server, all converted once but for the last, which
\* was converted last times.
Filed(k, last) == [i \in 1..k |-> [row |-> i, converted |-> IF i = k THEN last ELSE 1]]

\* While rows are fetched: the row last stored is converted when the buffers
\* of the next are bound.
RowsInv ==
    /\ server \in [rows : Nat, fetched : Nat] /\ result \in Results
    /\ pc = "bind" => result.state = "ROWS_RETURNED" /\ result.rows = Filed(server.fetched, 0)
    /\ pc = "fetch" => result.state = "ROWS_RETURNED" /\ result.rows = Filed(server.fetched, 1)
    /\ pc \in {"results", "returned"} /\ result.state = "ROWS_RETURNED" =>
         result.rows = Filed(server.rows, 1)

\* The rows filed so far are a sequence.
LEMMA FiledSeq ==
    ASSUME NEW k \in Nat, NEW last \in {0, 1}
    PROVE  Filed(k, last) \in Seq(RowRecords) /\ Len(Filed(k, last)) = k /\ DOMAIN Filed(k, last) = 1..k
<1>1. \A i \in 1..k : [row |-> i, converted |-> IF i = k THEN last ELSE 1] \in RowRecords
  BY DEF RowRecords
<1>2. Filed(k, last) \in [1..k -> RowRecords]
  BY <1>1 DEF Filed
<1> QED BY <1>2

\* Converting the row stored last.
LEMMA FiledConvert ==
    ASSUME NEW k \in Nat, k >= 1
    PROVE  [Filed(k, 0) EXCEPT ![k].converted = @ + 1] = Filed(k, 1)
<1> DEFINE f == Filed(k, 0)
           g == [f EXCEPT ![k].converted = @ + 1]
<1>1. f[k] = [row |-> k, converted |-> 0] /\ DOMAIN f = 1..k
  BY DEF Filed
<1>2. g[k] = [row |-> k, converted |-> 1]
  BY <1>1
<1>3. \A i \in 1..k : i # k => g[i] = [row |-> i, converted |-> 1]
  BY DEF Filed
<1>4. g = [i \in 1..k |-> g[i]]
  BY <1>1
<1> HIDE DEF g
<1>5. \A i \in 1..k : g[i] = Filed(k, 1)[i]
  BY <1>2, <1>3 DEF Filed
<1>6. Filed(k, 1) = [i \in 1..k |-> Filed(k, 1)[i]]
  BY DEF Filed
<1>7. g = Filed(k, 1)
  BY <1>4, <1>5, <1>6
<1> QED BY <1>7 DEF g

\* Before the first row there is nothing to convert.
LEMMA FiledNone == Filed(0, 0) = Filed(0, 1) /\ Filed(0, 0) = <<>>
BY DEF Filed

\* Storing the next row.
LEMMA FiledAppend ==
    ASSUME NEW k \in Nat
    PROVE  Append(Filed(k, 1), [row |-> k + 1, converted |-> 0]) = Filed(k + 1, 0)
<1> DEFINE e == [row |-> k + 1, converted |-> 0]
<1>1. e \in RowRecords
  BY DEF RowRecords
<1>2. Filed(k, 1) \in Seq(RowRecords) /\ Len(Filed(k, 1)) = k /\ Filed(k + 1, 0) \in Seq(RowRecords)
        /\ Len(Filed(k + 1, 0)) = k + 1
  BY FiledSeq
<1>3. Filed(k + 1, 0)[k + 1] = e
  BY DEF Filed
<1>4. \A i \in 1..k : Filed(k + 1, 0)[i] = Filed(k, 1)[i]
  BY DEF Filed
<1> HIDE DEF e
<1>5. Append(Filed(k, 1), e) = Filed(k + 1, 0)
  BY <1>1, <1>2, <1>3, <1>4
<1> QED BY <1>5 DEF e

\* A result without rows.
LEMMA CreatedResult ==
    ASSUME NEW s \in {"NULL", "NOTHING_RETURNED", "ROWS_RETURNED"}
    PROVE  Created(s) \in Results /\ Created(s).state = s /\ Created(s).rows = Filed(0, 0)
<1>1. Created(s).state = s /\ Created(s).rows = <<>>
  BY DEF Created
<1>2. Created(s) \in Results
  BY DEF Created, Results
<1> QED BY <1>1, <1>2, FiledNone

\* NULL has no rows either.
LEMMA NullResult == NULL \in Results /\ NULL.state = "NULL"
BY DEF NULL, Results

\* _dbd_freetds_buffers_binding() converts the row stored last.
LEMMA BindKeeps ==
    ASSUME RowsInv, pc = "bind", pc' = "fetch", UNCHANGED server,
           result' = IF Len(result.rows) >= Lag
                     THEN [result EXCEPT !.rows[Len(result.rows)].converted = @ + 1] ELSE result
    PROVE  RowsInv'
<1> DEFINE k == server.fetched
<1>1. k \in Nat /\ result \in Results /\ result.state = "ROWS_RETURNED" /\ result.rows = Filed(k, 0)
  BY DEF RowsInv
<1>2. Len(result.rows) = k
  BY <1>1, FiledSeq
<1>3. CASE k = 0
  <2>1. result' = result
    BY <1>2, <1>3 DEF Lag
  <2> QED BY <1>1, <1>3, <2>1, FiledNone DEF RowsInv
<1>4. CASE k >= 1
  <2>1. result' = [result EXCEPT !.rows[k].converted = @ + 1]
    BY <1>2, <1>4 DEF Lag
  <2>2. /\ result'.state = result.state
        /\ result'.rows = [result.rows EXCEPT ![k].converted = @ + 1]
        /\ result' = [state |-> result'.state, rows |-> result'.rows]
    BY <1>1, <2>1 DEF Results
  <2>3. result'.rows = Filed(k, 1)
    BY <1>1, <1>4, <2>2, FiledConvert
  <2>4. result' \in Results
    BY <1>1, <2>2, <2>3, FiledSeq DEF Results
  <2> QED BY <1>1, <2>2, <2>3, <2>4 DEF RowsInv
<1> QED BY <1>1, <1>3, <1>4

\* ct_fetch() files the next row, not converted yet.
LEMMA FetchRowKeeps ==
    ASSUME RowsInv, FetchRow
    PROVE  RowsInv'
<1> DEFINE k == server.fetched
           e == [row |-> k + 1, converted |-> 0]
<1>1. /\ k \in Nat /\ result \in Results /\ result.state = "ROWS_RETURNED" /\ result.rows = Filed(k, 1)
      /\ pc' = "bind" /\ server \in [rows : Nat, fetched : Nat]
  BY DEF RowsInv, FetchRow
<1>2. server' \in [rows : Nat, fetched : Nat] /\ server'.fetched = k + 1
  BY <1>1 DEF FetchRow
<1>3. result' = [result EXCEPT !.rows = Append(result.rows, e)]
  BY DEF FetchRow
<1> HIDE DEF e
<1>4. result'.state = result.state /\ result'.rows = Append(result.rows, e)
        /\ result' = [state |-> result'.state, rows |-> result'.rows]
  BY <1>1, <1>3 DEF Results
<1>5. result'.rows = Filed(k + 1, 0)
  BY <1>1, <1>4, FiledAppend DEF e
<1>6. result' \in Results
  BY <1>1, <1>4, <1>5, FiledSeq DEF Results
<1> QED BY <1>1, <1>2, <1>4, <1>5, <1>6 DEF RowsInv

\* Every step keeps RowsInv.
LEMMA RowsStep == RowsInv /\ [Next]_vars => RowsInv'
<1> SUFFICES ASSUME RowsInv, [Next]_vars PROVE RowsInv'
  OBVIOUS
<1>0. ASSUME UNCHANGED <<result, server>>, pc' = pc \/ pc' \in {"idle", "send", "closed"} PROVE RowsInv'
  BY <1>0 DEF RowsInv
<1>a. ASSUME result' = NULL, UNCHANGED server, pc' \in {"results", "returned"} PROVE RowsInv'
  BY <1>a, NullResult DEF RowsInv
<1>1. CASE Connect \/ Disconnect \/ ServerGone
  BY <1>0, <1>1 DEF Connect, Disconnect, ServerGone, query
<1>2. ASSUME NEW name, NEW statements, Start(name, statements) PROVE RowsInv'
  BY <1>0, <1>2 DEF Start, query
<1>3. CASE Query \/ Ping \/ \E d \in Dbs : SelectDb(d) \/ ListTables(d)
  BY <1>2, <1>3 DEF Query, Ping, SelectDb, ListTables
<1>4. CASE Send
  BY <1>a, <1>4 DEF Send, Return
<1>5. CASE CmdSucceed
  <2>1. pc = "results" /\ UNCHANGED server
    BY <1>5 DEF CmdSucceed, Answer
  <2>2. \/ pc' = pc /\ result' = Created("NOTHING_RETURNED")
        \/ pc' = pc /\ result' = result
        \/ pc' = "returned" /\ result' = NULL
    BY <1>5 DEF CmdSucceed
  <2> QED BY <1>0, <1>a, <2>1, <2>2, CreatedResult DEF RowsInv
<1>6. CASE Skip
  BY <1>0, <1>6 DEF Skip
<1>7. CASE CmdFail \/ Refused \/ FetchFails
  BY <1>a, <1>7 DEF CmdFail, Refused, FetchFails, Return, Answer
<1>8. ASSUME NEW n \in 0..MaxRows, RowResult(n) PROVE RowsInv'
  <2>1. /\ result' = Created("ROWS_RETURNED") /\ pc' \in {"bind", "aborted"}
        /\ server' = [rows |-> n, fetched |-> 0] /\ n \in Nat
    BY <1>8, FreetdsAssumption DEF RowResult
  <2>2. server' \in [rows : Nat, fetched : Nat] /\ server'.fetched = 0
    BY <2>1
  <2> QED BY <2>1, <2>2, CreatedResult DEF RowsInv
<1>9. CASE Bind
  <2>1. \/ /\ pc' = "fetch"
           /\ result' = IF Len(result.rows) >= Lag
                        THEN [result EXCEPT !.rows[Len(result.rows)].converted = @ + 1] ELSE result
        \/ pc' = "returned" /\ result' = NULL
    BY <1>9 DEF Bind, Return
  <2>2. pc = "bind" /\ UNCHANGED server
    BY <1>9 DEF Bind
  <2> QED BY <1>a, <2>1, <2>2, BindKeeps
<1>10. CASE FetchRow
  BY <1>10, FetchRowKeeps
<1>11. CASE FetchEnd
  BY <1>11 DEF FetchEnd, RowsInv
<1>12. CASE EndResults
  <2>1. \/ pc' = "returned" /\ result' = NULL /\ UNCHANGED server
        \/ pc = "results" /\ pc' = "returned" /\ UNCHANGED <<result, server>>
    BY <1>12 DEF EndResults, Return
  <2> QED BY <1>a, <2>1 DEF RowsInv
<1>13. CASE PingFails \/ SelectReturns \/ Proceed
  BY <1>0, <1>13 DEF PingFails, SelectReturns, Proceed, query
<1>14. CASE UNCHANGED vars
  BY <1>0, <1>14 DEF vars, query
<1> QED
  BY <1>1, <1>3, <1>4, <1>5, <1>6, <1>7, <1>8, <1>9, <1>10, <1>11, <1>12, <1>13, <1>14 DEF Next, Stopped

\* A result that dbd_query() returns has the server's rows in their order, each
\* converted exactly once.
THEOREM RowsCompleteHolds == Spec => []RowsComplete
<1>1. Init => RowsInv
  <2> SUFFICES ASSUME Init PROVE RowsInv
    OBVIOUS
  <2>1. server \in [rows : Nat, fetched : Nat]
    BY DEF Init
  <2> QED BY <2>1, NullResult DEF Init, RowsInv
<1>2. ASSUME RowsInv PROVE RowsComplete
  BY <1>2 DEF RowsInv, RowsComplete, Filed
<1> QED BY <1>1, <1>2, RowsStep, PTL DEF Spec

-----------------------------------------------------------------------------
(* The selected database *)

Running == {"send", "results", "bind", "fetch", "returned"}

\* What dbd_list_tables() may still have to run: on the way back, if the
\* connection has a database, is the statement that selects it again.
ListingLeft ==
    \/ current_db = NoDb /\ (todo = <<Sql>> \/ \E d \in Dbs : todo = <<Use(d), Sql>>)
    \/ /\ current_db # NoDb
       /\ \/ todo = <<Use(current_db)>> \/ todo = <<Sql, Use(current_db)>>
          \/ \E d \in Dbs : todo = <<Use(d), Sql, Use(current_db)>>

\* The statements that the function that is running has left.
TodoInv ==
    pc \in Running =>
        \/ call \in {"query", "ping"} /\ todo = <<Sql>>
        \/ call = "select_db" /\ \E d \in Dbs : todo = <<Use(d)>>
        \/ call = "list_tables" /\ ListingLeft

\* A command whose answer is being read is pending, and one with rows is no USE.
AnswerInv ==
    /\ pc \in {"results", "bind", "fetch"} => pending
    /\ pc \in {"bind", "fetch"} => Head(todo).kind = "sql"

\* A USE with a result has been executed; the last one of dbd_list_tables()
\* without a result was executed all the same, or refused, or no statement
\* can follow as its answer was left unread or the session is gone.
UseInv ==
    /\ pc \in {"results", "returned"} /\ Head(todo).kind = "use" /\ result # NULL => srvdb = Head(todo).db
    /\ pc = "returned" /\ Restoring /\ result = NULL =>
         pending \/ ~Alive \/ unrestored \/ srvdb = Head(todo).db

\* Between the driver's functions, and during those that run no USE, the
\* session is in the selected database if it takes or is executing commands.
KeptInv ==
    /\ selected => current_db # NoDb
    /\ /\ selected /\ ~unrestored /\ Alive
       /\ pc \in {"results", "bind", "fetch"} \/ (pc \in {"idle", "send", "returned"} /\ ~pending)
       /\ pc = "idle" \/ call \in {"query", "ping"}
       => srvdb = current_db

DbInv == TodoInv /\ AnswerInv /\ UseInv /\ KeptInv

\* Taking the first of at most three statements.
LEMMA Tail1 == ASSUME NEW a PROVE Head(<<a>>) = a /\ Tail(<<a>>) = <<>> /\ Len(<<a>>) = 1
OBVIOUS

\* Two statements.
LEMMA Tail2 == ASSUME NEW a, NEW b PROVE Tail(<<a, b>>) = <<b>> /\ <<b>> # <<>>
OBVIOUS

\* Three statements.
LEMMA Tail3 == ASSUME NEW a, NEW b, NEW c PROVE Tail(<<a, b, c>>) = <<b, c>> /\ <<b, c>> # <<>>
OBVIOUS

\* The statement at the head of todo, and what follows it.
LEMMA TodoHead ==
    ASSUME TodoInv, pc \in Running
    PROVE  /\ call \in {"query", "ping"} => Head(todo) = Sql /\ Head(todo).kind = "sql" /\ Tail(todo) = <<>>
           /\ call = "select_db" => Head(todo).kind = "use" /\ Head(todo).db \in Dbs
           /\ call = "list_tables" /\ Tail(todo) = <<>> /\ current_db # NoDb =>
                Head(todo).kind = "use" /\ Head(todo).db = current_db /\ Restoring
           /\ call \in {"query", "ping", "select_db", "list_tables"}
<1>1. Sql.kind = "sql" /\ \A d \in Dbs \cup {current_db} : Use(d).kind = "use" /\ Use(d).db = d
  BY DEF Sql, Use
<1>2. ASSUME call \in {"query", "ping"} PROVE Head(todo) = Sql /\ Tail(todo) = <<>>
  <2>1. todo = <<Sql>>
    BY <1>2 DEF TodoInv
  <2> QED BY <2>1, Tail1
<1>3. ASSUME call = "select_db" PROVE \E d \in Dbs : Head(todo) = Use(d)
  BY <1>3 DEF TodoInv
<1>4. ASSUME call = "list_tables", Tail(todo) = <<>>, current_db # NoDb PROVE Head(todo) = Use(current_db) /\ Len(todo) = 1
  <2>1. ListingLeft
    BY <1>4 DEF TodoInv
  <2>2. todo # <<Sql, Use(current_db)>>
    BY <1>4, Tail2
  <2>3. ASSUME NEW d \in Dbs PROVE todo # <<Use(d), Sql, Use(current_db)>>
    BY <1>4, Tail3
  <2>4. todo = <<Use(current_db)>>
    BY <1>4, <2>1, <2>2, <2>3 DEF ListingLeft
  <2> QED BY <2>4, Tail1
<1> QED BY <1>1, <1>2, <1>3, <1>4 DEF TodoInv, Restoring

\* The next statement of dbd_list_tables().
LEMMA ListingTail ==
    ASSUME ListingLeft, Tail(todo) # <<>>
    PROVE  \/ current_db = NoDb /\ Tail(todo) = <<Sql>>
           \/ current_db # NoDb /\ (Tail(todo) = <<Use(current_db)>> \/ Tail(todo) = <<Sql, Use(current_db)>>)
<1>1. CASE current_db = NoDb
  <2>1. \E d \in Dbs : todo = <<Use(d), Sql>>
    BY <1>1, Tail1 DEF ListingLeft
  <2>2. PICK d \in Dbs : todo = <<Use(d), Sql>>
    BY <2>1
  <2>3. Tail(todo) = <<Sql>>
    BY <2>2, Tail2
  <2> QED BY <1>1, <2>3
<1>2. CASE current_db # NoDb
  <2>1. todo = <<Sql, Use(current_db)>> \/ \E d \in Dbs : todo = <<Use(d), Sql, Use(current_db)>>
    BY <1>2, Tail1 DEF ListingLeft
  <2>2. CASE todo = <<Sql, Use(current_db)>>
    <3>1. Tail(todo) = <<Use(current_db)>>
      BY <2>2, Tail2
    <3> QED BY <1>2, <3>1
  <2>3. ASSUME NEW d \in Dbs, todo = <<Use(d), Sql, Use(current_db)>>
        PROVE  Tail(todo) = <<Sql, Use(current_db)>>
    BY <2>3, Tail3
  <2> QED BY <1>2, <2>1, <2>2, <2>3
<1> QED BY <1>1, <1>2

\* What dbd_list_tables() starts with.
LEMMA ListingStarts ==
    ASSUME NEW d \in Dbs, todo' = Listing(d), UNCHANGED current_db
    PROVE  ListingLeft'
<1>1. CASE current_db = NoDb
  <2>1. Listing(d) = <<Use(d), Sql>>
    BY <1>1 DEF Listing
  <2> QED BY <1>1, <2>1 DEF ListingLeft, Use, Sql
<1>2. CASE current_db # NoDb
  <2>1. Listing(d) = <<Use(d), Sql>> \o <<Use(current_db)>>
    BY <1>2 DEF Listing
  <2>2. ASSUME NEW a, NEW b, NEW c PROVE <<a, b>> \o <<c>> = <<a, b, c>>
    <3>1. <<a, b>> \in Seq({a, b, c}) /\ <<c>> \in Seq({a, b, c}) /\ <<a, b, c>> \in Seq({a, b, c})
      OBVIOUS
    <3>2. Len(<<a, b>>) = 2 /\ Len(<<c>>) = 1 /\ Len(<<a, b, c>>) = 3
      OBVIOUS
    <3>3. Len(<<a, b>> \o <<c>>) = 3 /\ <<a, b>> \o <<c>> \in Seq({a, b, c})
      BY <3>1, <3>2
    <3>4. (<<a, b>> \o <<c>>)[1] = a /\ (<<a, b>> \o <<c>>)[2] = b /\ (<<a, b>> \o <<c>>)[3] = c
      BY <3>1, <3>2
    <3> DEFINE s == <<a, b>> \o <<c>>
               t == <<a, b, c>>
    <3>5. \A i \in 1..3 : s[i] = t[i]
      BY <3>4
    <3>6. s \in Seq({a, b, c}) /\ t \in Seq({a, b, c}) /\ Len(s) = 3 /\ Len(t) = 3
      BY <3>1, <3>2, <3>3
    <3> HIDE DEF s, t
    <3>7. s = t
      BY <3>5, <3>6
    <3> QED BY <3>7 DEF s, t
  <2>3. Listing(d) = <<Use(d), Sql, Use(current_db)>>
    BY <2>1, <2>2
  <2>4. todo' = <<Use(d), Sql, Use(current_db)>>
    BY <2>3
  <2> QED BY <1>2, <2>4 DEF ListingLeft, Use, Sql
<1> QED BY <1>1, <1>2

\* Every step keeps TodoInv.
LEMMA TodoStep == TodoInv /\ [Next]_vars => TodoInv'
<1> SUFFICES ASSUME TodoInv, [Next]_vars PROVE TodoInv'
  OBVIOUS
<1>0. ASSUME UNCHANGED <<current_db, call, todo>>, pc' \in Running => pc \in Running PROVE TodoInv'
  BY <1>0 DEF TodoInv, ListingLeft, Use, Sql
<1>a. ASSUME pc' \notin Running PROVE TodoInv'
  BY <1>a DEF TodoInv
<1>1. CASE Connect \/ Disconnect \/ PingFails \/ SelectReturns
  BY <1>1, <1>a DEF Connect, Disconnect, PingFails, SelectReturns, Running
<1>2. CASE ServerGone
  BY <1>0, <1>2 DEF ServerGone
<1>3. CASE Query \/ Ping
  <2>1. call' \in {"query", "ping"} /\ todo' = <<Sql>>
    BY <1>3 DEF Query, Ping, Start
  <2> QED BY <2>1 DEF TodoInv, Sql
<1>4. ASSUME NEW d \in Dbs, SelectDb(d) PROVE TodoInv'
  <2>1. call' = "select_db" /\ todo' = <<Use(d)>>
    BY <1>4 DEF SelectDb, Start
  <2> QED BY <2>1 DEF TodoInv, Use
<1>5. ASSUME NEW d \in Dbs, ListTables(d) PROVE TodoInv'
  <2>1. call' = "list_tables" /\ todo' = Listing(d) /\ UNCHANGED current_db
    BY <1>5 DEF ListTables, Start, conn
  <2> QED BY <2>1, ListingStarts DEF TodoInv
<1>6. CASE Send
  BY <1>0, <1>6 DEF Send, Return, conn, Running
<1>7. CASE CmdSucceed \/ Skip \/ CmdFail \/ Refused
  BY <1>0, <1>7 DEF CmdSucceed, Skip, CmdFail, Refused, Return, Answer, conn, Running
<1>8. ASSUME NEW n \in 0..MaxRows, RowResult(n) PROVE TodoInv'
  BY <1>0, <1>8 DEF RowResult, Answer, conn, Running
<1>9. CASE Bind \/ FetchRow \/ FetchFails \/ FetchEnd \/ EndResults
  BY <1>0, <1>9 DEF Bind, FetchRow, FetchFails, FetchEnd, EndResults, Return, conn, Running
<1>10. CASE Proceed
  <2>1. /\ pc = "returned" /\ UNCHANGED <<current_db, call>> /\ todo' = Tail(todo)
        /\ pc' = IF Tail(todo) = <<>> THEN "idle" ELSE "send"
    BY <1>10 DEF Proceed, conn
  <2>2. CASE Tail(todo) = <<>>
    BY <1>a, <2>1, <2>2 DEF Running
  <2>3. CASE Tail(todo) # <<>>
    <3>1. call \in {"query", "ping", "list_tables"}
      BY <1>10 DEF Proceed
    <3>2. call = "list_tables" /\ ListingLeft
      BY <2>1, <2>3, <3>1, TodoHead DEF TodoInv, Running
    <3>3. ListingLeft'
      BY <2>1, <2>3, <3>2, ListingTail DEF ListingLeft, Use, Sql
    <3> QED BY <2>1, <3>2, <3>3 DEF TodoInv
  <2> QED BY <2>2, <2>3
<1>11. CASE UNCHANGED vars
  BY <1>0, <1>11 DEF vars, conn
<1> QED
  BY <1>1, <1>2, <1>3, <1>4, <1>5, <1>6, <1>7, <1>8, <1>9, <1>10, <1>11 DEF Next, Stopped

\* Every step keeps the rest of DbInv.  A step that leaves the session alone
\* only has to be looked at for where it goes.
LEMMA DbStep == DbInv /\ [Next]_vars => DbInv'
<1> SUFFICES ASSUME DbInv, [Next]_vars PROVE AnswerInv' /\ UseInv' /\ KeptInv'
  BY TodoStep DEF DbInv
<1> USE DEF DbInv
<1>h. ASSUME pc \in Running PROVE
        /\ call \in {"query", "ping"} => Head(todo) = Sql /\ Head(todo).kind = "sql" /\ Tail(todo) = <<>>
        /\ call = "select_db" => Head(todo).kind = "use" /\ Head(todo).db \in Dbs
        /\ call = "list_tables" /\ Tail(todo) = <<>> /\ current_db # NoDb =>
             Head(todo).kind = "use" /\ Head(todo).db = current_db /\ Restoring
        /\ call \in {"query", "ping", "select_db", "list_tables"}
  BY <1>h, TodoHead
<1>1. CASE Connect \/ PingFails
  <2>1. pc' = "idle" /\ UNCHANGED current_db
    BY <1>1 DEF Connect, PingFails
  <2>2. \/ ~selected'
        \/ UNCHANGED <<connection, srvdb, pending, asked>> /\ sessions' \subseteq sessions
    BY <1>1 DEF Connect, PingFails, Connected
  <2>3. (pc = "idle" /\ ~Alive) \/ (pc = "returned" /\ call = "ping")
    BY <1>1 DEF Connect, PingFails
  <2> QED BY <2>1, <2>2, <2>3 DEF AnswerInv, UseInv, KeptInv, Restoring, asked, Alive
<1>2. CASE Disconnect
  BY <1>2 DEF Disconnect, AnswerInv, UseInv, KeptInv, Restoring, asked
<1>3. CASE ServerGone
  <2>1. UNCHANGED <<connection, current_db, srvdb, pending, call, todo, pc, asked, result>> /\ ~Alive'
    BY <1>3 DEF ServerGone, Alive, query
  <2> QED BY <2>1 DEF AnswerInv, UseInv, KeptInv, Restoring, asked
<1>4. ASSUME NEW name, NEW statements, Start(name, statements) PROVE AnswerInv' /\ UseInv' /\ KeptInv'
  BY <1>4 DEF Start, Ready, conn, Alive, AnswerInv, UseInv, KeptInv, Restoring, asked
<1>5. CASE Query \/ Ping \/ \E d \in Dbs : SelectDb(d) \/ ListTables(d)
  BY <1>4, <1>5 DEF Query, Ping, SelectDb, ListTables
<1>6. CASE Send
  BY <1>6 DEF Send, Return, conn, Alive, AnswerInv, UseInv, KeptInv, Restoring, asked
<1>7. CASE CmdSucceed
  <2>1. /\ pc = "results" /\ pending /\ UNCHANGED <<current_db, call, todo, selected>> /\ (Alive' <=> Alive)
        /\ (pc' = "results" /\ UNCHANGED pending) \/ (pc' = "returned" /\ result' = NULL)
        /\ unrestored' = (unrestored /\ ~Restoring)
        /\ srvdb' = IF Head(todo).kind = "use" THEN Head(todo).db ELSE srvdb
    BY <1>7 DEF CmdSucceed, Answer, AnswerInv, Alive
  <2> QED BY <1>h, <2>1 DEF AnswerInv, UseInv, KeptInv, Restoring, asked, Running
<1>8. CASE Skip
  BY <1>8 DEF Skip, Answer, conn, Alive, AnswerInv, UseInv, KeptInv, Restoring, asked
<1>9. CASE CmdFail \/ Refused
  <2>1. /\ pc = "results" /\ pc' = "returned" /\ result' = NULL
        /\ UNCHANGED <<current_db, srvdb, call, todo, selected>> /\ (Alive' <=> Alive)
        /\ \/ unrestored' = (unrestored \/ Restoring)
           \/ UNCHANGED <<unrestored, pending>>
    BY <1>9 DEF CmdFail, Refused, Return, Answer, conn, Alive
  <2>2. pending
    BY <2>1 DEF AnswerInv
  <2> QED BY <2>1, <2>2 DEF AnswerInv, UseInv, KeptInv, Restoring, asked
<1>10. ASSUME NEW n \in 0..MaxRows, RowResult(n) PROVE AnswerInv' /\ UseInv' /\ KeptInv'
  BY <1>10 DEF RowResult, Answer, conn, Alive, AnswerInv, UseInv, KeptInv, Restoring, asked
<1>11. CASE Bind
  BY <1>11 DEF Bind, Return, conn, Alive, AnswerInv, UseInv, KeptInv, Restoring, asked
<1>12. CASE FetchRow
  BY <1>12 DEF FetchRow, conn, Alive, AnswerInv, UseInv, KeptInv, Restoring, asked
<1>13. CASE FetchFails
  BY <1>13 DEF FetchFails, Return, conn, Alive, AnswerInv, UseInv, KeptInv, Restoring, asked
<1>14. CASE FetchEnd
  BY <1>14 DEF FetchEnd, conn, Alive, AnswerInv, UseInv, KeptInv, Restoring, asked
<1>15. CASE EndResults
  <2>1. /\ pc = "results" /\ pc' = "returned" /\ UNCHANGED <<current_db, srvdb, call, todo, selected, unrestored>>
        /\ Alive' <=> Alive
        /\ \/ Ended /\ result' = result
           \/ UNCHANGED pending /\ result' = NULL
    BY <1>15 DEF EndResults, Return, conn, Alive, asked
  <2>2. pending /\ (Head(todo).kind = "use" /\ result # NULL => srvdb = Head(todo).db)
    BY <2>1 DEF AnswerInv, UseInv
  <2>3. UseInv'
    BY <2>1, <2>2, Zenon DEF Ended, UseInv, Restoring, NULL
  <2>4. KeptInv'
    BY <2>1, <2>2 DEF KeptInv
  <2> QED BY <2>1, <2>3, <2>4 DEF AnswerInv
<1>16. CASE SelectReturns
  BY <1>16, <1>h, FreetdsAssumption DEF SelectReturns, Alive, AnswerInv, UseInv, KeptInv, Restoring, asked, Running
<1>17. CASE Proceed
  <2>1. /\ pc = "returned" /\ pc' \in {"idle", "send"} /\ (pc' = "idle" => Tail(todo) = <<>>)
        /\ UNCHANGED <<current_db, srvdb, pending, call, asked, result>> /\ (Alive' <=> Alive)
    BY <1>17 DEF Proceed, conn, query, Alive
  <2>2. pc' = "send" => call = "list_tables"
    BY <1>17, <1>h, <2>1 DEF Proceed, Running
  <2>3. pc' = "idle" /\ call = "list_tables" /\ selected /\ ~unrestored /\ Alive /\ ~pending => srvdb = current_db
    BY <1>h, <2>1 DEF UseInv, KeptInv, Running
  <2>4. call \in {"query", "ping", "list_tables"}
    BY <1>17 DEF Proceed
  <2> QED BY <2>1, <2>2, <2>3, <2>4 DEF AnswerInv, UseInv, KeptInv, Restoring, asked
<1>18. CASE UNCHANGED vars
  BY <1>18 DEF vars, conn, query, Alive, AnswerInv, UseInv, KeptInv, Restoring, asked
<1> QED
  BY <1>1, <1>2, <1>3, <1>5, <1>6, <1>7, <1>8, <1>9, <1>10, <1>11, <1>12, <1>13, <1>14, <1>15, <1>16, <1>17, <1>18
     DEF Next, Stopped

\* dbd_list_tables() of another database finds its way back to the one the
\* caller selected, or leaves a session that takes no statement, unless the
\* server refuses the way back.
THEOREM SelectedDbKeptHolds == Spec => []SelectedDbKept
<1>1. Init => DbInv
  BY DEF Init, DbInv, TodoInv, Running, AnswerInv, UseInv, KeptInv, Restoring, asked
<1>2. DbInv => SelectedDbKept
  BY DEF DbInv, KeptInv, SelectedDbKept
<1> QED BY <1>1, <1>2, DbStep, PTL DEF Spec
=============================================================================
