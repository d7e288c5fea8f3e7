------------------------- MODULE OracleDriverProofs -------------------------
(***************************************************************************)
(* The oracle driver's connections, statement handles and rows keep their  *)
(* invariants for every number of connections and rows.                    *)
(***************************************************************************)
EXTENDS OracleDriver, TLAPS

\* The caller's result, row by row: a row in libdbi's cache is one of the
\* rows that OCI counted.
ResultType(r) ==
    /\ r = [stmt |-> r.stmt, n |-> r.n, rows |-> r.rows, cur |-> r.cur, failed |-> r.failed]
    /\ r.stmt \in Nat /\ r.n \in Nat /\ r.cur \in Nat
    /\ r.rows = [k \in DOMAIN r.rows |-> r.rows[k]]
    /\ DOMAIN r.rows \subseteq 1..r.n
    /\ r.failed \subseteq DOMAIN r.rows

ConnType == connection \in Nat /\ next \in Nat \ {0} /\ envs \subseteq Nat

\* A statement runs only for a connection, and dbd_query_null() only when the
\* caller has no result.
RunInv ==
    /\ pc \in {"idle", "sequence", "ping", "prepare", "execute", "count"}
    /\ ~Idle => Open /\ connection \in envs
    /\ pc \in {"prepare", "execute", "count"} => result.stmt = 0

\* A session was logged in from an environment, and dbd_disconnect() frees
\* none: the connection and every session have one.
SessionHasEnv == sessions \subseteq envs /\ (connection # 0 => connection \in envs)

IInv ==
    /\ ConnType /\ ResultType(result) /\ RunInv
    /\ StatementsOwned /\ SessionHasEnv /\ OneSession /\ HandleUsable /\ RowsFaithful

\* A new result has no rows.
LEMMA EmptyResult ==
    ASSUME NEW s \in Nat, NEW n \in Nat
    PROVE  /\ ResultType(Result(s, n))
           /\ Result(s, n).stmt = s
           /\ DOMAIN Result(s, n).rows = {}
BY DEF ResultType, Result, NoRows

\* An unconnected connection object satisfies IInv.
LEMMA InitIInv == Init => IInv
<1> SUFFICES ASSUME Init PROVE IInv
  OBVIOUS
<1>1. ResultType(result) /\ result.stmt = 0 /\ DOMAIN result.rows = {}
  BY EmptyResult DEF Init
<1> QED
  BY <1>1 DEF Init, IInv, ConnType, RunInv, Idle, StatementsOwned, Free, SessionHasEnv, OneSession,
      HandleUsable, RowsFaithful

\* What a step that leaves the result alone has to preserve.
LEMMA SameResult ==
    ASSUME IInv, UNCHANGED result, ConnType', RunInv', StatementsOwned', SessionHasEnv', OneSession',
           envs \subseteq envs'
    PROVE  IInv'
BY DEF IInv, ResultType, HandleUsable, RowsFaithful

\* What a step that leaves the connections and the result alone preserves.
LEMMA SameConn ==
    ASSUME IInv, UNCHANGED <<conn, result, loggedon, closed>>, RunInv', StatementsOwned'
    PROVE  IInv'
<1>1. ConnType' /\ SessionHasEnv' /\ OneSession' /\ envs \subseteq envs'
  BY DEF IInv, conn, ConnType, SessionHasEnv, OneSession
<1> QED BY <1>1, SameResult

\* Neither a disconnect nor what follows it loses track of a session.
LEMMA LoggedOnSessions ==
    ASSUME IInv, NEW off \in Logoffs, LoggedOn(off)
    PROVE  SessionsAfter(off) \subseteq loggedon' /\ SessionsAfter(off) \subseteq sessions
<1>1. off \in BOOLEAN
  BY DEF Logoffs
<1>2. sessions \subseteq loggedon \cup {connection}
  BY DEF IInv, OneSession
<1>3. CASE off
  BY <1>2, <1>3 DEF SessionsAfter, LoggedOn
<1>4. CASE ~off
  BY <1>2, <1>4 DEF SessionsAfter, LoggedOn
<1> QED BY <1>1, <1>3, <1>4

\* dbd_connect(), from no connection or after dbd_disconnect(): the session
\* it makes is the only one, but for those that refused OCILogoff().
LEMMA ConnectedKeeps ==
    ASSUME IInv, UNCHANGED result, pc' = "idle", stmts' = Free,
           NEW STATE olds, NEW STATE oldsessions, oldsessions \subseteq loggedon', oldsessions \subseteq sessions,
           Connected(0, olds, envs, oldsessions)
    PROVE  IInv'
<1>1. ConnType' /\ envs \subseteq envs'
  <2>1. next \in Nat \ {0} /\ next' = next + 1 /\ connection' \in {0, next}
    BY DEF IInv, ConnType, Connected
  <2>2. envs' = envs \/ envs' = envs \cup {next}
    BY DEF Connected
  <2>3. envs \subseteq Nat
    BY DEF IInv, ConnType
  <2>4. envs' \subseteq Nat /\ envs \subseteq envs'
    BY <2>1, <2>2, <2>3
  <2>5. connection' \in Nat /\ next' \in Nat \ {0}
    BY <2>1
  <2> QED BY <2>4, <2>5 DEF ConnType
<1>2. next # 0
  BY DEF IInv, ConnType
<1>3. SessionHasEnv' /\ OneSession'
  BY <1>2 DEF IInv, Connected, SessionHasEnv, OneSession
<1>4. RunInv' /\ StatementsOwned'
  BY DEF RunInv, Idle, StatementsOwned, Free, IInv, ResultType
<1> QED BY <1>1, <1>3, <1>4, SameResult

\* dbi_result_seek_row() caches the row asked for, whatever its order.
LEMMA SeekRowKeeps ==
    ASSUME IInv, NEW k \in 1..MaxRows, SeekRow(k)
    PROVE  IInv'
<1> USE DEF IInv
<1>0. ASSUME ResultType(result'), result'.stmt = result.stmt, RowsFaithful' PROVE IInv'
  BY <1>0 DEF SeekRow, conn, ConnType, RunInv, Idle, Open, StatementsOwned, Free, SessionHasEnv, OneSession,
      HandleUsable
<1>1. k \in Nat /\ k \in 1..result.n /\ Position(k - 1) = k
  <2>1. k \in 1..result.n
    BY DEF SeekRow
  <2>2. k \in Nat /\ k - 1 + 1 = k
    BY OracleAssumption
  <2> QED BY <2>1, <2>2 DEF Position
<1>2. CASE k \in DOMAIN result.rows
  <2>1. result' = [result EXCEPT !.cur = k]
    BY <1>2 DEF SeekRow
  <2>2. ResultType(result') /\ result'.stmt = result.stmt /\ result'.rows = result.rows
          /\ result'.failed = result.failed
    BY <1>1, <2>1 DEF ResultType
  <2>3. RowsFaithful'
    BY <2>2 DEF RowsFaithful
  <2> QED BY <1>0, <2>2, <2>3
<1>3. CASE k \notin DOMAIN result.rows
  <2>0. PICK ok \in Fetches(k - 1) :
           result' = [result EXCEPT
             !.cur = k,
             !.failed = IF ok THEN @ ELSE @ \cup {k},
             !.rows = [x \in DOMAIN @ \cup {k} |-> IF x = k THEN Fetched(k - 1, ok) ELSE @[x]]]
    BY <1>3 DEF SeekRow
  <2> DEFINE rows == [x \in DOMAIN result.rows \cup {k} |->
                        IF x = k THEN Fetched(k - 1, ok) ELSE result.rows[x]]
             failed == IF ok THEN result.failed ELSE result.failed \cup {k}
  <2>1. result' = [result EXCEPT !.cur = k, !.failed = failed, !.rows = rows]
    BY <2>0
  <2>a. ok \in BOOLEAN /\ result.failed \subseteq DOMAIN result.rows
    BY DEF Fetches, ResultType
  <2>b. failed \subseteq DOMAIN result.rows \cup {k} /\ \A x \in DOMAIN result.rows : x \in failed <=> x \in result.failed
    BY <1>3, <2>a
  <2>c. Fetched(k - 1, ok) = IF k \in failed THEN 0 ELSE k
    <3>1. CASE ok
      BY <1>1, <1>3, <2>a, <3>1 DEF Fetched
    <3>2. CASE ~ok
      BY <3>2 DEF Fetched
    <3> QED BY <2>a, <3>1, <3>2
  <2> HIDE DEF failed
  <2>2. /\ result'.stmt = result.stmt /\ result'.n = result.n /\ result'.rows = rows
        /\ result'.failed = failed /\ result'.cur = k
    BY <2>1 DEF ResultType
  <2>3. result' = [stmt |-> result'.stmt, n |-> result'.n, rows |-> result'.rows,
                   cur |-> result'.cur, failed |-> result'.failed]
    BY <2>1 DEF ResultType
  <2>4. ResultType(result')
    BY <1>1, <2>2, <2>3, <2>b DEF ResultType
  <2>5. RowsFaithful'
    BY <2>2, <2>b, <2>c DEF RowsFaithful
  <2> QED BY <1>0, <2>2, <2>4, <2>5
<1> QED BY <1>2, <1>3

\* Every call, and the loss of the server, preserves IInv.
LEMMA NextIInv == IInv /\ [Next]_vars => IInv'
<1> SUFFICES ASSUME IInv, [Next]_vars PROVE IInv'
  OBVIOUS
<1>0. stmts \in Nat /\ Free \in {0, 1} /\ stmts = Free + (IF Idle THEN 0 ELSE 1)
  BY DEF IInv, StatementsOwned, Free
<1>1. CASE Connect
  <2>1. sessions \subseteq loggedon' /\ pc' = "idle" /\ stmts' = Free
    BY <1>0, <1>1 DEF Connect, IInv, OneSession, RunInv, Idle, Open
  <2> QED BY <1>1, <2>1, ConnectedKeeps DEF Connect
<1>2. CASE Disconnect
  <2>1. PICK off \in Logoffs : sessions' = SessionsAfter(off) /\ LoggedOn(off)
    BY <1>2 DEF Disconnect
  <2>2. sessions' \subseteq loggedon' /\ sessions' \subseteq sessions
    BY <2>1, LoggedOnSessions
  <2>3. connection' = 0 /\ envs' = envs /\ next' = next /\ Idle' /\ Idle /\ UNCHANGED <<result, stmts, pc>>
    BY <1>2 DEF Disconnect, EnvsAfter, Idle
  <2>4. ConnType' /\ SessionHasEnv' /\ OneSession'
    BY <2>2, <2>3 DEF IInv, ConnType, SessionHasEnv, OneSession
  <2>5. RunInv' /\ StatementsOwned'
    BY <2>3 DEF IInv, RunInv, Idle, StatementsOwned, Free
  <2> QED BY <2>3, <2>4, <2>5, SameResult
<1>3. CASE ServerGone
  <2>1. RunInv' /\ StatementsOwned'
    BY <1>3 DEF ServerGone, IInv, RunInv, Idle, Open, StatementsOwned, Free
  <2> QED BY <1>3, <2>1, SameResult DEF ServerGone, IInv, ConnType, SessionHasEnv, OneSession
<1>4. CASE PingFails
  <2>1. PICK off \in Logoffs :
           Connected(0, oraconns \ {connection}, EnvsAfter, SessionsAfter(off)) /\ LoggedOn(off)
    BY <1>4 DEF PingFails
  <2>2. pc' = "idle" /\ stmts' = Free /\ UNCHANGED result
    BY <1>0, <1>4 DEF PingFails, Idle
  <2>3. SessionsAfter(off) \subseteq loggedon' /\ SessionsAfter(off) \subseteq sessions
    BY <2>1, LoggedOnSessions
  <2> QED BY <2>1, <2>2, <2>3, ConnectedKeeps DEF EnvsAfter
<1>5. CASE AskValue \/ ValueRead \/ Query \/ Prepare \/ Execute
  <2>1. UNCHANGED <<conn, result, loggedon, closed>>
    BY <1>5 DEF AskValue, ValueRead, Query, Prepare, Execute
  <2>2. StatementsOwned'
    BY <1>0, <1>5, <2>1 DEF AskValue, ValueRead, Query, Prepare, Execute, StatementsOwned, Free, Idle
  <2>3. RunInv'
    <3>1. pc' \in {"idle", "sequence", "ping", "prepare", "execute", "count"}
      BY <1>5 DEF AskValue, ValueRead, Query, Prepare, Execute
    <3>2. ~Idle' => Open /\ connection \in envs
      BY <1>5 DEF AskValue, ValueRead, Query, Prepare, Execute, Idle, Open, IInv, RunInv, SessionHasEnv
    <3>3. pc' \in {"prepare", "execute", "count"} => result.stmt = 0
      BY <1>5 DEF AskValue, ValueRead, Query, Prepare, Execute, Free, IInv, RunInv
    <3> QED BY <2>1, <3>1, <3>2, <3>3 DEF RunInv, Open, conn
  <2> QED BY <2>1, <2>2, <2>3, SameConn
<1>6. CASE FreeQuery
  <2>1. ResultType(result') /\ result'.stmt = 0 /\ DOMAIN result'.rows = {}
    BY <1>6, EmptyResult DEF FreeQuery
  <2>2. stmts' = 0 /\ pc' = "idle" /\ UNCHANGED <<conn, pc, loggedon, closed>>
    BY <1>0, <1>6 DEF FreeQuery, Idle
  <2> QED
    BY <2>1, <2>2 DEF conn, IInv, ConnType, RunInv, Idle, StatementsOwned, Free, SessionHasEnv, OneSession,
        HandleUsable, RowsFaithful
<1>7. ASSUME NEW n \in 0..MaxRows, Count(n) PROVE IInv'
  <2>1. connection \in Nat /\ connection # 0 /\ connection \in envs /\ Free = 0 /\ stmts = 1
    BY <1>0, <1>7 DEF Count, Open, IInv, ConnType, RunInv, Idle, Free
  <2>2. PICK m \in Nat : result' = Result(connection, m)
    BY <1>7, OracleAssumption DEF Count, Counted
  <2>3. ResultType(result') /\ result'.stmt = connection /\ DOMAIN result'.rows = {}
    BY <2>1, <2>2, EmptyResult
  <2>4. stmts' = 1 /\ pc' = "idle" /\ UNCHANGED <<conn, loggedon, closed>>
    BY <1>7, <2>1 DEF Count
  <2> QED
    BY <2>1, <2>3, <2>4 DEF conn, IInv, ConnType, RunInv, Idle, StatementsOwned, Free, SessionHasEnv,
        OneSession, HandleUsable, RowsFaithful
<1>8. ASSUME NEW k \in 1..MaxRows, SeekRow(k) PROVE IInv'
  BY <1>8, SeekRowKeeps
<1>9. CASE UNCHANGED vars
  <2>1. RunInv' /\ StatementsOwned'
    BY <1>9 DEF vars, conn, IInv, RunInv, Idle, Open, StatementsOwned, Free
  <2> QED BY <1>9, <2>1, SameConn DEF vars, conn
<1> QED
  BY <1>1, <1>2, <1>3, <1>4, <1>5, <1>6, <1>7, <1>8, <1>9 DEF Next, Stopped

\* IInv holds after every sequence of calls.
LEMMA SpecIInv == Spec => []IInv
BY InitIInv, NextIInv, PTL DEF Spec

\* Whichever step of a statement fails, its handle is freed once: the handles
\* that exist are the caller's and that of the function that is running.
THEOREM StatementsOwnedHolds == Spec => []StatementsOwned
BY SpecIInv, PTL DEF IInv

\* dbd_free_query() always finds the environment that its handle came from,
\* through any number of reconnects.
THEOREM HandleUsableHolds == Spec => []HandleUsable
BY SpecIInv, PTL DEF IInv

\* No reconnect by dbd_ping() leaves a session logged in, unless OCILogoff()
\* failed.
THEOREM OneSessionHolds == Spec => []OneSession
BY SpecIInv, PTL DEF IInv

\* Scrolled fetches fill the row that was asked for, or leave it unset when
\* the fetch failed.
THEOREM RowsFaithfulHolds == Spec => []RowsFaithful
BY SpecIInv, PTL DEF IInv
=============================================================================
