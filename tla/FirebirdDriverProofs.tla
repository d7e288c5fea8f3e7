------------------------- MODULE FirebirdDriverProofs -------------------------
(***************************************************************************)
(* The firebird driver announces rows as it promises, loses no change of   *)
(* the caller and implements DbdSession and DbiRows, for every set of      *)
(* databases and every number of connections, rows and changes.            *)
(***************************************************************************)
EXTENDS FirebirdDriver, TLAPS

\* The fields of a result; libdbi's cache holds an initial part of the rows.
Caches == UNION {[1..p -> Nat] : p \in 0..MaxRows}
Results == [n : Nat, pos : Nat, open : BOOLEAN, numrows : Nat, alloc : Nat, rows : Caches, cur : Nat,
            ended : BOOLEAN]

\* A result whose cached rows are the first pos rows of the cursor.
ResultOk(r) ==
    /\ r \in Results
    /\ r.n <= MaxRows /\ r.pos <= r.n
    /\ DOMAIN r.rows = 1..r.pos
    /\ \A k \in 1..r.pos : r.rows[k] = k

\* The row that is announced ahead: OneRowAhead, for any result.
Ahead(r) ==
    /\ r.numrows > 0 \/ r.ended => r.numrows = r.pos + (IF r.ended THEN 0 ELSE 1)
    /\ r.pos > 0 => r.pos < r.alloc
    /\ r.ended /\ r.open => r.pos = r.n

ResultInv == ResultOk(result) /\ Ahead(result)

\* ibase_conn_t structures are numbered from 1, in the order they are made.
ConnInv ==
    /\ next \in Nat \ {0}
    /\ iconns \subseteq Nat \ {0}
    /\ up => connection # NULL

\* The structure in use is attached to the database that the caller was told
\* of, and a reconnect by dbd_ping() would attach to the same one.
ToldInv ==
    Active /\ Usable => /\ dbname = told /\ told \in Dbs
                        /\ up => db = told

\* Without a server there is no transaction with changes in it.
WorkInv == work \in Nat /\ committed \in Nat /\ (~up => work = 0)

IInv == ResultInv /\ ConnInv /\ ToldInv /\ WorkInv

-----------------------------------------------------------------------------
(* Rows *)

\* A new result, with one row announced or none.
LEMMA FreshResult ==
    ASSUME NEW n \in 0..MaxRows, NEW m \in {0, 1}
    PROVE  /\ ResultOk(Result(n, m)) /\ Ahead(Result(n, m))
           /\ Result(n, m).cur = 0 /\ DOMAIN Result(n, m).rows = {}
<1> DEFINE r == Result(n, m)
<1>0. NoRows \in Caches /\ DOMAIN NoRows = {}
  <2>1. NoRows \in [1..0 -> Nat] /\ 0 \in 0..MaxRows
    BY FirebirdAssumption DEF NoRows
  <2> QED BY <2>1 DEF Caches, NoRows
<1>1. /\ r.n = n /\ r.pos = 0 /\ r.numrows = m /\ r.alloc = m + 1 /\ r.rows = NoRows /\ r.cur = 0
      /\ r.ended = FALSE /\ r.open = TRUE
  BY DEF Result
<1>2. r \in Results
  <2>1. n \in Nat /\ m \in Nat /\ m + 1 \in Nat
    BY FirebirdAssumption
  <2> QED BY <1>0, <2>1 DEF Result, Results
<1> HIDE DEF r
<1>4. ResultOk(r)
  BY <1>0, <1>1, <1>2, FirebirdAssumption DEF ResultOk
<1>5. Ahead(r)
  BY <1>1 DEF Ahead
<1> QED BY <1>0, <1>1, <1>4, <1>5 DEF r

\* The end of a transaction takes nothing from the rows that were fetched.
LEMMA ClosedResult ==
    ASSUME NEW r, ResultOk(r), Ahead(r)
    PROVE  /\ ResultOk(CursorClosed(r)) /\ Ahead(CursorClosed(r))
           /\ CursorClosed(r).cur = r.cur /\ CursorClosed(r).rows = r.rows
<1> DEFINE c == CursorClosed(r)
<1>1. c \in Results
  BY DEF CursorClosed, ResultOk, Results
<1>2. /\ c.n = r.n /\ c.pos = r.pos /\ c.numrows = r.numrows /\ c.alloc = r.alloc /\ c.rows = r.rows
      /\ c.cur = r.cur /\ c.ended = r.ended /\ c.open = FALSE
  BY DEF CursorClosed, ResultOk, Results
<1> HIDE DEF c
<1> QED BY <1>1, <1>2 DEF ResultOk, Ahead, c

\* A row that is fetched is the one announced ahead, and the next is announced.
LEMMA FetchedResult ==
    ASSUME NEW r, ResultOk(r), Ahead(r), NEW k \in 1..r.numrows, k \notin DOMAIN r.rows, r.pos < r.n
    PROVE  LET f == AfterFetch(r, k)
           IN  /\ ResultOk(f) /\ Ahead(f)
               /\ f.cur = k /\ k \in DOMAIN f.rows /\ f.rows[k] = k /\ k \in 1..MaxRows
<1> DEFINE f == AfterFetch(r, k)
           rows == [x \in DOMAIN r.rows \cup {k} |-> IF x = k THEN r.pos + 1 ELSE r.rows[x]]
<1>0. r.n \in Nat /\ r.pos \in 0..MaxRows /\ r.numrows \in Nat /\ r.n <= MaxRows
  BY FirebirdAssumption DEF ResultOk, Results
<1>1. k = r.pos + 1 /\ r.numrows = r.pos + 1 /\ ~r.ended /\ k \in 1..MaxRows
  BY <1>0, FirebirdAssumption DEF ResultOk, Ahead
<1>2. rows \in Caches /\ DOMAIN rows = 1..(r.pos + 1) /\ \A x \in 1..(r.pos + 1) : rows[x] = x
  <2>1. DOMAIN r.rows = 1..r.pos /\ \A x \in 1..r.pos : r.rows[x] = x
    BY DEF ResultOk
  <2>2. k = r.pos + 1 /\ k <= MaxRows /\ r.pos \in 0..MaxRows
    BY <1>0, <1>1, FirebirdAssumption
  <2>3. DOMAIN rows = 1..(r.pos + 1) /\ \A x \in 1..(r.pos + 1) : rows[x] = x
    BY <2>1, <2>2
  <2>4. rows \in [1..(r.pos + 1) -> Nat]
    <3> DEFINE p == r.pos + 1
    <3>1. \A x \in 1..p : rows[x] \in Nat
      BY <2>2, <2>3, FirebirdAssumption
    <3>2. rows = [x \in 1..p |-> rows[x]]
      BY <2>3
    <3> HIDE DEF p, rows
    <3> QED BY <3>1, <3>2 DEF p
  <2>5. r.pos + 1 \in 0..MaxRows
    BY <2>2, FirebirdAssumption
  <2> HIDE DEF rows
  <2> QED BY <2>3, <2>4, <2>5 DEF Caches
<1> HIDE DEF rows
<1>3. /\ f.n = r.n /\ f.pos = r.pos + 1 /\ f.numrows = r.numrows + 1 /\ f.alloc = r.numrows + 1
      /\ f.rows = rows /\ f.cur = k /\ f.ended = r.ended /\ f.open = r.open
  BY DEF AfterFetch, ResultOk, Enlarged, Results, rows
<1>4. f \in Results
  <2>1. PICK p \in Nat, m \in Nat : p = r.pos + 1 /\ m = r.numrows + 1
    BY <1>0
  <2>2. f = [r EXCEPT !.pos = p, !.alloc = m, !.numrows = m, !.cur = k, !.rows = rows]
    BY <2>1 DEF AfterFetch, ResultOk, Enlarged, Results, rows
  <2>3. k \in Nat
    OBVIOUS
  <2> HIDE DEF f
  <2> QED BY <1>2, <2>2, <2>3 DEF ResultOk, Results
<1> HIDE DEF f
<1>5. ResultOk(f)
  BY <1>0, <1>2, <1>3, <1>4 DEF ResultOk
<1>6. Ahead(f)
  BY <1>0, <1>1, <1>3 DEF Ahead
<1>7. k \in DOMAIN f.rows /\ f.rows[k] = k
  BY <1>0, <1>1, <1>2, <1>3
<1> QED BY <1>1, <1>3, <1>5, <1>6, <1>7 DEF f

\* At the end of the cursor the announced row is taken back.
LEMMA EndedResult ==
    ASSUME NEW r, ResultOk(r), Ahead(r), NEW k \in 1..r.numrows, k \notin DOMAIN r.rows,
           ~(r.open /\ r.pos < r.n)
    PROVE  LET e == AfterEnd(r)
           IN  ResultOk(e) /\ Ahead(e) /\ e.cur = r.cur /\ e.rows = r.rows
<1> DEFINE e == AfterEnd(r)
<1>0. r.n \in Nat /\ r.pos \in Nat /\ r.numrows \in Nat /\ r.pos <= r.n
  BY DEF ResultOk, Results
<1>1. r.numrows = r.pos + 1
  BY <1>0 DEF ResultOk, Ahead
<1>2. r.open => r.pos = r.n
  BY <1>0
<1>3. /\ e.n = r.n /\ e.pos = r.pos /\ e.numrows = r.numrows - 1 /\ e.alloc = r.alloc
      /\ e.rows = r.rows /\ e.cur = r.cur /\ e.ended = TRUE /\ e.open = r.open
  BY DEF AfterEnd, ResultOk, Results
<1>4. e \in Results
  <2>1. PICK m \in Nat : m = r.numrows - 1
    BY <1>0
  <2>2. e = [r EXCEPT !.numrows = m, !.ended = TRUE]
    BY <2>1 DEF AfterEnd, ResultOk, Results
  <2> HIDE DEF e
  <2> QED BY <2>2 DEF ResultOk, Results
<1> HIDE DEF e
<1>5. ResultOk(e)
  BY <1>3, <1>4 DEF ResultOk
<1>6. Ahead(e)
  BY <1>0, <1>1, <1>2, <1>3 DEF Ahead
<1> QED BY <1>3, <1>5, <1>6 DEF e

\* A row that libdbi has only becomes the current one.
LEMMA CachedResult ==
    ASSUME NEW r, ResultOk(r), Ahead(r), NEW k \in DOMAIN r.rows
    PROVE  LET c == [r EXCEPT !.cur = k]
           IN  ResultOk(c) /\ Ahead(c) /\ c.cur = k /\ c.rows = r.rows /\ r.rows[k] = k /\ k \in 1..MaxRows
<1> DEFINE c == [r EXCEPT !.cur = k]
<1>0. r.n \in Nat /\ r.pos \in Nat
  BY DEF ResultOk, Results
<1>1. k \in Nat /\ r.rows[k] = k /\ k \in 1..MaxRows
  BY <1>0, FirebirdAssumption DEF ResultOk
<1>2. c \in Results
  BY <1>1 DEF ResultOk, Results
<1>3. /\ c.n = r.n /\ c.pos = r.pos /\ c.numrows = r.numrows /\ c.alloc = r.alloc
      /\ c.rows = r.rows /\ c.cur = k /\ c.ended = r.ended /\ c.open = r.open
  BY DEF ResultOk, Results
<1> HIDE DEF c
<1> QED BY <1>1, <1>2, <1>3 DEF ResultOk, Ahead, c

\* dbi_result_seek_row(k) shows row k, or nothing new at the end.
LEMMA SeekRowShows ==
    ASSUME ResultInv, NEW k \in 1..(MaxRows + 1), SeekRow(k)
    PROVE  /\ ResultInv'
           /\ \/ k \in 1..MaxRows /\ result'.cur = k /\ Shown' = k
              \/ result'.cur = result.cur /\ Shown' = Shown
<1>0. k \in 1..result.numrows
  BY DEF SeekRow
<1>1. CASE k \in DOMAIN result.rows
  <2>1. result' = [result EXCEPT !.cur = k]
    BY <1>1 DEF SeekRow
  <2> QED BY <1>1, <2>1, CachedResult DEF ResultInv, Shown
<1>2. CASE k \notin DOMAIN result.rows /\ result.open /\ result.pos < result.n
  <2>1. result' = AfterFetch(result, k)
    BY <1>2 DEF SeekRow
  <2> QED BY <1>0, <1>2, <2>1, FetchedResult DEF ResultInv, Shown
<1>3. CASE k \notin DOMAIN result.rows /\ ~(result.open /\ result.pos < result.n)
  <2>1. result' = AfterEnd(result)
    BY <1>3 DEF SeekRow
  <2> QED BY <1>0, <1>3, <2>1, EndedResult DEF ResultInv, Shown
<1> QED BY <1>1, <1>2, <1>3

\* The result after a step: untouched, its cursor closed, new, or sought in.
LEMMA ResultStep ==
    ASSUME ResultInv, [Next]_vars
    PROVE  /\ ResultInv'
           /\ \/ result'.cur = result.cur /\ Shown' = Shown
              \/ result'.cur = 0 /\ Shown' = 0
              \/ \E k \in 1..MaxRows : result'.cur = k /\ Shown' = k
<1>1. ASSUME UNCHANGED result PROVE ResultInv' /\ Shown' = Shown
  BY <1>1 DEF ResultInv, Shown
<1>2. ASSUME result' = CursorClosed(result)
      PROVE  ResultInv' /\ result'.cur = result.cur /\ Shown' = Shown
  BY <1>2, ClosedResult DEF ResultInv, Shown
<1>3. ASSUME NEW n \in 0..MaxRows, NEW m \in {0, 1}, result' = Result(n, m)
      PROVE  ResultInv' /\ result'.cur = 0 /\ Shown' = 0
  BY <1>3, FreshResult DEF ResultInv, Shown
<1>4. \/ UNCHANGED result
      \/ result' = CursorClosed(result)
      \/ \E n \in 0..MaxRows, m \in {0, 1} : result' = Result(n, m)
      \/ \E k \in 1..(MaxRows + 1) : SeekRow(k)
  <2>1. ASSUME NEW n \in 0..MaxRows, Select(n) PROVE result' = Result(n, 1)
    BY <2>1 DEF Select
  <2>2. Change \/ Ddl => UNCHANGED result \/ result' = CursorClosed(result) \/ result' = Result(0, 0)
    BY DEF Change, Ddl
  <2>3. ASSUME NEW d \in Dbs, Connect(d) \/ SelectDb(d)
        PROVE  UNCHANGED result \/ result' = CursorClosed(result)
    BY <2>3 DEF Connect, SelectDb
  <2>4. \/ Disconnect \/ PingLost \/ ServerGone \/ UseFreed \/ QueryFails \/ Generator
        \/ UNCHANGED vars
        => UNCHANGED result \/ result' = CursorClosed(result)
    BY DEF Disconnect, PingLost, ServerGone, UseFreed, QueryFails, Generator, vars
  <2>5. 0 \in 0..MaxRows
    BY FirebirdAssumption
  <2> QED BY <2>1, <2>2, <2>3, <2>4, <2>5 DEF Next, Stop
<1> QED BY <1>1, <1>2, <1>3, <1>4, SeekRowShows

-----------------------------------------------------------------------------
(* Connection and transaction *)

\* What a step that leaves the attachment alone has to preserve.
LEMMA SameConn ==
    ASSUME ConnInv, ToldInv, UNCHANGED <<connection, dbname, iconns, next, db, up, told>>,
           Active' => Active
    PROVE  ConnInv' /\ ToldInv'
BY DEF ConnInv, ToldInv, Usable

\* _dbd_real_connect() numbers the structure it makes.
LEMMA RealConnectKeeps ==
    ASSUME ConnInv, NEW d, NEW STATE before, before \subseteq iconns, _dbd_real_connect(d, before)
    PROVE  ConnInv'
<1>1. next \in Nat \ {0} /\ next' = next + 1 /\ iconns \subseteq Nat \ {0}
  BY DEF ConnInv, _dbd_real_connect
<1>2. up' => connection' = next
  BY DEF _dbd_real_connect
<1>3. iconns' \subseteq iconns \cup {next}
  BY DEF _dbd_real_connect
<1>4. next' \in Nat \ {0} /\ iconns' \subseteq Nat \ {0}
  BY <1>1, <1>3
<1> QED BY <1>1, <1>2, <1>4 DEF ConnInv, NULL

\* Every call, and the loss of the server, preserves IInv.
LEMMA NextIInv == IInv /\ [Next]_vars => IInv'
<1> SUFFICES ASSUME IInv, [Next]_vars PROVE ConnInv' /\ ToldInv' /\ WorkInv'
  BY ResultStep DEF IInv
<1> USE DEF IInv
<1>1. ASSUME NEW d \in Dbs, Connect(d) PROVE ConnInv' /\ ToldInv' /\ WorkInv'
  <2>1. ConnInv'
    BY <1>1, RealConnectKeeps DEF Connect
  <2>2. ToldInv'
    BY <1>1 DEF Connect, _dbd_real_connect, ConnInv, ToldInv, Active, Usable, NULL
  <2>3. WorkInv'
    BY <1>1 DEF Connect, _dbd_real_connect, WorkInv
  <2> QED BY <2>1, <2>2, <2>3
<1>2. ASSUME NEW d \in Dbs, SelectDb(d) PROVE ConnInv' /\ ToldInv' /\ WorkInv'
  <2>1. ConnInv'
    BY <1>2, RealConnectKeeps DEF SelectDb
  <2>2. ToldInv'
    BY <1>2 DEF SelectDb, _dbd_real_connect, ConnInv, ToldInv, Active, Usable, NULL
  <2>3. WorkInv'
    BY <1>2 DEF SelectDb, CommitConnected, CommitTransaction, _dbd_real_connect, WorkInv
  <2> QED BY <2>1, <2>2, <2>3
<1>3. CASE Disconnect
  <2>1. ConnInv'
    <3>1. iconns' \subseteq iconns /\ UNCHANGED <<next, up, connection>>
      BY <1>3 DEF Disconnect
    <3> QED BY <3>1 DEF ConnInv
  <2>2. ToldInv'
    BY <1>3 DEF Disconnect, ToldInv, Active
  <2>3. WorkInv'
    BY <1>3 DEF Disconnect, CommitConnected, CommitTransaction, WorkInv
  <2> QED BY <2>1, <2>2, <2>3
<1>4. CASE PingLost
  <2>1. ConnInv'
    BY <1>4, RealConnectKeeps DEF PingLost
  <2>2. ToldInv'
    BY <1>4 DEF PingLost, _dbd_real_connect, ConnInv, ToldInv, Active, Usable, NULL
  <2>3. WorkInv'
    BY <1>4 DEF PingLost, _dbd_real_connect, WorkInv
  <2> QED BY <2>1, <2>2, <2>3
<1>5. CASE ServerGone
  BY <1>5 DEF ServerGone, ConnInv, ToldInv, WorkInv, Active, Usable
<1>6. CASE UseFreed
  BY <1>6, SameConn DEF UseFreed, server, WorkInv, Active
<1>7. CASE Change
  BY <1>7, SameConn DEF Change, Ready, WorkInv, Active
<1>8. CASE Ddl
  <2>1. ConnInv' /\ ToldInv'
    BY <1>8, SameConn DEF Ddl, Ready, Active
  <2>2. up' = up /\ up /\ (work' = 0 \/ work' = work + 1) /\ committed' \in {committed, committed + work + 1}
    BY <1>8 DEF Ddl, Ready
  <2>3. WorkInv'
    BY <2>2 DEF WorkInv
  <2> QED BY <2>1, <2>3
<1>9. CASE Generator
  BY <1>9, SameConn DEF Generator, server, WorkInv, Active
<1>10. ASSUME NEW n \in 0..MaxRows, Select(n) PROVE ConnInv' /\ ToldInv' /\ WorkInv'
  BY <1>10, SameConn DEF Select, server, WorkInv, Active
<1>11. ASSUME NEW k \in 1..(MaxRows + 1), SeekRow(k) PROVE ConnInv' /\ ToldInv' /\ WorkInv'
  BY <1>11, SameConn DEF SeekRow, server, WorkInv, Active
<1>12. CASE UNCHANGED vars
  BY <1>12, SameConn DEF vars, server, WorkInv, Active
<1> QED
  BY <1>1, <1>2, <1>3, <1>4, <1>5, <1>6, <1>7, <1>8, <1>9, <1>10, <1>11, <1>12
     DEF Next, QueryFails, Stop

\* An unconnected connection object satisfies IInv.
LEMMA InitIInv == Init => IInv
<1> SUFFICES ASSUME Init PROVE IInv
  OBVIOUS
<1>1. ResultInv
  BY FreshResult, FirebirdAssumption DEF Init, ResultInv
<1>2. ConnInv /\ ToldInv /\ WorkInv
  BY DEF Init, ConnInv, ToldInv, WorkInv, Usable, NULL
<1> QED BY <1>1, <1>2 DEF IInv

\* IInv holds after every sequence of calls.
LEMMA SpecIInv == Spec => []IInv
BY InitIInv, NextIInv, PTL DEF Spec

-----------------------------------------------------------------------------
(* Results *)

\* The driver announces one row more than it has fetched, takes it back at the
\* end, and keeps every row inside the array it enlarged.
THEOREM OneRowAheadHolds == Spec => []OneRowAhead
<1>1. ASSUME IInv PROVE OneRowAhead
  BY <1>1 DEF IInv, ResultInv, ResultOk, Results, Ahead, OneRowAhead
<1> QED BY <1>1, SpecIInv, PTL

\* The firebird driver implements DbiRows: rows may be visited again in any
\* order although dbd_goto_row() does nothing.
THEOREM ImplementsRows == Spec => RowsSpec
<1>1. Init => Rows!Init
  BY FreshResult, FirebirdAssumption DEF Init, Rows!Init, Shown
<1>2. IInv /\ [Next]_vars => [Rows!Next]_(Rows!vars)
  BY ResultStep DEF IInv, Rows!Next, Rows!Fresh, Rows!Seek, Rows!vars
<1> QED
  BY <1>1, <1>2, SpecIInv, PTL DEF Spec, RowsSpec, Rows!Spec

\* No call drops a change of the caller: select_db and disconnect commit the
\* transaction that they end, and only the server can refuse that.
THEOREM WorkKeptHolds == Spec => WorkKept
<1> DEFINE Kept == work' + committed' >= work + committed \/ refused' \/ ServerGone
<1>1. IInv /\ [Next]_vars => [Kept]_vars
  <2> SUFFICES ASSUME IInv, [Next]_vars PROVE Kept \/ UNCHANGED vars
    OBVIOUS
  <2>0. work \in Nat /\ committed \in Nat /\ (~up => work = 0) /\ (connection = NULL => work = 0)
    BY DEF IInv, ConnInv, WorkInv
  <2>1. ASSUME NEW d \in Dbs, Connect(d) PROVE Kept
    BY <2>0, <2>1 DEF Connect, _dbd_real_connect
  <2>2. ASSUME NEW d \in Dbs, SelectDb(d) PROVE Kept
    BY <2>0, <2>2 DEF SelectDb, CommitConnected, CommitTransaction, _dbd_real_connect
  <2>3. CASE Disconnect
    BY <2>0, <2>3 DEF Disconnect, CommitConnected, CommitTransaction
  <2>4. CASE PingLost \/ ServerGone
    BY <2>0, <2>4 DEF PingLost, _dbd_real_connect
  <2>5. CASE Change \/ Ddl
    BY <2>0, <2>5 DEF Change, Ddl
  <2>6. CASE UseFreed \/ Generator
    BY <2>0, <2>6 DEF UseFreed, Generator, server
  <2>7. ASSUME NEW n \in 0..MaxRows, Select(n) PROVE Kept
    BY <2>0, <2>7 DEF Select, server
  <2>8. ASSUME NEW k \in 1..(MaxRows + 1), SeekRow(k) PROVE Kept
    BY <2>0, <2>8 DEF SeekRow, server
  <2> HIDE DEF Kept
  <2> QED
    BY <2>1, <2>2, <2>3, <2>4, <2>5, <2>6, <2>7, <2>8 DEF Next, QueryFails, Stop
<1> QED
  BY <1>1, SpecIInv, PTL DEF Spec, WorkKept

\* A step of the connection is a step of DbdSession, or none.
LEMMA SessionSimulation == IInv /\ [Next]_vars => [Contract!Next]_(Contract!vars)
<1> SUFFICES ASSUME ConnInv, ToldInv, [Next]_vars PROVE [Contract!Next]_(Contract!vars)
  BY DEF IInv
<1> USE DEF ConnInv, ToldInv, Active, Usable, Ready, NULL, Attached, server, Contract!vars, Contract!Next,
        Contract!Attach, Contract!Detach, Contract!Run
<1>1. ASSUME NEW d \in Dbs, Connect(d) PROVE [Contract!Next]_(Contract!vars)
  BY <1>1 DEF Connect, _dbd_real_connect
<1>2. ASSUME NEW d \in Dbs, SelectDb(d) PROVE [Contract!Next]_(Contract!vars)
  BY <1>2 DEF SelectDb, _dbd_real_connect
<1>3. CASE Disconnect
  BY <1>3 DEF Disconnect
<1>4. CASE PingLost
  BY <1>4 DEF PingLost, _dbd_real_connect, Contract!Reattach
<1>5. CASE ServerGone
  BY <1>5 DEF ServerGone
<1>6. CASE UseFreed
  BY <1>6 DEF UseFreed
<1>7. CASE Change
  BY <1>7, FirebirdAssumption DEF Change
<1>8. CASE Ddl
  BY <1>8, FirebirdAssumption DEF Ddl
<1>9. CASE Generator
  BY <1>9, FirebirdAssumption DEF Generator
<1>10. ASSUME NEW n \in 0..MaxRows, Select(n) PROVE [Contract!Next]_(Contract!vars)
  BY <1>10, FirebirdAssumption DEF Select
<1>11. ASSUME NEW k \in 1..(MaxRows + 1), SeekRow(k) PROVE [Contract!Next]_(Contract!vars)
  BY <1>11 DEF SeekRow
<1>12. CASE UNCHANGED vars
  BY <1>12 DEF vars
<1> QED
  BY <1>1, <1>2, <1>3, <1>4, <1>5, <1>6, <1>7, <1>8, <1>9, <1>10, <1>11, <1>12
     DEF Next, QueryFails, Stop

\* The firebird driver implements DbdSession, the connection that dbd_ping()
\* makes after a loss included.
THEOREM ImplementsContract == Spec => ContractSpec
<1>1. Init => Contract!Init
  BY DEF Init, Contract!Init, Attached, Usable
<1> QED
  BY <1>1, SpecIInv, SessionSimulation, PTL DEF Spec, ContractSpec, Contract!Spec
=============================================================================
