-------------------------- MODULE MysqlDriverProofs --------------------------
(***************************************************************************)
(* The mysql driver implements DbdSession and DbiRows and frees the        *)
(* results of dbd_get_encoding() as stated, for every set of databases,    *)
(* with and without multiple statements.                                   *)
(***************************************************************************)
EXTENDS MysqlDriver, TLAPS

\* The server session in use has the database that the caller was told of.
ToldInv == Open /\ up => mydb = told /\ mydb \in Dbs

\* What libdbi's cache holds under a row number is that row, whatever the
\* cursor of the MYSQL_RES was in between.
ResultInv ==
    /\ result = [n |-> result.n, pos |-> result.pos, rows |-> result.rows, cur |-> result.cur]
    /\ result.n \in Nat
    /\ \A k \in DOMAIN result.rows : k \in Nat \ {0} /\ result.rows[k] = k

\* mysql_init() never hands out NULL.
NextInv == next \in Nat \ {0}

\* While dbd_get_encoding() runs, none of its results has been freed.
EncInv ==
    /\ asking \in 0..4
    /\ ~Idle => dbires \in [0..2 -> {"NULL", "live"}]
    /\ EncodingResultsFreed

IInv == ToldInv /\ ResultInv /\ NextInv /\ EncInv

\* A stored result has no rows in libdbi's cache yet.
LEMMA StoredFresh ==
    ASSUME NEW n \in Nat
    PROVE  /\ Stored(n) = [n |-> Stored(n).n, pos |-> Stored(n).pos, rows |-> Stored(n).rows,
                           cur |-> Stored(n).cur]
           /\ Stored(n).n = n /\ Stored(n).cur = 0 /\ DOMAIN Stored(n).rows = {}
BY DEF Stored, NoRows

\* What the two ways out do to results that nobody has freed.
LEMMA Freed ==
    ASSUME NEW res \in [0..2 -> {"NULL", "live"}]
    PROVE  /\ \A i \in 0..2 : FreeNamed(res)[i] = IF res[i] = "NULL" THEN "NULL" ELSE "freed"
           /\ FreeUnnamed(res)[0] = IF res[0] = "NULL" THEN "NULL" ELSE "freed"
           /\ FreeUnnamed(res)[1] = IF res[1] = "NULL" THEN "NULL"
                                    ELSE IF res[2] = "NULL" THEN "freed" ELSE "twice"
           /\ FreeUnnamed(res)[2] = res[2]
<1> DEFINE T == {"NULL", "live", "freed", "twice"}
<1>1. \A i \in 0..2 : res[i] = "NULL" \/ res[i] = "live"
  OBVIOUS
<1>2. PICK r1 : r1 = FreeIf(res, 0, 0)
  OBVIOUS
<1>3. /\ r1 \in [0..2 -> T] /\ r1[1] = res[1] /\ r1[2] = res[2]
      /\ res[0] = "NULL" => r1[0] = "NULL"
      /\ res[0] # "NULL" => r1[0] = "freed"
  <2>1. CASE res[0] = "NULL"
    BY <1>2, <2>1 DEF FreeIf
  <2>2. CASE res[0] = "live"
    <3>1. r1 = [res EXCEPT ![0] = "freed"]
      BY <1>2, <2>2 DEF FreeIf
    <3> QED BY <3>1, <2>2
  <2> QED BY <1>1, <2>1, <2>2
<1>4. PICK r2 : r2 = FreeIf(r1, 1, 1)
  OBVIOUS
<1>5. /\ r2 \in [0..2 -> T] /\ r2[0] = r1[0] /\ r2[2] = r1[2]
      /\ res[1] = "NULL" => r2[1] = "NULL"
      /\ res[1] # "NULL" => r2[1] = "freed"
  <2>1. CASE res[1] = "NULL"
    BY <1>3, <1>4, <2>1 DEF FreeIf
  <2>2. CASE res[1] = "live"
    <3>1. r2 = [r1 EXCEPT ![1] = "freed"]
      BY <1>3, <1>4, <2>2 DEF FreeIf
    <3> QED BY <1>3, <3>1, <2>2
  <2> QED BY <1>1, <2>1, <2>2
<1>d. PICK rn : rn = FreeIf(r2, 2, 2)
  OBVIOUS
<1>6. /\ rn[0] = r2[0] /\ rn[1] = r2[1]
      /\ res[2] = "NULL" => rn[2] = "NULL"
      /\ res[2] # "NULL" => rn[2] = "freed"
  <2>1. CASE res[2] = "NULL"
    BY <1>3, <1>5, <1>d, <2>1 DEF FreeIf
  <2>2. CASE res[2] = "live"
    <3>1. rn = [r2 EXCEPT ![2] = "freed"]
      BY <1>3, <1>5, <1>d, <2>2 DEF FreeIf
    <3> QED BY <1>5, <3>1, <2>2
  <2> QED BY <1>1, <2>1, <2>2
<1>f. PICK ru : ru = FreeIf(r2, 2, 1)
  OBVIOUS
<1>7. /\ ru[0] = r2[0] /\ ru[2] = r2[2]
      /\ res[1] = "NULL" => ru[1] = "NULL"
      /\ res[1] # "NULL" /\ res[2] = "NULL" => ru[1] = "freed"
      /\ res[1] # "NULL" /\ res[2] # "NULL" => ru[1] = "twice"
  <2>1. CASE res[2] = "NULL"
    BY <1>3, <1>5, <1>f, <2>1 DEF FreeIf
  <2>2. CASE res[2] = "live" /\ res[1] = "NULL"
    <3>1. ru = [r2 EXCEPT ![1] = "NULL"]
      BY <1>3, <1>5, <1>f, <2>2 DEF FreeIf
    <3> QED BY <1>5, <3>1, <2>2
  <2>3. CASE res[2] = "live" /\ res[1] = "live"
    <3>1. ru = [r2 EXCEPT ![1] = "twice"]
      BY <1>3, <1>5, <1>f, <2>3 DEF FreeIf
    <3> QED BY <1>5, <3>1, <2>3
  <2> QED BY <1>1, <2>1, <2>2, <2>3
<1>8. FreeNamed(res) = rn /\ FreeUnnamed(res) = ru
  BY <1>2, <1>4, <1>d, <1>f DEF FreeNamed, FreeUnnamed
<1>9. \A i \in 0..2 : i = 0 \/ i = 1 \/ i = 2
  OBVIOUS
<1> QED BY <1>3, <1>5, <1>6, <1>7, <1>8, <1>9

\* The call begins without results.
LEMMA BeginKeeps ==
    ASSUME NEW auto \in BOOLEAN, Begin(auto)
    PROVE  EncInv'
<1>1. asking' \in {0, 1} /\ dbires' = [i \in 0..2 |-> "NULL"]
  BY DEF Begin
<1>2. dbires' \in [0..2 -> {"NULL", "live"}] /\ asking' \in 0..4 /\ ~Idle'
  BY <1>1 DEF Idle, Done
<1> QED BY <1>2 DEF EncInv, EncodingResultsFreed

\* A catalog query keeps EncInv.
LEMMA AskKeeps ==
    ASSUME EncInv, Ask
    PROVE  EncInv'
<1>1. dbires \in [0..2 -> {"NULL", "live"}] /\ asking \in 0..2
  BY DEF EncInv, Ask, Idle, Done
<1>2. asking' \in 1..3
  BY <1>1 DEF Ask, Releasing
<1>3. dbires' \in [0..2 -> {"NULL", "live"}]
  BY <1>1 DEF Ask
<1>4. ~Idle' /\ asking' \in 0..4
  BY <1>2 DEF Idle, Done
<1> QED BY <1>3, <1>4 DEF EncInv, EncodingResultsFreed

\* The frees leave what EncodingResultsFreed says.
LEMMA ReleaseKeeps ==
    ASSUME EncInv, Release
    PROVE  EncInv'
<1>1. dbires \in [0..2 -> {"NULL", "live"}] /\ Idle' /\ my_enc' = my_enc
  BY DEF EncInv, Release, Idle, Done, Releasing
<1>2. asking' \in 0..4
  BY DEF Release, Done
<1>3. CASE my_enc = {}
  <2>1. dbires' = FreeUnnamed(dbires)
    BY <1>3 DEF Release
  <2>2. /\ dbires'[0] \in {"NULL", "freed"} /\ dbires'[2] = dbires[2]
        /\ dbires'[1] \in (IF dbires[2] = "NULL" THEN {"NULL", "freed"} ELSE {"NULL", "twice"})
        /\ dbires[2] \in {"NULL", "live"}
    <3>1. /\ dbires'[0] = IF dbires[0] = "NULL" THEN "NULL" ELSE "freed"
          /\ dbires'[1] = IF dbires[1] = "NULL" THEN "NULL"
                          ELSE IF dbires[2] = "NULL" THEN "freed" ELSE "twice"
          /\ dbires'[2] = dbires[2]
      BY <1>1, <2>1, Freed
    <3> QED BY <1>1, <3>1
  <2>3. \A i \in 0..2 : i = 0 \/ i = 1 \/ i = 2
    OBVIOUS
  <2> QED BY <1>1, <1>2, <1>3, <2>2, <2>3 DEF EncInv, EncodingResultsFreed
<1>4. CASE my_enc # {}
  <2>1. dbires' = FreeNamed(dbires)
    BY <1>4 DEF Release
  <2>2. \A i \in 0..2 : dbires'[i] \in {"NULL", "freed"}
    BY <1>1, <2>1, Freed
  <2> QED BY <1>1, <1>2, <1>4, <2>2 DEF EncInv, EncodingResultsFreed
<1> QED BY <1>3, <1>4

\* An unconnected connection object satisfies IInv.
LEMMA InitIInv == Init => IInv
<1> SUFFICES ASSUME Init PROVE IInv
  OBVIOUS
<1>1. ResultInv
  BY StoredFresh DEF Init, ResultInv
<1>2. ToldInv /\ NextInv
  BY DEF Init, ToldInv, Open, NextInv
<1>3. EncInv
  BY DEF Init, Idle, Done, EncInv, EncodingResultsFreed
<1> QED BY <1>1, <1>2, <1>3 DEF IInv

\* After dbi_result_seek_row(k) the current row is k, and its values are
\* those of row k.
LEMMA SeekRowShows ==
    ASSUME ResultInv, NEW k \in 1..MaxRows, SeekRow(k)
    PROVE  ResultInv' /\ result'.cur = k /\ Shown' = k
<1>1. k \in Nat \ {0} /\ k - 1 < result.n /\ CacheIndex(k - 1) = k /\ RowAt(Goto(k - 1)) = k
  BY MysqlAssumption DEF SeekRow, ResultInv, CacheIndex, RowAt, Goto
<1>2. CASE k \in DOMAIN result.rows
  <2>1. result' = [result EXCEPT !.cur = k]
    BY <1>2 DEF SeekRow
  <2>2. /\ result' = [n |-> result'.n, pos |-> result'.pos, rows |-> result'.rows, cur |-> result'.cur]
        /\ result'.n = result.n /\ result'.rows = result.rows /\ result'.cur = k
    BY <2>1 DEF ResultInv
  <2> QED BY <1>2, <2>2 DEF ResultInv, Shown
<1>3. CASE k \notin DOMAIN result.rows
  <2> DEFINE rows == [x \in DOMAIN result.rows \cup {k} |-> IF x = k THEN k ELSE result.rows[x]]
  <2>1. result' = [result EXCEPT !.cur = k, !.pos = Goto(k - 1) + 1, !.rows = rows]
    BY <1>1, <1>3 DEF SeekRow
  <2>2. /\ result' = [n |-> result'.n, pos |-> result'.pos, rows |-> result'.rows, cur |-> result'.cur]
        /\ result'.n = result.n /\ result'.rows = rows /\ result'.cur = k
    BY <2>1 DEF ResultInv
  <2>3. ResultInv'
    BY <1>1, <2>2 DEF ResultInv
  <2>4. Shown' = k
    BY <2>2 DEF Shown
  <2> QED BY <2>2, <2>3, <2>4
<1> QED BY <1>2, <1>3

\* Every call, and the loss of the server, preserves IInv.
LEMMA NextIInv == IInv /\ [Next]_vars => IInv'
<1> SUFFICES ASSUME IInv, [Next]_vars PROVE IInv'
  OBVIOUS
<1> USE DEF IInv
<1>a. ASSUME UNCHANGED result PROVE ResultInv'
  BY <1>a DEF ResultInv
<1>b. ASSUME UNCHANGED encoding PROVE EncInv'
  BY <1>b DEF encoding, EncInv, EncodingResultsFreed, Idle
<1>c. NextInv'
  <2>1. ASSUME NEW d \in Dbs, Connect(d) PROVE next' = next + 1
    BY <2>1 DEF Connect
  <2>2. ASSUME NEW d \in Dbs, SelectDb(d) PROVE next' = next
    BY <2>2 DEF SelectDb
  <2>3. ASSUME NEW n \in 0..MaxRows, Query(n) PROVE next' = next
    BY <2>3 DEF Query
  <2>4. ASSUME NEW k \in 1..MaxRows, SeekRow(k) PROVE next' = next
    BY <2>4 DEF SeekRow, client
  <2>5. Disconnect \/ ServerGone \/ QueryFails \/ GetEncoding \/ Ask \/ Release \/ UNCHANGED vars
            => next' = next
    BY DEF Disconnect, ServerGone, QueryFails, GetEncoding, Ask, Release, vars, client
  <2>6. next' \in {next, next + 1}
    BY <2>1, <2>2, <2>3, <2>4, <2>5 DEF Next, Closed
  <2> QED BY <2>6 DEF NextInv
<1>1. ASSUME NEW d \in Dbs, Connect(d) PROVE IInv'
  <2>1. ToldInv'
    BY <1>1 DEF Connect, ToldInv, Open
  <2>2. EncInv'
    BY <1>1, <1>b, BeginKeeps DEF Connect
  <2> QED BY <1>c, <1>1, <1>a, <2>1, <2>2 DEF Connect
<1>2. ASSUME NEW d \in Dbs, SelectDb(d) PROVE IInv'
  <2>1. ToldInv'
    BY <1>2 DEF SelectDb, ToldInv, Open, InSync
  <2> QED BY <1>c, <1>2, <1>a, <1>b, <2>1 DEF SelectDb
<1>3. ASSUME NEW n \in 0..MaxRows, Query(n) PROVE IInv'
  <2>1. ToldInv'
    BY <1>3 DEF Query, ToldInv, Open, InSync
  <2>2. ResultInv'
    BY <1>3, StoredFresh, MysqlAssumption DEF Query, ResultInv
  <2> QED BY <1>c, <1>3, <1>b, <2>1, <2>2 DEF Query
<1>4. ASSUME NEW k \in 1..MaxRows, SeekRow(k) PROVE IInv'
  <2>1. ToldInv'
    BY <1>4 DEF SeekRow, ToldInv, Open, client
  <2> QED BY <1>c, <1>4, <1>b, <2>1, SeekRowShows DEF SeekRow
<1>5. CASE Disconnect
  BY <1>5, <1>a, <1>b, <1>c DEF Disconnect, ToldInv, Open
<1>6. CASE ServerGone
  BY <1>6, <1>a, <1>b, <1>c DEF ServerGone, ToldInv, Open
<1>7. CASE QueryFails
  BY <1>7, <1>a, <1>b, <1>c DEF QueryFails, ToldInv, Open, client
<1>8. CASE GetEncoding
  <2>1. EncInv'
    BY <1>8, BeginKeeps DEF GetEncoding
  <2>2. ToldInv'
    BY <1>8 DEF GetEncoding, ToldInv, Open, client
  <2> QED BY <1>c, <1>8, <1>a, <2>1, <2>2 DEF GetEncoding
<1>10. CASE Ask
  <2>1. ToldInv'
    BY <1>10 DEF Ask, ToldInv, Open, client
  <2> QED BY <1>c, <1>10, <1>a, <2>1, AskKeeps DEF Ask
<1>11. CASE Release
  <2>1. ToldInv'
    BY <1>11 DEF Release, ToldInv, Open, client
  <2> QED BY <1>c, <1>11, <1>a, <2>1, ReleaseKeeps DEF Release
<1>9. CASE UNCHANGED vars
  BY <1>9, <1>a, <1>b, <1>c DEF vars, ToldInv, Open, client
<1> QED
  BY <1>1, <1>2, <1>3, <1>4, <1>5, <1>6, <1>7, <1>8, <1>9, <1>10, <1>11 DEF Next, Closed

\* IInv holds after every sequence of calls.
LEMMA SpecIInv == Spec => []IInv
BY InitIInv, NextIInv, PTL DEF Spec

\* Each way out of dbd_get_encoding() but one frees each result once, whichever
\* of its queries failed or found nothing, and that one is told exactly.
THEOREM EncodingResultsFreedHolds == Spec => []EncodingResultsFreed
BY SpecIInv, PTL DEF IInv, EncInv

\* A step of the connection is a step of DbdSession, or none.
LEMMA SessionSimulation == IInv /\ [Next]_vars => [Contract!Next]_(Contract!vars)
<1> SUFFICES ASSUME ToldInv, NextInv, [Next]_vars PROVE [Contract!Next]_(Contract!vars)
  BY DEF IInv
<1> USE DEF ToldInv, Open, InSync, client, Attached, Contract!vars, Contract!Next, Contract!Attach,
        Contract!Detach, Contract!Run
<1>1. ASSUME NEW d \in Dbs, Connect(d) PROVE [Contract!Next]_(Contract!vars)
  BY <1>1 DEF Connect, NextInv, NULL
<1>2. ASSUME NEW d \in Dbs, SelectDb(d) PROVE [Contract!Next]_(Contract!vars)
  BY <1>2 DEF SelectDb
<1>3. ASSUME NEW n \in 0..MaxRows, Query(n) PROVE [Contract!Next]_(Contract!vars)
  BY <1>3, MysqlAssumption DEF Query
<1>4. ASSUME NEW k \in 1..MaxRows, SeekRow(k) PROVE [Contract!Next]_(Contract!vars)
  BY <1>4 DEF SeekRow
<1>5. CASE Disconnect
  BY <1>5 DEF Disconnect
<1>6. CASE ServerGone
  BY <1>6 DEF ServerGone
<1>7. CASE QueryFails
  BY <1>7 DEF QueryFails
<1>8. CASE GetEncoding
  BY <1>8 DEF GetEncoding
<1>10. CASE Ask
  BY <1>10, MysqlAssumption DEF Ask
<1>11. CASE Release
  BY <1>11 DEF Release
<1>9. CASE UNCHANGED vars
  BY <1>9 DEF vars
<1> QED
  BY <1>1, <1>2, <1>3, <1>4, <1>5, <1>6, <1>7, <1>8, <1>9, <1>10, <1>11 DEF Next, Closed

\* The mysql driver implements DbdSession: statements reach the database that
\* the last successful connect or select_db reported, or none.
THEOREM ImplementsContract == Spec => ContractSpec
<1>1. Init => Contract!Init
  BY DEF Init, Contract!Init, Attached, Open, NULL
<1> QED
  BY <1>1, SpecIInv, SessionSimulation, PTL DEF Spec, ContractSpec, Contract!Spec

\* A step of the result is a step of DbiRows, or none.
LEMMA RowsSimulation == IInv /\ [Next]_vars => [Rows!Next]_(Rows!vars)
<1> SUFFICES ASSUME ResultInv, [Next]_vars PROVE [Rows!Next]_(Rows!vars)
  BY DEF IInv
<1> USE DEF Rows!vars
<1>1. ASSUME NEW n \in 0..MaxRows, Query(n) PROVE [Rows!Next]_(Rows!vars)
  <2>1. result'.cur = 0 /\ DOMAIN result'.rows = {}
    BY <1>1, StoredFresh, MysqlAssumption DEF Query
  <2> QED BY <2>1 DEF Shown, Rows!Next, Rows!Fresh
<1>2. ASSUME NEW k \in 1..MaxRows, SeekRow(k) PROVE [Rows!Next]_(Rows!vars)
  BY <1>2, SeekRowShows DEF Rows!Next, Rows!Seek
<1>3. ASSUME UNCHANGED result PROVE [Rows!Next]_(Rows!vars)
  BY <1>3 DEF Shown
<1>4. \/ UNCHANGED result
      \/ \E n \in 0..MaxRows : Query(n)
      \/ \E k \in 1..MaxRows : SeekRow(k)
  BY DEF Next, vars, Connect, SelectDb, Disconnect, ServerGone, QueryFails, GetEncoding, Ask, Release,
        Closed
<1> QED BY <1>1, <1>2, <1>3, <1>4

\* The mysql driver implements DbiRows: rows visited in any order are the
\* rows asked for, although dbd_fetch_row() ignores the row number.
THEOREM ImplementsRows == Spec => RowsSpec
<1>1. Init => Rows!Init
  BY StoredFresh DEF Init, Rows!Init, Shown
<1> QED
  BY <1>1, SpecIInv, RowsSimulation, PTL DEF Spec, RowsSpec, Rows!Spec
=============================================================================
