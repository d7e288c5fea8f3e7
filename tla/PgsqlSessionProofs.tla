------------------------- MODULE PgsqlSessionProofs -------------------------
(***************************************************************************)
(* The pgsql driver's connection keeps its invariants and implements       *)
(* DbdSession, for every set of databases.                                 *)
(***************************************************************************)
EXTENDS PgsqlSession, TLAPS

\* The PGconn in use was made for the database that the caller was told of.
ToldInv == ~closed /\ connection # NULL => pgdb = told /\ pgdb \in Dbs

IInv == TypeOK /\ OnePgconn /\ CurrentDbTrue /\ ToldInv

\* A connection object that has never been connected satisfies IInv.
LEMMA InitIInv == Init => IInv
<1> SUFFICES ASSUME Init PROVE IInv
  OBVIOUS
<1>1. TypeOK
  <2>1. closed \in BOOLEAN
    BY Zenon DEF Init
  <2>4. named \in BOOLEAN
    BY Zenon DEF Init
  <2>2. {NoDb, current_db, pgdb, told, ran} \subseteq Dbs \cup {NoDb}
    BY DEF Init
  <2>3. connection \in Nat /\ next \in Nat \ {0} /\ status \in {"OK", "BAD"} /\ pgconns \subseteq Nat
    BY DEF Init, NULL
  <2> QED BY <2>1, <2>2, <2>3, <2>4 DEF TypeOK
<1>2. OnePgconn
  BY DEF Init, OnePgconn
<1>3. CurrentDbTrue /\ ToldInv
  BY DEF Init, CurrentDbTrue, ToldInv
<1> QED BY <1>1, <1>2, <1>3 DEF IInv

\* Every call, and the loss of the server, preserves IInv.
LEMMA NextIInv == IInv /\ [Next]_vars => IInv'
<1> SUFFICES ASSUME IInv, [Next]_vars PROVE IInv'
  OBVIOUS
<1> USE DEF IInv, TypeOK, OnePgconn, CurrentDbTrue, ToldInv, NULL, libpq
<1>1. ASSUME NEW d \in Dbs \cup {NoDb}, Connect(d) PROVE IInv'
  <2>1. (named' = (d # NoDb) \/ named' = named) /\ closed' = closed
    BY <1>1 DEF Connect, _dbd_real_connect
  <2>2. named' \in BOOLEAN /\ closed' \in BOOLEAN
    BY <2>1, Zenon
  <2>3. next' = next + 1 /\ next' \in Nat \ {0} /\ (connection' = next \/ connection' = NULL)
    BY <1>1 DEF Connect, _dbd_real_connect
  <2>4. Database(d) \in Dbs /\ (d # NoDb => Database(d) = d)
    BY DbAssumption DEF Database
  <2> QED BY <1>1, <2>1, <2>2, <2>3, <2>4 DEF Connect, _dbd_real_connect
<1>2. ASSUME NEW d \in Dbs, SelectDb(d) PROVE IInv'
  <2>1. (named' = (d # NoDb) \/ named' = named) /\ closed' = closed
    BY <1>2 DEF SelectDb, _dbd_real_connect
  <2>2. named' \in BOOLEAN /\ closed' \in BOOLEAN
    BY <2>1, Zenon
  <2>3. next' = next + 1 /\ next' \in Nat \ {0} /\ (connection' = next \/ connection' = NULL)
    BY <1>2 DEF SelectDb, _dbd_real_connect
  <2>4. Database(d) \in Dbs /\ (d # NoDb => Database(d) = d)
    BY DbAssumption DEF Database
  <2> QED BY <1>2, <2>1, <2>2, <2>3, <2>4 DEF SelectDb, _dbd_real_connect
<1>3. CASE Disconnect
  BY <1>3 DEF Disconnect
<1>4. CASE Query
  BY <1>4 DEF Query
<1>5. CASE Ping
  BY <1>5 DEF Ping
<1>6. CASE ServerGone
  BY <1>6 DEF ServerGone
<1>7. CASE UNCHANGED vars
  BY <1>7 DEF vars
<1> QED
  BY <1>1, <1>2, <1>3, <1>4, <1>5, <1>6, <1>7 DEF Next, QueryFails, Closed

\* IInv holds throughout the life of a connection.
LEMMA SpecIInv == Spec => []IInv
BY InitIInv, NextIInv, PTL DEF Spec

\* The connection's fields keep their types.
THEOREM TypeCorrect == Spec => []TypeOK
BY SpecIInv, PTL DEF IInv

\* conn->connection is NULL or the one PGconn that has not been finished, after
\* every sequence of connects, failed reconnects, pings and lost servers.
THEOREM OnePgconnHolds == Spec => []OnePgconn
BY SpecIInv, PTL DEF IInv

\* dbd_get_encoding() asks about the database it is connected to, if that was
\* named.
THEOREM CurrentDbHolds == Spec => []CurrentDbTrue
BY SpecIInv, PTL DEF IInv

\* A step of the driver is a step of DbdSession, or none.
LEMMA StepSimulation == IInv /\ [Next]_vars => [Contract!Next]_(Contract!vars)
<1> SUFFICES ASSUME IInv, [Next]_vars PROVE [Contract!Next]_(Contract!vars)
  OBVIOUS
<1> USE DEF IInv, TypeOK, ToldInv, NULL, libpq, Attached, Contract!vars, Contract!Next,
        Contract!Attach, Contract!Detach, Contract!Run, Contract!Reattach
<1>1. ASSUME NEW d \in Dbs \cup {NoDb}, Connect(d) PROVE [Contract!Next]_(Contract!vars)
  BY <1>1, DbAssumption DEF Connect, _dbd_real_connect, Database
<1>2. ASSUME NEW d \in Dbs, SelectDb(d) PROVE [Contract!Next]_(Contract!vars)
  BY <1>2, DbAssumption DEF SelectDb, _dbd_real_connect, Database
<1>3. CASE Disconnect
  BY <1>3 DEF Disconnect
<1>4. CASE Query
  BY <1>4, DbAssumption DEF Query
<1>5. CASE Ping
  BY <1>5 DEF Ping
<1>6. CASE ServerGone
  BY <1>6 DEF ServerGone
<1>7. CASE UNCHANGED vars
  BY <1>7 DEF vars
<1> QED
  BY <1>1, <1>2, <1>3, <1>4, <1>5, <1>6, <1>7 DEF Next, QueryFails, Closed

\* The pgsql driver implements DbdSession: whatever fails, the caller is
\* attached to the database it was told of or to none.
THEOREM ImplementsContract == Spec => ContractSpec
<1>1. Init => Contract!Init
  BY DEF Init, Contract!Init, Attached, NULL
<1> QED
  BY <1>1, SpecIInv, StepSimulation, PTL DEF Spec, ContractSpec, Contract!Spec
=============================================================================
