------------------------- MODULE IngresSessionProofs -------------------------
(***************************************************************************)
(* The ingres driver owns its sessions and transactions as it should and   *)
(* never undoes work of the caller on its own account, for every number of *)
(* handles and every set of faults.                                        *)
(***************************************************************************)
EXTENDS IngresSession, TLAPS

ConnRecords == [conn : Nat, tran : Nat, auto : BOOLEAN]

\* Transactions whose handles were handed out before handle n.
Records(n) ==
    [id : 1..(n - 1), sess : 1..(n - 1), kind : {"multi", "auto", "refused"}, work : Nat]

\* A transaction handle names one transaction.
Unique(tr) == \A x, y \in tr : x.id = y.id => x = y

\* Handles are numbered in the order they are handed out.
ConnInv ==
    /\ next \in Nat \ {0}
    /\ iconn \in [Conns -> ConnRecords]
    /\ \A c \in Conns : Connected(c) => iconn[c].conn \in 1..(next - 1) /\ iconn[c].tran \in 0..(next - 1)
    /\ sessions \subseteq 1..(next - 1)

TransInv == trans \subseteq Records(next) /\ Unique(trans)

\* The catalog connection's currTran, which is never reset, is of its own
\* session for as long as it is alive.
SysTranInv ==
    Connected(Sys) => \A x \in trans : x.id = iconn[Sys].tran => x.sess = iconn[Sys].conn

\* dbd_list_dbs() finds the catalog connection again.
SysConnInv == Connected(Sys) => sysConn

Consistent == ConnInv /\ TransInv /\ SysTranInv /\ SessionsOwned /\ MainTransaction /\ CatalogsQuiet

IInv == Consistent /\ SysConnInv

\* KeepsWork, of one step.
KeepsWorkStep ==
    \A x \in trans :
       Connected(Main) /\ x.sess = iconn[Main].conn /\ iconn'[Main] = iconn[Main] =>
          \E y \in trans' : y.id = x.id /\ y.work >= x.work

-----------------------------------------------------------------------------
(* The operators that the actions are built from *)

\* Tran(t) is the one transaction with handle t.
LEMMA TranIs ==
    ASSUME NEW t, Live(t), Unique(trans)
    PROVE  Tran(t) \in trans /\ Tran(t).id = t /\ \A x \in trans : x.id = t <=> x = Tran(t)
<1>1. Tran(t) \in trans /\ Tran(t).id = t
  BY DEF Live, Tran
<1> QED BY <1>1 DEF Unique

\* Records of earlier handles are records of later ones.
LEMMA RecordsGrow ==
    ASSUME NEW m \in Nat, NEW n \in Nat, m <= n
    PROVE  Records(m) \subseteq Records(n)
BY DEF Records

\* The connections that are up, one by one.
LEMMA HeldIs ==
    \A s : s \in Held <=> (Connected(Main) /\ s = iconn[Main].conn) \/ (Connected(Sys) /\ s = iconn[Sys].conn)
<1>1. \A s : s \in Held <=> \E c \in {d \in Conns : Connected(d)} : s = iconn[c].conn
  BY Zenon DEF Held
<1>2. \A c : c \in {d \in Conns : Connected(d)} <=> (c = Main \/ c = Sys) /\ Connected(c)
  BY DEF Conns
<1> TAKE s
<1>3. s \in Held <=> \E c \in {Main, Sys} : Connected(c) /\ s = iconn[c].conn
  BY <1>1, <1>2
<1> QED BY <1>3

\* dbd_disconnect() closes what is held.
LEMMA ClosedIs == Closed = Held
BY DEF Closed, Held

\* ingres_connect() for a catalog, which is never in autocommit mode.
LEMMA CatalogConnect ==
    ASSUME NEW o \in ConnectOutcomes(FALSE, sessions, trans, next)
    PROVE  \/ o.conn = NoConn
           \/ /\ o.conn = [conn |-> next, tran |-> NULLTRAN, auto |-> FALSE]
              /\ o.sessions = sessions \cup {next} /\ o.trans = trans /\ o.next = next + 1
<1> DEFINE c == [conn |-> next, tran |-> NULLTRAN, auto |-> FALSE]
<1>1. \/ o = [conn |-> NoConn, sessions |-> sessions, trans |-> trans, next |-> next]
      \/ o = [conn |-> c, sessions |-> sessions \cup {next}, trans |-> trans, next |-> next + 1]
  BY Zenon DEF ConnectOutcomes
<1> HIDE DEF c
<1>2. \/ o.conn = NoConn
      \/ /\ o.conn = c /\ o.sessions = sessions \cup {next} /\ o.trans = trans /\ o.next = next + 1
  BY <1>1
<1> QED BY <1>2 DEF c

\* A statement on session s with currTran t begins a transaction on s, or
\* works in the one it has, and leaves every other transaction alone.
LEMMA QueryStep ==
    ASSUME next \in Nat \ {0}, TransInv, NEW s \in 1..(next - 1), NEW t \in 0..(next - 1),
           \A x \in trans : x.id = t => x.sess = s,
           NEW o \in QueryOutcomes(s, t)
    PROVE  /\ o.next \in {next, next + 1}
           /\ o.trans \subseteq Records(o.next) /\ Unique(o.trans)
           /\ \A y \in o.trans : IF y.id = o.out THEN y.sess = s ELSE y \in trans
           /\ \A x \in trans : \E y \in o.trans : y.id = x.id /\ y.work >= x.work
           /\ \A x \in trans : x.id # o.out => x \in o.trans
           /\ \/ t = NULLTRAN /\ o.out = next /\ o.next = next + 1 /\ \E y \in o.trans : y.id = next
              \/ t # NULLTRAN /\ o.out = t
<1>0. \A x \in trans : x.id \in 1..(next - 1) /\ x.work \in Nat
  BY DEF TransInv, Records
<1>1. CASE t = NULLTRAN
  <2>1. PICK w \in {0, 1} : /\ o.trans = trans \cup {[id |-> next, sess |-> s, kind |-> "multi", work |-> w]}
                            /\ o.next = next + 1 /\ o.out = next
    <3>1. PICK ok \in {TRUE, FALSE} :
            o = [trans |-> trans \cup {[id |-> next, sess |-> s, kind |-> "multi",
                                       work |-> IF ok THEN 1 ELSE 0]},
                 next |-> next + 1, out |-> next, ok |-> ok]
      BY <1>1, Zenon DEF QueryOutcomes
    <3> DEFINE w == IF ok THEN 1 ELSE 0
    <3>2. w \in {0, 1}
      OBVIOUS
    <3>3. o = [trans |-> trans \cup {[id |-> next, sess |-> s, kind |-> "multi", work |-> w]},
               next |-> next + 1, out |-> next, ok |-> ok]
      BY <3>1
    <3> HIDE DEF w
    <3> QED BY <3>2, <3>3
  <2> DEFINE b == [id |-> next, sess |-> s, kind |-> "multi", work |-> w]
  <2>2. b.id = next /\ b.sess = s /\ b \in Records(next + 1)
    BY DEF Records
  <2>3. trans \subseteq Records(next + 1)
    BY RecordsGrow DEF TransInv
  <2> HIDE DEF b
  <2>4. o.trans = trans \cup {b}
    BY <2>1 DEF b
  <2>5. Unique(o.trans)
    BY <1>0, <2>2, <2>4 DEF TransInv, Unique
  <2>6. \A x \in trans : x \in o.trans /\ x.work >= x.work
    BY <1>0, <2>4
  <2> QED BY <1>0, <1>1, <2>1, <2>2, <2>3, <2>4, <2>5, <2>6
<1>2. CASE t # NULLTRAN /\ Live(t)
  <2> DEFINE x0 == Tran(t)
             w0 == [x0 EXCEPT !.work = IF x0.kind = "multi" /\ @ < MaxWork THEN @ + 1 ELSE @]
  <2>1. /\ o.trans = (trans \ {x0}) \cup {w0} \/ o.trans = trans
        /\ o.next = next /\ o.out = t
    <3>1. PICK ok \in {TRUE, FALSE} :
            o = [trans |-> IF ok THEN (trans \ {x0}) \cup {w0} ELSE trans,
                 next |-> next, out |-> t, ok |-> ok]
      BY <1>2, Zenon DEF QueryOutcomes
    <3> DEFINE tr == IF ok THEN (trans \ {x0}) \cup {w0} ELSE trans
    <3>2. o.trans = tr /\ o.next = next /\ o.out = t
      <4> HIDE DEF tr
      <4>1. o = [trans |-> tr, next |-> next, out |-> t, ok |-> ok]
        BY <3>1 DEF tr
      <4> QED BY <4>1
    <3> HIDE DEF x0, w0
    <3> QED BY <3>2
  <2>2. x0 \in trans /\ x0.id = t /\ x0.sess = s /\ \A x \in trans : x.id = t <=> x = x0
    BY <1>2, TranIs DEF TransInv
  <2>3. x0 \in Records(next)
    BY <2>2 DEF TransInv
  <2>4. PICK w \in Nat : w >= x0.work /\ w0 = [x0 EXCEPT !.work = w]
    BY <2>3 DEF Records
  <2> HIDE DEF x0, w0
  <2>5. w0 \in Records(next) /\ w0.id = t /\ w0.sess = s /\ w0.work >= x0.work
    BY <2>2, <2>3, <2>4 DEF Records
  <2>6. CASE o.trans = trans
    BY <1>0, <1>2, <2>1, <2>2, <2>6 DEF TransInv
  <2>7. CASE o.trans = (trans \ {x0}) \cup {w0}
    <3>1. o.trans \subseteq Records(next)
      BY <2>5, <2>7 DEF TransInv
    <3>2. Unique(o.trans)
      BY <2>2, <2>5, <2>7 DEF TransInv, Unique
    <3>3. \A x \in trans : \E y \in o.trans : y.id = x.id /\ y.work >= x.work
      BY <1>0, <2>2, <2>5, <2>7
    <3> QED BY <1>2, <2>1, <2>2, <2>5, <2>7, <3>1, <3>2, <3>3
  <2> QED BY <2>1, <2>6, <2>7
<1>3. CASE t # NULLTRAN /\ ~Live(t)
  <2>1. o.trans = trans /\ o.next = next /\ o.out = t
    BY <1>3 DEF QueryOutcomes
  <2> QED BY <1>0, <1>3, <2>1 DEF TransInv, Live
<1> QED BY <1>1, <1>2, <1>3

\* ingres_rollback() removes the transaction or has it refused, and leaves
\* every other one alone.
LEMMA RollbackStep ==
    ASSUME NEW n \in Nat, NEW tr \in SUBSET Records(n), Unique(tr), NEW t, NEW r \in AfterRollback(tr, t)
    PROVE  /\ r \subseteq Records(n) /\ Unique(r)
           /\ \A y \in r : IF y.id = t THEN y.kind = "refused" /\ \E x \in tr : x.id = t /\ x.sess = y.sess
                           ELSE y \in tr
           /\ \A x \in tr : x.id # t => x \in r
<1>1. CASE \A x \in tr : x.id # t
  <2>1. r = tr
    BY <1>1 DEF AfterRollback
  <2> QED BY <1>1, <2>1
<1>2. CASE r = {x \in tr : x.id # t}
  BY <1>2 DEF Unique
<1>3. CASE r = {IF x.id = t THEN [x EXCEPT !.kind = "refused"] ELSE x : x \in tr}
  <2>1. ASSUME NEW x \in tr
        PROVE  LET y == [x EXCEPT !.kind = "refused"]
               IN  y \in Records(n) /\ y.id = x.id /\ y.sess = x.sess /\ y.kind = "refused"
    BY DEF Records
  <2>2. \A y \in r : \E x \in tr : y = IF x.id = t THEN [x EXCEPT !.kind = "refused"] ELSE x
    BY <1>3
  <2>3. \A x \in tr : (IF x.id = t THEN [x EXCEPT !.kind = "refused"] ELSE x) \in r
    BY <1>3
  <2>4. r \subseteq Records(n)
    BY <2>1, <2>2
  <2>5. ASSUME NEW y \in r
        PROVE  IF y.id = t THEN y.kind = "refused" /\ \E x \in tr : x.id = t /\ x.sess = y.sess
               ELSE y \in tr
    <3>1. PICK x \in tr : y = IF x.id = t THEN [x EXCEPT !.kind = "refused"] ELSE x
      BY <2>2
    <3>2. CASE x.id = t
      <4>1. y.id = x.id /\ y.sess = x.sess /\ y.kind = "refused"
        BY <2>1, <3>1, <3>2
      <4> QED BY <3>2, <4>1
    <3>3. CASE x.id # t
      BY <3>1, <3>3
    <3> QED BY <3>2, <3>3
  <2>6. Unique(r)
    <3> SUFFICES ASSUME NEW y \in r, NEW z \in r, y.id = z.id PROVE y = z
      BY DEF Unique
    <3>1. PICK x \in tr : y = IF x.id = t THEN [x EXCEPT !.kind = "refused"] ELSE x
      BY <2>2
    <3>2. PICK u \in tr : z = IF u.id = t THEN [u EXCEPT !.kind = "refused"] ELSE u
      BY <2>2
    <3>3. y.id = x.id /\ z.id = u.id
      BY <2>1, <3>1, <3>2
    <3>4. x = u
      BY <3>3 DEF Unique
    <3> QED BY <3>1, <3>2, <3>4
  <2> QED BY <2>3, <2>4, <2>5, <2>6
<1> QED BY <1>1, <1>2, <1>3 DEF AfterRollback

-----------------------------------------------------------------------------
(* The invariant *)

\* SessionsOwned, session by session.
Owned ==
    /\ \A s : s \in sessions <=> \/ s \in stray
                                 \/ Connected(Main) /\ s = iconn[Main].conn
                                 \/ Connected(Sys) /\ s = iconn[Sys].conn
    /\ Connected(Main) /\ Connected(Sys) => iconn[Main].conn # iconn[Sys].conn
    /\ Connected(Main) => iconn[Main].conn \notin stray
    /\ Connected(Sys) => iconn[Sys].conn \notin stray
    /\ Connected(Sys) => Connected(Main)

\* Both forms say the same.
LEMMA OwnedIs == SessionsOwned <=> Owned
<1>1. sessions = stray \cup Held <=>
        \A s : s \in sessions <=> \/ s \in stray
                                  \/ Connected(Main) /\ s = iconn[Main].conn
                                  \/ Connected(Sys) /\ s = iconn[Sys].conn
  BY HeldIs
<1>2. Held \cap stray = {} <=> /\ Connected(Main) => iconn[Main].conn \notin stray
                               /\ Connected(Sys) => iconn[Sys].conn \notin stray
  BY HeldIs
<1> QED BY <1>1, <1>2 DEF SessionsOwned, Owned

\* Both forms say the same after a step.
LEMMA OwnedIsNext == SessionsOwned' <=> Owned'
BY OwnedIs, PTL

\* An unconnected connection object is consistent.
LEMMA InitConsistent == Init => Consistent
<1> SUFFICES ASSUME Init PROVE Consistent
  OBVIOUS
<1>1. \A c \in Conns : ~Connected(c)
  BY DEF Init, Connected
<1>2. Main \in Conns /\ Sys \in Conns
  BY DEF Conns
<1>3. iconn \in [Conns -> ConnRecords]
  BY DEF Init, NoConn, ConnRecords, NULLTRAN
<1>4. ConnInv /\ TransInv /\ SysTranInv /\ MainTransaction /\ CatalogsQuiet
  BY <1>1, <1>2, <1>3 DEF Init, ConnInv, TransInv, SysTranInv, MainTransaction, CatalogsQuiet, Unique
<1>5. Owned
  BY <1>1, <1>2 DEF Init, Owned
<1> QED BY <1>4, <1>5, OwnedIs DEF Consistent

\* A connection that ingres_connect() made, on a session newer than any
\* transaction.
LEMMA FreshConnection ==
    ASSUME next \in Nat \ {0}, NEW auto \in BOOLEAN,
           NEW STATE s0, s0 \subseteq 1..(next - 1), stray' = s0,
           NEW STATE t0, t0 \subseteq Records(next), Unique(t0), \A x \in t0 : x.kind = "refused",
           NEW o \in ConnectOutcomes(auto, s0, t0, next),
           iconn' = [c \in Conns |-> IF c = Main THEN o.conn ELSE NoConn],
           sessions' = o.sessions, trans' = o.trans, next' = o.next
    PROVE  Consistent' /\ (iconn'[Main] = NoConn \/ iconn'[Main].conn = next)
<1>0. Main \in Conns /\ Sys \in Conns /\ Main # Sys /\ Conns = {Main, Sys}
  BY SessionAssumption DEF Conns
<1>1. iconn'[Main] = o.conn /\ iconn'[Sys] = NoConn /\ ~Connected(Sys)'
  BY <1>0 DEF Connected
<1>2. \A x \in t0 : x.id \in 1..(next - 1) /\ x.sess \in 1..(next - 1)
  BY DEF Records
<1>3. t0 \subseteq Records(next + 1) /\ t0 \subseteq Records(next + 2)
  BY RecordsGrow
<1>4. CASE o.conn = NoConn /\ o.sessions = s0 /\ o.trans = t0 /\ o.next = next
  <2>1. ~Connected(Main)'
    BY <1>1, <1>4 DEF Connected
  <2>2. ConnInv'
    BY <1>0, <1>1, <1>4, <2>1 DEF ConnInv, ConnRecords, NoConn, NULLTRAN
  <2>3. Owned'
    BY <1>1, <1>4, <2>1 DEF Owned
  <2> QED
    BY <1>1, <1>4, <2>1, <2>2, <2>3, OwnedIsNext
       DEF Consistent, TransInv, SysTranInv, MainTransaction, CatalogsQuiet
<1>5. CASE /\ o.conn = [conn |-> next, tran |-> NULLTRAN, auto |-> auto]
           /\ o.sessions = s0 \cup {next} /\ o.trans = t0 /\ o.next = next + 1
  <2>1. iconn'[Main].conn = next /\ iconn'[Main].tran = NULLTRAN /\ iconn'[Main] \in ConnRecords
    BY <1>1, <1>5 DEF ConnRecords, NULLTRAN
  <2>2. Connected(Main)' /\ next' = next + 1 /\ sessions' = s0 \cup {next} /\ trans' = t0
    BY <1>5, <2>1 DEF Connected, NoConn
  <2>3. ConnInv'
    <3>1. iconn' \in [Conns -> ConnRecords]
      BY <1>0, <1>1, <2>1 DEF ConnRecords, NoConn, NULLTRAN
    <3>2. sessions' \subseteq 1..(next' - 1) /\ next' \in Nat \ {0}
      BY <2>2
    <3>3. \A c \in Conns : Connected(c)' => iconn'[c].conn \in 1..(next' - 1) /\ iconn'[c].tran \in 0..(next' - 1)
      BY <1>0, <1>1, <2>1, <2>2 DEF NULLTRAN
    <3> QED BY <3>1, <3>2, <3>3 DEF ConnInv
  <2>4. Owned'
    BY <1>1, <2>1, <2>2 DEF Owned
  <2>5. TransInv' /\ SysTranInv' /\ CatalogsQuiet'
    BY <1>1, <1>3, <2>2 DEF TransInv, SysTranInv, CatalogsQuiet
  <2>6. MainTransaction'
    BY <1>2, <2>1, <2>2 DEF MainTransaction, SessionTrans, Dead, NULLTRAN
  <2> QED BY <2>1, <2>3, <2>4, <2>5, <2>6, OwnedIsNext DEF Consistent
<1>6. CASE /\ o.conn = [conn |-> next, tran |-> next + 1, auto |-> auto]
           /\ o.sessions = s0 \cup {next}
           /\ o.trans = t0 \cup {[id |-> next + 1, sess |-> next, kind |-> "auto", work |-> 0]}
           /\ o.next = next + 2
  <2>1. iconn'[Main].conn = next /\ iconn'[Main].tran = next + 1 /\ iconn'[Main] \in ConnRecords
    BY <1>1, <1>6 DEF ConnRecords
  <2> DEFINE b == [id |-> next + 1, sess |-> next, kind |-> "auto", work |-> 0]
  <2>2. b.id = next + 1 /\ b.sess = next /\ b \in Records(next + 2)
    BY DEF Records
  <2> HIDE DEF b
  <2>3. Connected(Main)' /\ next' = next + 2 /\ sessions' = s0 \cup {next} /\ trans' = t0 \cup {b}
    BY <1>6, <2>1 DEF Connected, NoConn, b
  <2>4. ConnInv'
    <3>1. iconn' \in [Conns -> ConnRecords]
      BY <1>0, <1>1, <2>1 DEF ConnRecords, NoConn, NULLTRAN
    <3>2. sessions' \subseteq 1..(next' - 1) /\ next' \in Nat \ {0}
      BY <2>3
    <3>3. \A c \in Conns : Connected(c)' => iconn'[c].conn \in 1..(next' - 1) /\ iconn'[c].tran \in 0..(next' - 1)
      BY <1>0, <1>1, <2>1, <2>3
    <3> QED BY <3>1, <3>2, <3>3 DEF ConnInv
  <2>5. Owned'
    BY <1>1, <2>1, <2>3 DEF Owned
  <2>6. TransInv'
    BY <1>2, <1>3, <2>2, <2>3 DEF TransInv, Unique
  <2>7. SysTranInv' /\ CatalogsQuiet'
    BY <1>1, <2>1, <2>2, <2>3 DEF SysTranInv, CatalogsQuiet
  <2>8. MainTransaction'
    <3>1. SessionTrans(iconn[Main].conn)' = {b} /\ {x \in trans' : x.id = next + 1} = {b}
      BY <1>2, <2>1, <2>2, <2>3 DEF SessionTrans
    <3>2. ~Dead(iconn[Main].tran)'
      BY <2>1, <2>2, <2>3 DEF Dead, Live
    <3> QED BY <2>1, <3>1, <3>2 DEF MainTransaction
  <2> QED BY <2>1, <2>4, <2>5, <2>6, <2>7, <2>8, OwnedIsNext DEF Consistent
<1>7. \/ o.conn = NoConn /\ o.sessions = s0 /\ o.trans = t0 /\ o.next = next
      \/ /\ o.conn = [conn |-> next, tran |-> NULLTRAN, auto |-> auto]
         /\ o.sessions = s0 \cup {next} /\ o.trans = t0 /\ o.next = next + 1
      \/ /\ auto = TRUE /\ o.conn = [conn |-> next, tran |-> next + 1, auto |-> auto]
         /\ o.sessions = s0 \cup {next}
         /\ o.trans = t0 \cup {[id |-> next + 1, sess |-> next, kind |-> "auto", work |-> 0]}
         /\ o.next = next + 2
  <2>1. next \in Nat
    OBVIOUS
  <2> QED BY <2>1 DEF ConnectOutcomes
<1> QED BY <1>1, <1>4, <1>5, <1>6, <1>7

\* A step that leaves Main's connection alone and changes only the transaction
\* called out, of a session that is not Main's, which it ends or has refused.
LEMMA CatalogStep ==
    ASSUME Consistent, Connected(Main)' = Connected(Main), iconn'[Main] = iconn[Main],
           NEW out, NEW s, out # NULLTRAN, Connected(Main) => s # iconn[Main].conn,
           \A y \in trans' : IF y.id = out THEN y.kind = "refused" /\ y.sess = s ELSE y \in trans,
           \A x \in trans : IF x.id = out THEN x.sess = s ELSE x \in trans'
    PROVE  MainTransaction' /\ CatalogsQuiet' /\ KeepsWorkStep
<1>1. \A x \in trans : x.work \in Nat
  BY DEF Consistent, TransInv, Records
<1>2. CatalogsQuiet'
  BY DEF Consistent, CatalogsQuiet
<1>3. KeepsWorkStep
  BY <1>1 DEF KeepsWorkStep
<1>4. MainTransaction'
  <2> SUFFICES ASSUME Connected(Main)
               PROVE  /\ {x \in trans' : x.sess = iconn[Main].conn} = {x \in trans' : x.id = iconn[Main].tran}
                      /\ iconn[Main].tran # NULLTRAN => \E x \in trans' : x.id = iconn[Main].tran
    BY DEF MainTransaction, SessionTrans, Dead, Live
  <2>1. \A x \in trans : x.sess = iconn[Main].conn <=> x.id = iconn[Main].tran
    BY DEF Consistent, MainTransaction, SessionTrans
  <2>2. iconn[Main].tran # NULLTRAN => \E x \in trans : x.id = iconn[Main].tran
    BY DEF Consistent, MainTransaction, Dead, Live
  <2>3. iconn[Main].tran # out
    BY <2>1, <2>2
  <2> QED BY <2>1, <2>2, <2>3
<1> QED BY <1>2, <1>3, <1>4

\* The transaction of the first query on a catalog connection just opened.
LEMMA NewCatalog ==
    ASSUME next \in Nat \ {0}, TransInv,
           NEW r \in AfterRollback(trans \cup {[id |-> next + 1, sess |-> next, kind |-> "multi", work |-> 0]},
                                   next + 1)
    PROVE  /\ r \subseteq Records(next + 2) /\ Unique(r)
           /\ \A y \in r : IF y.id = next + 1 THEN y.kind = "refused" /\ y.sess = next ELSE y \in trans
           /\ \A x \in trans : IF x.id = next + 1 THEN x.sess = next ELSE x \in r
<1> DEFINE b == [id |-> next + 1, sess |-> next, kind |-> "multi", work |-> 0]
           tr == trans \cup {b}
<1>1. b.id = next + 1 /\ b.sess = next /\ b \in Records(next + 2)
  BY DEF Records
<1>2. \A x \in trans : x.id \in 1..(next - 1)
  BY DEF TransInv, Records
<1>3. trans \subseteq Records(next + 2)
  BY RecordsGrow DEF TransInv
<1> HIDE DEF b
<1>4. tr \in SUBSET Records(next + 2) /\ Unique(tr)
  BY <1>1, <1>2, <1>3 DEF TransInv, Unique
<1>5. next + 2 \in Nat /\ r \in AfterRollback(tr, next + 1)
  BY DEF b
<1> HIDE DEF tr
<1>6. /\ r \subseteq Records(next + 2) /\ Unique(r)
      /\ \A y \in r : IF y.id = next + 1
                      THEN y.kind = "refused" /\ \E x \in tr : x.id = next + 1 /\ x.sess = y.sess
                      ELSE y \in tr
      /\ \A x \in tr : x.id # next + 1 => x \in r
  BY <1>4, <1>5, RollbackStep
<1>7. \A x \in tr : IF x.id = next + 1 THEN x.sess = next ELSE x \in trans
  BY <1>1, <1>2 DEF tr
<1>8. \A x \in trans : x.id # next + 1 /\ x \in tr
  BY <1>2 DEF tr
<1> QED BY <1>6, <1>7, <1>8

\* dbd_list_tables() opens a session of its own, and leaves it.
LEMMA ListTablesKeeps ==
    ASSUME Consistent, ListTables
    PROVE  Consistent' /\ KeepsWorkStep
<1>0. UNCHANGED iconn /\ next \in Nat \ {0} /\ sessions \subseteq 1..(next - 1) /\ TransInv /\ Main \in Conns
        /\ Sys \in Conns
  BY DEF ListTables, Consistent, ConnInv, Conns
<1>1. PICK o \in ConnectOutcomes(FALSE, sessions, trans, next) :
        IF o.conn = NoConn
        THEN UNCHANGED <<service, stray>>
        ELSE LET began == [id |-> o.next, sess |-> next, kind |-> "multi", work |-> 0]
             IN /\ \E tr \in AfterRollback(o.trans \cup {began}, o.next) : trans' = tr
                /\ sessions' = o.sessions /\ next' = o.next + 1
                /\ stray' = stray \cup {next}
  BY DEF ListTables
<1>2. CASE o.conn = NoConn
  <2>1. UNCHANGED <<iconn, sessions, trans, next, stray>>
    BY <1>0, <1>1, <1>2 DEF service
  <2>2. KeepsWorkStep
    BY <2>1 DEF KeepsWorkStep, Consistent, TransInv, Records
  <2>3. Owned'
    BY <2>1, OwnedIs DEF Consistent, Owned, Connected
  <2>4. ConnInv' /\ TransInv' /\ SysTranInv'
    BY <2>1 DEF Consistent, ConnInv, TransInv, SysTranInv, Connected
  <2>5. MainTransaction' /\ CatalogsQuiet'
    BY <2>1 DEF Consistent, MainTransaction, CatalogsQuiet, Connected, SessionTrans, Dead, Live
  <2> QED BY <2>2, <2>3, <2>4, <2>5, OwnedIsNext DEF Consistent
<1>3. CASE o.conn # NoConn
  <2>1. o.sessions = sessions \cup {next} /\ o.trans = trans /\ o.next = next + 1
    BY <1>3, CatalogConnect
  <2>2. /\ trans' \in AfterRollback(trans \cup {[id |-> next + 1, sess |-> next, kind |-> "multi", work |-> 0]},
                                    next + 1)
        /\ sessions' = sessions \cup {next} /\ next' = next + 2 /\ stray' = stray \cup {next}
    <3>1. /\ trans' \in AfterRollback(o.trans \cup {[id |-> o.next, sess |-> next, kind |-> "multi", work |-> 0]},
                                      o.next)
          /\ sessions' = o.sessions /\ next' = o.next + 1 /\ stray' = stray \cup {next}
      BY <1>1, <1>3, Zenon
    <3>2. next' = next + 2
      BY <1>0, <2>1, <3>1
    <3> QED BY <2>1, <3>1, <3>2, Zenon
  <2>3. /\ trans' \subseteq Records(next + 2) /\ Unique(trans')
        /\ \A y \in trans' : IF y.id = next + 1 THEN y.kind = "refused" /\ y.sess = next ELSE y \in trans
        /\ \A x \in trans : IF x.id = next + 1 THEN x.sess = next ELSE x \in trans'
    BY <1>0, <2>2, NewCatalog
  <2>4. \A c \in Conns : Connected(c) => iconn[c].conn \in 1..(next - 1) /\ iconn[c].tran \in 0..(next - 1)
    BY DEF Consistent, ConnInv
  <2>5. Connected(Main)' = Connected(Main) /\ Connected(Sys)' = Connected(Sys)
    BY <1>0 DEF Connected
  <2>6. next + 1 # NULLTRAN /\ (Connected(Main) => next # iconn[Main].conn)
    BY <1>0, <2>4 DEF NULLTRAN
  <2>7. MainTransaction' /\ CatalogsQuiet' /\ KeepsWorkStep
    BY <1>0, <2>3, <2>5, <2>6, CatalogStep
  <2>8. ConnInv'
    <3>1. next' \in Nat \ {0} /\ sessions' \subseteq 1..(next' - 1)
      BY <1>0, <2>2
    <3>2. \A c \in Conns : Connected(c)' => iconn'[c].conn \in 1..(next' - 1) /\ iconn'[c].tran \in 0..(next' - 1)
      BY <1>0, <2>2, <2>4 DEF Connected
    <3> QED BY <1>0, <3>1, <3>2 DEF Consistent, ConnInv
  <2>9. TransInv'
    BY <2>2, <2>3 DEF TransInv
  <2>10. SysTranInv'
    <3>1. Connected(Sys) => iconn[Sys].tran # next + 1
      BY <1>0, <2>4
    <3> QED BY <1>0, <2>3, <2>5, <3>1 DEF Consistent, SysTranInv
  <2>11. Owned'
    BY <1>0, <2>2, <2>4, <2>5, OwnedIs DEF Consistent, Owned
  <2> QED BY <2>7, <2>8, <2>9, <2>10, <2>11, OwnedIsNext DEF Consistent
<1> QED BY <1>2, <1>3

\* The first dbd_list_dbs() opens the catalog connection.
LEMMA FirstListDbsKeeps ==
    ASSUME Consistent, FirstListDbs, ~Connected(Sys)
    PROVE  Consistent' /\ KeepsWorkStep
<1>0. /\ UNCHANGED stray /\ next \in Nat \ {0} /\ sessions \subseteq 1..(next - 1) /\ TransInv
      /\ Main # Sys /\ Conns = {Main, Sys} /\ iconn \in [Conns -> ConnRecords] /\ Connected(Main)
  BY SessionAssumption DEF FirstListDbs, Consistent, ConnInv, Conns
<1>1. PICK o \in ConnectOutcomes(FALSE, sessions, trans, next) :
        IF o.conn = NoConn
        THEN UNCHANGED <<iconn, service>>
        ELSE LET began == [id |-> o.next, sess |-> next, kind |-> "multi", work |-> 0]
             IN /\ \E tr \in AfterRollback(o.trans \cup {began}, o.next) : trans' = tr
                /\ sessions' = o.sessions /\ next' = o.next + 1
                /\ iconn' = [iconn EXCEPT ![Sys] = [o.conn EXCEPT !.tran = began.id]]
  BY DEF FirstListDbs
<1>2. CASE o.conn = NoConn
  <2>1. UNCHANGED <<iconn, sessions, trans, next, stray>>
    BY <1>0, <1>1, <1>2 DEF service
  <2>2. KeepsWorkStep
    BY <2>1 DEF KeepsWorkStep, Consistent, TransInv, Records
  <2>3. Owned'
    BY <2>1, OwnedIs DEF Consistent, Owned, Connected
  <2>4. ConnInv' /\ TransInv' /\ SysTranInv'
    BY <2>1 DEF Consistent, ConnInv, TransInv, SysTranInv, Connected
  <2>5. MainTransaction' /\ CatalogsQuiet'
    BY <2>1 DEF Consistent, MainTransaction, CatalogsQuiet, Connected, SessionTrans, Dead, Live
  <2> QED BY <2>2, <2>3, <2>4, <2>5, OwnedIsNext DEF Consistent
<1>3. CASE o.conn # NoConn
  <2>1. /\ o.conn = [conn |-> next, tran |-> NULLTRAN, auto |-> FALSE]
        /\ o.sessions = sessions \cup {next} /\ o.trans = trans /\ o.next = next + 1
    BY <1>3, CatalogConnect
  <2> DEFINE c == [o.conn EXCEPT !.tran = next + 1]
  <2>2. /\ trans' \in AfterRollback(trans \cup {[id |-> next + 1, sess |-> next, kind |-> "multi", work |-> 0]},
                                    next + 1)
        /\ sessions' = sessions \cup {next} /\ next' = next + 2
        /\ iconn' = [iconn EXCEPT ![Sys] = c]
    <3> DEFINE b == [id |-> o.next, sess |-> next, kind |-> "multi", work |-> 0]
    <3>1. /\ trans' \in AfterRollback(o.trans \cup {b}, o.next)
          /\ sessions' = o.sessions /\ next' = o.next + 1
          /\ iconn' = [iconn EXCEPT ![Sys] = [o.conn EXCEPT !.tran = b.id]]
      BY <1>1, <1>3, Zenon
    <3>2. next' = next + 2
      BY <1>0, <2>1, <3>1
    <3>3. b = [id |-> next + 1, sess |-> next, kind |-> "multi", work |-> 0] /\ b.id = next + 1
      BY <2>1
    <3> HIDE DEF b
    <3> QED BY <2>1, <3>1, <3>2, <3>3, Zenon
  <2>3. c.conn = next /\ c.tran = next + 1 /\ c \in ConnRecords
    <3>1. o.conn \in ConnRecords /\ o.conn.conn = next
      BY <1>0, <2>1 DEF ConnRecords, NULLTRAN
    <3> QED BY <1>0, <3>1 DEF ConnRecords
  <2> HIDE DEF c
  <2>4. iconn' \in [Conns -> ConnRecords] /\ iconn'[Main] = iconn[Main] /\ iconn'[Sys] = c
    BY <1>0, <2>2, <2>3
  <2>5. Connected(Main)' = Connected(Main) /\ Connected(Sys)' /\ Connected(Main)'
    BY <1>0, <2>3, <2>4 DEF Connected, NoConn
  <2>6. /\ trans' \subseteq Records(next + 2) /\ Unique(trans')
        /\ \A y \in trans' : IF y.id = next + 1 THEN y.kind = "refused" /\ y.sess = next ELSE y \in trans
        /\ \A x \in trans : IF x.id = next + 1 THEN x.sess = next ELSE x \in trans'
    BY <1>0, <2>2, NewCatalog
  <2>7. iconn[Main].conn \in 1..(next - 1) /\ iconn[Main].tran \in 0..(next - 1)
    BY <1>0 DEF Consistent, ConnInv
  <2>8. MainTransaction' /\ CatalogsQuiet' /\ KeepsWorkStep
    <3>1. next + 1 # NULLTRAN /\ (Connected(Main) => next # iconn[Main].conn)
      BY <1>0, <2>7 DEF NULLTRAN
    <3> QED BY <2>4, <2>5, <2>6, <3>1, CatalogStep
  <2>9. ConnInv'
    <3>1. next' \in Nat \ {0} /\ sessions' \subseteq 1..(next' - 1)
      BY <1>0, <2>2
    <3>2. \A d \in Conns : Connected(d)' => iconn'[d].conn \in 1..(next' - 1) /\ iconn'[d].tran \in 0..(next' - 1)
      BY <1>0, <2>2, <2>3, <2>4, <2>7
    <3> QED BY <2>4, <3>1, <3>2 DEF ConnInv
  <2>10. TransInv'
    BY <2>2, <2>6 DEF TransInv
  <2>11. SysTranInv'
    BY <2>3, <2>4, <2>6 DEF SysTranInv
  <2>12. Owned'
    <3>1. next \notin stray /\ next \notin sessions
      BY <1>0, OwnedIs DEF Consistent, Owned
    <3> QED BY <1>0, <2>2, <2>3, <2>4, <2>5, <2>7, <3>1, OwnedIs DEF Consistent, Owned
  <2> QED BY <2>8, <2>9, <2>10, <2>11, <2>12, OwnedIsNext DEF Consistent
<1> QED BY <1>2, <1>3

\* A later dbd_list_dbs() queries the catalog connection and rolls back.
LEMMA ListDbsKeeps ==
    ASSUME Consistent, ListDbs
    PROVE  Consistent' /\ KeepsWorkStep
<1>0. /\ UNCHANGED <<stray, sessions>> /\ next \in Nat \ {0} /\ sessions \subseteq 1..(next - 1) /\ TransInv
      /\ Main # Sys /\ Conns = {Main, Sys} /\ iconn \in [Conns -> ConnRecords]
      /\ Connected(Main) /\ Connected(Sys) /\ iconn[Main].conn # iconn[Sys].conn
  BY SessionAssumption DEF ListDbs, Consistent, ConnInv, Conns, SessionsOwned
<1>1. PICK o \in QueryOutcomes(iconn[Sys].conn, iconn[Sys].tran) :
        /\ trans' \in AfterRollback(o.trans, o.out)
        /\ next' = o.next
        /\ iconn' = [iconn EXCEPT ![Sys].tran = o.out]
  BY DEF ListDbs
<1>2. \A c \in Conns : iconn[c].conn \in 1..(next - 1) /\ iconn[c].tran \in 0..(next - 1)
  BY <1>0 DEF Consistent, ConnInv
<1> DEFINE s == iconn[Sys].conn
           t == iconn[Sys].tran
<1>3. s \in 1..(next - 1) /\ t \in 0..(next - 1) /\ \A x \in trans : x.id = t => x.sess = s
  BY <1>0, <1>2 DEF Consistent, SysTranInv
<1>4. /\ o.next \in {next, next + 1}
      /\ o.trans \subseteq Records(o.next) /\ Unique(o.trans)
      /\ \A y \in o.trans : IF y.id = o.out THEN y.sess = s ELSE y \in trans
      /\ \A x \in trans : x.id # o.out => x \in o.trans
      /\ \/ t = NULLTRAN /\ o.out = next /\ o.next = next + 1
         \/ t # NULLTRAN /\ o.out = t
  BY <1>0, <1>3, QueryStep
<1>5. o.out \in Nat /\ o.out # NULLTRAN /\ o.next \in Nat /\ o.out \in 0..(o.next - 1) /\ next <= o.next
  BY <1>0, <1>3, <1>4 DEF NULLTRAN
<1>6. /\ trans' \subseteq Records(o.next) /\ Unique(trans')
      /\ \A y \in trans' : IF y.id = o.out
                           THEN y.kind = "refused" /\ \E x \in o.trans : x.id = o.out /\ x.sess = y.sess
                           ELSE y \in o.trans
      /\ \A x \in o.trans : x.id # o.out => x \in trans'
  BY <1>1, <1>4, <1>5, RollbackStep
<1>7. \A y \in trans' : IF y.id = o.out THEN y.kind = "refused" /\ y.sess = s ELSE y \in trans
  BY <1>4, <1>6
<1>8. \A x \in trans : IF x.id = o.out THEN x.sess = s ELSE x \in trans'
  <2>1. \A x \in trans : x.id \in 1..(next - 1)
    BY <1>0 DEF TransInv, Records
  <2> QED BY <1>0, <1>3, <1>4, <1>6, <2>1
<1>9. /\ iconn' \in [Conns -> ConnRecords] /\ iconn'[Main] = iconn[Main]
      /\ iconn'[Sys].conn = s /\ iconn'[Sys].tran = o.out
  BY <1>0, <1>1, <1>5 DEF ConnRecords
<1>10. Connected(Main)' = Connected(Main) /\ Connected(Sys)' /\ Connected(Main)'
  BY <1>0, <1>3, <1>9 DEF Connected, NoConn
<1>11. MainTransaction' /\ CatalogsQuiet' /\ KeepsWorkStep
  BY <1>0, <1>5, <1>7, <1>8, <1>9, <1>10, CatalogStep
<1>12. ConnInv'
  <2>1. next' \in Nat \ {0} /\ sessions' \subseteq 1..(next' - 1)
    BY <1>0, <1>1, <1>4
  <2>2. \A d \in Conns : iconn'[d].conn \in 1..(next' - 1) /\ iconn'[d].tran \in 0..(next' - 1)
    BY <1>0, <1>1, <1>2, <1>3, <1>5, <1>9
  <2> QED BY <1>9, <2>1, <2>2 DEF ConnInv
<1>13. TransInv' /\ SysTranInv'
  BY <1>1, <1>6, <1>7, <1>9 DEF TransInv, SysTranInv
<1>14. Owned'
  BY <1>0, <1>9, <1>10, OwnedIs DEF Consistent, Owned
<1> QED BY <1>11, <1>12, <1>13, <1>14, OwnedIsNext DEF Consistent

\* A statement of the caller works in currTran, which it may have begun.
LEMMA StatementKeeps ==
    ASSUME Consistent, Statement
    PROVE  Consistent' /\ KeepsWorkStep
<1>0. /\ UNCHANGED <<stray, sessions>> /\ next \in Nat \ {0} /\ sessions \subseteq 1..(next - 1) /\ TransInv
      /\ Main # Sys /\ Conns = {Main, Sys} /\ iconn \in [Conns -> ConnRecords] /\ Connected(Main)
  BY SessionAssumption DEF Statement, Consistent, ConnInv, Conns
<1>1. PICK o \in QueryOutcomes(iconn[Main].conn, iconn[Main].tran) :
        trans' = o.trans /\ next' = o.next /\ iconn' = [iconn EXCEPT ![Main].tran = o.out]
  BY DEF Statement
<1> DEFINE s == iconn[Main].conn
           t == iconn[Main].tran
<1>2. \A c \in Conns : Connected(c) => iconn[c].conn \in 1..(next - 1) /\ iconn[c].tran \in 0..(next - 1)
  BY DEF Consistent, ConnInv
<1>3. /\ s \in 1..(next - 1) /\ t \in 0..(next - 1)
      /\ \A x \in trans : x.sess = s <=> x.id = t
      /\ t # NULLTRAN => \E x \in trans : x.id = t
  BY <1>0, <1>2 DEF Consistent, MainTransaction, SessionTrans, Dead, Live
<1>4. /\ o.next \in {next, next + 1}
      /\ o.trans \subseteq Records(o.next) /\ Unique(o.trans)
      /\ \A y \in o.trans : IF y.id = o.out THEN y.sess = s ELSE y \in trans
      /\ \A x \in trans : \E y \in o.trans : y.id = x.id /\ y.work >= x.work
      /\ \A x \in trans : x.id # o.out => x \in o.trans
      /\ \/ t = NULLTRAN /\ o.out = next /\ o.next = next + 1 /\ \E y \in o.trans : y.id = next
         \/ t # NULLTRAN /\ o.out = t
  BY <1>0, <1>3, QueryStep
<1>5. /\ o.out \in Nat /\ o.out # NULLTRAN /\ o.next \in Nat /\ o.out \in 0..(o.next - 1) /\ next <= o.next
      /\ \E y \in trans' : y.id = o.out
  BY <1>0, <1>1, <1>3, <1>4 DEF NULLTRAN
<1>6. /\ iconn' \in [Conns -> ConnRecords] /\ iconn'[Sys] = iconn[Sys]
      /\ iconn'[Main].conn = s /\ iconn'[Main].tran = o.out
  BY <1>0, <1>1, <1>5 DEF ConnRecords
<1>7. Connected(Main)' /\ Connected(Sys)' = Connected(Sys)
  BY <1>0, <1>3, <1>6 DEF Connected, NoConn
<1>8. ConnInv'
  <2>1. next' \in Nat \ {0} /\ sessions' \subseteq 1..(next' - 1)
    BY <1>0, <1>1, <1>4
  <2>2. \A d \in Conns : Connected(d)' => iconn'[d].conn \in 1..(next' - 1) /\ iconn'[d].tran \in 0..(next' - 1)
    BY <1>0, <1>1, <1>2, <1>3, <1>5, <1>6, <1>7
  <2> QED BY <1>6, <2>1, <2>2 DEF ConnInv
<1>9. TransInv'
  BY <1>1, <1>4 DEF TransInv
<1>10. \A x \in trans : x.sess = s => x.id # next
  BY <1>0, <1>3
<1>11. MainTransaction'
  <2>1. \A y \in trans' : y.sess = s <=> y.id = o.out
    <3>1. \A y \in trans : y.sess = s => y.id = o.out
      <4>1. CASE t = NULLTRAN
        <5>1. \A y \in trans : y.id # NULLTRAN
          BY <1>0 DEF TransInv, Records, NULLTRAN
        <5> QED BY <1>3, <4>1, <5>1
      <4>2. CASE t # NULLTRAN
        BY <1>3, <1>4, <4>2
      <4> QED BY <4>1, <4>2
    <3> QED BY <1>1, <1>4, <3>1
  <2> QED BY <1>5, <1>6, <2>1 DEF MainTransaction, SessionTrans, Dead, Live
<1>12. CatalogsQuiet'
  BY <1>0, <1>1, <1>4, <1>6, <1>7 DEF Consistent, CatalogsQuiet
<1>13. SysTranInv'
  <2> SUFFICES ASSUME Connected(Sys), NEW y \in trans', y.id = iconn[Sys].tran PROVE y.sess = iconn[Sys].conn
    BY <1>6, <1>7 DEF SysTranInv
  <2>1. iconn[Sys].tran \in 0..(next - 1) /\ iconn[Sys].conn # s
    BY <1>0, <1>2 DEF Consistent, SessionsOwned
  <2>2. \A x \in trans : x.id = iconn[Sys].tran => x.sess = iconn[Sys].conn
    BY DEF Consistent, SysTranInv
  <2>3. y.id # o.out
    BY <1>0, <1>3, <1>4, <2>1, <2>2
  <2> QED BY <1>1, <1>4, <2>2, <2>3
<1>14. Owned'
  BY <1>0, <1>6, <1>7, OwnedIs DEF Consistent, Owned
<1>15. KeepsWorkStep
  BY <1>1, <1>4 DEF KeepsWorkStep
<1> QED BY <1>8, <1>9, <1>11, <1>12, <1>13, <1>14, <1>15, OwnedIsNext DEF Consistent

\* COMMIT and ROLLBACK end currTran and reset it, or leave both.
LEMMA EndTransactionKeeps ==
    ASSUME Consistent, EndTransaction
    PROVE  Consistent' /\ KeepsWorkStep
<1>0. /\ UNCHANGED <<stray, sessions, next>> /\ next \in Nat \ {0} /\ TransInv
      /\ Main # Sys /\ Conns = {Main, Sys} /\ iconn \in [Conns -> ConnRecords] /\ Connected(Main)
  BY SessionAssumption DEF EndTransaction, Consistent, ConnInv, Conns
<1> DEFINE s == iconn[Main].conn
           t == iconn[Main].tran
<1>1. \/ UNCHANGED <<trans, iconn>>
      \/ /\ Live(t) /\ trans' = trans \ {Tran(t)}
         /\ iconn' = [iconn EXCEPT ![Main].tran = NULLTRAN]
  BY DEF EndTransaction, EndOutcomes
<1>2. CASE UNCHANGED <<trans, iconn>>
  <2>1. KeepsWorkStep
    BY <1>2 DEF KeepsWorkStep, Consistent, TransInv, Records
  <2>2. Owned'
    BY <1>0, <1>2, OwnedIs DEF Consistent, Owned, Connected
  <2>3. ConnInv' /\ TransInv' /\ SysTranInv'
    BY <1>0, <1>2 DEF Consistent, ConnInv, TransInv, SysTranInv, Connected
  <2>4. MainTransaction' /\ CatalogsQuiet'
    BY <1>2 DEF Consistent, MainTransaction, CatalogsQuiet, Connected, SessionTrans, Dead, Live
  <2> QED BY <2>1, <2>2, <2>3, <2>4, OwnedIsNext DEF Consistent
<1>3. CASE /\ Live(t) /\ trans' = trans \ {Tran(t)}
           /\ iconn' = [iconn EXCEPT ![Main].tran = NULLTRAN]
  <2>1. \A x \in trans : x.id = t <=> x = Tran(t)
    BY <1>0, <1>3, TranIs DEF TransInv
  <2>2. \A x \in trans : x.sess = s <=> x.id = t
    BY <1>0 DEF Consistent, MainTransaction, SessionTrans
  <2>3. t # NULLTRAN /\ \A x \in trans : x.id # NULLTRAN
    BY <1>0, <1>3 DEF TransInv, Records, Live, NULLTRAN
  <2>4. /\ iconn' \in [Conns -> ConnRecords] /\ iconn'[Sys] = iconn[Sys]
        /\ iconn'[Main].conn = s /\ iconn'[Main].tran = NULLTRAN
    BY <1>0, <1>3 DEF ConnRecords, NULLTRAN
  <2>5. \A c \in Conns : Connected(c) => iconn[c].conn \in 1..(next - 1) /\ iconn[c].tran \in 0..(next - 1)
    BY DEF Consistent, ConnInv
  <2>6. Connected(Main)' /\ Connected(Sys)' = Connected(Sys)
    BY <1>0, <2>4, <2>5 DEF Connected, NoConn
  <2>7. ConnInv'
    <3>1. \A d \in Conns : Connected(d)' => iconn'[d].conn \in 1..(next' - 1) /\ iconn'[d].tran \in 0..(next' - 1)
      BY <1>0, <2>4, <2>5, <2>6 DEF NULLTRAN
    <3> QED BY <1>0, <2>4, <3>1 DEF Consistent, ConnInv
  <2>8. TransInv' /\ SysTranInv' /\ CatalogsQuiet'
    BY <1>0, <1>3, <2>4, <2>6 DEF Consistent, TransInv, Unique, SysTranInv, CatalogsQuiet
  <2>9. MainTransaction'
    <3>1. \A y \in trans' : y.sess # s /\ y.id # NULLTRAN
      BY <1>3, <2>1, <2>2, <2>3
    <3> QED BY <2>4, <3>1 DEF MainTransaction, SessionTrans, Dead
  <2>10. Owned'
    BY <1>0, <2>4, <2>6, OwnedIs DEF Consistent, Owned
  <2>11. KeepsWorkStep
    BY <2>3, <2>4 DEF KeepsWorkStep
  <2> QED BY <2>7, <2>8, <2>9, <2>10, <2>11, OwnedIsNext DEF Consistent
<1> QED BY <1>1, <1>2, <1>3

\* What dbd_disconnect() leaves: the sessions that nobody owns, and
\* transactions that the service refused to end.
LEMMA AfterClose ==
    ASSUME Consistent, NEW kept \in DisconnectsRefused, NEW exited \in BOOLEAN
    PROVE  /\ SessionsAfterClose(kept) = stray \cup kept /\ stray \cup kept \subseteq 1..(next - 1)
           /\ TransAfterClose(kept, exited) \subseteq Records(next)
           /\ Unique(TransAfterClose(kept, exited))
           /\ \A x \in TransAfterClose(kept, exited) : x.kind = "refused"
<1> DEFINE given == {y \in trans : y.sess \in kept /\ ~(y.kind = "auto" /\ exited)}
           old == {x \in trans : x.sess \notin Closed}
           mark(x) == [x EXCEPT !.kind = "refused"]
           after == TransAfterClose(kept, exited)
<1>1. \A s : s \in Closed <=> (Connected(Main) /\ s = iconn[Main].conn) \/ (Connected(Sys) /\ s = iconn[Sys].conn)
  BY HeldIs, ClosedIs
<1>2. kept \subseteq Closed
  BY DEF DisconnectsRefused
<1>3. SessionsAfterClose(kept) = stray \cup kept
  BY <1>1, <1>2, OwnedIs DEF SessionsAfterClose, Consistent, Owned
<1>4. stray \cup kept \subseteq 1..(next - 1)
  BY <1>1, <1>2, OwnedIs DEF Consistent, Owned, ConnInv
<1>5. \A x \in trans : mark(x) \in Records(next) /\ mark(x).kind = "refused" /\ mark(x).id = x.id
  BY DEF Consistent, TransInv, Records
<1>6. \A x \in old : x \in trans /\ x.kind = "refused"
  BY <1>1 DEF Consistent, CatalogsQuiet
<1>7. after = old \cup {mark(x) : x \in given}
  BY Zenon DEF TransAfterClose
<1>8. \A y \in after : \E x \in trans : /\ y = x \/ y = mark(x)
                                        /\ IF x \in old THEN y = x ELSE y = mark(x)
  BY <1>2, <1>7
<1> HIDE DEF mark, after, old, given
<1>9. after \subseteq Records(next) /\ \A y \in after : y.kind = "refused"
  <2> SUFFICES ASSUME NEW y \in after PROVE y \in Records(next) /\ y.kind = "refused"
    OBVIOUS
  <2>1. PICK x \in trans : IF x \in old THEN y = x ELSE y = mark(x)
    BY <1>8
  <2> QED BY <1>5, <1>6, <2>1 DEF Consistent, TransInv
<1>10. Unique(after)
  <2> SUFFICES ASSUME NEW y \in after, NEW z \in after, y.id = z.id PROVE y = z
    BY DEF Unique
  <2>1. PICK x \in trans : /\ y = x \/ y = mark(x)
                           /\ IF x \in old THEN y = x ELSE y = mark(x)
    BY <1>8
  <2>2. PICK u \in trans : /\ z = u \/ z = mark(u)
                           /\ IF u \in old THEN z = u ELSE z = mark(u)
    BY <1>8
  <2>3. x.id = u.id
    BY <1>5, <2>1, <2>2
  <2>4. x = u
    BY <2>3 DEF Consistent, TransInv, Unique
  <2> QED BY <2>1, <2>2, <2>4
<1> QED BY <1>3, <1>4, <1>9, <1>10 DEF after

\* dbd_connect()
LEMMA ConnectKeeps ==
    ASSUME Consistent, Connect
    PROVE  Consistent' /\ KeepsWorkStep
<1>0. /\ next \in Nat \ {0} /\ UNCHANGED stray /\ Main # Sys /\ Conns = {Main, Sys}
      /\ iconn \in [Conns -> ConnRecords] /\ TransInv
  BY SessionAssumption DEF Connect, Consistent, ConnInv, Conns
<1>1. ~Connected(Main) /\ ~Connected(Sys) /\ iconn[Sys] = NoConn
  BY DEF Connect, Consistent, SessionsOwned, Connected
<1>2. sessions = stray /\ stray \subseteq 1..(next - 1)
  BY <1>1, OwnedIs DEF Consistent, Owned, ConnInv
<1>3. \A x \in trans : x.kind = "refused"
  BY <1>1 DEF Consistent, CatalogsQuiet
<1>4. PICK auto \in AutocommitOptions : \E o \in ConnectOutcomes(auto, sessions, trans, next) :
        /\ iconn' = [iconn EXCEPT ![Main] = o.conn]
        /\ sessions' = o.sessions /\ trans' = o.trans /\ next' = o.next
  BY DEF Connect
<1>5. PICK o \in ConnectOutcomes(auto, sessions, trans, next) :
        /\ iconn' = [iconn EXCEPT ![Main] = o.conn]
        /\ sessions' = o.sessions /\ trans' = o.trans /\ next' = o.next
  BY <1>4
<1>6. iconn' = [c \in Conns |-> IF c = Main THEN o.conn ELSE NoConn]
  BY <1>0, <1>1, <1>5
<1>7. auto \in BOOLEAN /\ o \in ConnectOutcomes(auto, stray, trans, next)
  BY <1>2, SessionAssumption
<1>8. Consistent'
  BY <1>0, <1>2, <1>3, <1>5, <1>6, <1>7, FreshConnection DEF TransInv
<1>9. KeepsWorkStep
  BY <1>1 DEF KeepsWorkStep
<1> QED BY <1>8, <1>9

\* dbd_select_db()
LEMMA SelectDbKeeps ==
    ASSUME Consistent, SelectDb
    PROVE  Consistent' /\ KeepsWorkStep
<1>0. /\ next \in Nat \ {0} /\ Main # Sys /\ Conns = {Main, Sys} /\ iconn \in [Conns -> ConnRecords]
  BY SessionAssumption DEF Consistent, ConnInv, Conns
<1>1. PICK kept \in DisconnectsRefused, exited \in BOOLEAN, auto \in AutocommitOptions :
        \E o \in ConnectOutcomes(auto, SessionsAfterClose(kept), TransAfterClose(kept, exited), next) :
          /\ iconn' = [c \in Conns |-> IF c = Main THEN o.conn ELSE NoConn]
          /\ sessions' = o.sessions /\ trans' = o.trans /\ next' = o.next
          /\ stray' = stray \cup kept
  BY DEF SelectDb
<1>2. PICK o \in ConnectOutcomes(auto, SessionsAfterClose(kept), TransAfterClose(kept, exited), next) :
          /\ iconn' = [c \in Conns |-> IF c = Main THEN o.conn ELSE NoConn]
          /\ sessions' = o.sessions /\ trans' = o.trans /\ next' = o.next
          /\ stray' = stray \cup kept
  BY <1>1
<1> DEFINE s0 == stray \cup kept
           t0 == TransAfterClose(kept, exited)
<1>3. auto \in BOOLEAN /\ o \in ConnectOutcomes(auto, s0, t0, next)
  BY AfterClose, SessionAssumption
<1>4. /\ stray' = s0 /\ s0 \subseteq 1..(next - 1)
      /\ t0 \subseteq Records(next) /\ Unique(t0) /\ \A x \in t0 : x.kind = "refused"
  BY <1>2, AfterClose
<1> HIDE DEF s0, t0
<1>5. Consistent' /\ (iconn'[Main] = NoConn \/ iconn'[Main].conn = next)
  BY <1>0, <1>2, <1>3, <1>4, FreshConnection
<1>6. KeepsWorkStep
  <2>1. Connected(Main) => iconn[Main].conn \in 1..(next - 1) /\ iconn[Main] # NoConn
    BY <1>0 DEF Consistent, ConnInv, Connected
  <2>2. Connected(Main) => iconn'[Main] # iconn[Main]
    BY <1>0, <1>5, <2>1
  <2> QED BY <2>2 DEF KeepsWorkStep
<1> QED BY <1>5, <1>6

\* dbd_disconnect()
LEMMA DisconnectKeeps ==
    ASSUME Consistent, Disconnect
    PROVE  Consistent' /\ KeepsWorkStep
<1>0. /\ next \in Nat \ {0} /\ UNCHANGED next /\ Conns = {Main, Sys} /\ Connected(Main)
      /\ sessions' = stray' /\ stray' \subseteq 1..(next - 1)
      /\ trans' \subseteq Records(next) /\ Unique(trans') /\ \A x \in trans' : x.kind = "refused"
  BY AfterClose DEF Disconnect, Consistent, ConnInv, Conns
<1>1. iconn' = [c \in Conns |-> NoConn]
  BY DEF Disconnect
<1>2. iconn' \in [Conns -> ConnRecords] /\ \A c \in Conns : iconn'[c] = NoConn /\ ~Connected(c)'
  BY <1>1 DEF ConnRecords, NoConn, NULLTRAN, Connected
<1>3. ConnInv' /\ SysTranInv' /\ MainTransaction' /\ CatalogsQuiet'
  BY <1>0, <1>2 DEF ConnInv, SysTranInv, MainTransaction, CatalogsQuiet
<1>4. TransInv'
  BY <1>0 DEF TransInv
<1>5. Owned'
  BY <1>0, <1>2 DEF Owned
<1>6. KeepsWorkStep
  BY <1>0, <1>2 DEF KeepsWorkStep, Connected
<1> QED BY <1>3, <1>4, <1>5, <1>6, OwnedIsNext DEF Consistent

\* Every call keeps IInv and the caller's work.
LEMMA StepKeeps == IInv /\ [Next]_vars => IInv' /\ KeepsWorkStep
<1> SUFFICES ASSUME IInv, [Next]_vars PROVE IInv' /\ KeepsWorkStep
  OBVIOUS
<1> USE DEF IInv
<1>0. Main # Sys /\ Main \in Conns /\ Sys \in Conns /\ iconn \in [Conns -> ConnRecords]
  BY SessionAssumption DEF Conns, Consistent, ConnInv
<1>1. CASE Connect
  <2>1. iconn'[Sys] = iconn[Sys] /\ UNCHANGED sysConn
    BY <1>0, <1>1 DEF Connect
  <2>2. SysConnInv'
    BY <2>1 DEF SysConnInv, Connected
  <2> QED BY <1>1, <2>2, ConnectKeeps
<1>2. CASE SelectDb
  <2>1. iconn'[Sys] = NoConn
    BY <1>0, <1>2 DEF SelectDb
  <2>2. SysConnInv'
    BY <2>1 DEF SysConnInv, Connected
  <2> QED BY <1>2, <2>2, SelectDbKeeps
<1>3. CASE Disconnect
  <2>1. iconn'[Sys] = NoConn
    BY <1>0, <1>3 DEF Disconnect
  <2>2. SysConnInv'
    BY <2>1 DEF SysConnInv, Connected
  <2> QED BY <1>3, <2>2, DisconnectKeeps
<1>4. CASE Statement
  <2>1. iconn'[Sys] = iconn[Sys] /\ UNCHANGED sysConn
    BY <1>0, <1>4 DEF Statement
  <2>2. SysConnInv'
    BY <2>1 DEF SysConnInv, Connected
  <2> QED BY <1>4, <2>2, StatementKeeps
<1>5. CASE EndTransaction
  <2>1. iconn'[Sys] = iconn[Sys] /\ UNCHANGED sysConn
    BY <1>0, <1>5 DEF EndTransaction
  <2>2. SysConnInv'
    BY <2>1 DEF SysConnInv, Connected
  <2> QED BY <1>5, <2>2, EndTransactionKeeps
<1>6. CASE ListDbs
  <2>1. SysConnInv'
    BY <1>6 DEF ListDbs, SysConnInv
  <2> QED BY <1>6, <2>1, ListDbsKeeps
<1>7. CASE FirstListDbs
  <2>1. SysConnInv' /\ ~Connected(Sys)
    BY <1>7 DEF FirstListDbs, SysConnInv
  <2> QED BY <1>7, <2>1, FirstListDbsKeeps
<1>8. CASE ListTables
  <2>1. SysConnInv'
    BY <1>8 DEF ListTables, SysConnInv, Connected
  <2> QED BY <1>8, <2>1, ListTablesKeeps
<1>9. CASE UNCHANGED <<iconn, sysConn, service, stray>>
  <2>1. KeepsWorkStep
    BY <1>9 DEF service, KeepsWorkStep, Consistent, TransInv, Records
  <2>2. Owned' /\ SysConnInv'
    BY <1>9, OwnedIs DEF service, Consistent, Owned, Connected, SysConnInv
  <2>3. ConnInv' /\ TransInv' /\ SysTranInv'
    BY <1>9 DEF service, Consistent, ConnInv, TransInv, SysTranInv, Connected
  <2>4. MainTransaction' /\ CatalogsQuiet'
    BY <1>9 DEF service, Consistent, MainTransaction, CatalogsQuiet, Connected, SessionTrans, Dead, Live
  <2> QED BY <2>1, <2>2, <2>3, <2>4, OwnedIsNext DEF Consistent
<1>10. QueryUnconnected \/ SeqLastUnconnected \/ ListDbsNull \/ Crashed \/ Exhausted \/ UNCHANGED vars
         => UNCHANGED <<iconn, sysConn, service, stray>>
  BY DEF QueryUnconnected, SeqLastUnconnected, ListDbsNull, Crashed, Exhausted, vars
<1> QED
  BY <1>1, <1>2, <1>3, <1>4, <1>5, <1>6, <1>7, <1>8, <1>9, <1>10 DEF Next

\* IInv holds after every sequence of calls.
LEMMA SpecIInv == Spec => []IInv
<1>1. Init => IInv
  BY InitConsistent DEF IInv, Init, SysConnInv, Connected, Conns
<1> QED BY <1>1, StepKeeps, PTL DEF Spec

-----------------------------------------------------------------------------
(* Results *)

\* The driver holds one session for each connection it believes to be up, and
\* no other is open but those of dbd_list_tables() and those whose disconnect
\* was refused, however its connects and disconnects fail.
THEOREM SessionsOwnedHolds == Spec => []SessionsOwned
BY SpecIInv, PTL DEF IInv, Consistent

\* currTran is the transaction that is open on the caller's session.
THEOREM MainTransactionHolds == Spec => []MainTransaction
BY SpecIInv, PTL DEF IInv, Consistent

\* The catalog connections hold no transaction between calls, but for one
\* that the service refused to end.
THEOREM CatalogsQuietHolds == Spec => []CatalogsQuiet
BY SpecIInv, PTL DEF IInv, Consistent

\* A call that leaves currTran alone undoes no work of the caller.
THEOREM KeepsWorkHolds == Spec => KeepsWork
<1>1. IInv /\ [Next]_vars => [KeepsWorkStep]_vars
  BY StepKeeps
<1> QED BY <1>1, SpecIInv, PTL DEF Spec, KeepsWork, KeepsWorkStep
=============================================================================
