----------------------- MODULE SqliteAndQuotingProofs -----------------------
(***************************************************************************)
(* The connections of the sqlite and the sqlite3 driver list faithfully    *)
(* and implement DbdSession, for every set of databases and tables and     *)
(* whatever fails; the pattern matching of their dbd_list_dbs() is LIKE,    *)
(* for strings of every length; the literals of every driver are read as   *)
(* what was quoted, for texts and bytes of every length; and the fields    *)
(* that the drivers store are read as the column's value.                  *)
(***************************************************************************)
EXTENDS SqliteSession, WildCompare, Quoting, FieldReading, WellFoundedInduction, TLAPS

\* Handles are numbered from 1 in the order they are opened; conn->connection
\* may be one that has been closed.
HandleInv ==
    /\ next \in Nat \ {0}
    /\ connection \in Nat /\ connection < next
    /\ handles \subseteq 1..(next - 1)

\* The handle in use is of the file that the caller was told of.
ToldInv == ~closed /\ Usable => hdb = told /\ hdb \in Dbs

FilesInv == files \in [Dbs -> SUBSET Tables]

IInv == HandleInv /\ ToldInv /\ FilesInv /\ ListingFaithful

-----------------------------------------------------------------------------
(* Listings *)

\* The names in a temporary table that was dropped, created and filled, or
\* could not be: all that were inserted, and no other unless the DROP failed.
LEMMA Refilled ==
    ASSUME NEW tmp, NEW rc \in Recreate(tmp), NEW some, Stocked(rc.tab, some).there
    PROVE  /\ some \subseteq Stocked(rc.tab, some).names
           /\ rc.refused \/ Stocked(rc.tab, some).names = some
<1>1. \/ rc = [tab |-> Empty, refused |-> FALSE]
      \/ rc = [tab |-> tmp, refused |-> TRUE]
      \/ rc = [tab |-> Absent, refused |-> TRUE]
  BY Zenon DEF Recreate
<1>2. rc.refused \/ rc.tab = Empty
  BY <1>1
<1>3. rc.tab.there
  BY DEF Stocked
<1>4. Stocked(rc.tab, some) = [rc.tab EXCEPT !.names = @ \cup some]
  BY <1>3 DEF Stocked
<1>5. CASE rc.tab = Empty
  <2>1. Stocked(rc.tab, some).names = some
    BY <1>4, <1>5 DEF Empty
  <2> QED BY <2>1
<1>6. CASE rc = [tab |-> tmp, refused |-> TRUE]
  <2>1. rc.refused
    BY <1>6
  <2>2. some \subseteq Stocked(rc.tab, some).names
    BY <1>4
  <2> QED BY <2>1, <2>2
<1>7. CASE rc = [tab |-> Absent, refused |-> TRUE]
  BY <1>3, <1>7 DEF Absent
<1> QED BY <1>1, <1>2, <1>5, <1>6, <1>7

\* A failed list call has nothing to be unfaithful about.
LEMMA NoListing == ~NoAnswer.ok
BY DEF NoAnswer

\* dbd_list_tables() of either driver.
LEMMA ListTablesFaithful ==
    ASSUME NEW d \in Dbs, ListTables(d)
    PROVE  ListingFaithful'
<1>1. PICK rc \in Recreate(tablenames), found \in Found(files[d]) : \E some \in Inserted(found) :
         answer' \in Selected(Stocked(rc.tab, some),
                       [kind |-> "tables", names |-> Stocked(rc.tab, some).names, all |-> files[d],
                        unread |-> {}, lost |-> some # files[d], refused |-> rc.refused,
                        error |-> FALSE, ok |-> TRUE])
  BY DEF ListTables
<1>2. PICK some \in Inserted(found) :
         answer' \in Selected(Stocked(rc.tab, some),
                       [kind |-> "tables", names |-> Stocked(rc.tab, some).names, all |-> files[d],
                        unread |-> {}, lost |-> some # files[d], refused |-> rc.refused,
                        error |-> FALSE, ok |-> TRUE])
  BY <1>1
<1> DEFINE tab == Stocked(rc.tab, some)
           listed == [kind |-> "tables", names |-> tab.names, all |-> files[d],
                      unread |-> {}, lost |-> some # files[d], refused |-> rc.refused,
                      error |-> FALSE, ok |-> TRUE]
<1>3. some \subseteq found /\ found \subseteq files[d]
  BY DEF Inserted, Found
<1>4. answer' = NoAnswer \/ (tab.there /\ answer' = listed)
  BY <1>2 DEF Selected
<1>5. CASE answer' = NoAnswer
  BY <1>5, NoListing DEF ListingFaithful
<1>6. CASE tab.there /\ answer' = listed
  <2>1. some \subseteq tab.names /\ (rc.refused \/ tab.names = some)
    BY <1>6, Refilled
  <2> HIDE DEF tab
  <2>2. answer'.names = tab.names /\ answer'.all = files[d] /\ answer'.unread = {} /\ answer'.kind = "tables"
    BY <1>6
  <2>3. (answer'.lost <=> some # files[d]) /\ (answer'.refused <=> rc.refused)
    BY <1>6, Zenon
  <2> HIDE DEF listed
  <2>4. answer'.refused \/ answer'.names \subseteq answer'.all
    BY <1>3, <2>1, <2>2, <2>3
  <2>5. answer'.lost \/ answer'.all \ answer'.unread \subseteq answer'.names
    BY <2>1, <2>2, <2>3
  <2> QED BY <2>2, <2>4, <2>5 DEF ListingFaithful
<1> QED BY <1>4, <1>5, <1>6

\* dbd_list_dbs() of either driver.
LEMMA ListDbsFaithful ==
    ASSUME ListDbs
    PROVE  ListingFaithful'
<1>1. PICK rc \in Recreate(databases), seen \in Readable : \E some \in Inserted(seen) :
         answer' \in Selected(Stocked(rc.tab, some),
                       [kind |-> "databases", names |-> Stocked(rc.tab, some).names,
                        all |-> DatabaseFiles, unread |-> DatabaseFiles \ seen,
                        lost |-> some # seen, refused |-> rc.refused,
                        error |-> some # seen, ok |-> TRUE])
  BY DEF ListDbs
<1>2. PICK some \in Inserted(seen) :
         answer' \in Selected(Stocked(rc.tab, some),
                       [kind |-> "databases", names |-> Stocked(rc.tab, some).names,
                        all |-> DatabaseFiles, unread |-> DatabaseFiles \ seen,
                        lost |-> some # seen, refused |-> rc.refused,
                        error |-> some # seen, ok |-> TRUE])
  BY <1>1
<1> DEFINE tab == Stocked(rc.tab, some)
           listed == [kind |-> "databases", names |-> tab.names, all |-> DatabaseFiles,
                      unread |-> DatabaseFiles \ seen, lost |-> some # seen, refused |-> rc.refused,
                      error |-> some # seen, ok |-> TRUE]
<1>3. some \subseteq seen /\ seen \subseteq DatabaseFiles
  BY DEF Inserted, Readable
<1>4. answer' = NoAnswer \/ (tab.there /\ answer' = listed)
  BY <1>2 DEF Selected
<1>5. CASE answer' = NoAnswer
  BY <1>5, NoListing DEF ListingFaithful
<1>6. CASE tab.there /\ answer' = listed
  <2>1. some \subseteq tab.names /\ (rc.refused \/ tab.names = some)
    BY <1>6, Refilled
  <2> HIDE DEF tab
  <2>2. /\ answer'.names = tab.names /\ answer'.all = DatabaseFiles
        /\ answer'.unread = DatabaseFiles \ seen
    BY <1>6
  <2>3. /\ answer'.lost <=> some # seen
        /\ answer'.error <=> some # seen
        /\ answer'.refused <=> rc.refused
    BY <1>6, Zenon
  <2> HIDE DEF listed
  <2>4. answer'.refused \/ answer'.names \subseteq answer'.all
    BY <1>3, <2>1, <2>2, <2>3
  <2>5. some # seen \/ answer'.all \ answer'.unread \subseteq answer'.names
    BY <1>3, <2>1, <2>2
  <2> QED BY <2>3, <2>4, <2>5 DEF ListingFaithful
<1> QED BY <1>4, <1>5, <1>6

-----------------------------------------------------------------------------
(* The invariant *)

\* What a step that leaves the caller's connection alone has to preserve;
\* handles that nobody can use may be left behind.
LEMMA SameConnection ==
    ASSUME HandleInv, ToldInv, UNCHANGED <<connection, hdb, told, closed>>,
           \/ UNCHANGED <<handles, next>>
           \/ handles' = handles \cup {next} /\ next' = next + 1
    PROVE  HandleInv' /\ ToldInv' /\ Attached' = Attached
<1>1. CASE UNCHANGED <<handles, next>>
  BY <1>1 DEF HandleInv, ToldInv, Usable, Attached
<1>2. CASE handles' = handles \cup {next} /\ next' = next + 1
  <2>1. HandleInv'
    BY <1>2 DEF HandleInv
  <2>2. connection' \in handles' <=> connection \in handles
    BY <1>2 DEF HandleInv
  <2> QED BY <1>2, <2>1, <2>2 DEF ToldInv, Usable, Attached
<1> QED BY <1>1, <1>2

\* Opening a file, after the handle in use was closed if there was one: the
\* caller has a handle of that file and was told so, or has none.
LEMMA RealConnect ==
    ASSUME HandleInv, ToldInv, NEW d \in Dbs, NEW STATE before, NEW mayFail,
           before \subseteq handles, connection \notin before, UNCHANGED closed, ~closed,
           _real_dbd_connect(d, before, mayFail) \/ v2_real_dbd_connect(d, before, mayFail)
    PROVE  /\ HandleInv' /\ ToldInv'
           /\ \/ Attached' = d /\ told' = d
              \/ Attached' = NoDb /\ told' = told
<1>1. next \in Nat \ {0} /\ before \subseteq 1..(next - 1) /\ connection \in Nat /\ connection < next
  BY DEF HandleInv
<1>2. CASE connection' = next /\ hdb' = d /\ told' = d /\ handles' = before \cup {next} /\ next' = next + 1
  <2>1. HandleInv'
    BY <1>1, <1>2 DEF HandleInv
  <2>2. ToldInv' /\ Attached' = d
    BY <1>2 DEF ToldInv, Usable, Attached
  <2> QED BY <1>2, <2>1, <2>2
<1>3. CASE /\ UNCHANGED <<connection, hdb, told>>
           /\ \/ handles' = before \cup {next} /\ next' = next + 1
              \/ handles' = before /\ UNCHANGED next
  <2>1. HandleInv'
    <3>1. CASE handles' = before /\ UNCHANGED next
      BY <1>1, <1>3, <3>1 DEF HandleInv
    <3>2. CASE handles' = before \cup {next} /\ next' = next + 1
      BY <1>1, <1>3, <3>2 DEF HandleInv
    <3> QED BY <1>3, <3>1, <3>2
  <2>2. connection' \notin handles'
    BY <1>1, <1>3
  <2> QED BY <1>3, <2>1, <2>2 DEF ToldInv, Usable, Attached
<1> QED BY <1>2, <1>3 DEF _real_dbd_connect, v2_real_dbd_connect

\* dbd_connect() and dbd_select_db() of either driver.
LEMMA Reconnects ==
    ASSUME IInv, NEW d \in Dbs, Connect(d) \/ SelectDb(d) \/ v2_Connect(d) \/ v2_SelectDb(d)
    PROVE  /\ IInv'
           /\ ran' = ran
           /\ \/ Attached' = d /\ told' = d
              \/ Attached' = NoDb /\ told' = told
<1>1. UNCHANGED <<files, answer, closed, ran>> /\ ~closed
  BY DEF Connect, SelectDb, v2_Connect, v2_SelectDb, Active
<1>2. FilesInv' /\ ListingFaithful'
  BY <1>1 DEF IInv, FilesInv, ListingFaithful
<1>3. NULL \notin handles /\ connection \notin handles \ {connection}
  BY DEF IInv, HandleInv, NULL
<1>4. PICK mayFail : \/ /\ connection = NULL
                        /\ \/ _real_dbd_connect(d, handles, mayFail)
                           \/ v2_real_dbd_connect(d, handles, mayFail)
                     \/ _real_dbd_connect(d, handles \ {connection}, mayFail)
                     \/ v2_real_dbd_connect(d, handles \ {connection}, mayFail)
  BY DEF Connect, SelectDb, v2_Connect, v2_SelectDb
<1>5. /\ HandleInv' /\ ToldInv'
      /\ \/ Attached' = d /\ told' = d
         \/ Attached' = NoDb /\ told' = told
  BY <1>1, <1>3, <1>4, RealConnect DEF IInv
<1> QED BY <1>1, <1>2, <1>5 DEF IInv

\* Every call of either driver preserves IInv and is a step of DbdSession, or
\* none.
LEMMA StepKeeps ==
    ASSUME IInv, Next \/ v2_Next \/ UNCHANGED vars
    PROVE  IInv' /\ [Contract!Next]_(Contract!vars)
<1> USE DEF Contract!vars
<1>1. ASSUME NEW d \in Dbs, Connect(d) \/ SelectDb(d) \/ v2_Connect(d) \/ v2_SelectDb(d)
      PROVE  IInv' /\ [Contract!Next]_(Contract!vars)
  BY <1>1, Reconnects DEF Contract!Next, Contract!Attach, Contract!Detach
<1>2. ASSUME NEW d \in Dbs, ListTables(d) PROVE IInv' /\ [Contract!Next]_(Contract!vars)
  <2>1. UNCHANGED <<connection, hdb, told, closed, handles, next, files, ran>>
    BY <1>2 DEF ListTables
  <2> QED BY <1>2, <2>1, SameConnection, ListTablesFaithful DEF IInv, FilesInv
<1>3. ASSUME NEW t \in Tables, Query(t) PROVE IInv' /\ [Contract!Next]_(Contract!vars)
  <2>1. UNCHANGED <<connection, hdb, told, closed, handles, next, answer>>
    BY <1>3 DEF Query
  <2>2. HandleInv' /\ ToldInv' /\ Attached' = Attached /\ ListingFaithful'
    BY <2>1, SameConnection DEF IInv, ListingFaithful
  <2>3. hdb \in Dbs /\ Attached = hdb /\ ran' = hdb
    BY <1>3 DEF Query, Active, Usable, IInv, ToldInv, Attached
  <2>4. FilesInv'
    BY <1>3, <2>3 DEF Query, IInv, FilesInv
  <2> QED BY <2>1, <2>2, <2>3, <2>4, Sqlite3Assumption DEF IInv, Contract!Next, Contract!Run
<1>4. CASE Disconnect
  <2>1. HandleInv' /\ ToldInv' /\ Attached' = NoDb
    BY <1>4 DEF Disconnect, IInv, HandleInv, ToldInv, Attached
  <2>2. FilesInv' /\ ListingFaithful' /\ UNCHANGED <<told, ran>>
    BY <1>4 DEF Disconnect, IInv, FilesInv, ListingFaithful
  <2> QED BY <2>1, <2>2 DEF IInv, Contract!Next, Contract!Detach
<1>5. CASE UseClosed \/ UNCHANGED vars
  <2>1. UNCHANGED <<connection, hdb, told, closed, handles, next, files, answer, ran>>
    BY <1>5 DEF UseClosed, sqlite3, vars
  <2> QED BY <2>1, SameConnection DEF IInv, FilesInv, ListingFaithful
<1>6. CASE ListTablesFails \/ v2_ListTablesFails
  <2>1. /\ UNCHANGED <<connection, hdb, told, closed, files, ran>>
        /\ answer' = NoAnswer
        /\ \/ UNCHANGED <<handles, next>>
           \/ handles' = handles \cup {next} /\ next' = next + 1
    BY <1>6 DEF ListTablesFails, v2_ListTablesFails, sqlite3
  <2> QED BY <2>1, SameConnection, NoListing DEF IInv, FilesInv, ListingFaithful
<1>7. CASE ListDbs
  <2>1. UNCHANGED <<connection, hdb, told, closed, handles, next, files, ran>>
    BY <1>7 DEF ListDbs
  <2> QED BY <1>7, <2>1, SameConnection, ListDbsFaithful DEF IInv, FilesInv
<1>8. CASE ListDbsFails
  <2>1. UNCHANGED <<connection, hdb, told, closed, handles, next, files, ran>> /\ answer' = NoAnswer
    BY <1>8 DEF ListDbsFails
  <2> QED BY <2>1, SameConnection, NoListing DEF IInv, FilesInv, ListingFaithful
<1> QED
  BY <1>1, <1>2, <1>3, <1>4, <1>5, <1>6, <1>7, <1>8
     DEF Next, v2_Next, v2_ListTables, v2_Query, v2_Disconnect, v2_ListDbs, v2_ListDbsFails, Stop

\* A step of the connection, whichever driver was loaded.
LEMMA EitherStep == IInv /\ [EitherNext]_allvars => IInv' /\ [Contract!Next]_(Contract!vars)
BY StepKeeps DEF EitherNext, allvars

\* IInv holds throughout the life of a connection.
LEMMA SpecIInv == EitherSpec => []IInv
<1>1. v2_Init => IInv
  BY NoListing DEF v2_Init, Init, IInv, HandleInv, ToldInv, Usable, FilesInv, ListingFaithful, NULL
<1> QED BY <1>1, EitherStep, PTL DEF EitherSpec

\* A list call of either driver shows no name that is not there unless the
\* temporary table could not be dropped, and every name there is, unreadable
\* files aside, unless one of its own statements failed.
THEOREM ListingFaithfulHolds == EitherSpec => []ListingFaithful
BY SpecIInv, PTL DEF IInv

\* Both drivers implement DbdSession: after a failed dbd_select_db() the caller
\* is attached to nothing.
THEOREM ImplementsContract == EitherSpec => ContractSpec
<1>1. v2_Init => Contract!Init
  BY DEF v2_Init, Init, Contract!Init, Attached
<1> QED
  BY <1>1, SpecIInv, EitherStep, PTL DEF EitherSpec, ContractSpec, Contract!Spec

-----------------------------------------------------------------------------
(* Pattern matching *)

\* A set of numbers that is not empty has a least one.
LEMMA LeastNumber ==
    ASSUME NEW T, T \subseteq Nat, T # {}
    PROVE  \E n \in T : \A m \in T : n <= m
<1>1. PICK n \in T : \A m \in T : <<m, n>> \notin OpToRel(<, Nat)
  BY NatLessThanWellFounded, WFMin
<1>2. \A m \in T : ~(m < n)
  BY <1>1 DEF OpToRel
<1> QED
  BY <1>2

\* The character that the pattern asks for lies ahead.
LEMMA UnescapeRange ==
    ASSUME NEW w, NEW n \in Nat, n = Len(w), NEW j \in 0..(n - 1)
    PROVE  Unescape(w, j) \in (j + 1)..n
BY DEF Unescape

\* An entry of the table of matches is computed from later ones.
LEMMA MatchedLocal ==
    ASSUME NEW s, NEW w, NEW n \in Nat, n = Len(w), NEW j \in 0..n, NEW g, NEW h,
           \A k \in (j + 1)..n : g[k] = h[k]
    PROVE  MatchedAt(s, w, g, j) = MatchedAt(s, w, h, j)
<1>1. CASE j = n
  BY <1>1 DEF MatchedAt
<1>2. CASE j # n
  <2> DEFINE u == IF w[j + 1] \in {wild_many, wild_one} THEN j + 1 ELSE Unescape(w, j)
  <2>1. u \in (j + 1)..n
    BY <1>2, UnescapeRange
  <2>2. g[u] = h[u]
    BY <2>1
  <2> HIDE DEF u
  <2>3. \A m : MatchedAt(s, w, m, j) =
           IF w[j + 1] = wild_many THEN {i \in 0..Len(s) : \E k \in m[u] : i <= k}
           ELSE {i \in 0..(Len(s) - 1) : (w[j + 1] = wild_one \/ s[i + 1] = w[u]) /\ i + 1 \in m[u]}
    BY <1>2 DEF MatchedAt, u
  <2> QED
    BY <2>2, <2>3
<1> QED
  BY <1>1, <1>2

\* The recursive definition of the matches has a solution, and Matched is one.
LEMMA MatchedDef ==
    ASSUME NEW s, NEW w, NEW n \in Nat, n = Len(w)
    PROVE  Matched(s, w) = [j \in 0..n |-> MatchedAt(s, w, Matched(s, w), j)]
<1> DEFINE Solves(g, d) == g = [j \in (n - d)..n |-> MatchedAt(s, w, g, j)]
           T == {d \in 0..n : ~ \E g : Solves(g, d)}
<1>1. T = {}
  <2> SUFFICES ASSUME T # {} PROVE FALSE
    OBVIOUS
  <2>0. T \subseteq Nat
    OBVIOUS
  <2>1. PICK d \in T : \A m \in T : d <= m
    <3> HIDE DEF T
    <3> QED
      BY <2>0, LeastNumber
  <2>2. d # 0
    <3> DEFINE g == [j \in n..n |-> MatchedAt(s, w, <<>>, j)]
    <3>1. \A j \in n..n : MatchedAt(s, w, g, j) = MatchedAt(s, w, <<>>, j)
      <4> HIDE DEF g
      <4> QED
        BY MatchedLocal
    <3>2. Solves(g, 0)
      BY <3>1
    <3> QED
      BY <2>1, <3>2
  <2>3. PICK g : Solves(g, d - 1)
    <3>0. d \in 0..n
      BY <2>1
    <3>1. d - 1 \in 0..n /\ d - 1 \notin T
      <4> HIDE DEF T
      <4> QED
        BY <3>0, <2>1, <2>2
    <3> HIDE DEF Solves
    <3> QED
      BY <3>1
  <2> DEFINE h == [j \in (n - d)..n |-> IF j = n - d THEN MatchedAt(s, w, g, j) ELSE g[j]]
  <2>4. \A k \in (n - d + 1)..n : h[k] = g[k]
    BY <2>1
  <2>5. \A j \in (n - d)..n : \A k \in (j + 1)..n : h[k] = g[k]
    BY <2>1, <2>4
  <2>6. \A j \in (n - d)..n : MatchedAt(s, w, h, j) = MatchedAt(s, w, g, j)
    <3> HIDE DEF h
    <3> QED
      BY <2>1, <2>5, MatchedLocal
  <2>7. \A j \in (n - d + 1)..n : g[j] = MatchedAt(s, w, g, j)
    <3>1. n - (d - 1) = n - d + 1
      BY <2>1
    <3>2. g = [j \in (n - d + 1)..n |-> MatchedAt(s, w, g, j)]
      BY <2>3, <3>1
    <3> QED
      BY <3>2, Zenon
  <2>8. \A j \in (n - d)..n : h[j] = MatchedAt(s, w, h, j)
    <3> TAKE j \in (n - d)..n
    <3>1. CASE j = n - d
      BY <3>1, <2>6
    <3>2. CASE j # n - d
      BY <3>2, <2>1, <2>4, <2>6, <2>7, SMTT(30)
    <3> QED
      BY <3>1, <3>2
  <2>9. Solves(h, d)
    BY <2>8
  <2> QED
    BY <2>1, <2>9
<1>2. \E g : Solves(g, n)
  BY <1>1
<1>3. \E g : g = [j \in 0..n |-> MatchedAt(s, w, g, j)]
  BY <1>2
<1> QED
  BY <1>3, Zenon DEF Matched

-----------------------------------------------------------------------------
(* wild_case_compare() *)

\* The loop over the occurrences of a character looks only at what the rest
\* of the pattern makes of them.
LEMMA SearchLocal ==
    ASSUME NEW s, NEW w, NEW g, NEW h, NEW j, NEW i, g[Unescape(w, j)] = h[Unescape(w, j)]
    PROVE  Search(s, w, g, j, i) = Search(s, w, h, j, i)
BY DEF Search

\* A result is computed from results for later positions in the pattern.
LEMMA CompareLocal ==
    ASSUME NEW s, NEW w, NEW n \in Nat, n = Len(w), NEW j \in 0..n, NEW g, NEW h,
           \A k \in (j + 1)..n : g[k] = h[k]
    PROVE  CompareAt(s, w, g, j) = CompareAt(s, w, h, j)
<1>1. ASSUME NEW result, NEW i
      PROVE  Turn(s, w, g, j, result, i) = Turn(s, w, h, j, result, i)
  <2>1. CASE j = n
    BY <2>1 DEF Turn
  <2>2. CASE j # n
    <3>1. g[Unescape(w, j)] = h[Unescape(w, j)]
      BY <2>2, UnescapeRange
    <3>2. g[j + 1] = h[j + 1]
      BY <2>2
    <3>3. Search(s, w, g, j, i) = Search(s, w, h, j, i)
      BY <3>1, SearchLocal
    <3> QED
      BY <2>2, <3>1, <3>2, <3>3 DEF Turn
  <2> QED
    BY <2>1, <2>2
<1>2. ASSUME NEW result
      PROVE  [i \in 0..Len(s) |-> Turn(s, w, g, j, result, i)]
             = [i \in 0..Len(s) |-> Turn(s, w, h, j, result, i)]
  BY <1>1
<1> QED
  BY <1>2 DEF CompareAt

\* The recursive definition of the results has a solution, and Compare is one.
LEMMA CompareDef ==
    ASSUME NEW s, NEW w, NEW n \in Nat, n = Len(w)
    PROVE  Compare(s, w) = [j \in 0..n |-> CompareAt(s, w, Compare(s, w), j)]
<1> DEFINE Solves(g, d) == g = [j \in (n - d)..n |-> CompareAt(s, w, g, j)]
           T == {d \in 0..n : ~ \E g : Solves(g, d)}
<1>1. T = {}
  <2> SUFFICES ASSUME T # {} PROVE FALSE
    OBVIOUS
  <2>0. T \subseteq Nat
    OBVIOUS
  <2>1. PICK d \in T : \A m \in T : d <= m
    <3> HIDE DEF T
    <3> QED
      BY <2>0, LeastNumber
  <2>2. d # 0
    <3> DEFINE g == [j \in n..n |-> CompareAt(s, w, <<>>, j)]
    <3>1. \A j \in n..n : CompareAt(s, w, g, j) = CompareAt(s, w, <<>>, j)
      <4> HIDE DEF g
      <4> QED
        BY CompareLocal
    <3>2. Solves(g, 0)
      BY <3>1
    <3> QED
      BY <2>1, <3>2
  <2>3. PICK g : Solves(g, d - 1)
    <3>0. d \in 0..n
      BY <2>1
    <3>1. d - 1 \in 0..n /\ d - 1 \notin T
      <4> HIDE DEF T
      <4> QED
        BY <3>0, <2>1, <2>2
    <3> HIDE DEF Solves
    <3> QED
      BY <3>1
  <2> DEFINE h == [j \in (n - d)..n |-> IF j = n - d THEN CompareAt(s, w, g, j) ELSE g[j]]
  <2>4. \A k \in (n - d + 1)..n : h[k] = g[k]
    BY <2>1
  <2>5. \A j \in (n - d)..n : \A k \in (j + 1)..n : h[k] = g[k]
    BY <2>1, <2>4
  <2>6. \A j \in (n - d)..n : CompareAt(s, w, h, j) = CompareAt(s, w, g, j)
    <3> HIDE DEF h
    <3> QED
      BY <2>1, <2>5, CompareLocal
  <2>7. \A j \in (n - d + 1)..n : g[j] = CompareAt(s, w, g, j)
    <3>1. n - (d - 1) = n - d + 1
      BY <2>1
    <3>2. g = [j \in (n - d + 1)..n |-> CompareAt(s, w, g, j)]
      BY <2>3, <3>1
    <3> QED
      BY <3>2, Zenon
  <2>8. \A j \in (n - d)..n : h[j] = CompareAt(s, w, h, j)
    <3> TAKE j \in (n - d)..n
    <3>1. CASE j = n - d
      BY <3>1, <2>6
    <3>2. CASE j # n - d
      BY <3>2, <2>1, <2>4, <2>6, <2>7, SMTT(30)
    <3> QED
      BY <3>1, <3>2
  <2>9. Solves(h, d)
    BY <2>8
  <2> QED
    BY <2>1, <2>9
<1>2. \E g : Solves(g, n)
  BY <1>1
<1>3. \E g : g = [j \in 0..n |-> CompareAt(s, w, g, j)]
  BY <1>2
<1> QED
  BY <1>3, Zenon DEF Compare

-----------------------------------------------------------------------------
(* Results against matches *)

\* c and mt are tables as Compare and Matched build them.
Filled(s, w, c, mt) ==
    /\ \A j \in 0..Len(w) : mt[j] = MatchedAt(s, w, mt, j)
    /\ \A j \in 0..Len(w), result \in {-1, many, 1}, i \in 0..Len(s) :
         c[j][result][i] = Turn(s, w, c, j, result, i)

Plain(w) == \A k \in 1..Len(w) : w[k] \notin HighChars

\* What a result without a '%' in front of the position says.
Anchored(s, w, c, mt, j) ==
    \A i \in 0..Len(s), result \in {-1, 1} :
        /\ c[j][result][i] \in {-1, 0, 1}
        /\ c[j][result][i] = 0 => i \in mt[j]
        /\ Plain(w) /\ i \in mt[j] => c[j][result][i] = 0
        /\ Plain(w) /\ c[j][result][i] = -1 => \A k \in i..Len(s) : k \notin mt[j]
        /\ j # Len(w) /\ w[j + 1] = wild_many => c[j][result][i] # 1

\* And with one: it is final either way.
Floating(s, w, c, mt, j) ==
    \A i \in 0..Len(s) :
        /\ c[j][many][i] \in {-1, 0}
        /\ c[j][many][i] = 0 => \E k \in i..Len(s) : k \in mt[j]
        /\ Plain(w) /\ (\E k \in i..Len(s) : k \in mt[j]) => c[j][many][i] = 0

Right(s, w, c, mt, j) == Anchored(s, w, c, mt, j) /\ Floating(s, w, c, mt, j)

\* The end of the pattern.
LEMMA RightAtEnd ==
    ASSUME NEW s, NEW w, NEW c, NEW mt, Len(s) \in Nat, Len(w) \in Nat, Filled(s, w, c, mt)
    PROVE  Right(s, w, c, mt, Len(w))
<1>0. mt[Len(w)] = MatchedAt(s, w, mt, Len(w))
  BY DEF Filled
<1>1. mt[Len(w)] = {Len(s)}
  BY <1>0 DEF MatchedAt
<1>2. \A result \in {-1, many, 1}, i \in 0..Len(s) :
        c[Len(w)][result][i] = IF result = many \/ i = Len(s) THEN 0 ELSE 1
  BY DEF Filled, Turn
<1> QED
  BY <1>1, <1>2 DEF Right, Anchored, Floating, many

\* Positions in the name.
LEMMA MatchedRange ==
    ASSUME NEW s, NEW w, NEW mt, NEW j, Len(s) \in Nat
    PROVE  MatchedAt(s, w, mt, j) \subseteq 0..Len(s)
BY DEF MatchedAt

\* A '%'.
LEMMA RightAtMany ==
    ASSUME NEW s, NEW w, NEW c, NEW mt, Len(s) \in Nat, Len(w) \in Nat, Filled(s, w, c, mt),
           NEW j \in 0..(Len(w) - 1), w[j + 1] = wild_many, Right(s, w, c, mt, j + 1)
    PROVE  Right(s, w, c, mt, j)
<1>0. mt[j] = MatchedAt(s, w, mt, j) /\ mt[j + 1] = MatchedAt(s, w, mt, j + 1)
  BY DEF Filled
<1>1. mt[j] = {i \in 0..Len(s) : \E k \in mt[j + 1] : i <= k}
  BY <1>0 DEF MatchedAt
<1>2. \A result \in {-1, many, 1}, i \in 0..Len(s) : c[j][result][i] = c[j + 1][many][i]
  BY DEF Filled, Turn
<1>3. mt[j + 1] \subseteq 0..Len(s)
  BY <1>0, MatchedRange
<1>4. Floating(s, w, c, mt, j + 1)
  BY DEF Right
<1>5. \A i \in 0..Len(s) : i \in mt[j] <=> \E k \in i..Len(s) : k \in mt[j + 1]
  BY <1>1, <1>3
<1>6. \A i \in 0..Len(s), k \in 0..Len(s) : i <= k /\ k \in mt[j] => i \in mt[j]
  BY <1>1, <1>3
<1>7. Anchored(s, w, c, mt, j)
  <2> SUFFICES ASSUME NEW i \in 0..Len(s), NEW result \in {-1, 1}
               PROVE  /\ c[j][result][i] \in {-1, 0}
                      /\ c[j][result][i] = 0 => i \in mt[j]
                      /\ Plain(w) /\ i \in mt[j] => c[j][result][i] = 0
                      /\ Plain(w) /\ c[j][result][i] = -1 => \A k \in i..Len(s) : k \notin mt[j]
    BY DEF Anchored
  <2>1. c[j][result][i] = c[j + 1][many][i]
    BY <1>2
  <2>2. /\ c[j][result][i] \in {-1, 0}
        /\ c[j][result][i] = 0 => i \in mt[j]
        /\ Plain(w) /\ i \in mt[j] => c[j][result][i] = 0
    BY <1>4, <1>5, <2>1 DEF Floating
  <2>3. i \notin mt[j] => \A k \in i..Len(s) : k \notin mt[j]
    BY <1>6
  <2> QED
    BY <2>2, <2>3
<1>8. Floating(s, w, c, mt, j)
  <2> SUFFICES ASSUME NEW i \in 0..Len(s)
               PROVE  /\ c[j][many][i] \in {-1, 0}
                      /\ c[j][many][i] = 0 => \E k \in i..Len(s) : k \in mt[j]
                      /\ Plain(w) /\ (\E k \in i..Len(s) : k \in mt[j]) => c[j][many][i] = 0
    BY DEF Floating
  <2>1. c[j][many][i] = c[j + 1][many][i]
    BY <1>2
  <2>2. (\E k \in i..Len(s) : k \in mt[j]) <=> i \in mt[j]
    BY <1>6
  <2> QED
    BY <1>4, <1>5, <2>1, <2>2 DEF Floating
<1> QED
  BY <1>7, <1>8 DEF Right

\* Positions at and behind i that fit a character and the rest of the pattern
\* are those behind i that fit the rest.
LEMMA StepBack ==
    ASSUME NEW n \in Nat, NEW i \in 0..(n - 1), NEW here, NEW there,
           here \subseteq {k \in 0..(n - 1) : k + 1 \in there},
           \A k \in (i + 1)..n : k \notin there
    PROVE  \A k \in i..n : k \notin here
OBVIOUS

\* A '_'.
LEMMA RightAtOne ==
    ASSUME NEW s, NEW w, NEW c, NEW mt, Len(s) \in Nat, Len(w) \in Nat, Filled(s, w, c, mt),
           NEW j \in 0..(Len(w) - 1), w[j + 1] = wild_one, Right(s, w, c, mt, j + 1)
    PROVE  Right(s, w, c, mt, j)
<1>0. wild_one # wild_many
  BY DEF wild_one, wild_many
<1>1. mt[j] = {i \in 0..(Len(s) - 1) : i + 1 \in mt[j + 1]}
  <2>1. mt[j] = MatchedAt(s, w, mt, j)
    BY DEF Filled
  <2> QED
    BY <1>0, <2>1 DEF MatchedAt
<1>2. \A result \in {-1, many, 1}, i \in 0..Len(s) :
        c[j][result][i] = IF i # Len(s) THEN c[j + 1][result][i + 1]
                          ELSE IF result = many THEN -1 ELSE result
  BY <1>0 DEF Filled, Turn
<1>3. Anchored(s, w, c, mt, j + 1) /\ Floating(s, w, c, mt, j + 1)
  BY DEF Right
<1>4. mt[j] \subseteq {k \in 0..(Len(s) - 1) : k + 1 \in mt[j + 1]}
  BY <1>1
<1>7. Anchored(s, w, c, mt, j)
  <2> SUFFICES ASSUME NEW i \in 0..Len(s), NEW result \in {-1, 1}
               PROVE  /\ c[j][result][i] \in {-1, 0, 1}
                      /\ c[j][result][i] = 0 => i \in mt[j]
                      /\ Plain(w) /\ i \in mt[j] => c[j][result][i] = 0
                      /\ Plain(w) /\ c[j][result][i] = -1 => \A k \in i..Len(s) : k \notin mt[j]
    BY <1>0 DEF Anchored
  <2>1. CASE i = Len(s)
    BY <1>1, <1>2, <2>1 DEF many
  <2>2. CASE i # Len(s)
    <3>1. c[j][result][i] = c[j + 1][result][i + 1] /\ i + 1 \in 0..Len(s)
      BY <1>2, <2>2
    <3>2. i \in mt[j] <=> i + 1 \in mt[j + 1]
      BY <1>1, <2>2
    <3>3. (\A k \in (i + 1)..Len(s) : k \notin mt[j + 1]) => \A k \in i..Len(s) : k \notin mt[j]
      BY <1>4, <2>2, StepBack
    <3> QED
      BY <1>3, <3>1, <3>2, <3>3 DEF Anchored
  <2> QED
    BY <2>1, <2>2
<1>8. Floating(s, w, c, mt, j)
  <2> SUFFICES ASSUME NEW i \in 0..Len(s)
               PROVE  /\ c[j][many][i] \in {-1, 0}
                      /\ c[j][many][i] = 0 => \E k \in i..Len(s) : k \in mt[j]
                      /\ Plain(w) /\ (\E k \in i..Len(s) : k \in mt[j]) => c[j][many][i] = 0
    BY DEF Floating
  <2>1. CASE i = Len(s)
    BY <1>1, <1>2, <2>1 DEF many
  <2>2. CASE i # Len(s)
    <3>1. c[j][many][i] = c[j + 1][many][i + 1] /\ i + 1 \in 0..Len(s)
      BY <1>2, <2>2
    <3>2. (\E k \in i..Len(s) : k \in mt[j]) => \E k \in (i + 1)..Len(s) : k \in mt[j + 1]
      BY <1>4, <2>2, StepBack
    <3>3. ASSUME NEW k \in (i + 1)..Len(s), k \in mt[j + 1]
          PROVE  \E l \in i..Len(s) : l \in mt[j]
      <4>1. k - 1 \in i..Len(s) /\ k - 1 \in 0..(Len(s) - 1) /\ (k - 1) + 1 = k
        OBVIOUS
      <4>2. k - 1 \in mt[j]
        BY <1>1, <3>3, <4>1
      <4> QED
        BY <4>1, <4>2
    <3> QED
      BY <1>3, <3>1, <3>2, <3>3 DEF Floating
  <2> QED
    BY <2>1, <2>2
<1> QED
  BY <1>7, <1>8 DEF Right

\* The loop behind a '%': a -1 or a 0 of the first occurrence that has one
\* settles it, and so does a rest of the pattern that begins with a '%'.
LEMMA SearchRight ==
    ASSUME NEW s, NEW w, NEW c, NEW mt, Len(s) \in Nat, Len(w) \in Nat,
           NEW j \in 0..(Len(w) - 1), NEW u \in 1..Len(w), u = Unescape(w, j),
           Anchored(s, w, c, mt, u), NEW i \in 0..(Len(s) - 1),
           \A k \in 0..Len(s) : k \in mt[j] <=> k # Len(s) /\ s[k + 1] = w[u] /\ k + 1 \in mt[u]
    PROVE  /\ Search(s, w, c, j, i) \in {-1, 0}
           /\ Search(s, w, c, j, i) = 0 => \E k \in i..Len(s) : k \in mt[j]
           /\ Plain(w) /\ (\E k \in i..Len(s) : k \in mt[j]) => Search(s, w, c, j, i) = 0
<1> DEFINE tmp(k) == c[u][-1][k]
           settled == {k \in (i + 1)..Len(s) : /\ EqualsCmp(s[k], w[u])
                                               /\ tmp(k) <= 0 \/ ~SearchAgain(s, w, k, u)}
           first == CHOOSE k \in settled : \A l \in settled : k <= l
<1>1. Search(s, w, c, j, i) = IF settled = {} THEN -1
                              ELSE IF tmp(first) <= 0 THEN tmp(first) ELSE -1
  BY DEF Search
<1>2. \A k \in 0..Len(s) : /\ tmp(k) \in {-1, 0, 1}
                           /\ tmp(k) = 0 => k \in mt[u]
                           /\ Plain(w) /\ k \in mt[u] => tmp(k) = 0
                           /\ Plain(w) /\ tmp(k) = -1 => \A l \in k..Len(s) : l \notin mt[u]
                           /\ u # Len(w) /\ w[u + 1] = wild_many => tmp(k) # 1
  BY DEF Anchored
<1>3. settled # {} => first \in settled /\ \A l \in settled : first <= l
  <2>1. settled \subseteq Nat
    OBVIOUS
  <2> HIDE DEF settled
  <2>2. settled # {} => \E k \in settled : \A l \in settled : k <= l
    BY <2>1, LeastNumber
  <2> QED
    BY <2>2, Zenon
<1>4. settled # {} => /\ first \in (i + 1)..Len(s) /\ EqualsCmp(s[first], w[u])
                      /\ tmp(first) <= 0 \/ ~SearchAgain(s, w, first, u)
                      /\ tmp(first) \in {-1, 0, 1}
  <2> HIDE DEF first, tmp
  <2>1. settled # {} => /\ first \in (i + 1)..Len(s) /\ EqualsCmp(s[first], w[u])
                        /\ tmp(first) <= 0 \/ ~SearchAgain(s, w, first, u)
    BY <1>3
  <2> QED
    BY <2>1, <1>2
<1> HIDE DEF first, tmp
<1>5. Search(s, w, c, j, i) \in {-1, 0}
  BY <1>1, <1>4
<1>6. ASSUME Search(s, w, c, j, i) = 0
      PROVE  \E k \in i..Len(s) : k \in mt[j]
  <2>1. settled # {} /\ tmp(first) = 0
    BY <1>1, <1>6
  <2>2. first \in (i + 1)..Len(s) /\ s[first] = w[u] /\ first \in mt[u]
    BY <1>2, <1>4, <2>1 DEF EqualsCmp
  <2>3. first - 1 \in i..Len(s) /\ first - 1 \in 0..(Len(s) - 1) /\ (first - 1) + 1 = first
    BY <2>2
  <2>4. first - 1 \in mt[j]
    BY <2>2, <2>3
  <2> QED
    BY <2>3, <2>4
<1>7. ASSUME Plain(w), NEW k \in i..Len(s), k \in mt[j]
      PROVE  Search(s, w, c, j, i) = 0
  <2>1. k + 1 \in (i + 1)..Len(s) /\ s[k + 1] = w[u] /\ k + 1 \in mt[u]
    BY <1>7
  <2>2. tmp(k + 1) = 0
    BY <1>2, <1>7, <2>1
  <2>3. EqualsCmp(s[k + 1], w[u])
    BY <1>7, <2>1 DEF EqualsCmp, Plain
  <2>4. k + 1 \in settled
    BY <2>1, <2>2, <2>3
  <2> HIDE DEF settled
  <2>5. first <= k + 1 /\ first \in (i + 1)..Len(s)
    BY <1>3, <1>4, <2>4
  <2>6. tmp(first) # -1
    BY <1>2, <1>7, <2>1, <2>5
  <2>7. tmp(first) # 1
    <3> SUFFICES ASSUME tmp(first) = 1 PROVE FALSE
      OBVIOUS
    <3>1. ~SearchAgain(s, w, first, u)
      BY <1>4, <2>4
    <3>2. first = Len(s) \/ (u # Len(w) /\ w[u + 1] = wild_many)
      BY <3>1 DEF SearchAgain
    <3>3. CASE first = Len(s)
      <4>1. first = k + 1
        BY <2>1, <2>5, <3>3
      <4> QED
        BY <2>2, <4>1
    <3>4. CASE u # Len(w) /\ w[u + 1] = wild_many
      BY <1>2, <2>5, <3>4
    <3> QED
      BY <3>2, <3>3, <3>4
  <2> QED
    BY <1>1, <1>4, <2>4, <2>6, <2>7
<1> QED
  BY <1>5, <1>6, <1>7

\* Any other character, escaped or not.
LEMMA RightAtChar ==
    ASSUME NEW s, NEW w, NEW c, NEW mt, Len(s) \in Nat, Len(w) \in Nat, Filled(s, w, c, mt),
           NEW j \in 0..(Len(w) - 1), w[j + 1] \notin {wild_many, wild_one},
           Right(s, w, c, mt, Unescape(w, j))
    PROVE  Right(s, w, c, mt, j)
<1> DEFINE u == Unescape(w, j)
<1>0. u \in (j + 1)..Len(w) /\ u \in 1..Len(w)
  BY UnescapeRange
<1>1. mt[j] = {i \in 0..(Len(s) - 1) : s[i + 1] = w[u] /\ i + 1 \in mt[u]}
  <2>1. mt[j] = MatchedAt(s, w, mt, j)
    BY DEF Filled
  <2> QED
    BY <2>1 DEF MatchedAt
<1>2. \A result \in {-1, 1}, i \in 0..Len(s) :
        c[j][result][i] = IF i = Len(s) \/ w[u] # s[i + 1] THEN 1 ELSE c[u][1][i + 1]
  BY DEF Filled, Turn, NoMatch, many
<1>3. \A i \in 0..Len(s) : c[j][many][i] = IF i # Len(s) THEN Search(s, w, c, j, i) ELSE -1
  BY DEF Filled, Turn
<1> HIDE DEF u
<1>4. Anchored(s, w, c, mt, u)
  BY DEF Right, u
<1>5. mt[j] \subseteq {k \in 0..(Len(s) - 1) : k + 1 \in mt[u]}
  BY <1>1
<1>7. Anchored(s, w, c, mt, j)
  <2> SUFFICES ASSUME NEW i \in 0..Len(s), NEW result \in {-1, 1}
               PROVE  /\ c[j][result][i] \in {-1, 0, 1}
                      /\ c[j][result][i] = 0 => i \in mt[j]
                      /\ Plain(w) /\ i \in mt[j] => c[j][result][i] = 0
                      /\ Plain(w) /\ c[j][result][i] = -1 => \A k \in i..Len(s) : k \notin mt[j]
    BY DEF Anchored
  <2>1. CASE i = Len(s) \/ w[u] # s[i + 1]
    BY <1>1, <1>2, <2>1
  <2>2. CASE ~(i = Len(s) \/ w[u] # s[i + 1])
    <3>1. c[j][result][i] = c[u][1][i + 1] /\ i + 1 \in 0..Len(s)
      BY <1>2, <2>2, SMTT(30)
    <3>2. i \in mt[j] <=> i + 1 \in mt[u]
      BY <1>1, <2>2
    <3>3. (\A k \in (i + 1)..Len(s) : k \notin mt[u]) => \A k \in i..Len(s) : k \notin mt[j]
      BY <1>5, <2>2, StepBack
    <3> QED
      BY <1>4, <3>1, <3>2, <3>3 DEF Anchored
  <2> QED
    BY <2>1, <2>2
<1>8. Floating(s, w, c, mt, j)
  <2> SUFFICES ASSUME NEW i \in 0..Len(s)
               PROVE  /\ c[j][many][i] \in {-1, 0}
                      /\ c[j][many][i] = 0 => \E k \in i..Len(s) : k \in mt[j]
                      /\ Plain(w) /\ (\E k \in i..Len(s) : k \in mt[j]) => c[j][many][i] = 0
    BY DEF Floating
  <2>1. CASE i = Len(s)
    BY <1>1, <1>3, <2>1
  <2>2. CASE i # Len(s)
    <3>1. c[j][many][i] = Search(s, w, c, j, i) /\ i \in 0..(Len(s) - 1)
      BY <1>3, <2>2
    <3>2. u = Unescape(w, j)
      BY DEF u
    <3>3. /\ Search(s, w, c, j, i) \in {-1, 0}
          /\ Search(s, w, c, j, i) = 0 => \E k \in i..Len(s) : k \in mt[j]
          /\ Plain(w) /\ (\E k \in i..Len(s) : k \in mt[j]) => Search(s, w, c, j, i) = 0
      <4>1. \A k \in 0..Len(s) : k \in mt[j] <=> k # Len(s) /\ s[k + 1] = w[u] /\ k + 1 \in mt[u]
        BY <1>1
      <4>2. Len(s) \in Nat /\ Len(w) \in Nat /\ i \in 0..(Len(s) - 1) /\ u \in 1..Len(w)
        BY <1>0, <3>1
      <4> QED
        BY ONLY <1>4, <3>2, <4>1, <4>2, SearchRight, j \in 0..(Len(w) - 1)
    <3> QED
      BY <3>1, <3>3, Zenon
  <2> QED
    BY <2>1, <2>2
<1> QED
  BY <1>7, <1>8 DEF Right

\* At every position, from the end of the pattern backwards.
LEMMA RightEverywhere ==
    ASSUME NEW s, NEW w, NEW c, NEW mt, Len(s) \in Nat, Len(w) \in Nat, Filled(s, w, c, mt)
    PROVE  \A j \in 0..Len(w) : Right(s, w, c, mt, j)
<1> DEFINE T == {d \in 0..Len(w) : ~Right(s, w, c, mt, Len(w) - d)}
<1>1. T = {}
  <2> SUFFICES ASSUME T # {} PROVE FALSE
    OBVIOUS
  <2>1. T \subseteq Nat
    OBVIOUS
  <2>2. PICK d \in T : \A m \in T : d <= m
    <3> HIDE DEF T
    <3> QED
      BY <2>1, LeastNumber
  <2>3. d \in 0..Len(w) /\ ~Right(s, w, c, mt, Len(w) - d)
    BY <2>2
  <2>4. d # 0
    BY <2>3, RightAtEnd
  <2> DEFINE j == Len(w) - d
  <2>5. j \in 0..(Len(w) - 1)
    BY <2>3, <2>4
  <2>6. ASSUME NEW k \in (j + 1)..Len(w)
        PROVE  Right(s, w, c, mt, k)
    <3>1. Len(w) - k \in 0..Len(w) /\ Len(w) - k < d /\ Len(w) - (Len(w) - k) = k
      BY <2>3, <2>6
    <3>2. Len(w) - k \notin T
      <4> HIDE DEF T
      <4> QED
        BY <2>2, <2>3, <3>1
    <3> QED
      BY <3>1, <3>2
  <2>7. ~Right(s, w, c, mt, j)
    BY <2>3
  <2> HIDE DEF j
  <2>8. Right(s, w, c, mt, j + 1)
    BY <2>5, <2>6
  <2>9. Right(s, w, c, mt, Unescape(w, j))
    BY <2>5, <2>6, UnescapeRange
  <2>10. CASE w[j + 1] = wild_many
    BY <2>5, <2>7, <2>8, <2>10, RightAtMany
  <2>11. CASE w[j + 1] = wild_one
    BY <2>5, <2>7, <2>8, <2>11, RightAtOne
  <2>12. CASE w[j + 1] \notin {wild_many, wild_one}
    BY <2>5, <2>7, <2>9, <2>12, RightAtChar
  <2> QED
    BY <2>10, <2>11, <2>12
<1> QED
  <2> TAKE j \in 0..Len(w)
  <2>1. Len(w) - j \in 0..Len(w) /\ Len(w) - (Len(w) - j) = j
    OBVIOUS
  <2> QED
    BY <1>1, <2>1

\* The tables of the model are filled that way.
LEMMA TablesFilled ==
    ASSUME NEW s, NEW w, Len(s) \in Nat, Len(w) \in Nat
    PROVE  Filled(s, w, Compare(s, w), Matched(s, w))
<1> DEFINE c == Compare(s, w)
           mt == Matched(s, w)
<1>1. c = [j \in 0..Len(w) |-> CompareAt(s, w, c, j)]
  BY CompareDef
<1>2. mt = [j \in 0..Len(w) |-> MatchedAt(s, w, mt, j)]
  BY MatchedDef
<1> HIDE DEF c, mt
<1>3. \A j \in 0..Len(w) : mt[j] = MatchedAt(s, w, mt, j)
  BY <1>2
<1>4. \A j \in 0..Len(w) : c[j] = CompareAt(s, w, c, j)
  BY <1>1
<1>5. \A j \in 0..Len(w), result \in {-1, many, 1}, i \in 0..Len(s) :
        c[j][result][i] = Turn(s, w, c, j, result, i)
  <2> TAKE j \in 0..Len(w), result \in {-1, many, 1}, i \in 0..Len(s)
  <2>1. c[j] = CompareAt(s, w, c, j)
    BY <1>4
  <2> DEFINE row(r) == [l \in 0..Len(s) |-> Turn(s, w, c, j, r, l)]
  <2>2. c[j] = [r \in {-1, many, 1} |-> row(r)]
    BY <2>1 DEF CompareAt
  <2>3. row(result)[i] = Turn(s, w, c, j, result, i)
    OBVIOUS
  <2> HIDE DEF row
  <2>4. c[j][result] = row(result)
    BY <2>2
  <2> QED
    BY <2>3, <2>4
<1>6. Filled(s, w, c, mt)
  BY <1>3, <1>5 DEF Filled
<1> QED
  BY <1>6 DEF c, mt

\* wild_case_compare() of two strings of any length.
LEMMA CompareIsLike ==
    ASSUME NEW s, NEW w, Len(s) \in Nat, Len(w) \in Nat
    PROVE  /\ wild_case_compare(s, w) = 0 => Like(s, w)
           /\ Plain(w) /\ Like(s, w) => wild_case_compare(s, w) = 0
           /\ Plain(w) /\ wild_case_compare(s, w) = -1 => \A k \in 0..Len(s) : ~LikeFrom(s, w, k)
<1>1. Right(s, w, Compare(s, w), Matched(s, w), 0)
  BY TablesFilled, RightEverywhere
<1>2. Anchored(s, w, Compare(s, w), Matched(s, w), 0)
  BY <1>1 DEF Right
<1> QED
  BY <1>2 DEF Anchored, wild_case_compare, Like, LikeFrom

\* What a call of dbd_list_dbs() is given.
NameInv == \E name \in Seq(Alphabet), pattern \in Seq(Alphabet) :
             /\ input = [kind |-> "name", name |-> name, pattern |-> pattern]
             /\ output # <<>> => output[1] = wild_case_compare(name, pattern)

\* The bounded strings that are enumerated are sequences.
LEMMA StringsAreSeqs ==
    ASSUME NEW chars, NEW n \in Nat, NEW x \in Strings(chars, n)
    PROVE  x \in Seq(chars)
<1>1. PICK k \in 0..n : x \in [1..k -> chars]
  BY DEF Strings
<1> QED
  BY <1>1

\* A call of the pattern matching answers for the name and pattern it was given.
LEMMA NameInvInductive == NameSpec => []NameInv
<1>1. NameInit => NameInv
  BY StringsAreSeqs, AlphabetAssumption DEF NameInit, NameInputs, NameInv
<1>2. NameInv /\ [ListEntry]_callVars => NameInv'
  <2> SUFFICES ASSUME NameInv, [ListEntry]_callVars PROVE NameInv'
    OBVIOUS
  <2>1. PICK name \in Seq(Alphabet), pattern \in Seq(Alphabet) :
             /\ input = [kind |-> "name", name |-> name, pattern |-> pattern]
             /\ output # <<>> => output[1] = wild_case_compare(name, pattern)
    BY DEF NameInv
  <2>2. CASE ListEntry
    <3>1. input' = input /\ output' = <<wild_case_compare(name, pattern)>>
      BY <2>1, <2>2 DEF ListEntry, sqlite_wild_case_compare
    <3> QED
      BY <2>1, <3>1 DEF NameInv
  <2>3. CASE UNCHANGED callVars
    BY <2>1, <2>3 DEF NameInv, callVars
  <2> QED
    BY <2>2, <2>3
<1> QED
  BY <1>1, <1>2, PTL DEF NameSpec

\* For every alphabet, name and pattern: the pattern matching of the SQLite
\* drivers' dbd_list_dbs() accepts a name exactly when it is LIKE the pattern.
THEOREM MatchIsLikeHolds == NameSpec => []MatchIsLike
<1>1. NameInv => MatchIsLike
  BY CompareIsLike DEF NameInv, MatchIsLike, Done, PlainPattern, Plain
<1> QED
  BY <1>1, NameInvInductive, PTL

\* The -1 that ends the search one level up is never wrong, for every
\* alphabet, name and pattern.
THEOREM MinusOneIsFinalHolds == NameSpec => []MinusOneIsFinal
<1>1. NameInv => MinusOneIsFinal
  BY CompareIsLike DEF NameInv, MinusOneIsFinal, Done, PlainPattern, Plain
<1> QED
  BY <1>1, NameInvInductive, PTL

-----------------------------------------------------------------------------
(* Literals: pieces of text joined, and read again *)

\* What is joined from a piece on depends on the later pieces.
LEMMA JoinedLocal ==
    ASSUME NEW p, NEW n \in Nat, n = Len(p), NEW j \in 0..n, NEW g, NEW h,
           \A k \in (j + 1)..n : g[k] = h[k]
    PROVE  JoinedAt(p, g, j) = JoinedAt(p, h, j)
BY DEF JoinedAt

\* The recursive definition has a solution, and JoinedFrom is one.
LEMMA JoinedDef ==
    ASSUME NEW p, NEW n \in Nat, n = Len(p)
    PROVE  JoinedFrom(p) = [j \in 0..n |-> JoinedAt(p, JoinedFrom(p), j)]
<1> DEFINE Solves(g, d) == g = [j \in (n - d)..n |-> JoinedAt(p, g, j)]
           T == {d \in 0..n : ~ \E g : Solves(g, d)}
<1>1. T = {}
  <2> SUFFICES ASSUME T # {} PROVE FALSE
    OBVIOUS
  <2>0. T \subseteq Nat
    OBVIOUS
  <2>1. PICK d \in T : \A m \in T : d <= m
    <3> HIDE DEF T
    <3> QED
      BY <2>0, LeastNumber
  <2>2. d # 0
    <3> DEFINE g == [j \in n..n |-> JoinedAt(p, <<>>, j)]
    <3>1. JoinedAt(p, g, n) = JoinedAt(p, <<>>, n)
      <4> HIDE DEF g
      <4> QED
        BY JoinedLocal
    <3>2. Solves(g, 0)
      BY <3>1
    <3> QED
      BY <2>1, <3>2
  <2>3. PICK g : Solves(g, d - 1)
    <3>0. d \in 0..n
      BY <2>1
    <3>1. d - 1 \in 0..n /\ d - 1 \notin T
      <4> HIDE DEF T
      <4> QED
        BY <3>0, <2>1, <2>2
    <3> HIDE DEF Solves
    <3> QED
      BY <3>1
  <2> DEFINE h == [j \in (n - d)..n |-> IF j = n - d THEN JoinedAt(p, g, j) ELSE g[j]]
  <2>4. \A k \in (n - d + 1)..n : h[k] = g[k]
    BY <2>1
  <2>5. \A j \in (n - d)..n : \A k \in (j + 1)..n : h[k] = g[k]
    BY <2>1, <2>4
  <2>6. \A j \in (n - d)..n : JoinedAt(p, h, j) = JoinedAt(p, g, j)
    <3> HIDE DEF h
    <3> TAKE j \in (n - d)..n
    <3>1. j \in 0..n
      BY <2>1
    <3> QED
      BY <2>5, <3>1, JoinedLocal
  <2>7. \A j \in (n - d + 1)..n : g[j] = JoinedAt(p, g, j)
    <3>1. n - (d - 1) = n - d + 1
      BY <2>1
    <3>2. g = [j \in (n - d + 1)..n |-> JoinedAt(p, g, j)]
      BY <2>3, <3>1
    <3> QED
      BY <3>2, Zenon
  <2>8. \A j \in (n - d)..n : h[j] = JoinedAt(p, h, j)
    <3> TAKE j \in (n - d)..n
    <3>1. CASE j = n - d
      BY <3>1, <2>6
    <3>2. CASE j # n - d
      BY <3>2, <2>1, <2>4, <2>6, <2>7
    <3> QED
      BY <3>1, <3>2
  <2>9. Solves(h, d)
    BY <2>8
  <2> QED
    BY <2>1, <2>9
<1>2. \E g : Solves(g, n)
  BY <1>1
<1>3. \E g : g = [j \in 0..n |-> JoinedAt(p, g, j)]
  BY <1>2
<1> QED
  BY <1>3, Zenon DEF JoinedFrom

\* What is read from a character on depends on the later characters.
LEMMA UnquoteLocal ==
    ASSUME NEW t, NEW e, NEW n \in Nat, n = Len(t), NEW j \in 0..n, NEW g, NEW h,
           \A k \in (j + 1)..n : g[k] = h[k]
    PROVE  UnquoteAt(t, e, g, j) = UnquoteAt(t, e, h, j)
BY DEF UnquoteAt

\* The recursive definition has a solution, and UnquoteFrom is one.
LEMMA UnquoteDef ==
    ASSUME NEW t, NEW e, NEW n \in Nat, n = Len(t)
    PROVE  UnquoteFrom(t, e) = [j \in 0..n |-> UnquoteAt(t, e, UnquoteFrom(t, e), j)]
<1> DEFINE Solves(g, d) == g = [j \in (n - d)..n |-> UnquoteAt(t, e, g, j)]
           T == {d \in 0..n : ~ \E g : Solves(g, d)}
<1>1. T = {}
  <2> SUFFICES ASSUME T # {} PROVE FALSE
    OBVIOUS
  <2>0. T \subseteq Nat
    OBVIOUS
  <2>1. PICK d \in T : \A m \in T : d <= m
    <3> HIDE DEF T
    <3> QED
      BY <2>0, LeastNumber
  <2>2. d # 0
    <3> DEFINE g == [j \in n..n |-> UnquoteAt(t, e, <<>>, j)]
    <3>1. UnquoteAt(t, e, g, n) = UnquoteAt(t, e, <<>>, n)
      <4> HIDE DEF g
      <4> QED
        BY UnquoteLocal
    <3>2. Solves(g, 0)
      BY <3>1
    <3> QED
      BY <2>1, <3>2
  <2>3. PICK g : Solves(g, d - 1)
    <3>0. d \in 0..n
      BY <2>1
    <3>1. d - 1 \in 0..n /\ d - 1 \notin T
      <4> HIDE DEF T
      <4> QED
        BY <3>0, <2>1, <2>2
    <3> HIDE DEF Solves
    <3> QED
      BY <3>1
  <2> DEFINE h == [j \in (n - d)..n |-> IF j = n - d THEN UnquoteAt(t, e, g, j) ELSE g[j]]
  <2>4. \A k \in (n - d + 1)..n : h[k] = g[k]
    BY <2>1
  <2>5. \A j \in (n - d)..n : \A k \in (j + 1)..n : h[k] = g[k]
    BY <2>1, <2>4
  <2>6. \A j \in (n - d)..n : UnquoteAt(t, e, h, j) = UnquoteAt(t, e, g, j)
    <3> HIDE DEF h
    <3> TAKE j \in (n - d)..n
    <3>1. j \in 0..n
      BY <2>1
    <3> QED
      BY <2>5, <3>1, UnquoteLocal
  <2>7. \A j \in (n - d + 1)..n : g[j] = UnquoteAt(t, e, g, j)
    <3>1. n - (d - 1) = n - d + 1
      BY <2>1
    <3>2. g = [j \in (n - d + 1)..n |-> UnquoteAt(t, e, g, j)]
      BY <2>3, <3>1
    <3> QED
      BY <3>2, Zenon
  <2>8. \A j \in (n - d)..n : h[j] = UnquoteAt(t, e, h, j)
    <3> TAKE j \in (n - d)..n
    <3>1. CASE j = n - d
      BY <3>1, <2>6
    <3>2. CASE j # n - d
      BY <3>2, <2>1, <2>4, <2>6, <2>7, SMTT(30)
    <3> QED
      BY <3>1, <3>2
  <2>9. Solves(h, d)
    BY <2>8
  <2> QED
    BY <2>1, <2>9
<1>2. \E g : Solves(g, n)
  BY <1>1
<1>3. \E g : g = [j \in 0..n |-> UnquoteAt(t, e, g, j)]
  BY <1>2
<1> QED
  BY <1>3, Zenon DEF UnquoteFrom

\* Downward induction on the positions of a text.
LEMMA Backwards ==
    ASSUME NEW n \in Nat, NEW T, n \in T, \A i \in 0..(n - 1) : i + 1 \in T => i \in T
    PROVE  \A i \in 0..n : i \in T
<1> DEFINE D == {d \in 0..n : n - d \notin T}
<1>1. D = {}
  <2> SUFFICES ASSUME D # {} PROVE FALSE
    OBVIOUS
  <2>1. D \subseteq Nat
    OBVIOUS
  <2>2. PICK d \in D : \A m \in D : d <= m
    <3> HIDE DEF D
    <3> QED
      BY <2>1, LeastNumber
  <2>3. d \in 1..n /\ n - d \notin T
    BY <2>2
  <2>4. d - 1 \notin D
    <3> HIDE DEF D
    <3> QED
      BY <2>2, <2>3
  <2>5. n - (d - 1) \in T
    BY <2>3, <2>4
  <2>6. n - d \in 0..(n - 1) /\ n - d + 1 = n - (d - 1)
    BY <2>3
  <2> QED
    BY <2>3, <2>5, <2>6
<1> SUFFICES ASSUME NEW i \in 0..n PROVE i \in T
  OBVIOUS
<1>2. PICK d \in 0..n : n - d = i
  OBVIOUS
<1>3. d \notin D
  BY <1>1
<1> QED
  BY <1>2, <1>3

\* What follows the first pieces, piece by piece.
LEMMA JoinedSteps ==
    ASSUME NEW S, NEW p \in Seq(Seq(S)), NEW n \in Nat, n = Len(p)
    PROVE  /\ JoinedFrom(p)[n] = <<>>
           /\ \A i \in 0..(n - 1) : JoinedFrom(p)[i] = p[i + 1] \o JoinedFrom(p)[i + 1]
           /\ \A i \in 0..n : JoinedFrom(p)[i] \in Seq(S)
<1> DEFINE from == JoinedFrom(p)
<1>1. from = [j \in 0..n |-> JoinedAt(p, from, j)]
  BY JoinedDef
<1> HIDE DEF from
<1>2. \A j \in 0..n : from[j] = JoinedAt(p, from, j)
  BY <1>1, Zenon
<1>3. from[n] = <<>>
  BY <1>2 DEF JoinedAt
<1>4. ASSUME NEW i \in 0..(n - 1) PROVE from[i] = p[i + 1] \o from[i + 1]
  <2>1. i \in 0..n /\ i # n
    OBVIOUS
  <2> QED
    BY <1>2, <2>1 DEF JoinedAt
<1> DEFINE T == {i \in 0..n : from[i] \in Seq(S)}
<1>5. n \in T
  <2>1. from[n] \in Seq(S)
    BY <1>3
  <2>2. n \in 0..n
    OBVIOUS
  <2> QED
    BY <2>1, <2>2
<1>6. ASSUME NEW i \in 0..(n - 1), i + 1 \in T PROVE i \in T
  <2>1. i \in 0..n /\ p[i + 1] \in Seq(S) /\ from[i + 1] \in Seq(S)
    BY <1>6
  <2>2. p[i + 1] \o from[i + 1] \in Seq(S)
    BY <2>1
  <2> QED
    BY <2>1, <2>2, <1>4
<1>7. \A i \in 0..n : i \in T
  <2> HIDE DEF T
  <2> QED
    BY <1>5, <1>6, Backwards
<1> QED
  BY <1>3, <1>4, <1>7 DEF from

\* The text of pieces of at most two characters.
LEMMA JoinedLength ==
    ASSUME NEW S, NEW p \in Seq(Seq(S)), NEW n \in Nat, n = Len(p),
           \A i \in 1..n : Len(p[i]) \in 1..2
    PROVE  Joined(p) \in Seq(S) /\ Len(Joined(p)) <= 2 * n
<1> DEFINE from == JoinedFrom(p)
<1>1. /\ from[n] = <<>>
      /\ \A i \in 0..(n - 1) : from[i] = p[i + 1] \o from[i + 1]
      /\ \A i \in 0..n : from[i] \in Seq(S)
  BY JoinedSteps
<1> HIDE DEF from
<1> DEFINE T == {i \in 0..n : Len(from[i]) <= 2 * (n - i)}
<1>2. n \in T
  BY <1>1
<1>3. ASSUME NEW i \in 0..(n - 1), i + 1 \in T PROVE i \in T
  <2>0. i \in 0..n /\ i + 1 \in 0..n /\ i + 1 \in 1..n
    OBVIOUS
  <2>a. p[i + 1] \in Seq(S)
    BY <2>0
  <2>b. from[i + 1] \in Seq(S)
    BY <2>0, <1>1
  <2>1. from[i] = p[i + 1] \o from[i + 1] /\ from[i + 1] \in Seq(S) /\ p[i + 1] \in Seq(S)
    BY <2>a, <2>b, <1>1, Zenon
  <2>2. Len(from[i]) = Len(p[i + 1]) + Len(from[i + 1])
    BY <2>1
  <2>3. Len(p[i + 1]) \in 1..2 /\ Len(from[i + 1]) <= 2 * (n - (i + 1)) /\ Len(from[i + 1]) \in Nat
    BY <1>3, <2>0, <2>1
  <2>4. \A a \in Nat, b \in 1..2 : a <= 2 * (n - (i + 1)) => b + a <= 2 * (n - i)
    OBVIOUS
  <2>5. Len(from[i]) <= 2 * (n - i)
    BY <2>2, <2>3, <2>4
  <2> QED
    BY <2>0, <2>5
<1>4. \A i \in 0..n : i \in T
  <2> HIDE DEF T
  <2> QED
    BY <1>2, <1>3, Backwards
<1> QED
  BY <1>1, <1>4 DEF from, Joined

\* Pieces of one character each are the text itself.
LEMMA JoinedSingles ==
    ASSUME NEW S, NEW s \in Seq(S), NEW p, p = [i \in 1..Len(s) |-> <<s[i]>>]
    PROVE  Joined(p) = s
<1> DEFINE n == Len(s)
           from == JoinedFrom(p)
<1>0. n \in Nat /\ p \in Seq(Seq(S)) /\ n = Len(p) /\ \A i \in 1..n : p[i] = <<s[i]>> /\ s[i] \in S
  OBVIOUS
<1>1. /\ from[n] = <<>>
      /\ \A i \in 0..(n - 1) : from[i] = p[i + 1] \o from[i + 1]
      /\ \A i \in 0..n : from[i] \in Seq(S)
  <2> HIDE DEF n
  <2> QED
    BY <1>0, JoinedSteps
<1> HIDE DEF from, n
<1> DEFINE T == {i \in 0..n : Len(from[i]) = n - i /\ \A k \in 1..(n - i) : from[i][k] = s[i + k]}
<1>2. n \in T
  BY <1>0, <1>1
<1>3. ASSUME NEW i \in 0..(n - 1), i + 1 \in T PROVE i \in T
  <2>0. i \in 0..n /\ i + 1 \in 0..n /\ i + 1 \in 1..n
    BY <1>0
  <2>1. from[i] = <<s[i + 1]>> \o from[i + 1] /\ from[i + 1] \in Seq(S) /\ s[i + 1] \in S
    BY <1>0, <1>1, <2>0
  <2>2. Len(from[i + 1]) = n - (i + 1) /\ \A k \in 1..(n - (i + 1)) : from[i + 1][k] = s[i + 1 + k]
    BY <1>3
  <2>3. Len(from[i]) = n - i
    <3>1. Len(from[i]) = 1 + Len(from[i + 1])
      BY <2>1
    <3> QED
      BY <3>1, <2>2, <1>0
  <2>4. ASSUME NEW k \in 1..(n - i) PROVE from[i][k] = s[i + k]
    <3>1. CASE k = 1
      BY <2>1, <3>1
    <3>2. CASE k # 1
      <4>1. from[i][k] = from[i + 1][k - 1]
        BY <2>1, <2>2, <3>2, <1>0
      <4>2. k - 1 \in 1..(n - (i + 1)) /\ i + 1 + (k - 1) = i + k
        BY <3>2, <1>0
      <4> QED
        BY <4>1, <4>2, <2>2
    <3> QED
      BY <3>1, <3>2
  <2> QED
    BY <2>0, <2>3, <2>4
<1>4. \A i \in 0..n : i \in T
  <2> HIDE DEF T
  <2> QED
    BY <1>0, <1>2, <1>3, Backwards
<1>5. 0 \in T
  <2> HIDE DEF T
  <2> QED
    BY <1>0, <1>4
<1>6. Len(from[0]) = Len(s) /\ \A k \in 1..Len(s) : from[0][k] = s[k]
  BY <1>0, <1>5 DEF n
<1>7. from[0] \in Seq(S)
  BY <1>0, <1>1
<1>8. from[0] = s
  BY <1>6, <1>7
<1> QED
  BY <1>8 DEF from, Joined

\* What a reader makes of the end of a text does not depend on its beginning.
LEMMA ReadBehind ==
    ASSUME NEW x \in Seq(Nat), NEW y \in Seq(Nat), NEW e
    PROVE  UnquoteFrom(x \o y, e)[Len(x)] = Unquote(y, e)
<1>m. PICK m \in Nat : m = Len(x)
  OBVIOUS
<1>n. PICK n \in Nat : n = Len(y)
  OBVIOUS
<1> DEFINE t == x \o y
           all == UnquoteFrom(t, e)
           end == UnquoteFrom(y, e)
<1>1. t \in Seq(Nat) /\ Len(t) = m + n /\ \A k \in 1..n : t[m + k] = y[k]
  BY <1>m, <1>n
<1>2. all = [j \in 0..(m + n) |-> UnquoteAt(t, e, all, j)]
  <2> HIDE DEF t
  <2>1. m + n \in Nat
    OBVIOUS
  <2> QED
    BY <1>1, <2>1, UnquoteDef
<1>3. end = [j \in 0..n |-> UnquoteAt(y, e, end, j)]
  BY <1>n, UnquoteDef
<1> HIDE DEF t, all, end
<1>4. \A j \in 0..(m + n) : all[j] = UnquoteAt(t, e, all, j)
  BY <1>2, Zenon
<1>5. \A j \in 0..n : end[j] = UnquoteAt(y, e, end, j)
  BY <1>3, Zenon
<1> DEFINE T == {i \in 0..n : \A k \in i..n : all[m + k] = end[k]}
<1>6. n \in T
  <2>1. m + n \in 0..(m + n) /\ n \in 0..n
    OBVIOUS
  <2>2. all[m + n] = <<>> /\ end[n] = <<>>
    BY <1>n, <1>1, <1>4, <1>5, <2>1 DEF UnquoteAt
  <2>3. \A k \in n..n : k = n
    OBVIOUS
  <2>4. \A k \in n..n : all[m + k] = end[k]
    BY <2>2, <2>3
  <2> QED
    BY <2>1, <2>4
<1>7. ASSUME NEW i \in 0..(n - 1), i + 1 \in T PROVE i \in T
  <2>1. m + i \in 0..(m + n) /\ i \in 0..n /\ i + 1 \in 1..n /\ m + i # m + n /\ i # n
    OBVIOUS
  <2>2. t[m + i + 1] = y[i + 1] /\ all[m + i + 1] = end[i + 1]
    <3>1. m + (i + 1) = m + i + 1 /\ i + 1 \in (i + 1)..n
      BY <2>1
    <3>2. t[m + (i + 1)] = y[i + 1]
      BY <1>1, <2>1
    <3>3. all[m + (i + 1)] = end[i + 1]
      BY <1>7, <3>1
    <3> QED
      BY <3>1, <3>2, <3>3
  <2>3. m + i + 1 < m + n <=> i + 1 < n
    BY <2>1
  <2>4. i + 1 < n => t[m + i + 2] = y[i + 2] /\ all[m + i + 2] = end[i + 2]
    <3> SUFFICES ASSUME i + 1 < n PROVE t[m + i + 2] = y[i + 2] /\ all[m + i + 2] = end[i + 2]
      OBVIOUS
    <3>1. m + (i + 2) = m + i + 2 /\ i + 2 \in (i + 1)..n /\ i + 2 \in 1..n
      BY <2>1
    <3> QED
      BY <1>1, <1>7, <3>1
  <2>5. all[m + i] = UnquoteAt(t, e, all, m + i) /\ end[i] = UnquoteAt(y, e, end, i)
    BY <1>4, <1>5, <2>1
  <2>6. UnquoteAt(t, e, all, m + i) = UnquoteAt(y, e, end, i)
    <3>1. CASE t[m + i + 1] \notin e
      BY <1>1, <1>n, <2>1, <2>2, <3>1 DEF UnquoteAt
    <3>2. CASE t[m + i + 1] \in e /\ i + 1 = n
      <4>1. m + i + 1 = m + n
        BY <3>2
      <4> QED
        BY <1>1, <1>n, <2>1, <2>2, <3>2, <4>1 DEF UnquoteAt
    <3>3. CASE t[m + i + 1] \in e /\ i + 1 # n
      <4>1. i + 1 < n
        BY <2>1, <3>3
      <4>2. m + i + 1 # m + n
        BY <3>3
      <4> QED
        BY <1>1, <1>n, <2>1, <2>2, <2>4, <3>3, <4>1, <4>2 DEF UnquoteAt
    <3> QED
      BY <3>1, <3>2, <3>3
  <2>7. \A k \in (i + 1)..n : all[m + k] = end[k]
    BY <1>7
  <2>8. \A k \in i..n : k = i \/ k \in (i + 1)..n
    BY <2>1
  <2>9. \A k \in i..n : all[m + k] = end[k]
    BY <2>5, <2>6, <2>7, <2>8
  <2> QED
    BY <2>1, <2>9
<1>8. \A i \in 0..n : i \in T
  <2> HIDE DEF T
  <2> QED
    BY <1>6, <1>7, Backwards
<1>9. all[m + 0] = end[0]
  BY <1>8
<1> QED
  BY <1>9, <1>m DEF all, end, t, Unquote

\* An ordinary character is read as itself.
LEMMA ReadPlain ==
    ASSUME NEW c \in Nat, NEW y \in Seq(Nat), NEW e,
           c \notin e
    PROVE  Unquote(<<c>> \o y, e) = <<c>> \o Unquote(y, e)
<1> DEFINE x == <<c>>
           t == x \o y
           n == Len(y)
           all == UnquoteFrom(t, e)
<1>1. x \in Seq(Nat) /\ Len(x) = 1 /\ n \in Nat /\ 1 + n \in Nat /\ t \in Seq(Nat) /\ Len(t) = 1 + n /\ t[1] = c
  OBVIOUS
<1>2. all[1] = Unquote(y, e)
  <2> HIDE DEF x
  <2> QED
    BY <1>1, ReadBehind
<1> HIDE DEF t, n
<1>3. all = [j \in 0..(1 + n) |-> UnquoteAt(t, e, all, j)]
  BY <1>1, UnquoteDef
<1> HIDE DEF all
<1>4. all[0] = UnquoteAt(t, e, all, 0)
  <2>1. 0 \in 0..(1 + n)
    BY <1>1
  <2> QED
    BY <1>3, <2>1, Zenon
<1>5. UnquoteAt(t, e, all, 0) = <<c>> \o all[1]
  BY <1>1 DEF UnquoteAt
<1> QED
  BY <1>2, <1>4, <1>5 DEF Unquote, all, t

\* A backslash and a character, or a quote and another one, are read as one.
LEMMA ReadPair ==
    ASSUME NEW b \in Nat, NEW c \in Nat, NEW x, x = <<b, c>>, NEW y \in Seq(Nat), NEW e, NEW v,
           b \in e,
           \/ b = backslash /\ v = Meant(c)
           \/ b # backslash /\ c = quote /\ v = quote
    PROVE  Unquote(x \o y, e) = <<v>> \o Unquote(y, e)
<1> DEFINE t == x \o y
           n == Len(y)
           all == UnquoteFrom(t, e)
<1>1. x \in Seq(Nat) /\ Len(x) = 2 /\ n \in Nat /\ 2 + n \in Nat /\ t \in Seq(Nat) /\ Len(t) = 2 + n
      /\ t[1] = b /\ t[2] = c
  OBVIOUS
<1>2. all[2] = Unquote(y, e)
  BY <1>1, ReadBehind, ZenonT(30)
<1> HIDE DEF t, n
<1>3. all = [j \in 0..(2 + n) |-> UnquoteAt(t, e, all, j)]
  BY <1>1, UnquoteDef
<1> HIDE DEF all
<1>4. all[0] = UnquoteAt(t, e, all, 0)
  <2>1. 0 \in 0..(2 + n)
    BY <1>1
  <2> QED
    BY <1>3, <2>1, Zenon
<1>5. UnquoteAt(t, e, all, 0) = <<v>> \o all[2]
  BY <1>1 DEF UnquoteAt
<1> QED
  BY <1>2, <1>4, <1>5 DEF Unquote, all, t

\* A text of pieces, each read as some characters, is read as all of them.
LEMMA ReadPieces ==
    ASSUME NEW p \in Seq(Seq(Nat)), NEW r \in Seq(Seq(Nat)), NEW n \in Nat, n = Len(p), n = Len(r),
           NEW e,
           \A i \in 1..n : \A y \in Seq(Nat) : Unquote(p[i] \o y, e) = r[i] \o Unquote(y, e)
    PROVE  Unquote(Joined(p), e) = Joined(r)
<1> DEFINE from == JoinedFrom(p)
           to == JoinedFrom(r)
<1>1. /\ from[n] = <<>>
      /\ \A i \in 0..(n - 1) : from[i] = p[i + 1] \o from[i + 1]
      /\ \A i \in 0..n : from[i] \in Seq(Nat)
  BY JoinedSteps
<1>2. /\ to[n] = <<>>
      /\ \A i \in 0..(n - 1) : to[i] = r[i + 1] \o to[i + 1]
  BY JoinedSteps
<1> HIDE DEF from, to
<1> DEFINE T == {i \in 0..n : Unquote(from[i], e) = to[i]}
<1>3. n \in T
  <2> DEFINE t == <<>>
             all == UnquoteFrom(t, e)
  <2>1. Len(t) = 0 /\ 0 \in Nat
    OBVIOUS
  <2> HIDE DEF t
  <2>2. \A l \in Nat : l = Len(t) => all = [j \in 0..l |-> UnquoteAt(t, e, all, j)]
    BY UnquoteDef
  <2> HIDE DEF all
  <2>3. all[0] = UnquoteAt(t, e, all, 0)
    BY <2>1, <2>2
  <2>4. all[0] = <<>>
    BY <2>1, <2>3 DEF UnquoteAt
  <2> QED
    BY <1>1, <1>2, <2>4 DEF Unquote, all, t
<1>4. ASSUME NEW i \in 0..(n - 1), i + 1 \in T PROVE i \in T
  <2>1. i \in 0..n /\ i + 1 \in 0..n /\ i + 1 \in 1..n
    OBVIOUS
  <2>2. from[i] = p[i + 1] \o from[i + 1] /\ to[i] = r[i + 1] \o to[i + 1]
    BY <1>1, <1>2, Zenon
  <2>3. from[i + 1] \in Seq(Nat)
    BY <1>1, <2>1
  <2>4. Unquote(p[i + 1] \o from[i + 1], e) = r[i + 1] \o Unquote(from[i + 1], e)
    BY <2>1, <2>3
  <2>5. Unquote(from[i + 1], e) = to[i + 1]
    BY <1>4
  <2>6. Unquote(from[i], e) = to[i]
    BY <2>2, <2>4, <2>5
  <2> QED
    BY <2>1, <2>6
<1>5. \A i \in 0..n : i \in T
  <2> HIDE DEF T
  <2> QED
    BY <1>3, <1>4, Backwards
<1>6. 0 \in 0..n
  OBVIOUS
<1>7. Unquote(from[0], e) = to[0]
  BY <1>5, <1>6
<1> QED
  BY <1>7 DEF from, to, Joined

\* A literal in quotes is read as what its inside is read as.
LEMMA ReadQuoted ==
    ASSUME NEW s \in Seq(Nat), NEW e, NEW v \in Seq(Nat), Unquote(s, e) = v
    PROVE  ReadLiteral(InQuotes(s), e) = {v} /\ Len(InQuotes(s)) = Len(s) + 2
<1> DEFINE text == InQuotes(s)
           n == Len(s)
<1>1. text \in Seq(Nat) /\ n \in Nat /\ Len(text) = n + 2 /\ text[1] = quote /\ text[n + 2] = quote
      /\ \A i \in 1..n : text[i + 1] = s[i]
  BY DEF InQuotes, quote
<1> HIDE DEF text
<1>2. SubSeq(text, 2, Len(text) - 1) = s
  <2>1. Len(text) - 1 = n + 1
    BY <1>1
  <2>2. Len(SubSeq(text, 2, n + 1)) = n /\ \A i \in 1..n : SubSeq(text, 2, n + 1)[i] = text[i + 1]
    BY <1>1
  <2>3. SubSeq(text, 2, n + 1) \in Seq(Nat)
    BY <1>1
  <2> QED
    BY <1>1, <2>1, <2>2, <2>3
<1>3. \A i \in 1..Len(v) : v[i] # -1
  <2>1. \A i \in 1..Len(v) : v[i] \in Nat
    OBVIOUS
  <2> QED
    BY <2>1
<1>4. ~(Len(text) < 2 \/ text[1] # quote \/ text[Len(text)] # quote)
  BY <1>1
<1>5. ReadLiteral(text, e) = {v}
  BY <1>2, <1>3, <1>4 DEF ReadLiteral
<1> QED
  BY <1>1, <1>5 DEF text

\* A piece of one or two characters that a reader takes for one character,
\* whatever follows.
Means(piece, c, e) ==
    /\ piece \in Seq(Nat) /\ Len(piece) \in 1..2
    /\ \A y \in Seq(Nat) : Unquote(piece \o y, e) = <<c>> \o Unquote(y, e)

\* A string quoted in such pieces is read as the string, in the room it has.
LEMMA PiecesReadBack ==
    ASSUME NEW orig \in Seq(Nat), NEW n \in Nat, n = Len(orig), NEW e,
           NEW p, p = [i \in 1..n |-> p[i]], \A i \in 1..n : Means(p[i], orig[i], e)
    PROVE  /\ Joined(p) \in Seq(Nat) /\ Len(Joined(p)) <= 2 * n
           /\ Unquote(Joined(p), e) = orig
           /\ ReadLiteral(InQuotes(Joined(p)), e) = {orig}
           /\ Len(InQuotes(Joined(p))) = Len(Joined(p)) + 2
<1>0. \A i \in 1..n : p[i] \in Seq(Nat) /\ Len(p[i]) \in 1..2
  BY DEF Means
<1>1. p \in Seq(Seq(Nat)) /\ Len(p) = n
  BY <1>0
<1>2. Joined(p) \in Seq(Nat) /\ Len(Joined(p)) <= 2 * n
  BY <1>0, <1>1, JoinedLength
<1> DEFINE r == [i \in 1..Len(orig) |-> <<orig[i]>>]
<1>3. r \in Seq(Seq(Nat)) /\ Len(r) = n /\ \A i \in 1..n : r[i] = <<orig[i]>>
  OBVIOUS
<1>4. Joined(r) = orig
  BY JoinedSingles
<1> HIDE DEF r
<1>5. \A i \in 1..n : \A y \in Seq(Nat) : Unquote(p[i] \o y, e) = r[i] \o Unquote(y, e)
  BY <1>3 DEF Means
<1>6. Unquote(Joined(p), e) = orig
  BY <1>1, <1>3, <1>4, <1>5, ReadPieces
<1> QED
  BY <1>2, <1>6, ReadQuoted

\* The three forms that the drivers and client libraries write.
LEMMA PlainMeans ==
    ASSUME NEW c \in Nat, NEW e, c \notin e
    PROVE  Means(<<c>>, c, e)
<1>1. <<c>> \in Seq(Nat) /\ Len(<<c>>) \in 1..2
  OBVIOUS
<1>2. \A y \in Seq(Nat) : Unquote(<<c>> \o y, e) = <<c>> \o Unquote(y, e)
  BY ReadPlain
<1> QED
  BY <1>1, <1>2 DEF Means

\* A backslash sequence is read as the character it stands for.
LEMMA EscapeMeans ==
    ASSUME NEW c \in Nat, NEW e, backslash \in e, NEW v, v = Meant(c)
    PROVE  Means(<<backslash, c>>, v, e)
<1> DEFINE x == <<backslash, c>>
<1>0. backslash \in Nat
  BY DEF backslash
<1>1. x \in Seq(Nat) /\ Len(x) \in 1..2
  BY <1>0
<1>2. \E b \in Nat : b = backslash /\ x = <<b, c>>
  BY <1>0
<1> HIDE DEF x
<1>3. \A y \in Seq(Nat) : Unquote(x \o y, e) = <<v>> \o Unquote(y, e)
  BY <1>2, ReadPair
<1>4. Means(x, v, e)
  BY <1>1, <1>3 DEF Means
<1> QED
  BY <1>4 DEF x

\* A doubled quote is read as one.
LEMMA QuotesMean ==
    ASSUME NEW e, quote \in e
    PROVE  Means(<<quote, quote>>, quote, e)
<1> DEFINE x == <<quote, quote>>
<1>0. quote \in Nat /\ quote # backslash
  BY DEF quote, backslash
<1>1. x \in Seq(Nat) /\ Len(x) \in 1..2
  BY <1>0
<1>2. \E b \in Nat : b = quote /\ x = <<b, quote>>
  BY <1>0
<1> HIDE DEF x
<1>3. \A y \in Seq(Nat) : Unquote(x \o y, e) = <<quote>> \o Unquote(y, e)
  BY <1>0, <1>2, ReadPair
<1>4. Means(x, quote, e)
  BY <1>1, <1>3 DEF Means
<1> QED
  BY <1>4 DEF x

\* What the caller of a quoting function relies on.
Faithful(l, orig, e) ==
    /\ ReadLiteral(l.text, e) = {orig}
    /\ l.returned = Len(l.text)
    /\ Len(l.text) + 1 <= l.room

\* A literal written in pieces that are read as the original is faithful.
LEMMA PiecesFaithful ==
    ASSUME NEW orig \in Seq(Nat), NEW e, NEW Room \in Nat, 2 * Len(orig) + 3 <= Room,
           NEW p, p = [i \in 1..Len(orig) |-> p[i]], \A i \in 1..Len(orig) : Means(p[i], orig[i], e)
    PROVE  Faithful(Literal(InQuotes(Joined(p)), Len(Joined(p)) + 2, Room), orig, e)
<1>1. PICK n \in Nat : n = Len(orig)
  OBVIOUS
<1>2. /\ Joined(p) \in Seq(Nat) /\ Len(Joined(p)) <= 2 * n
      /\ ReadLiteral(InQuotes(Joined(p)), e) = {orig}
      /\ Len(InQuotes(Joined(p))) = Len(Joined(p)) + 2
  <2>1. p = [i \in 1..n |-> p[i]] /\ \A i \in 1..n : Means(p[i], orig[i], e)
    BY <1>1
  <2> QED
    <3>1. /\ Joined(p) \in Seq(Nat) /\ Len(Joined(p)) <= 2 * n
          /\ Unquote(Joined(p), e) = orig
          /\ ReadLiteral(InQuotes(Joined(p)), e) = {orig}
          /\ Len(InQuotes(Joined(p))) = Len(Joined(p)) + 2
      BY <1>1, <2>1, PiecesReadBack, ZenonT(60)
    <3> QED
      BY <3>1
<1>3. PICK l \in Nat : l = Len(Joined(p))
  <2>1. \A s \in Seq(Nat) : Len(s) \in Nat
    OBVIOUS
  <2> QED
    BY <1>2, <2>1, Zenon
<1>4. l + 2 + 1 <= Room
  BY <1>1, <1>2, <1>3
<1> QED
  BY <1>2, <1>3, <1>4 DEF Faithful, Literal

\* The doubled quote.
LEMMA DoubledMeans ==
    ASSUME NEW c \in Nat
    PROVE  Means(Doubled(c), c, {quote})
<1>1. CASE c = quote
  BY <1>1, QuotesMean DEF Doubled
<1>2. CASE c # quote
  BY <1>2, PlainMeans DEF Doubled
<1> QED
  BY <1>1, <1>2

\* libdbi's buffer has room for every character twice, two quotes and a NUL.
LEMMA DestRoom ==
    ASSUME NEW orig \in Seq(Nat)
    PROVE  Dest(orig) \in Nat /\ 2 * Len(orig) + 3 <= Dest(orig)
BY DEF Dest

\* sqlite3, and the copies in sqlite and oracle.
LEMMA Sqlite3String ==
    ASSUME NEW orig \in Seq(Nat), \A i \in 1..Len(orig) : orig[i] # 0 /\ orig[i] # ctrl_z
    PROVE  Faithful(sqlite3_quote_string(orig), orig, {quote})
<1> DEFINE p == [i \in 1..Len(orig) |-> sqlite3_escape_char(orig[i])]
<1>1. p = [i \in 1..Len(orig) |-> p[i]]
  OBVIOUS
<1>2. ASSUME NEW i \in 1..Len(orig) PROVE Means(p[i], orig[i], {quote})
  <2>1. orig[i] \in Nat /\ orig[i] # 0 /\ orig[i] # ctrl_z
    OBVIOUS
  <2>2. p[i] = Doubled(orig[i])
    BY <2>1 DEF sqlite3_escape_char
  <2> QED
    BY <2>1, <2>2, DoubledMeans
<1>3. sqlite3_quote_string(orig) = Literal(InQuotes(Joined(p)), Len(Joined(p)) + 2, Dest(orig))
  BY DEF sqlite3_quote_string, sqlite3_escape_string, EachChar
<1> HIDE DEF p
<1> QED
  BY <1>1, <1>2, <1>3, DestRoom, PiecesFaithful

\* _dbd_freetds_escape_chars() puts a quote in front of a quote.
LEMMA FreetdsString ==
    ASSUME NEW orig \in Seq(Nat)
    PROVE  Faithful(freetds_quote_string(orig), orig, {quote})
<1> DEFINE p == [i \in 1..Len(orig) |-> IF orig[i] \in {quote} THEN <<quote, orig[i]>> ELSE <<orig[i]>>]
<1>1. p = [i \in 1..Len(orig) |-> p[i]]
  OBVIOUS
<1>2. ASSUME NEW i \in 1..Len(orig) PROVE Means(p[i], orig[i], {quote})
  <2>1. orig[i] \in Nat /\ p[i] = Doubled(orig[i])
    BY SMTT(30) DEF Doubled
  <2> QED
    BY <2>1, DoubledMeans
<1>3. freetds_quote_string(orig) = Literal(InQuotes(Joined(p)), Len(Joined(p)) + 2, Dest(orig))
  BY DEF freetds_quote_string, freetds_escape_chars, EachChar
<1> HIDE DEF p
<1> QED
  BY <1>1, <1>2, <1>3, DestRoom, PiecesFaithful

\* What ingres and firebird write between the quotes.
LEMMA DoubledString ==
    ASSUME NEW orig \in Seq(Nat)
    PROVE  LET s == EachChar(orig, Doubled)
           IN  Faithful(Literal(InQuotes(s), Len(s) + 2, Dest(orig)), orig, {quote})
<1> DEFINE p == [i \in 1..Len(orig) |-> Doubled(orig[i])]
<1>1. p = [i \in 1..Len(orig) |-> p[i]]
  OBVIOUS
<1>2. ASSUME NEW i \in 1..Len(orig) PROVE Means(p[i], orig[i], {quote})
  <2>1. orig[i] \in Nat /\ p[i] = Doubled(orig[i])
    OBVIOUS
  <2> QED
    BY <2>1, DoubledMeans
<1>3. EachChar(orig, Doubled) = Joined(p)
  BY DEF EachChar
<1> HIDE DEF p
<1>4. Faithful(Literal(InQuotes(Joined(p)), Len(Joined(p)) + 2, Dest(orig)), orig, {quote})
  BY <1>1, <1>2, DestRoom, PiecesFaithful
<1> QED
  BY <1>3, <1>4


\* The ingres driver counts its quotes as it writes them.
LEMMA IngresString ==
    ASSUME NEW orig \in Seq(Nat)
    PROVE  Faithful(ingres_quote_string(orig), orig, {quote})
<1> DEFINE s == EachChar(orig, Doubled)
<1>1. Faithful(Literal(InQuotes(s), Len(s) + 2, Dest(orig)), orig, {quote})
  BY DoubledString
<1>2. ingres_quote_string(orig) = Literal(InQuotes(s), Len(InQuotes(s)), Dest(orig))
  BY DEF ingres_quote_string
<1> HIDE DEF s
<1>3. Literal(InQuotes(s), Len(s) + 2, Dest(orig)).returned = Len(InQuotes(s))
  BY <1>1 DEF Faithful, Literal
<1> QED
  BY <1>1, <1>2, <1>3 DEF Literal

\* A text without NULs is its own C string.
LEMMA CStringWhole ==
    ASSUME NEW v \in Seq(Nat), \A i \in 1..Len(v) : v[i] # 0
    PROVE  CString(v) = v
<1>1. {i \in 1..Len(v) : v[i] = 0} = {}
  OBVIOUS
<1> QED
  BY <1>1 DEF CString, First

\* A text with one NUL at its end is the C string in front of it.
LEMMA CStringTerminated ==
    ASSUME NEW v \in Seq(Nat), \A i \in 1..Len(v) : v[i] # 0
    PROVE  CString(v \o <<0>>) = v
<1> DEFINE n == Len(v)
           w == v \o <<0>>
<1>1. n \in Nat /\ w \in Seq(Nat) /\ Len(w) = n + 1 /\ w[n + 1] = 0 /\ \A i \in 1..n : w[i] = v[i]
  OBVIOUS
<1> HIDE DEF w
<1> DEFINE nuls == {i \in 1..Len(w) : w[i] = 0}
<1>2. nuls = {n + 1}
  BY <1>1, SMTT(30)
<1>3. First(nuls) = n + 1
  <2> HIDE DEF nuls, n
  <2>1. n + 1 \in Int
    BY <1>1
  <2> QED
    BY <1>2, <2>1 DEF First
<1>4. SubSeq(w, 1, n) = v
  BY <1>1
<1>5. n + 1 # 0 /\ (n + 1) - 1 = n
  BY <1>1
<1>6. CString(w) = SubSeq(w, 1, (n + 1) - 1)
  BY <1>3, <1>5 DEF CString
<1> QED
  BY <1>4, <1>5, <1>6 DEF w

\* The firebird driver writes the closing quote over the terminator.
LEMMA FirebirdString ==
    ASSUME NEW orig \in Seq(Nat \ {0})
    PROVE  Faithful(firebird_quote_string(orig), orig, {quote})
<1> DEFINE S == Nat \ {0}
           p == [i \in 1..Len(orig) |-> Doubled(orig[i])]
           s == EachChar(orig, Doubled)
           t == <<quote>> \o s
<1>1. orig \in Seq(Nat)
  OBVIOUS
<1>2. Faithful(Literal(InQuotes(s), Len(s) + 2, Dest(orig)), orig, {quote})
  BY <1>1, DoubledString
<1>3. s \in Seq(S)
  <2>1. \A i \in 1..Len(orig) : Doubled(orig[i]) \in Seq(S)
    <3> TAKE i \in 1..Len(orig)
    <3>1. orig[i] \in S /\ quote \in S
      BY DEF quote
    <3> HIDE DEF S
    <3> QED
      BY <3>1 DEF Doubled
  <2>2. p \in Seq(Seq(S))
    BY <2>1
  <2>3. PICK n \in Nat : n = Len(p)
    BY <2>2
  <2> HIDE DEF p, S
  <2>4. \A i \in 0..n : JoinedFrom(p)[i] \in Seq(S)
    BY <2>2, <2>3, JoinedSteps
  <2>5. Joined(p) \in Seq(S)
    BY <2>3, <2>4 DEF Joined
  <2> QED
    BY <2>5 DEF p, EachChar
<1>4. firebird_quote_string(orig) = Literal(CString(<<quote>> \o (s \o <<0>>)) \o <<quote>>, 1 + Len(s \o <<0>>), Dest(orig))
  BY DEF firebird_quote_string
<1> HIDE DEF s
<1>5. t \in Seq(Nat) /\ \A i \in 1..Len(t) : t[i] # 0
  BY <1>3 DEF quote
<1>6. <<quote>> \o (s \o <<0>>) = t \o <<0>> /\ 1 + Len(s \o <<0>>) = Len(s) + 2
  BY <1>3 DEF quote
<1>7. CString(t \o <<0>>) = t
  <2> HIDE DEF t
  <2> QED
    BY <1>5, CStringTerminated
<1>8. t \o <<quote>> = InQuotes(s)
  BY DEF InQuotes
<1> QED
  BY <1>2, <1>4, <1>6, <1>7, <1>8

\* Each form that mysql_real_escape_string() writes is read as its character.
LEMMA MysqlMeans ==
    ASSUME NEW c \in Nat
    PROVE  Means(mysql_escape_char(c), c, {quote, backslash})
<1> DEFINE e == {quote, backslash}
<1>0. backslash \in e /\ char_0 \in Nat /\ char_Z \in Nat /\ Meant(char_0) = 0 /\ Meant(char_Z) = ctrl_z
  BY DEF Meant, char_0, char_Z
<1>1. CASE c = 0
  BY <1>0, <1>1, EscapeMeans DEF mysql_escape_char
<1>2. CASE c # 0 /\ c = ctrl_z
  BY <1>0, <1>2, EscapeMeans DEF mysql_escape_char
<1>3. CASE c # 0 /\ c # ctrl_z /\ c \in {quote, dquote, backslash}
  <2>1. Meant(c) = c
    BY <1>3 DEF Meant, quote, dquote, backslash, char_0, char_Z
  <2>2. mysql_escape_char(c) = <<backslash, c>>
    BY <1>3 DEF mysql_escape_char, Backslashed
  <2> QED
    BY <1>0, <2>1, <2>2, EscapeMeans
<1>4. CASE c # 0 /\ c # ctrl_z /\ c \notin {quote, dquote, backslash}
  <2>1. mysql_escape_char(c) = <<c>> /\ c \notin e
    BY <1>4 DEF mysql_escape_char, Backslashed
  <2> HIDE DEF e
  <2>2. Means(<<c>>, c, e)
    BY <2>1, PlainMeans
  <2> QED
    BY <2>1, <2>2 DEF e
<1> QED
  BY <1>1, <1>2, <1>3, <1>4

\* A mysql literal in any buffer that is large enough, of text or of bytes.
LEMMA MysqlLiteral ==
    ASSUME NEW orig \in Seq(Nat), NEW Room \in Nat, 2 * Len(orig) + 3 <= Room
    PROVE  LET s == mysql_real_escape_string(orig)
           IN  Faithful(Literal(InQuotes(s), Len(s) + 2, Room), orig, {quote, backslash})
<1> DEFINE p == [i \in 1..Len(orig) |-> mysql_escape_char(orig[i])]
<1>1. p = [i \in 1..Len(orig) |-> p[i]]
  OBVIOUS
<1>2. ASSUME NEW i \in 1..Len(orig) PROVE Means(p[i], orig[i], {quote, backslash})
  <2>1. orig[i] \in Nat /\ p[i] = mysql_escape_char(orig[i])
    OBVIOUS
  <2> QED
    BY <2>1, MysqlMeans
<1>3. mysql_real_escape_string(orig) = Joined(p)
  BY DEF mysql_real_escape_string, EachChar
<1> HIDE DEF p
<1>4. Faithful(Literal(InQuotes(Joined(p)), Len(Joined(p)) + 2, Room), orig, {quote, backslash})
  BY <1>1, <1>2, PiecesFaithful
<1> QED
  BY <1>3, <1>4

\* PQescapeString() doubles quotes and backslashes.
LEMMA PgsqlString ==
    ASSUME NEW orig \in Seq(Nat)
    PROVE  Faithful(pgsql_quote_string(orig), orig, {quote, backslash})
<1> DEFINE p == [i \in 1..Len(orig) |-> IF orig[i] \in {quote, backslash} THEN <<orig[i], orig[i]>> ELSE <<orig[i]>>]
<1>1. p = [i \in 1..Len(orig) |-> p[i]]
  OBVIOUS
<1>2. ASSUME NEW i \in 1..Len(orig) PROVE Means(p[i], orig[i], {quote, backslash})
  <2> DEFINE c == orig[i]
  <2>0. c \in Nat /\ Meant(backslash) = backslash /\ p[i] = IF c \in {quote, backslash} THEN <<c, c>> ELSE <<c>>
    BY DEF Meant, backslash, char_0, char_Z
  <2> HIDE DEF c, p
  <2>1. CASE c = quote
    BY <2>0, <2>1, QuotesMean DEF c
  <2>2. CASE c = backslash
    BY <2>0, <2>2, EscapeMeans DEF c
  <2>3. CASE c \notin {quote, backslash}
    BY <2>0, <2>3, PlainMeans DEF c
  <2> QED
    BY <2>1, <2>2, <2>3
<1>3. pgsql_quote_string(orig) = Literal(InQuotes(Joined(p)), Len(Joined(p)) + 2, Dest(orig))
  BY DEF pgsql_quote_string, PQescapeString, EachChar
<1> HIDE DEF p
<1> QED
  BY <1>1, <1>2, <1>3, DestRoom, PiecesFaithful

\* A literal without quotes inside is read as it stands.
LEMMA PlainRead ==
    ASSUME NEW s \in Seq(Nat), NEW e, \A i \in 1..Len(s) : s[i] \notin e
    PROVE  ReadLiteral(InQuotes(s), e) = {s} /\ Len(InQuotes(s)) = Len(s) + 2
<1> DEFINE p == [i \in 1..Len(s) |-> <<s[i]>>]
<1>1. p = [i \in 1..Len(s) |-> p[i]]
  OBVIOUS
<1>2. ASSUME NEW i \in 1..Len(s) PROVE Means(p[i], s[i], e)
  <2>1. s[i] \in Nat /\ p[i] = <<s[i]>> /\ s[i] \notin e
    OBVIOUS
  <2> HIDE DEF p
  <2> QED
    BY <2>1, PlainMeans
<1>3. Joined(p) = s
  BY JoinedSingles
<1> HIDE DEF p
<1>4. PICK n \in Nat : n = Len(s)
  OBVIOUS
<1>5. p = [i \in 1..n |-> p[i]] /\ \A i \in 1..n : Means(p[i], s[i], e)
  BY <1>1, <1>2, <1>4
<1>6. ReadLiteral(InQuotes(Joined(p)), e) = {s} /\ Len(InQuotes(Joined(p))) = Len(Joined(p)) + 2
  BY <1>4, <1>5, PiecesReadBack, ZenonT(30)
<1> QED
  BY <1>3, <1>6

\* libdbi's binary encoding has neither NULs nor quotes, and a cell of a
\* table that holds it gives the bytes back.
LEMMA EncodedCell ==
    ASSUME NEW orig \in Seq(Nat), NEW s, s = dbd_encode_binary(orig)
    PROVE  /\ s \in Seq(Nat) /\ Len(s) = Len(orig) + 1
           /\ \A i \in 1..Len(s) : s[i] # quote
           /\ dbi_get(Bin, sqlite3_row_data(Bin, SomeTable(s, 0, 0), 0, 0, 2)) = {orig}
<1> DEFINE n == Len(orig)
           tail == [i \in 1..n |-> orig[i] + 256]
<1>0. n \in Nat /\ \A i \in 1..n : orig[i] \in Nat
  OBVIOUS
<1>1. tail \in Seq(Nat) /\ Len(tail) = n /\ \A i \in 1..n : tail[i] = orig[i] + 256
  OBVIOUS
<1>2. s = <<256>> \o tail
  BY DEF dbd_encode_binary
<1> HIDE DEF tail
<1>3. s \in Seq(Nat) /\ Len(s) = n + 1 /\ s[1] = 256 /\ \A i \in 1..n : s[i + 1] = orig[i] + 256
  BY <1>0, <1>1, <1>2
<1>4. \A i \in 1..(n + 1) : s[i] >= 256
  <2> TAKE i \in 1..(n + 1)
  <2>1. CASE i = 1
    BY <1>3, <2>1
  <2>2. CASE i # 1
    <3>1. PICK k \in 1..n : i = k + 1
      BY <1>0, <2>2
    <3>2. s[i] = orig[k] + 256
      BY <1>3, <3>1
    <3> QED
      BY <1>0, <3>2
  <2> QED
    BY <2>1, <2>2
<1>5. \A i \in 1..Len(s) : s[i] # quote /\ s[i] # 0
  BY <1>3, <1>4 DEF quote
<1>6. TableCell(SomeTable(s, 0, 0), 0, 0, 2) = s
  BY DEF TableCell, SomeTable
<1>7. s # SqlNull
  BY <1>3 DEF SqlNull
<1>8. CString(s) = s
  BY <1>3, <1>5, CStringWhole
<1>9. dbd_decode_binary(s) = orig
  <2>1. Len(s) - 1 = n
    BY <1>0, <1>3
  <2>2. dbd_decode_binary(s) = [i \in 1..n |-> s[i + 1] - 256]
    BY <2>1 DEF dbd_decode_binary
  <2>3. \A i \in 1..n : s[i + 1] - 256 = orig[i]
    BY <1>0, <1>3, SMTT(30)
  <2>4. dbd_decode_binary(s) = [i \in 1..n |-> orig[i]]
    BY <2>2, <2>3
  <2> QED
    BY <2>4
<1>10. sqlite3_row_data(Bin, SomeTable(s, 0, 0), 0, 0, 2) = Field("d_string", orig, n)
  BY <1>6, <1>7, <1>8, <1>9 DEF sqlite3_row_data, Bin, Announced, Scalars
<1>11. SubSeq(orig, 1, n) = orig
  OBVIOUS
<1>12. dbi_get(Bin, Field("d_string", orig, n)) = {orig}
  BY <1>0, <1>11 DEF dbi_get, Bin, Announced, Field
<1> QED
  BY <1>3, <1>5, <1>10, <1>12

\* The drivers that store libdbi's encoding.
LEMMA EncodedBinary ==
    ASSUME NEW orig \in Seq(Nat), NEW l, l = encoded_quote_binary(orig)
    PROVE  /\ l.returned = Len(l.text)
           /\ Len(l.text) + 1 <= l.room <=> Len(orig) >= 4
           /\ ReadLiteral(l.text, {quote}) # {}
           /\ orig # <<>> => \A v \in ReadLiteral(l.text, {quote}) :
                dbi_get(Bin, sqlite3_row_data(Bin, SomeTable(v, 0, 0), 0, 0, 2)) = {orig}
<1>1. PICK s : s = IF orig = <<>> THEN <<>> ELSE dbd_encode_binary(orig)
  OBVIOUS
<1>2. l = Literal(InQuotes(s), Len(s) + 2, 2 * Len(orig))
  BY <1>1 DEF encoded_quote_binary
<1>3. s \in Seq(Nat) /\ (\A i \in 1..Len(s) : s[i] # quote) /\ Len(s) = IF orig = <<>> THEN 0 ELSE Len(orig) + 1
  <2>1. CASE orig = <<>>
    BY <1>1, <2>1
  <2>2. CASE orig # <<>>
    BY <1>1, <2>2, EncodedCell
  <2> QED
    BY <2>1, <2>2
<1>4. ReadLiteral(InQuotes(s), {quote}) = {s} /\ Len(InQuotes(s)) = Len(s) + 2
  <2>1. \A i \in 1..Len(s) : s[i] \notin {quote}
    BY <1>3
  <2> QED
    BY <1>3, <2>1, PlainRead
<1>5. l.text = InQuotes(s) /\ l.returned = Len(s) + 2 /\ l.room = 2 * Len(orig)
  BY <1>2 DEF Literal
<1>6. Len(l.text) + 1 <= l.room <=> Len(orig) >= 4
  <2>1. CASE orig = <<>>
    BY <1>3, <1>4, <1>5, <2>1
  <2>2. CASE orig # <<>>
    BY <1>3, <1>4, <1>5, <2>2
  <2> QED
    BY <2>1, <2>2
<1>7. orig # <<>> => dbi_get(Bin, sqlite3_row_data(Bin, SomeTable(s, 0, 0), 0, 0, 2)) = {orig}
  BY <1>1, EncodedCell
<1> QED
  BY <1>4, <1>5, <1>6, <1>7

\* X'..': two digits for each byte.
LEMMA IngresBinary ==
    ASSUME NEW orig \in Seq(Nat), NEW l, l = ingres_quote_binary(orig)
    PROVE  l.returned = Len(l.text) + 1 /\ Len(l.text) + 1 <= l.room /\ ReadHex(l.text) = {orig}
<1> DEFINE n == Len(orig)
           Digit(k) == LET c == orig[(k + 1) \div 2] IN 100 + IF k % 2 = 1 THEN c \div 16 ELSE c % 16
           digits == [k \in 1..(2 * n) |-> Digit(k)]
<1>0. n \in Nat /\ \A i \in 1..n : orig[i] \in Nat
  OBVIOUS
<1>1. l = Literal(<<88>> \o InQuotes(digits), 2 * n + 4, 2 * n + 4)
  BY DEF ingres_quote_binary
<1>2. \A i \in 1..n : /\ 2 * i \in 1..(2 * n) /\ 2 * i - 1 \in 1..(2 * n)
                      /\ digits[2 * i - 1] = 100 + orig[i] \div 16
                      /\ digits[2 * i] = 100 + (orig[i] % 16)
  <2> TAKE i \in 1..n
  <2>1. 2 * i \in 1..(2 * n) /\ 2 * i - 1 \in 1..(2 * n)
    BY <1>0
  <2>2. /\ (2 * i - 1 + 1) \div 2 = i /\ (2 * i - 1) % 2 = 1
        /\ (2 * i + 1) \div 2 = i /\ (2 * i) % 2 = 0
    BY <1>0
  <2>3. digits[2 * i - 1] = Digit(2 * i - 1) /\ digits[2 * i] = Digit(2 * i)
    <3> HIDE DEF Digit
    <3> QED
      BY <2>1
  <2>4. Digit(2 * i - 1) = 100 + orig[i] \div 16
    BY <2>2
  <2>5. Digit(2 * i) = 100 + (orig[i] % 16)
    BY <2>2
  <2> HIDE DEF Digit, digits
  <2> QED
    BY <2>1, <2>3, <2>4, <2>5
<1>3. digits \in Seq(Nat) /\ Len(digits) = 2 * n
  <2>1. \A k \in 1..(2 * n) : (k + 1) \div 2 \in 1..n
    BY <1>0
  <2>2. \A c \in Nat : 100 + c \div 16 \in Nat /\ 100 + (c % 16) \in Nat
    OBVIOUS
  <2>3. \A k \in 1..(2 * n) : Digit(k) \in Nat
    BY <1>0, <2>1, <2>2
  <2> HIDE DEF Digit
  <2> QED
    BY <1>0, <2>3
<1> HIDE DEF digits, Digit, n
<1> DEFINE text == <<88>> \o InQuotes(digits)
<1>4. /\ text \in Seq(Nat) /\ Len(text) = 2 * n + 3 /\ text[1] = 88 /\ text[2] = quote
      /\ text[2 * n + 3] = quote /\ \A k \in 1..(2 * n) : text[k + 2] = digits[k]
  BY <1>0, <1>3 DEF InQuotes, quote
<1> HIDE DEF text
<1>5. \A i \in 1..n : 16 * (text[2 * i + 1] - 100) + text[2 * i + 2] - 100 = orig[i]
  <2> TAKE i \in 1..n
  <2>1. text[2 * i + 1] = 100 + orig[i] \div 16
    <3>1. PICK k \in 1..(2 * n) : k = 2 * i - 1
      BY <1>2
    <3>2. text[k + 2] = digits[k] /\ k + 2 = 2 * i + 1
      BY <1>0, <1>4, <3>1
    <3> QED
      BY <1>2, <3>1, <3>2
  <2>2. text[2 * i + 2] = 100 + (orig[i] % 16)
    BY <1>2, <1>4
  <2>3. \A c \in Nat : 16 * (100 + c \div 16 - 100) + (100 + (c % 16)) - 100 = c
    <3> TAKE c \in Nat
    <3>1. PICK a \in Int, b \in Int : a = c \div 16 /\ b = c % 16
      OBVIOUS
    <3>2. c = 16 * a + b
      BY <3>1
    <3> QED
      BY <3>1, <3>2
  <2>4. orig[i] \in Nat
    BY <1>0
  <2> QED
    BY <2>1, <2>2, <2>3, <2>4
<1>6. ReadHex(text) = {orig}
  <2>1. (Len(text) - 3) \div 2 = n
    BY <1>0, <1>4
  <2>2. ~(Len(text) < 3 \/ text[1] # 88 \/ text[2] # quote \/ text[Len(text)] # quote)
    BY <1>0, <1>4
  <2>3. ReadHex(text) = {[i \in 1..n |-> 16 * (text[2 * i + 1] - 100) + text[2 * i + 2] - 100]}
    BY <2>1, <2>2 DEF ReadHex
  <2>4. [i \in 1..n |-> 16 * (text[2 * i + 1] - 100) + text[2 * i + 2] - 100] = orig
    <3>1. [i \in 1..n |-> 16 * (text[2 * i + 1] - 100) + text[2 * i + 2] - 100] = [i \in 1..n |-> orig[i]]
      BY <1>5
    <3>2. [i \in 1..n |-> orig[i]] = orig
      BY DEF n
    <3> QED
      BY <3>1, <3>2
  <2> QED
    BY <2>3, <2>4
<1>7. l.text = text /\ l.returned = 2 * n + 4 /\ l.room = 2 * n + 4
  BY <1>1 DEF Literal, text
<1>8. 2 * n + 4 = 2 * n + 3 + 1 /\ 2 * n + 3 + 1 <= 2 * n + 4
  BY <1>0
<1> QED
  BY <1>4, <1>6, <1>7, <1>8

\* A reader returns a sequence of characters, or of -1.
LEMMA UnquoteTyped ==
    ASSUME NEW t \in Seq(Nat), NEW e
    PROVE  Unquote(t, e) \in Seq(Int)
<1>n. PICK n \in Nat : n = Len(t)
  OBVIOUS
<1> DEFINE all == UnquoteFrom(t, e)
<1>1. all = [j \in 0..n |-> UnquoteAt(t, e, all, j)]
  BY <1>n, UnquoteDef
<1> HIDE DEF all
<1>2. \A j \in 0..n : all[j] = UnquoteAt(t, e, all, j)
  BY <1>1, Zenon
<1> DEFINE T == {i \in 0..n : \A k \in i..n : all[k] \in Seq(Int)}
<1>3. n \in T
  <2>1. n \in 0..n
    OBVIOUS
  <2>2. all[n] = <<>>
    BY <1>n, <1>2, <2>1 DEF UnquoteAt
  <2>3. all[n] \in Seq(Int)
    BY <2>2
  <2>4. \A k \in n..n : k = n
    OBVIOUS
  <2> QED
    BY <2>1, <2>3, <2>4
<1>4. ASSUME NEW i \in 0..(n - 1), i + 1 \in T PROVE i \in T
  <2>1. i \in 0..n /\ i # n /\ i + 1 \in 1..n
    OBVIOUS
  <2>2. all[i + 1] \in Seq(Int) /\ (i + 1 # n => all[i + 2] \in Seq(Int))
    BY <1>4, <2>1
  <2>3. t[i + 1] \in Int /\ (i + 1 # n => Meant(t[i + 2]) \in Int) /\ -1 \in Int /\ quote \in Int
    BY <1>n, <2>1 DEF Meant, ctrl_z, quote
  <2>4. \A a \in Int, s \in Seq(Int) : <<a>> \o s \in Seq(Int) /\ <<a>> \in Seq(Int)
    OBVIOUS
  <2>5. UnquoteAt(t, e, all, i) \in Seq(Int)
    <3>1. CASE t[i + 1] \notin e
      BY <1>n, <2>1, <2>2, <2>3, <2>4, <3>1 DEF UnquoteAt
    <3>2. CASE t[i + 1] \in e /\ i + 1 = n
      BY <1>n, <2>1, <2>2, <2>3, <2>4, <3>2 DEF UnquoteAt
    <3>3. CASE t[i + 1] \in e /\ i + 1 # n
      BY <1>n, <2>1, <2>2, <2>3, <2>4, <3>3 DEF UnquoteAt
    <3> QED
      BY <3>1, <3>2, <3>3
  <2>6. all[i] \in Seq(Int)
    BY <1>2, <2>1, <2>5
  <2>7. \A k \in i..n : k = i \/ k \in (i + 1)..n
    BY <2>1
  <2>8. \A k \in (i + 1)..n : all[k] \in Seq(Int)
    BY <1>4
  <2>9. \A k \in i..n : all[k] \in Seq(Int)
    BY <2>6, <2>7, <2>8
  <2> QED
    BY <2>1, <2>9
<1>5. \A i \in 0..n : i \in T
  <2> HIDE DEF T
  <2> QED
    BY <1>3, <1>4, Backwards
<1>6. all[0] \in Seq(Int)
  <2>1. 0 \in 0..n
    OBVIOUS
  <2>2. 0 \in T
    BY <1>5, <2>1
  <2> QED
    BY <2>1, <2>2
<1> QED
  BY <1>6 DEF Unquote, all

\* The pieces of a bytea literal, and what the reader of literals makes of them.
ByteaPiece(c) ==
    CASE c = 0 -> <<backslash, backslash, char_0>>
      [] c = quote -> <<quote, quote>>
      [] c = backslash -> <<c, c, c, c>>
      [] OTHER -> <<c>>
ByteaText(c) ==
    CASE c = 0 -> <<backslash, char_0>>
      [] c = backslash -> <<backslash, backslash>>
      [] OTHER -> <<c>>

\* The reader of literals takes one round of escapes off.
LEMMA ByteaFirst ==
    ASSUME NEW c \in Nat, NEW y \in Seq(Nat), NEW e, e = {quote, backslash}
    PROVE  Unquote(ByteaPiece(c) \o y, e) = ByteaText(c) \o Unquote(y, e)
<1>0. backslash \in Nat /\ quote \in Nat /\ char_0 \in Nat /\ backslash # quote /\ backslash # 0 /\ quote # 0
      /\ char_0 \notin e /\ Meant(backslash) = backslash
  BY DEF backslash, quote, char_0, Meant, char_Z
<1>1. Unquote(y, e) \in Seq(Int)
  BY UnquoteTyped
<1>2. CASE c = 0
  <2> DEFINE z == <<char_0>> \o y
             b == <<backslash, backslash>>
  <2>1. z \in Seq(Nat) /\ ByteaPiece(c) \o y = b \o z
    BY <1>0, <1>2 DEF ByteaPiece
  <2>2. Unquote(z, e) = <<char_0>> \o Unquote(y, e)
    BY <1>0, ReadPlain
  <2>3. Means(b, backslash, e)
    BY <1>0, EscapeMeans
  <2> HIDE DEF z, b
  <2>4. Unquote(b \o z, e) = <<backslash>> \o Unquote(z, e)
    BY <2>1, <2>3 DEF Means
  <2>5. <<backslash>> \o (<<char_0>> \o Unquote(y, e)) = <<backslash, char_0>> \o Unquote(y, e)
    BY <1>0, <1>1
  <2> QED
    BY <1>0, <1>2, <2>1, <2>2, <2>4, <2>5 DEF ByteaText
<1>3. CASE c = quote
  <2>1. ByteaPiece(c) = <<quote, quote>> /\ ByteaText(c) = <<quote>>
    BY <1>0, <1>3 DEF ByteaPiece, ByteaText
  <2>2. Means(<<quote, quote>>, quote, e)
    BY QuotesMean
  <2>3. Unquote(<<quote, quote>> \o y, e) = <<quote>> \o Unquote(y, e)
    BY <2>2, Zenon DEF Means
  <2> QED
    BY <2>1, <2>3, Zenon
<1>4. CASE c = backslash
  <2> DEFINE b == <<backslash, backslash>>
             z == b \o y
  <2>1. b \in Seq(Nat) /\ z \in Seq(Nat) /\ ByteaPiece(c) \o y = b \o z
    BY <1>0, <1>4 DEF ByteaPiece
  <2>2. Means(b, backslash, e)
    BY <1>0, EscapeMeans
  <2> HIDE DEF z
  <2>3. Unquote(b \o z, e) = <<backslash>> \o Unquote(z, e)
    BY <2>1, <2>2 DEF Means
  <2>4. Unquote(z, e) = <<backslash>> \o Unquote(y, e)
    BY <2>2 DEF Means, z
  <2>5. <<backslash>> \o (<<backslash>> \o Unquote(y, e)) = <<backslash, backslash>> \o Unquote(y, e)
    BY <1>0, <1>1
  <2> QED
    BY <1>0, <1>4, <2>1, <2>3, <2>4, <2>5 DEF ByteaText
<1>5. CASE c # 0 /\ c # quote /\ c # backslash
  <2>1. ByteaPiece(c) = <<c>> /\ ByteaText(c) = <<c>> /\ c \notin e
    BY <1>5 DEF ByteaPiece, ByteaText
  <2> QED
    BY <2>1, ReadPlain, ZenonT(30)
<1> QED
  BY <1>2, <1>3, <1>4, <1>5

\* bytea takes off the other round.
LEMMA ByteaSecond ==
    ASSUME NEW c \in Nat, NEW y \in Seq(Nat), NEW e, e = {backslash}
    PROVE  Unquote(ByteaText(c) \o y, e) = <<c>> \o Unquote(y, e)
<1>0. backslash \in Nat /\ char_0 \in Nat /\ backslash # 0 /\ Meant(backslash) = backslash /\ Meant(char_0) = 0
  BY DEF backslash, char_0, Meant, char_Z
<1>1. CASE c = 0
  <2>1. Means(<<backslash, char_0>>, c, e)
    BY <1>0, <1>1, EscapeMeans
  <2>2. ByteaText(c) = <<backslash, char_0>>
    BY <1>0, <1>1 DEF ByteaText
  <2> QED
    BY <2>1, <2>2, Zenon DEF Means
<1>2. CASE c = backslash
  <2>1. Means(<<backslash, backslash>>, c, e)
    BY <1>0, <1>2, EscapeMeans
  <2>2. ByteaText(c) = <<backslash, backslash>>
    BY <1>0, <1>2 DEF ByteaText
  <2> QED
    BY <2>1, <2>2, Zenon DEF Means
<1>3. CASE c # 0 /\ c # backslash
  <2>1. ByteaText(c) = <<c>> /\ c \notin e
    BY <1>3 DEF ByteaText
  <2> QED
    BY <2>1, ReadPlain, ZenonT(30)
<1> QED
  BY <1>1, <1>2, <1>3

\* The bytes of a pgsql literal come back after both rounds.
LEMMA PgsqlBinary ==
    ASSUME NEW orig \in Seq(Nat), NEW l, l = pgsql_quote_binary(orig)
    PROVE  l.returned = Len(l.text) /\ Len(l.text) + 1 <= l.room /\ ReadBytea(l.text) = {orig}
<1>n. PICK n \in Nat : n = Len(orig)
  OBVIOUS
<1> DEFINE p == [i \in 1..Len(orig) |-> ByteaPiece(orig[i])]
           m == [i \in 1..Len(orig) |-> ByteaText(orig[i])]
           r == [i \in 1..Len(orig) |-> <<orig[i]>>]
           s == Joined(p)
           v == Joined(m)
<1>1. l = Literal(InQuotes(s), Len(s) + 1 + 1, Len(s) + 1 + 2)
  BY DEF pgsql_quote_binary, PQescapeBytea, EachChar, ByteaPiece
<1>2. /\ p \in Seq(Seq(Nat)) /\ Len(p) = n /\ \A i \in 1..n : p[i] = ByteaPiece(orig[i])
      /\ m \in Seq(Seq(Nat)) /\ Len(m) = n /\ \A i \in 1..n : m[i] = ByteaText(orig[i])
      /\ r \in Seq(Seq(Nat)) /\ Len(r) = n /\ \A i \in 1..n : r[i] = <<orig[i]>>
  <2>1. \A c \in Nat : ByteaPiece(c) \in Seq(Nat) /\ ByteaText(c) \in Seq(Nat) /\ <<c>> \in Seq(Nat)
    BY DEF ByteaPiece, ByteaText, backslash, quote, char_0
  <2>2. \A i \in 1..n : orig[i] \in Nat
    BY <1>n
  <2>3. p \in Seq(Seq(Nat)) /\ Len(p) = n /\ \A i \in 1..n : p[i] = ByteaPiece(orig[i])
    BY <1>n, <2>1, <2>2
  <2>4. m \in Seq(Seq(Nat)) /\ Len(m) = n /\ \A i \in 1..n : m[i] = ByteaText(orig[i])
    BY <1>n, <2>1, <2>2
  <2>5. r \in Seq(Seq(Nat)) /\ Len(r) = n /\ \A i \in 1..n : r[i] = <<orig[i]>>
    BY <1>n, <2>1, <2>2
  <2> QED
    BY <2>3, <2>4, <2>5
<1>3. Joined(r) = orig
  BY JoinedSingles
<1> HIDE DEF p, m, r
<1>4. s \in Seq(Nat) /\ v \in Seq(Nat)
  <2>1. JoinedFrom(p)[0] \in Seq(Nat) /\ JoinedFrom(m)[0] \in Seq(Nat)
    <3>1. 0 \in 0..n
      OBVIOUS
    <3>2. \A i \in 0..n : JoinedFrom(p)[i] \in Seq(Nat)
      BY <1>2, JoinedSteps
    <3>3. \A i \in 0..n : JoinedFrom(m)[i] \in Seq(Nat)
      BY <1>2, JoinedSteps
    <3> QED
      BY <3>1, <3>2, <3>3
  <2> QED
    BY <2>1 DEF Joined
<1> DEFINE e == {quote, backslash}
           f == {backslash}
<1>5. Unquote(s, e) = v
  <2>1. \A i \in 1..n : \A y \in Seq(Nat) : Unquote(p[i] \o y, e) = m[i] \o Unquote(y, e)
    <3>1. \A c \in Nat, y \in Seq(Nat) : Unquote(ByteaPiece(c) \o y, e) = ByteaText(c) \o Unquote(y, e)
      BY ByteaFirst
    <3>2. \A i \in 1..n : orig[i] \in Nat
      BY <1>n
    <3> HIDE DEF e
    <3> QED
      BY <1>2, <3>1, <3>2, ZenonT(30)
  <2> HIDE DEF e
  <2> QED
    BY <1>2, <2>1, ReadPieces, ZenonT(30)
<1>6. Unquote(v, f) = orig
  <2>1. \A i \in 1..n : \A y \in Seq(Nat) : Unquote(m[i] \o y, f) = r[i] \o Unquote(y, f)
    <3>1. \A c \in Nat, y \in Seq(Nat) : Unquote(ByteaText(c) \o y, f) = <<c>> \o Unquote(y, f)
      BY ByteaSecond
    <3>2. \A i \in 1..n : orig[i] \in Nat
      BY <1>n
    <3> HIDE DEF f
    <3> QED
      BY <1>2, <3>1, <3>2, ZenonT(30)
  <2> HIDE DEF f
  <2> QED
    BY <1>2, <1>3, <2>1, ReadPieces, ZenonT(30)
<1> HIDE DEF s, v, e, f
<1>7. ReadLiteral(InQuotes(s), e) = {v} /\ Len(InQuotes(s)) = Len(s) + 2
  BY <1>4, <1>5, ReadQuoted
<1>8. Special("pgsql") = e
  BY DEF Special, e
<1>9. ReadBytea(InQuotes(s)) = {orig}
  BY <1>6, <1>7, <1>8 DEF ReadBytea, f
<1>10. l.text = InQuotes(s) /\ l.returned = Len(s) + 1 + 1 /\ l.room = Len(s) + 1 + 2
  BY <1>1 DEF Literal
<1>11. Len(s) \in Nat
  BY <1>4
<1> QED
  BY <1>7, <1>9, <1>10, <1>11

-----------------------------------------------------------------------------
(* The theorem *)

\* Every driver's quoted strings, the known bad literals aside.
LEMMA StringFaithful ==
    ASSUME NEW orig \in Seq(Nat \ {0}), NEW d \in Drivers, d # "msql",
           d \in {"sqlite3", "sqlite", "oracle"} => \A i \in 1..Len(orig) : orig[i] # ctrl_z
    PROVE  Faithful(dbd_quote_string(d, orig), orig, Special(d))
<1>0. orig \in Seq(Nat) /\ \A i \in 1..Len(orig) : orig[i] # 0
  OBVIOUS
<1>1. CASE d \in {"sqlite3", "sqlite", "oracle"}
  <2>1. Faithful(sqlite3_quote_string(orig), orig, {quote})
    BY <1>0, <1>1, Sqlite3String
  <2>2. dbd_quote_string(d, orig) = sqlite3_quote_string(orig)
    BY <1>1 DEF dbd_quote_string, sqlite_quote_string, oracle_quote_string
  <2>3. Special(d) = {quote}
    BY <1>1 DEF Special
  <2> QED
    BY <2>1, <2>2, <2>3
<1>2. CASE d = "ingres"
  <2>1. dbd_quote_string(d, orig) = ingres_quote_string(orig) /\ Special(d) = {quote}
    BY <1>2 DEF dbd_quote_string, Special
  <2> QED
    BY <1>0, <2>1, IngresString
<1>3. CASE d = "firebird"
  <2>1. dbd_quote_string(d, orig) = firebird_quote_string(orig) /\ Special(d) = {quote}
    BY <1>3 DEF dbd_quote_string, Special
  <2> QED
    BY <2>1, FirebirdString
<1>4. CASE d = "freetds"
  <2>1. dbd_quote_string(d, orig) = freetds_quote_string(orig) /\ Special(d) = {quote}
    BY <1>4 DEF dbd_quote_string, Special
  <2> QED
    BY <1>0, <2>1, FreetdsString
<1>5. CASE d = "mysql"
  <2> DEFINE s == mysql_real_escape_string(orig)
  <2>1. dbd_quote_string(d, orig) = Literal(InQuotes(s), Len(s) + 2, Dest(orig))
    BY <1>5 DEF dbd_quote_string, mysql_quote_string
  <2>2. Special(d) = {quote, backslash}
    BY <1>5 DEF Special
  <2>3. Faithful(Literal(InQuotes(s), Len(s) + 2, Dest(orig)), orig, {quote, backslash})
    BY <1>0, DestRoom, MysqlLiteral
  <2> QED
    BY <2>1, <2>2, <2>3
<1>6. CASE d = "pgsql"
  <2>1. dbd_quote_string(d, orig) = pgsql_quote_string(orig) /\ Special(d) = {quote, backslash}
    BY <1>6 DEF dbd_quote_string, Special
  <2> QED
    BY <1>0, <2>1, PgsqlString
<1> QED
  BY <1>1, <1>2, <1>3, <1>4, <1>5, <1>6 DEF Drivers, Encoders

\* A sequence over fewer characters.
LEMMA WiderSeq ==
    ASSUME NEW R, NEW S, R \subseteq S, NEW s \in Seq(R)
    PROVE  s \in Seq(S)
OBVIOUS

\* One call: what was given, and what came of it.
QuoteInv ==
    \E d \in Drivers :
      \/ \E orig \in Seq(Nat \ {0}) :
           /\ input = [kind |-> "string", driver |-> d, orig |-> orig]
           /\ output = <<>> \/ output = <<dbd_quote_string(d, orig)>>
      \/ \E orig \in Seq(Nat) :
           /\ input = [kind |-> "binary", driver |-> d, orig |-> orig]
           /\ output = <<>> \/ output = <<dbd_quote_binary(d, orig)>>

\* A call returns the literal of the data it was given.
LEMMA QuoteInvInductive == QuoteSpec => []QuoteInv
<1>1. QuoteInit => QuoteInv
  <2> SUFFICES ASSUME QuoteInit PROVE QuoteInv
    OBVIOUS
  <2>1. MaxText \in Nat /\ MaxBytes \in Nat /\ TextChars \subseteq Nat \ {0} /\ Octets \subseteq Nat
    BY QuotingAssumption
  <2>2. CASE input \in [kind : {"string"}, driver : Drivers, orig : Strings(TextChars, MaxText)]
    <3>1. input.orig \in Seq(TextChars) /\ input.driver \in Drivers
      BY <2>1, <2>2, StringsAreSeqs
    <3>2. input.orig \in Seq(Nat \ {0})
      BY <2>1, <3>1, WiderSeq
    <3>3. input = [kind |-> "string", driver |-> input.driver, orig |-> input.orig]
      BY <2>2
    <3> QED
      BY <3>1, <3>2, <3>3 DEF QuoteInit, QuoteInv
  <2>3. CASE input \in [kind : {"binary"}, driver : Drivers, orig : Strings(Octets, MaxBytes)]
    <3>1. input.orig \in Seq(Octets) /\ input.driver \in Drivers
      BY <2>1, <2>3, StringsAreSeqs
    <3>2. input.orig \in Seq(Nat)
      BY <2>1, <3>1, WiderSeq
    <3>3. input = [kind |-> "binary", driver |-> input.driver, orig |-> input.orig]
      BY <2>3
    <3> QED
      BY <3>1, <3>2, <3>3 DEF QuoteInit, QuoteInv
  <2> QED
    BY <2>2, <2>3 DEF QuoteInit, QuoteInputs
<1>2. QuoteInv /\ [QuoteString \/ QuoteBinary]_callVars => QuoteInv'
  <2> SUFFICES ASSUME QuoteInv, [QuoteString \/ QuoteBinary]_callVars PROVE QuoteInv'
    OBVIOUS
  <2>1. CASE QuoteString
    <3>1. input' = input /\ input.kind = "string" /\ output' = <<dbd_quote_string(input.driver, input.orig)>>
      BY <2>1 DEF QuoteString
    <3>2. PICK d \in Drivers, orig \in Seq(Nat \ {0}) :
            input = [kind |-> "string", driver |-> d, orig |-> orig]
      BY <3>1 DEF QuoteInv
    <3> QED
      BY <3>1, <3>2 DEF QuoteInv
  <2>2. CASE QuoteBinary
    <3>1. input' = input /\ input.kind = "binary" /\ output' = <<dbd_quote_binary(input.driver, input.orig)>>
      BY <2>2 DEF QuoteBinary
    <3>2. PICK d \in Drivers, orig \in Seq(Nat) :
            input = [kind |-> "binary", driver |-> d, orig |-> orig]
      BY <3>1 DEF QuoteInv
    <3> QED
      BY <3>1, <3>2 DEF QuoteInv
  <2>3. CASE UNCHANGED callVars
    BY <2>3 DEF QuoteInv, callVars
  <2> QED
    BY <2>1, <2>2, <2>3
<1> QED
  BY <1>1, <1>2, PTL DEF QuoteSpec

\* What the second part of QuotedReadBack asks of a literal of bytes.
BinaryFaithful(d, orig, l) ==
    /\ l.returned = IF d = "ingres" THEN Len(l.text) + 1 ELSE Len(l.text)
    /\ Len(l.text) + 1 <= l.room <=> d \notin Encoders \/ Len(orig) >= 4
    /\ CASE d = "ingres" -> ReadHex(l.text) = {orig}
         [] d = "pgsql" -> ReadBytea(l.text) = {orig}
         [] d = "mysql" -> ReadLiteral(l.text, Special(d)) = {orig}
         [] OTHER -> /\ ReadLiteral(l.text, Special(d)) # {}
                     /\ orig # <<>> =>
                          \A v \in ReadLiteral(l.text, Special(d)) :
                            dbi_get(Bin, sqlite3_row_data(Bin, SomeTable(v, 0, 0), 0, 0, 2)) = {orig}

\* Every driver's quoted bytes.
LEMMA BinaryIsFaithful ==
    ASSUME NEW orig \in Seq(Nat), NEW d \in Drivers
    PROVE  BinaryFaithful(d, orig, dbd_quote_binary(d, orig))
<1>1. CASE d = "ingres"
  <2>1. dbd_quote_binary(d, orig) = ingres_quote_binary(orig) /\ d \notin Encoders
    BY <1>1 DEF dbd_quote_binary, Encoders
  <2>2. PICK l : l = ingres_quote_binary(orig)
    OBVIOUS
  <2>3. l.returned = Len(l.text) + 1 /\ Len(l.text) + 1 <= l.room /\ ReadHex(l.text) = {orig}
    BY <2>2, IngresBinary
  <2> QED
    BY <1>1, <2>1, <2>2, <2>3 DEF BinaryFaithful
<1>2. CASE d = "pgsql"
  <2>1. dbd_quote_binary(d, orig) = pgsql_quote_binary(orig) /\ d \notin Encoders
    BY <1>2 DEF dbd_quote_binary, Encoders
  <2>2. PICK l : l = pgsql_quote_binary(orig)
    OBVIOUS
  <2>3. l.returned = Len(l.text) /\ Len(l.text) + 1 <= l.room /\ ReadBytea(l.text) = {orig}
    BY <2>2, PgsqlBinary
  <2> QED
    BY <1>2, <2>1, <2>2, <2>3 DEF BinaryFaithful
<1>3. CASE d = "mysql"
  <2> DEFINE s == mysql_real_escape_string(orig)
  <2>1. dbd_quote_binary(d, orig) = Literal(InQuotes(s), Len(s) + 2, 2 * Len(orig) + 1 + 2) /\ d \notin Encoders
    BY <1>3 DEF dbd_quote_binary, mysql_quote_binary, Encoders
  <2>2. 2 * Len(orig) + 1 + 2 \in Nat /\ 2 * Len(orig) + 3 <= 2 * Len(orig) + 1 + 2
    OBVIOUS
  <2>3. Special(d) = {quote, backslash}
    BY <1>3 DEF Special
  <2>4. Faithful(Literal(InQuotes(s), Len(s) + 2, 2 * Len(orig) + 1 + 2), orig, {quote, backslash})
    BY <2>2, MysqlLiteral
  <2> QED
    BY <1>3, <2>1, <2>3, <2>4 DEF BinaryFaithful, Faithful
<1>4. CASE d \in Encoders
  <2>1. dbd_quote_binary(d, orig) = encoded_quote_binary(orig)
    BY <1>4 DEF dbd_quote_binary, Encoders, sqlite3_quote_binary, sqlite_quote_binary, oracle_quote_binary,
                firebird_quote_binary, freetds_quote_binary, msql_quote_binary
  <2>2. d # "ingres" /\ d # "pgsql" /\ d # "mysql" /\ Special(d) = {quote}
    BY <1>4 DEF Encoders, Special
  <2>3. PICK l : l = encoded_quote_binary(orig)
    OBVIOUS
  <2>4. /\ l.returned = Len(l.text)
        /\ Len(l.text) + 1 <= l.room <=> Len(orig) >= 4
        /\ ReadLiteral(l.text, {quote}) # {}
        /\ orig # <<>> => \A v \in ReadLiteral(l.text, {quote}) :
             dbi_get(Bin, sqlite3_row_data(Bin, SomeTable(v, 0, 0), 0, 0, 2)) = {orig}
    BY <2>3, EncodedBinary
  <2> QED
    BY <1>4, <2>1, <2>2, <2>3, <2>4 DEF BinaryFaithful
<1> QED
  BY <1>1, <1>2, <1>3, <1>4 DEF Drivers

\* For texts and bytes of every length: whatever quotes, backslashes and
\* control characters the caller's data hold, the literal that each d's
\* dbd_quote_string() or dbd_quote_binary() writes is read by the server as
\* the original, has the length that is returned, and fits its buffer where
\* QuotedReadBack says so.
THEOREM QuotedReadBackHolds == QuoteSpec => []QuotedReadBack
<1>1. QuoteInv => QuotedReadBack
  <2> SUFFICES ASSUME QuoteInv, output # <<>> PROVE QuotedReadBack
    BY DEF QuotedReadBack, Done
  <2>1. CASE \E d \in Drivers, orig \in Seq(Nat \ {0}) :
               /\ input = [kind |-> "string", driver |-> d, orig |-> orig]
               /\ output = <<dbd_quote_string(d, orig)>>
    <3>1. PICK d \in Drivers, orig \in Seq(Nat \ {0}) :
               /\ input = [kind |-> "string", driver |-> d, orig |-> orig]
               /\ output = <<dbd_quote_string(d, orig)>>
      BY <2>1
    <3>2. input.kind = "string" /\ input.driver = d /\ input.orig = orig /\ ~Done("binary")
      BY <3>1 DEF Done
    <3>3. ~BadLiteral => Faithful(output[1], orig, Special(d))
      BY <3>1, <3>2, StringFaithful DEF BadLiteral
    <3> QED
      BY <3>2, <3>3 DEF QuotedReadBack, Faithful
  <2>2. CASE \E d \in Drivers, orig \in Seq(Nat) :
               /\ input = [kind |-> "binary", driver |-> d, orig |-> orig]
               /\ output = <<dbd_quote_binary(d, orig)>>
    <3>1. PICK d \in Drivers, orig \in Seq(Nat) :
               /\ input = [kind |-> "binary", driver |-> d, orig |-> orig]
               /\ output = <<dbd_quote_binary(d, orig)>>
      BY <2>2
    <3>2. input.kind = "binary" /\ input.driver = d /\ input.orig = orig /\ ~Done("string")
      BY <3>1 DEF Done
    <3>3. BinaryFaithful(d, orig, output[1])
      BY <3>1, BinaryIsFaithful
    <3> QED
      BY <3>2, <3>3 DEF QuotedReadBack, BinaryFaithful
  <2> QED
    BY <2>1, <2>2 DEF QuoteInv
<1> QED
  BY <1>1, QuoteInvInductive, PTL

-----------------------------------------------------------------------------
(* Fields: integers of a limited width *)

\* A byte has an even number of values, and the integers of each size are
\* half negative; eight bytes hold the values of every smaller size, signed
\* or not.
LEMMA PowFacts ==
    /\ \A b \in {1, 2, 3, 4, 8} : /\ Pow(b) \in Nat /\ Pow(b) \div 2 \in Nat
                                  /\ Pow(b) >= 2 /\ Pow(b) = 2 * (Pow(b) \div 2)
    /\ Pow(3) \div 2 <= Pow(4) \div 2 /\ Pow(3) <= Pow(4)
    /\ \A b \in {1, 2, 3, 4} : Pow(b) <= Pow(8) \div 2
<1>1. PICK h \in Nat : Byte = 2 * h /\ h >= 1
  <2>1. Byte \in Nat /\ Byte > 0 /\ Byte % 2 = 0
    BY FieldAssumption
  <2>2. Byte \div 2 \in Nat /\ Byte = 2 * (Byte \div 2) /\ Byte \div 2 >= 1
    BY <2>1
  <2> QED
    BY <2>2
<1> DEFINE two == Byte * Byte
           four == two * two
<1>2. Pow(1) = Byte /\ Pow(2) = two /\ Pow(3) = two * Byte /\ Pow(4) = four /\ Pow(8) = four * four
  BY DEF Pow
<1>3. \A x, y \in Nat : x * y \in Nat
  OBVIOUS
<1>4. \A x, y \in Nat : x >= 2 /\ y >= 2 => x * y >= 2 * x /\ x * y >= 2
  OBVIOUS
<1>5. \A x, y \in Nat : (2 * x) * y = 2 * (x * y)
  OBVIOUS
<1>6. \A x, y \in Nat : x = 2 * y => x \div 2 = y
  OBVIOUS
<1>7. Byte \in Nat /\ Byte >= 2 /\ two \in Nat /\ two = 2 * (h * Byte) /\ h * Byte \in Nat
  <2>1. Byte \in Nat /\ Byte >= 2
    BY <1>1
  <2> QED
    BY <1>1, <1>3, <1>5, <2>1
<1>8. two >= 2 * Byte /\ two >= 2
  BY <1>4, <1>7
<1> HIDE DEF two
<1>9. PICK t \in Nat : two = 2 * t
  BY <1>7
<1>10. two * Byte \in Nat /\ two * Byte = 2 * (t * Byte) /\ t * Byte \in Nat /\ two * Byte >= 2 * two
  BY <1>3, <1>4, <1>5, <1>7, <1>8, <1>9
<1>11. four \in Nat /\ four = 2 * (t * two) /\ t * two \in Nat /\ four >= 2 * two
  BY <1>3, <1>4, <1>5, <1>7, <1>8, <1>9
<1>12. four >= 2 * (two * Byte)
  <2>1. PICK k \in Nat : two = k + 2 * Byte
    <3>1. two - 2 * Byte \in Nat /\ two = (two - 2 * Byte) + 2 * Byte
      BY <1>7, <1>8
    <3> QED
      BY <3>1
  <2>2. four = two * k + two * (2 * Byte)
    BY <1>7, <2>1
  <2>3. two * (2 * Byte) = 2 * (two * Byte) /\ two * k \in Nat
    BY <1>3, <1>7
  <2> QED
    BY <1>10, <2>2, <2>3
<1> HIDE DEF four
<1>13. PICK q \in Nat : four = 2 * q
  BY <1>11
<1>14. four * four \in Nat /\ four * four = 2 * (q * four) /\ q * four \in Nat /\ four * four >= 2 * four
  <2>1. four >= 2
    BY <1>8, <1>11, <1>7
  <2> QED
    BY <1>3, <1>4, <1>5, <1>11, <1>13, <2>1
<1>15. Byte \div 2 = h /\ two \div 2 = t /\ (two * Byte) \div 2 = t * Byte /\ four \div 2 = q
       /\ (four * four) \div 2 = q * four
  BY <1>1, <1>6, <1>7, <1>9, <1>10, <1>13, <1>14, <1>11
<1>16. q * four >= four /\ four >= two * Byte /\ two * Byte >= two /\ two >= Byte /\ t * Byte <= q
  <2> PICK x \in Nat, y \in Nat, z \in Nat : x = q * four /\ y = t * Byte /\ z = two * Byte
    BY <1>10, <1>14
  <2> QED
    BY <1>7, <1>8, <1>9, <1>10, <1>11, <1>12, <1>13, <1>14
<1>17. \A b \in {1, 2, 3, 4, 8} : /\ Pow(b) \in Nat /\ Pow(b) \div 2 \in Nat
                                  /\ Pow(b) >= 2 /\ Pow(b) = 2 * (Pow(b) \div 2)
  <2> DEFINE P(b) == /\ Pow(b) \in Nat /\ Pow(b) \div 2 \in Nat
                     /\ Pow(b) >= 2 /\ Pow(b) = 2 * (Pow(b) \div 2)
  <2>1. P(1)
    BY <1>1, <1>2, <1>7, <1>15
  <2>2. P(2)
    BY <1>2, <1>7, <1>8, <1>9, <1>15
  <2>3. P(3)
    BY <1>2, <1>8, <1>7, <1>10, <1>15
  <2>4. P(4)
    BY <1>2, <1>7, <1>8, <1>11, <1>13, <1>15
  <2>5. P(8)
    BY <1>2, <1>7, <1>8, <1>11, <1>14, <1>15
  <2> QED
    BY <2>1, <2>2, <2>3, <2>4, <2>5
<1>18. Pow(3) \div 2 <= Pow(4) \div 2 /\ Pow(3) <= Pow(4)
  BY <1>2, <1>15, <1>16
<1>19. \A b \in {1, 2, 3, 4} : Pow(b) <= Pow(8) \div 2
  <2>1. Byte \in Nat /\ two \in Nat /\ two * Byte \in Nat /\ four \in Nat /\ q * four \in Nat
    BY <1>7, <1>10, <1>11, <1>14
  <2> PICK x, y \in Nat : x = two * Byte /\ y = q * four
    BY <2>1
  <2> QED
    BY <1>2, <1>15, <1>16, <2>1
<1> QED
  BY <1>17, <1>18, <1>19

\* The C cast to a type that holds the number changes nothing.
LEMMA SignedKeeps ==
    ASSUME NEW b \in {1, 2, 3, 4, 8}, NEW n \in Int, Fits(n, b)
    PROVE  Signed(n, b) = n
<1>1. PICK p \in Nat, h \in Nat : p = Pow(b) /\ h = Pow(b) \div 2 /\ p = 2 * h /\ p >= 2
  BY PowFacts
<1>2. n + h \in Nat /\ n + h < p
  BY <1>1 DEF Fits
<1>3. (n + h) % p = n + h
  BY <1>1, <1>2
<1> QED
  BY <1>1, <1>3 DEF Signed

\* What was cast to the signed type of the same size is read back as the
\* unsigned number.
LEMMA UnsignedKeeps ==
    ASSUME NEW b \in {1, 2, 3, 4, 8}, NEW n \in Int, FitsUnsigned(n, b)
    PROVE  Signed(n, b) \in Int /\ Signed(n, b) % Pow(b) = n
<1>1. PICK p \in Nat, h \in Nat : p = Pow(b) /\ h = Pow(b) \div 2 /\ p = 2 * h /\ p >= 2
  BY PowFacts
<1>2. n >= 0 /\ n < p
  BY <1>1 DEF FitsUnsigned
<1>3. CASE n < h
  <2>1. (n + h) % p = n + h
    BY <1>1, <1>2, <1>3
  <2>2. Signed(n, b) = n
    BY <1>1, <2>1 DEF Signed
  <2>3. n % p = n
    <3>1. \A x, y \in Nat : x < y => x % y = x
      OBVIOUS
    <3>2. n \in Nat
      BY <1>2
    <3> QED
      BY <1>1, <1>2, <3>1, <3>2
  <2> QED
    BY <1>1, <2>2, <2>3
<1>4. CASE n >= h
  <2>1. (n + h) % p = n + h - p
    BY <1>1, <1>2, <1>4
  <2>2. Signed(n, b) = n - p
    BY <1>1, <2>1 DEF Signed
  <2>3. (n - p) % p = n
    BY <1>1, <1>2
  <2> QED
    BY <1>1, <2>2, <2>3
<1> QED
  BY <1>1, <1>3, <1>4

\* atol() and atoll() change no number of the signed 8-byte range.
LEMMA SaturatedKeeps ==
    ASSUME NEW n \in Int, Fits(n, 8)
    PROVE  Saturated(n) = n
<1>1. PICK h \in Nat : h = Pow(8) \div 2
  BY PowFacts
<1> QED
  BY <1>1 DEF Saturated, Fits

\* The signed ranges are within that of eight bytes, and so are the unsigned
\* ones of up to four.
LEMMA RangesInEight ==
    /\ \A b \in {1, 2, 3, 4, 8}, n \in Int : Fits(n, b) => Fits(n, 8)
    /\ \A b \in {1, 2, 3, 4}, n \in Int : FitsUnsigned(n, b) => Fits(n, 8)
    /\ \A n \in Int : Fits(n, 3) => Fits(n, 4)
    /\ \A n \in Int : FitsUnsigned(n, 3) => FitsUnsigned(n, 4)
<1>1. \A b \in {1, 2, 3, 4, 8} : Pow(b) \in Nat /\ Pow(b) \div 2 \in Nat /\ Pow(b) = 2 * (Pow(b) \div 2)
  BY PowFacts
<1>2. ASSUME NEW b \in {1, 2, 3, 4, 8}, NEW n \in Int, Fits(n, b) PROVE Fits(n, 8)
  <2>1. CASE b = 8
    BY <1>2, <2>1
  <2>2. CASE b \in {1, 2, 3, 4}
    <3>1. Pow(b) <= Pow(8) \div 2
      BY <2>2, PowFacts
    <3>2. PICK p, q, r \in Nat : p = Pow(b) \div 2 /\ q = Pow(b) /\ r = Pow(8) \div 2 /\ q = 2 * p
      BY <1>1
    <3> QED
      BY <1>2, <3>1, <3>2 DEF Fits
  <2> QED
    BY <2>1, <2>2
<1>3. ASSUME NEW b \in {1, 2, 3, 4}, NEW n \in Int, FitsUnsigned(n, b) PROVE Fits(n, 8)
  <2>1. PICK q, r \in Nat : q = Pow(b) /\ r = Pow(8) \div 2
    BY <1>1
  <2>2. q <= r
    BY <2>1, PowFacts
  <2> QED
    BY <1>3, <2>1, <2>2 DEF Fits, FitsUnsigned
<1>4. ASSUME NEW n \in Int, Fits(n, 3) PROVE Fits(n, 4)
  <2>1. PICK p, q \in Nat : p = Pow(3) \div 2 /\ q = Pow(4) \div 2
    BY <1>1
  <2>2. p <= q
    BY <2>1, PowFacts
  <2> QED
    BY <1>4, <2>1, <2>2 DEF Fits
<1>5. ASSUME NEW n \in Int, FitsUnsigned(n, 3) PROVE FitsUnsigned(n, 4)
  <2>1. PICK p, q \in Nat : p = Pow(3) /\ q = Pow(4)
    BY <1>1
  <2>2. p <= q
    BY <2>1, PowFacts
  <2> QED
    BY <1>5, <2>1, <2>2 DEF FitsUnsigned
<1> QED
  BY <1>2, <1>3, <1>4, <1>5

-----------------------------------------------------------------------------
(* Fields: what libdbi's getters read of a stored field *)

Sizes == {1, 2, 3, 4, 8}

\* Bytes of the union's member for an integer of a size.
Width(b) == MemberBytes[IntMember(b)]

\* A 3-byte integer is stored in four bytes, the others in as many as they have.
LEMMA Widths ==
    /\ \A b \in Sizes : Width(b) \in Sizes
    /\ \A b \in Sizes, n \in Int : Fits(n, b) => Fits(n, Width(b))
    /\ \A b \in Sizes, n \in Int : FitsUnsigned(n, b) => FitsUnsigned(n, Width(b))
    /\ Width(3) = 4 /\ Width(4) = 4
<1>1. Width(1) = 1 /\ Width(2) = 2 /\ Width(3) = 4 /\ Width(4) = 4 /\ Width(8) = 8
  BY DEF Width, MemberBytes, IntMember
<1> QED
  BY <1>1, RangesInEight DEF Sizes

\* The getter for an announced integer reads the stored member.
LEMMA IntGet ==
    ASSUME NEW b \in Sizes, NEW n, NEW k
    PROVE  /\ dbi_get(SInt(b), Field(IntMember(b), <<n, 0>>, k)) = {<<n, 0>>}
           /\ dbi_get(UInt(b), Field(IntMember(b), <<n, 0>>, k)) = {<<n % Pow(Width(b)), 0>>}
BY DEF dbi_get, SInt, UInt, Announced, Field, Width

\* A number that came as text is read back, signed or unsigned.
LEMMA IntRead ==
    ASSUME NEW b \in Sizes, NEW n \in Int, NEW a, a.size = b
    PROVE  /\ Fits(n, Width(b)) => dbi_get(SInt(b), IntField(a, <<n, 0>>)) = {<<n, 0>>}
           /\ FitsUnsigned(n, Width(b)) /\ n = Saturated(n) => dbi_get(UInt(b), IntField(a, <<n, 0>>)) = {<<n, 0>>}
<1> PICK w \in Sizes : w = Width(b)
  BY Widths
<1> DEFINE m == Signed(Saturated(n), w)
<1>1. IntField(a, <<n, 0>>) = Field(IntMember(b), <<m, 0>>, 0)
  BY DEF IntField, Width
<1>2. ASSUME Fits(n, w) PROVE m = n
  BY <1>2, RangesInEight, SaturatedKeeps, SignedKeeps DEF Sizes
<1>3. ASSUME FitsUnsigned(n, w), n = Saturated(n) PROVE m % Pow(w) = n
  BY <1>3, UnsignedKeeps DEF Sizes
<1> HIDE DEF m
<1> QED
  BY <1>1, <1>2, <1>3, IntGet

\* The other getters.
LEMMA DecRead ==
    ASSUME NEW b \in {4, 8}, NEW raw, NEW k
    PROVE  dbi_get(Dec(b), Field(DecMember(b), raw, k)) = {raw}
BY DEF dbi_get, Dec, Announced, Field

\* The date and time field has the parts that its type has.
LEMMA TimeRead ==
    /\ \A d : dbi_get(Time(1), TimeField(Time(1), <<d, 0>>)) = {<<d, 0>>}
    /\ \A t : dbi_get(Time(2), TimeField(Time(2), <<0, t>>)) = {<<0, t>>}
    /\ \A d, t : dbi_get(Time(3), TimeField(Time(3), <<d, t>>)) = {<<d, t>>}
BY DEF dbi_get, Time, Announced, Field, TimeField, dbd_parse_datetime

\* A text is read up to its first NUL.
LEMMA StrRead ==
    ASSUME NEW s, NEW k
    PROVE  dbi_get(Str, Field("d_string", s, k)) = {CString(s)}
BY DEF dbi_get, Str, Announced, Field

\* Bytes are read up to the size that is stored with them.
LEMMA BinRead ==
    ASSUME NEW S, NEW s \in Seq(S), NEW k \in 0..Len(s)
    PROVE  dbi_get(Bin, Field("d_string", s, k)) = {SubSeq(s, 1, k)}
<1>1. Len(s) \in Nat /\ ~(k > Len(s))
  OBVIOUS
<1> QED
  BY <1>1 DEF dbi_get, Bin, Announced, Field

-----------------------------------------------------------------------------
(* Fields: columns and their values *)

\* No value has the form of NULL.
LEMMA NoNull ==
    /\ \A n, f : <<n, f>> # SqlNull
    /\ \A s \in Seq(Nat) : s # SqlNull
    /\ \A d \in Dates : d # SqlNull
<1>1. \A n, f : <<n, f>> # SqlNull
  <2> TAKE n, f
  <2>1. Len(<<n, f>>) = 2 /\ Len(SqlNull) = 3
    BY DEF SqlNull
  <2> QED
    BY <2>1
<1>2. \A s \in Seq(Nat) : s # SqlNull
  <2> SUFFICES ASSUME SqlNull \in Seq(Nat) PROVE FALSE
    OBVIOUS
  <2>1. SqlNull[1] = -1 /\ 1 \in 1..Len(SqlNull)
    BY DEF SqlNull
  <2>2. SqlNull[1] \in Nat
    BY <2>1
  <2> QED
    BY <2>1, <2>2
<1>3. \A d \in Dates : d # SqlNull
  <2> TAKE d \in Dates
  <2>1. d[1] \in Nat
    BY ReadingAssumption
  <2>2. SqlNull[1] = -1
    BY DEF SqlNull
  <2> QED
    BY <2>1, <2>2
<1> QED
  BY <1>1, <1>2, <1>3

\* The fields of a column, and of an integer column.
Of(f, d, types, flags, values) ==
    /\ f.driver = d /\ f.type \in types /\ f.flag \in flags /\ f.kind = "field"
    /\ f.value = SqlNull \/ f.value \in values
OfSigned(f, d, flag, bytes) ==
    /\ f.driver = d /\ f.type \in DOMAIN bytes /\ f.flag = flag /\ f.kind = "field"
    /\ f.value = SqlNull \/ \E n \in Int : f.value = <<n, 0>> /\ Fits(n, bytes[f.type])
OfUnsigned(f, d, flag, bytes) ==
    /\ f.driver = d /\ f.type \in DOMAIN bytes /\ f.flag = flag /\ f.kind = "field"
    /\ f.value = SqlNull \/ \E n \in Int : f.value = <<n, 0>> /\ FitsUnsigned(n, bytes[f.type])

\* What is known of a field of a set of columns,
LEMMA ColumnIn ==
    ASSUME NEW d, NEW types, NEW flags, NEW values, NEW f \in In(d, types, flags, values)
    PROVE  Of(f, d, types, flags, values)
BY DEF In, Of

\* of signed integers,
LEMMA ColumnSigned ==
    ASSUME NEW d, NEW flag, NEW bytes, NEW f \in SignedIn(d, flag, bytes)
    PROVE  OfSigned(f, d, flag, bytes)
<1>1. f \in In(d, DOMAIN bytes, {flag}, Whole) /\ (f.value # SqlNull => Fits(f.value[1], bytes[f.type]))
  BY DEF SignedIn
<1>2. /\ f.driver = d /\ f.type \in DOMAIN bytes /\ f.flag \in {flag} /\ f.kind = "field"
      /\ f.value = SqlNull \/ f.value \in Whole
  BY <1>1, ColumnIn DEF Of
<1>3. ASSUME f.value \in Whole PROVE \E n \in Int : f.value = <<n, 0>> /\ Fits(n, bytes[f.type])
  <2>1. PICK n \in Int : f.value = <<n, 0>>
    BY <1>3, ReadingAssumption DEF Whole
  <2>2. f.value # SqlNull /\ f.value[1] = n
    BY <2>1, NoNull
  <2> QED
    BY <1>1, <2>1, <2>2
<1> QED
  BY <1>2, <1>3 DEF OfSigned

\* and of unsigned ones.
LEMMA ColumnUnsigned ==
    ASSUME NEW d, NEW flag, NEW bytes, NEW f \in UnsignedIn(d, flag, bytes)
    PROVE  OfUnsigned(f, d, flag, bytes)
<1>1. f \in In(d, DOMAIN bytes, {flag}, Whole) /\ (f.value # SqlNull => FitsUnsigned(f.value[1], bytes[f.type]))
  BY DEF UnsignedIn
<1>2. /\ f.driver = d /\ f.type \in DOMAIN bytes /\ f.flag \in {flag} /\ f.kind = "field"
      /\ f.value = SqlNull \/ f.value \in Whole
  BY <1>1, ColumnIn DEF Of
<1>3. ASSUME f.value \in Whole PROVE \E n \in Int : f.value = <<n, 0>> /\ FitsUnsigned(n, bytes[f.type])
  <2>1. PICK n \in Int : f.value = <<n, 0>>
    BY <1>3, ReadingAssumption DEF Whole
  <2>2. f.value # SqlNull /\ f.value[1] = n
    BY <2>1, NoNull
  <2> QED
    BY <1>1, <2>1, <2>2
<1> QED
  BY <1>2, <1>3 DEF OfUnsigned

\* What there is to show for NULL, and for a value.
LEMMA NullBack ==
    ASSUME NEW f, NEW a, NEW field, NEW option, f.value = SqlNull,
           field = IF f.driver \in {"sqlite", "sqlite3"} THEN Unset ELSE NullField
    PROVE  ReadsBack(f, Row(a, field, option))
BY DEF ReadsBack, Row, NullField, Unset, Field

\* A value is read back when the getter finds it in the field.
LEMMA ValueBack ==
    ASSUME NEW f, NEW a, NEW field, NEW option, NEW v, f.value # SqlNull, f.driver # "firebird", ~field.null,
           ~Lost(f, Row(a, field, option)) => v \in dbi_get(Getter(f, Row(a, field, option)), field),
           v \in Expected(f, Row(a, field, option))
    PROVE  ReadsBack(f, Row(a, field, option))
<1>1. Row(a, field, option).field = field
  BY DEF Row
<1> QED
  BY <1>1 DEF ReadsBack

\* The msql driver goes on behind NULL, with the flag set.
LEMMA FlagBack ==
    ASSUME NEW f, NEW a, NEW field, NEW option, f.value = SqlNull, f.driver \notin {"sqlite", "sqlite3"}, field.null = TRUE
    PROVE  ReadsBack(f, Row(a, field, option))
BY DEF ReadsBack, Row

-----------------------------------------------------------------------------
(* Fields: numbers, dates and times that arrive as text *)

TextDrivers == {"mysql", "pgsql", "sqlite3", "sqlite", "msql"}

\* The announced type a has room for the value of the field f.
SignedFit(f, a) == \E b \in Sizes, n \in Int : a = SInt(b) /\ f.value = <<n, 0>> /\ Fits(n, Width(b))
UnsignedFit(f, a) ==
    \E b \in Sizes, n \in Int :
       /\ f.value = <<n, 0>> /\ FitsUnsigned(n, Width(b))
       /\ \/ a = UInt(b)
          \/ a = SInt(b) /\ f.driver \in {"sqlite", "sqlite3"}
       /\ n = Saturated(n) \/ f.driver # "pgsql"
OtherFit(f, a) ==
    \/ \E b \in {4, 8} : a = Dec(b)
    \/ a = Time(1) /\ \E d : f.value = <<d, 0>>
    \/ a = Time(2) /\ \E t : f.value = <<0, t>>
    \/ a = Time(3) /\ \E d, t : f.value = <<d, t>>

\* The attribute that makes an integer unsigned.
LEMMA MadeUnsigned ==
    ASSUME NEW b, NEW u \in BOOLEAN, NEW w \in BOOLEAN
    PROVE  [Announced("INTEGER", b, w) EXCEPT !.unsigned = u] = IF u THEN UInt(b) ELSE SInt(b)
<1>1. [Announced("INTEGER", b, w) EXCEPT !.unsigned = u] = [type |-> "INTEGER", size |-> b, unsigned |-> u]
  BY DEF Announced
<1>2. CASE u = TRUE
  BY <1>1, <1>2 DEF UInt, Announced
<1>3. CASE u = FALSE
  BY <1>1, <1>3 DEF SInt, Announced
<1> QED
  BY <1>2, <1>3

\* Types of libdbi that are not strings.
LEMMA ScalarTypes ==
    /\ \A b : SInt(b).type = "INTEGER" /\ SInt(b).size = b /\ SInt(b) # Bin
              /\ UInt(b).type = "INTEGER" /\ UInt(b).size = b /\ UInt(b) # Bin
              /\ Dec(b).type = "DECIMAL" /\ Dec(b).size = b /\ Dec(b) # Bin
              /\ Time(b).type = "DATETIME" /\ Time(b).size = b /\ Time(b) # Bin
    /\ Bin.type = "BINARY" /\ Str.type = "STRING" /\ Str # Bin
    /\ {"BINARY", "STRING"} \cap Scalars = {}
BY DEF SInt, UInt, Dec, Time, Bin, Str, Announced, Scalars

\* The fields of the text protocols have a value.
LEMMA ScalarFields ==
    ASSUME NEW a, NEW raw, a.type \in Scalars
    PROVE  /\ ~Scalar(a, raw).null
           /\ a.type = "INTEGER" => Scalar(a, raw) = IntField(a, raw)
           /\ a.type = "DECIMAL" => Scalar(a, raw) = DecField(a, raw)
           /\ a.type = "DATETIME" => Scalar(a, raw) = TimeField(a, raw)
<1>1. ~IntField(a, raw).null /\ ~DecField(a, raw).null /\ ~TimeField(a, raw).null
  BY DEF IntField, DecField, TimeField, Field
<1> QED
  BY <1>1 DEF Scalar, Scalars

\* Signed integers that fit the member they are stored in,
LEMMA SignedBack ==
    ASSUME NEW f, NEW a, NEW option, f.driver \in TextDrivers, SignedFit(f, a)
    PROVE  ReadsBack(f, Row(a, Scalar(a, f.value), option))
<1>1. PICK b \in Sizes, n \in Int : a = SInt(b) /\ f.value = <<n, 0>> /\ Fits(n, Width(b))
  BY DEF SignedFit
<1>2. PICK row : row = Row(a, Scalar(a, f.value), option)
  OBVIOUS
<1>3. row.a = a
  BY <1>2 DEF Row
<1>4. f.value # SqlNull /\ f.driver # "firebird" /\ f.driver # "oracle" /\ f.value[1] = n
  BY <1>1, NoNull DEF TextDrivers
<1>5. Scalar(a, f.value) = IntField(a, <<n, 0>>) /\ ~Scalar(a, f.value).null /\ a.size = b /\ a # Bin /\ a.type = "INTEGER"
  BY <1>1, ScalarTypes, ScalarFields DEF Scalars
<1>6. f.value \in Expected(f, row)
  BY <1>3, <1>4, <1>5 DEF Expected
<1>7. f.value \in dbi_get(Getter(f, row), Scalar(a, f.value))
  <2>1. CASE f.driver \in {"sqlite", "sqlite3"}
    <3>1. Getter(f, row) = IF n >= 0 THEN UInt(b) ELSE SInt(b)
      <4>1. Getter(f, row) = [Announced("INTEGER", b, FALSE) EXCEPT !.unsigned = n >= 0]
        BY <1>1, <1>3, <1>4, <1>5, <2>1 DEF Getter, SInt
      <4>2. (n >= 0) \in BOOLEAN /\ FALSE \in BOOLEAN
        OBVIOUS
      <4> QED
        BY <4>1, <4>2, MadeUnsigned, Zenon
    <3>2. CASE n >= 0
      <4>1. Getter(f, row) = UInt(b)
        BY <3>1, <3>2
      <4>2. Width(b) \in Sizes
        BY Widths
      <4>3. FitsUnsigned(n, Width(b))
        <5>1. PICK p \in Nat, h \in Nat : p = Pow(Width(b)) /\ h = Pow(Width(b)) \div 2 /\ p = 2 * h
          BY <4>2, PowFacts DEF Sizes
        <5> QED
          BY <1>1, <3>2, <5>1 DEF Fits, FitsUnsigned
      <4>4. n = Saturated(n)
        BY <1>1, <4>2, RangesInEight, SaturatedKeeps DEF Sizes
      <4> QED
        BY <1>1, <1>5, <4>1, <4>3, <4>4, IntRead
    <3>3. CASE ~(n >= 0)
      <4>1. Getter(f, row) = SInt(b)
        BY <3>1, <3>3
      <4> QED
        BY <1>1, <1>5, <4>1, IntRead
    <3> QED
      BY <3>2, <3>3
  <2>2. CASE f.driver \notin {"sqlite", "sqlite3"}
    <3>1. Getter(f, row) = SInt(b)
      BY <1>1, <1>3, <2>2 DEF Getter
    <3> QED
      BY <1>1, <1>5, <3>1, IntRead
  <2> QED
    BY <2>1, <2>2
<1> QED
  BY <1>2, <1>4, <1>5, <1>6, <1>7, ValueBack

\* unsigned ones,
LEMMA UnsignedBack ==
    ASSUME NEW f, NEW a, NEW option, f.driver \in TextDrivers, UnsignedFit(f, a)
    PROVE  ReadsBack(f, Row(a, Scalar(a, f.value), option))
<1>1. PICK b \in Sizes, n \in Int :
       /\ f.value = <<n, 0>> /\ FitsUnsigned(n, Width(b))
       /\ \/ a = UInt(b)
          \/ a = SInt(b) /\ f.driver \in {"sqlite", "sqlite3"}
       /\ n = Saturated(n) \/ f.driver # "pgsql"
  BY DEF UnsignedFit
<1>2. PICK row : row = Row(a, Scalar(a, f.value), option)
  OBVIOUS
<1>3. row.a = a
  BY <1>2 DEF Row
<1>4. f.value # SqlNull /\ f.driver # "firebird" /\ f.driver # "oracle" /\ f.value[1] = n
  BY <1>1, NoNull DEF TextDrivers
<1>5. Scalar(a, f.value) = IntField(a, <<n, 0>>) /\ ~Scalar(a, f.value).null /\ a.size = b /\ a # Bin /\ a.type = "INTEGER"
  BY <1>1, ScalarTypes, ScalarFields DEF Scalars
<1>6. f.value \in Expected(f, row)
  BY <1>3, <1>4, <1>5 DEF Expected
<1>7. ~Lost(f, row) => n = Saturated(n)
  BY <1>1, <1>3, <1>4, <1>5 DEF Lost, TextDrivers
<1>8. Getter(f, row) = UInt(b)
  <2>1. n >= 0
    BY <1>1 DEF FitsUnsigned
  <2>2. CASE f.driver \in {"sqlite", "sqlite3"}
    <3>1. PICK w \in BOOLEAN : a = Announced("INTEGER", b, w)
      BY <1>1 DEF SInt, UInt
    <3>2. Getter(f, row) = [Announced("INTEGER", b, w) EXCEPT !.unsigned = n >= 0]
      BY <1>3, <1>4, <1>5, <2>2, <3>1 DEF Getter
    <3>3. (n >= 0) \in BOOLEAN
      OBVIOUS
    <3>4. Getter(f, row) = IF n >= 0 THEN UInt(b) ELSE SInt(b)
      BY <3>2, <3>3, MadeUnsigned, Zenon
    <3> QED
      BY <2>1, <3>4
  <2>3. CASE f.driver \notin {"sqlite", "sqlite3"}
    BY <1>1, <1>3, <2>3 DEF Getter
  <2> QED
    BY <2>2, <2>3
<1>9. ~Lost(f, row) => f.value \in dbi_get(Getter(f, row), Scalar(a, f.value))
  BY <1>1, <1>5, <1>7, <1>8, IntRead
<1> QED
  BY <1>2, <1>4, <1>5, <1>6, <1>9, ValueBack

\* and decimals, dates and times, sent as text.
LEMMA OtherBack ==
    ASSUME NEW f, NEW a, NEW option, f.driver \in TextDrivers, f.value # SqlNull, OtherFit(f, a)
    PROVE  ReadsBack(f, Row(a, Scalar(a, f.value), option))
<1>1. PICK row : row = Row(a, Scalar(a, f.value), option)
  OBVIOUS
<1>2. row.a = a
  BY <1>1 DEF Row
<1>3. f.driver # "firebird" /\ f.driver # "oracle"
  BY DEF TextDrivers
<1>4. a # Bin /\ a.type \in {"DECIMAL", "DATETIME"}
  BY ScalarTypes DEF OtherFit
<1>5. ~Scalar(a, f.value).null
  BY <1>4, ScalarFields DEF Scalars
<1>6. f.value \in Expected(f, row)
  BY <1>2, <1>3, <1>4 DEF Expected
<1>7. Getter(f, row) = a
  BY <1>2, <1>4 DEF Getter
<1>8. f.value \in dbi_get(a, Scalar(a, f.value))
  <2>1. CASE \E b \in {4, 8} : a = Dec(b)
    <3>1. PICK b \in {4, 8} : a = Dec(b)
      BY <2>1
    <3>2. Scalar(a, f.value) = Field(DecMember(b), f.value, 0)
      BY <3>1, ScalarTypes, ScalarFields DEF DecField, Scalars
    <3> QED
      BY <3>1, <3>2, DecRead
  <2>2. CASE ~\E b \in {4, 8} : a = Dec(b)
    <3>1. a.type = "DATETIME"
      BY <2>2, ScalarTypes DEF OtherFit
    <3>2. Scalar(a, f.value) = TimeField(a, f.value)
      BY <3>1, ScalarFields DEF Scalars
    <3>3. CASE a = Time(1) /\ \E d : f.value = <<d, 0>>
      <4> PICK d : f.value = <<d, 0>>
        BY <3>3
      <4> QED
        BY <3>2, <3>3, TimeRead
    <3>4. CASE a = Time(2) /\ \E t : f.value = <<0, t>>
      <4> PICK t : f.value = <<0, t>>
        BY <3>4
      <4> QED
        BY <3>2, <3>4, TimeRead
    <3>5. CASE a = Time(3) /\ \E d, t : f.value = <<d, t>>
      <4> PICK d, t : f.value = <<d, t>>
        BY <3>5
      <4> QED
        BY <3>2, <3>5, TimeRead
    <3> QED
      BY <2>2, <3>3, <3>4, <3>5 DEF OtherFit
  <2> QED
    BY <2>1, <2>2
<1> QED
  BY <1>1, <1>3, <1>5, <1>6, <1>7, <1>8, ValueBack

\* Every number, date and time that fits its announced type.
LEMMA ScalarBack ==
    ASSUME NEW f, NEW a, NEW option, f.driver \in TextDrivers, f.value # SqlNull,
           SignedFit(f, a) \/ UnsignedFit(f, a) \/ OtherFit(f, a)
    PROVE  ReadsBack(f, Row(a, Scalar(a, f.value), option)) /\ a.type \in Scalars
<1>1. a.type \in Scalars
  BY ScalarTypes DEF SignedFit, UnsignedFit, OtherFit, Scalars
<1> QED
  BY <1>1, SignedBack, UnsignedBack, OtherBack

-----------------------------------------------------------------------------
(* Fields: texts and bytes *)

\* A text is read up to its terminator.
LEMMA StringBack ==
    ASSUME NEW f, NEW option, NEW s, NEW k, f.driver \notin {"firebird", "oracle"},
           f.value \in Seq(Nat \ {0}), CString(s) = f.value
    PROVE  ReadsBack(f, Row(Str, Field("d_string", s, k), option))
<1>1. PICK row : row = Row(Str, Field("d_string", s, k), option)
  OBVIOUS
<1>2. row.a = Str /\ Str # Bin /\ Str.type # "INTEGER"
  BY <1>1, ScalarTypes DEF Row
<1>3. Getter(f, row) = Str
  BY <1>2 DEF Getter
<1>4. f.value \in Expected(f, row)
  BY <1>2 DEF Expected
<1>5. f.value # SqlNull
  <2>1. f.value \in Seq(Nat)
    OBVIOUS
  <2> QED
    BY <2>1, NoNull
<1>6. ~Field("d_string", s, k).null
  BY DEF Field
<1>7. f.value \in dbi_get(Str, Field("d_string", s, k))
  BY StrRead
<1> QED
  BY <1>1, <1>3, <1>4, <1>5, <1>6, <1>7, ValueBack

\* Of binary data the getter reads as many bytes as the field's size says.
LEMMA BytesBack ==
    ASSUME NEW f, NEW option, NEW s \in Seq(Nat), NEW k \in 0..Len(s), NEW v, f.driver \notin {"firebird", "oracle"},
           f.value \in Seq(Nat), v = SubSeq(s, 1, k),
           v = IF f.driver = "mysql" /\ option THEN Append(f.value, 0) ELSE f.value
    PROVE  ReadsBack(f, Row(Bin, Field("d_string", s, k), option))
<1>1. PICK row : row = Row(Bin, Field("d_string", s, k), option)
  OBVIOUS
<1>2. row.a = Bin /\ Bin.type # "INTEGER" /\ row.option = option
  BY <1>1, ScalarTypes DEF Row
<1>3. Getter(f, row) = Bin
  BY <1>2 DEF Getter
<1>4. v \in Expected(f, row)
  BY <1>2 DEF Expected
<1>5. f.value # SqlNull
  BY NoNull
<1>6. ~Field("d_string", s, k).null
  BY DEF Field
<1>7. v \in dbi_get(Bin, Field("d_string", s, k))
  BY BinRead
<1> QED
  BY <1>1, <1>3, <1>4, <1>5, <1>6, <1>7, ValueBack

\* Texts hold no NUL.
LEMMA TextIsCString ==
    ASSUME NEW v \in Seq(Nat \ {0})
    PROVE  CString(v) = v /\ CString(Append(v, 0)) = v
<1>1. v \in Seq(Nat) /\ \A i \in 1..Len(v) : v[i] # 0
  OBVIOUS
<1>2. Append(v, 0) = v \o <<0>>
  OBVIOUS
<1> QED
  BY <1>1, <1>2, CStringWhole, CStringTerminated

\* Values of columns by their kind.
LEMMA ValueForms ==
    /\ \A v \in Decimals : v # SqlNull
    /\ \A v \in DateOnly : v # SqlNull /\ \E d : v = <<d, 0>>
    /\ \A v \in TimeOnly : v # SqlNull /\ \E t : v = <<0, t>>
    /\ \A v \in Moments : v # SqlNull /\ \E d, t : v = <<d, t>>
    /\ \A v \in Texts \cup NumberTexts : v # SqlNull /\ v \in Seq(Nat \ {0})
    /\ \A v \in Bytes : v # SqlNull /\ v \in Seq(Nat)
<1>1. \A v \in Decimals : v # SqlNull
  <2> TAKE v \in Decimals
  <2>1. PICK n, d \in Int : v = <<n, d>>
    BY ReadingAssumption
  <2> QED
    BY <2>1, NoNull
<1>2. \A v \in Moments : v # SqlNull /\ \E d, t : v = <<d, t>>
  <2> TAKE v \in Moments
  <2>1. PICK d, t \in Nat : v = <<d, t>>
    BY ReadingAssumption
  <2> QED
    BY <2>1, NoNull
<1>3. \A v \in DateOnly : v # SqlNull /\ \E d : v = <<d, 0>>
  BY NoNull DEF DateOnly
<1>4. \A v \in TimeOnly : v # SqlNull /\ \E t : v = <<0, t>>
  BY NoNull DEF TimeOnly
<1>5. \A v \in Texts \cup NumberTexts : v # SqlNull /\ v \in Seq(Nat \ {0})
  <2> TAKE v \in Texts \cup NumberTexts
  <2>1. v \in Seq(Nat \ {0})
    BY ReadingAssumption DEF NumberTexts
  <2>2. v \in Seq(Nat)
    BY <2>1
  <2> QED
    BY <2>1, <2>2, NoNull
<1>6. \A v \in Bytes : v # SqlNull /\ v \in Seq(Nat)
  BY ReadingAssumption, NoNull
<1> QED
  BY <1>1, <1>2, <1>3, <1>4, <1>5, <1>6

\* The announced type suits the value.
Suits(f, a) ==
    \/ SignedFit(f, a) \/ UnsignedFit(f, a) \/ OtherFit(f, a)
    \/ a = Str /\ f.value \in Seq(Nat \ {0})
    \/ a = Bin /\ f.value \in Seq(Nat)

-----------------------------------------------------------------------------
(* Fields: mysql *)

Column(f) == [type |-> f.type, flag |-> f.flag]

\* What _get_field_info() announces.
LEMMA MysqlTypes ==
    ASSUME NEW f
    PROVE  LET a == mysql_field_info(Column(f)) IN
           /\ f.flag = FALSE /\ f.type \in DOMAIN mysql_sizes => a = SInt(mysql_sizes[f.type])
           /\ f.flag = TRUE /\ f.type \in DOMAIN mysql_sizes => a = UInt(mysql_sizes[f.type])
           /\ f.flag = FALSE /\ f.type = "YEAR" => a = UInt(2)
           /\ f.flag = FALSE /\ f.type \in {"FLOAT", "DOUBLE"} => \E b \in {4, 8} : a = Dec(b)
           /\ f.flag = FALSE /\ f.type = "DATE" => a = Time(1)
           /\ f.flag = FALSE /\ f.type = "TIME" => a = Time(2)
           /\ f.flag = FALSE /\ f.type \in {"DATETIME", "TIMESTAMP"} => a = Time(3)
           /\ f.flag = FALSE /\ f.type \in {"STRING", "VAR_STRING", "BLOB", "ENUM", "SET", "DECIMAL", "NEWDECIMAL"} => a = Str
           /\ f.flag = TRUE /\ f.type \in {"STRING", "BLOB"} => a = Bin
<1> DEFINE t == translate_mysql_type(Column(f))
           a == mysql_field_info(Column(f))
<1>1. Column(f).type = f.type /\ Column(f).flag = f.flag
  BY DEF Column
<1>2. a = IF t.type = "INTEGER" /\ f.flag THEN [t EXCEPT !.unsigned = TRUE] ELSE t
  BY <1>1 DEF mysql_field_info
<1>3. /\ f.type \in DOMAIN mysql_sizes => t = SInt(mysql_sizes[f.type])
      /\ f.type = "YEAR" => t = UInt(2)
      /\ f.type \in {"FLOAT", "DOUBLE"} => \E b \in {4, 8} : t = Dec(b)
      /\ f.type = "DATE" => t = Time(1)
      /\ f.type = "TIME" => t = Time(2)
      /\ f.type \in {"DATETIME", "TIMESTAMP"} => t = Time(3)
      /\ f.type \in {"ENUM", "SET", "DECIMAL", "NEWDECIMAL"} => t = Str
      /\ f.type \in {"STRING", "VAR_STRING", "BLOB"} => t = IF f.flag THEN Bin ELSE Str
  BY <1>1 DEF translate_mysql_type, mysql_types, mysql_sizes
<1> HIDE DEF t, a
<1>4. ASSUME f.flag = TRUE, f.type \in DOMAIN mysql_sizes PROVE a = UInt(mysql_sizes[f.type])
  <2>0. t = SInt(mysql_sizes[f.type])
    BY <1>3, <1>4
  <2>1. t = Announced("INTEGER", mysql_sizes[f.type], FALSE) /\ t.type = "INTEGER"
    <3>1. t = Announced("INTEGER", mysql_sizes[f.type], FALSE)
      BY <2>0, Zenon DEF SInt
    <3> QED
      BY <2>0, <3>1, ScalarTypes, ZenonT(30)
  <2>2. a = [t EXCEPT !.unsigned = TRUE]
    BY <1>2, <1>4, <2>1
  <2>3. TRUE \in BOOLEAN /\ FALSE \in BOOLEAN
    OBVIOUS
  <2>4. [t EXCEPT !.unsigned = TRUE] = UInt(mysql_sizes[f.type])
    BY <2>1, <2>3, MadeUnsigned, Zenon
  <2> QED
    BY <2>2, <2>4
<1>5. f.flag = FALSE => a = t
  BY <1>2
<1>6. f.flag = TRUE /\ f.type \in {"STRING", "BLOB"} => a = Bin
  BY <1>2, <1>3, ScalarTypes
<1> QED
  BY <1>3, <1>4, <1>5, <1>6 DEF a

\* The type that the mysql driver announces suits every value of its column.
LEMMA MysqlSuits ==
    ASSUME NEW f \in mysql_fields, NEW a, a = mysql_field_info(Column(f))
    PROVE  f.driver = "mysql" /\ (f.value = SqlNull \/ Suits(f, a))
<1> DEFINE Good == f.driver = "mysql" /\ (f.value = SqlNull \/ Suits(f, a))
<1> HIDE DEF Good
<1>1. ASSUME f \in SignedIn("mysql", FALSE, mysql_sizes) PROVE Good
  <2>1. OfSigned(f, "mysql", FALSE, mysql_sizes)
    BY <1>1, ColumnSigned, Zenon
  <2>2. /\ f.driver = "mysql" /\ f.type \in DOMAIN mysql_sizes /\ f.flag = FALSE
        /\ f.value = SqlNull \/ \E n \in Int : f.value = <<n, 0>> /\ Fits(n, mysql_sizes[f.type])
    BY <2>1, Zenon DEF OfSigned
  <2>3. PICK b \in Sizes : b = mysql_sizes[f.type] /\ a = SInt(b)
    <3>1. mysql_sizes[f.type] \in Sizes
      BY <2>2 DEF Sizes, mysql_sizes
    <3>2. a = SInt(mysql_sizes[f.type])
      BY <2>2, MysqlTypes
    <3> QED
      BY <3>1, <3>2
  <2> QED
    BY <2>2, <2>3, Widths DEF SignedFit, Suits, Good
<1>2. ASSUME f \in UnsignedIn("mysql", TRUE, mysql_sizes) PROVE Good
  <2>1. OfUnsigned(f, "mysql", TRUE, mysql_sizes)
    BY <1>2, ColumnUnsigned, Zenon
  <2>2. /\ f.driver = "mysql" /\ f.type \in DOMAIN mysql_sizes /\ f.flag = TRUE
        /\ f.value = SqlNull \/ \E n \in Int : f.value = <<n, 0>> /\ FitsUnsigned(n, mysql_sizes[f.type])
    BY <2>1, Zenon DEF OfUnsigned
  <2>3. PICK b \in Sizes : b = mysql_sizes[f.type] /\ a = UInt(b)
    <3>1. mysql_sizes[f.type] \in Sizes
      BY <2>2 DEF Sizes, mysql_sizes
    <3>2. a = UInt(mysql_sizes[f.type])
      BY <2>2, MysqlTypes
    <3> QED
      BY <3>1, <3>2
  <2> QED
    BY <2>2, <2>3, Widths DEF UnsignedFit, Suits, Good
<1>3. ASSUME f \in UnsignedIn("mysql", FALSE, [YEAR |-> 2]) PROVE Good
  <2>1. OfUnsigned(f, "mysql", FALSE, [YEAR |-> 2])
    BY <1>3, ColumnUnsigned, Zenon
  <2>2. /\ f.driver = "mysql" /\ f.type \in DOMAIN [YEAR |-> 2] /\ f.flag = FALSE
        /\ f.value = SqlNull \/ \E n \in Int : f.value = <<n, 0>> /\ FitsUnsigned(n, [YEAR |-> 2][f.type])
    BY <2>1, Zenon DEF OfUnsigned
  <2>3. PICK b \in Sizes : b = [YEAR |-> 2][f.type] /\ a = UInt(b)
    <3>1. f.type = "YEAR" /\ [YEAR |-> 2][f.type] = 2
      BY <2>2
    <3> QED
      BY <2>2, <3>1, MysqlTypes DEF Sizes
  <2> QED
    BY <2>2, <2>3, Widths DEF UnsignedFit, Suits, Good
<1>4. ASSUME f \in In("mysql", {"FLOAT", "DOUBLE"}, {FALSE}, Decimals) PROVE Good
  <2>1. Of(f, "mysql", {"FLOAT", "DOUBLE"}, {FALSE}, Decimals)
    BY <1>4, ColumnIn, Zenon
  <2>2. f.driver = "mysql" /\ f.type \in {"FLOAT", "DOUBLE"} /\ f.flag \in {FALSE} /\ (f.value = SqlNull \/ f.value \in Decimals)
    BY <2>1, Zenon DEF Of
  <2>3. \E b \in {4, 8} : a = Dec(b)
    BY <2>2, MysqlTypes
  <2> QED
    BY <2>2, <2>3, ValueForms DEF OtherFit, Suits, Good
<1>5. ASSUME f \in In("mysql", {"DATE"}, {FALSE}, DateOnly) PROVE Good
  <2>1. Of(f, "mysql", {"DATE"}, {FALSE}, DateOnly)
    BY <1>5, ColumnIn, Zenon
  <2>2. f.driver = "mysql" /\ f.type \in {"DATE"} /\ f.flag \in {FALSE} /\ (f.value = SqlNull \/ f.value \in DateOnly)
    BY <2>1, Zenon DEF Of
  <2>3. a = Time(1)
    BY <2>2, MysqlTypes
  <2> QED
    BY <2>2, <2>3, ValueForms DEF OtherFit, Suits, Good
<1>6. ASSUME f \in In("mysql", {"TIME"}, {FALSE}, TimeOnly) PROVE Good
  <2>1. Of(f, "mysql", {"TIME"}, {FALSE}, TimeOnly)
    BY <1>6, ColumnIn, Zenon
  <2>2. f.driver = "mysql" /\ f.type \in {"TIME"} /\ f.flag \in {FALSE} /\ (f.value = SqlNull \/ f.value \in TimeOnly)
    BY <2>1, Zenon DEF Of
  <2>3. a = Time(2)
    BY <2>2, MysqlTypes
  <2> QED
    BY <2>2, <2>3, ValueForms DEF OtherFit, Suits, Good
<1>7. ASSUME f \in In("mysql", {"DATETIME", "TIMESTAMP"}, {FALSE}, Moments) PROVE Good
  <2>1. Of(f, "mysql", {"DATETIME", "TIMESTAMP"}, {FALSE}, Moments)
    BY <1>7, ColumnIn, Zenon
  <2>2. f.driver = "mysql" /\ f.type \in {"DATETIME", "TIMESTAMP"} /\ f.flag \in {FALSE} /\ (f.value = SqlNull \/ f.value \in Moments)
    BY <2>1, Zenon DEF Of
  <2>3. a = Time(3)
    BY <2>2, MysqlTypes
  <2> QED
    BY <2>2, <2>3, ValueForms DEF OtherFit, Suits, Good
<1>8. ASSUME f \in In("mysql", {"STRING", "VAR_STRING", "BLOB", "ENUM", "SET"}, {FALSE}, Texts) PROVE Good
  <2>1. Of(f, "mysql", {"STRING", "VAR_STRING", "BLOB", "ENUM", "SET"}, {FALSE}, Texts)
    BY <1>8, ColumnIn, Zenon
  <2>2. f.driver = "mysql" /\ f.type \in {"STRING", "VAR_STRING", "BLOB", "ENUM", "SET"} /\ f.flag \in {FALSE} /\ (f.value = SqlNull \/ f.value \in Texts)
    BY <2>1, Zenon DEF Of
  <2>3. a = Str
    BY <2>2, MysqlTypes
  <2> QED
    BY <2>2, <2>3, ValueForms DEF OtherFit, Suits, Good
<1>9. ASSUME f \in In("mysql", {"DECIMAL", "NEWDECIMAL"}, {FALSE}, NumberTexts) PROVE Good
  <2>1. Of(f, "mysql", {"DECIMAL", "NEWDECIMAL"}, {FALSE}, NumberTexts)
    BY <1>9, ColumnIn, Zenon
  <2>2. f.driver = "mysql" /\ f.type \in {"DECIMAL", "NEWDECIMAL"} /\ f.flag \in {FALSE} /\ (f.value = SqlNull \/ f.value \in NumberTexts)
    BY <2>1, Zenon DEF Of
  <2>3. a = Str
    BY <2>2, MysqlTypes
  <2> QED
    BY <2>2, <2>3, ValueForms DEF OtherFit, Suits, Good
<1>10. ASSUME f \in In("mysql", {"STRING", "BLOB"}, {TRUE}, Bytes) PROVE Good
  <2>1. Of(f, "mysql", {"STRING", "BLOB"}, {TRUE}, Bytes)
    BY <1>10, ColumnIn, Zenon
  <2>2. f.driver = "mysql" /\ f.type \in {"STRING", "BLOB"} /\ f.flag \in {TRUE} /\ (f.value = SqlNull \/ f.value \in Bytes)
    BY <2>1, Zenon DEF Of
  <2>3. a = Bin
    BY <2>2, MysqlTypes
  <2> QED
    BY <2>2, <2>3, ValueForms DEF OtherFit, Suits, Good
<1> QED
  BY <1>1, <1>2, <1>3, <1>4, <1>5, <1>6, <1>7, <1>8, <1>9, <1>10 DEF mysql_fields, Good

\* The mysql driver reads every value and NULL back.
LEMMA MysqlBack ==
    ASSUME NEW f \in mysql_fields, NEW option \in BOOLEAN, NEW a, a = mysql_field_info(Column(f))
    PROVE  ReadsBack(f, Row(a, mysql_row_data(a, f.value, option), option))
<1>1. f.driver = "mysql" /\ (f.value = SqlNull \/ Suits(f, a))
  BY MysqlSuits
<1>2. CASE f.value = SqlNull
  <2>1. mysql_row_data(a, f.value, option) = NullField
    BY <1>2 DEF mysql_row_data
  <2> QED
    BY <1>1, <1>2, <2>1, NullBack
<1>3. CASE f.value # SqlNull /\ (SignedFit(f, a) \/ UnsignedFit(f, a) \/ OtherFit(f, a))
  <2>1. ReadsBack(f, Row(a, Scalar(a, f.value), option)) /\ a.type \in Scalars
    BY <1>1, <1>3, ScalarBack DEF TextDrivers
  <2> QED
    BY <1>3, <2>1 DEF mysql_row_data
<1>4. CASE f.value # SqlNull /\ a = Str /\ f.value \in Seq(Nat \ {0})
  <2>1. mysql_row_data(a, f.value, option) = Field("d_string", f.value, Len(f.value))
    BY <1>4, ScalarTypes, TextIsCString DEF mysql_row_data
  <2> QED
    BY <1>1, <1>4, <2>1, TextIsCString, StringBack
<1>5. CASE f.value # SqlNull /\ a = Bin /\ f.value \in Seq(Nat)
  <2> DEFINE s == Append(f.value, 0)
             k == Len(f.value) + IF option THEN 1 ELSE 0
  <2>1. mysql_row_data(a, f.value, option) = Field("d_string", s, k)
    BY <1>5, ScalarTypes DEF mysql_row_data
  <2>2. s \in Seq(Nat) /\ k \in 0..Len(s) /\ SubSeq(s, 1, k) = IF option THEN s ELSE f.value
    <3>1. CASE option = TRUE
      BY <1>5, <3>1
    <3>2. CASE option = FALSE
      BY <1>5, <3>2
    <3> QED
      BY <3>1, <3>2
  <2>3. PICK v : v = SubSeq(s, 1, k)
    OBVIOUS
  <2>4. v = IF f.driver = "mysql" /\ option THEN Append(f.value, 0) ELSE f.value
    BY <1>1, <2>2, <2>3
  <2> HIDE DEF s, k
  <2>5. ReadsBack(f, Row(Bin, Field("d_string", s, k), option))
    BY <1>1, <1>5, <2>2, <2>3, <2>4, BytesBack
  <2> QED
    BY <1>5, <2>1, <2>5
<1> QED
  BY <1>1, <1>2, <1>3, <1>4, <1>5 DEF Suits

-----------------------------------------------------------------------------
(* Fields: pgsql, sqlite3, sqlite and msql *)

\* The types that _translate_postgresql_type() announces,
LEMMA PgsqlTypes ==
    ASSUME NEW f
    PROVE  LET a == pgsql_field_info(Column(f)) IN
           /\ f.type \in DOMAIN [INT2 |-> 2, INT4 |-> 4, INT8 |-> 8] => a = SInt([INT2 |-> 2, INT4 |-> 4, INT8 |-> 8][f.type])
           /\ f.type = "OID" => a = UInt(8)
           /\ f.type \in {"FLOAT4", "FLOAT8"} => \E b \in {4, 8} : a = Dec(b)
           /\ f.type = "DATE" => a = Time(1)
           /\ f.type \in {"TIME", "TIMETZ"} => a = Time(2)
           /\ f.type \in {"TIMESTAMP", "TIMESTAMPTZ"} => a = Time(3)
           /\ f.type \in {"TEXT", "VARCHAR", "NAME", "NUMERIC"} => a = Str
           /\ f.type = "BYTEA" => a = Bin
<1>1. Column(f).type = f.type
  BY DEF Column
<1> QED
  BY <1>1 DEF pgsql_field_info, translate_postgresql_type, pgsql_types

\* those of both SQLite drivers,
LEMMA SqliteTypes ==
    ASSUME NEW f
    PROVE  LET a == translate_sqlite3_type(Column(f)) IN
           /\ f.type \in DOMAIN mysql_sizes => a = SInt(mysql_sizes[f.type])
           /\ f.type \in {"FLOAT", "DOUBLE"} => \E b \in {4, 8} : a = Dec(b)
           /\ f.type = "DATE" => a = Time(1)
           /\ f.type = "TIME" => a = Time(2)
           /\ f.type = "TIMESTAMP" => a = Time(3)
           /\ f.type \in {"STRING", "DECIMAL"} => a = Str
           /\ f.type = "BLOB" => a = Bin
<1>1. Column(f).type = f.type
  BY DEF Column
<1> QED
  BY <1>1 DEF translate_sqlite3_type, sqlite_types, mysql_sizes

\* and those of _translate_msql_type().
LEMMA MsqlTypes ==
    ASSUME NEW f
    PROVE  LET a == msql_field_info(Column(f)) IN
           /\ f.type = "INT" => a = SInt(3)
           /\ f.type = "INT64" => a = SInt(8)
           /\ f.type \in {"INT8", "BYTE"} => a = SInt(1)
           /\ f.type = "INT16" => a = SInt(2)
           /\ f.type = "UINT" => a = UInt(3)
           /\ f.type = "UINT64" => a = UInt(8)
           /\ f.type = "UINT8" => a = UInt(1)
           /\ f.type = "UINT16" => a = UInt(2)
           /\ f.type = "REAL" => \E b \in {4, 8} : a = Dec(b)
           /\ f.type = "DATE" => a = Time(1)
           /\ f.type = "TIME" => a = Time(2)
           /\ f.type \in {"CHAR", "TEXT", "MONEY"} => a = Str
<1>1. Column(f).type = f.type
  BY DEF Column
<1> QED
  BY <1>1 DEF msql_field_info, translate_msql_type, msql_types

\* The type that the pgsql driver announces suits every value of its column.
LEMMA PgsqlSuits ==
    ASSUME NEW f \in pgsql_fields, NEW a, a = pgsql_field_info(Column(f))
    PROVE  f.driver = "pgsql" /\ (f.value = SqlNull \/ Suits(f, a))
<1> DEFINE Good == f.driver = "pgsql" /\ (f.value = SqlNull \/ Suits(f, a))
<1> HIDE DEF Good
<1>1. ASSUME f \in SignedIn("pgsql", FALSE, [INT2 |-> 2, INT4 |-> 4, INT8 |-> 8]) PROVE Good
  <2>1. OfSigned(f, "pgsql", FALSE, [INT2 |-> 2, INT4 |-> 4, INT8 |-> 8])
    BY <1>1, ColumnSigned, Zenon
  <2>2. /\ f.driver = "pgsql" /\ f.type \in DOMAIN [INT2 |-> 2, INT4 |-> 4, INT8 |-> 8] /\ f.flag = FALSE
        /\ f.value = SqlNull \/ \E n \in Int : f.value = <<n, 0>> /\ Fits(n, [INT2 |-> 2, INT4 |-> 4, INT8 |-> 8][f.type])
    BY <2>1, Zenon DEF OfSigned
  <2>3. PICK b \in Sizes : b = [INT2 |-> 2, INT4 |-> 4, INT8 |-> 8][f.type] /\ a = SInt(b)
    <3>1. [INT2 |-> 2, INT4 |-> 4, INT8 |-> 8][f.type] \in Sizes
      BY <2>2 DEF Sizes, mysql_sizes
    <3>2. a = SInt([INT2 |-> 2, INT4 |-> 4, INT8 |-> 8][f.type])
      BY <2>2, PgsqlTypes
    <3> QED
      BY <3>1, <3>2
  <2> QED
    BY <2>2, <2>3, Widths DEF SignedFit, Suits, Good
<1>2. ASSUME f \in UnsignedIn("pgsql", FALSE, [OID |-> 4]) PROVE Good
  <2>1. OfUnsigned(f, "pgsql", FALSE, [OID |-> 4])
    BY <1>2, ColumnUnsigned, Zenon
  <2>2. /\ f.driver = "pgsql" /\ f.type \in DOMAIN [OID |-> 4] /\ f.flag = FALSE
        /\ f.value = SqlNull \/ \E n \in Int : f.value = <<n, 0>> /\ FitsUnsigned(n, [OID |-> 4][f.type])
    BY <2>1, Zenon DEF OfUnsigned
  <2>3. PICK b \in Sizes : a = UInt(b) /\ \A n \in Int : FitsUnsigned(n, [OID |-> 4][f.type]) => FitsUnsigned(n, Width(b)) /\ n = Saturated(n)
    <3>1. f.type = "OID" /\ [OID |-> 4][f.type] = 4 /\ 8 \in Sizes
      BY <2>2 DEF Sizes
    <3>2. a = UInt(8)
      BY <3>1, PgsqlTypes
    <3>3. ASSUME NEW n \in Int, FitsUnsigned(n, 4) PROVE FitsUnsigned(n, Width(8)) /\ n = Saturated(n)
      <4>1. Width(8) = 8
        BY DEF Width, MemberBytes, IntMember
      <4>2. Fits(n, 8) /\ n >= 0
        BY <3>3, RangesInEight DEF FitsUnsigned
      <4>3. PICK p \in Nat, h \in Nat : p = Pow(8) /\ h = Pow(8) \div 2 /\ p = 2 * h
        BY PowFacts
      <4>4. FitsUnsigned(n, 8)
        BY <4>2, <4>3 DEF Fits, FitsUnsigned
      <4> QED
        BY <4>1, <4>2, <4>4, SaturatedKeeps
    <3> QED
      BY <3>1, <3>2, <3>3
  <2> QED
    BY <2>2, <2>3, Widths DEF UnsignedFit, Suits, Good
<1>3. ASSUME f \in In("pgsql", {"FLOAT4", "FLOAT8"}, {FALSE}, Decimals) PROVE Good
  <2>1. Of(f, "pgsql", {"FLOAT4", "FLOAT8"}, {FALSE}, Decimals)
    BY <1>3, ColumnIn, Zenon
  <2>2. f.driver = "pgsql" /\ f.type \in {"FLOAT4", "FLOAT8"} /\ f.flag \in {FALSE} /\ (f.value = SqlNull \/ f.value \in Decimals)
    BY <2>1, Zenon DEF Of
  <2>3. \E b \in {4, 8} : a = Dec(b)
    BY <2>2, PgsqlTypes
  <2> QED
    BY <2>2, <2>3, ValueForms DEF OtherFit, Suits, Good
<1>4. ASSUME f \in In("pgsql", {"DATE"}, {FALSE}, DateOnly) PROVE Good
  <2>1. Of(f, "pgsql", {"DATE"}, {FALSE}, DateOnly)
    BY <1>4, ColumnIn, Zenon
  <2>2. f.driver = "pgsql" /\ f.type \in {"DATE"} /\ f.flag \in {FALSE} /\ (f.value = SqlNull \/ f.value \in DateOnly)
    BY <2>1, Zenon DEF Of
  <2>3. a = Time(1)
    BY <2>2, PgsqlTypes
  <2> QED
    BY <2>2, <2>3, ValueForms DEF OtherFit, Suits, Good
<1>5. ASSUME f \in In("pgsql", {"TIME", "TIMETZ"}, {FALSE}, TimeOnly) PROVE Good
  <2>1. Of(f, "pgsql", {"TIME", "TIMETZ"}, {FALSE}, TimeOnly)
    BY <1>5, ColumnIn, Zenon
  <2>2. f.driver = "pgsql" /\ f.type \in {"TIME", "TIMETZ"} /\ f.flag \in {FALSE} /\ (f.value = SqlNull \/ f.value \in TimeOnly)
    BY <2>1, Zenon DEF Of
  <2>3. a = Time(2)
    BY <2>2, PgsqlTypes
  <2> QED
    BY <2>2, <2>3, ValueForms DEF OtherFit, Suits, Good
<1>6. ASSUME f \in In("pgsql", {"TIMESTAMP", "TIMESTAMPTZ"}, {FALSE}, Moments) PROVE Good
  <2>1. Of(f, "pgsql", {"TIMESTAMP", "TIMESTAMPTZ"}, {FALSE}, Moments)
    BY <1>6, ColumnIn, Zenon
  <2>2. f.driver = "pgsql" /\ f.type \in {"TIMESTAMP", "TIMESTAMPTZ"} /\ f.flag \in {FALSE} /\ (f.value = SqlNull \/ f.value \in Moments)
    BY <2>1, Zenon DEF Of
  <2>3. a = Time(3)
    BY <2>2, PgsqlTypes
  <2> QED
    BY <2>2, <2>3, ValueForms DEF OtherFit, Suits, Good
<1>7. ASSUME f \in In("pgsql", {"TEXT", "VARCHAR", "NAME"}, {FALSE}, Texts) PROVE Good
  <2>1. Of(f, "pgsql", {"TEXT", "VARCHAR", "NAME"}, {FALSE}, Texts)
    BY <1>7, ColumnIn, Zenon
  <2>2. f.driver = "pgsql" /\ f.type \in {"TEXT", "VARCHAR", "NAME"} /\ f.flag \in {FALSE} /\ (f.value = SqlNull \/ f.value \in Texts)
    BY <2>1, Zenon DEF Of
  <2>3. a = Str
    BY <2>2, PgsqlTypes
  <2> QED
    BY <2>2, <2>3, ValueForms DEF OtherFit, Suits, Good
<1>8. ASSUME f \in In("pgsql", {"NUMERIC"}, {FALSE}, NumberTexts) PROVE Good
  <2>1. Of(f, "pgsql", {"NUMERIC"}, {FALSE}, NumberTexts)
    BY <1>8, ColumnIn, Zenon
  <2>2. f.driver = "pgsql" /\ f.type \in {"NUMERIC"} /\ f.flag \in {FALSE} /\ (f.value = SqlNull \/ f.value \in NumberTexts)
    BY <2>1, Zenon DEF Of
  <2>3. a = Str
    BY <2>2, PgsqlTypes
  <2> QED
    BY <2>2, <2>3, ValueForms DEF OtherFit, Suits, Good
<1>9. ASSUME f \in In("pgsql", {"BYTEA"}, {FALSE}, Bytes) PROVE Good
  <2>1. Of(f, "pgsql", {"BYTEA"}, {FALSE}, Bytes)
    BY <1>9, ColumnIn, Zenon
  <2>2. f.driver = "pgsql" /\ f.type \in {"BYTEA"} /\ f.flag \in {FALSE} /\ (f.value = SqlNull \/ f.value \in Bytes)
    BY <2>1, Zenon DEF Of
  <2>3. a = Bin
    BY <2>2, PgsqlTypes
  <2> QED
    BY <2>2, <2>3, ValueForms DEF OtherFit, Suits, Good
<1> QED
  BY <1>1, <1>2, <1>3, <1>4, <1>5, <1>6, <1>7, <1>8, <1>9 DEF pgsql_fields, Good

\* The types of both SQLite drivers suit every value of their columns.
LEMMA SqliteSuits ==
    ASSUME NEW d \in {"sqlite", "sqlite3"}, NEW f \in sqlite_fields(d), NEW a, a = translate_sqlite3_type(Column(f))
    PROVE  f.driver = d /\ (f.value = SqlNull \/ Suits(f, a))
<1> DEFINE Good == f.driver = d /\ (f.value = SqlNull \/ Suits(f, a))
<1> HIDE DEF Good
<1>1. ASSUME f \in SignedIn(d, FALSE, mysql_sizes) PROVE Good
  <2>1. OfSigned(f, d, FALSE, mysql_sizes)
    BY <1>1, ColumnSigned, Zenon
  <2>2. /\ f.driver = d /\ f.type \in DOMAIN mysql_sizes /\ f.flag = FALSE
        /\ f.value = SqlNull \/ \E n \in Int : f.value = <<n, 0>> /\ Fits(n, mysql_sizes[f.type])
    BY <2>1, Zenon DEF OfSigned
  <2>3. PICK b \in Sizes : b = mysql_sizes[f.type] /\ a = SInt(b)
    <3>1. mysql_sizes[f.type] \in Sizes
      BY <2>2 DEF Sizes, mysql_sizes
    <3>2. a = SInt(mysql_sizes[f.type])
      BY <2>2, SqliteTypes
    <3> QED
      BY <3>1, <3>2
  <2> QED
    BY <2>2, <2>3, Widths DEF SignedFit, Suits, Good
<1>2. ASSUME f \in UnsignedIn(d, FALSE, mysql_sizes) PROVE Good
  <2>1. OfUnsigned(f, d, FALSE, mysql_sizes)
    BY <1>2, ColumnUnsigned, Zenon
  <2>2. /\ f.driver = d /\ f.type \in DOMAIN mysql_sizes /\ f.flag = FALSE
        /\ f.value = SqlNull \/ \E n \in Int : f.value = <<n, 0>> /\ FitsUnsigned(n, mysql_sizes[f.type])
    BY <2>1, Zenon DEF OfUnsigned
  <2>3. PICK b \in Sizes : b = mysql_sizes[f.type] /\ a = SInt(b)
    <3>1. mysql_sizes[f.type] \in Sizes
      BY <2>2 DEF Sizes, mysql_sizes
    <3>2. a = SInt(mysql_sizes[f.type])
      BY <2>2, SqliteTypes
    <3> QED
      BY <3>1, <3>2
  <2> QED
    BY <2>2, <2>3, Widths DEF UnsignedFit, Suits, Good
<1>3. ASSUME f \in In(d, {"FLOAT", "DOUBLE"}, {FALSE}, Decimals) PROVE Good
  <2>1. Of(f, d, {"FLOAT", "DOUBLE"}, {FALSE}, Decimals)
    BY <1>3, ColumnIn, Zenon
  <2>2. f.driver = d /\ f.type \in {"FLOAT", "DOUBLE"} /\ f.flag \in {FALSE} /\ (f.value = SqlNull \/ f.value \in Decimals)
    BY <2>1, Zenon DEF Of
  <2>3. \E b \in {4, 8} : a = Dec(b)
    BY <2>2, SqliteTypes
  <2> QED
    BY <2>2, <2>3, ValueForms DEF OtherFit, Suits, Good
<1>4. ASSUME f \in In(d, {"DATE"}, {FALSE}, DateOnly) PROVE Good
  <2>1. Of(f, d, {"DATE"}, {FALSE}, DateOnly)
    BY <1>4, ColumnIn, Zenon
  <2>2. f.driver = d /\ f.type \in {"DATE"} /\ f.flag \in {FALSE} /\ (f.value = SqlNull \/ f.value \in DateOnly)
    BY <2>1, Zenon DEF Of
  <2>3. a = Time(1)
    BY <2>2, SqliteTypes
  <2> QED
    BY <2>2, <2>3, ValueForms DEF OtherFit, Suits, Good
<1>5. ASSUME f \in In(d, {"TIME"}, {FALSE}, TimeOnly) PROVE Good
  <2>1. Of(f, d, {"TIME"}, {FALSE}, TimeOnly)
    BY <1>5, ColumnIn, Zenon
  <2>2. f.driver = d /\ f.type \in {"TIME"} /\ f.flag \in {FALSE} /\ (f.value = SqlNull \/ f.value \in TimeOnly)
    BY <2>1, Zenon DEF Of
  <2>3. a = Time(2)
    BY <2>2, SqliteTypes
  <2> QED
    BY <2>2, <2>3, ValueForms DEF OtherFit, Suits, Good
<1>6. ASSUME f \in In(d, {"TIMESTAMP"}, {FALSE}, Moments) PROVE Good
  <2>1. Of(f, d, {"TIMESTAMP"}, {FALSE}, Moments)
    BY <1>6, ColumnIn, Zenon
  <2>2. f.driver = d /\ f.type \in {"TIMESTAMP"} /\ f.flag \in {FALSE} /\ (f.value = SqlNull \/ f.value \in Moments)
    BY <2>1, Zenon DEF Of
  <2>3. a = Time(3)
    BY <2>2, SqliteTypes
  <2> QED
    BY <2>2, <2>3, ValueForms DEF OtherFit, Suits, Good
<1>7. ASSUME f \in In(d, {"STRING"}, {FALSE}, Texts) PROVE Good
  <2>1. Of(f, d, {"STRING"}, {FALSE}, Texts)
    BY <1>7, ColumnIn, Zenon
  <2>2. f.driver = d /\ f.type \in {"STRING"} /\ f.flag \in {FALSE} /\ (f.value = SqlNull \/ f.value \in Texts)
    BY <2>1, Zenon DEF Of
  <2>3. a = Str
    BY <2>2, SqliteTypes
  <2> QED
    BY <2>2, <2>3, ValueForms DEF OtherFit, Suits, Good
<1>8. ASSUME f \in In(d, {"DECIMAL"}, {FALSE}, NumberTexts) PROVE Good
  <2>1. Of(f, d, {"DECIMAL"}, {FALSE}, NumberTexts)
    BY <1>8, ColumnIn, Zenon
  <2>2. f.driver = d /\ f.type \in {"DECIMAL"} /\ f.flag \in {FALSE} /\ (f.value = SqlNull \/ f.value \in NumberTexts)
    BY <2>1, Zenon DEF Of
  <2>3. a = Str
    BY <2>2, SqliteTypes
  <2> QED
    BY <2>2, <2>3, ValueForms DEF OtherFit, Suits, Good
<1>9. ASSUME f \in In(d, {"BLOB"}, {FALSE}, Bytes) PROVE Good
  <2>1. Of(f, d, {"BLOB"}, {FALSE}, Bytes)
    BY <1>9, ColumnIn, Zenon
  <2>2. f.driver = d /\ f.type \in {"BLOB"} /\ f.flag \in {FALSE} /\ (f.value = SqlNull \/ f.value \in Bytes)
    BY <2>1, Zenon DEF Of
  <2>3. a = Bin
    BY <2>2, SqliteTypes
  <2> QED
    BY <2>2, <2>3, ValueForms DEF OtherFit, Suits, Good
<1> QED
  BY <1>1, <1>2, <1>3, <1>4, <1>5, <1>6, <1>7, <1>8, <1>9 DEF sqlite_fields, Good

\* The type that the msql driver announces suits every value of its column.
LEMMA MsqlSuits ==
    ASSUME NEW f \in msql_fields, NEW a, a = msql_field_info(Column(f))
    PROVE  f.driver = "msql" /\ (f.value = SqlNull \/ Suits(f, a))
<1> DEFINE Good == f.driver = "msql" /\ (f.value = SqlNull \/ Suits(f, a))
<1> HIDE DEF Good
<1>1. ASSUME f \in SignedIn("msql", FALSE, [INT |-> 4, INT64 |-> 8, INT8 |-> 1, INT16 |-> 2, BYTE |-> 1]) PROVE Good
  <2>1. OfSigned(f, "msql", FALSE, [INT |-> 4, INT64 |-> 8, INT8 |-> 1, INT16 |-> 2, BYTE |-> 1])
    BY <1>1, ColumnSigned, Zenon
  <2>2. /\ f.driver = "msql" /\ f.type \in DOMAIN [INT |-> 4, INT64 |-> 8, INT8 |-> 1, INT16 |-> 2, BYTE |-> 1] /\ f.flag = FALSE
        /\ f.value = SqlNull \/ \E n \in Int : f.value = <<n, 0>> /\ Fits(n, [INT |-> 4, INT64 |-> 8, INT8 |-> 1, INT16 |-> 2, BYTE |-> 1][f.type])
    BY <2>1, Zenon DEF OfSigned
  <2>3. PICK b \in Sizes : a = SInt(b) /\ Width(b) = [INT |-> 4, INT64 |-> 8, INT8 |-> 1, INT16 |-> 2, BYTE |-> 1][f.type]
    <3>1. Width(1) = 1 /\ Width(2) = 2 /\ Width(3) = 4 /\ Width(8) = 8
      BY DEF Width, MemberBytes, IntMember
    <3> QED
      BY <2>2, <3>1, MsqlTypes DEF Sizes
  <2> QED
    BY <2>2, <2>3, Widths DEF SignedFit, Suits, Good
<1>2. ASSUME f \in UnsignedIn("msql", FALSE, [UINT |-> 4, UINT64 |-> 8, UINT8 |-> 1, UINT16 |-> 2]) PROVE Good
  <2>1. OfUnsigned(f, "msql", FALSE, [UINT |-> 4, UINT64 |-> 8, UINT8 |-> 1, UINT16 |-> 2])
    BY <1>2, ColumnUnsigned, Zenon
  <2>2. /\ f.driver = "msql" /\ f.type \in DOMAIN [UINT |-> 4, UINT64 |-> 8, UINT8 |-> 1, UINT16 |-> 2] /\ f.flag = FALSE
        /\ f.value = SqlNull \/ \E n \in Int : f.value = <<n, 0>> /\ FitsUnsigned(n, [UINT |-> 4, UINT64 |-> 8, UINT8 |-> 1, UINT16 |-> 2][f.type])
    BY <2>1, Zenon DEF OfUnsigned
  <2>3. PICK b \in Sizes : a = UInt(b) /\ Width(b) = [UINT |-> 4, UINT64 |-> 8, UINT8 |-> 1, UINT16 |-> 2][f.type]
    <3>1. Width(1) = 1 /\ Width(2) = 2 /\ Width(3) = 4 /\ Width(8) = 8
      BY DEF Width, MemberBytes, IntMember
    <3> QED
      BY <2>2, <3>1, MsqlTypes DEF Sizes
  <2> QED
    BY <2>2, <2>3, Widths DEF UnsignedFit, Suits, Good
<1>3. ASSUME f \in In("msql", {"REAL"}, {FALSE}, Decimals) PROVE Good
  <2>1. Of(f, "msql", {"REAL"}, {FALSE}, Decimals)
    BY <1>3, ColumnIn, Zenon
  <2>2. f.driver = "msql" /\ f.type \in {"REAL"} /\ f.flag \in {FALSE} /\ (f.value = SqlNull \/ f.value \in Decimals)
    BY <2>1, Zenon DEF Of
  <2>3. \E b \in {4, 8} : a = Dec(b)
    BY <2>2, MsqlTypes
  <2> QED
    BY <2>2, <2>3, ValueForms DEF OtherFit, Suits, Good
<1>4. ASSUME f \in In("msql", {"DATE"}, {FALSE}, DateOnly) PROVE Good
  <2>1. Of(f, "msql", {"DATE"}, {FALSE}, DateOnly)
    BY <1>4, ColumnIn, Zenon
  <2>2. f.driver = "msql" /\ f.type \in {"DATE"} /\ f.flag \in {FALSE} /\ (f.value = SqlNull \/ f.value \in DateOnly)
    BY <2>1, Zenon DEF Of
  <2>3. a = Time(1)
    BY <2>2, MsqlTypes
  <2> QED
    BY <2>2, <2>3, ValueForms DEF OtherFit, Suits, Good
<1>5. ASSUME f \in In("msql", {"TIME"}, {FALSE}, TimeOnly) PROVE Good
  <2>1. Of(f, "msql", {"TIME"}, {FALSE}, TimeOnly)
    BY <1>5, ColumnIn, Zenon
  <2>2. f.driver = "msql" /\ f.type \in {"TIME"} /\ f.flag \in {FALSE} /\ (f.value = SqlNull \/ f.value \in TimeOnly)
    BY <2>1, Zenon DEF Of
  <2>3. a = Time(2)
    BY <2>2, MsqlTypes
  <2> QED
    BY <2>2, <2>3, ValueForms DEF OtherFit, Suits, Good
<1>6. ASSUME f \in In("msql", {"CHAR", "TEXT"}, {FALSE}, Texts) PROVE Good
  <2>1. Of(f, "msql", {"CHAR", "TEXT"}, {FALSE}, Texts)
    BY <1>6, ColumnIn, Zenon
  <2>2. f.driver = "msql" /\ f.type \in {"CHAR", "TEXT"} /\ f.flag \in {FALSE} /\ (f.value = SqlNull \/ f.value \in Texts)
    BY <2>1, Zenon DEF Of
  <2>3. a = Str
    BY <2>2, MsqlTypes
  <2> QED
    BY <2>2, <2>3, ValueForms DEF OtherFit, Suits, Good
<1>7. ASSUME f \in In("msql", {"MONEY"}, {FALSE}, NumberTexts) PROVE Good
  <2>1. Of(f, "msql", {"MONEY"}, {FALSE}, NumberTexts)
    BY <1>7, ColumnIn, Zenon
  <2>2. f.driver = "msql" /\ f.type \in {"MONEY"} /\ f.flag \in {FALSE} /\ (f.value = SqlNull \/ f.value \in NumberTexts)
    BY <2>1, Zenon DEF Of
  <2>3. a = Str
    BY <2>2, MsqlTypes
  <2> QED
    BY <2>2, <2>3, ValueForms DEF OtherFit, Suits, Good
<1> QED
  BY <1>1, <1>2, <1>3, <1>4, <1>5, <1>6, <1>7 DEF msql_fields, Good

\* libdbi's encoding of bytes is a C string that is decoded into the bytes.
LEMMA EncodeDecode ==
    ASSUME NEW orig \in Seq(Nat), NEW s, s = dbd_encode_binary(orig)
    PROVE  /\ s \in Seq(Nat) /\ s # SqlNull /\ Len(s) = Len(orig) + 1 /\ \A i \in 1..Len(s) : s[i] >= 256
           /\ CString(s) = s /\ dbd_decode_binary(s) = orig
<1> DEFINE n == Len(orig)
           tail == [i \in 1..n |-> orig[i] + 256]
<1>0. n \in Nat /\ \A i \in 1..n : orig[i] \in Nat
  OBVIOUS
<1>1. tail \in Seq(Nat) /\ Len(tail) = n /\ \A i \in 1..n : tail[i] = orig[i] + 256
  OBVIOUS
<1>2. s = <<256>> \o tail
  BY DEF dbd_encode_binary
<1> HIDE DEF tail
<1>3. s \in Seq(Nat) /\ Len(s) = n + 1 /\ s[1] = 256 /\ \A i \in 1..n : s[i + 1] = orig[i] + 256
  BY <1>0, <1>1, <1>2
<1>4. \A i \in 1..(n + 1) : s[i] >= 256
  <2> TAKE i \in 1..(n + 1)
  <2>1. CASE i = 1
    BY <1>3, <2>1
  <2>2. CASE i # 1
    <3>1. PICK k \in 1..n : i = k + 1
      BY <1>0, <2>2
    <3>2. s[i] = orig[k] + 256
      BY <1>3, <3>1
    <3> QED
      BY <1>0, <3>2
  <2> QED
    BY <2>1, <2>2
<1>5. \A i \in 1..Len(s) : s[i] # 0
  BY <1>3, <1>4
<1>6. CString(s) = s
  BY <1>3, <1>5, CStringWhole
<1>7. dbd_decode_binary(s) = orig
  <2>1. Len(s) - 1 = n
    BY <1>0, <1>3
  <2>2. dbd_decode_binary(s) = [i \in 1..n |-> s[i + 1] - 256]
    BY <2>1 DEF dbd_decode_binary
  <2>3. \A i \in 1..n : s[i + 1] - 256 = orig[i]
    BY <1>0, <1>3, SMTT(30)
  <2>4. dbd_decode_binary(s) = [i \in 1..n |-> orig[i]]
    BY <2>2, <2>3
  <2> QED
    BY <2>4
<1>8. s # SqlNull
  BY <1>3, NoNull
<1> QED
  BY <1>3, <1>4, <1>6, <1>7, <1>8

\* What the server sends of a value.
RawOf(f, a) == IF a = Bin /\ f.value # SqlNull THEN dbd_encode_binary(f.value) ELSE f.value

\* Decoded bytes are read back.
LEMMA DecodedBack ==
    ASSUME NEW f, NEW option, f.driver \notin {"firebird", "oracle", "mysql"}, f.value \in Seq(Nat)
    PROVE  ReadsBack(f, Row(Bin, Field("d_string", f.value, Len(f.value)), option))
<1>1. PICK s, k, v :
        s \in Seq(Nat) /\ k \in 0..Len(s) /\ s = f.value /\ k = Len(f.value) /\ v = SubSeq(s, 1, k) /\ v = f.value
  <2>1. Len(f.value) \in 0..Len(f.value) /\ SubSeq(f.value, 1, Len(f.value)) = f.value
    OBVIOUS
  <2> QED
    BY <2>1
<1> QED
  BY <1>1, BytesBack

\* PostgreSQL's columns; bytea arrives encoded.
LEMMA PgsqlBack ==
    ASSUME NEW f \in pgsql_fields, NEW option, NEW a, a = pgsql_field_info(Column(f))
    PROVE  ReadsBack(f, Row(a, pgsql_row_data(a, RawOf(f, a)), option))
<1>1. f.driver = "pgsql" /\ (f.value = SqlNull \/ Suits(f, a))
  BY PgsqlSuits
<1>2. CASE f.value = SqlNull
  <2>1. pgsql_row_data(a, RawOf(f, a)) = NullField
    BY <1>2 DEF pgsql_row_data, RawOf
  <2> QED
    BY <1>1, <1>2, <2>1, NullBack
<1>3. CASE f.value # SqlNull /\ (SignedFit(f, a) \/ UnsignedFit(f, a) \/ OtherFit(f, a))
  <2>1. ReadsBack(f, Row(a, Scalar(a, f.value), option)) /\ a.type \in Scalars
    BY <1>1, <1>3, ScalarBack DEF TextDrivers
  <2>2. RawOf(f, a) = f.value
    BY <2>1, ScalarTypes DEF RawOf
  <2> QED
    BY <1>3, <2>1, <2>2 DEF pgsql_row_data
<1>4. CASE f.value # SqlNull /\ a = Str /\ f.value \in Seq(Nat \ {0})
  <2>1. pgsql_row_data(a, RawOf(f, a)) = Field("d_string", f.value, Len(f.value))
    BY <1>4, ScalarTypes, TextIsCString DEF pgsql_row_data, RawOf
  <2> QED
    BY <1>1, <1>4, <2>1, TextIsCString, StringBack
<1>5. CASE f.value # SqlNull /\ a = Bin /\ f.value \in Seq(Nat)
  <2>1. PICK s : s = dbd_encode_binary(f.value)
    OBVIOUS
  <2>2. s # SqlNull /\ dbd_decode_binary(s) = f.value
    BY <1>5, <2>1, EncodeDecode
  <2>3. pgsql_row_data(a, RawOf(f, a)) = Field("d_string", f.value, Len(f.value))
    BY <1>5, <2>1, <2>2, ScalarTypes DEF pgsql_row_data, RawOf
  <2> QED
    BY <1>1, <1>5, <2>3, DecodedBack
<1> QED
  BY <1>1, <1>2, <1>3, <1>4, <1>5 DEF Suits

\* The cell of the table that holds the value.
LEMMA CellOf ==
    ASSUME NEW x, NEW c \in 0..1, NEW r \in 0..1
    PROVE  TableCell(SomeTable(x, c, r), c, r, 2) = x
<1>1. (r + 1) * 2 = 2 * (r + 1)
  OBVIOUS
<1>2. PICK i \in 1..6 : i = 2 * (r + 1) + c + 1
  OBVIOUS
<1>3. c + (r + 1) * 2 + 1 = i
  BY <1>1, <1>2
<1> QED
  BY <1>2, <1>3 DEF TableCell, SomeTable

\* SQLite's columns, wherever they are in the result table.
LEMMA SqliteBack ==
    ASSUME NEW d \in {"sqlite", "sqlite3"}, NEW f \in sqlite_fields(d), NEW option, NEW a,
           a = translate_sqlite3_type(Column(f)), NEW c \in 0..1, NEW r \in 0..1
    PROVE  ReadsBack(f, Row(a, sqlite3_row_data(a, SomeTable(RawOf(f, a), c, r), c, r, 2), option))
<1> DEFINE field == sqlite3_row_data(a, SomeTable(RawOf(f, a), c, r), c, r, 2)
<1>1. f.driver = d /\ (f.value = SqlNull \/ Suits(f, a))
  BY SqliteSuits
<1>2. PICK raw : raw = RawOf(f, a)
  OBVIOUS
<1>3. field = IF raw = SqlNull THEN Unset
              ELSE IF a.type \in Scalars THEN Scalar(a, raw)
              ELSE IF a.type = "BINARY"
              THEN Field("d_string", dbd_decode_binary(CString(raw)), Len(dbd_decode_binary(CString(raw))))
              ELSE Field("d_string", CString(raw), Len(CString(raw)))
  BY <1>2, CellOf DEF sqlite3_row_data
<1> HIDE DEF field
<1>4. CASE f.value = SqlNull
  <2>1. field = Unset
    BY <1>2, <1>3, <1>4 DEF RawOf
  <2> QED
    BY <1>1, <1>4, <2>1, NullBack DEF field
<1>5. CASE f.value # SqlNull /\ (SignedFit(f, a) \/ UnsignedFit(f, a) \/ OtherFit(f, a))
  <2>1. ReadsBack(f, Row(a, Scalar(a, f.value), option)) /\ a.type \in Scalars
    BY <1>1, <1>5, ScalarBack DEF TextDrivers
  <2>2. raw = f.value
    BY <1>2, <2>1, ScalarTypes DEF RawOf
  <2> QED
    BY <1>3, <1>5, <2>1, <2>2 DEF field
<1>6. CASE f.value # SqlNull /\ a = Str /\ f.value \in Seq(Nat \ {0})
  <2>1. field = Field("d_string", f.value, Len(f.value))
    BY <1>2, <1>3, <1>6, ScalarTypes, TextIsCString DEF RawOf
  <2> QED
    BY <1>1, <1>6, <2>1, TextIsCString, StringBack DEF field
<1>7. CASE f.value # SqlNull /\ a = Bin /\ f.value \in Seq(Nat)
  <2>1. raw = dbd_encode_binary(f.value)
    BY <1>2, <1>7 DEF RawOf
  <2>2. raw # SqlNull /\ CString(raw) = raw /\ dbd_decode_binary(raw) = f.value
    BY <1>7, <2>1, EncodeDecode
  <2>3. field = Field("d_string", f.value, Len(f.value))
    BY <1>3, <1>7, <2>2, ScalarTypes
  <2> QED
    BY <1>1, <1>7, <2>3, DecodedBack DEF field
<1> QED
  BY <1>1, <1>4, <1>5, <1>6, <1>7 DEF Suits

\* mSQL's columns; it has no binary ones.
LEMMA MsqlBack ==
    ASSUME NEW f \in msql_fields, NEW option, NEW a, a = msql_field_info(Column(f))
    PROVE  ReadsBack(f, Row(a, msql_row_data(a, f.value), option))
<1>1. f.driver = "msql" /\ (f.value = SqlNull \/ Suits(f, a))
  BY MsqlSuits
<1>2. CASE f.value = SqlNull
  <2>1. msql_row_data(a, f.value) = [NullField EXCEPT !.member = "crash"]
    BY <1>2 DEF msql_row_data
  <2>2. msql_row_data(a, f.value).null = TRUE
    BY <2>1 DEF NullField, Unset, Field
  <2> QED
    BY <1>1, <1>2, <2>2, FlagBack
<1>3. CASE f.value # SqlNull /\ (SignedFit(f, a) \/ UnsignedFit(f, a) \/ OtherFit(f, a))
  <2>1. ReadsBack(f, Row(a, Scalar(a, f.value), option)) /\ a.type \in Scalars
    BY <1>1, <1>3, ScalarBack DEF TextDrivers
  <2> QED
    BY <1>3, <2>1 DEF msql_row_data
<1>4. CASE f.value # SqlNull /\ a = Str /\ f.value \in Seq(Nat \ {0})
  <2>1. msql_row_data(a, f.value) = Field("d_string", f.value, Len(f.value))
    BY <1>4, ScalarTypes, TextIsCString DEF msql_row_data
  <2> QED
    BY <1>1, <1>4, <2>1, TextIsCString, StringBack
<1>5. CASE a # Bin
  BY <1>1, <1>2, <1>3, <1>4, <1>5 DEF Suits
<1>6. CASE a = Bin
  <2>1. a # Bin
    <3>1. Column(f).type = f.type
      BY DEF Column
    <3>2. a \in {SInt(b) : b \in Sizes} \cup {UInt(b) : b \in Sizes} \cup {Time(1), Time(2), Dec(4), Str}
      BY <3>1 DEF msql_field_info, translate_msql_type, msql_types, Sizes
    <3> QED
      BY <3>2, ScalarTypes
  <2> QED
    BY <1>6, <2>1
<1> QED
  BY <1>5, <1>6

-----------------------------------------------------------------------------
(* Fields: freetds, oracle and ingres *)

\* Drivers without options that change a value, and with their own getters.
LEMMA PlainBack ==
    ASSUME NEW f, NEW a, NEW field, NEW option, f.driver \in {"freetds", "ingres"}, f.value # SqlNull, ~field.null,
           ~Lost(f, Row(a, field, option)) => f.value \in dbi_get(a, field)
    PROVE  ReadsBack(f, Row(a, field, option))
<1>1. PICK row : row = Row(a, field, option)
  OBVIOUS
<1>2. row.a = a
  BY <1>1 DEF Row
<1>3. Getter(f, row) = a /\ f.value \in Expected(f, row)
  BY <1>2 DEF Getter, Expected
<1> QED
  BY <1>1, <1>3, ValueBack

\* The types that _translate_freetds_type() announces.
LEMMA FreetdsTypes ==
    ASSUME NEW f
    PROVE  LET a == translate_freetds_type(Column(f)) IN
           /\ f.type \in DOMAIN [LONG |-> 8, INT |-> 4, SMALLINT |-> 2] => a = SInt([LONG |-> 8, INT |-> 4, SMALLINT |-> 2][f.type])
           /\ f.type = "TINYINT" => a = SInt(1)
           /\ f.type \in {"REAL", "FLOAT"} => \E b \in {4, 8} : a = Dec(b)
           /\ f.type \in {"DATETIME", "DATETIME4"} => a = Time(3)
           /\ f.type \in {"CHAR", "TEXT", "VARCHAR"} => a = Str
           /\ f.type \in {"IMAGE", "BINARY"} => a = Bin
<1>1. Column(f).type = f.type
  BY DEF Column
<1> QED
  BY <1>1 DEF translate_freetds_type, freetds_types

\* The cases of freetds_row_data().
LEMMA FreetdsCases ==
    ASSUME NEW a, NEW column, NEW raw
    PROVE  /\ a.type = "INTEGER" => freetds_row_data(a, column, raw) = Field(IntMember(a.size), <<Signed(raw[1], Width(a.size)), 0>>, 0)
           /\ a.type = "DECIMAL" => freetds_row_data(a, column, raw) = Field(DecMember(a.size), raw, 0)
BY DEF freetds_row_data, Width

\* A date is converted after the fetch,
LEMMA FreetdsTime ==
    ASSUME NEW a, NEW column, NEW raw, a.type = "DATETIME"
    PROVE  freetds_row_data(a, column, raw) = TimeField(a, raw)
BY DEF freetds_row_data

\* a text is terminated,
LEMMA FreetdsText ==
    ASSUME NEW a, NEW column, NEW raw, a.type = "STRING"
    PROVE  freetds_row_data(a, column, raw) = Field("d_string", Append(raw, 0), Len(CString(raw)))
BY DEF freetds_row_data

\* and bytes are decoded.
LEMMA FreetdsBytes ==
    ASSUME NEW a, NEW column, NEW raw, NEW bytes, a.type = "BINARY", column.type \in Decoded, bytes = dbd_decode_binary(raw)
    PROVE  freetds_row_data(a, column, raw) = Field("d_string", bytes, Len(bytes))
BY DEF freetds_row_data

\* SQL Server's columns; NULL is left to the indicator of ct_bind().
LEMMA FreetdsBack ==
    ASSUME NEW f \in freetds_fields, NEW option, NEW a, a = translate_freetds_type(Column(f))
    PROVE  ReadsBack(f, Row(a, freetds_row_data(a, Column(f), RawOf(f, a)), option))
<1> DEFINE field == freetds_row_data(a, Column(f), RawOf(f, a))
           Good == f.driver = "freetds" /\ ~field.null /\ (~Lost(f, Row(a, field, option)) => f.value \in dbi_get(a, field))
<1>0. f.value # SqlNull
  BY DEF freetds_fields, NotNull
<1> PICK raw, column : raw = RawOf(f, a) /\ column = Column(f)
  OBVIOUS
<1>field. field = freetds_row_data(a, column, raw)
  OBVIOUS
<1> HIDE DEF field
<1>1. ASSUME NEW b \in Sizes, NEW n \in Int, a = SInt(b), f.value = <<n, 0>>, f.driver = "freetds",
             ~Lost(f, Row(a, field, option)) => Fits(n, Width(b))
      PROVE Good
  <2>1. RawOf(f, a) = <<n, 0>> /\ <<n, 0>>[1] = n /\ a.type = "INTEGER" /\ a.size = b
    BY <1>1, ScalarTypes DEF RawOf
  <2>2. field = Field(IntMember(b), <<Signed(n, Width(b)), 0>>, 0)
    BY <1>field, <2>1, FreetdsCases
  <2>3. ~field.null
    BY <2>2 DEF Field
  <2>4. Fits(n, Width(b)) => Signed(n, Width(b)) = n
    BY Widths, SignedKeeps DEF Sizes
  <2> QED
    BY <1>1, <2>2, <2>3, <2>4, IntGet
<1>2. ASSUME NEW b \in {4, 8}, a = Dec(b), f.driver = "freetds" PROVE Good
  <2>1. RawOf(f, a) = f.value /\ a.type = "DECIMAL" /\ a.size = b
    BY <1>2, ScalarTypes DEF RawOf
  <2>2. field = Field(DecMember(b), f.value, 0)
    BY <1>field, <2>1, FreetdsCases
  <2>3. ~field.null
    BY <2>2 DEF Field
  <2> QED
    BY <1>2, <2>2, <2>3, DecRead
<1>3. ASSUME a = Time(3), \E d, t : f.value = <<d, t>>, f.driver = "freetds" PROVE Good
  <2>1. RawOf(f, a) = f.value /\ a.type = "DATETIME"
    BY <1>3, ScalarTypes DEF RawOf
  <2>2. field = TimeField(a, f.value)
    BY <1>field, <2>1, FreetdsTime
  <2>3. ~field.null
    BY <2>2 DEF TimeField, Field
  <2>4. PICK d, t : f.value = <<d, t>>
    BY <1>3
  <2> QED
    BY <1>3, <2>2, <2>3, <2>4, TimeRead
<1>4. ASSUME a = Str, f.value \in Seq(Nat \ {0}), f.driver = "freetds" PROVE Good
  <2>1. RawOf(f, a) = f.value /\ a.type = "STRING"
    BY <1>4, ScalarTypes DEF RawOf
  <2>2. field = Field("d_string", Append(f.value, 0), Len(CString(f.value)))
    BY <1>field, <2>1, FreetdsText
  <2>3. ~field.null
    BY <2>2 DEF Field
  <2> QED
    BY <1>4, <2>2, <2>3, StrRead, TextIsCString
<1>5. ASSUME a = Bin, f.value \in Seq(Nat), f.driver = "freetds", f.type \in {"IMAGE", "BINARY"} PROVE Good
  <2>1. PICK s : s = dbd_encode_binary(f.value) /\ s = RawOf(f, a)
    BY <1>0, <1>5 DEF RawOf
  <2>2. dbd_decode_binary(s) = f.value
    BY <1>5, <2>1, EncodeDecode
  <2>3. a.type = "BINARY" /\ Column(f).type \in Decoded
    BY <1>5, ScalarTypes DEF Column, Decoded
  <2>4. field = Field("d_string", f.value, Len(f.value))
    BY <1>field, <2>1, <2>2, <2>3, FreetdsBytes
  <2>5. ~field.null
    BY <2>4 DEF Field
  <2>6. Len(f.value) \in 0..Len(f.value) /\ SubSeq(f.value, 1, Len(f.value)) = f.value
    BY <1>5
  <2> QED
    BY <1>5, <2>4, <2>5, <2>6, BinRead
<1> HIDE DEF Good
<1> DEFINE sz == [LONG |-> 8, INT |-> 4, SMALLINT |-> 2]
<1>6. ASSUME f \in SignedIn("freetds", FALSE, [LONG |-> 8, INT |-> 4, SMALLINT |-> 2]) PROVE Good
  <2>1. OfSigned(f, "freetds", FALSE, sz)
    BY <1>6, ColumnSigned, Zenon
  <2>2. f.driver = "freetds" /\ f.type \in DOMAIN sz /\ \E n \in Int : f.value = <<n, 0>> /\ Fits(n, sz[f.type])
    BY <1>0, <2>1, Zenon DEF OfSigned
  <2>3. PICK n \in Int : f.value = <<n, 0>> /\ Fits(n, sz[f.type])
    BY <2>2
  <2>4. PICK b \in Sizes : b = sz[f.type] /\ a = SInt(b)
    BY <2>2, FreetdsTypes DEF Sizes
  <2>5. Fits(n, Width(b))
    BY <2>3, <2>4, Widths
  <2> QED
    BY <1>1, <2>2, <2>3, <2>4, <2>5
<1>7. ASSUME f \in UnsignedIn("freetds", FALSE, [TINYINT |-> 1]) PROVE Good
  <2>1. OfUnsigned(f, "freetds", FALSE, [TINYINT |-> 1])
    BY <1>7, ColumnUnsigned, Zenon
  <2>2. f.driver = "freetds" /\ f.type = "TINYINT" /\ \E n \in Int : f.value = <<n, 0>> /\ FitsUnsigned(n, 1)
    BY <1>0, <2>1 DEF OfUnsigned
  <2>3. PICK n \in Int : f.value = <<n, 0>> /\ FitsUnsigned(n, 1)
    BY <2>2
  <2>4. 1 \in Sizes /\ a = SInt(1) /\ Width(1) = 1
    BY <2>2, FreetdsTypes DEF Sizes, Width, MemberBytes, IntMember
  <2>5. ~Lost(f, Row(a, field, option)) => Fits(n, 1)
    <3>1. PICK h \in Nat : h = Pow(1) \div 2
      BY PowFacts
    <3>2. ~Lost(f, Row(a, field, option)) => ~(n >= h)
      BY <2>2, <2>3, <3>1 DEF Lost
    <3> QED
      BY <2>3, <3>1, <3>2 DEF Fits, FitsUnsigned
  <2> QED
    BY <1>1, <2>2, <2>3, <2>4, <2>5
<1>8. ASSUME f \in In("freetds", {"REAL", "FLOAT"}, {FALSE}, Decimals) PROVE Good
  <2>1. Of(f, "freetds", {"REAL", "FLOAT"}, {FALSE}, Decimals)
    BY <1>8, ColumnIn, Zenon
  <2> QED
    BY <1>2, <2>1, FreetdsTypes DEF Of
<1>9. ASSUME f \in In("freetds", {"DATETIME", "DATETIME4"}, {FALSE}, Moments) PROVE Good
  <2>1. Of(f, "freetds", {"DATETIME", "DATETIME4"}, {FALSE}, Moments)
    BY <1>9, ColumnIn, Zenon
  <2> QED
    BY <1>0, <1>3, <2>1, FreetdsTypes, ValueForms DEF Of
<1>10. ASSUME f \in In("freetds", {"CHAR", "TEXT", "VARCHAR"}, {FALSE}, Texts) PROVE Good
  <2>1. Of(f, "freetds", {"CHAR", "TEXT", "VARCHAR"}, {FALSE}, Texts)
    BY <1>10, ColumnIn, Zenon
  <2> QED
    BY <1>0, <1>4, <2>1, FreetdsTypes, ValueForms DEF Of
<1>11. ASSUME f \in In("freetds", {"IMAGE", "BINARY"}, {FALSE}, Bytes) PROVE Good
  <2>1. Of(f, "freetds", {"IMAGE", "BINARY"}, {FALSE}, Bytes)
    BY <1>11, ColumnIn, Zenon
  <2> QED
    BY <1>0, <1>5, <2>1, FreetdsTypes, ValueForms DEF Of
<1>12. Good
  BY <1>6, <1>7, <1>8, <1>9, <1>10, <1>11 DEF freetds_fields, NotNull
<1> QED
  BY <1>0, <1>12, PlainBack DEF Good, field

\* Without the blanks at its end a text ends in front of the first of them.
LEMMA ChopSpec ==
    ASSUME NEW s \in Seq(Nat)
    PROVE  \E m \in 0..Len(s) : /\ ChopBlanks(s) = SubSeq(s, 1, m) /\ (m = 0 \/ s[m] # 32)
                                /\ \A i \in (m + 1)..Len(s) : s[i] = 32
<1>1. PICK n \in Nat : n = Len(s)
  OBVIOUS
<1> DEFINE T == {m \in 0..n : \A i \in (m + 1)..n : s[i] = 32}
           P(m) == (m = 0 \/ s[m] # 32) /\ \A i \in (m + 1)..n : s[i] = 32
<1>2. n \in T /\ T \subseteq Nat
  BY <1>1
<1>3. PICK m \in T : \A k \in T : m <= k
  <2> HIDE DEF T
  <2> QED
    BY <1>2, LeastNumber
<1>4. m \in 0..n /\ P(m)
  <2>1. m \in 0..n /\ \A i \in (m + 1)..n : s[i] = 32
    OBVIOUS
  <2>2. ASSUME m # 0, s[m] = 32 PROVE FALSE
    <3>1. m - 1 \in 0..n
      BY <1>1, <2>1, <2>2
    <3>2. \A i \in m..n : s[i] = 32
      <4> TAKE i \in m..n
      <4>1. i = m \/ i \in (m + 1)..n
        BY <1>1, <2>1
      <4> QED
        BY <2>1, <2>2, <4>1
    <3>3. (m - 1) + 1 = m
      BY <2>1
    <3>4. m - 1 \in T
      BY <3>1, <3>2, <3>3
    <3>5. m <= m - 1
      BY <1>3, <3>4
    <3> QED
      BY <2>1, <3>5
  <2> QED
    BY <2>1, <2>2
<1> HIDE DEF T
<1>5. PICK k : k = CHOOSE m1 \in 0..n : P(m1)
  OBVIOUS
<1>6. k \in 0..n /\ P(k)
  <2> HIDE DEF P
  <2> QED
    BY <1>4, <1>5
<1>7. ChopBlanks(s) = SubSeq(s, 1, k)
  BY <1>1, <1>5 DEF ChopBlanks
<1> QED
  BY <1>1, <1>6, <1>7

\* A buffer that holds a text and its terminator, whatever lies behind.
LEMMA CStringCut ==
    ASSUME NEW v \in Seq(Nat \ {0}), NEW s \in Seq(Nat), Len(s) > Len(v),
           \A i \in 1..Len(v) : s[i] = v[i], s[Len(v) + 1] = 0
    PROVE  CString(s) = v
<1>1. PICK n \in Nat : n = Len(v)
  OBVIOUS
<1>2. \A i \in 1..n : s[i] \in Nat \ {0}
  BY <1>1
<1> DEFINE nuls == {i \in 1..Len(s) : s[i] = 0}
<1>3. n + 1 \in nuls /\ \A i \in nuls : n + 1 <= i
  BY <1>1, <1>2
<1>4. First(nuls) = n + 1
  <2>1. \A i \in nuls : i \in Nat
    OBVIOUS
  <2> HIDE DEF nuls
  <2>2. PICK k : k = First(nuls)
    OBVIOUS
  <2>3. k = CHOOSE i \in nuls : \A j \in nuls : i <= j
    BY <1>3, <2>2 DEF First
  <2>4. k \in nuls /\ \A j \in nuls : k <= j
    BY <1>3, <2>3
  <2>5. k = n + 1
    BY <1>3, <2>1, <2>4
  <2> QED
    BY <2>2, <2>5
<1>5. SubSeq(s, 1, n) = v
  BY <1>1
<1>6. n + 1 # 0 /\ (n + 1) - 1 = n
  BY <1>1
<1> QED
  BY <1>4, <1>5, <1>6 DEF CString

\* The types that _translate_oracle_type() announces.
LEMMA OracleTypes ==
    ASSUME NEW f
    PROVE  LET a == oracle_field_info(Column(f)) IN
           /\ f.flag = 0 /\ f.type \in {"INT", "LNG", "NUM"} => a = SInt(8)
           /\ f.flag \in {2, -127} /\ f.type = "NUM" => a = Dec(8)
           /\ f.type = "FLT" => a = Dec(8)
           /\ f.type = "DAT" => a = Time(0)
           /\ f.type \in {"STR", "CHR", "AFC"} => a = Str
<1>1. Column(f).type = f.type /\ Column(f).flag = f.flag
  BY DEF Column
<1>2. ~ScaleIsPositive(0) /\ ScaleIsPositive(2) /\ ScaleIsPositive(-127)
  <2>1. ~ScaleIsPositive(0)
    BY DEF ScaleIsPositive
  <2>2. ScaleIsPositive(2)
    BY DEF ScaleIsPositive
  <2>3. ScaleIsPositive(-127)
    <3>1. \A x \in Int : -256 < x /\ x < 0 => x % 256 = x + 256
      OBVIOUS
    <3>2. PICK x \in Int : x = -127
      OBVIOUS
    <3>3. x % 256 = 129
      <4>1. -256 < x /\ x < 0 /\ x + 256 = 129
        BY <3>2
      <4>2. x % 256 = x + 256
        BY <3>1, <4>1
      <4> QED
        BY <4>1, <4>2
    <3>4. ScaleIsPositive(x)
      BY <3>3 DEF ScaleIsPositive
    <3> QED
      BY <3>2, <3>4, Zenon
  <2> QED
    BY <2>1, <2>2, <2>3
<1> QED
  BY <1>1, <1>2 DEF oracle_field_info, translate_oracle_type, oracle_types

\* The buffer of a text column, cut to the column's width.
OracleCols(v, width, junk) == SubSeq(v \o <<0>> \o [i \in 1..width |-> junk], 1, width)

\* However wide the column is, and with or without its blanks, the text ends
\* where it should.
LEMMA OracleText ==
    ASSUME NEW v \in Seq(Nat \ {0}), NEW junk \in Nat, NEW width \in Nat, width >= Len(v), NEW chop \in BOOLEAN,
           NEW cols, cols = OracleCols(v, width, junk),
           NEW kept, kept = IF chop /\ CString(cols) # <<>> THEN ChopBlanks(cols) ELSE cols
    PROVE  CString(Append(kept, 0)) = v \/ (chop /\ CString(Append(kept, 0)) = ChopBlanks(v))
<1>1. PICK n \in Nat : n = Len(v)
  OBVIOUS
<1>2. v \in Seq(Nat) /\ \A i \in 1..n : v[i] \in Nat \ {0}
  BY <1>1
<1> DEFINE j == [i \in 1..width |-> junk]
           w == (v \o <<0>>) \o j
<1>3. /\ w \in Seq(Nat) /\ Len(w) = n + 1 + width /\ \A i \in 1..n : w[i] = v[i]
      /\ w[n + 1] = 0
  <2>1. j \in Seq(Nat) /\ Len(j) = width
    OBVIOUS
  <2>2. v \o <<0>> \in Seq(Nat) /\ Len(v \o <<0>>) = n + 1 /\ (v \o <<0>>)[n + 1] = 0
        /\ \A i \in 1..n : (v \o <<0>>)[i] = v[i]
    BY <1>1, <1>2
  <2>3. PICK x : x = v \o <<0>>
    OBVIOUS
  <2>4. x \in Seq(Nat) /\ Len(x) = n + 1 /\ x[n + 1] = 0 /\ \A i \in 1..n : x[i] = v[i]
    BY <2>2, <2>3
  <2> HIDE DEF j
  <2>5. x \o j \in Seq(Nat) /\ Len(x \o j) = n + 1 + width /\ \A i \in 1..(n + 1) : (x \o j)[i] = x[i]
    <3>0. \A p, r \in Seq(Nat) : /\ p \o r \in Seq(Nat) /\ Len(p \o r) = Len(p) + Len(r)
                                 /\ \A i \in 1..Len(p) : (p \o r)[i] = p[i]
      OBVIOUS
    <3>1. x \o j \in Seq(Nat) /\ Len(x \o j) = Len(x) + Len(j) /\ \A i \in 1..Len(x) : (x \o j)[i] = x[i]
      BY <2>1, <2>4, <3>0, Zenon
    <3> QED
      BY <2>1, <2>4, <3>1
  <2>6. n + 1 \in 1..(n + 1) /\ \A i \in 1..n : i \in 1..(n + 1)
    BY <1>1
  <2> QED
    BY <2>3, <2>4, <2>5, <2>6
<1>4. cols = SubSeq(w, 1, width)
  BY DEF OracleCols
<1> HIDE DEF w
<1>5. cols \in Seq(Nat) /\ Len(cols) = width /\ \A i \in 1..width : cols[i] = w[i]
  BY <1>1, <1>3, <1>4
<1>6. CASE width = n
  <2>1. cols = v
    <3>1. cols = [i \in 1..n |-> cols[i]] /\ v = [i \in 1..n |-> v[i]]
      BY <1>1, <1>5, <1>6
    <3>2. \A i \in 1..n : cols[i] = v[i]
      BY <1>3, <1>5, <1>6
    <3> QED
      BY <3>1, <3>2
  <2>2. PICK m \in 0..Len(v) : ChopBlanks(v) = SubSeq(v, 1, m)
    BY <1>2, ChopSpec
  <2>3. ChopBlanks(v) \in Seq(Nat \ {0})
    BY <2>2
  <2>4. CString(Append(v, 0)) = v /\ CString(Append(ChopBlanks(v), 0)) = ChopBlanks(v)
    BY <2>3, TextIsCString
  <2> QED
    BY <2>1, <2>4
<1>7. CASE width > n
  <2>1. PICK m \in 0..width : kept = SubSeq(cols, 1, m) /\ m > n
    <3>1. CASE kept = cols
      <4>1. cols = SubSeq(cols, 1, width)
        BY <1>5
      <4> QED
        BY <1>1, <1>7, <3>1, <4>1
    <3>2. CASE kept = ChopBlanks(cols)
      <4>1. PICK m \in 0..width : /\ ChopBlanks(cols) = SubSeq(cols, 1, m)
                                  /\ \A i \in (m + 1)..width : cols[i] = 32
        <5>1. PICK k \in 0..Len(cols) : /\ ChopBlanks(cols) = SubSeq(cols, 1, k)
                                        /\ \A i \in (k + 1)..Len(cols) : cols[i] = 32
          BY <1>5, ChopSpec
        <5> QED
          BY <1>5, <5>1
      <4>2. cols[n + 1] = 0 /\ n + 1 \in 1..width
        BY <1>1, <1>3, <1>5, <1>7
      <4>3. m > n
        BY <1>1, <4>1, <4>2
      <4> QED
        BY <3>2, <4>1, <4>3
    <3> QED
      BY <3>1, <3>2
  <2>2. /\ kept \in Seq(Nat) /\ Len(kept) = m /\ \A i \in 1..m : kept[i] = cols[i]
    <3>1. cols \in Seq(Nat) /\ m \in 0..Len(cols) /\ kept = SubSeq(cols, 1, m)
      BY <1>5, <2>1
    <3>2. ASSUME NEW c \in Seq(Nat), NEW k \in 0..Len(c), NEW t, t = SubSeq(c, 1, k)
          PROVE  t \in Seq(Nat) /\ Len(t) = k /\ \A i \in 1..k : t[i] = c[i]
      BY <3>2
    <3> QED
      BY <3>1, <3>2
  <2>3. PICK s : s = Append(kept, 0)
    OBVIOUS
  <2>4. s \in Seq(Nat) /\ Len(s) = m + 1 /\ \A i \in 1..m : s[i] = kept[i]
    <3>1. s \in Seq(Nat) /\ Len(s) = Len(kept) + 1
      BY <2>2, <2>3
    <3>2. \A i \in 1..Len(kept) : s[i] = kept[i]
      BY <2>2, <2>3
    <3> QED
      BY <2>2, <3>1, <3>2
  <2>5. \A i \in 1..n : s[i] = v[i]
    BY <1>1, <1>3, <1>5, <1>7, <2>1, <2>2, <2>4
  <2>6. s[n + 1] = 0
    <3>1. n + 1 \in 1..m /\ n + 1 \in 1..width
      BY <1>1, <1>7, <2>1
    <3> QED
      BY <1>3, <1>5, <2>2, <2>4, <3>1
  <2>7. CString(s) = v
    <3>1. Len(s) > Len(v) /\ Len(v) + 1 = n + 1
      BY <1>1, <2>1, <2>4
    <3>2. (\A i \in 1..Len(v) : s[i] = v[i]) /\ s[Len(v) + 1] = 0
      BY <1>1, <2>5, <2>6
    <3> QED
      BY <2>4, <3>1, <3>2, CStringCut
  <2> QED
    BY <2>3, <2>7
<1> QED
  BY <1>1, <1>6, <1>7

\* What is stored for numbers and dates,
LEMMA OracleCases ==
    ASSUME NEW a, NEW raw, NEW width, NEW junk, NEW chop
    PROVE  /\ a.type = "INTEGER" => oracle_row_data(a, raw, width, junk, chop) = Field("d_longlong", <<Saturated(raw[1]), 0>>, 0)
           /\ a.type = "DECIMAL" => oracle_row_data(a, raw, width, junk, chop) = Field("d_double", raw, 0)
           /\ a.type = "DATETIME" => oracle_row_data(a, raw, width, junk, chop) = Field("d_datetime", oradate_to_time_t(raw), 0)
BY DEF oracle_row_data

\* and for a text, from the buffer that it was fetched into.
LEMMA OracleString ==
    ASSUME NEW a, NEW raw, NEW width, NEW junk, NEW chop, a.type = "STRING",
           NEW cols, cols = OracleCols(raw, width, junk),
           NEW kept, kept = IF chop /\ CString(cols) # <<>> THEN ChopBlanks(cols) ELSE cols
    PROVE  oracle_row_data(a, raw, width, junk, chop) = Field("d_string", Append(kept, 0), Len(kept))
BY DEF oracle_row_data, OracleCols

\* Oracle's columns, whatever oracle_chop_blanks says.
LEMMA OracleBack ==
    ASSUME NEW f \in oracle_fields, NEW option \in BOOLEAN, NEW junk \in Nat, NEW width \in Nat, width >= Len(f.value),
           NEW a, a = oracle_field_info(Column(f))
    PROVE  ReadsBack(f, Row(a, oracle_row_data(a, f.value, width, junk, option), option))
<1>1. PICK field, row : field = oracle_row_data(a, f.value, width, junk, option) /\ row = Row(a, field, option)
  OBVIOUS
<1>2. row.a = a /\ row.option = option
  BY <1>1 DEF Row
<1> DEFINE Good == /\ f.driver = "oracle" /\ ~field.null
                   /\ ~Lost(f, row) => \E v \in dbi_get(a, field) : v = f.value \/ (option /\ v = ChopBlanks(f.value))
<1>3. f.value # SqlNull
  BY DEF oracle_fields, NotNull
<1>4. ASSUME NEW n \in Int, a = SInt(8), f.value = <<n, 0>>, Fits(n, 8), f.driver = "oracle" PROVE Good
  <2>1. a.type = "INTEGER" /\ f.value[1] = n /\ Saturated(n) = n
    BY <1>4, ScalarTypes, SaturatedKeeps
  <2>2. field = Field("d_longlong", <<n, 0>>, 0)
    BY <1>1, <2>1, OracleCases
  <2>3. IntMember(8) = "d_longlong" /\ 8 \in Sizes
    BY DEF IntMember, Sizes
  <2>4. dbi_get(a, field) = {<<n, 0>>}
    BY <1>4, <2>2, <2>3, IntGet
  <2>5. ~field.null
    BY <2>2 DEF Field
  <2> QED
    BY <1>4, <2>4, <2>5
<1>5. ASSUME a = Dec(8), f.driver = "oracle" PROVE Good
  <2>1. a.type = "DECIMAL" /\ 8 \in {4, 8} /\ DecMember(8) = "d_double"
    BY <1>5, ScalarTypes DEF DecMember
  <2>2. field = Field("d_double", f.value, 0)
    BY <1>1, <2>1, OracleCases, ZenonT(30)
  <2>3. dbi_get(a, field) = {f.value}
    BY <1>5, <2>1, <2>2, DecRead
  <2>4. ~field.null
    BY <2>2 DEF Field
  <2> QED
    BY <1>5, <2>3, <2>4
<1>6. ASSUME a = Time(0), f.driver = "oracle", f.type = "DAT" PROVE Good
  <2>1. a.type = "DATETIME"
    BY <1>6, ScalarTypes
  <2>2. field = Field("d_datetime", oradate_to_time_t(f.value), 0)
    BY <1>1, <2>1, OracleCases, ZenonT(30)
  <2>3. ~field.null
    BY <2>2 DEF Field
  <2>4. Lost(f, row)
    BY <1>6 DEF Lost
  <2> QED
    BY <1>6, <2>3, <2>4
<1>7. ASSUME a = Str, f.driver = "oracle", f.value \in Seq(Nat \ {0}) PROVE Good
  <2>1. PICK cols : cols = OracleCols(f.value, width, junk)
    OBVIOUS
  <2>2. PICK kept : kept = IF option /\ CString(cols) # <<>> THEN ChopBlanks(cols) ELSE cols
    OBVIOUS
  <2>3. CString(Append(kept, 0)) = f.value \/ (option /\ CString(Append(kept, 0)) = ChopBlanks(f.value))
    <3>1. PICK v \in Seq(Nat \ {0}) : v = f.value
      BY <1>7
    <3>2. width >= Len(v) /\ cols = OracleCols(v, width, junk)
      BY <2>1, <3>1
    <3>3. CString(Append(kept, 0)) = v \/ (option /\ CString(Append(kept, 0)) = ChopBlanks(v))
      BY <2>2, <3>2, OracleText
    <3> QED
      BY <3>1, <3>3
  <2>4. a.type = "STRING"
    BY <1>7, ScalarTypes
  <2>5. field = Field("d_string", Append(kept, 0), Len(kept))
    BY <1>1, <2>1, <2>2, <2>4, OracleString
  <2>6. dbi_get(a, field) = {CString(Append(kept, 0))}
    BY <1>7, <2>5, StrRead
  <2>7. ~field.null
    BY <2>5 DEF Field
  <2> QED
    BY <1>7, <2>3, <2>6, <2>7
<1> HIDE DEF Good
<1>8. ASSUME f \in SignedIn("oracle", 0, [INT |-> 8, LNG |-> 8, NUM |-> 8]) PROVE Good
  <2>1. OfSigned(f, "oracle", 0, [INT |-> 8, LNG |-> 8, NUM |-> 8])
    BY <1>8, ColumnSigned, Zenon
  <2>2. /\ f.driver = "oracle" /\ f.type \in {"INT", "LNG", "NUM"} /\ f.flag = 0
        /\ \E n \in Int : f.value = <<n, 0>> /\ Fits(n, 8)
    BY <1>3, <2>1 DEF OfSigned
  <2> QED
    BY <1>4, <2>2, OracleTypes
<1>9. ASSUME f \in In("oracle", {"NUM"}, {2, -127}, Decimals) PROVE Good
  <2>1. Of(f, "oracle", {"NUM"}, {2, -127}, Decimals)
    BY <1>9, ColumnIn, Zenon
  <2>2. f.driver = "oracle" /\ f.type = "NUM" /\ f.flag \in {2, -127}
    BY <2>1 DEF Of
  <2> QED
    BY <1>5, <2>2, OracleTypes
<1>10. ASSUME f \in In("oracle", {"FLT"}, {0}, Decimals) PROVE Good
  <2>1. Of(f, "oracle", {"FLT"}, {0}, Decimals)
    BY <1>10, ColumnIn, Zenon
  <2> QED
    BY <1>5, <2>1, OracleTypes DEF Of
<1>11. ASSUME f \in In("oracle", {"DAT"}, {0}, Moments) PROVE Good
  <2>1. Of(f, "oracle", {"DAT"}, {0}, Moments)
    BY <1>11, ColumnIn, Zenon
  <2> QED
    BY <1>6, <2>1, OracleTypes DEF Of
<1>12. ASSUME f \in In("oracle", {"STR", "CHR", "AFC"}, {0}, Texts) PROVE Good
  <2>1. Of(f, "oracle", {"STR", "CHR", "AFC"}, {0}, Texts)
    BY <1>12, ColumnIn, Zenon
  <2> QED
    BY <1>3, <1>7, <2>1, OracleTypes, ValueForms DEF Of
<1>13. Good
  BY <1>8, <1>9, <1>10, <1>11, <1>12 DEF oracle_fields, NotNull
<1>14. f.driver = "oracle" /\ ~field.null
  BY <1>13 DEF Good
<1>15. Getter(f, row) = a
  BY <1>2, <1>14 DEF Getter
<1>16. CASE Lost(f, row)
  <2>1. PICK v : v \in Expected(f, row)
    BY <1>14 DEF Expected
  <2> QED
    BY <1>1, <1>3, <1>14, <1>16, <2>1, ValueBack
<1>17. CASE ~Lost(f, row)
  <2>1. PICK v \in dbi_get(a, field) : v = f.value \/ (option /\ v = ChopBlanks(f.value))
    BY <1>13, <1>17 DEF Good
  <2>2. v \in Expected(f, row)
    BY <1>2, <1>14, <2>1 DEF Expected
  <2> QED
    BY <1>1, <1>3, <1>14, <1>15, <2>1, <2>2, ValueBack
<1> QED
  BY <1>16, <1>17

\* Blanks that were put behind a number's text are taken away again.
LEMMA ChopPadded ==
    ASSUME NEW v \in Seq(Nat), v # <<>>, v[Len(v)] # 32,
           NEW raw \in Seq(Nat), Len(raw) >= Len(v), \A i \in 1..Len(v) : raw[i] = v[i],
           \A i \in (Len(v) + 1)..Len(raw) : raw[i] = 32
    PROVE  ChopBlanks(raw) = v
<1>1. PICK n \in Nat : n = Len(v) /\ n >= 1
  OBVIOUS
<1>2. PICK k \in Nat : k = Len(raw) /\ k >= n
  BY <1>1
<1>3. PICK m \in 0..k : /\ ChopBlanks(raw) = SubSeq(raw, 1, m) /\ (m = 0 \/ raw[m] # 32)
                        /\ \A i \in (m + 1)..k : raw[i] = 32
  BY <1>2, ChopSpec
<1>4. raw[n] # 32 /\ n \in 1..k
  BY <1>1, <1>2
<1>5. ~(m < n)
  BY <1>1, <1>2, <1>3, <1>4
<1>6. ~(m > n)
  BY <1>1, <1>2, <1>3
<1>7. m = n
  BY <1>1, <1>2, <1>3, <1>5, <1>6
<1>8. SubSeq(raw, 1, n) = v
  BY <1>1, <1>2
<1> QED
  BY <1>3, <1>7, <1>8

\* The blanks behind a converted number are cut off again.
LEMMA IngresNumber ==
    ASSUME NEW v \in NumberTexts, NEW raw \in {v, v \o << 32 >>, v \o << 32, 32 >>}
    PROVE  raw # SqlNull /\ ChopBlanks(raw) = v
<1>1. v \in Seq(Nat) /\ v # <<>> /\ v[Len(v)] # 32
  <2>1. v \in Seq(Nat \ {0}) /\ v # <<>> /\ v[Len(v)] # 32
    BY ReadingAssumption DEF NumberTexts
  <2> QED
    BY <2>1
<1>2. /\ raw \in Seq(Nat) /\ Len(raw) >= Len(v) /\ \A i \in 1..Len(v) : raw[i] = v[i]
      /\ \A i \in (Len(v) + 1)..Len(raw) : raw[i] = 32
  <2>1. CASE raw = v
    BY <1>1, <2>1
  <2>2. CASE raw = v \o <<32>>
    BY <1>1, <2>2
  <2>3. CASE raw = v \o <<32, 32>>
    BY <1>1, <2>3
  <2> QED
    BY <2>1, <2>2, <2>3
<1> QED
  BY <1>1, <1>2, ChopPadded, NoNull

\* The lowest of some positions.
LEMMA FirstIs ==
    ASSUME NEW P, NEW k \in P, \A i \in P : i \in Int /\ k <= i
    PROVE  First(P) = k
<1>1. PICK m : m = CHOOSE i \in P : \A j \in P : i <= j
  OBVIOUS
<1>2. m \in P /\ \A j \in P : m <= j
  BY <1>1
<1>3. m = k
  BY <1>2
<1> QED
  BY <1>1, <1>3 DEF First

\* A date with the name of its month, and without or with a time, is read
\* as the date that was written.
LEMMA DateReadBack ==
    ASSUME NEW v \in [1..6 -> Nat]
    PROVE  ingres_date(DateText(v, FALSE)) = v
<1>0. PICK d, m, y, h, mi, s \in Nat : /\ v[1] = d /\ v[2] = m /\ v[3] = y
                                       /\ v[4] = h /\ v[5] = mi /\ v[6] = s
  <2>1. v[1] \in Nat /\ v[2] \in Nat /\ v[3] \in Nat /\ v[4] \in Nat /\ v[5] \in Nat /\ v[6] \in Nat
    OBVIOUS
  <2> QED
    BY <2>1, Zenon
<1>1. BrokenDown(d, m, y, <<h, mi, s>>) = v
  <2>1. PICK w : w = <<d, m, y>> \o <<h, mi, s>>
    OBVIOUS
  <2>2. w \in Seq(Nat) /\ Len(w) = 6 /\ w[1] = d /\ w[2] = m /\ w[3] = y /\ w[4] = h /\ w[5] = mi /\ w[6] = s
    BY <2>1
  <2>3. \A i \in 1..6 : i = 1 \/ i = 2 \/ i = 3 \/ i = 4 \/ i = 5 \/ i = 6
    OBVIOUS
  <2>4. \A i \in 1..6 : w[i] = v[i]
    BY <1>0, <2>2, <2>3
  <2>5. w = [i \in 1..6 |-> w[i]] /\ v = [i \in 1..6 |-> v[i]]
    BY <2>2
  <2> QED
    BY <2>1, <2>4, <2>5 DEF BrokenDown
<1>2. PICK raw : raw = DateText(v, FALSE)
  OBVIOUS
<1>3. CASE h = 0 /\ mi = 0 /\ s = 0
  <2>1. raw = <<d, -1, -10 - m, -1, y>>
    BY <1>0, <1>2, <1>3 DEF DateText, dash, MonthName
  <2>2. Len(raw) = 5 /\ raw[1] = d /\ raw[2] = -1 /\ raw[3] = -10 - m /\ raw[4] = -1 /\ raw[5] = y
    BY <2>1
  <2>3. SecondSep(raw) = 4
    <3>1. {i \in 3..Len(raw) : raw[i] = raw[2]} = {4}
      <4>1. \A i \in 3..5 : i = 3 \/ i = 4 \/ i = 5
        OBVIOUS
      <4>2. raw[3] # raw[2] /\ raw[4] = raw[2] /\ raw[5] # raw[2]
        BY <2>2
      <4> QED
        BY <2>2, <4>1, <4>2
    <3>2. PICK P : P = {4}
      OBVIOUS
    <3>3. First(P) = 4
      BY <3>2, FirstIs
    <3> QED
      BY <3>1, <3>2, <3>3, Zenon DEF SecondSep
  <2>4. BehindBlanks(raw, 6) = 0
    BY <2>2 DEF BehindBlanks, First
  <2>5. atoi(raw, 5) = y /\ ~(raw[3] >= 0) /\ -10 - raw[3] = m /\ 4 + 1 = 5 /\ 5 + 1 = 6
    BY <2>2 DEF atoi
  <2>6. ingres_date(raw) = BrokenDown(d, m, y, <<0, 0, 0>>)
    BY <2>2, <2>3, <2>4, <2>5 DEF ingres_date
  <2> QED
    BY <1>1, <1>2, <1>3, <2>6
<1>4. CASE ~(h = 0 /\ mi = 0 /\ s = 0)
  <2>1. raw = <<d, -1, -10 - m, -1, y>> \o <<-2, h, -3, mi, -3, s>>
    BY <1>0, <1>2, <1>4 DEF DateText, dash, MonthName, blank, colon
  <2>2. /\ Len(raw) = 11 /\ raw[1] = d /\ raw[2] = -1 /\ raw[3] = -10 - m /\ raw[4] = -1 /\ raw[5] = y
        /\ raw[6] = -2 /\ raw[7] = h /\ raw[8] = -3 /\ raw[9] = mi /\ raw[10] = -3 /\ raw[11] = s
    BY <2>1
  <2>3. SecondSep(raw) = 4
    <3>1. {i \in 3..Len(raw) : raw[i] = raw[2]} = {4}
      <4>1. \A i \in 3..11 : i \in {3, 4, 5, 6, 7, 8, 9, 10, 11}
        OBVIOUS
      <4>2. raw[4] = raw[2] /\ \A i \in {3, 5, 6, 7, 8, 9, 10, 11} : raw[i] # raw[2]
        BY <2>2
      <4> QED
        BY <2>2, <4>1, <4>2
    <3>2. PICK P : P = {4}
      OBVIOUS
    <3>3. First(P) = 4
      BY <3>2, FirstIs
    <3> QED
      BY <3>1, <3>2, <3>3, Zenon DEF SecondSep
  <2>4. BehindBlanks(raw, 6) = 7
    <3> DEFINE P == {i \in 6..Len(raw) : raw[i] # blank}
    <3>1. 7 \in P /\ 6 \notin P
      BY <2>2 DEF blank
    <3>2. \A i \in P : i \in Int /\ 7 <= i
      <4> TAKE i \in P
      <4>1. i \in 6..11 /\ i # 6
        BY <2>2, <3>1
      <4> QED
        BY <4>1
    <3> HIDE DEF P
    <3>3. First(P) = 7
      BY <3>1, <3>2, FirstIs
    <3> QED
      BY <3>3 DEF BehindBlanks, P
  <2>5. /\ atoi(raw, 5) = y /\ ~(raw[3] >= 0) /\ -10 - raw[3] = m /\ 4 + 1 = 5 /\ 5 + 1 = 6
        /\ 7 + 2 = 9 /\ 7 + 4 = 11 /\ 7 + 3 = 10 /\ atoi(raw, 9) = mi /\ atoi(raw, 11) = s
    BY <2>2 DEF atoi
  <2>6. ingres_date(raw) = BrokenDown(d, m, y, <<h, mi, s>>)
    BY <2>2, <2>3, <2>4, <2>5 DEF ingres_date
  <2> QED
    BY <1>1, <1>2, <2>6
<1> QED
  BY <1>3, <1>4

\* The types that ingres_classify_field() announces.
LEMMA IngresTypes ==
    ASSUME NEW f
    PROVE  LET a == ingres_classify_field(Column(f)) IN
           /\ f.type = "INT1" => a = SInt(1)
           /\ f.type = "INT2" => a = SInt(2)
           /\ f.type = "INT4" => a = SInt(4)
           /\ f.type = "INT8" => a = SInt(8)
           /\ f.type = "FLT4" => a = Dec(4)
           /\ f.type = "FLT8" => a = Dec(8)
           /\ f.type \in {"VCH", "TXT", "CHA", "NVCH", "DEC", "MNY"} => a = Str
           /\ f.type \in {"BYTE", "VBYTE", "TABKEY"} => a = Bin
           /\ f.type = "DTE" => a = Time(0)
<1>1. Column(f).type = f.type
  BY DEF Column
<1> QED
  BY <1>1 DEF ingres_classify_field, ingres_types

\* What is stored for dates and for numbers that are read as text,
LEMMA IngresCases ==
    ASSUME NEW column, NEW raw
    PROVE  /\ column.type = "DTE" => ingres_field(column, raw) = Field("d_datetime", ingres_date(raw), 0)
           /\ column.type \in {"DEC", "MNY"} => ingres_field(column, raw) = Field("d_string", Append(ChopBlanks(raw), 0), Len(ChopBlanks(raw)))
BY DEF ingres_field

\* for integers,
LEMMA IngresIntCase ==
    ASSUME NEW column, NEW raw, column.type \in {"INT1", "INT2", "INT4", "INT8"},
           NEW a, a = ingres_classify_field(column), NEW b, a.size = b
    PROVE  ingres_field(column, raw) = Field(IntMember(b), raw, 0)
<1>1. ingres_types[column.type].size = b
  BY DEF ingres_classify_field
<1>2. ingres_field(column, raw) = Field(IntMember(ingres_types[column.type].size), raw, 0)
  BY DEF ingres_field
<1> QED
  BY <1>1, <1>2

\* for decimals,
LEMMA IngresDecCase ==
    ASSUME NEW column, NEW raw, column.type \in {"FLT4", "FLT8"},
           NEW a, a = ingres_classify_field(column), NEW b, a.size = b
    PROVE  ingres_field(column, raw) = Field(DecMember(b), raw, 0)
<1>1. ingres_types[column.type].size = b
  BY DEF ingres_classify_field
<1>2. ingres_field(column, raw) = Field(DecMember(ingres_types[column.type].size), raw, 0)
  BY DEF ingres_field
<1> QED
  BY <1>1, <1>2

\* and for texts and bytes.
LEMMA IngresTextCase ==
    ASSUME NEW column, NEW raw, column.type \in {"VCH", "TXT", "CHA", "NVCH", "BYTE", "VBYTE", "TABKEY"}
    PROVE  ingres_field(column, raw) = Field("d_string", Append(raw, 0), Len(raw))
BY DEF ingres_field

\* Ingres' columns, with the texts that it converts numbers and dates to.
LEMMA IngresBack ==
    ASSUME NEW f \in ingres_fields, NEW option \in BOOLEAN, NEW raw \in IngresTexts(f.type, f.value, option),
           NEW a, a = ingres_classify_field(Column(f))
    PROVE  ReadsBack(f, Row(a, ingres_row_data(Column(f), raw), option))
<1> PICK column : column = Column(f)
  OBVIOUS
<1> PICK field : field = ingres_row_data(column, raw)
  OBVIOUS
<1> PICK row : row = Row(a, field, option)
  OBVIOUS
<1>1. /\ column = Column(f) /\ field = ingres_row_data(column, raw) /\ row = Row(a, field, option)
      /\ row.option = option /\ column.type = f.type /\ a = ingres_classify_field(column)
      /\ raw # SqlNull => field = ingres_field(column, raw)
  BY DEF Row, Column, ingres_row_data
<1> DEFINE Good == /\ f.driver = "ingres"
                   /\ f.value = SqlNull \/ (~field.null /\ (~Lost(f, row) => f.value \in dbi_get(a, field)))
<1>2. ASSUME NEW b \in Sizes, NEW n \in Int, a = SInt(b), f.value = <<n, 0>>, f.driver = "ingres",
             f.type \in {"INT1", "INT2", "INT4", "INT8"} PROVE Good
  <2>1. f.value # SqlNull /\ a.size = b
    BY <1>2, NoNull, ScalarTypes
  <2>2. raw = f.value
    BY <1>2, <2>1 DEF IngresTexts
  <2>3. field = Field(IntMember(b), <<n, 0>>, 0)
    <3>1. field = ingres_field(column, raw) /\ column.type \in {"INT1", "INT2", "INT4", "INT8"}
      BY <1>1, <1>2, <2>1, <2>2
    <3>2. ingres_field(column, raw) = Field(IntMember(b), raw, 0)
      BY <1>1, <2>1, <3>1, IngresIntCase
    <3> QED
      BY <1>2, <2>2, <3>1, <3>2
  <2>4. ~field.null
    BY <2>3 DEF Field
  <2> QED
    BY <1>2, <2>3, <2>4, IntGet
<1>3. ASSUME NEW b \in {4, 8}, a = Dec(b), f.value # SqlNull, f.driver = "ingres", f.type \in {"FLT4", "FLT8"} PROVE Good
  <2>1. raw = f.value /\ a.size = b
    BY <1>3, ScalarTypes DEF IngresTexts
  <2>2. field = Field(DecMember(b), f.value, 0)
    <3>1. field = ingres_field(column, raw) /\ column.type \in {"FLT4", "FLT8"}
      BY <1>1, <1>3, <2>1
    <3>2. ingres_field(column, raw) = Field(DecMember(b), raw, 0)
      BY <1>1, <2>1, <3>1, IngresDecCase
    <3> QED
      BY <2>1, <3>1, <3>2
  <2>3. ~field.null
    BY <2>2 DEF Field
  <2> QED
    BY <1>3, <2>2, <2>3, DecRead
<1>4. ASSUME a = Str, f.value \in NumberTexts, f.driver = "ingres", f.type \in {"DEC", "MNY"} PROVE Good
  <2>1. f.value # SqlNull /\ f.value \in Seq(Nat \ {0})
    BY <1>4, ValueForms
  <2>2. raw \in {f.value, f.value \o <<32>>, f.value \o <<32, 32>>}
    BY <1>4, <2>1 DEF IngresTexts
  <2>3. raw # SqlNull /\ ChopBlanks(raw) = f.value
    BY <1>4, <2>2, IngresNumber
  <2>4. field = Field("d_string", Append(f.value, 0), Len(f.value))
    BY <1>1, <1>4, <2>3, IngresCases DEF ingres_row_data
  <2>5. ~field.null
    BY <2>4 DEF Field
  <2> QED
    BY <1>4, <2>1, <2>4, <2>5, StrRead, TextIsCString
<1>5. ASSUME a = Str, f.value \in Seq(Nat \ {0}), f.value # SqlNull, f.driver = "ingres",
             f.type \in {"VCH", "TXT", "CHA", "NVCH"} PROVE Good
  <2>1. raw = f.value
    BY <1>5 DEF IngresTexts
  <2>2. field = Field("d_string", Append(f.value, 0), Len(f.value))
    BY <1>1, <1>5, <2>1, IngresTextCase DEF ingres_row_data
  <2>3. ~field.null
    BY <2>2 DEF Field
  <2> QED
    BY <1>5, <2>2, <2>3, StrRead, TextIsCString
<1>6. ASSUME a = Bin, f.value \in Seq(Nat), f.value # SqlNull, f.driver = "ingres",
             f.type \in {"BYTE", "VBYTE", "TABKEY"} PROVE Good
  <2>1. raw = f.value
    BY <1>6 DEF IngresTexts
  <2>2. PICK s, k : s = Append(f.value, 0) /\ k = Len(f.value)
    OBVIOUS
  <2>3. field = Field("d_string", s, k)
    BY <1>1, <1>6, <2>1, <2>2, IngresTextCase DEF ingres_row_data
  <2>4. ~field.null
    BY <2>3 DEF Field
  <2>5. s \in Seq(Nat) /\ k \in 0..Len(s) /\ SubSeq(s, 1, k) = f.value
    BY <1>6, <2>2
  <2> QED
    BY <1>6, <2>3, <2>4, <2>5, BinRead
<1>7. ASSUME a = Time(0), f.value \in Dates, f.driver = "ingres", f.type = "DTE" PROVE Good
  <2>1. f.value # SqlNull /\ f.value \in [1..6 -> Nat]
    BY <1>7, NoNull, ReadingAssumption
  <2>2. raw = DateText(f.value, option)
    BY <1>7, <2>1 DEF IngresTexts
  <2>3. raw # SqlNull
    <3>1. raw[1] = f.value[1] /\ f.value[1] \in Nat
      BY <2>1, <2>2 DEF DateText
    <3>2. SqlNull[1] = -1
      BY DEF SqlNull
    <3> QED
      BY <3>1, <3>2
  <2>4. field = Field("d_datetime", ingres_date(raw), 0)
    BY <1>1, <1>7, <2>3, IngresCases DEF ingres_row_data
  <2>5. ~field.null
    BY <2>4 DEF Field
  <2>6. option = TRUE => Lost(f, row)
    BY <1>1, <1>7 DEF Lost
  <2>7. ASSUME option = FALSE PROVE f.value \in dbi_get(a, field)
    <3>1. raw = DateText(f.value, FALSE)
      BY <2>2, <2>7, Zenon
    <3>2. ingres_date(raw) = f.value
      BY <2>1, <3>1, DateReadBack, Zenon
    <3> QED
      BY <1>7, <2>4, <3>2 DEF dbi_get, Time, Announced, Field
  <2> QED
    BY <1>7, <2>5, <2>6, <2>7
<1> HIDE DEF Good
<1> DEFINE sz == [INT1 |-> 1, INT2 |-> 2, INT4 |-> 4, INT8 |-> 8]
<1>8. ASSUME f \in SignedIn("ingres", FALSE, [INT1 |-> 1, INT2 |-> 2, INT4 |-> 4, INT8 |-> 8]) PROVE Good
  <2>1. OfSigned(f, "ingres", FALSE, sz)
    BY <1>8, ColumnSigned, Zenon
  <2>2. /\ f.driver = "ingres" /\ f.type \in {"INT1", "INT2", "INT4", "INT8"}
        /\ f.value = SqlNull \/ \E n \in Int : f.value = <<n, 0>>
    BY <2>1 DEF OfSigned
  <2>3. PICK b \in Sizes : a = SInt(b)
    BY <2>2, IngresTypes DEF Sizes
  <2>4. CASE f.value = SqlNull
    BY <2>2, <2>4 DEF Good
  <2> QED
    BY <1>2, <2>2, <2>3, <2>4
<1>9. ASSUME f \in In("ingres", {"FLT4", "FLT8"}, {FALSE}, Decimals) PROVE Good
  <2>1. Of(f, "ingres", {"FLT4", "FLT8"}, {FALSE}, Decimals)
    BY <1>9, ColumnIn, Zenon
  <2>2. f.driver = "ingres" /\ f.type \in {"FLT4", "FLT8"}
    BY <2>1 DEF Of
  <2>3. PICK b \in {4, 8} : a = Dec(b)
    BY <2>2, IngresTypes
  <2>4. CASE f.value = SqlNull
    BY <2>2, <2>4 DEF Good
  <2> QED
    BY <1>3, <2>2, <2>3, <2>4
<1>10. ASSUME f \in In("ingres", {"DEC", "MNY"}, {FALSE}, NumberTexts) PROVE Good
  <2>1. Of(f, "ingres", {"DEC", "MNY"}, {FALSE}, NumberTexts)
    BY <1>10, ColumnIn, Zenon
  <2>2. f.driver = "ingres" /\ f.type \in {"DEC", "MNY"} /\ (f.value = SqlNull \/ f.value \in NumberTexts)
    BY <2>1 DEF Of
  <2>3. CASE f.value = SqlNull
    BY <2>2, <2>3 DEF Good
  <2> QED
    BY <1>4, <2>2, <2>3, IngresTypes
<1>11. ASSUME f \in In("ingres", {"VCH", "TXT", "CHA", "NVCH"}, {FALSE}, Texts) PROVE Good
  <2>1. Of(f, "ingres", {"VCH", "TXT", "CHA", "NVCH"}, {FALSE}, Texts)
    BY <1>11, ColumnIn, Zenon
  <2>2. f.driver = "ingres" /\ f.type \in {"VCH", "TXT", "CHA", "NVCH"} /\ (f.value = SqlNull \/ f.value \in Texts)
    BY <2>1 DEF Of
  <2>3. CASE f.value = SqlNull
    BY <2>2, <2>3 DEF Good
  <2> QED
    BY <1>5, <2>2, <2>3, IngresTypes, ValueForms
<1>12. ASSUME f \in In("ingres", {"BYTE", "VBYTE", "TABKEY"}, {FALSE}, Bytes) PROVE Good
  <2>1. Of(f, "ingres", {"BYTE", "VBYTE", "TABKEY"}, {FALSE}, Bytes)
    BY <1>12, ColumnIn, Zenon
  <2>2. f.driver = "ingres" /\ f.type \in {"BYTE", "VBYTE", "TABKEY"} /\ (f.value = SqlNull \/ f.value \in Bytes)
    BY <2>1 DEF Of
  <2>3. CASE f.value = SqlNull
    BY <2>2, <2>3 DEF Good
  <2> QED
    BY <1>6, <2>2, <2>3, IngresTypes, ValueForms
<1>13. ASSUME f \in In("ingres", {"DTE"}, {FALSE}, Dates) PROVE Good
  <2>1. Of(f, "ingres", {"DTE"}, {FALSE}, Dates)
    BY <1>13, ColumnIn, Zenon
  <2>2. f.driver = "ingres" /\ f.type = "DTE" /\ (f.value = SqlNull \/ f.value \in Dates)
    BY <2>1 DEF Of
  <2>3. CASE f.value = SqlNull
    BY <2>2, <2>3 DEF Good
  <2> QED
    BY <1>7, <2>2, <2>3, IngresTypes
<1>14. Good
  BY <1>8, <1>9, <1>10, <1>11, <1>12, <1>13 DEF ingres_fields
<1>15. f.driver = "ingres"
  BY <1>14 DEF Good
<1>16. CASE f.value = SqlNull
  <2>1. field = NullField
    BY <1>1, <1>16 DEF IngresTexts, ingres_row_data
  <2> QED
    BY <1>1, <1>15, <1>16, <2>1, NullBack
<1>17. CASE f.value # SqlNull
  BY <1>1, <1>14, <1>17, PlainBack DEF Good
<1> QED
  BY <1>16, <1>17

-----------------------------------------------------------------------------
(* Fields: the theorem *)

\* Whatever column is read, it is one of the drivers', and is read back.
LEMMA FieldStep ==
    ASSUME FieldInputs, ReadField
    PROVE  FieldInputs' /\ FieldsReadBack'
<1>1. PICK f : f = input /\ f = input'
  BY DEF ReadField
<1>2. FieldInputs'
  BY <1>1 DEF FieldInputs
<1>3. Column(f) = [type |-> input.type, flag |-> input.flag]
  BY <1>1 DEF Column
<1>4. ASSUME NEW row, output' = <<row>>, ReadsBack(f, row) PROVE FieldsReadBack'
  <2>1. output'[1] = row
    BY <1>4
  <2> QED
    BY <1>1, <1>4, <2>1 DEF FieldsReadBack
<1>6. ASSUME f \in mysql_fields PROVE FieldsReadBack'
  <2>1. PICK a : a = mysql_field_info(Column(f))
    OBVIOUS
  <2>2. f.driver = "mysql"
    BY <1>6, <2>1, MysqlSuits
  <2>3. PICK option \in BOOLEAN : output' = <<Row(a, mysql_row_data(a, f.value, option), option)>>
    BY <1>1, <1>3, <2>1, <2>2 DEF ReadField
  <2> QED
    BY <1>4, <1>6, <2>1, <2>3, MysqlBack
<1>7. ASSUME f \in pgsql_fields PROVE FieldsReadBack'
  <2>1. PICK a : a = pgsql_field_info(Column(f))
    OBVIOUS
  <2>2. f.driver = "pgsql"
    BY <1>7, <2>1, PgsqlSuits
  <2>3. PICK option \in {FALSE} : output' = <<Row(a, pgsql_row_data(a, RawOf(f, a)), option)>>
    BY <1>1, <1>3, <2>1, <2>2 DEF ReadField, RawOf
  <2>4. PICK row : row = Row(a, pgsql_row_data(a, RawOf(f, a)), option)
    OBVIOUS
  <2>5. ReadsBack(f, row)
    BY <1>7, <2>1, <2>4, PgsqlBack
  <2> QED
    BY <1>4, <2>3, <2>4, <2>5
<1>8. ASSUME f \in sqlite_fields("sqlite3") PROVE FieldsReadBack'
  <2>1. PICK a : a = translate_sqlite3_type(Column(f))
    OBVIOUS
  <2>2. f.driver = "sqlite3"
    BY <1>8, <2>1, SqliteSuits
  <2>3. PICK c, r \in 0..1, option \in {FALSE} : output' = <<Row(a, sqlite3_row_data(a, SomeTable(RawOf(f, a), c, r), c, r, 2), option)>>
    BY <1>1, <1>3, <2>1, <2>2 DEF ReadField, RawOf
  <2>4. PICK row : row = Row(a, sqlite3_row_data(a, SomeTable(RawOf(f, a), c, r), c, r, 2), option)
    OBVIOUS
  <2>5. ReadsBack(f, row)
    BY <1>8, <2>1, <2>4, SqliteBack
  <2> QED
    BY <1>4, <2>3, <2>4, <2>5
<1>9. ASSUME f \in sqlite_fields("sqlite") PROVE FieldsReadBack'
  <2>1. PICK a : a = translate_sqlite3_type(Column(f))
    OBVIOUS
  <2>2. f.driver = "sqlite"
    BY <1>9, <2>1, SqliteSuits
  <2>3. PICK c, r \in 0..1, option \in {FALSE} : output' = <<Row(a, sqlite3_row_data(a, SomeTable(RawOf(f, a), c, r), c, r, 2), option)>>
    BY <1>1, <1>3, <2>1, <2>2 DEF ReadField, RawOf, sqlite_row_data, translate_sqlite_type
  <2>4. PICK row : row = Row(a, sqlite3_row_data(a, SomeTable(RawOf(f, a), c, r), c, r, 2), option)
    OBVIOUS
  <2>5. ReadsBack(f, row)
    BY <1>9, <2>1, <2>4, SqliteBack
  <2> QED
    BY <1>4, <2>3, <2>4, <2>5
<1>10. ASSUME f \in msql_fields PROVE FieldsReadBack'
  <2>1. PICK a : a = msql_field_info(Column(f))
    OBVIOUS
  <2>2. f.driver = "msql"
    BY <1>10, <2>1, MsqlSuits
  <2>3. PICK option \in {FALSE} : output' = <<Row(a, msql_row_data(a, f.value), option)>>
    BY <1>1, <1>3, <2>1, <2>2 DEF ReadField
  <2>4. PICK row : row = Row(a, msql_row_data(a, f.value), option)
    OBVIOUS
  <2>5. ReadsBack(f, row)
    BY <1>10, <2>1, <2>4, MsqlBack
  <2> QED
    BY <1>4, <2>3, <2>4, <2>5
<1>11. ASSUME f \in freetds_fields PROVE FieldsReadBack'
  <2>1. PICK a : a = translate_freetds_type(Column(f))
    OBVIOUS
  <2>2. f.driver = "freetds"
    BY <1>11 DEF freetds_fields, NotNull, SignedIn, UnsignedIn, In
  <2>3. PICK option \in {FALSE} : output' = <<Row(a, freetds_row_data(a, Column(f), RawOf(f, a)), option)>>
    BY <1>1, <1>3, <2>1, <2>2 DEF ReadField, RawOf
  <2>4. PICK row : row = Row(a, freetds_row_data(a, Column(f), RawOf(f, a)), option)
    OBVIOUS
  <2>5. ReadsBack(f, row)
    BY <1>11, <2>1, <2>4, FreetdsBack
  <2> QED
    BY <1>4, <2>3, <2>4, <2>5
<1>12. ASSUME f \in oracle_fields PROVE FieldsReadBack'
  <2>1. PICK a : a = oracle_field_info(Column(f))
    OBVIOUS
  <2>2. f.driver = "oracle"
    BY <1>12 DEF oracle_fields, NotNull, SignedIn, In
  <2>3. PICK option \in BOOLEAN, junk \in {32, 65}, width \in Len(f.value)..(Len(f.value) + 2) :
          output' = <<Row(a, oracle_row_data(a, f.value, width, junk, option), option)>>
    BY <1>1, <1>3, <2>1, <2>2 DEF ReadField
  <2>4. Len(f.value) \in Nat
    BY <1>12 DEF oracle_fields, NotNull
  <2>5. width \in Nat /\ width >= Len(f.value) /\ junk \in Nat
    BY <2>4
  <2> QED
    BY <1>4, <1>12, <2>1, <2>3, <2>5, OracleBack
<1>13. ASSUME f \in ingres_fields PROVE FieldsReadBack'
  <2>1. PICK a : a = ingres_classify_field(Column(f))
    OBVIOUS
  <2>2. f.driver = "ingres"
    BY <1>13 DEF ingres_fields, SignedIn, In
  <2>3. PICK option \in BOOLEAN : \E raw \in IngresTexts(f.type, f.value, option) :
          output' = <<Row(a, ingres_row_data(Column(f), raw), option)>>
    BY <1>1, <1>3, <2>1, <2>2 DEF ReadField
  <2>4. PICK raw \in IngresTexts(f.type, f.value, option) :
          output' = <<Row(a, ingres_row_data(Column(f), raw), option)>>
    BY <2>3
  <2> QED
    BY <1>4, <1>13, <2>1, <2>4, IngresBack
<1> QED
  BY <1>1, <1>2, <1>6, <1>7, <1>8, <1>9, <1>10, <1>11, <1>12, <1>13 DEF FieldInputs

\* For integers of the whole range of their type, and for decimals, dates,
\* texts and bytes without bound: what _get_row_data() of each driver stores
\* is what libdbi's getter for the type announced by _get_field_info() reads
\* as the column's value, and NULL stays NULL.  (The firebird driver's blobs
\* are read in a loop, and its fields are left to the run.)
THEOREM FieldsReadBackHolds == FieldSpec => []FieldsReadBack
<1> DEFINE Inv == FieldInputs /\ FieldsReadBack
<1>1. FieldInit => Inv
  BY DEF FieldInit, FieldsReadBack, Done
<1>2. Inv /\ [ReadField]_callVars => Inv'
  <2>1. ASSUME Inv, ReadField PROVE Inv'
    BY <2>1, FieldStep
  <2>2. ASSUME Inv, UNCHANGED callVars PROVE Inv'
    BY <2>2 DEF callVars, FieldInputs, FieldsReadBack, Done
  <2> QED
    BY <2>1, <2>2
<1>3. Inv => FieldsReadBack
  OBVIOUS
<1> QED
  BY <1>1, <1>2, <1>3, PTL DEF FieldSpec
=============================================================================
