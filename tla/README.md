# TLA+ models of libdbi-drivers

libdbi-drivers is a set of shared objects, one per database engine, that libdbi
loads and calls through a table of functions (`dbd_connect`, `dbd_query`,
`dbd_fetch_row`, `dbd_select_db`, `dbd_ping`, ...). The drivers are synchronous
C: one application thread, one connection, one call at a time. What makes them
hard is not threads but everything that a call leaves behind when the client
library or the server refuses, and what the *next* call does with it: handles,
current database, transactions, unread answers, row counts, row caches.

The modules here follow the drivers at that level. Every operation of a driver
is an action, each client-library call that may fail is a choice, and the
server may go away between any two calls. The conversions between C, SQL text
and libdbi's values (fields, literals, column types, patterns, encodings) are
operators, applied to every input of small sets. Messages are left out.

## 1. Inventory

| Component (source) | State | Operations | Interacts with |
|---|---|---|---|
| **libdbi** (external) | `dbi_conn_t` (`connection`, `current_db`, options), `dbi_result_t` (`numrows_matched`, `rows[]` from index 1, `currowidx`) | seek_row (cache, then `goto_row` and `fetch_row`), select_db, free | calls the driver; the driver calls `_dbd_result_create`, `_dbd_row_finalize` |
| **ingres** (`drivers/ingres/dbd_ingres.c`) | `ingres_conn_t`: session, `currTran`, autocommit, `sysConn`; result: statement handle | connect, disconnect, select_db, query, COMMIT and ROLLBACK, list_dbs (second connection), list_tables (a connection per call), sequences, fetch of all rows at once | OpenAPI |
| **pgsql** (`drivers/pgsql/dbd_pgsql.c`) | one `PGconn`, `current_db` | connect, select_db (reconnect), ping (`PQreset`), query | libpq |
| **mysql** (`drivers/mysql/dbd_mysql.c`) | one `MYSQL`, cursor of each `MYSQL_RES` | connect, select_db in place, query, goto/fetch, get_encoding (up to three nested queries) | libmysqlclient |
| **sqlite3** (`drivers/sqlite3/dbd_sqlite3.c`) | one `sqlite3*`, two temporary tables for listings | connect, select_db (close and open), list_dbs (directory scan), list_tables (second connection), query, field types by reading SQL text, LIKE matching | SQLite, file system |
| **firebird** (`drivers/firebird/*.c`) | `ibase_conn_t`: attachment and one transaction; forward cursor | connect, query by statement type, DDL commit, fetch with an open-ended row count, select_db, ping, generators | fbclient |
| **freetds** (`drivers/freetds/dbd_freetds.c`) | `FREETDSCON`, unread answers of the command, row being bound | connect, dbd_query (loop over ct_results/ct_fetch), select_db, list_tables (USE, query, USE back), ping (disconnect and connect) | ct-lib |
| **oracle** (`drivers/oracle/dbd_oracle.c`) | `Oraconn`: environment, error, service handles; statement handle per result | connect, query (scroll to the last row to count), absolute fetch, free, ping (disconnect and connect) | OCI |
| **sqlite** (`drivers/sqlite/dbd_sqlite.c`, SQLite 2) | one `sqlite*`, two temporary tables | as sqlite3, in an older form: other order of checks at connect, first table only for types | SQLite 2, file system |
| **msql** (`drivers/msql/dbd_msql.c`) | one socket, cursor of each `m_result` | as mysql, without encodings and transactions | libmsql |
| **conversions** (in every driver) | none | column type to libdbi type, row data to the union of `dbi_data_t`, quote_string, quote_binary, encoding to and from IANA names | libdbi's getters read what they write |
| tests, build, manuals | none | `tests/test_dbi.c` is one linear script | - |

What is hard here, and what correctness means for it:

* **Reconnecting calls.** select_db (pgsql, sqlite3, firebird, ingres) and ping
  (firebird, freetds, oracle, pgsql) close a connection and open another, and
  either half may fail. Correct: one live session, no handle to a closed one in
  use, and statements run on the database that the caller was last told.
* **Rows fetched on demand.** libdbi asks for row *k* and caches it; the client
  libraries have cursors that are relative (mysql), forward only (firebird) or
  absolute (oracle), or the driver fetches everything at once (ingres,
  freetds). Correct: the row shown is the row asked for, the announced count is
  the count of rows that can be had, and a reported success means all rows.
* **Buffers that move.** Row arrays and BLOB buffers grow while they are
  filled, and fetch buffers are handed over to rows.
* **Driver-internal statements.** Listings and encodings are found by queries
  of the driver's own, on the caller's connection or on a second one. Correct:
  they leave no transaction, session, result, temporary data or database
  switch behind, and undo nothing of the caller.
* **Unread answers.** ct-lib and libmysqlclient refuse a command while an
  earlier answer is not read to its end.
* **Conversions in two places.** One function announces a column's type,
  another fills a member of a union, libdbi reads the member of the announced
  type. One function escapes, the server unescapes, a third sizes the buffer.
  Correct: what went in comes out, at the ends of every range.
* **Text scanned by hand.** The SQLite drivers find the types of a result's
  columns by taking the SELECT statement and the CREATE TABLE statement apart.
* **Transactions** that the driver begins or commits by itself (ingres
  autocommit, firebird DDL).

`PROJECT.json` lists the same as `hazards`, each at its line, with the
properties that look after it or the reason why none does.

## 2. Modules

| Module | Models | Notes |
|---|---|---|
| `DbdSession` | abstract | what libdbi relies on of a connection: attached to the database last reported, or to none |
| `DbiRows` | abstract | what libdbi relies on of rows: the row asked for is the row shown, in any order |
| `IngresResults` | `ingres_results()`, `ingres_field()`'s buffers, `dbd_free_query()` | one action per step of the loop; `MCIngresResults` gives column layouts |
| `IngresResultsProofs` | | inductive invariants and eight theorems |
| `IngresSession`, `IngresSessionProofs` | connections and transactions of the ingres driver | main and catalog connection, sessions left by list_tables or by a refused disconnect; four theorems |
| `PgsqlSession`, `PgsqlSessionProofs` | the pgsql connection | implements `DbdSession`; four theorems |
| `Sqlite3Session` | the sqlite3 connection and its listings | implements `DbdSession` |
| `SqliteSession` | the same of the older sqlite driver, as `v2_` actions beside those of `Sqlite3Session` | a variable says which of the two drivers a behaviour is of; `SqliteAndQuotingProofs` has two theorems, about both |
| `Calls` | | the input and the output of one call, the variables of the conversions |
| `WildCompare` | `wild_case_compare()` | recursive functions over positions in the name and the pattern, next to the LIKE relation; two theorems in `SqliteAndQuotingProofs` |
| `CStrings` | `strchr`, `strstr`, `strtok`, ... on sequences of lexemes | external |
| `SqliteFieldTypes` | `find_result_field_types()`, `getTables()`, `get_field_type()` of both SQLite drivers | a statement is a sequence of words and marks |
| `FieldValues` | `_translate_*_type()`, `_get_field_info()`, `_get_row_data()` of eight drivers | a value is a sequence; the getters of libdbi are external |
| `FieldReading` | one field of `dbd_fetch_row()`: the columns of each driver but firebird, and the call | from the server's column to what the application gets; one theorem in `SqliteAndQuotingProofs` |
| `FirebirdValues` | the same of the firebird driver | a BLOB arrives in segments; the loop over them is a recursive operator |
| `Quoting` | `dbd_quote_string()`, `dbd_quote_binary()` and the escape functions of all nine drivers | the server's reading of a literal is external; joining and reading are recursive functions over positions; one theorem in `SqliteAndQuotingProofs` |
| `Encodings` | encoding tables, `dbd_encoding_to_iana()`, `_from_iana()`, `dbd_get_encoding()` of mysql, pgsql, firebird, freetds | names are compared as the code compares them, whole or by prefix |
| `Conversions` | run module: one behaviour is one call of a conversion | inputs and the reference definitions |
| `MysqlDriver`, `MysqlDriverProofs` | connection, results and, query by query, `dbd_get_encoding()` of the mysql driver | implements `DbdSession` and `DbiRows`; three theorems |
| `FirebirdDriver`, `FirebirdDriverProofs` | connection, transaction, cursor of the firebird driver | implements `DbdSession` and `DbiRows`; four theorems |
| `FreetdsDriver`, `FreetdsDriverProofs` | `dbd_query()` step by step, and the calls built on it | five theorems |
| `OracleDriver`, `OracleDriverProofs` | OCI handles, results and ping | four theorems |

How state and actions correspond to the code:

* **Handles and heap blocks are numbers**, 0 is NULL, and numbers are not
  reused, so that a stale handle can be told from a live one.
  `connection`, `current_db`, `result`, `count`, `limit`, `blobmax`, ... are the
  C variables of that name.
* **Client libraries are choices.** `ServerGone`, the outcomes of a commit or
  of a query, and libdbi's row cache are marked external in the map.
* **An action is a whole driver function**, with some exceptions: the loops of
  `ingres_results()` and the freetds `dbd_query()`, mysql's `dbd_get_encoding()`
  and the statements of the oracle driver are cut at the client calls, because
  the properties are about what has happened up to each of them, or the server
  may go away in between. `pc` (`asking` in mysql) names the place.
* **Undefined behaviour** (following a NULL or freed connection) either ends
  the behaviour (`ub`, `crashed`) or is a choice over what memory may hold
  (a row stored past the array, the length in a NULL BLOB).
* A definition called `X_something` just before `X` is `X` with a plausible
  mistake in it. It is used nowhere; it documents which mistake a property finds.

* **Values are abstract.** A number is `<<integer, fraction>>` with bytes of
  `Byte` values (256 in C, any even number in the proofs), so that the ends of the range of a 1, 2, 3, 4 and 8 byte type
  stay small and different; a date is the tuple of its parts; a text is a
  sequence of characters of which only the special ones differ.
* **Copies are modelled once.** The escape and quote functions of sqlite and
  oracle are copies of sqlite3's, and several `_get_row_data()` share their cases
  for integers, decimals and dates: the definitions share operators, and the map
  names each copy.

Several calls that change nothing of the modelled state (a ping that is
answered, `geterror`) have no action.

## 3. Runs

All passing runs check for deadlock; a closed connection stutters explicitly.

| Run | Instance | What it shows |
|---|---|---|
| `IngresResults` | columns fixed, BLOB, copied; 0 to 3 rows; up to 3 segments of 0 to 2 bytes; row array 1, then 3; failing server, conversions and tested allocations | rows complete and in place, blocks not shared, BLOB buffer not exceeded, published rows exist, statement closed once, the loop ends |
| `IngresResults_bounds` | the driver's own 10 and 4, 40 rows | **violated**: row 40 is stored one past the enlarged array (`GrowsAsNecessary`) |
| `IngresSession` | both option values, 10 service handles, 2 uncommitted statements, all failures | `currTran` is the live transaction, catalog queries leave none and undo no work, each session has an owner but those of list_tables and those that refused to be closed |
| `IngresSession_commits` | autocommit | **violated**: COMMIT ends autocommit (`AutocommitCommits`) |
| `Conversions` | names and patterns of up to 4 over `a b h % _` and escape; each column type of each driver with the ends of its range and NULL; texts of up to 3 of seven characters (plain, the two quotes, backslash, control-Z, `0`, `Z`) and bytes of up to 5 of four (NUL, quote, backslash, `0`); statements from a grammar of columns, plain, nested and qualified calls, joins in the middle and at the end, nested selects, tails and as many tables as the array holds and one more; each row of four encoding tables, with calls that fail | `MatchIsLike`, `MinusOneIsFinal`: equal to LIKE, and -1 means that no shorter rest can match. `FieldsReadBack`: the getter reads the column's value. `QuotedReadBack`: the server reads the original, the length and the buffer fit. `ColumnTypesFound`: the type that the manual promises, or the one that the scan is known to find instead. `EncodingTrue`: the encoding told is the one in use |
| `PgsqlSession` | 2 databases, one of them the user's default, 5 connections | one `PGconn`, `current_db` true when a name was given, `DbdSession` |
| `SqliteSession` | both SQLite drivers, 2 databases, 2 tables, 3 handles, ten kinds of failure | listings show nothing stale unless the DROP failed, a failed INSERT into the list of databases is reported, `DbdSession` |
| `MysqlDriver` | 2 databases, 2 connections, 3 rows, multi statements | encoding results freed once but on the one way out with a slip, `DbdSession`, `DbiRows` |
| `MysqlDriver_multi` | same | **violated**: a second result is never read and blocks the connection (`MultipleResultsHandled`) |
| `FirebirdDriver` | 2 databases, 3 connections, 2 rows, 2 changes | count one ahead of the cursor, changes kept unless a commit is refused, `DbdSession`, `DbiRows` |
| `FreetdsDriver` | 2 databases, 2 connections, 3 results per command, 2 rows each | rows complete, a result means no unread answer, ping recovers and leaves no second session, list_tables returns to the selected database; `ct_cancel()` and the USE back may be refused |
| `OracleDriver` | 3 connections, 3 rows | each statement handle freed once, results can be freed after a reconnect, no row shown as another; logoff and fetch may be refused |

Why the bounds are enough to make the interesting cases happen:

* Two databases tell "the one asked for" from "the other one". Two connections
  are one reconnect; a second reconnect (after a failed one) needs three.
* The row array of the ingres run is enlarged once within three rows, and the
  third segment comes after a doubling of the BLOB buffer. The column layout
  has a group before and a group after the BLOB. That larger instances behave
  alike is what the proofs add.
* Three rows can be visited in an order that is neither forward nor backward.
* Three answers to one command are a row result, another one and CMD_DONE;
  two rows make the lagging conversion happen inside and after the loop.
* Patterns of four characters hold two `%` with a character before, between or
  after, or an escape after a `%`: all paths of the recursion.
* Texts of three characters have a special one before, between and after plain
  ones and after another special one; five bytes lie on both sides of the four
  from which on the buffers of `quote_binary` are large enough. `Byte` = 4
  keeps the number of values of 8 bytes at 65536 and all ends of ranges apart. A BLOB of three bytes
  in segments of `BlobSegment` = 2 has a full and a short segment.
* `MAX_TABLES_IN_QUERY` = 3 (50 in the code): statements of the run name exactly
  three tables and four; the fourth is stored past the array, unchecked.

**Properties worth reading first.** `BlocksOwned` (IngresResults): no two values
of a result share memory, and none lies in a buffer still in use. `KeepsWork`
and `CatalogsQuiet` (IngresSession): a catalog query neither undoes the
caller's work nor leaves a transaction. `ContractSpec` (pgsql, sqlite, sqlite3,
mysql, firebird): refinement of `DbdSession`. `RowsSpec` (mysql, firebird):
refinement of `DbiRows` although mysql's `dbd_fetch_row()` ignores its argument
and firebird's `dbd_goto_row()` does nothing. `ResultMeansInSync` and
`SelectedDbKept` (freetds).

**What the properties do not claim**, because the code does otherwise:

* `BlobInBounds` assumes that the length found in a NULL BLOB is no longer than
  a segment (`dbd_ingres.c:781` reads it before looking at `dv_null`).
* `SmallResultInBounds` and `PublishedRows` are about results of fewer than
  INITIAL_ROWS * ROW_FACTOR rows; the run `IngresResults_bounds` shows why.
* `BlocksOwned` does not say that a BLOB's block is alive: an empty BLOB is
  shrunk with `realloc(blob, 0)`.
* `SessionsOwned` excepts the sessions of list_tables, which nothing closes, and
  those whose `IIapi_disconnect` the service refused: `dbd_disconnect()` does not
  look at the status and frees its structure (`dbd_ingres.c:353-358`).
* `CurrentDbTrue` of pgsql is about connections that were given a name: without
  one `current_db` keeps what it was (`dbd_pgsql.c:230`).
* `MatchIsLike` is restricted to patterns in which no character above 127
  follows a `%`: `cmp` is unsigned, the name is not.
* `ListingFaithful` allows stale names when the temporary table could not be
  dropped (the error is not looked at), a file to be missing that could not be
  opened or read, and names to be missing when a statement that fills the table
  failed; list_dbs reports that failure, list_tables does not.
* `EncodingResultsFreed` says of the one wrong way out what it does: when the
  third query made a result and named nothing, `dbd_mysql.c:346` frees the second
  result again and never the third.
* `WorkKept` of firebird excepts a step whose commit the server refused: select_db
  and disconnect do not look at the status (`dbd_firebird.c:106`, 512) and go on.
* freetds: a session whose `ct_cancel()` failed is never closed (`dbd_freetds.c:276`),
  and ping connects anew all the same; `OneSession` and `PingRecovers` except it.
  `SelectedDbKept` excepts the case that the server refuses the USE back itself,
  whose result is not looked at (lines 507-511).
* oracle: `OneSession` excepts sessions whose `OCILogoff()` failed. `RowsFaithful`
  says that a row whose fetch failed, with the session or in it, is unset and stays
  so: the status at `dbd_oracle.c:634` is not looked at.
* `FieldsReadBack` excepts the values that `Lost` names: 8 byte unsigned numbers
  above the signed range (`atoll()`; the manuals of the SQLite drivers say so),
  SQL Server's TINYINT from 128 on, Oracle's dates (`_oradate_to_time_t()` takes
  neither 1900 off the year nor 1 off the month), Ingres dates with the month in
  digits. Firebird's CHAR and BLOB values begin with the column's value and may
  go on with what lies behind the buffer. Oracle and freetds never tell NULL.
  Not among the inputs: MySQL's BIT, PostgreSQL's "char", MONEY and NUMERIC of
  freetds, Oracle's RAW, scaled integers of Firebird.
* `QuotedReadBack` excepts mSQL strings (the opening quote is written over) and
  control-Z where MySQL's escape function was copied (sqlite, sqlite3, oracle).
  The buffer of `quote_binary` (`malloc(2 * n)` in six drivers) is too small for
  fewer than four bytes, and the property says exactly that.
* `ColumnTypesFound` allows the types that the code is known to find instead of the
  right one: a call in a call is typed by one of the two names, a call with a qualified
  argument as an unknown column. `getTables()` of sqlite3 may leave its text or its
  array (`"outside"`) where a JOIN is not followed by a comma, since the loop at
  `dbd_sqlite3.c:1275` does not look for the NUL, and with more tables than the array
  has; for all other statements the property says that it does not. Not among the inputs: a bracket never closed in the select list
  (`strtok_r()` returns NULL), chains of aliases, `INTEGER PRIMARY KEY` in sqlite3;
  in sqlite further aliases of tables, a second table, `NUMERIC(10,2)` in the CREATE
  statement.
* `EncodingTrue` excepts what `ToldWrongly` names: `mac_cyr`, `macgreek`, ... of
  freetds and `ISO8859_13` of Firebird, which begin with the name of an earlier
  row; "auto" of mysql when the server refuses SET NAMES; pgsql without an option
  when the catalog query fails (`my_enc` has no value). Firebird's table has an
  empty IANA name in its sixth row, where `dbd_encoding_from_iana()` stops, so
  that later IANA names are sent as they are and mostly refused. The
  servers are taken to know the names of the tables; newer ones have renamed some
  (`koi8_ru`, `win1250`, `UNICODE`).

## 4. Fairness

Only `FetchTerminates` (IngresResults) is a liveness property. Its
specification has weak fairness of `Next`: `ingres_results()` is one
synchronous call, `ingres_wait()` blocks until the service answers, and nothing
but the function's own steps can keep it from going on. That each
`IIapi_getColumns` is answered is an assumption about the service. Row and
segment counts are finite in the model as they are on the server.
The other drivers are driven by the application, which may stop calling at any
time; no fairness is assumed and no liveness claimed for them.

## 5. Proofs

Each module `XProofs` extends the module `X` and proves the properties that the
run of `X` checks, as `Spec => []P`, `Spec => P` for an action property, or
`Spec => ContractSpec` for a refinement, for every value of the constants that
satisfies the `ASSUME` of `X`. These assumptions say only that bounds are
natural numbers, that `NoDb` is no database and a default database is one, for ingres that a segment fits into the first buffer, and for fields what
form values have. Every property
of a passing run is proved except `FetchTerminates` and two of `Conversions`. For the
conversions that are proved, `NameSpec`, `QuoteSpec` and `FieldSpec` are the
specifications of the calls, with the same inputs and actions as in `Conversions`
(`FieldSpec` without the firebird driver's).

A step lemma has one case per action. Few of the properties are inductive
alone; what is added, and why:

**IngresResultsProofs**, for every number and kind of columns, row count,
initial size, growth factor, segment size and set of faults. `IInv` adds
`CursorInv` (the server's cursor stands where `count` and `fieldidx` say, and
the fields below `fieldidx` hold their own column: without it nothing ties a
field to a server column), `ArrayInv` (size and limit of the row array before
and after its first enlargement), `BlobInv` (the buffer has at least
`ds_length` bytes, so that one doubling makes room for any segment: if
`bloblen <= blobmax` and `len <= SegCap <= DsLength <= blobmax`, then
`bloblen + len <= 2 * blobmax`), `StmtInv` (who closes the statement) and
`SuccessInv` (1 is returned only when no row was left). `GroupEndRange` is the
lemma about the column groups: a group is never empty, and only its first field
can be a BLOB. `PublishedRowsExist` needs in addition `RowsInv`, that the stored
rows have the numbers 1 to `count`. `BlocksAreOwned` needs `OwnInv`: every block
in use is older than `fresh`; the destination blocks differ and are alive; the
values of the stored rows, those of the row being filled, and the buffer that a
BLOB is collected in are apart from each other and from the destination blocks.
The step that matters is `StoreGroup` (`StoreOwn`): a field is an old one, the
BLOB, one that takes over its destination block, or one copied to a new block,
and each pair of these four kinds is apart.

**IngresSessionProofs**. `SessionsOwned`, `MainTransaction` and `CatalogsQuiet`
are proved together, with types, handles numbered in the order they are handed
out (`ConnInv`, `TransInv`: a transaction is younger than its session, and a
handle names one transaction), `SysTranInv` (the catalog connection's
`currTran`, which is never reset, is dead or of its own session: a rollback
through it cannot reach the caller's transaction) and `SysConnInv`. `KeepsWork`
follows from the same case analysis. `QueryStep`, `RollbackStep` and
`FreshConnection` say what a statement, a rollback and a connect do to the
transactions of other sessions, `AfterClose` what a disconnect leaves when the
service refuses some of it.

**PgsqlSessionProofs**, **MysqlDriverProofs**, **FirebirdDriverProofs**,
**SqliteAndQuotingProofs**: the refinement of `DbdSession` rests on a `ToldInv`,
that a connection that exists is to the database last reported. For firebird it
also says that the connection option names that database, which is what maps
the reconnect in `dbd_ping()` to `Reattach`; for SQLite it is about handles that
may already be closed (`HandleInv`).

The refinement of `DbiRows` (mysql, firebird) rests on `ResultInv`: what the row
cache holds under *k* is row *k*. For mysql that is because each `fetch_row`
follows its own `goto_row` (`SeekRowShows`); for firebird because the cached
rows are the first `pos` rows of the cursor, and the count announced is one more
until the cursor ends (`FetchedResult`, `EndedResult`). `OneRowAhead` is part of
the same invariant.

`ListingFaithful` (SQLite) needs nothing of earlier listings: the lemmas
`ListTablesFaithful` and `ListDbsFaithful` show that a call that returns a list has
emptied the temporary table before it filled it, or could not drop it (`Refilled`).
`EncodingResultsFreed` (mysql) is inductive with `EncInv`: while
`dbd_get_encoding()` runs, each of its three results is NULL or has not been freed
(`AskKeeps`); what the two ways out do to any such results is the lemma `Freed`.
`WorkKept` (firebird) needs `WorkInv`, that without a server there are no changes to
lose; then each call either keeps the sum of open and committed changes or has sent
a commit that was refused.

**FreetdsDriverProofs** has four arguments that do not depend on each other.
`OneSession` is inductive; so are `ResultMeansInSync` and `PingRecovers`
together. `RowsComplete` needs `RowsInv`, what the row list looks like when
buffers are bound and when a row is fetched: all rows converted once, the last
one 0 or 1 times (`FiledConvert`, `FiledAppend`). `SelectedDbKept` needs `DbInv`:
which statements a driver function still has to run (`TodoInv`; the last one of
`dbd_list_tables()` selects the former database), that a USE with a result was
executed, and that the last one of `dbd_list_tables()` without a result was executed
all the same, was refused (`unrestored`), or leaves an unread answer or a dead
session (`UseInv`), which is why the caller's statements run in the wrong database
only after a refused USE.

**OracleDriverProofs**. `IInv` is the four properties, types, `RunInv` (a statement
is run only through a connection, by `dbd_query_null()` only when the caller has no
result, so that the handles are counted right at every OCI call), and
`SessionHasEnv`: every session belongs to an environment that exists, because
`dbd_disconnect()` frees none.

**SqliteAndQuotingProofs: pattern matching and literals**, for alphabets, texts and
bytes of any kind and length. Both are about recursive functions over positions in
a text, defined from the end backwards. Two things have to be shown that TLC takes
for granted. First, that the function exists: an entry depends on later entries only
(`MatchedLocal`, `CompareLocal`, `JoinedLocal`, `UnquoteLocal`), so that a solution
for the last *d* positions extends to one more; the least *d* without a solution
(`LeastNumber`, from the well-foundedness of the natural numbers) would have to be
one that has one (`MatchedDef`, `CompareDef`, `JoinedDef`, `UnquoteDef`). Second,
induction over the positions, again by a least counterexample: `Backwards` states
it for a set of positions, without an operator as parameter.

* `MatchIsLikeHolds`, `MinusOneIsFinalHolds`. `Right` says of one entry of the
  table of `wild_case_compare()` what it may be, given what LIKE says: 0
  exactly for a match from there, and -1 only if no later start matches
  (`Anchored`); behind a `%`, 0 exactly for a match from there or later, and -1
  otherwise (`Floating`).
  The entries for the end of the pattern, `%`, `_` and a character have a lemma each
  (`RightAtEnd`, `RightAtMany`, `RightAtOne`, `RightAtChar`). The search for the next
  occurrence of a character is the one that could lose a match: `SearchRight` shows
  that it may stop at the first -1, because a -1 excludes all later starts.
* `QuotedReadBackHolds`. `ReadBehind`: what a reader makes of the end of a text does
  not depend on its beginning. Hence a piece that the reader takes for one character
  is taken for it whatever follows (`Means`, with `PlainMeans`, `EscapeMeans` and
  `QuotesMean` for the three forms that are ever written), and a text of such pieces
  is read as the original (`ReadPieces`, `PiecesReadBack`). Each driver's function is
  then a matter of its single characters (`DoubledMeans`, `MysqlMeans`, ...).
  bytea goes through two readers (`ByteaFirst`, `ByteaSecond`), X'..' through division
  by 16 (`IngresBinary`), and libdbi's encoding back through the cell of a table and
  the field reader (`EncodedCell`). That a piece has at most two characters gives the
  size of the buffer (`JoinedLength`).

**SqliteAndQuotingProofs: fields** (`FieldsReadBackHolds`), for bytes of any even
number of values, numbers of the whole range of their type, and any decimals, dates,
texts and bytes (`ReadingAssumption`: a text is a C string and a date has six natural
numbers). `FieldStep` is one step from the input to the field, so that no invariant
has to be found; what there is to show is arithmetic and the agreement of three
tables. `PowFacts`: all sizes have an even number of values and eight bytes hold every
smaller type, signed or not. From it `SignedKeeps` and `IntRead`: a number that fits
the member of the union survives `atoll()`, the cast and the getter, an unsigned one
also through the signed member. `Suits` says of a column and an announced type that
the column's values fit; `MysqlSuits`, `PgsqlSuits`, `SqliteSuits` and `MsqlSuits` show
it for each column type of the drivers with a text protocol, and one lemma for each
member (`SignedBack`, `UnsignedBack`, `OtherBack`, and those about texts and bytes)
does the rest for all of them. freetds, oracle and ingres store fields in their own ways
(`FreetdsBack`, `OracleBack`, `IngresBack`): Oracle's text is cut out of a buffer with
what an earlier row left in it (`CStringCut`, `OracleText`), and Ingres' dates are
parsed from a text with the name of the month (`DateReadBack`).

**Only model-checked**: `FetchTerminates`, because liveness under fairness is out
of the prover's reach. `ColumnTypesFound`, whose parsers are recursive over a
statement's words and have no meaning of a statement beside them that could be
stated for all statements: the run's grammar is what it is about. `EncodingTrue`, a
statement about the finite tables, all rows of which the run visits. The firebird
driver's part of `FieldsReadBack`: its BLOBs are read by a recursive operator. The
three runs that expect a violation show a counterexample, and there is nothing to
prove.

## 6. Disagreements between the code and its documentation

1. `dbd_ingres.c:62` says the row array is increased "as necessary"; line 739
   enlarges it to `limit` entries for rows 1 to `limit`
   (`IngresResults_bounds`, a trace of 40 rows).
2. `dbd_ingres.sgml:253` says that in autocommit mode "every query is committed
   as an individual transaction"; after a COMMIT statement the driver has
   forgotten the autocommit handle (`IngresSession_commits`).
3. `dbd_mysql.sgml:198` says that the option "tells the server that the client
   can handle multiple result sets"; the driver reads the first only
   (`MysqlDriver_multi`).

## 7. Not modelled

* Error texts, option parsing, engine version strings, sequences of drivers other
  than ingres, firebird and oracle, listings that are a single query: no state of the
  driver and no decision that a property could be about.
* The session of the msql driver. `dbd_connect()` does not look at
  `msqlSelectDB()` and sets `current_db` all the same, a refused select_db answers
  an empty name, ping always answers 1: there is no contract left to state, and
  rows are fetched as in the mysql driver.
* Column buffers of firebird and oracle: memory of single values. The column
  descriptors of a firebird statement point at a buffer that is freed when
  `dbd_query()` returns (`dbd_firebird.c:497`).
* The oracle driver's table of encodings, searched for equal names only.
* `months.gperf.c`, generated, is taken as the function that it computes.
* The lists of reserved words and of client functions in the headers: data that
  no code here reads.
* Allocations whose result the code does not look at: the mallocs at
  `dbd_ingres.c:632`, 663, 677 and 764, and `OCIHandleAlloc` at `dbd_oracle.c:291`
  and 708. Their failure is followed by a NULL pointer.
* COMMIT and ROLLBACK sent to firebird as statements of the caller, which the driver
  passes on like any other without learning that its transaction has ended.
* libdbi and the client libraries, except for what the drivers rely on.

## 8. Plan

Done: the models of all drivers and of their conversions, and proofs of every
safety property and refinement that the runs of the driver modules check, of the
pattern matching, of the literals and of the fields of a row.

Left:

1. Proofs: the firebird driver's fields; type correctness of the driver modules as
   theorems of their own.
2. freetds: column descriptions over several row results; firebird: column
   buffers.
