--------------------------- MODULE IngresResults ---------------------------
(***************************************************************************)
(* ingres_results() of drivers/ingres/dbd_ingres.c: the driver cannot ask  *)
(* an Ingres statement for its row count, so it fetches every row at once  *)
(* into a row array that it enlarges as it goes, long (BLOB) columns       *)
(* arriving in segments that it appends to a buffer it doubles on demand.  *)
(* The module starts where ingres_query() has a statement with columns     *)
(* and a fresh result, and ends when libdbi has released the result.       *)
(*                                                                         *)
(* Heap blocks are numbers (0 is the NULL pointer); a field of a row       *)
(* remembers which column of which server row it came from and which       *)
(* block holds it.  libdbi's row array is indexed from 1.                  *)
(***************************************************************************)
EXTENDS Naturals, FiniteSets

CONSTANTS
    INITIAL_ROWS,   \* rows the result is created for
    ROW_FACTOR,     \* growth factor of the row array
    NumFields,      \* columns of the statement (gd_descriptorCount)
    ColKind,        \* [1..NumFields -> {"blob", "fixed", "copied"}]
    Nullable,       \* columns whose descriptor says ds_nullable
    DsLength,       \* ds_length of a BLOB column: the first buffer size
    SegCap,         \* most payload bytes in a segment of such a column
    NullLens,       \* lengths found in the data value of a NULL BLOB
    MaxRows,        \* bound: rows the server may hold
    MaxSegments,    \* bound: segments of one BLOB value
    Faults          \* failures considered: a subset of {"nomem", "server", "convert"}

ASSUME SizesAssumption ==
    /\ INITIAL_ROWS \in Nat \ {0}
    /\ ROW_FACTOR \in Nat \ {0}
    /\ NumFields \in Nat \ {0}
    /\ ColKind \in [1..NumFields -> {"blob", "fixed", "copied"}]
    /\ Nullable \subseteq 1..NumFields
    /\ DsLength \in Nat \ {0}
    /\ MaxRows \in Nat
    /\ MaxSegments \in Nat \ {0}

\* A segment travels in a data value of ds_length bytes, its own two-byte
\* length included.
ASSUME SegmentFits == SegCap \in Nat /\ SegCap <= DsLength

\* The driver reads a length out of a NULL value too, where the service need
\* not have written one: what an earlier segment or the heap left there.
ASSUME NullLensAssumption == NullLens \subseteq Nat

Cols == 1..NumFields
IS_BLOB(c) == ColKind[c] = "blob"
NULLBLOCK == 0
Unset == [tag |-> "unset", src |-> <<0, 0>>, block |-> NULLBLOCK]

VARIABLES
    pc,
    nrows, srow, scol, sseg,              \* the server's side of the statement
    stmtHandle, closes,                   \* the driver's handle; IIapi_close calls
    rows, alloc, numrows,                 \* result->rows, its length, numrows_matched
    count, limit, fieldidx, lastidx,      \* loop variables
    bloblen, blobmax, blob,               \* BLOB buffer: bytes held, size, block
    databuf, row, rowblock,               \* fetch buffers, row being filled, its block
    retval, heap, fresh                   \* live blocks, next block number

server == <<nrows, srow, scol, sseg>>
result == <<rows, alloc, numrows>>
loop   == <<count, limit, fieldidx, lastidx>>
blobs  == <<bloblen, blobmax, blob>>
bufs   == <<databuf, row, rowblock>>
memory == <<heap, fresh>>
vars == <<pc, server, stmtHandle, closes, result, loop, blobs, bufs, retval, memory>>

\* Blocks that the fetch buffers own.
DatabufBlocks == {databuf[c] : c \in Cols} \ {NULLBLOCK}

\* ingres_query(): the statement is open, _dbd_result_create() has allocated
\* INITIAL_ROWS + 1 row pointers and set numrows_matched to INITIAL_ROWS.
Init ==
    /\ pc = "setup"
    /\ nrows \in 0..MaxRows /\ srow = 0 /\ scol = 1 /\ sseg = 0
    /\ stmtHandle = "hdl" /\ closes = 0
    /\ rows = [k \in {} |-> Unset] /\ alloc = INITIAL_ROWS + 1 /\ numrows = INITIAL_ROWS
    /\ count = 0 /\ limit = INITIAL_ROWS /\ fieldidx = 1 /\ lastidx = 1
    /\ bloblen = 0 /\ blobmax = 0 /\ blob = NULLBLOCK
    /\ databuf = [c \in Cols |-> NULLBLOCK]
    /\ row = [c \in Cols |-> Unset] /\ rowblock = NULLBLOCK
    /\ retval = 0 /\ heap = {} /\ fresh = 1

\* A destination block for every field.
SetupBuffers ==
    /\ pc = "setup"
    /\ databuf' = [c \in Cols |-> fresh + c - 1]
    /\ heap' = heap \cup (fresh .. fresh + NumFields - 1)
    /\ fresh' = fresh + NumFields
    /\ pc' = "top"
    /\ UNCHANGED <<server, stmtHandle, closes, result, loop, blobs, row, rowblock, retval>>

\* One of those allocations fails: the buffers are released again and the
\* function returns 0 before it has fetched anything.
SetupFails ==
    /\ pc = "setup" /\ "nomem" \in Faults
    /\ pc' = "returned"
    /\ UNCHANGED <<server, stmtHandle, closes, result, loop, blobs, bufs, retval, memory>>

\* Mutated: the array is reallocated to the old limit.
GrowRows_old_limit ==
    /\ pc = "top" /\ count = limit
    /\ limit' = limit * ROW_FACTOR
    /\ \/ alloc' = limit /\ pc' = "row"
       \/ "nomem" \in Faults /\ alloc' = alloc /\ pc' = "rowsdone"
    /\ UNCHANGED <<server, stmtHandle, closes, rows, numrows, count, fieldidx,
                   lastidx, blobs, bufs, retval, memory>>

\* count == limit: enlarge the row array (realloc keeps the old array when
\* it fails, and the loop ends).
GrowRows ==
    /\ pc = "top" /\ count = limit
    /\ limit' = limit * ROW_FACTOR
    /\ \/ alloc' = limit' /\ pc' = "row"
       \/ "nomem" \in Faults /\ alloc' = alloc /\ pc' = "rowsdone"
    /\ UNCHANGED <<server, stmtHandle, closes, rows, numrows, count, fieldidx,
                   lastidx, blobs, bufs, retval, memory>>

SkipGrow ==
    /\ pc = "top" /\ count # limit
    /\ pc' = "row"
    /\ UNCHANGED <<server, stmtHandle, closes, result, loop, blobs, bufs, retval, memory>>

\* Mutated: a row that cannot be allocated is tried again.
AllocRow_retry ==
    /\ pc = "row"
    /\ \/ /\ row' = [c \in Cols |-> Unset]
          /\ rowblock' = fresh
          /\ heap' = heap \cup {fresh}
          /\ fresh' = fresh + 1
          /\ fieldidx' = 1
          /\ pc' = "group"
       \/ /\ "nomem" \in Faults
          /\ pc' = "top"
          /\ UNCHANGED <<row, rowblock, heap, fresh, fieldidx>>
    /\ UNCHANGED <<server, stmtHandle, closes, result, count, limit, lastidx,
                   blobs, databuf, retval>>

\* _dbd_row_allocate()
AllocRow ==
    /\ pc = "row"
    /\ \/ /\ row' = [c \in Cols |-> Unset]
          /\ rowblock' = fresh
          /\ heap' = heap \cup {fresh}
          /\ fresh' = fresh + 1
          /\ fieldidx' = 1
          /\ pc' = "group"
       \/ /\ "nomem" \in Faults
          /\ pc' = "rowsdone"
          /\ UNCHANGED <<row, rowblock, heap, fresh, fieldidx>>
    /\ UNCHANGED <<server, stmtHandle, closes, result, count, limit, lastidx,
                   blobs, databuf, retval>>

\* Mutated: ++lastidx without the test for a BLOB.
GroupEnd_always_plus_one(f) ==
    1 + CHOOSE e \in f..(NumFields + 1) :
            /\ \A c \in f..(e - 1) : ~IS_BLOB(c)
            /\ e = NumFields + 1 \/ IS_BLOB(e)

\* The first field after f that starts a new getColumns call: a BLOB is
\* fetched alone, a run of other fields together.
GroupEnd(f) ==
    IF IS_BLOB(f) THEN f + 1
    ELSE CHOOSE e \in (f + 1)..(NumFields + 1) :
            /\ \A c \in f..(e - 1) : ~IS_BLOB(c)
            /\ e = NumFields + 1 \/ IS_BLOB(e)

StartGroup ==
    /\ pc = "group" /\ fieldidx <= NumFields
    /\ lastidx' = GroupEnd(fieldidx)
    /\ IF IS_BLOB(fieldidx)
       THEN /\ bloblen' = 0 /\ blobmax' = DsLength /\ blob' = fresh
            /\ heap' = heap \cup {fresh} /\ fresh' = fresh + 1
       ELSE UNCHANGED <<blobs, memory>>
    /\ sseg' = 0
    /\ pc' = "fetch"
    /\ UNCHANGED <<nrows, srow, scol, stmtHandle, closes, result, count, limit,
                   fieldidx, bufs, retval>>

\* IIAPI_ST_NO_DATA: the server has no row left.
FetchNoData ==
    /\ pc = "fetch" /\ scol = 1 /\ srow = nrows
    /\ retval' = 1
    /\ pc' = "rowsdone"
    /\ UNCHANGED <<server, stmtHandle, closes, result, loop, blobs, bufs, memory>>

\* Mutated: an error is taken for the end of the data.
FetchError_as_end ==
    /\ pc = "fetch" /\ "server" \in Faults
    /\ retval' = 1
    /\ pc' = "rowsdone"
    /\ UNCHANGED <<server, stmtHandle, closes, result, loop, blobs, bufs, memory>>

\* A worse status: the loop is left with the rows stored so far.
FetchError ==
    /\ pc = "fetch" /\ "server" \in Faults
    /\ pc' = "rowsdone"
    /\ UNCHANGED <<server, stmtHandle, closes, result, loop, blobs, bufs, retval, memory>>

\* The server's cursor moves over n columns of its current row.
Advance(n) ==
    IF scol + n > NumFields THEN scol' = 1 /\ srow' = srow + 1
                            ELSE scol' = scol + n /\ srow' = srow

ServerHasData == scol > 1 \/ srow < nrows

\* getColumns delivers a run of fields into databuf[fieldidx .. lastidx-1].
FetchColumns ==
    /\ pc = "fetch" /\ ~IS_BLOB(fieldidx) /\ ServerHasData
    /\ pc' = "store"
    /\ UNCHANGED <<server, stmtHandle, closes, result, loop, blobs, bufs, retval, memory>>

\* Mutated: the test leaves the new segment out.
BlobMaxFor_old_length(len) == IF bloblen > blobmax THEN blobmax * 2 ELSE blobmax

\* One doubling when the segment does not fit, then the copy.
BlobMaxFor(len) == IF bloblen + len > blobmax THEN blobmax * 2 ELSE blobmax

\* Lengths that the driver may read next: a segment's, or that of a NULL,
\* which arrives in one piece.
SegmentLengths ==
    (0..SegCap) \cup (IF sseg = 0 /\ fieldidx \in Nullable THEN NullLens ELSE {})

\* getColumns delivers one segment of a BLOB; gc_moreSegments asks for more.
FetchSegment(len, more) ==
    /\ pc = "fetch" /\ IS_BLOB(fieldidx) /\ ServerHasData
    /\ len \in SegmentLengths
    /\ more => sseg + 1 < MaxSegments /\ len <= SegCap
    /\ blobmax' = BlobMaxFor(len)
    /\ bloblen' = bloblen + len
    /\ sseg' = sseg + 1
    /\ pc' = IF more THEN "fetch" ELSE "store"
    /\ UNCHANGED <<nrows, srow, scol, stmtHandle, closes, result, loop, blob,
                   bufs, retval, memory>>

\* The doubling fails: the BLOB is short and the loop is left.
SegmentResizeFails(len) ==
    /\ pc = "fetch" /\ IS_BLOB(fieldidx) /\ ServerHasData
    /\ "nomem" \in Faults /\ len \in SegmentLengths /\ bloblen + len > blobmax
    /\ blobmax' = blobmax * 2
    /\ pc' = "rowsdone"
    /\ UNCHANGED <<server, stmtHandle, closes, result, loop, bloblen, blob,
                   bufs, retval, memory>>

\* Value i of the group comes from the server's column scol + (i - fieldidx).
Source(i) == <<srow + 1, scol + (i - fieldidx)>>

\* Where field i's bytes end up: a fixed-size field takes over the fetch
\* block, a BLOB is the accumulated buffer, anything else is copied (a number
\* into the row itself, which is a block of its own here as well).
FieldBlock(i) ==
    CASE ColKind[i] = "blob"   -> blob
      [] ColKind[i] = "fixed"  -> databuf[i]
      [] ColKind[i] = "copied" -> fresh + i

\* Mutated: the fetch block handed to the row is not replaced.
BuffersAfter_kept(stored) == databuf

\* A fixed-size field's fetch block is replaced "for future rows".
BuffersAfter(stored) ==
    [c \in Cols |-> IF c \in stored /\ ColKind[c] = "fixed" THEN fresh + c ELSE databuf[c]]

\* "process the column(s) we got": NULL fields are flagged, the others get
\* their value.  Shrinking an empty BLOB with realloc(blob, 0) releases the
\* block while the field keeps pointing at it; a NULL BLOB's block is dropped.
\* A field that ingres_field() cannot convert keeps size 0 and no value, is
\* not flagged as NULL, and the block for its text is lost.
StoreGroup(nulls, bad) ==
    LET group == fieldidx..(lastidx - 1)
        values == group \ (nulls \cup bad)
        new    == {c \in values \cup bad : ~IS_BLOB(c)}
    IN
    /\ pc = "store"
    /\ nulls \subseteq group /\ bad \subseteq group \ nulls
    /\ bad # {} => "convert" \in Faults
    /\ \A c \in bad : ColKind[c] = "copied"
    /\ IS_BLOB(fieldidx) =>
          IF nulls # {} THEN sseg = 1 /\ bloblen \in NullLens ELSE bloblen <= sseg * SegCap
    /\ row' = [c \in Cols |->
                 IF c \in nulls THEN [tag |-> "null", src |-> Source(c), block |-> NULLBLOCK]
                 ELSE IF c \in bad THEN [tag |-> "empty", src |-> Source(c), block |-> NULLBLOCK]
                 ELSE IF c \in values
                 THEN [tag |-> "value", src |-> Source(c), block |-> FieldBlock(c)]
                 ELSE row[c]]
    /\ databuf' = BuffersAfter(new)
    /\ heap' = (heap \cup {fresh + c : c \in new})
               \ (IF IS_BLOB(fieldidx) /\ bloblen = 0 /\ nulls = {} THEN {blob} ELSE {})
    /\ fresh' = fresh + NumFields + 1
    /\ Advance(lastidx - fieldidx)
    /\ fieldidx' = lastidx
    /\ pc' = "group"
    /\ UNCHANGED <<nrows, sseg, stmtHandle, closes, result, count, limit, lastidx,
                   blobs, rowblock, retval>>

\* Mutated: the row is stored at rows[count].
FinalizeRow_zero_based ==
    /\ pc = "group" /\ fieldidx > NumFields
    /\ rows' = [k \in DOMAIN rows \cup {count} |->
                  IF k = count THEN [fields |-> row, block |-> rowblock] ELSE rows[k]]
    /\ count' = count + 1
    /\ pc' = "top"
    /\ UNCHANGED <<server, stmtHandle, closes, alloc, numrows, limit, fieldidx,
                   lastidx, blobs, bufs, retval, memory>>

\* _dbd_row_finalize(result, row, count) stores the row at rows[count + 1].
\* Past the end of the array the store hits memory of somebody else: the
\* entry may survive there or not.
FinalizeRow ==
    /\ pc = "group" /\ fieldidx > NumFields
    /\ \/ rows' = [k \in DOMAIN rows \cup {count + 1} |->
                     IF k = count + 1 THEN [fields |-> row, block |-> rowblock] ELSE rows[k]]
       \/ count + 1 >= alloc /\ rows' = rows
    /\ count' = count + 1
    /\ pc' = "top"
    /\ UNCHANGED <<server, stmtHandle, closes, alloc, numrows, limit, fieldidx,
                   lastidx, blobs, bufs, retval, memory>>

\* Mutated: the closed handle stays in the result.
RowsDone_keeps_handle ==
    /\ pc = "rowsdone"
    /\ stmtHandle' = stmtHandle /\ closes' = closes + 1
    /\ numrows' = count
    /\ heap' = heap \ DatabufBlocks
    /\ databuf' = [c \in Cols |-> NULLBLOCK]
    /\ pc' = "returned"
    /\ UNCHANGED <<server, rows, alloc, loop, blobs, row, rowblock, retval, fresh>>

\* Mutated: numrows_matched keeps the size the result was created with.
RowsDone_keeps_count ==
    /\ pc = "rowsdone"
    /\ stmtHandle' = "NULL" /\ closes' = closes + 1
    /\ heap' = heap \ DatabufBlocks
    /\ databuf' = [c \in Cols |-> NULLBLOCK]
    /\ pc' = "returned"
    /\ UNCHANGED <<server, result, loop, blobs, row, rowblock, retval, fresh>>

\* rowsdone: close the statement, publish the row count, free the buffers.
RowsDone ==
    /\ pc = "rowsdone"
    /\ stmtHandle' = "NULL" /\ closes' = closes + 1
    /\ numrows' = count
    /\ heap' = heap \ DatabufBlocks
    /\ databuf' = [c \in Cols |-> NULLBLOCK]
    /\ pc' = "returned"
    /\ UNCHANGED <<server, rows, alloc, loop, blobs, row, rowblock, retval, fresh>>

\* Blocks that libdbi releases with the rows of a result.
RowBlocks(k) == {rows[k].block} \cup {rows[k].fields[c].block : c \in Cols}

\* dbi_result_free(): dbd_free_query() closes a statement that is still
\* open, libdbi releases the rows.
FreeResult ==
    /\ pc = "returned"
    /\ closes' = IF stmtHandle = "hdl" THEN closes + 1 ELSE closes
    /\ stmtHandle' = "NULL"
    /\ heap' = heap \ UNION {RowBlocks(k) : k \in DOMAIN rows}
    /\ pc' = "freed"
    /\ UNCHANGED <<server, result, loop, blobs, bufs, retval, fresh>>

Done == pc = "freed" /\ UNCHANGED vars

Next ==
    \/ SetupBuffers \/ SetupFails
    \/ GrowRows \/ SkipGrow \/ AllocRow \/ StartGroup
    \/ FetchNoData \/ FetchError \/ FetchColumns
    \/ \E len \in (0..SegCap) \cup NullLens, more \in BOOLEAN : FetchSegment(len, more)
    \/ \E len \in (0..SegCap) \cup NullLens : SegmentResizeFails(len)
    \/ \E nulls \in SUBSET Nullable, bad \in SUBSET Cols : StoreGroup(nulls, bad)
    \/ FinalizeRow \/ RowsDone \/ FreeResult \/ Done

Spec == Init /\ [][Next]_vars

\* The function is one synchronous call: nothing but its own steps can keep
\* it from going on.
FairSpec == Spec /\ WF_vars(Next)

-----------------------------------------------------------------------------
(* Properties *)

Fields == [tag : {"unset", "null", "empty", "value"}, src : Nat \X Nat, block : Nat]

\* The variables keep the types of the C variables they stand for.
TypeOK ==
    /\ pc \in {"setup", "top", "row", "group", "fetch", "store", "rowsdone",
               "returned", "freed"}
    /\ nrows \in 0..MaxRows /\ srow \in Nat /\ scol \in Cols /\ sseg \in Nat
    /\ stmtHandle \in {"hdl", "NULL"} /\ closes \in Nat
    /\ DOMAIN rows \subseteq Nat
    /\ \A k \in DOMAIN rows : rows[k] \in [fields : [Cols -> Fields], block : Nat]
    /\ alloc \in Nat /\ numrows \in Nat
    /\ count \in Nat /\ limit \in Nat
    /\ fieldidx \in 1..(NumFields + 1) /\ lastidx \in 1..(NumFields + 1)
    /\ bloblen \in Nat /\ blobmax \in Nat /\ blob \in Nat
    /\ databuf \in [Cols -> Nat] /\ row \in [Cols -> Fields] /\ rowblock \in Nat
    /\ retval \in {0, 1} /\ heap \subseteq Nat /\ fresh \in Nat \ {0}

\* The segments appended to a BLOB never run past its buffer: the single
\* doubling before the memcpy in ingres_results() is always enough, if what
\* it reads out of a NULL value is no longer than a segment.
BlobInBounds == NullLens \subseteq 0..SegCap => bloblen <= blobmax

\* A result of fewer than INITIAL_ROWS * ROW_FACTOR rows is stored inside
\* the row array, through its first enlargement.
SmallResultInBounds ==
    nrows < INITIAL_ROWS * ROW_FACTOR => \A k \in DOMAIN rows : k < alloc

\* Whatever the mix of BLOB and other columns, NULLs and errors, row k of the
\* result holds exactly the columns of the server's row k, each in its place.
RowsFaithful ==
    \A k \in DOMAIN rows : \A c \in Cols :
        rows[k].fields[c].tag # "unset" /\ rows[k].fields[c].src = <<k, c>>

\* Until the result is released, no two values share a block, no value lies
\* in a buffer that the next getColumns call overwrites or that the clean-up
\* frees, and the block of every value that is not a BLOB is alive.
BlocksOwned ==
    LET valued == {x \in (DOMAIN rows) \X Cols : rows[x[1]].fields[x[2]].tag = "value"}
        blk(x) == rows[x[1]].fields[x[2]].block
    IN  pc # "freed" =>
          /\ \A x, y \in valued : x # y => blk(x) # blk(y)
          /\ \A x \in valued : blk(x) \notin DatabufBlocks
          /\ \A x \in valued : ~IS_BLOB(x[2]) => blk(x) \in heap

\* Once the fetch loop has run (it closes the statement) the rows that libdbi
\* publishes are the rows that were stored, however the loop ended (in a result
\* that SmallResultInBounds keeps inside the array); libdbi
\* hands out row numrows_matched without asking the driver again.
PublishedRows ==
    pc = "returned" /\ closes = 1 /\ nrows < INITIAL_ROWS * ROW_FACTOR =>
        DOMAIN rows = 1..numrows

\* When the fetch reports success, libdbi sees every row of the server.
CompleteOnSuccess ==
    pc = "returned" /\ retval = 1 => numrows = nrows

\* The statement is closed once, by the fetch or by dbd_free_query(), however
\* the fetch ended.
StatementClosedOnce ==
    closes <= 1 /\ (pc = "freed" => closes = 1)

\* Every fetch comes to its end, and the caller gets the result back.
FetchTerminates == <>(pc = "returned")

\* The array grows "as necessary" (dbd_ingres.c:62): each stored row lies in it.
GrowsAsNecessary == \A k \in DOMAIN rows : k < alloc
=============================================================================
