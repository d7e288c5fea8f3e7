------------------------ MODULE IngresResultsProofs ------------------------
(***************************************************************************)
(* What ingres_results() keeps for every column layout, row count, growth  *)
(* factor and segment size.                                                *)
(***************************************************************************)
EXTENDS IngresResults, WellFoundedInduction, TLAPS

InRow == {"group", "fetch", "store"}

\* Between two getColumns calls the server's cursor stands where the driver's
\* loop variables say, and the fields below fieldidx are filled in.
CursorInv ==
    /\ srow <= nrows
    /\ pc \in {"setup", "top", "row"} => scol = 1 /\ srow = count
    /\ pc = "group" => IF fieldidx <= NumFields THEN scol = fieldidx /\ srow = count
                                               ELSE scol = 1 /\ srow = count + 1
    /\ pc \in {"fetch", "store"} =>
          /\ fieldidx \in Cols /\ scol = fieldidx /\ srow = count
          /\ lastidx \in (fieldidx + 1)..(NumFields + 1)
    /\ pc \in InRow /\ scol > 1 => srow < nrows
    /\ pc = "store" => srow < nrows
    /\ pc \in InRow => \A c \in Cols : c < fieldidx =>
          row[c].tag # "unset" /\ row[c].src = <<count + 1, c>>

\* The row array of a result that stays below its first enlarged size.
ArrayInv ==
    /\ \A k \in DOMAIN rows : k <= count
    /\ pc \notin {"rowsdone", "returned", "freed"} =>
         \/ limit = INITIAL_ROWS /\ alloc = INITIAL_ROWS + 1 /\ count <= limit
         \/ limit = INITIAL_ROWS * ROW_FACTOR /\ alloc = limit
         \/ nrows >= INITIAL_ROWS * ROW_FACTOR
    /\ /\ pc \in InRow \cup {"row"} /\ nrows < INITIAL_ROWS * ROW_FACTOR
       /\ limit = INITIAL_ROWS /\ alloc = INITIAL_ROWS + 1
       => count < limit
    /\ SmallResultInBounds

\* The buffer starts with ds_length bytes and never shrinks.
BlobInv ==
    /\ BlobInBounds
    /\ pc \in {"fetch", "store"} /\ IS_BLOB(fieldidx) => blobmax >= DsLength

\* Who closes the statement.
StmtInv ==
    /\ pc \notin {"returned", "freed"} => stmtHandle = "hdl" /\ closes = 0
    /\ pc = "returned" => \/ stmtHandle = "hdl" /\ closes = 0
                          \/ stmtHandle = "NULL" /\ closes = 1
    /\ pc = "freed" => closes = 1

\* retval is 1 only after the server said that no row is left.
SuccessInv ==
    /\ retval = 1 => pc \in {"rowsdone", "returned", "freed"}
    /\ retval = 1 => count = nrows
    /\ retval = 1 /\ pc = "returned" => numrows = count

IInv == TypeOK /\ CursorInv /\ ArrayInv /\ BlobInv /\ StmtInv /\ SuccessInv /\ RowsFaithful

-----------------------------------------------------------------------------
\* A group is never empty, never runs past the last column, and has no BLOB
\* after its first field.
LEMMA GroupEndRange ==
    ASSUME NEW f \in Cols
    PROVE  /\ GroupEnd(f) \in (f + 1)..(NumFields + 1)
           /\ \A c \in f..(GroupEnd(f) - 1) : IS_BLOB(c) => c = f
<1>1. CASE IS_BLOB(f)
  BY <1>1, SizesAssumption DEF GroupEnd, Cols
<1>2. CASE ~IS_BLOB(f)
  <2> DEFINE T == {e \in (f + 1)..(NumFields + 1) : e = NumFields + 1 \/ IS_BLOB(e)}
  <2>1. T \subseteq Nat /\ NumFields + 1 \in T
    BY SizesAssumption DEF Cols
  <2>2. PICK m \in T : \A y \in T : ~(<<y, m>> \in OpToRel(<, Nat))
    <3> HIDE DEF T
    <3> QED BY <2>1, NatLessThanWellFounded, WFMin
  <2>3. \A y \in T : ~(y < m)
    BY <2>1, <2>2 DEF OpToRel
  <2>4. \A c \in f..(m - 1) : ~IS_BLOB(c)
    BY <1>2, <2>3, SizesAssumption DEF Cols
  <2>5. \E e \in (f + 1)..(NumFields + 1) :
            /\ \A c \in f..(e - 1) : ~IS_BLOB(c)
            /\ e = NumFields + 1 \/ IS_BLOB(e)
    BY <2>4
  <2> DEFINE Ends(e) == (\A c \in f..(e - 1) : ~IS_BLOB(c)) /\ (e = NumFields + 1 \/ IS_BLOB(e))
  <2>6. GroupEnd(f) = CHOOSE e \in (f + 1)..(NumFields + 1) : Ends(e)
    BY <1>2 DEF GroupEnd
  <2>7. GroupEnd(f) \in (f + 1)..(NumFields + 1) /\ Ends(GroupEnd(f))
    BY <2>5, <2>6
  <2> QED BY <2>7
<1> QED BY <1>1, <1>2

\* The state in which ingres_query() calls ingres_results() satisfies IInv.
LEMMA InitIInv == Init => IInv
BY SizesAssumption
   DEF Init, IInv, TypeOK, CursorInv, ArrayInv, BlobInv, StmtInv, SuccessInv,
       RowsFaithful, SmallResultInBounds, BlobInBounds, InRow, Fields, Unset,
       NULLBLOCK, Cols

USE DEF Cols, InRow

\* One step of ingres_results() keeps the invariant.
LEMMA NextIInv == IInv /\ [Next]_vars => IInv'
<1> SUFFICES ASSUME IInv, [Next]_vars PROVE IInv'
  OBVIOUS
<1> USE SizesAssumption DEF IInv, server, result, loop, blobs, bufs, memory
<1>1. CASE SetupBuffers
  BY <1>1
     DEF SetupBuffers, TypeOK, CursorInv, ArrayInv, SmallResultInBounds, BlobInv,
         BlobInBounds, StmtInv, SuccessInv, RowsFaithful
<1>2. CASE SetupFails
  BY <1>2
     DEF SetupFails, TypeOK, CursorInv, ArrayInv, SmallResultInBounds, BlobInv,
         BlobInBounds, StmtInv, SuccessInv, RowsFaithful
<1>3. CASE GrowRows
  <2>1. TypeOK'
    BY <1>3 DEF GrowRows, TypeOK
  <2>2. CursorInv'
    BY <1>3 DEF GrowRows, TypeOK, CursorInv
  <2>3. ArrayInv'
    <3>1. \A k \in DOMAIN rows' : k <= count'
      BY <1>3 DEF GrowRows, ArrayInv
    <3>2. CASE nrows >= INITIAL_ROWS * ROW_FACTOR
      BY <1>3, <3>1, <3>2 DEF GrowRows, TypeOK, ArrayInv, SmallResultInBounds
    <3>3. CASE nrows < INITIAL_ROWS * ROW_FACTOR
      <4>1. count <= nrows
        BY <1>3 DEF GrowRows, CursorInv
      <4>2. limit = INITIAL_ROWS /\ alloc = INITIAL_ROWS + 1
        <5>1. limit # INITIAL_ROWS * ROW_FACTOR
          BY <1>3, <3>3, <4>1 DEF GrowRows, TypeOK
        <5> QED BY <1>3, <3>3, <5>1 DEF GrowRows, TypeOK, ArrayInv
      <4>3. limit' = INITIAL_ROWS * ROW_FACTOR /\ limit' \in Nat
        BY <1>3, <4>2 DEF GrowRows
      <4>4. alloc' = limit' \/ (alloc' = alloc /\ pc' = "rowsdone")
        BY <1>3 DEF GrowRows
      <4>5. \A k \in DOMAIN rows' : k < alloc'
        BY <1>3, <3>1, <3>3, <4>1, <4>2, <4>3, <4>4 DEF GrowRows, TypeOK
      <4>6. ~(limit' = INITIAL_ROWS /\ alloc' = INITIAL_ROWS + 1 /\ pc' # "rowsdone")
        BY <4>3, <4>4
      <4> QED BY <1>3, <3>1, <4>3, <4>4, <4>5, <4>6
              DEF GrowRows, TypeOK, ArrayInv, SmallResultInBounds
    <3> QED BY <3>2, <3>3 DEF TypeOK
  <2>4. BlobInv'
    BY <1>3 DEF GrowRows, TypeOK, CursorInv, BlobInv, BlobInBounds
  <2>5. StmtInv'
    BY <1>3 DEF GrowRows, TypeOK, StmtInv
  <2>6. SuccessInv'
    BY <1>3 DEF GrowRows, TypeOK, CursorInv, SuccessInv
  <2>7. RowsFaithful'
    BY <1>3 DEF GrowRows, TypeOK, CursorInv, ArrayInv, RowsFaithful
  <2> QED BY <2>1, <2>2, <2>3, <2>4, <2>5, <2>6, <2>7
<1>4. CASE SkipGrow
  BY <1>4
     DEF SkipGrow, TypeOK, CursorInv, ArrayInv, SmallResultInBounds, BlobInv,
         BlobInBounds, StmtInv, SuccessInv, RowsFaithful
<1>5. CASE AllocRow
  <2>1. TypeOK'
    <3>1. Unset \in Fields
      BY DEF Unset, Fields, NULLBLOCK
    <3>2. row' \in [Cols -> Fields]
      BY <1>5, <3>1 DEF AllocRow, TypeOK
    <3>3. heap' \subseteq Nat /\ fresh' \in Nat \ {0} /\ rowblock' \in Nat
      <4>1. heap \subseteq Nat /\ fresh \in Nat \ {0} /\ rowblock \in Nat
        BY DEF TypeOK
      <4>2. heap' \subseteq heap \cup {fresh}
        BY <1>5 DEF AllocRow
      <4>3. fresh' \in {fresh, fresh + 1} /\ rowblock' \in {rowblock, fresh}
        BY <1>5 DEF AllocRow
      <4>4. heap' \subseteq Nat
        BY <4>1, <4>2, Zenon
      <4>5. fresh' \in Nat \ {0}
        BY <4>1, <4>3
      <4>6. rowblock' \in Nat
        BY <4>1, <4>3
      <4> QED BY <4>4, <4>5, <4>6
    <3>4. pc' \in {"group", "rowsdone"} /\ fieldidx' \in {1, fieldidx}
      BY <1>5 DEF AllocRow
    <3>5. UNCHANGED <<server, stmtHandle, closes, result, count, limit, lastidx, blobs,
                      databuf, retval>>
      BY <1>5 DEF AllocRow
    <3> QED BY <3>2, <3>3, <3>4, <3>5, SizesAssumption DEF TypeOK
  <2>2. CursorInv'
    <3>1. pc' \in InRow => fieldidx' = 1 /\ pc' = "group"
      BY <1>5 DEF AllocRow
    <3> QED BY <1>5, <3>1 DEF AllocRow, TypeOK, CursorInv
  <2>3. ArrayInv'
    BY <1>5 DEF AllocRow, Fields, Unset, NULLBLOCK, TypeOK, CursorInv, ArrayInv, SmallResultInBounds
  <2>4. BlobInv'
    BY <1>5 DEF AllocRow, Fields, Unset, NULLBLOCK, TypeOK, CursorInv, BlobInv, BlobInBounds
  <2>5. StmtInv'
    BY <1>5 DEF AllocRow, Fields, Unset, NULLBLOCK, TypeOK, StmtInv
  <2>6. SuccessInv'
    BY <1>5 DEF AllocRow, Fields, Unset, NULLBLOCK, TypeOK, CursorInv, SuccessInv
  <2>7. RowsFaithful'
    BY <1>5 DEF AllocRow, Fields, Unset, NULLBLOCK, TypeOK, CursorInv, ArrayInv, RowsFaithful
  <2> QED BY <2>1, <2>2, <2>3, <2>4, <2>5, <2>6, <2>7
<1>6. CASE StartGroup
  <2>1. TypeOK'
    <3>1. fieldidx \in Cols
      BY <1>6 DEF StartGroup, TypeOK
    <3>2. lastidx' \in 1..(NumFields + 1)
      BY <1>6, <3>1, GroupEndRange DEF StartGroup
    <3>3. heap' \subseteq Nat /\ fresh' \in Nat \ {0}
      <4>1. heap \subseteq Nat /\ fresh \in Nat \ {0}
        BY DEF TypeOK
      <4>2. heap' \subseteq heap \cup {fresh}
        BY <1>6 DEF StartGroup
      <4>3. fresh' \in {fresh, fresh + 1}
        BY <1>6 DEF StartGroup
      <4>4. heap' \subseteq Nat
        BY <4>1, <4>2, Zenon
      <4> QED BY <4>1, <4>3, <4>4
    <3>4. bloblen' \in Nat /\ blobmax' \in Nat /\ blob' \in Nat
      BY <1>6 DEF StartGroup, TypeOK
    <3> QED BY <1>6, <3>2, <3>3, <3>4 DEF StartGroup, TypeOK
  <2>2. CursorInv'
    BY <1>6, GroupEndRange DEF StartGroup, TypeOK, CursorInv
  <2>3. ArrayInv'
    BY <1>6 DEF StartGroup, TypeOK, CursorInv, ArrayInv, SmallResultInBounds
  <2>4. BlobInv'
    BY <1>6 DEF StartGroup, TypeOK, CursorInv, BlobInv, BlobInBounds
  <2>5. StmtInv'
    BY <1>6 DEF StartGroup, TypeOK, StmtInv
  <2>6. SuccessInv'
    BY <1>6 DEF StartGroup, TypeOK, CursorInv, SuccessInv
  <2>7. RowsFaithful'
    BY <1>6 DEF StartGroup, TypeOK, CursorInv, ArrayInv, RowsFaithful
  <2> QED BY <2>1, <2>2, <2>3, <2>4, <2>5, <2>6, <2>7
<1>7. CASE FetchNoData
  BY <1>7
     DEF FetchNoData, TypeOK, CursorInv, ArrayInv, SmallResultInBounds, BlobInv,
         BlobInBounds, StmtInv, SuccessInv, RowsFaithful
<1>8. CASE FetchError
  BY <1>8
     DEF FetchError, TypeOK, CursorInv, ArrayInv, SmallResultInBounds, BlobInv,
         BlobInBounds, StmtInv, SuccessInv, RowsFaithful
<1>9. CASE FetchColumns
  BY <1>9
     DEF FetchColumns, ServerHasData, TypeOK, CursorInv, ArrayInv, SmallResultInBounds, BlobInv,
         BlobInBounds, StmtInv, SuccessInv, RowsFaithful
<1>10. ASSUME NEW len \in (0..SegCap) \cup NullLens, NEW more \in BOOLEAN, FetchSegment(len, more)
       PROVE  IInv'
  <2>1. TypeOK'
    <3>1. bloblen' \in Nat /\ blobmax' \in Nat /\ sseg' \in Nat
      BY <1>10, SegmentFits, NullLensAssumption DEF FetchSegment, BlobMaxFor, TypeOK
    <3>2. pc' \in {"fetch", "store"}
      BY <1>10 DEF FetchSegment
    <3> QED BY <1>10, <3>1, <3>2 DEF FetchSegment, TypeOK
  <2>2. CursorInv'
    BY <1>10, SegmentFits, NullLensAssumption DEF FetchSegment, ServerHasData, BlobMaxFor, TypeOK, CursorInv
  <2>3. ArrayInv'
    BY <1>10, SegmentFits, NullLensAssumption DEF FetchSegment, ServerHasData, BlobMaxFor, TypeOK, CursorInv, ArrayInv, SmallResultInBounds
  <2>4. BlobInv'
    <3>1. /\ pc = "fetch" /\ IS_BLOB(fieldidx) /\ fieldidx' = fieldidx
          /\ blobmax' = BlobMaxFor(len) /\ bloblen' = bloblen + len
      BY <1>10 DEF FetchSegment
    <3>2. bloblen \in Nat /\ blobmax \in Nat /\ len \in Nat /\ blobmax >= DsLength
      <4>1. bloblen \in Nat /\ blobmax \in Nat
        BY DEF TypeOK
      <4>2. len \in Nat
        BY <1>10, SegmentFits, NullLensAssumption
      <4>3. blobmax >= DsLength
        BY <3>1 DEF BlobInv
      <4> QED BY <4>1, <4>2, <4>3
    <3>3. blobmax' >= blobmax
      BY <3>1, <3>2 DEF BlobMaxFor
    <3>4. ASSUME NullLens \subseteq 0..SegCap
          PROVE  bloblen' <= blobmax'
      <4>1. len <= DsLength /\ DsLength \in Nat
        BY <3>4, <1>10, SegmentFits, SizesAssumption
      <4>2. bloblen <= blobmax
        BY <3>4 DEF BlobInv, BlobInBounds
      <4> QED BY <3>1, <3>2, <4>1, <4>2 DEF BlobMaxFor
    <3>5. blobmax' >= DsLength
      BY <3>1, <3>2, <3>3, SizesAssumption DEF BlobMaxFor
    <3> QED BY <3>4, <3>5 DEF BlobInv, BlobInBounds
  <2>5. StmtInv'
    BY <1>10, SegmentFits, NullLensAssumption DEF FetchSegment, ServerHasData, BlobMaxFor, TypeOK, StmtInv
  <2>6. SuccessInv'
    BY <1>10, SegmentFits, NullLensAssumption DEF FetchSegment, ServerHasData, BlobMaxFor, TypeOK, CursorInv, SuccessInv
  <2>7. RowsFaithful'
    BY <1>10, SegmentFits, NullLensAssumption DEF FetchSegment, ServerHasData, BlobMaxFor, TypeOK, CursorInv, ArrayInv, RowsFaithful
  <2> QED BY <2>1, <2>2, <2>3, <2>4, <2>5, <2>6, <2>7
<1>11. ASSUME NEW len \in (0..SegCap) \cup NullLens, SegmentResizeFails(len)
       PROVE  IInv'
  BY <1>11, SegmentFits, NullLensAssumption
     DEF SegmentResizeFails, TypeOK, CursorInv, ArrayInv, SmallResultInBounds, BlobInv,
         BlobInBounds, StmtInv, SuccessInv, RowsFaithful
<1>12. ASSUME NEW nulls \in SUBSET Nullable, NEW bad \in SUBSET Cols, StoreGroup(nulls, bad)
       PROVE  IInv'
  <2>1. TypeOK'
    <3>1. fieldidx \in Cols /\ lastidx \in (fieldidx + 1)..(NumFields + 1) /\ scol = fieldidx
      BY <1>12 DEF StoreGroup, CursorInv
    <3>2. \A c \in fieldidx..(lastidx - 1) : Source(c) \in Nat \X Nat /\ FieldBlock(c) \in Nat
      <4> SUFFICES ASSUME NEW c \in fieldidx..(lastidx - 1)
                   PROVE  Source(c) \in Nat \X Nat /\ FieldBlock(c) \in Nat
        OBVIOUS
      <4>1. c \in Cols /\ scol + (c - fieldidx) = c
        BY <3>1
      <4>2. srow \in Nat /\ fresh \in Nat /\ blob \in Nat /\ databuf \in [Cols -> Nat]
        BY DEF TypeOK
      <4>3. ColKind[c] \in {"blob", "fixed", "copied"}
        BY <4>1
      <4> HIDE DEF IInv
      <4>4. Source(c) \in Nat \X Nat
        BY <4>1, <4>2 DEF Source
      <4>5. FieldBlock(c) \in Nat
        BY <4>1, <4>2, <4>3 DEF FieldBlock
      <4> QED BY <4>4, <4>5
    <3>3. row' \in [Cols -> Fields]
      BY <1>12, <3>1, <3>2 DEF StoreGroup, TypeOK, Fields, NULLBLOCK
    <3>4. databuf' \in [Cols -> Nat]
      BY <1>12 DEF StoreGroup, BuffersAfter, TypeOK
    <3>5. heap' \subseteq Nat /\ fresh' \in Nat \ {0}
      <4>1. heap \subseteq Nat /\ fresh \in Nat \ {0}
        BY DEF TypeOK
      <4>2. heap' \subseteq heap \cup {fresh + c : c \in fieldidx..(lastidx - 1)}
        BY <1>12 DEF StoreGroup
      <4>3. fresh' = fresh + NumFields + 1
        BY <1>12 DEF StoreGroup
      <4>4. \A c \in fieldidx..(lastidx - 1) : fresh + c \in Nat
        BY <3>1, <4>1
      <4>5. heap' \subseteq Nat
        BY <4>1, <4>2, <4>4, Zenon
      <4> QED BY <4>1, <4>3, <4>5
    <3>6. srow' \in Nat /\ scol' \in Cols
      BY <1>12, <3>1 DEF StoreGroup, Advance, TypeOK
    <3> QED BY <1>12, <3>1, <3>3, <3>4, <3>5, <3>6 DEF StoreGroup, TypeOK
  <2>2. CursorInv'
    <3>1. /\ fieldidx \in Cols /\ scol = fieldidx /\ srow = count /\ srow < nrows
          /\ lastidx \in (fieldidx + 1)..(NumFields + 1)
      BY <1>12 DEF StoreGroup, CursorInv
    <3>2. \A c \in Cols : c < lastidx =>
             row'[c].tag # "unset" /\ row'[c].src = <<count + 1, c>>
      <4> SUFFICES ASSUME NEW c \in Cols, c < lastidx
                   PROVE  row'[c].tag # "unset" /\ row'[c].src = <<count + 1, c>>
        OBVIOUS
      <4>1. CASE c < fieldidx
        BY <1>12, <4>1, <3>1 DEF StoreGroup, CursorInv, TypeOK
      <4>2. CASE c >= fieldidx
        <5>1. c \in fieldidx..(lastidx - 1) /\ Source(c) = <<count + 1, c>>
          BY <3>1, <4>2 DEF Source, TypeOK
        <5> QED BY <1>12, <5>1 DEF StoreGroup
      <4> QED BY <3>1, <4>1, <4>2
    <3>3. IF lastidx <= NumFields THEN scol' = lastidx /\ srow' = count
                                  ELSE scol' = 1 /\ srow' = count + 1
      BY <1>12, <3>1 DEF StoreGroup, Advance, TypeOK
    <3> QED BY <1>12, <3>1, <3>2, <3>3 DEF StoreGroup, CursorInv, TypeOK
  <2>3. ArrayInv'
    BY <1>12 DEF StoreGroup, Source, FieldBlock, BuffersAfter, Advance, Fields, NULLBLOCK, TypeOK, CursorInv, ArrayInv, SmallResultInBounds
  <2>4. BlobInv'
    BY <1>12 DEF StoreGroup, Source, FieldBlock, BuffersAfter, Advance, Fields, NULLBLOCK, TypeOK, CursorInv, BlobInv, BlobInBounds
  <2>5. StmtInv'
    BY <1>12 DEF StoreGroup, Source, FieldBlock, BuffersAfter, Advance, Fields, NULLBLOCK, TypeOK, StmtInv
  <2>6. SuccessInv'
    BY <1>12 DEF StoreGroup, Source, FieldBlock, BuffersAfter, Advance, Fields, NULLBLOCK, TypeOK, CursorInv, SuccessInv
  <2>7. RowsFaithful'
    BY <1>12 DEF StoreGroup, Source, FieldBlock, BuffersAfter, Advance, Fields, NULLBLOCK, TypeOK, CursorInv, ArrayInv, RowsFaithful
  <2> QED BY <2>1, <2>2, <2>3, <2>4, <2>5, <2>6, <2>7
<1>13. CASE FinalizeRow
  <2>1. TypeOK'
    <3>1. [fields |-> row, block |-> rowblock] \in [fields : [Cols -> Fields], block : Nat]
      BY DEF TypeOK
    <3>2. \A k \in DOMAIN rows : /\ k \in Nat
                                 /\ rows[k] \in [fields : [Cols -> Fields], block : Nat]
      BY DEF TypeOK
    <3>3. count \in Nat /\ count' = count + 1
      BY <1>13 DEF TypeOK, FinalizeRow
    <3>4. \A k \in DOMAIN rows' :
             \/ k \in DOMAIN rows /\ rows'[k] = rows[k]
             \/ k = count + 1 /\ rows'[k] = [fields |-> row, block |-> rowblock]
      BY <1>13 DEF FinalizeRow
    <3>5. DOMAIN rows' \subseteq Nat
      BY <3>2, <3>3, <3>4
    <3>6. \A k \in DOMAIN rows' : rows'[k] \in [fields : [Cols -> Fields], block : Nat]
      BY <3>1, <3>2, <3>4
    <3>7. /\ pc' = "top"
          /\ UNCHANGED <<server, stmtHandle, closes, alloc, numrows, limit, fieldidx,
                         lastidx, blobs, bufs, retval, memory>>
      BY <1>13 DEF FinalizeRow
    <3> QED BY <3>3, <3>5, <3>6, <3>7 DEF TypeOK
  <2>2. CursorInv'
    <3>1. scol = 1 /\ srow = count + 1
      <4>1. pc = "group" /\ fieldidx > NumFields
        BY <1>13 DEF FinalizeRow
      <4>2. ~(fieldidx <= NumFields)
        BY <4>1, SizesAssumption DEF TypeOK
      <4> QED BY <4>1, <4>2 DEF CursorInv
    <3>2. count' = count + 1 /\ pc' = "top" /\ UNCHANGED <<server, fieldidx, lastidx, row>>
      BY <1>13 DEF FinalizeRow
    <3> QED BY <3>1, <3>2 DEF CursorInv, TypeOK
  <2>3. ArrayInv'
    <3>1. count < nrows
      <4>1. pc = "group" /\ fieldidx > NumFields
        BY <1>13 DEF FinalizeRow
      <4>2. fieldidx \in Nat /\ count \in Nat /\ nrows \in Nat
        BY DEF TypeOK
      <4>3. srow = count + 1 /\ srow <= nrows
        BY <4>1, <4>2 DEF CursorInv
      <4> QED BY <4>2, <4>3
    <3>2. \A k \in DOMAIN rows' : k <= count \/ k = count + 1
      BY <1>13 DEF FinalizeRow, ArrayInv
    <3>3. count' = count + 1 /\ pc' = "top" /\ UNCHANGED <<alloc, limit, nrows>>
      BY <1>13 DEF FinalizeRow
    <3>4. pc = "group"
      BY <1>13 DEF FinalizeRow
    <3>5. nrows < INITIAL_ROWS * ROW_FACTOR => count + 1 < alloc
      BY <3>1, <3>4 DEF ArrayInv, TypeOK
    <3>6. nrows < INITIAL_ROWS * ROW_FACTOR => \A k \in DOMAIN rows' : k < alloc
      <4>1. count \in Nat /\ alloc \in Nat /\ DOMAIN rows' \subseteq Nat
        BY <2>1 DEF TypeOK
      <4> QED BY <3>2, <3>5, <4>1
    <3>7. \A k \in DOMAIN rows' : k <= count'
      <4>1. count \in Nat /\ DOMAIN rows' \subseteq Nat
        BY <2>1 DEF TypeOK
      <4> QED BY <3>2, <3>3, <4>1
    <3>8. \/ limit' = INITIAL_ROWS /\ alloc' = INITIAL_ROWS + 1 /\ count' <= limit'
          \/ limit' = INITIAL_ROWS * ROW_FACTOR /\ alloc' = limit'
          \/ nrows' >= INITIAL_ROWS * ROW_FACTOR
      BY <3>3, <3>4 DEF ArrayInv, TypeOK
    <3> QED BY <3>3, <3>6, <3>7, <3>8 DEF ArrayInv, SmallResultInBounds
  <2>4. BlobInv'
    BY <1>13 DEF FinalizeRow, TypeOK, CursorInv, BlobInv, BlobInBounds
  <2>5. StmtInv'
    BY <1>13 DEF FinalizeRow, TypeOK, StmtInv
  <2>6. SuccessInv'
    BY <1>13 DEF FinalizeRow, TypeOK, CursorInv, SuccessInv
  <2>7. RowsFaithful'
    <3>1. \A c \in Cols : row[c].tag # "unset" /\ row[c].src = <<count + 1, c>>
      <4>1. pc = "group" /\ fieldidx > NumFields
        BY <1>13 DEF FinalizeRow
      <4>2. \A c \in Cols : c < fieldidx
        BY <4>1 DEF TypeOK
      <4> QED BY <4>1, <4>2 DEF CursorInv
    <3> QED BY <1>13, <3>1 DEF FinalizeRow, RowsFaithful
  <2> QED BY <2>1, <2>2, <2>3, <2>4, <2>5, <2>6, <2>7
<1>14. CASE RowsDone
  <2>1. TypeOK'
    <3>1. heap' \subseteq Nat /\ databuf' \in [Cols -> Nat]
      BY <1>14 DEF RowsDone, TypeOK, NULLBLOCK
    <3> QED BY <1>14, <3>1 DEF RowsDone, TypeOK
  <2>2. CursorInv'
    BY <1>14 DEF RowsDone, NULLBLOCK, TypeOK, CursorInv
  <2>3. ArrayInv'
    BY <1>14 DEF RowsDone, NULLBLOCK, TypeOK, CursorInv, ArrayInv, SmallResultInBounds
  <2>4. BlobInv'
    BY <1>14 DEF RowsDone, NULLBLOCK, TypeOK, CursorInv, BlobInv, BlobInBounds
  <2>5. StmtInv'
    BY <1>14 DEF RowsDone, NULLBLOCK, TypeOK, StmtInv
  <2>6. SuccessInv'
    BY <1>14 DEF RowsDone, NULLBLOCK, TypeOK, CursorInv, SuccessInv
  <2>7. RowsFaithful'
    BY <1>14 DEF RowsDone, NULLBLOCK, TypeOK, CursorInv, ArrayInv, RowsFaithful
  <2> QED BY <2>1, <2>2, <2>3, <2>4, <2>5, <2>6, <2>7
<1>15. CASE FreeResult
  <2>1. TypeOK'
    <3>1. heap' \subseteq Nat /\ closes' \in Nat
      <4>1. heap \subseteq Nat /\ closes \in Nat
        BY DEF TypeOK
      <4>2. heap' \subseteq heap
        BY <1>15 DEF FreeResult
      <4>3. heap' \subseteq Nat
        BY <4>1, <4>2, Zenon
      <4>4. closes' \in {closes, closes + 1}
        BY <1>15 DEF FreeResult
      <4> QED BY <4>1, <4>3, <4>4
    <3> QED BY <1>15, <3>1 DEF FreeResult, TypeOK
  <2>2. CursorInv'
    BY <1>15 DEF FreeResult, TypeOK, CursorInv
  <2>3. ArrayInv'
    BY <1>15 DEF FreeResult, TypeOK, CursorInv, ArrayInv, SmallResultInBounds
  <2>4. BlobInv'
    BY <1>15 DEF FreeResult, TypeOK, CursorInv, BlobInv, BlobInBounds
  <2>5. StmtInv'
    BY <1>15 DEF FreeResult, TypeOK, StmtInv
  <2>6. SuccessInv'
    BY <1>15 DEF FreeResult, TypeOK, CursorInv, SuccessInv
  <2>7. RowsFaithful'
    BY <1>15 DEF FreeResult, TypeOK, CursorInv, ArrayInv, RowsFaithful
  <2> QED BY <2>1, <2>2, <2>3, <2>4, <2>5, <2>6, <2>7
<1>16. CASE UNCHANGED vars
  BY <1>16
     DEF vars, TypeOK, CursorInv, ArrayInv, SmallResultInBounds, BlobInv,
         BlobInBounds, StmtInv, SuccessInv, RowsFaithful
<1> QED
  BY <1>1, <1>2, <1>3, <1>4, <1>5, <1>6, <1>7, <1>8, <1>9, <1>10, <1>11, <1>12,
     <1>13, <1>14, <1>15, <1>16 DEF Next, Done

\* IInv holds throughout ingres_results().
LEMMA SpecIInv == Spec => []IInv
BY InitIInv, NextIInv, PTL DEF Spec

\* The loop variables, the handle and the heap of ingres_results() keep their types.
THEOREM TypeCorrect == Spec => []TypeOK
BY SpecIInv, PTL DEF IInv

\* ingres_results() never copies a segment past the end of the BLOB buffer,
\* whatever ds_length is and however the segments are cut.
THEOREM BlobBounded == Spec => []BlobInBounds
BY SpecIInv, PTL DEF IInv, BlobInv

\* A result of fewer than INITIAL_ROWS * ROW_FACTOR rows (40 in the driver)
\* is stored inside its row array.
THEOREM SmallResultBounded == Spec => []SmallResultInBounds
BY SpecIInv, PTL DEF IInv, ArrayInv

\* Row k of the result holds the columns of the server's row k, for every
\* mix of BLOB and other columns.
THEOREM RowsAreFaithful == Spec => []RowsFaithful
BY SpecIInv, PTL DEF IInv

\* IIapi_close is called once for the statement, by ingres_results() or by
\* dbd_free_query().
THEOREM ClosedOnce == Spec => []StatementClosedOnce
<1>1. IInv => StatementClosedOnce
  BY DEF IInv, TypeOK, StmtInv, StatementClosedOnce
<1> QED BY <1>1, SpecIInv, PTL

\* A fetch that reports success publishes the row count of the server.
THEOREM SuccessIsComplete == Spec => []CompleteOnSuccess
<1>1. IInv => CompleteOnSuccess
  BY DEF IInv, SuccessInv, CompleteOnSuccess
<1> QED BY <1>1, SpecIInv, PTL


\* The rows of a small result are numbered without a gap, and rowsdone
\* publishes their number.
RowsInv ==
    /\ nrows < INITIAL_ROWS * ROW_FACTOR => DOMAIN rows = 1..count
    /\ pc = "returned" /\ closes = 1 => numrows = count

\* Only FinalizeRow adds a row, at count + 1 and inside the array; only
\* RowsDone closes the statement before the result is freed.
LEMMA NextRowsInv == IInv /\ RowsInv /\ [Next]_vars => RowsInv'
<1> SUFFICES ASSUME IInv, RowsInv, [Next]_vars PROVE RowsInv'
  OBVIOUS
<1> USE DEF IInv
<1>1. CASE FinalizeRow
  <2>1. /\ pc' = "top" /\ count' = count + 1 /\ nrows' = nrows
        /\ \/ DOMAIN rows' = DOMAIN rows \cup {count + 1}
           \/ count + 1 >= alloc /\ rows' = rows
    BY <1>1 DEF FinalizeRow, server
  <2>2. ASSUME nrows < INITIAL_ROWS * ROW_FACTOR PROVE count + 1 < alloc
    <3>1. /\ pc = "group" /\ count \in Nat /\ nrows \in Nat /\ srow <= nrows
          /\ fieldidx > NumFields /\ fieldidx \in Nat
      <4>1. pc = "group" /\ fieldidx > NumFields
        BY <1>1 DEF FinalizeRow
      <4>2. count \in Nat /\ nrows \in Nat /\ fieldidx \in Nat
        BY SizesAssumption DEF TypeOK
      <4>3. srow <= nrows
        BY DEF CursorInv
      <4> QED BY <4>1, <4>2, <4>3
    <3>2. srow = count + 1
      BY <3>1, SizesAssumption DEF CursorInv
    <3>3. \/ limit = INITIAL_ROWS /\ alloc = INITIAL_ROWS + 1 /\ count < limit
          \/ alloc = INITIAL_ROWS * ROW_FACTOR
          \/ nrows >= INITIAL_ROWS * ROW_FACTOR
      BY <2>2, <3>1 DEF ArrayInv
    <3>4. INITIAL_ROWS \in Nat /\ INITIAL_ROWS * ROW_FACTOR \in Nat
      BY SizesAssumption
    <3> QED BY <2>2, <3>1, <3>2, <3>3, <3>4
  <2>3. ASSUME nrows < INITIAL_ROWS * ROW_FACTOR PROVE DOMAIN rows' = 1..count'
    <3>1. DOMAIN rows' = DOMAIN rows \cup {count + 1}
      <4>1. count \in Nat /\ alloc \in Nat
        BY DEF TypeOK
      <4> QED BY <2>1, <2>2, <2>3, <4>1
    <3>2. DOMAIN rows = 1..count /\ count \in Nat
      BY <2>3 DEF RowsInv, TypeOK
    <3> QED BY <2>1, <3>1, <3>2
  <2> QED BY <2>1, <2>3 DEF RowsInv
<1>2. CASE RowsDone
  BY <1>2 DEF RowsDone, RowsInv, server, loop
<1>3. CASE SetupFails
  BY <1>3 DEF SetupFails, RowsInv, StmtInv, server, loop, result
<1>4. CASE FreeResult
  BY <1>4 DEF FreeResult, RowsInv, server, loop, result
<1>5. CASE UNCHANGED vars
  BY <1>5 DEF vars, RowsInv, server, loop, result
<1>6. CASE /\ UNCHANGED <<nrows, rows, count>>
           /\ pc' # "returned"
  BY <1>6 DEF RowsInv
<1>7. CASE SetupBuffers \/ GrowRows \/ SkipGrow \/ AllocRow
  BY <1>6, <1>7 DEF SetupBuffers, GrowRows, SkipGrow, AllocRow, server, loop, result
<1>8. CASE StartGroup \/ FetchNoData \/ FetchError \/ FetchColumns
  BY <1>6, <1>8 DEF StartGroup, FetchNoData, FetchError, FetchColumns, server, loop, result
<1>9. ASSUME NEW len, NEW more, FetchSegment(len, more) PROVE RowsInv'
  BY <1>6, <1>9 DEF FetchSegment, server, loop, result
<1>10. ASSUME NEW len, SegmentResizeFails(len) PROVE RowsInv'
  BY <1>6, <1>10 DEF SegmentResizeFails, server, loop, result
<1>11. ASSUME NEW nulls, NEW bad, StoreGroup(nulls, bad) PROVE RowsInv'
  <2>1. UNCHANGED <<nrows, rows, count>> /\ pc' = "group"
    BY <1>11 DEF StoreGroup, result
  <2> QED BY <1>6, <2>1
<1> QED
  BY <1>1, <1>2, <1>3, <1>4, <1>5, <1>7, <1>8, <1>9, <1>10, <1>11 DEF Next, Done

\* The rows that libdbi is told of after the fetch loop are the rows there are.
THEOREM PublishedRowsExist == Spec => []PublishedRows
<1>1. Init => RowsInv
  BY SizesAssumption DEF Init, RowsInv
<1>2. RowsInv => PublishedRows
  BY DEF RowsInv, PublishedRows
<1> QED BY <1>1, <1>2, SpecIInv, NextRowsInv, PTL DEF Spec

-----------------------------------------------------------------------------
(* The blocks behind the values *)

\* A BLOB is fetched alone.
GroupInv == pc \in {"fetch", "store"} => \A c \in fieldidx..(lastidx - 1) : IS_BLOB(c) => c = fieldidx

\* Every block in use has a number below fresh.
BelowInv ==
    /\ \A k \in DOMAIN rows : \A c \in Cols : rows[k].fields[c].block < fresh
    /\ \A c \in Cols : row[c].block < fresh /\ databuf[c] < fresh
    /\ blob < fresh

\* While rows are fetched every column has a live destination block of its own.
BufferInv ==
    /\ pc \notin {"setup", "returned", "freed"} => \A c \in Cols : databuf[c] # NULLBLOCK /\ databuf[c] \in heap
    /\ \A c, d \in Cols : c # d /\ databuf[c] # NULLBLOCK => databuf[c] # databuf[d]

\* The value v of column c lies in a block that is no destination block, and
\* that is alive unless it is a BLOB's.
Safe(v, c) ==
    /\ \A d \in Cols : databuf[d] # NULLBLOCK => databuf[d] # v.block
    /\ ~IS_BLOB(c) => v.block \in heap

\* The values of the rows that are stored.
StoredInv ==
    pc # "freed" => \A k \in DOMAIN rows : \A c \in Cols : rows[k].fields[c].tag = "value" =>
        /\ Safe(rows[k].fields[c], c)
        /\ \A l \in DOMAIN rows : \A d \in Cols :
             rows[l].fields[d].tag = "value" /\ rows[l].fields[d].block = rows[k].fields[c].block => l = k /\ d = c

\* The values of the row that is being filled.
FillingInv ==
    pc \in InRow => \A c \in Cols : row[c].tag = "value" =>
        /\ Safe(row[c], c)
        /\ \A k \in DOMAIN rows : \A d \in Cols :
             rows[k].fields[d].tag = "value" => rows[k].fields[d].block # row[c].block
        /\ \A d \in Cols : row[d].tag = "value" /\ row[d].block = row[c].block => d = c

\* The buffer a BLOB is being collected in belongs to nobody else yet.
CollectInv ==
    pc \in {"fetch", "store"} /\ IS_BLOB(fieldidx) =>
        /\ \A d \in Cols : databuf[d] # blob
        /\ \A k \in DOMAIN rows : \A d \in Cols :
             rows[k].fields[d].tag = "value" => rows[k].fields[d].block # blob
        /\ \A d \in Cols : row[d].tag = "value" => row[d].block # blob

OwnInv == GroupInv /\ BelowInv /\ BufferInv /\ StoredInv /\ FillingInv /\ CollectInv

\* A step that leaves the blocks and the group alone and goes no further back.
LEMMA OwnSame ==
    ASSUME OwnInv, UNCHANGED <<rows, row, databuf, blob, heap, fresh, fieldidx, lastidx>>,
           pc' \in {"fetch", "store"} => pc \in {"fetch", "store"}, pc' \in InRow => pc \in InRow,
           pc \in {"setup", "returned", "freed"} => pc' \in {"setup", "returned", "freed"},
           pc = "freed" => pc' = "freed"
    PROVE  OwnInv'
<1> USE DEF OwnInv
<1>1. GroupInv' /\ BelowInv' /\ BufferInv'
  BY DEF GroupInv, BelowInv, BufferInv, IS_BLOB, NULLBLOCK
<1>2. StoredInv' /\ FillingInv' /\ CollectInv'
  BY DEF StoredInv, FillingInv, CollectInv, Safe, IS_BLOB, NULLBLOCK
<1> QED BY <1>1, <1>2

\* The types the block arguments need.
LEMMA BlockTypes ==
    ASSUME TypeOK
    PROVE  /\ fresh \in Nat /\ fresh > 0 /\ blob \in Nat /\ NumFields \in Nat /\ count \in Nat
           /\ \A c \in Cols : databuf[c] \in Nat /\ row[c].block \in Nat
           /\ \A k \in DOMAIN rows : k \in Nat
           /\ \A k \in DOMAIN rows : \A c \in Cols : rows[k].fields[c].block \in Nat
<1>1. fresh \in Nat /\ fresh > 0 /\ blob \in Nat /\ NumFields \in Nat /\ count \in Nat
  BY SizesAssumption DEF TypeOK
<1>2. databuf \in [Cols -> Nat] /\ row \in [Cols -> Fields] /\ DOMAIN rows \subseteq Nat
  BY DEF TypeOK
<1>3. \A c \in Cols : databuf[c] \in Nat /\ row[c].block \in Nat
  BY <1>2 DEF Fields
<1>4. ASSUME NEW k \in DOMAIN rows, NEW c \in Cols PROVE rows[k].fields[c].block \in Nat
  <2>1. rows[k] \in [fields : [Cols -> Fields], block : Nat]
    BY DEF TypeOK
  <2>2. rows[k].fields \in [Cols -> Fields]
    BY <2>1
  <2>3. rows[k].fields[c] \in Fields
    BY <2>2
  <2> QED BY <2>3 DEF Fields
<1> QED BY <1>1, <1>2, <1>3, <1>4

\* Every column gets a destination block that nobody has.
LEMMA SetupOwn == ASSUME IInv, OwnInv, SetupBuffers PROVE OwnInv'
<1> USE DEF IInv, OwnInv
<1>1. /\ pc = "setup" /\ pc' = "top" /\ fresh' = fresh + NumFields
      /\ \A c \in Cols : databuf'[c] = fresh + c - 1
      /\ heap' = heap \cup (fresh .. fresh + NumFields - 1)
      /\ UNCHANGED <<rows, row, blob>>
  BY DEF SetupBuffers, result, blobs
<1>2. BelowInv'
  BY <1>1, BlockTypes, SizesAssumption DEF BelowInv
<1>3. BufferInv'
  BY <1>1, BlockTypes DEF BufferInv, NULLBLOCK
<1>4. StoredInv'
  <2> SUFFICES ASSUME NEW k \in DOMAIN rows, NEW c \in Cols, rows[k].fields[c].tag = "value"
               PROVE  /\ Safe(rows[k].fields[c], c)'
                      /\ \A l \in DOMAIN rows : \A d \in Cols :
                           rows[l].fields[d].tag = "value" /\ rows[l].fields[d].block = rows[k].fields[c].block
                           => l = k /\ d = c
    BY <1>1 DEF StoredInv
  <2>1. rows[k].fields[c].block < fresh /\ rows[k].fields[c].block \in Nat /\ fresh \in Nat
    BY BlockTypes DEF BelowInv
  <2>2. \A d \in Cols : databuf'[d] # rows[k].fields[c].block
    BY <1>1, <2>1
  <2>3. Safe(rows[k].fields[c], c) 
    BY <1>1 DEF StoredInv
  <2>4. Safe(rows[k].fields[c], c)'
    BY <1>1, <2>2, <2>3 DEF Safe, IS_BLOB
  <2> QED BY <1>1, <2>4 DEF StoredInv
<1>5. GroupInv' /\ FillingInv' /\ CollectInv'
  BY <1>1 DEF GroupInv, FillingInv, CollectInv
<1> QED BY <1>2, <1>3, <1>4, <1>5

\* A new row has no values yet.
LEMMA AllocOwn == ASSUME IInv, OwnInv, AllocRow PROVE OwnInv'
<1> USE DEF IInv, OwnInv
<1>1. CASE pc' = "rowsdone"
  <2>1. pc = "row" /\ UNCHANGED <<rows, row, databuf, blob, heap, fresh, fieldidx, lastidx>>
    BY <1>1 DEF AllocRow, result, blobs
  <2> QED BY <1>1, <2>1, OwnSame
<1>2. CASE pc' # "rowsdone"
  <2>1. /\ pc = "row" /\ pc' = "group" /\ fresh' = fresh + 1 /\ heap' = heap \cup {fresh}
        /\ UNCHANGED <<rows, databuf, blob>>
    BY <1>2 DEF AllocRow, result, blobs
  <2>2. row' = [c \in Cols |-> Unset]
    BY <1>2 DEF AllocRow
  <2>3. \A c \in Cols : row'[c].tag = "unset" /\ row'[c].block = 0
    BY <2>2 DEF Unset, NULLBLOCK
  <2>4. BelowInv'
    BY <2>1, <2>3, BlockTypes DEF BelowInv
  <2>5. BufferInv' /\ GroupInv' /\ CollectInv'
    BY <2>1 DEF BufferInv, GroupInv, CollectInv, NULLBLOCK
  <2>6. StoredInv'
    BY <2>1 DEF StoredInv, Safe, IS_BLOB, NULLBLOCK
  <2>7. FillingInv'
    BY <2>1, <2>3 DEF FillingInv
  <2> QED BY <2>4, <2>5, <2>6, <2>7
<1> QED BY <1>1, <1>2

\* A BLOB is collected in a block that nobody has.
LEMMA StartOwn == ASSUME IInv, OwnInv, StartGroup PROVE OwnInv'
<1> USE DEF IInv, OwnInv
<1>1. /\ pc = "group" /\ pc' = "fetch" /\ UNCHANGED <<rows, row, databuf, fieldidx>>
      /\ lastidx' = GroupEnd(fieldidx) /\ fieldidx \in Cols
  BY SizesAssumption DEF StartGroup, result, bufs, TypeOK
<1>2. GroupInv'
  BY <1>1, GroupEndRange DEF GroupInv, IS_BLOB
<1>3. CASE IS_BLOB(fieldidx)
  <2>1. blob' = fresh /\ fresh' = fresh + 1 /\ heap' = heap \cup {fresh}
    BY <1>3 DEF StartGroup
  <2>2. BelowInv'
    BY <1>1, <2>1, BlockTypes DEF BelowInv
  <2>3. BufferInv'
    BY <1>1, <2>1 DEF BufferInv, NULLBLOCK
  <2>4. StoredInv'
    BY <1>1, <2>1 DEF StoredInv, Safe, IS_BLOB, NULLBLOCK
  <2>5. FillingInv'
    BY <1>1, <2>1 DEF FillingInv, Safe, IS_BLOB, NULLBLOCK
  <2>6. CollectInv'
    BY <1>1, <2>1, BlockTypes DEF CollectInv, BelowInv
  <2> QED BY <1>2, <2>2, <2>3, <2>4, <2>5, <2>6
<1>4. CASE ~IS_BLOB(fieldidx)
  <2>1. UNCHANGED <<blob, fresh, heap>>
    BY <1>4 DEF StartGroup, blobs, memory
  <2>2. BelowInv' /\ BufferInv'
    BY <1>1, <2>1 DEF BelowInv, BufferInv, NULLBLOCK
  <2>3. StoredInv' /\ FillingInv'
    BY <1>1, <2>1 DEF StoredInv, FillingInv, Safe, IS_BLOB, NULLBLOCK
  <2>4. CollectInv'
    BY <1>1, <1>4 DEF CollectInv, IS_BLOB
  <2> QED BY <1>2, <2>2, <2>3, <2>4
<1> QED BY <1>3, <1>4

\* The row takes its blocks with it into the array.
LEMMA FinalizeOwn == ASSUME IInv, OwnInv, FinalizeRow PROVE OwnInv'
<1> USE DEF IInv, OwnInv
<1>1. pc = "group" /\ pc' = "top" /\ UNCHANGED <<row, databuf, blob, heap, fresh>>
  BY DEF FinalizeRow, bufs, blobs, memory
<1>2. count + 1 \notin DOMAIN rows
  BY BlockTypes DEF ArrayInv
<1>3. \A k \in DOMAIN rows' :
         \/ k \in DOMAIN rows /\ rows'[k].fields = rows[k].fields
         \/ k = count + 1 /\ rows'[k].fields = row
  BY DEF FinalizeRow
<1>4. BelowInv'
  BY <1>1, <1>3 DEF BelowInv
<1>5. BufferInv' /\ GroupInv' /\ FillingInv' /\ CollectInv'
  BY <1>1 DEF BufferInv, GroupInv, FillingInv, CollectInv, NULLBLOCK
<1>6. StoredInv'
  <2> SUFFICES ASSUME NEW k \in DOMAIN rows', NEW c \in Cols, rows'[k].fields[c].tag = "value"
               PROVE  /\ Safe(rows'[k].fields[c], c)
                      /\ \A l \in DOMAIN rows' : \A d \in Cols :
                           rows'[l].fields[d].tag = "value" /\ rows'[l].fields[d].block = rows'[k].fields[c].block
                           => l = k /\ d = c
    BY <1>1 DEF StoredInv, Safe, IS_BLOB, NULLBLOCK
  <2>1. Safe(rows'[k].fields[c], c)
    BY <1>1, <1>3 DEF StoredInv, FillingInv
  <2>2. ASSUME NEW l \in DOMAIN rows', NEW d \in Cols, rows'[l].fields[d].tag = "value",
               rows'[l].fields[d].block = rows'[k].fields[c].block
        PROVE  l = k /\ d = c
    BY <1>1, <1>2, <1>3, <2>2 DEF StoredInv, FillingInv
  <2> QED BY <2>1, <2>2
<1> QED BY <1>4, <1>5, <1>6

\* The clean-up frees the destination blocks and no value.
LEMMA DoneOwn == ASSUME IInv, OwnInv, RowsDone PROVE OwnInv'
<1> USE DEF IInv, OwnInv
<1>1. /\ pc = "rowsdone" /\ pc' = "returned" /\ UNCHANGED <<rows, row, blob, fresh>>
      /\ heap' = heap \ DatabufBlocks /\ \A c \in Cols : databuf'[c] = 0
  BY DEF RowsDone, blobs, NULLBLOCK
<1>2. BelowInv'
  BY <1>1, BlockTypes DEF BelowInv
<1>3. BufferInv' /\ GroupInv' /\ FillingInv' /\ CollectInv'
  BY <1>1 DEF BufferInv, GroupInv, FillingInv, CollectInv, NULLBLOCK
<1>4. StoredInv'
  <2> SUFFICES ASSUME NEW k \in DOMAIN rows, NEW c \in Cols, rows[k].fields[c].tag = "value"
               PROVE  /\ Safe(rows[k].fields[c], c)'
                      /\ \A l \in DOMAIN rows : \A d \in Cols :
                           rows[l].fields[d].tag = "value" /\ rows[l].fields[d].block = rows[k].fields[c].block
                           => l = k /\ d = c
    BY <1>1 DEF StoredInv
  <2>1. Safe(rows[k].fields[c], c)
    BY <1>1 DEF StoredInv
  <2>2. rows[k].fields[c].block \notin DatabufBlocks
    BY <2>1 DEF Safe, DatabufBlocks
  <2>3. Safe(rows[k].fields[c], c)'
    BY <1>1, <2>1, <2>2 DEF Safe, IS_BLOB, NULLBLOCK
  <2> QED BY <1>1, <2>3 DEF StoredInv
<1> QED BY <1>2, <1>3, <1>4

\* Where the values of a group come to lie: a field is an old one (K), the BLOB
\* (B), takes over its destination block, which is replaced (F), or is copied
\* into a new block (C).
LEMMA StoreOwn ==
    ASSUME IInv, OwnInv, NEW nulls \in SUBSET Nullable, NEW bad \in SUBSET Cols, StoreGroup(nulls, bad)
    PROVE  OwnInv'
<1> USE DEF IInv, OwnInv
<1> DEFINE group == fieldidx..(lastidx - 1)
           values == group \ (nulls \cup bad)
           new    == {c \in values \cup bad : ~IS_BLOB(c)}
           Fixed(c) == c \in new /\ ColKind[c] = "fixed"
           K(c) == c \notin group /\ row'[c] = row[c]
           B(c) == c = fieldidx /\ IS_BLOB(c) /\ row'[c].block = blob
           F(c) == Fixed(c) /\ row'[c].block = databuf[c]
           C(c) == c \in new /\ ColKind[c] = "copied" /\ row'[c].block = fresh + c
<1>1. /\ pc = "store" /\ pc' = "group" /\ fresh' = fresh + NumFields + 1 /\ UNCHANGED <<rows, blob>>
      /\ databuf' = BuffersAfter(new)
      /\ heap' = (heap \cup {fresh + c : c \in new})
               \ (IF IS_BLOB(fieldidx) /\ bloblen = 0 /\ nulls = {} THEN {blob} ELSE {})
  BY DEF StoreGroup, result, blobs
<1>2. group \subseteq Cols /\ fieldidx \in group /\ \A c \in group : IS_BLOB(c) => c = fieldidx
  <2>1. fieldidx \in Cols /\ lastidx \in (fieldidx + 1)..(NumFields + 1)
    BY <1>1 DEF CursorInv
  <2>2. group \subseteq Cols /\ fieldidx \in group
    BY <2>1, SizesAssumption
  <2> QED BY <1>1, <2>2 DEF GroupInv
<1>3. \A c \in Cols : databuf'[c] = IF Fixed(c) THEN fresh + c ELSE databuf[c]
  BY <1>1 DEF BuffersAfter
<1>4. bad \subseteq group \ nulls
  BY DEF StoreGroup
<1>5. row' = [c \in Cols |->
                 IF c \in nulls THEN [tag |-> "null", src |-> Source(c), block |-> NULLBLOCK]
                 ELSE IF c \in bad THEN [tag |-> "empty", src |-> Source(c), block |-> NULLBLOCK]
                 ELSE IF c \in values
                 THEN [tag |-> "value", src |-> Source(c), block |-> FieldBlock(c)]
                 ELSE row[c]]
  BY DEF StoreGroup
<1>6. \A c \in values : (IS_BLOB(c) /\ FieldBlock(c) = blob) \/ (Fixed(c) /\ FieldBlock(c) = databuf[c])
                          \/ (c \in new /\ ColKind[c] = "copied" /\ FieldBlock(c) = fresh + c)
  <2> SUFFICES ASSUME NEW c \in values
               PROVE  (IS_BLOB(c) /\ FieldBlock(c) = blob) \/ (Fixed(c) /\ FieldBlock(c) = databuf[c])
                        \/ (c \in new /\ ColKind[c] = "copied" /\ FieldBlock(c) = fresh + c)
    OBVIOUS
  <2>1. ColKind[c] \in {"blob", "fixed", "copied"}
    BY <1>2, SizesAssumption
  <2> QED BY <2>1 DEF FieldBlock, IS_BLOB
<1>7. ASSUME NEW c \in Cols, row'[c].tag = "value" PROVE K(c) \/ B(c) \/ F(c) \/ C(c)
  <2>1. CASE c \in values
    <3>1. row'[c].block = FieldBlock(c)
      BY <1>5, <2>1
    <3> QED BY <1>2, <1>6, <2>1, <3>1
  <2>2. CASE c \notin values
    <3>1. c \notin nulls /\ c \notin bad
      BY <1>5, <1>7
    <3>2. c \notin group /\ row'[c] = row[c]
      BY <1>5, <2>2, <3>1
    <3> QED BY <3>2
  <2> QED BY <2>1, <2>2
<1>8. \A c \in Cols : row'[c].block \in {0, row[c].block} \/ B(c) \/ F(c) \/ C(c)
  <2> SUFFICES ASSUME NEW c \in Cols PROVE row'[c].block \in {0, row[c].block} \/ B(c) \/ F(c) \/ C(c)
    OBVIOUS
  <2>1. CASE c \in values
    <3>1. row'[c].block = FieldBlock(c)
      BY <1>5, <2>1
    <3> QED BY <1>2, <1>6, <2>1, <3>1
  <2>2. CASE c \notin values
    BY <1>5, <2>2 DEF NULLBLOCK
  <2> QED BY <2>1, <2>2
<1>9. \A c \in Cols : Fixed(c) => ColKind[c] # "copied"
  OBVIOUS
<1>10. \A x \in heap : (IS_BLOB(fieldidx) => x # blob) => x \in heap'
  BY <1>1
<1>11. \A c \in new : fresh + c \in heap'
  <2>1. \A c \in new : c \in Nat /\ fresh + c # blob
    BY <1>2, BlockTypes DEF BelowInv
  <2> QED BY <1>1, <2>1
<1>t. /\ fresh \in Nat /\ fresh > 0 /\ blob \in Nat /\ NumFields \in Nat
      /\ \A c \in Cols : c \in Nat /\ c <= NumFields /\ c > 0
      /\ \A c \in Cols : databuf[c] \in Nat /\ row[c].block \in Nat
      /\ \A k \in DOMAIN rows : \A c \in Cols : rows[k].fields[c].block \in Nat
  BY BlockTypes
<1>b. /\ \A k \in DOMAIN rows : \A c \in Cols : rows[k].fields[c].block < fresh
      /\ \A c \in Cols : row[c].block < fresh /\ databuf[c] < fresh /\ databuf[c] # 0 /\ databuf[c] \in heap
      /\ blob < fresh
      /\ \A c, d \in Cols : c # d => databuf[c] # databuf[d]
      /\ IS_BLOB(fieldidx) => \A d \in Cols : databuf[d] # blob
  BY <1>1 DEF BelowInv, BufferInv, CollectInv, NULLBLOCK
<1> HIDE DEF group, values, new
<1>12. BelowInv'
  BY <1>1, <1>3, <1>8, <1>t, <1>b DEF BelowInv
<1>13. BufferInv'
  <2>1. \A c \in Cols : databuf'[c] # 0 /\ databuf'[c] \in heap'
    BY <1>3, <1>10, <1>11, <1>t, <1>b
  <2>2. \A c, d \in Cols : c # d => databuf'[c] # databuf'[d]
    BY <1>3, <1>t, <1>b
  <2> QED BY <1>1, <2>1, <2>2 DEF BufferInv, NULLBLOCK
<1>14. ASSUME NEW v, NEW c \in Cols, Safe(v, c), v.block \in Nat, v.block < fresh, IS_BLOB(fieldidx) => v.block # blob
       PROVE  /\ \A d \in Cols : databuf'[d] # v.block
              /\ ~IS_BLOB(c) => v.block \in heap'
  <2>1. \A d \in Cols : databuf'[d] # v.block
    BY <1>3, <1>14, <1>t, <1>b DEF Safe, NULLBLOCK
  <2> QED BY <1>10, <1>14, <2>1 DEF Safe
<1>15. StoredInv'
  <2> SUFFICES ASSUME NEW k \in DOMAIN rows, NEW c \in Cols, rows[k].fields[c].tag = "value"
               PROVE  /\ Safe(rows[k].fields[c], c)'
                      /\ \A l \in DOMAIN rows : \A d \in Cols :
                           rows[l].fields[d].tag = "value" /\ rows[l].fields[d].block = rows[k].fields[c].block
                           => l = k /\ d = c
    BY <1>1 DEF StoredInv
  <2>1. Safe(rows[k].fields[c], c) /\ (IS_BLOB(fieldidx) => rows[k].fields[c].block # blob)
    BY <1>1 DEF StoredInv, CollectInv
  <2>2. rows[k].fields[c].block \in Nat /\ rows[k].fields[c].block < fresh
    BY <1>t, <1>b
  <2>3. /\ \A d \in Cols : databuf'[d] # rows[k].fields[c].block
        /\ ~IS_BLOB(c) => rows[k].fields[c].block \in heap'
    BY <1>14, <2>1, <2>2
  <2>4. Safe(rows[k].fields[c], c)'
    BY <1>1, <2>3 DEF Safe, IS_BLOB
  <2> QED BY <1>1, <2>4 DEF StoredInv
<1>16. FillingInv'
  <2> SUFFICES ASSUME NEW c \in Cols, row'[c].tag = "value"
               PROVE  /\ \A d \in Cols : databuf'[d] # row'[c].block
                      /\ ~IS_BLOB(c) => row'[c].block \in heap'
                      /\ \A k \in DOMAIN rows : \A d \in Cols :
                           rows[k].fields[d].tag = "value" => rows[k].fields[d].block # row'[c].block
                      /\ \A d \in Cols : row'[d].tag = "value" /\ row'[d].block = row'[c].block => d = c
    BY <1>1 DEF FillingInv, Safe, IS_BLOB
  <2>o. ASSUME NEW d \in Cols, row'[d].tag = "value", K(d)
        PROVE  /\ row[d].tag = "value" /\ row'[d].block = row[d].block /\ Safe(row[d], d)
               /\ IS_BLOB(fieldidx) => row[d].block # blob
               /\ \A k \in DOMAIN rows : \A e \in Cols :
                    rows[k].fields[e].tag = "value" => rows[k].fields[e].block # row[d].block
               /\ \A e \in Cols : row[e].tag = "value" /\ row[e].block = row[d].block => e = d
               /\ \A e \in Cols : databuf[e] # row[d].block
    <3>1. row[d].tag = "value" /\ row'[d].block = row[d].block
      BY <2>o
    <3>2. Safe(row[d], d) /\ (IS_BLOB(fieldidx) => row[d].block # blob)
      BY <1>1, <3>1 DEF FillingInv, CollectInv
    <3>3. \A e \in Cols : databuf[e] # row[d].block
      BY <1>b, <3>2 DEF Safe, NULLBLOCK
    <3> QED BY <1>1, <3>1, <3>2, <3>3 DEF FillingInv
  <2>1. \A d \in Cols : databuf'[d] # row'[c].block
    <3>1. CASE K(c)
      BY <1>14, <1>t, <1>b, <2>o, <3>1
    <3>2. CASE B(c)
      BY <1>3, <1>t, <1>b, <3>2
    <3>3. CASE F(c)
      BY <1>3, <1>t, <1>b, <3>3
    <3>4. CASE C(c)
      BY <1>3, <1>t, <1>b, <3>4
    <3> QED BY <1>7, <3>1, <3>2, <3>3, <3>4
  <2>2. ~IS_BLOB(c) => row'[c].block \in heap'
    <3>1. CASE K(c)
      BY <1>14, <1>t, <1>b, <2>o, <3>1
    <3>2. CASE F(c)
      BY <1>10, <1>b, <3>2
    <3>3. CASE C(c)
      BY <1>11, <3>3
    <3> QED BY <1>7, <3>1, <3>2, <3>3
  <2>3. ASSUME NEW k \in DOMAIN rows, NEW d \in Cols, rows[k].fields[d].tag = "value"
        PROVE  rows[k].fields[d].block # row'[c].block
    <3>1. Safe(rows[k].fields[d], d) /\ (IS_BLOB(fieldidx) => rows[k].fields[d].block # blob)
      BY <1>1, <2>3 DEF StoredInv, CollectInv
    <3>2. \A e \in Cols : databuf[e] # rows[k].fields[d].block
      BY <1>b, <3>1 DEF Safe, NULLBLOCK
    <3>3. CASE K(c)
      BY <2>3, <2>o, <3>3
    <3>4. CASE B(c)
      BY <3>1, <3>4
    <3>5. CASE F(c)
      BY <3>2, <3>5
    <3>6. CASE C(c)
      BY <1>t, <1>b, <3>6
    <3> QED BY <1>7, <3>3, <3>4, <3>5, <3>6
  <2>4. ASSUME NEW d \in Cols, row'[d].tag = "value", row'[d].block = row'[c].block
        PROVE  d = c
    <3>1. CASE K(c) /\ K(d)
      BY <2>4, <2>o, <3>1
    <3>2. CASE K(c) /\ ~K(d)
      BY <1>7, <1>t, <1>b, <2>4, <2>o, <3>2
    <3>3. CASE ~K(c) /\ K(d)
      BY <1>7, <1>t, <1>b, <2>4, <2>o, <3>3
    <3>4. CASE ~K(c) /\ ~K(d)
      <4>1. B(c) \/ F(c) \/ C(c)
        BY <1>7, <3>4
      <4>2. B(d) \/ F(d) \/ C(d)
        BY <1>7, <2>4, <3>4
      <4> QED BY <1>t, <1>b, <2>4, <4>1, <4>2
    <3> QED BY <3>1, <3>2, <3>3, <3>4
  <2> QED BY <2>1, <2>2, <2>3, <2>4
<1>17. GroupInv' /\ CollectInv'
  BY <1>1 DEF GroupInv, CollectInv
<1> QED BY <1>12, <1>13, <1>15, <1>16, <1>17

\* Every step of ingres_results() keeps the owners of the blocks apart.
LEMMA NextOwnInv == IInv /\ OwnInv /\ [Next]_vars => OwnInv'
<1> SUFFICES ASSUME IInv, OwnInv, [Next]_vars PROVE OwnInv'
  OBVIOUS
<1> USE DEF server, result, loop, blobs, bufs, memory
<1>1. CASE SetupFails \/ GrowRows \/ SkipGrow
  BY <1>1, OwnSame DEF SetupFails, GrowRows, SkipGrow
<1>2. CASE FetchNoData \/ FetchError \/ FetchColumns
  BY <1>2, OwnSame DEF FetchNoData, FetchError, FetchColumns
<1>3. ASSUME NEW len, NEW more, FetchSegment(len, more) PROVE OwnInv'
  BY <1>3, OwnSame DEF FetchSegment
<1>4. ASSUME NEW len, SegmentResizeFails(len) PROVE OwnInv'
  BY <1>4, OwnSame DEF SegmentResizeFails
<1>5. CASE FreeResult
  <2>1. pc = "returned" /\ pc' = "freed" /\ UNCHANGED <<rows, row, databuf, blob, fresh>>
    BY <1>5 DEF FreeResult
  <2>2. BelowInv' /\ BufferInv'
    BY <2>1 DEF OwnInv, BelowInv, BufferInv, NULLBLOCK
  <2>3. GroupInv' /\ StoredInv' /\ FillingInv' /\ CollectInv'
    BY <2>1 DEF GroupInv, StoredInv, FillingInv, CollectInv
  <2> QED BY <2>2, <2>3 DEF OwnInv
<1>6. CASE UNCHANGED vars
  BY <1>6, OwnSame DEF vars
<1> QED
  BY <1>1, <1>2, <1>3, <1>4, <1>5, <1>6, SetupOwn, AllocOwn, StartOwn, StoreOwn, FinalizeOwn, DoneOwn
     DEF Next, Done

\* No two values of a result share a block, no value lies in a buffer that the
\* next getColumns call overwrites or the clean-up frees, and the block of
\* every value that is not a BLOB is alive until the result is released.
THEOREM BlocksAreOwned == Spec => []BlocksOwned
<1>1. Init => OwnInv
  <2> SUFFICES ASSUME Init PROVE OwnInv
    OBVIOUS
  <2>1. pc = "setup" /\ DOMAIN rows = {} /\ blob = 0 /\ fresh = 1 /\ \A c \in Cols : databuf[c] = 0
    BY DEF Init, NULLBLOCK
  <2>2. \A c \in Cols : row[c].block = 0
    BY DEF Init, Unset, NULLBLOCK
  <2> QED BY <2>1, <2>2 DEF OwnInv, GroupInv, BelowInv, BufferInv, StoredInv, FillingInv, CollectInv, NULLBLOCK
<1>2. ASSUME OwnInv PROVE BlocksOwned
  <2> SUFFICES ASSUME pc # "freed",
                      NEW k \in DOMAIN rows, NEW c \in Cols, rows[k].fields[c].tag = "value"
               PROVE  /\ \A l \in DOMAIN rows : \A d \in Cols :
                           rows[l].fields[d].tag = "value" /\ rows[l].fields[d].block = rows[k].fields[c].block
                           => l = k /\ d = c
                      /\ rows[k].fields[c].block \notin DatabufBlocks
                      /\ ~IS_BLOB(c) => rows[k].fields[c].block \in heap
    BY DEF BlocksOwned
  <2>1. Safe(rows[k].fields[c], c)
    BY <1>2 DEF OwnInv, StoredInv
  <2>2. rows[k].fields[c].block \notin DatabufBlocks
    BY <2>1 DEF Safe, DatabufBlocks
  <2> QED BY <1>2, <2>1, <2>2 DEF OwnInv, StoredInv, Safe
<1> QED BY <1>1, <1>2, SpecIInv, NextOwnInv, PTL DEF Spec
=============================================================================
