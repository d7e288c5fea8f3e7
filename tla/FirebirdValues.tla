--------------------------- MODULE FirebirdValues ---------------------------
(***************************************************************************)
(* The fields of drivers/firebird: a column's flag tells that it may be    *)
(* NULL, the values arrive in binary, a BLOB in segments.                  *)
(***************************************************************************)
EXTENDS FieldValues

CONSTANT
    BlobSegment  \* size of the blob_segment buffer (80)

ASSUME BlobAssumption == BlobSegment \in Nat \ {0}

firebird_types ==
    [TEXT |-> Chars, VARYING |-> Str, SHORT |-> SInt(2), LONG |-> SInt(3), INT64 |-> SInt(8),
     FLOAT |-> Dec(4), DOUBLE |-> Dec(8), TIMESTAMP |-> Time(3), TYPE_TIME |-> Time(2),
     TYPE_DATE |-> Time(1), BLOB |-> Bin, ARRAY |-> Bin]

translate_firebird_type(column) == firebird_types[column.type]

firebird_field_info(column) == translate_firebird_type(column)

\* isc_get_segment(): the next piece of at most BlobSegment bytes, the
\* segments that are left, and the status.
isc_get_segment(segments) ==
    IF segments = <<>> THEN [piece |-> <<>>, left |-> <<>>, status |-> "isc_segstr_eof"]
    ELSE LET s == Head(segments)
         IN  IF Len(s) > BlobSegment
             THEN [piece |-> SubSeq(s, 1, BlobSegment), status |-> "isc_segment",
                   left |-> <<SubSeq(s, BlobSegment + 1, Len(s))>> \o Tail(segments)]
             ELSE [piece |-> s, left |-> Tail(segments), status |-> "0"]

BlobGoesOn(status) == status \in {"0", "isc_segment"}

RECURSIVE ReadBlob(_, _)
ReadBlob(got, data) ==
    IF ~BlobGoesOn(got.status) THEN data
    ELSE LET next == isc_get_segment(got.left) IN ReadBlob(next, data \o next.piece)

\* sqldata: the column's buffer, for a blob its segments.  A CHAR column has
\* no terminator: strdup() copies what follows it in the buffer, junk, and
\* the decoder of a blob reads on behind its last segment in the same way.
firebird_row_data(a, column, sqldata, junk) ==
    IF column.flag /\ sqldata = SqlNull THEN NullField
    ELSE CASE a.type = "INTEGER" -> Field(IntMember(a.size), sqldata, 0)
           [] a.type = "DECIMAL" -> Field(DecMember(a.size), sqldata, 0)
           [] a.type = "DATETIME" -> TimeField(a, sqldata)
           [] a = Chars -> Field("d_string", CString(sqldata \o junk), Len(sqldata))
           [] a = Str -> Field("d_string", Append(sqldata, 0), Len(sqldata))
           [] a.type = "BINARY" ->
                LET first == isc_get_segment(sqldata)
                    bytes == dbd_decode_binary(CString(ReadBlob(first, first.piece) \o junk))
                IN  Field("d_string", bytes, Len(bytes))
=============================================================================
