------------------------------ MODULE DbiRows ------------------------------
(***************************************************************************)
(* What a driver promises libdbi about the rows of a result: after a       *)
(* successful dbi_result_seek_row(), next_row() or prev_row(), the current *)
(* row is the row of the statement that was asked for, in whatever order   *)
(* rows are visited and however often.                                     *)
(***************************************************************************)
EXTENDS Naturals

CONSTANT MaxRows

VARIABLES
    cur,    \* number of the current row, 0 before the first
    shown   \* the statement's row whose values the caller sees

vars == <<cur, shown>>

Init == cur = 0 /\ shown = 0

\* A statement has a new result, or none: no row is current.
Fresh == cur' = 0 /\ shown' = 0

\* A row is asked for and delivered; a request that fails changes nothing.
Seek(k) == cur' = k /\ shown' = k

Next == Fresh \/ \E k \in 1..MaxRows : Seek(k)

Spec == Init /\ [][Next]_vars
=============================================================================
