-------------------------- MODULE MCIngresResults --------------------------
(* Small instances of IngresResults: one column of each kind, or plain columns with the sizes of the driver. *)
EXTENDS IngresResults

\* A fixed-size column, a BLOB, and a column whose value is copied.
KindsMixed == <<"fixed", "blob", "copied">>

\* Two columns fetched in one call, to make the row array the subject.
KindsPlain == <<"copied", "fixed">>
=============================================================================
