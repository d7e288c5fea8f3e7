----------------------------- MODULE DbdSession -----------------------------
(***************************************************************************)
(* What a driver promises libdbi about a connection, whatever its client   *)
(* library: a caller is attached to the database that a connect or a       *)
(* select_db last reported, or to none at all.  A call that fails never    *)
(* leaves the caller attached to a database it was not told about, and     *)
(* statements run only while it is attached.                               *)
(***************************************************************************)
CONSTANTS Dbs, NoDb

VARIABLES
    att,    \* database that statements reach
    told,   \* database that the last successful call reported
    ran     \* database on which the last statement ran

vars == <<att, told, ran>>

Init == att = NoDb /\ told = NoDb /\ ran = NoDb

\* connect or select_db succeeds.
Attach(d) == att' = d /\ told' = d /\ UNCHANGED ran

\* connect or select_db fails: the old attachment survives or is gone.
\* disconnect, and a lost server, detach as well.
Detach == att' = NoDb /\ UNCHANGED <<told, ran>>

\* A statement of the caller.
Run == att # NoDb /\ ran' = att /\ UNCHANGED <<att, told>>

\* A lost connection comes back, to the same database.
Reattach == att = NoDb /\ att' = told /\ UNCHANGED <<told, ran>>

Next == (\E d \in Dbs : Attach(d)) \/ Detach \/ Run \/ Reattach

Spec == Init /\ [][Next]_vars
=============================================================================
