------------------------------- MODULE Calls -------------------------------
(***************************************************************************)
(* One call of a driver's function: what it is given and what it returns.  *)
(***************************************************************************)
EXTENDS Integers, Sequences

VARIABLES
    input,   \* what the driver is given; input.kind names the conversion
    output   \* <<result>>, or <<>> before the call
callVars == <<input, output>>

Strings(chars, n) == UNION {[1..k -> chars] : k \in 0..n}

Done(kind) == output # <<>> /\ input.kind = kind
=============================================================================
