------------------------------ MODULE CStrings ------------------------------
(***************************************************************************)
(* The string functions of the C library that the drivers scan text with.  *)
(* A text is a sequence of lexemes: a name, a keyword or a type word is one *)
(* lexeme, a blank or a punctuation mark another, so that no name is found *)
(* inside another one.  0 stands for a NULL result.                         *)
(***************************************************************************)
EXTENDS Integers, Sequences
LOCAL INSTANCE SequencesExt

\* Text from the lexeme after the n-th on.
Drop(s, n) == SubSeq(s, n + 1, Len(s))

strchr(s, c) == SelectInSeq(s, LAMBDA x : x = c)

strstr(s, t) ==
    LET at == {i \in 1..(Len(s) - Len(t) + 1) : SubSeq(s, i, i + Len(t) - 1) = t}
    IN  IF at = {} THEN 0 ELSE CHOOSE i \in at : \A j \in at : i <= j

\* Number of lexemes in front of the first one that is in stop.
strcspn(s, stop) ==
    LET i == SelectInSeq(s, LAMBDA x : x \in stop) IN IF i = 0 THEN Len(s) ELSE i - 1

\* The tokens that successive calls of strtok() return.
RECURSIVE strtok(_, _)
strtok(s, delim) ==
    IF s = <<>> THEN <<>>
    ELSE IF Head(s) \in delim THEN strtok(Tail(s), delim)
    ELSE LET n == strcspn(s, delim)
         IN  <<SubSeq(s, 1, n)>> \o strtok(Drop(s, n), delim)
=============================================================================
