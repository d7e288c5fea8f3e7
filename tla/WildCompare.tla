---------------------------- MODULE WildCompare ----------------------------
(***************************************************************************)
(* wild_case_compare() of drivers/sqlite3/dbd_sqlite3.c: dbd_list_dbs()    *)
(* matches file names against an SQL LIKE pattern with it.  A string is a  *)
(* sequence over Alphabet; the pointers str and wildstr are the numbers of *)
(* characters in front of them.  A behaviour is one call.                  *)
(***************************************************************************)
EXTENDS Calls

CONSTANTS
    Alphabet,   \* characters of names and patterns
    HighChars,  \* those above 127: negative as char, positive as unsigned char
    MaxName,    \* bound: length of a file name
    MaxPattern  \* bound: length of a pattern

wild_many == "%"
wild_one == "_"
escape == "esc"      \* the backslash that dbd_list_dbs() passes

ASSUME AlphabetAssumption ==
    /\ {wild_many, wild_one, escape} \subseteq Alphabet
    /\ HighChars \subseteq Alphabet \ {wild_many, wild_one, escape}
    /\ {MaxName, MaxPattern} \subseteq Nat

\* The character that the pattern asks for at j, by its index: an escape in
\* front of another character stands for that character.
Unescape(w, j) == IF w[j + 1] = escape /\ j + 1 < Len(w) THEN j + 2 ELSE j + 1

\* *str against the unsigned char cmp: a negative char never equals it.
EqualsCmp(c, cmp) == c = cmp /\ c \notin HighChars

\* Mutated: the first occurrence of the character decides.
SearchAgain_never(s, w, i, j) == FALSE

\* The do loop goes on while there is name left and the rest of the pattern
\* does not begin with another '%'.
SearchAgain(s, w, i, j) == i # Len(s) /\ (j = Len(w) \/ w[j + 1] # wild_many)

\* Mutated: a mismatch is reported like an exhausted name.
NoMatch_final == -1

\* "No match" here; a later start in the name may still match.
NoMatch == 1

\* In place of a result: in the loop that follows a '%'.
many == 0

\* compare[j][result][i]: what the function returns once it stands at i in
\* the name and at j in the pattern.

\* The do loop: try the rest of the pattern after each occurrence of cmp,
\* until one of them settles the matter.
Search(s, w, compare, j, i) ==
    LET cmp == Unescape(w, j)
        tmp(k) == compare[cmp][-1][k]
        settled == {k \in (i + 1)..Len(s) : /\ EqualsCmp(s[k], w[cmp])
                                            /\ tmp(k) <= 0 \/ ~SearchAgain(s, w, k, cmp)}
    IN  IF settled = {} THEN -1
        ELSE LET first == CHOOSE k \in settled : \A l \in settled : k <= l
             IN  IF tmp(first) <= 0 THEN tmp(first) ELSE -1

\* A character of the pattern; result is 1 once an anchor character matched.
Turn(s, w, compare, j, result, i) ==
    IF j = Len(w) THEN IF result = many \/ i = Len(s) THEN 0 ELSE 1
    ELSE IF w[j + 1] = wild_many THEN compare[j + 1][many][i]
    ELSE IF w[j + 1] = wild_one
    THEN IF i # Len(s) THEN compare[j + 1][result][i + 1]
         ELSE IF result = many THEN -1 ELSE result
    ELSE IF result = many
    THEN IF i # Len(s) THEN Search(s, w, compare, j, i) ELSE -1
    ELSE LET u == Unescape(w, j)
         IN  IF i = Len(s) \/ w[u] # s[i + 1] THEN NoMatch ELSE compare[u][1][i + 1]

CompareAt(s, w, compare, j) ==
    [result \in {-1, many, 1} |-> [i \in 0..Len(s) |-> Turn(s, w, compare, j, result, i)]]

Compare(s, w) ==
    LET compare[j \in 0..Len(w)] == CompareAt(s, w, compare, j) IN compare

wild_case_compare(str, wildstr) == Compare(str, wildstr)[0][-1][0]

\* The sqlite driver has a copy of the function.
sqlite_wild_case_compare(str, wildstr) == wild_case_compare(str, wildstr)

-----------------------------------------------------------------------------
(* Calls *)

NameInputs ==
    \E name \in Strings(Alphabet, MaxName), pattern \in Strings(Alphabet, MaxPattern) :
      input = [kind |-> "name", name |-> name, pattern |-> pattern]

\* dbd_list_dbs() compares a directory entry with the caller's pattern.
ListEntry ==
    /\ output = <<>> /\ input.kind = "name"
    /\ UNCHANGED input
    /\ \/ output' = <<wild_case_compare(input.name, input.pattern)>>
       \/ output' = <<sqlite_wild_case_compare(input.name, input.pattern)>>

NameInit == output = <<>> /\ NameInputs
NameSpec == NameInit /\ [][ListEntry]_callVars

-----------------------------------------------------------------------------
(* What LIKE means, without any of the short cuts.                          *)

\* matched[j]: from where on the name fits the pattern from j on.
MatchedAt(s, w, matched, j) ==
    IF j = Len(w) THEN {Len(s)}
    ELSE LET u    == IF w[j + 1] \in {wild_many, wild_one} THEN j + 1 ELSE Unescape(w, j)
             rest == matched[u]
         IN  IF w[j + 1] = wild_many THEN {i \in 0..Len(s) : \E k \in rest : i <= k}
             ELSE {i \in 0..(Len(s) - 1) : (w[j + 1] = wild_one \/ s[i + 1] = w[u]) /\ i + 1 \in rest}

Matched(s, w) ==
    LET matched[j \in 0..Len(w)] == MatchedAt(s, w, matched, j) IN matched

\* The name from its k-th character on against the whole pattern.
LikeFrom(s, w, k) == k \in Matched(s, w)[0]
Like(s, w) == LikeFrom(s, w, 0)

-----------------------------------------------------------------------------
(* Properties *)

PlainPattern == \A i \in 1..Len(input.pattern) : input.pattern[i] \notin HighChars

\* wild_case_compare() returns 0 only for names that the pattern matches, and
\* for all of them if the pattern has no byte above 127: its search, which
\* gives up after the first -1 and stops at the next '%', loses no match.
MatchIsLike ==
    Done("name") =>
        /\ output[1] = 0 => Like(input.name, input.pattern)
        /\ Like(input.name, input.pattern) /\ PlainPattern => output[1] = 0

\* A result of -1 lets the caller one level up stop searching, so it must
\* never be given where a longer rest of the name would still match: no
\* suffix of the name matches either (patterns with bytes above 127 aside).
MinusOneIsFinal ==
    Done("name") =>
        (output[1] = -1 /\ PlainPattern =>
            \A k \in 0..Len(input.name) : ~LikeFrom(input.name, input.pattern, k))
=============================================================================
