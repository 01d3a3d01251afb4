------------------------------- MODULE Sublists -------------------------------
(***************************************************************************)
(* Sequences by their positions: a sublist is given by the set of positions *)
(* it keeps, and text is cut at the set of positions of a separator.        *)
(***************************************************************************)
EXTENDS Integers, Sequences, FiniteSets

\* The k-th smallest element of a set of numbers.
Nth(S, k) == CHOOSE n \in S : Cardinality({m \in S : m <= n}) = k

\* What s has at the positions in S, in order; and the first of it, if any.
Pick(s, S) == [k \in 1..Cardinality(S) |-> s[Nth(S, k)]]
FirstOf(s, S) == IF S = {} THEN <<>> ELSE <<s[Nth(S, 1)]>>

\* The last position of c, or 0; everything up to and with it; what follows it.
LastAt(s, c) ==
    LET at == {0} \cup {k \in 1..Len(s) : s[k] = c}
    IN CHOOSE k \in at : \A l \in at : l <= k
UpTo(s, c) == SubSeq(s, 1, LastAt(s, c))
After(s, c) == SubSeq(s, LastAt(s, c) + 1, Len(s))

\* strings.Split: the pieces between two cuts, the ends of the text included.
Cuts(s, sep) == {0, Len(s) + 1} \cup {k \in 1..Len(s) : s[k] = sep}
Split(s, sep) ==
    LET cuts == Cuts(s, sep)
    IN [k \in 1..(Cardinality(cuts) - 1) |-> SubSeq(s, Nth(cuts, k) + 1, Nth(cuts, k + 1) - 1)]

\* Where a sequence of texts has one that is not empty.
NotEmpty(ss) == {k \in 1..Len(ss) : ss[k] # <<>>}

\* The sequences of a sequence, one behind the other.
Flatten(ss) ==
    LET upTo[k \in 0..Len(ss)] == IF k = 0 THEN <<>> ELSE upTo[k - 1] \o ss[k]
    IN upTo[Len(ss)]
===============================================================================
