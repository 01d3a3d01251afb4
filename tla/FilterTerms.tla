----------------------------- MODULE FilterTerms -----------------------------
(***************************************************************************)
(* The language of the live "/" filter (view/resource.go) and the           *)
(* completion of its last term (view/filtercomplete.go).  Text is a         *)
(* sequence of letters and of the marks that mean something to either       *)
(* parser: "!", "~", "|", " ", the unclosed "(" that no regex compiles      *)
(* with, and a column prefix such as "ns:", which is one mark because both  *)
(* parsers cut a term at its first colon.  Case is left out.                *)
(***************************************************************************)
EXTENDS Sublists, SequencesExt

CONSTANTS ColumnScope,  \* column prefix -> the scope it resolves to (resolveScope)
          TableRows     \* the rows of the page: [ns, name, cell], each a text

\* A column prefix is no other mark, and what a row says holds no mark: a value
\* that held one would be cut there, as if the user had meant it.
ASSUME RowsOK ==
    /\ TableRows \in Seq([ns : Seq(STRING), name : Seq(STRING), cell : Seq(STRING)])
    /\ DOMAIN ColumnScope \cap {"!", "~", "|", " "} = {}
    /\ \A k \in 1..Len(TableRows) : \A s \in {TableRows[k].ns, TableRows[k].name, TableRows[k].cell} :
         /\ \A i \in 1..Len(s) : s[i] \notin DOMAIN ColumnScope \cup {"!", "~", "|"}
         /\ s # <<>> => s[1] # " "

-----------------------------------------------------------------------------
(* Text *)

\* strings.Fields: the pieces between spaces, without the empty ones.
Fields(s) == LET pieces == Split(s, " ") IN Pick(pieces, NotEmpty(pieces))

Within(n, s) == \E i \in 0..(Len(s) - Len(n)) : SubSeq(s, i + 1, i + Len(n)) = n

Begins(s, c) == s # <<>> /\ Head(s) = c
Drop(s, c) == IF Begins(s, c) THEN Tail(s) ELSE s
Scoped(s) == s # <<>> /\ Head(s) \in DOMAIN ColumnScope
ScopeOf(s) == IF Scoped(s) THEN ColumnScope[Head(s)] ELSE "any"
ValueOf(s) == IF Scoped(s) THEN Tail(s) ELSE s

-----------------------------------------------------------------------------
(* Parsing *)

\* A repeated "col:" inside an alternative is stripped if it names the term's scope.
StripRepeatedScope(alt, scope) == IF Scoped(alt) /\ ScopeOf(alt) = scope THEN Tail(alt) ELSE alt

\* The alternatives of a value; the empty ones go, unless there is no "|" at all.
KeepEmpty(value, scope) == [i \in 1..Len(Split(value, "|")) |-> StripRepeatedScope(Split(value, "|")[i], scope)]
SplitAlternatives(value, scope) ==
    LET parts == Split(value, "|")
        alts == [i \in 1..Len(parts) |-> StripRepeatedScope(parts[i], scope)]
    IN IF Len(parts) = 1 THEN <<value>> ELSE Pick(alts, NotEmpty(alts))

\* One token [!][col:][~]value as a term, or nothing: empty values, values of
\* empty alternatives and regexes that do not compile are ignored.  A regex is
\* modelled by its alternatives; an empty one matches every text.
Term(token) ==
    LET tok == Drop(token, "!")
        scope == ScopeOf(tok)
        value == ValueOf(tok)
        regex == Begins(value, "~")
        needles == IF regex THEN Split(Tail(value), "|") ELSE SplitAlternatives(value, scope)
    IN IF value = <<>> \/ needles = <<>> \/ (regex /\ "(" \in ToSet(value)) THEN {}
       ELSE {[invert |-> Begins(token, "!"), scope |-> scope, needles |-> needles]}

ParseFilter(filter) == UNION {Term(t) : t \in ToSet(Fields(filter))}

-----------------------------------------------------------------------------
(* Matching *)

\* What a term of this scope is compared with.
TextsOf(r, scope) ==
    CASE scope = "ns" -> {r.ns}
      [] scope = "name" -> {r.name}
      [] scope = "cell" -> {r.cell}
      [] OTHER -> {r.ns, r.name, r.cell}

Found(term, r) == \E s \in TextsOf(r, term.scope) : \E n \in ToSet(term.needles) : Within(n, s)

MatchesAll(r, terms) == \A t \in terms : Found(t, r) # t.invert

\* filterRows: the rows that are kept.
FilterRows(filter) == LET terms == ParseFilter(filter) IN {r \in ToSet(TableRows) : MatchesAll(r, terms)}

\* unsatisfiableHint: the first column that two or more plain terms name, with
\* their values joined, or nothing.  The column is compared by its scope.
Joins(tok) == ~Begins(tok, "!") /\ Scoped(tok) /\ Tail(tok) # <<>> /\ ~Begins(Tail(tok), "~")
PlainTerms(filter) == LET f == Fields(filter) IN Pick(f, {k \in 1..Len(f) : Joins(f[k])})
Joined(terms) == Tail(Flatten([k \in 1..Len(terms) |-> <<"|">> \o Tail(terms[k])]))
UnsatisfiableHint(filter) ==
    LET plain == PlainTerms(filter)
        same(k) == Pick(plain, {n \in 1..Len(plain) : ScopeOf(plain[n]) = ScopeOf(plain[k])})
        twice == {k \in 1..Len(plain) : Len(same(k)) > 1}
    IN IF twice = {} THEN <<>>
       ELSE LET k == CHOOSE n \in twice : \A m \in twice : n <= m
            IN <<Head(plain[k])>> \o Joined(same(k))

-----------------------------------------------------------------------------
(* Completion of the last term *)

\* completionValues: what the rows offer for a scope.
Offers(r, scope) == CASE scope = "ns" -> r.ns [] scope = "cell" -> r.cell [] OTHER -> r.name

\* filterMatches: the prefix a chosen value is put after, and the values, in row
\* order without repeats, that the typed text is a prefix of.  The last
\* alternative of "a|b" is completed, behind a repeated "col:" if there is one;
\* a regex is not completed.
FilterMatches(buf) ==
    LET last == After(buf, " ")
        tok == Drop(last, "!")
        scope == ScopeOf(tok)
        alt == After(ValueOf(tok), "|")
        value == IF "|" \in ToSet(ValueOf(tok)) THEN StripRepeatedScope(alt, scope) ELSE alt
        offers == [i \in 1..Len(TableRows) |-> Offers(TableRows[i], scope)]
        fits == {i \in 1..Len(offers) : /\ offers[i] # <<>> /\ IsPrefix(value, offers[i])
                                        /\ \A k \in 1..(i - 1) : offers[k] # offers[i]}
    IN IF last = <<>> \/ Begins(ValueOf(tok), "~") THEN [prefix |-> <<>>, matches |-> <<>>]
       ELSE [prefix |-> SubSeq(buf, 1, Len(buf) - Len(value)),
             matches |-> Pick(offers, fits)]
=============================================================================
