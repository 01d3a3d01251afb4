------------------------------- MODULE LineDiff -------------------------------
(***************************************************************************)
(* The preview of :apply (action/apply/diff.go, apply.go): a YAML stream is *)
(* cut into documents, each document is compared with the live object, and  *)
(* the difference is rendered line by line.  A line is a model value; what  *)
(* the API server answers for a document is part of the document.           *)
(***************************************************************************)
EXTENDS Sublists

Separator == <<"---">>        \* a line that is "---" once trimmed
Ignored == {<<"#">>, <<"">>}  \* comments and blank lines
Manifest(doc) == <<"obj", doc>>   \* the lines of a manifest, with what the API server says of it

\* SplitDocuments: the runs of lines between separators, without those that
\* hold comments and blank lines only (hasContent).
Content(doc) == {k \in 1..Len(doc) : doc[k] \notin Ignored}
HasContent(doc) == Content(doc) # {}
SplitDocuments(data) ==
    LET docs == Split(data, Separator)
    IN Pick(docs, {k \in 1..Len(docs) : HasContent(docs[k])})

\* The documents' manifests.
Documents(data) ==
    LET docs == SplitDocuments(data)
    IN [k \in 1..Len(docs) |-> FirstOf(docs[k], Content(docs[k]))[1][2]]

\* resyncPoint: the nearest pair at or after (i, j), 0-based, at which both
\* sides have the same line, by total distance and then by the old side's; the
\* ends of both if there is none.
ResyncPoint(old, new, i, j) ==
    LET equal == {p \in (i..(Len(old) - 1)) \X (j..(Len(new) - 1)) : old[p[1] + 1] = new[p[2] + 1]}
    IN IF equal = {} THEN <<Len(old), Len(new)>>
       ELSE CHOOSE p \in equal : \A q \in equal :
              \/ p[1] + p[2] < q[1] + q[2]
              \/ p[1] + p[2] = q[1] + q[2] /\ p[1] <= q[1]

Run(mark, s, from, to) == [k \in 1..(to - from) |-> <<mark, s[from + k]>>]

\* unifiedDiff: the loop body at cursors (i, j), and the loop.  Every round moves a
\* cursor, so that many rounds as there are lines are enough.
MarksSwapped(old, new, i, j, p) == Run("+", old, i, p[1]) \o Run("-", new, j, p[2])
Hunk(old, new, i, j, p) == Run("-", old, i, p[1]) \o Run("+", new, j, p[2])
Round(old, new, s) ==
    IF s.i = Len(old) /\ s.j = Len(new) THEN s
    ELSE IF s.i < Len(old) /\ s.j < Len(new) /\ old[s.i + 1] = new[s.j + 1]
    THEN [i |-> s.i + 1, j |-> s.j + 1, out |-> Append(s.out, <<" ", old[s.i + 1]>>)]
    ELSE LET next == ResyncPoint(old, new, s.i, s.j)
         IN [i |-> next[1], j |-> next[2], out |-> s.out \o Hunk(old, new, s.i, s.j, next)]
UnifiedDiff(old, new) ==
    LET after[n \in 0..(Len(old) + Len(new))] ==
            IF n = 0 THEN [i |-> 0, j |-> 0, out |-> <<>>] ELSE Round(old, new, after[n - 1])
    IN IF old = new THEN <<>> ELSE after[Len(old) + Len(new)].out

\* Diff, for one document: parse, map, fetch the live object (one that is not
\* found is new), apply as a dry run, render.  fails names the step that fails.
DiffOne(doc) ==
    IF doc.fails # "none" THEN [err |-> TRUE, diff |-> <<>>]
    ELSE [err |-> FALSE,
          diff |-> IF doc.isNew THEN Run("+", doc.proposed, 0, Len(doc.proposed))
                   ELSE UnifiedDiff(doc.live, doc.proposed)]

\* One document's failure does not keep the others from being compared.
Diff(docs) == [k \in 1..Len(docs) |-> DiffOne(docs[k])]

\* diffHasContent: whether there is anything to preview.
DiffHasContent(results) == \E k \in 1..Len(results) : results[k].err \/ results[k].diff # <<>>

\* The two sides a rendered difference stands for.
Kept(diff, mark) == {k \in 1..Len(diff) : diff[k][1] \in {" ", mark}}
Side(diff, mark) == LET lines == Pick(diff, Kept(diff, mark)) IN [k \in 1..Len(lines) |-> lines[k][2]]
=============================================================================
