------------------------------- MODULE TextView -------------------------------
(***************************************************************************)
(* The scrollable text page with its "/" search (view/textview.go), as the  *)
(* preview of :apply and the page of :explain use it.  A line is a mark     *)
(* with whatever follows it, and a search term is a mark: it matches the    *)
(* lines that begin with it.  "" is no search and "~" a regex that is empty *)
(* or does not compile, which matches nothing.  Lines count from 0.         *)
(***************************************************************************)
EXTENDS Sublists

NewTextView(lines) ==
    [lines |-> lines, offset |-> 0, height |-> 0, filter |-> "", matched |-> <<>>, matchAt |-> 0]

Clamp(x, hi) == IF x > hi THEN hi ELSE IF x < 0 THEN 0 ELSE x

\* maxOffset: the last offset that fills the window.
MaxOffset(v) == IF v.height <= 0 \/ Len(v.lines) < v.height THEN 0 ELSE Len(v.lines) - v.height

\* scroll, "g" and "G".
Scroll(v, delta) == [v EXCEPT !.offset = Clamp(v.offset + delta, MaxOffset(v))]
GoHome(v) == [v EXCEPT !.offset = 0]
GoEnd(v) == [v EXCEPT !.offset = MaxOffset(v)]

\* scrollTo: the line in the middle of the window, where possible.
ScrollTo(v, line) == [v EXCEPT !.offset = Clamp(line - v.height \div 2, MaxOffset(v))]

\* SetFilter: the lines that match, and a jump to the first.
MatchedLines(v, f) ==
    IF f \in {"", "~"} THEN <<>>
    ELSE Pick([i \in 1..Len(v.lines) |-> i - 1], {i \in 1..Len(v.lines) : v.lines[i][1] = f})
SetTextFilter(v, f) ==
    LET found == MatchedLines(v, f)
        w == [v EXCEPT !.filter = f, !.matched = found, !.matchAt = 0]
    IN IF found = <<>> THEN w ELSE ScrollTo(w, found[1])

\* jumpMatch: the next or the previous match, around the ends.
JumpWithoutScroll(v, dir) ==
    IF v.matched = <<>> THEN v ELSE [v EXCEPT !.matchAt = (v.matchAt + dir + Len(v.matched)) % Len(v.matched)]
JumpMatch(v, dir) ==
    LET at == (v.matchAt + dir + Len(v.matched)) % Len(v.matched)
    IN IF v.matched = <<>> THEN v ELSE ScrollTo([v EXCEPT !.matchAt = at], v.matched[at + 1])

\* View: the window takes the page's rows but one for the status of a search,
\* and the offset is clamped to it.
BodyHeight(v, rows) == IF v.filter = "" THEN rows ELSE IF rows < 2 THEN 1 ELSE rows - 1
ViewText(v, rows) ==
    LET w == [v EXCEPT !.height = BodyHeight(v, rows)]
    IN [w EXCEPT !.offset = Clamp(w.offset, MaxOffset(w))]

\* The line n and N are on is in the window.
MatchOnScreen(v) ==
    v.matched = <<>> \/ v.matched[v.matchAt + 1] \in v.offset..(v.offset + v.height - 1)
=============================================================================
