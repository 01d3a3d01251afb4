-------------------------- MODULE CommandLineProofs --------------------------
(***************************************************************************)
(* Proofs about CommandLine: what is on screen follows the line that is     *)
(* typed, a key acts on what is shown, the preview of :apply rebuilds both  *)
(* sides, look-ups answer from what is served, and the filter language can  *)
(* be typed live.                                                          *)
(***************************************************************************)
EXTENDS CommandLine, SublistTheorems

-----------------------------------------------------------------------------
(* Text pages *)

\* A page without a search.
NoSearch == ""

\* A page as its operations leave it: the matches are lines, and one of them is
\* the current one.
Shape(v) ==
  v = [lines |-> v.lines, offset |-> v.offset, height |-> v.height, filter |-> v.filter,
       matched |-> v.matched, matchAt |-> v.matchAt]
View(v) ==
  /\ Shape(v)
  /\ Len(v.lines) \in Nat /\ v.offset \in Int /\ v.height \in Int
  /\ v.matched \in Seq(0..(Len(v.lines) - 1)) /\ (v.filter = NoSearch => v.matched = <<>>)
  /\ v.matchAt \in Nat /\ (v.matched # <<>> => v.matchAt < Len(v.matched))

\* A page as it is drawn: the window has its height and does not reach past the end.
Drawn(v, rows) == View(v) /\ v.height = BodyHeight(v, rows) /\ v.offset \in 0..MaxOffset(v)

LEMMA ClampOK ==
  ASSUME NEW x \in Int, NEW hi \in Nat
  PROVE  /\ Clamp(x, hi) \in 0..hi
         /\ (x > hi => Clamp(x, hi) = hi) /\ (x < 0 => Clamp(x, hi) = 0) /\ (x \in 0..hi => Clamp(x, hi) = x)
BY DEF Clamp

LEMMA MaxOffsetOK ==
  ASSUME NEW v, Len(v.lines) \in Nat, v.height \in Int
  PROVE  MaxOffset(v) \in Nat
BY DEF MaxOffset

LEMMA NewTextViewOK ==
  ASSUME NEW lines, Len(lines) \in Nat
  PROVE  View(NewTextView(lines)) /\ NewTextView(lines).lines = lines
<1>1. <<>> \in Seq(0..(Len(lines) - 1))
  OBVIOUS
<1> QED
  BY <1>1 DEF View, Shape, NewTextView

LEMMA BodyHeightOK ==
  ASSUME NEW v, NEW rows \in Nat
  PROVE  BodyHeight(v, rows) \in Nat
<1>1. CASE v.filter = NoSearch
  <2>1. BodyHeight(v, rows) = rows
    BY <1>1, Zenon DEF BodyHeight, NoSearch
  <2> QED
    BY <2>1
<1>2. CASE v.filter # NoSearch
  <2>1. BodyHeight(v, rows) = IF rows < 2 THEN 1 ELSE rows - 1
    BY <1>2, Zenon DEF BodyHeight, NoSearch
  <2> QED
    BY <2>1
<1> QED
  BY <1>1, <1>2

\* The fields of a page, as values of their own.
LEMMA ViewFields ==
  ASSUME NEW v, View(v)
  PROVE  \E l, o, h, f, m, a : v = [lines |-> l, offset |-> o, height |-> h, filter |-> f, matched |-> m, matchAt |-> a]
<1>1. v = [lines |-> v.lines, offset |-> v.offset, height |-> v.height, filter |-> v.filter,
           matched |-> v.matched, matchAt |-> v.matchAt]
  BY Zenon DEF View, Shape
<1> QED
  BY <1>1, Zenon

LEMMA ViewTextOK ==
  ASSUME NEW v, View(v), NEW rows \in Nat
  PROVE  /\ Drawn(ViewText(v, rows), rows)
         /\ ViewText(v, rows).lines = v.lines /\ ViewText(v, rows).filter = v.filter
         /\ ViewText(v, rows).matched = v.matched /\ ViewText(v, rows).matchAt = v.matchAt
         /\ v.height = BodyHeight(v, rows) => ViewText(v, rows).offset = Clamp(v.offset, MaxOffset(v))
<1>1. PICK l, o, h, f, m, a : v = [lines |-> l, offset |-> o, height |-> h, filter |-> f, matched |-> m, matchAt |-> a]
  BY ViewFields
<1>2. v.lines = l /\ v.offset = o /\ v.height = h /\ v.filter = f /\ v.matched = m /\ v.matchAt = a
  BY <1>1
<1>3. PICK b \in Nat : b = BodyHeight(v, rows)
  BY BodyHeightOK
<1> DEFINE w == [lines |-> l, offset |-> o, height |-> b, filter |-> f, matched |-> m, matchAt |-> a]
<1>4. [v EXCEPT !.height = BodyHeight(v, rows)] = w
  BY <1>1, <1>3
<1>5. w.lines = l /\ w.offset = o /\ w.height = b /\ w.filter = f /\ w.matched = m /\ w.matchAt = a
  OBVIOUS
<1>6. Len(l) \in Nat /\ o \in Int
  BY <1>2 DEF View
<1>7. PICK c : c = Clamp(o, MaxOffset(w))
  OBVIOUS
<1>8. MaxOffset(w) \in Nat
  <2> HIDE DEF w
  <2> QED
    BY <1>5, <1>6, MaxOffsetOK
<1>9. c \in 0..MaxOffset(w)
  <2> HIDE DEF w
  <2> QED
    BY <1>6, <1>7, <1>8, ClampOK
<1> DEFINE u == [lines |-> l, offset |-> c, height |-> b, filter |-> f, matched |-> m, matchAt |-> a]
<1>10. ViewText(v, rows) = u
  <2>1. ViewText(v, rows) = [w EXCEPT !.offset = Clamp(w.offset, MaxOffset(w))]
    BY <1>4 DEF ViewText
  <2>2. Clamp(w.offset, MaxOffset(w)) = c
    BY <1>5, <1>7
  <2>3. [w EXCEPT !.offset = c] = u
    OBVIOUS
  <2> HIDE DEF u, w
  <2> QED
    BY <2>1, <2>2, <2>3
<1>11. u.lines = l /\ u.offset = c /\ u.height = b /\ u.filter = f /\ u.matched = m /\ u.matchAt = a
  OBVIOUS
<1>12. Shape(u)
  BY DEF Shape
<1> HIDE DEF u, w
<1>13. MaxOffset(u) = MaxOffset(w) /\ BodyHeight(u, rows) = b
  BY <1>2, <1>3, <1>5, <1>11, Zenon DEF MaxOffset, BodyHeight
<1>14. u.offset \in 0..MaxOffset(u) /\ u.offset \in Int
  BY <1>8, <1>9, <1>11, <1>13
<1>15. View(u)
  <2>1. /\ Len(l) \in Nat /\ m \in Seq(0..(Len(l) - 1)) /\ (f = NoSearch => m = <<>>)
        /\ a \in Nat /\ (m # <<>> => a < Len(m))
    BY <1>2, Zenon DEF View
  <2>2. u.height \in Int
    BY <1>11
  <2> QED
    BY <1>11, <1>12, <1>14, <2>1, <2>2, Zenon DEF View
<1>16. Drawn(u, rows)
  BY <1>11, <1>13, <1>14, <1>15 DEF Drawn
<1>17. v.height = BodyHeight(v, rows) => MaxOffset(w) = MaxOffset(v)
  BY <1>2, <1>3, <1>5 DEF MaxOffset
<1> QED
  BY <1>2, <1>7, <1>10, <1>11, <1>16, <1>17

\* A page with other matches, at another place.
Altered(v, o, f, m, a) ==
  [lines |-> v.lines, offset |-> o, height |-> v.height, filter |-> f, matched |-> m, matchAt |-> a]

\* What a page may have found.
Fits(v, f, m, a) ==
  /\ m \in Seq(0..(Len(v.lines) - 1)) /\ (f = NoSearch => m = <<>>)
  /\ a \in Nat /\ (m # <<>> => a < Len(m))

LEMMA AlteredOK ==
  ASSUME NEW v, View(v), NEW o \in Int, NEW f, NEW m, NEW a, Fits(v, f, m, a), NEW u, u = Altered(v, o, f, m, a)
  PROVE  /\ View(u) /\ u.lines = v.lines /\ u.height = v.height
         /\ u.offset = o /\ u.filter = f /\ u.matched = m /\ u.matchAt = a
<1>1. /\ u.lines = v.lines /\ u.height = v.height
      /\ u.offset = o /\ u.filter = f /\ u.matched = m /\ u.matchAt = a
  BY DEF Altered
<1>2. Shape(u)
  BY <1>1 DEF Altered, Shape
<1>3. Len(v.lines) \in Nat /\ v.height \in Int
  BY Zenon DEF View
<1>4. View(u)
  BY <1>1, <1>2, <1>3, Zenon DEF View, Fits
<1> QED
  BY <1>1, <1>4

\* What a page has, in the form in which it is altered.
LEMMA ViewParts ==
  ASSUME NEW v, View(v)
  PROVE  /\ v = Altered(v, v.offset, v.filter, v.matched, v.matchAt)
         /\ v.offset \in Int /\ v.height \in Int /\ Len(v.lines) \in Nat /\ MaxOffset(v) \in Nat
         /\ Fits(v, v.filter, v.matched, v.matchAt)
<1>1. v = Altered(v, v.offset, v.filter, v.matched, v.matchAt)
  BY Zenon DEF View, Shape, Altered
<1>2. v.offset \in Int /\ v.height \in Int /\ Len(v.lines) \in Nat /\ Fits(v, v.filter, v.matched, v.matchAt)
  BY Zenon DEF View, Fits
<1>3. MaxOffset(v) \in Nat
  BY <1>2, MaxOffsetOK
<1> QED
  BY <1>1, <1>2, <1>3, Zenon

\* The match that a page is on.
LEMMA MatchOf ==
  ASSUME NEW v, View(v), v.matched # <<>>
  PROVE  /\ Len(v.matched) \in Nat /\ v.matchAt \in Nat /\ v.matchAt < Len(v.matched) /\ v.filter # NoSearch
         /\ v.matched[v.matchAt + 1] \in 0..(Len(v.lines) - 1)
<1>1. PICK V, m, a : V = 0..(Len(v.lines) - 1) /\ m = v.matched /\ a = v.matchAt
  OBVIOUS
<1>2. m \in Seq(V)
  BY <1>1, Zenon DEF View
<1>3. a \in Nat /\ a < Len(m) /\ v.filter # NoSearch
  BY <1>1, Zenon DEF View
<1>4. Len(m) \in Nat
  BY <1>2
<1>5. a + 1 \in 1..Len(m)
  <2>1. PICK n : n = Len(m)
    OBVIOUS
  <2>2. n \in Nat /\ a \in Nat /\ a < n
    BY <1>3, <1>4, <2>1
  <2>3. a + 1 \in 1..n
    BY <2>2
  <2> QED
    BY <2>1, <2>3
<1>6. m[a + 1] \in V
  BY <1>2, <1>5
<1> QED
  BY <1>1, <1>3, <1>4, <1>6, Zenon

\* Moving the window changes nothing else.
LEMMA MovedOK ==
  ASSUME NEW v, View(v), NEW o \in Int
  PROVE  /\ View([v EXCEPT !.offset = o])
         /\ [v EXCEPT !.offset = o] = Altered(v, o, v.filter, v.matched, v.matchAt)
<1>1. PICK l, p, h, f, m, a : v = [lines |-> l, offset |-> p, height |-> h, filter |-> f, matched |-> m, matchAt |-> a]
  BY ViewFields
<1>2. [v EXCEPT !.offset = o] = Altered(v, o, v.filter, v.matched, v.matchAt)
  BY <1>1 DEF Altered
<1>3. PICK u : u = Altered(v, o, v.filter, v.matched, v.matchAt)
  OBVIOUS
<1>4. Fits(v, v.filter, v.matched, v.matchAt)
  BY ViewParts
<1>5. View(u)
  BY <1>3, <1>4, AlteredOK
<1> QED
  BY <1>2, <1>3, <1>5, Zenon

LEMMA ScrollOK ==
  ASSUME NEW v, View(v), NEW d \in Int
  PROVE  /\ View(Scroll(v, d)) /\ View(GoHome(v)) /\ View(GoEnd(v))
         /\ Scroll(v, d).lines = v.lines /\ GoHome(v).lines = v.lines /\ GoEnd(v).lines = v.lines
<1>1. v.offset \in Int /\ MaxOffset(v) \in Nat
  BY ViewParts
<1>2. Clamp(v.offset + d, MaxOffset(v)) \in Int
  <2>1. v.offset + d \in Int
    BY <1>1
  <2>2. Clamp(v.offset + d, MaxOffset(v)) \in 0..MaxOffset(v)
    BY <1>1, <2>1, ClampOK
  <2> QED
    BY <1>1, <2>2
<1>3. View(Scroll(v, d))
  BY <1>2, MovedOK DEF Scroll
<1>4. View(GoHome(v)) /\ View(GoEnd(v))
  BY <1>1, MovedOK DEF GoHome, GoEnd
<1>5. \A o : [v EXCEPT !.offset = o].lines = v.lines
  <2>1. PICK l, o, h, f, m, a :
          v = [lines |-> l, offset |-> o, height |-> h, filter |-> f, matched |-> m, matchAt |-> a]
    BY ViewFields
  <2> QED
    BY <2>1
<1>6. Scroll(v, d).lines = v.lines /\ GoHome(v).lines = v.lines /\ GoEnd(v).lines = v.lines
  BY <1>5, Zenon DEF Scroll, GoHome, GoEnd
<1> QED
  BY <1>3, <1>4, <1>6

\* A jump puts the window around its line.
LEMMA ScrollToOK ==
  ASSUME NEW v, View(v), NEW n \in Int
  PROVE  /\ View(ScrollTo(v, n)) /\ Clamp(n - v.height \div 2, MaxOffset(v)) \in Int
         /\ ScrollTo(v, n) = Altered(v, Clamp(n - v.height \div 2, MaxOffset(v)), v.filter, v.matched, v.matchAt)
<1>1. v.height \in Int /\ MaxOffset(v) \in Nat
  BY ViewParts
<1>2. Clamp(n - v.height \div 2, MaxOffset(v)) \in Int
  <2>1. n - v.height \div 2 \in Int
    BY <1>1
  <2>2. Clamp(n - v.height \div 2, MaxOffset(v)) \in 0..MaxOffset(v)
    BY <1>1, <2>1, ClampOK
  <2> QED
    BY <1>1, <2>2
<1> QED
  BY <1>2, MovedOK DEF ScrollTo

\* The window that is drawn around a line shows it.
LEMMA WindowShows ==
  ASSUME NEW v, Len(v.lines) \in Nat, v.height \in Nat \ {0}, NEW n \in 0..(Len(v.lines) - 1)
  PROVE  LET o == Clamp(n - v.height \div 2, MaxOffset(v))
         IN o \in 0..MaxOffset(v) /\ n \in o..(o + v.height - 1)
<1>1. PICK l \in Nat, h \in Nat : l = Len(v.lines) /\ h = v.height
  OBVIOUS
<1>0. PICK hi : hi = MaxOffset(v)
  OBVIOUS
<1>2. PICK half \in Nat : half = h \div 2 /\ 2 * half <= h /\ h <= 2 * half + 1
  OBVIOUS
<1>3. hi = IF l < h THEN 0 ELSE l - h
  BY <1>0, <1>1 DEF MaxOffset
<1>4. PICK x \in Int : x = n - half
  OBVIOUS
<1>5. hi \in Nat /\ h >= 1 /\ n >= 0 /\ n <= l - 1
  BY <1>1, <1>3
<1>6. PICK o \in 0..hi : o = Clamp(x, hi)
  BY <1>5, ClampOK
<1>7. (x > hi => o = hi) /\ (x < 0 => o = 0) /\ (x \in 0..hi => o = x)
  BY <1>5, <1>6, ClampOK
<1>8. o <= n /\ n <= o + h - 1
  <2>1. CASE x > hi
    BY <1>2, <1>3, <1>4, <1>5, <1>7, <2>1
  <2>2. CASE x < 0
    BY <1>2, <1>4, <1>5, <1>7, <2>2
  <2>3. CASE x \in 0..hi
    BY <1>2, <1>4, <1>5, <1>7, <2>3
  <2> QED
    BY <1>5, <2>1, <2>2, <2>3
<1>9. o = Clamp(n - v.height \div 2, MaxOffset(v))
  BY <1>0, <1>1, <1>2, <1>4, <1>6
<1>10. n \in o..(o + v.height - 1) /\ o \in 0..MaxOffset(v)
  BY <1>0, <1>1, <1>5, <1>6, <1>8
<1> QED
  BY <1>9, <1>10

\* What a page's window is put around: the match it is on.
Aimed(v) ==
  v.matched # <<>> => v.offset = Clamp(v.matched[v.matchAt + 1] - v.height \div 2, MaxOffset(v))

LEMMA AimedOK ==
  ASSUME NEW v, View(v), NEW rows \in Nat, NEW w, w = ScrollTo(v, v.matched[v.matchAt + 1]), v.matched # <<>>
  PROVE  View(w) /\ Aimed(w) /\ w.filter = v.filter /\ w.height = v.height /\ w.matched # <<>> /\ w.lines = v.lines
<1>1. PICK n : n = v.matched[v.matchAt + 1]
  OBVIOUS
<1>2. n \in Int
  <2>1. n \in 0..(Len(v.lines) - 1) /\ Len(v.lines) \in Nat
    BY <1>1, MatchOf, ViewParts
  <2> QED
    BY <2>1
<1>3. PICK o : o = Clamp(n - v.height \div 2, MaxOffset(v))
  OBVIOUS
<1>4. o \in Int /\ w = Altered(v, o, v.filter, v.matched, v.matchAt)
  <2>1. w = ScrollTo(v, n)
    BY <1>1
  <2>2. /\ Clamp(n - v.height \div 2, MaxOffset(v)) \in Int
        /\ ScrollTo(v, n) = Altered(v, Clamp(n - v.height \div 2, MaxOffset(v)), v.filter, v.matched, v.matchAt)
    BY <1>2, ScrollToOK
  <2> QED
    BY <1>3, <2>1, <2>2, Zenon
<1>5. Fits(v, v.filter, v.matched, v.matchAt)
  BY ViewParts
<1>6. View(w) /\ w.lines = v.lines /\ w.height = v.height
  BY <1>4, <1>5, AlteredOK
<1>7. w.offset = o /\ w.filter = v.filter /\ w.matched = v.matched /\ w.matchAt = v.matchAt
  BY <1>4, <1>5, AlteredOK
<1>8. MaxOffset(w) = MaxOffset(v)
  BY <1>6 DEF MaxOffset
<1> QED
  BY <1>1, <1>3, <1>6, <1>7, <1>8 DEF Aimed

LEMMA MatchedLinesOK ==
  ASSUME NEW v, View(v), NEW f
  PROVE  MatchedLines(v, f) \in Seq(0..(Len(v.lines) - 1)) /\ (f = NoSearch => MatchedLines(v, f) = <<>>)
<1>1. PICK L \in Nat : L = Len(v.lines)
  BY ViewParts
<1>2. CASE f = NoSearch \/ f = "~"
  <2>1. MatchedLines(v, f) = <<>>
    BY <1>2, Zenon DEF MatchedLines, NoSearch
  <2> QED
    BY <2>1
<1>3. CASE f # NoSearch /\ f # "~"
  <2> DEFINE S == {i \in 1..L : v.lines[i][1] = f}
             s == [i \in 1..L |-> i - 1]
  <2>1. MatchedLines(v, f) = Pick(s, S)
    BY <1>1, <1>3, Zenon DEF MatchedLines, NoSearch
  <2>2. s \in Seq(0..(L - 1)) /\ Len(s) = L /\ S \subseteq 1..L
    <3>1. \A i \in 1..L : i - 1 \in 0..(L - 1)
      OBVIOUS
    <3> QED
      BY <3>1
  <2> HIDE DEF s, S
  <2>3. Pick(s, S) \in Seq(0..(L - 1))
    BY <2>2, PickOK
  <2> QED
    BY <1>1, <1>3, <2>1, <2>3
<1> QED
  BY <1>2, <1>3

LEMMA Refiltered ==
  ASSUME NEW v, View(v), NEW f, NEW found
  PROVE  [v EXCEPT !.filter = f, !.matched = found, !.matchAt = 0] = Altered(v, v.offset, f, found, 0)
<1>0. PICK l, o, h, g, m, a : v = [lines |-> l, offset |-> o, height |-> h, filter |-> g, matched |-> m, matchAt |-> a]
  BY ViewFields
<1>1. [v EXCEPT !.filter = f, !.matched = found, !.matchAt = 0]
        = [[[v EXCEPT !.filter = f] EXCEPT !.matched = found] EXCEPT !.matchAt = 0]
  BY Zenon
<1>2. PICK w : w = [lines |-> l, offset |-> o, height |-> h, filter |-> f, matched |-> m, matchAt |-> a]
  OBVIOUS
<1>3. PICK x : x = [lines |-> l, offset |-> o, height |-> h, filter |-> f, matched |-> found, matchAt |-> a]
  OBVIOUS
<1>4. [v EXCEPT !.filter = f] = w
  BY <1>0, <1>2
<1>5. [w EXCEPT !.matched = found] = x
  BY <1>2, <1>3
<1>6. [x EXCEPT !.matchAt = 0] = [lines |-> l, offset |-> o, height |-> h, filter |-> f, matched |-> found, matchAt |-> 0]
  BY <1>3
<1>7. Altered(v, v.offset, f, found, 0) = [lines |-> l, offset |-> o, height |-> h, filter |-> f, matched |-> found, matchAt |-> 0]
  BY <1>0 DEF Altered
<1> QED
  BY <1>1, <1>4, <1>5, <1>6, <1>7, Zenon

LEMMA SetTextFilterOK ==
  ASSUME NEW v, View(v), NEW f
  PROVE  LET w == SetTextFilter(v, f)
         IN View(w) /\ Aimed(w) /\ w.filter = f /\ w.height = v.height /\ w.lines = v.lines
<1>1. PICK found : found = MatchedLines(v, f)
  OBVIOUS
<1>2. found \in Seq(0..(Len(v.lines) - 1)) /\ (f = NoSearch => found = <<>>)
  BY <1>1, MatchedLinesOK
<1>4. PICK w : w = Altered(v, v.offset, f, found, 0)
  OBVIOUS
<1>5. [v EXCEPT !.filter = f, !.matched = found, !.matchAt = 0] = w
  BY <1>4, Refiltered, Zenon
<1>6. v.offset \in Int /\ Fits(v, f, found, 0)
  <2>1. PICK V : V = 0..(Len(v.lines) - 1)
    OBVIOUS
  <2>2. found \in Seq(V)
    BY <1>2, <2>1
  <2>3. found # <<>> => 0 < Len(found)
    BY <2>2
  <2>4. v.offset \in Int
    BY ViewParts
  <2> QED
    BY <1>2, <2>3, <2>4 DEF Fits
<1>7. View(w) /\ w.lines = v.lines /\ w.height = v.height /\ w.filter = f /\ w.matched = found /\ w.matchAt = 0
  BY <1>4, <1>6, AlteredOK
<1>8. SetTextFilter(v, f) = IF found = <<>> THEN w ELSE ScrollTo(w, found[1])
  BY <1>1, <1>5 DEF SetTextFilter
<1>9. CASE found = <<>>
  <2>1. SetTextFilter(v, f) = w
    BY <1>8, <1>9
  <2>2. Aimed(w)
    BY <1>7, <1>9 DEF Aimed
  <2> QED
    BY <1>7, <2>1, <2>2
<1>10. CASE found # <<>>
  <2>1. PICK u : u = ScrollTo(w, found[1])
    OBVIOUS
  <2>2. u = ScrollTo(w, w.matched[w.matchAt + 1]) /\ w.matched # <<>>
    BY <1>7, <1>10, <2>1
  <2>3. View(u) /\ Aimed(u) /\ u.filter = w.filter /\ u.height = w.height /\ u.lines = w.lines
    BY <1>7, <2>2, AimedOK
  <2>4. SetTextFilter(v, f) = u
    BY <1>8, <1>10, <2>1
  <2> QED
    BY <1>7, <2>3, <2>4
<1> QED
  BY <1>9, <1>10

LEMMA JumpOK ==
  ASSUME NEW v, View(v), NEW d \in {-1, 1}
  PROVE  LET w == JumpMatch(v, d)
         IN View(w) /\ w.filter = v.filter /\ w.height = v.height /\ Aimed(w) /\ w.lines = v.lines
<1>1. CASE v.matched = <<>>
  BY <1>1 DEF JumpMatch, Aimed
<1>2. CASE v.matched # <<>>
  <2>1. PICK m, a, n : m = v.matched /\ a = v.matchAt /\ n = Len(m)
    OBVIOUS
  <2>2. a \in Nat /\ n \in Nat /\ a < n
    BY <1>2, <2>1, MatchOf
  <2>3. PICK at : at = (a + d + n) % n
    OBVIOUS
  <2>4. at \in Nat /\ at < n
    <3>1. PICK x \in Int : x = a + d + n
      BY <2>2
    <3>2. n \in Nat \ {0}
      BY <2>2
    <3>3. x % n \in 0..(n - 1)
      BY <3>1, <3>2
    <3> QED
      BY <2>2, <2>3, <3>1, <3>3
  <2>5. PICK w : w = Altered(v, v.offset, v.filter, m, at)
    OBVIOUS
  <2>6. [v EXCEPT !.matchAt = at] = w
    <3>1. PICK l, o, h, g, mm, aa : v = [lines |-> l, offset |-> o, height |-> h, filter |-> g, matched |-> mm, matchAt |-> aa]
      BY ViewFields
    <3> QED
      BY <2>1, <2>5, <3>1 DEF Altered
  <2>7. v.offset \in Int /\ Fits(v, v.filter, m, at)
    <3>1. v.offset \in Int /\ Fits(v, v.filter, m, a)
      BY <2>1, ViewParts
    <3> QED
      BY <2>1, <2>4, <3>1 DEF Fits
  <2>8. View(w) /\ w.lines = v.lines /\ w.height = v.height /\ w.filter = v.filter /\ w.matched = m /\ w.matchAt = at
    BY <2>5, <2>7, AlteredOK
  <2>9. PICK u : u = ScrollTo(w, m[at + 1])
    OBVIOUS
  <2>10. JumpMatch(v, d) = u
    BY <1>2, <2>1, <2>3, <2>6, <2>9 DEF JumpMatch
  <2>11. u = ScrollTo(w, w.matched[w.matchAt + 1]) /\ w.matched # <<>>
    BY <1>2, <2>1, <2>8, <2>9
  <2>12. View(u) /\ Aimed(u) /\ u.filter = w.filter /\ u.height = w.height /\ u.lines = w.lines
    BY <2>8, <2>11, AimedOK
  <2> QED
    BY <2>8, <2>10, <2>12
<1> QED
  BY <1>1, <1>2

\* A page that is aimed at its match shows it once it is drawn.
LEMMA AimedShows ==
  ASSUME NEW v, View(v), NEW rows \in Nat, Aimed(v), v.height = BodyHeight(v, rows)
  PROVE  MatchOnScreen(ViewText(v, rows))
<1>1. PICK u : u = ViewText(v, rows)
  OBVIOUS
<1>2. /\ Drawn(u, rows) /\ u.lines = v.lines /\ u.filter = v.filter /\ u.matched = v.matched /\ u.matchAt = v.matchAt
      /\ u.offset = Clamp(v.offset, MaxOffset(v))
  BY <1>1, ViewTextOK
<1>3. CASE v.matched = <<>>
  BY <1>1, <1>2, <1>3 DEF MatchOnScreen
<1>4. CASE v.matched # <<>>
  <2>1. PICK n, L : n = v.matched[v.matchAt + 1] /\ L = Len(v.lines) /\ L \in Nat
    BY ViewParts
  <2>2. v.filter # NoSearch /\ n \in 0..(L - 1)
    BY <1>4, <2>1, MatchOf
  <2>5. v.height \in Nat \ {0}
    <3>1. BodyHeight(v, rows) = IF rows < 2 THEN 1 ELSE rows - 1
      BY <2>2, Zenon DEF BodyHeight, NoSearch
    <3> QED
      BY <3>1
  <2>6. PICK o : o = Clamp(n - v.height \div 2, MaxOffset(v))
    OBVIOUS
  <2>7. v.offset = o
    BY <1>4, <2>1, <2>6 DEF Aimed
  <2>8. o \in 0..MaxOffset(v) /\ n \in o..(o + v.height - 1)
    <3>1. Len(v.lines) \in Nat /\ n \in 0..(Len(v.lines) - 1)
      BY <2>1, <2>2
    <3> QED
      BY <2>5, <2>6, <3>1, WindowShows
  <2>9. Clamp(o, MaxOffset(v)) = o
    <3>1. MaxOffset(v) \in Nat
      BY ViewParts
    <3>2. o \in Int
      BY <2>8, <3>1
    <3> QED
      BY <2>8, <3>1, <3>2, ClampOK
  <2>10. u.height = v.height
    BY <1>2 DEF Drawn, BodyHeight
  <2>11. u.offset = o /\ u.matched[u.matchAt + 1] = n
    BY <1>2, <2>1, <2>7, <2>9
  <2> QED
    BY <1>1, <2>8, <2>10, <2>11 DEF MatchOnScreen
<1> QED
  BY <1>3, <1>4

-----------------------------------------------------------------------------
(* Text and the palette *)

LEMMA PartOK ==
  ASSUME NEW V, NEW s \in Seq(V), NEW a \in Nat \ {0}, NEW b \in Int, b <= Len(s)
  PROVE  SubSeq(s, a, b) \in Seq(V)
<1>1. \A i \in a..b : s[i] \in V
  BY Len(s) \in Nat
<1> QED
  BY <1>1

LEMMA DropOK ==
  ASSUME NEW V, NEW s \in Seq(V), NEW c
  PROVE  Drop(s, c) \in Seq(V) /\ ValueOf(s) \in Seq(V) /\ Len(Drop(s, c)) <= Len(s) /\ Len(ValueOf(s)) <= Len(s)
<1>1. CASE s = <<>>
  BY <1>1 DEF Drop, Begins, ValueOf, Scoped
<1>2. CASE s # <<>>
  <2>1. Tail(s) \in Seq(V) /\ Len(Tail(s)) <= Len(s) /\ Len(s) <= Len(s)
    BY <1>2
  <2>2. Drop(s, c) \in {s, Tail(s)} /\ ValueOf(s) \in {s, Tail(s)}
    BY DEF Drop, ValueOf
  <2> QED
    BY <2>1, <2>2
<1> QED
  BY <1>1, <1>2

LEMMA AfterOK ==
  ASSUME NEW V, NEW s \in Seq(V), NEW c
  PROVE  After(s, c) \in Seq(V) /\ Len(After(s, c)) <= Len(s) /\ Len(After(s, c)) \in Nat
<1>1. LastAt(s, c) \in 0..Len(s) /\ Len(s) \in Nat
  BY LastAtOK
<1>2. PICK l \in 0..Len(s) : l = LastAt(s, c)
  BY <1>1
<1>3. SubSeq(s, l + 1, Len(s)) \in Seq(V) /\ Len(SubSeq(s, l + 1, Len(s))) <= Len(s)
  <2>1. \A i \in (l + 1)..Len(s) : s[i] \in V
    BY <1>1
  <2>2. SubSeq(s, l + 1, Len(s)) \in Seq(V)
    BY <1>1, <2>1
  <2>3. Len(SubSeq(s, l + 1, Len(s))) = Len(s) - l
    BY <1>1
  <2> QED
    BY <1>1, <2>2, <2>3
<1> QED
  BY <1>2, <1>3 DEF After

LEMMA StripOK ==
  ASSUME NEW V, NEW s \in Seq(V), NEW scope
  PROVE  StripRepeatedScope(s, scope) \in Seq(V) /\ Len(StripRepeatedScope(s, scope)) <= Len(s)
<1>1. CASE s = <<>>
  BY <1>1 DEF StripRepeatedScope, Scoped
<1>2. CASE s # <<>>
  <2>1. Tail(s) \in Seq(V) /\ Len(Tail(s)) <= Len(s) /\ Len(s) <= Len(s)
    BY <1>2
  <2>2. StripRepeatedScope(s, scope) \in {s, Tail(s)}
    BY DEF StripRepeatedScope
  <2> QED
    BY <2>1, <2>2
<1> QED
  BY <1>1, <1>2

LEMMA FieldsOK ==
  ASSUME NEW V, NEW s \in Seq(V)
  PROVE  Fields(s) \in Seq(Seq(V))
<1>1. PICK pieces : pieces = Split(s, " ")
  OBVIOUS
<1>2. pieces \in Seq(Seq(V)) /\ NotEmpty(pieces) \subseteq 1..Len(pieces)
  BY <1>1, SplitOK DEF NotEmpty
<1>3. Pick(pieces, NotEmpty(pieces)) \in Seq(Seq(V))
  BY <1>2, PickOK
<1> QED
  BY <1>1, <1>3 DEF Fields

\* The palette lists entries of the catalog, at most all of them.
Entries == [name : Seq(CommandKeys), aliases : SUBSET Seq(CommandKeys)]

LEMMA CatalogTyped ==
  Catalog \in Seq(Entries) /\ Len(Catalog) \in Nat \ {0}
<1>1. Catalog \in Seq(Entries) /\ Catalog # <<>>
  BY CatalogOK, Zenon DEF Entries
<1>2. PICK V : V = Entries
  OBVIOUS
<1>3. Catalog \in Seq(V) /\ Catalog # <<>>
  BY <1>1, <1>2
<1>4. Len(Catalog) \in Nat \ {0}
  BY <1>3
<1> QED
  BY <1>1, <1>4

\* So are the rows of the table.
TypedRows == [ns : Seq(FilterKeys), name : Seq(FilterKeys), cell : Seq(FilterKeys)]
LEMMA RowsTyped ==
  /\ TableRows \in Seq(TypedRows) /\ Len(TableRows) \in Nat
  /\ \A i \in 1..Len(TableRows) : /\ TableRows[i].ns \in Seq(FilterKeys) /\ TableRows[i].name \in Seq(FilterKeys)
                                /\ TableRows[i].cell \in Seq(FilterKeys)
<1>1. PICK V : V = TypedRows
  OBVIOUS
<1>2. TableRows \in Seq(V)
  BY <1>1, CatalogOK, Zenon DEF TypedRows
<1>3. Len(TableRows) \in Nat /\ \A i \in 1..Len(TableRows) : TableRows[i] \in TypedRows
  BY <1>1, <1>2
<1>4. \A i \in 1..Len(TableRows) : /\ TableRows[i].ns \in Seq(FilterKeys) /\ TableRows[i].name \in Seq(FilterKeys)
                                  /\ TableRows[i].cell \in Seq(FilterKeys)
  BY <1>3, Zenon DEF TypedRows
<1> QED
  BY <1>1, <1>2, <1>3, <1>4

LEMMA MatchCommandsOK ==
  ASSUME NEW token
  PROVE  MatchCommands(token) \in Seq(Entries) /\ Len(MatchCommands(token)) <= Len(Catalog)
<1>1. PICK n : n = Len(Catalog) /\ n \in Nat /\ Catalog \in Seq(Entries)
  BY CatalogTyped
<1>2. CASE token = <<>>
  <2>1. MatchCommands(token) = Catalog
    BY <1>2 DEF MatchCommands
  <2> QED
    BY <1>1, <2>1
<1>3. CASE token # <<>>
  <2> DEFINE S(r) == {k \in 1..n : MatchRank(Catalog[k], token) = r}
  <2>1. MatchCommands(token) = Pick(Catalog, S(1)) \o Pick(Catalog, S(2))
    BY <1>1, <1>3 DEF MatchCommands
  <2>2. S(1) \subseteq 1..n /\ S(2) \subseteq 1..n /\ S(1) \cap S(2) = {}
    OBVIOUS
  <2>3. PICK A, B : A = S(1) /\ B = S(2)
    OBVIOUS
  <2> HIDE DEF S
  <2>4. A \subseteq 1..n /\ B \subseteq 1..n /\ A \cap B = {}
    BY <2>2, <2>3
  <2>5. /\ Pick(Catalog, A) \in Seq(Entries) /\ Len(Pick(Catalog, A)) = Cardinality(A)
        /\ Pick(Catalog, B) \in Seq(Entries) /\ Len(Pick(Catalog, B)) = Cardinality(B)
    BY <1>1, <2>4, PickOK
  <2>6. Cardinality(A) + Cardinality(B) <= n
    <3>1. IsFiniteSet(A) /\ IsFiniteSet(B) /\ Cardinality(A) \in 0..n /\ Cardinality(B) \in 0..n
      BY <1>1, <2>4, PositionsOK
    <3>2. Cardinality(A) \in Nat /\ Cardinality(B) \in Nat
      BY <3>1
    <3>3. Cardinality(A \cup B) = Cardinality(A) + Cardinality(B)
      <4>1. Cardinality(A \cup B) = Cardinality(A) + Cardinality(B) - Cardinality(A \cap B)
        BY <3>1, FS_Union
      <4>2. Cardinality(A \cap B) = 0
        BY <2>4, FS_EmptySet
      <4> QED
        BY <3>2, <4>1, <4>2
    <3>4. A \cup B \subseteq 1..n
      BY <2>4
    <3>5. Cardinality(A \cup B) \in 0..n
      BY <1>1, <3>4, PositionsOK
    <3> QED
      BY <1>1, <3>3, <3>5
  <2>7. PICK p, q : p = Pick(Catalog, A) /\ q = Pick(Catalog, B)
    OBVIOUS
  <2>8. p \o q \in Seq(Entries) /\ Len(p \o q) = Len(p) + Len(q)
    BY <2>5, <2>7, Concat
  <2>9. MatchCommands(token) = p \o q
    BY <2>1, <2>3, <2>7
  <2> QED
    BY <1>1, <2>5, <2>6, <2>7, <2>8, <2>9
<1> QED
  BY <1>2, <1>3

\* Where a highlight is.
LEMMA HighlightedOK ==
  ASSUME NEW b
  PROVE  /\ CommandMatches(b) \in Seq(Entries)
         /\ Len(CommandMatches(b)) \in Nat /\ Len(CommandMatches(b)) <= Len(Catalog) /\ Len(Catalog) \in Nat \ {0}
         /\ \A k \in 1..Len(CommandMatches(b)) : CommandMatches(b)[k].name \in Seq(CommandKeys)
<1>1. PICK m : m = CommandMatches(b)
  OBVIOUS
<1>2. m \in Seq(Entries) /\ Len(m) <= Len(Catalog)
  BY <1>1, MatchCommandsOK DEF CommandMatches
<1>3. \A k \in 1..Len(m) : m[k].name \in Seq(CommandKeys)
  <2>1. \A k \in 1..Len(m) : m[k] \in Entries
    BY <1>2
  <2> QED
    BY <2>1 DEF Entries
<1>4. Len(Catalog) \in Nat \ {0} /\ Len(m) \in Nat
  BY <1>2, CatalogTyped
<1> QED
  BY <1>1, <1>2, <1>3, <1>4

\* The window of the palette shows the row that is highlighted.
LEMMA PaletteWindowOK ==
  ASSUME NEW n \in Nat \ {0}, NEW sel \in 0..(n - 1)
  PROVE  PaletteWindow(sel, n)[1] <= sel /\ sel < PaletteWindow(sel, n)[2]
BY CatalogOK DEF PaletteWindow

\* What the completion offers.
LEMMA FilterMatchesOK ==
  ASSUME NEW b \in Texts
  PROVE  FilterMatches(b) \in [prefix : Texts, matches : Seq(Texts)]
<1> DEFINE last == After(b, " ")
           tok == Drop(last, "!")
           scope == ScopeOf(tok)
           alt == After(ValueOf(tok), "|")
           value == IF "|" \in ToSet(ValueOf(tok)) THEN StripRepeatedScope(alt, scope) ELSE alt
           offers == [i \in 1..Len(TableRows) |-> Offers(TableRows[i], scope)]
           fits == {i \in 1..Len(offers) : /\ offers[i] # <<>> /\ IsPrefix(value, offers[i])
                                           /\ \A k \in 1..(i - 1) : offers[k] # offers[i]}
<1>1. PICK V : V = CommandKeys \cup FilterKeys
  OBVIOUS
<1>2. b \in Seq(V) /\ Texts = Seq(V)
  BY <1>1 DEF Texts
<1>3. last \in Seq(V)
  BY <1>2, AfterOK
<1>4. tok \in Seq(V)
  <2> HIDE DEF last
  <2> QED
    BY <1>3, DropOK
<1>5. ValueOf(tok) \in Seq(V)
  <2> HIDE DEF tok
  <2> QED
    BY <1>4, DropOK
<1>6. alt \in Seq(V)
  <2> HIDE DEF tok
  <2> QED
    BY <1>5, AfterOK
<1>7. value \in Seq(V)
  <2> HIDE DEF alt, scope, tok
  <2> QED
    BY <1>6, StripOK
<1>8. offers \in Seq(Seq(V)) /\ Len(offers) = Len(TableRows)
  <2> HIDE DEF scope
  <2>1. \A i \in 1..Len(TableRows) : Offers(TableRows[i], scope) \in Seq(V)
    <3> TAKE i \in 1..Len(TableRows)
    <3>1. /\ TableRows[i].ns \in Seq(FilterKeys) /\ TableRows[i].name \in Seq(FilterKeys)
          /\ TableRows[i].cell \in Seq(FilterKeys)
      BY RowsTyped
    <3>2. Offers(TableRows[i], scope) \in {TableRows[i].ns, TableRows[i].cell, TableRows[i].name}
      BY Zenon DEF Offers
    <3>3. Offers(TableRows[i], scope) \in Seq(FilterKeys)
      BY <3>1, <3>2
    <3> QED
      BY <1>1, <3>3
  <2>2. Len(TableRows) \in Nat
    BY RowsTyped
  <2> QED
    BY <2>1, <2>2
<1>9. fits \subseteq 1..Len(offers)
  OBVIOUS
<1>10. Pick(offers, fits) \in Seq(Seq(V))
  <2> HIDE DEF offers, fits
  <2> QED
    BY <1>8, <1>9, PickOK
<1>11. SubSeq(b, 1, Len(b) - Len(value)) \in Seq(V)
  <2> HIDE DEF value
  <2>1. Len(b) \in Nat /\ Len(value) \in Nat
    BY <1>2, <1>7
  <2>2. Len(b) - Len(value) \in Int /\ Len(b) - Len(value) <= Len(b)
    BY <2>1
  <2> QED
    BY <1>2, <2>2, PartOK
<1>12. FilterMatches(b) \in {[prefix |-> <<>>, matches |-> <<>>],
                             [prefix |-> SubSeq(b, 1, Len(b) - Len(value)), matches |-> Pick(offers, fits)]}
  BY Zenon DEF FilterMatches
<1>13. <<>> \in Seq(V) /\ <<>> \in Seq(Seq(V))
  OBVIOUS
<1>14. PICK p, o, T : p = SubSeq(b, 1, Len(b) - Len(value)) /\ o = Pick(offers, fits) /\ T = Seq(Texts)
  OBVIOUS
<1> HIDE DEF value, offers, fits
<1>15. p \in Texts /\ o \in T /\ <<>> \in Texts /\ <<>> \in T
  BY <1>2, <1>10, <1>11, <1>13, <1>14, Zenon
<1>16. FilterMatches(b) \in {[prefix |-> <<>>, matches |-> <<>>], [prefix |-> p, matches |-> o]}
  BY <1>12, <1>14, Zenon
<1>17. FilterMatches(b) \in [prefix : Texts, matches : T]
  BY <1>15, <1>16
<1> QED
  BY <1>14, <1>17

-----------------------------------------------------------------------------
(* The difference of two objects *)

\* The lines of a difference of texts whose lines are in Y.
Same == " "
Marks == {Same, "-", "+"}
Marked(Y) == Marks \X Y

\* The texts of marked lines.
Unmark(l) == [k \in 1..Len(l) |-> l[k][2]]

LEMMA UnmarkOK ==
  ASSUME NEW Y, NEW l \in Seq(Marked(Y))
  PROVE  Unmark(l) \in Seq(Y) /\ Len(Unmark(l)) = Len(l) /\ \A k \in 1..Len(l) : Unmark(l)[k] = l[k][2]
<1>1. Len(l) \in Nat /\ \A k \in 1..Len(l) : l[k] \in Marked(Y)
  OBVIOUS
<1>2. \A k \in 1..Len(l) : l[k][2] \in Y
  BY <1>1 DEF Marked
<1> QED
  BY <1>1, <1>2 DEF Unmark

LEMMA UnmarkConcat ==
  ASSUME NEW Y, NEW a \in Seq(Marked(Y)), NEW b \in Seq(Marked(Y))
  PROVE  Unmark(a \o b) = Unmark(a) \o Unmark(b)
<1>1. /\ a \o b \in Seq(Marked(Y)) /\ Len(a) \in Nat /\ Len(b) \in Nat /\ Len(a \o b) = Len(a) + Len(b)
      /\ \A p \in 1..Len(a) : (a \o b)[p] = a[p]
      /\ \A q \in 1..Len(b) : (a \o b)[Len(a) + q] = b[q]
  BY Concat
<1>2. PICK n, m, c : n = Len(a) /\ m = Len(b) /\ c = a \o b
  OBVIOUS
<1>3. PICK x, y, z : x = Unmark(a) /\ y = Unmark(b) /\ z = Unmark(c)
  OBVIOUS
<1>4. n \in Nat /\ m \in Nat /\ c \in Seq(Marked(Y)) /\ Len(c) = n + m
  BY <1>1, <1>2
<1>5. x \in Seq(Y) /\ Len(x) = n /\ \A k \in 1..n : x[k] = a[k][2]
  BY <1>2, <1>3, UnmarkOK
<1>6. y \in Seq(Y) /\ Len(y) = m /\ \A k \in 1..m : y[k] = b[k][2]
  BY <1>2, <1>3, UnmarkOK
<1>7. z \in Seq(Y) /\ Len(z) = n + m /\ \A k \in 1..(n + m) : z[k] = c[k][2]
  BY <1>3, <1>4, UnmarkOK
<1>8. \A k \in 1..n : z[k] = x[k]
  <2>1. \A k \in 1..n : k \in 1..(n + m) /\ c[k] = a[k]
    BY <1>1, <1>2, <1>4
  <2> QED
    BY <1>5, <1>7, <2>1
<1>9. \A k \in 1..m : z[n + k] = y[k]
  <2>1. \A k \in 1..m : n + k \in 1..(n + m) /\ c[n + k] = b[k]
    BY <1>1, <1>2, <1>4
  <2> QED
    BY <1>6, <1>7, <2>1
<1>10. Len(z) = Len(x) + Len(y) /\ (\A k \in 1..Len(x) : z[k] = x[k]) /\ (\A k \in 1..Len(y) : z[Len(x) + k] = y[k])
  BY <1>5, <1>6, <1>7, <1>8, <1>9
<1>11. z = x \o y
  BY <1>5, <1>6, <1>7, <1>10, Gluing
<1> QED
  BY <1>2, <1>3, <1>11

LEMMA SideOK ==
  ASSUME NEW Y, NEW a \in Seq(Marked(Y)), NEW mark
  PROVE  /\ Pick(a, Kept(a, mark)) \in Seq(Marked(Y)) /\ Side(a, mark) = Unmark(Pick(a, Kept(a, mark)))
         /\ Side(a, mark) \in Seq(Y)
<1>1. Kept(a, mark) \subseteq 1..Len(a)
  BY DEF Kept
<1>2. Pick(a, Kept(a, mark)) \in Seq(Marked(Y))
  BY <1>1, PickOK
<1>3. Side(a, mark) = Unmark(Pick(a, Kept(a, mark)))
  BY DEF Side, Unmark
<1> QED
  BY <1>2, <1>3, UnmarkOK

\* Either side of a difference is put together from those of its parts.
SidesJoin(a, b, c, mark) == Side(c, mark) = Side(a, mark) \o Side(b, mark)
LEMMA SideConcat ==
  ASSUME NEW Y, NEW a \in Seq(Marked(Y)), NEW b \in Seq(Marked(Y)), NEW mark, NEW c, c = a \o b
  PROVE  SidesJoin(a, b, c, mark)
<1>1. PICK A, B, C : A = Kept(a, mark) /\ B = Kept(b, mark) /\ C = Kept(c, mark)
  OBVIOUS
<1>2. /\ c \in Seq(Marked(Y)) /\ Len(a) \in Nat /\ Len(b) \in Nat /\ Len(c) = Len(a) + Len(b)
      /\ \A p \in 1..Len(a) : c[p] = a[p]
      /\ \A q \in 1..Len(b) : c[Len(a) + q] = b[q]
  BY <1>1, Concat
<1>3. A \subseteq 1..Len(a) /\ B \subseteq 1..Len(b) /\ C \subseteq 1..(Len(a) + Len(b))
  BY <1>1, <1>2 DEF Kept
<1>4. \A i \in 1..Len(a) : i \in C <=> i \in A
  <2>1. \A i \in 1..Len(a) : i \in 1..Len(c)
    BY <1>2
  <2> QED
    BY <1>1, <1>2, <2>1 DEF Kept
<1>5. \A j \in 1..Len(b) : Len(a) + j \in C <=> j \in B
  <2>1. \A j \in 1..Len(b) : Len(a) + j \in 1..Len(c)
    BY <1>2
  <2> QED
    BY <1>1, <1>2, <2>1 DEF Kept
<1>6. Pick(c, C) = Pick(a, A) \o Pick(b, B)
  <2>1. Joint(A, Len(a), B, Len(b), C)
    BY <1>3, <1>4, <1>5 DEF Joint
  <2>2. Pick(a \o b, C) = Pick(a, A) \o Pick(b, B)
    BY <2>1, PickConcat
  <2> QED
    BY <1>1, <2>2
<1>7. Pick(a, A) \in Seq(Marked(Y)) /\ Pick(b, B) \in Seq(Marked(Y))
  BY <1>1, SideOK
<1>8. Unmark(Pick(c, C)) = Unmark(Pick(a, A)) \o Unmark(Pick(b, B))
  BY <1>6, <1>7, UnmarkConcat
<1>9. Side(a, mark) = Unmark(Pick(a, A)) /\ Side(b, mark) = Unmark(Pick(b, B))
  BY <1>1, SideOK
<1>10. Side(c, mark) = Unmark(Pick(c, C))
  BY <1>1, <1>2, SideOK
<1> QED
  BY <1>1, <1>8, <1>9, <1>10, Zenon DEF SidesJoin

\* What lies between two cursors.
Part(s, i, j) == SubSeq(s, i + 1, j)

\* What a run is, and the text it is taken from.
MarkedRun(Y, m, n, t, r) ==
  n \in Nat /\ t \in Seq(Y) /\ Len(t) = n /\ r = [k \in 1..n |-> <<m, t[k]>>]
LEMMA RunAt ==
  ASSUME NEW Y, NEW s \in Seq(Y), NEW from \in Nat, NEW to \in Nat, from <= to, to <= Len(s), NEW m,
         NEW n, n = to - from, NEW r, r = Run(m, s, from, to), NEW t, t = Part(s, from, to)
  PROVE  MarkedRun(Y, m, n, t, r)
<1>1. n \in Nat
  OBVIOUS
<1>2. r = [k \in 1..n |-> <<m, s[from + k]>>]
  BY <1>1 DEF Run
<1>3. \A k \in 1..n : s[from + k] \in Y
  <2>1. \A k \in 1..n : from + k \in 1..Len(s)
    BY <1>1
  <2> QED
    BY <2>1
<1>4. t = [k \in 1..n |-> s[from + k]]
  <2>1. t = [k \in 1..(to - (from + 1) + 1) |-> s[(from + 1) + k - 1]]
    BY DEF Part
  <2>2. to - (from + 1) + 1 = n /\ \A k \in 1..n : (from + 1) + k - 1 = from + k
    BY <1>1
  <2> QED
    BY <2>1, <2>2
<1>5. t \in Seq(Y) /\ Len(t) = n
  BY <1>1, <1>3, <1>4
<1>6. r = [k \in 1..n |-> <<m, t[k]>>]
  BY <1>2, <1>4
<1> QED
  BY <1>1, <1>5, <1>6 DEF MarkedRun

\* One side's run is that side's text, and nothing of the other's.
LEMMA RunOK ==
  ASSUME NEW Y, NEW s \in Seq(Y), NEW from \in Nat, NEW to \in Nat, from <= to, to <= Len(s),
         NEW m \in Marks, NEW mark
  PROVE  /\ Run(m, s, from, to) \in Seq(Marked(Y)) /\ Len(Run(m, s, from, to)) = to - from
         /\ m \in {Same, mark} => Side(Run(m, s, from, to), mark) = Part(s, from, to)
         /\ m \notin {Same, mark} => Side(Run(m, s, from, to), mark) = <<>>
<1>1. PICK n, r, p : n = to - from /\ r = Run(m, s, from, to) /\ p = Part(s, from, to)
  OBVIOUS
<1>2. n \in Nat /\ p \in Seq(Y) /\ Len(p) = n /\ r = [k \in 1..n |-> <<m, p[k]>>]
  <2>1. MarkedRun(Y, m, n, p, r)
    BY <1>1, RunAt
  <2> QED
    BY <2>1, Zenon DEF MarkedRun
<1>3. PICK t : t = p
  OBVIOUS
<1>4. r = [k \in 1..n |-> <<m, t[k]>>] /\ (\A k \in 1..n : t[k] \in Y) /\ t = [k \in 1..n |-> t[k]]
  BY <1>2, <1>3
<1>5. r \in Seq(Marked(Y)) /\ Len(r) = n
  <2>1. PICK M : M = Marked(Y)
    OBVIOUS
  <2>2. \A k \in 1..n : r[k] \in M
    BY <1>4, <2>1 DEF Marked
  <2>3. r = [k \in 1..n |-> r[k]]
    BY <1>4
  <2>4. r \in Seq(M) /\ Len(r) = n
    BY <1>2, <2>2, <2>3
  <2> QED
    BY <2>1, <2>4
<1>6. DOMAIN r = 1..n /\ \A k \in 1..n : r[k][1] = m /\ r[k][2] = t[k]
  BY <1>4
<1>7. ASSUME m \in {Same, mark}
      PROVE  Side(r, mark) = p
  <2>1. Kept(r, mark) = 1..n
    BY <1>5, <1>6, <1>7, Zenon DEF Kept, Same
  <2>2. Pick(r, Kept(r, mark)) = r
    BY <1>5, <2>1, PickAll
  <2>3. Side(r, mark) = [k \in 1..n |-> r[k][2]]
    BY <1>5, <2>2, Zenon DEF Side
  <2>4. [k \in 1..n |-> r[k][2]] = [k \in 1..n |-> t[k]]
    BY <1>6, Zenon
  <2>5. [k \in 1..n |-> t[k]] = p
    BY <1>3, <1>4
  <2> QED
    BY <2>3, <2>4, <2>5
<1>8. ASSUME m \notin {Same, mark}
      PROVE  Side(r, mark) = <<>>
  <2>1. Kept(r, mark) = {}
    BY <1>5, <1>6, <1>8, Zenon DEF Kept, Same
  <2>2. Pick(r, Kept(r, mark)) = <<>>
    BY <1>5, <2>1, PickAll
  <2>3. Side(r, mark) = Unmark(Pick(r, Kept(r, mark)))
    BY <1>5, SideOK
  <2>4. <<>> \in Seq(Marked(Y)) /\ Len(<<>>) = 0
    OBVIOUS
  <2>5. Unmark(<<>>) \in Seq(Y) /\ Len(Unmark(<<>>)) = 0
    BY <2>4, UnmarkOK
  <2>6. Unmark(<<>>) = <<>>
    BY <2>5
  <2> QED
    BY <2>2, <2>3, <2>6
<1> QED
  BY <1>1, <1>5, <1>7, <1>8

LEMMA PartJoined ==
  ASSUME NEW Y, NEW s \in Seq(Y), NEW i \in Nat, NEW j \in Nat, i <= j, j <= Len(s)
  PROVE  Part(s, 0, i) \o Part(s, i, j) = Part(s, 0, j)
<1>1. PICK a, b, c : a = SubSeq(s, 1, i) /\ b = SubSeq(s, i + 1, j) /\ c = SubSeq(s, 1, j)
  OBVIOUS
<1>2. a \in Seq(Y) /\ Len(a) = i /\ \A k \in 1..i : a[k] = s[k]
  BY <1>1
<1>3. c \in Seq(Y) /\ Len(c) = j /\ \A k \in 1..j : c[k] = s[k]
  BY <1>1
<1>4. b \in Seq(Y) /\ Len(b) = j - i /\ \A k \in 1..(j - i) : b[k] = s[i + k]
  <2>1. \A k \in (i + 1)..j : s[k] \in Y
    OBVIOUS
  <2>2. b \in Seq(Y) /\ Len(b) = j - i
    BY <1>1, <2>1
  <2>3. \A k \in 1..(j - i) : b[k] = s[(i + 1) + k - 1] /\ (i + 1) + k - 1 = i + k
    BY <1>1
  <2> QED
    BY <2>2, <2>3
<1>5. \A k \in 1..(j - i) : i + k \in 1..j
  OBVIOUS
<1>6. Len(c) = Len(a) + Len(b) /\ (\A k \in 1..Len(a) : c[k] = a[k]) /\ \A k \in 1..Len(b) : c[Len(a) + k] = b[k]
  <2>1. \A k \in 1..i : k \in 1..j
    OBVIOUS
  <2>2. \A k \in 1..Len(a) : c[k] = a[k]
    BY <1>2, <1>3, <2>1
  <2>3. \A k \in 1..Len(b) : c[Len(a) + k] = b[k]
    BY <1>2, <1>3, <1>4, <1>5
  <2> QED
    BY <1>2, <1>3, <1>4, <2>2, <2>3
<1>7. c = a \o b
  BY <1>2, <1>3, <1>4, <1>6, Gluing
<1>8. Part(s, 0, i) = a /\ Part(s, i, j) = b /\ Part(s, 0, j) = c
  <2>1. 0 + 1 = 1
    OBVIOUS
  <2> QED
    BY <1>1, <2>1, Zenon DEF Part
<1> QED
  BY <1>7, <1>8, Zenon

\* The nearest pair lies ahead, and has the same line on both sides or is the end.
LEMMA ResyncPointOK ==
  ASSUME NEW Y, NEW old \in Seq(Y), NEW new \in Seq(Y), NEW i \in 0..Len(old), NEW j \in 0..Len(new)
  PROVE  \E a \in i..Len(old), b \in j..Len(new) :
           /\ ResyncPoint(old, new, i, j) = <<a, b>>
           /\ \/ a = Len(old) /\ b = Len(new)
              \/ a < Len(old) /\ b < Len(new) /\ old[a + 1] = new[b + 1]
<1> DEFINE equal == {p \in (i..(Len(old) - 1)) \X (j..(Len(new) - 1)) : old[p[1] + 1] = new[p[2] + 1]}
           Nearest(p) == \A q \in equal : \/ p[1] + p[2] < q[1] + q[2]
                                          \/ p[1] + p[2] = q[1] + q[2] /\ p[1] <= q[1]
<1>1. Len(old) \in Nat /\ Len(new) \in Nat /\ i \in Nat /\ j \in Nat /\ i <= Len(old) /\ j <= Len(new)
  OBVIOUS
<1>2. CASE equal = {}
  <2>1. ResyncPoint(old, new, i, j) = <<Len(old), Len(new)>>
    BY <1>2 DEF ResyncPoint
  <2>2. Len(old) \in i..Len(old) /\ Len(new) \in j..Len(new)
    BY <1>1
  <2> QED
    BY <2>1, <2>2
<1>3. CASE equal # {}
  <2>1. ResyncPoint(old, new, i, j) = CHOOSE p \in equal : Nearest(p)
    BY <1>3 DEF ResyncPoint
  <2>2. \E p \in equal : Nearest(p)
    <3> DEFINE S == {p[1] + p[2] : p \in equal}
    <3>1. \A p \in equal : p[1] \in Nat /\ p[2] \in Nat /\ p[1] + p[2] \in Nat
      BY <1>1
    <3>2. S \subseteq Nat /\ S # {}
      <4> HIDE DEF equal
      <4> QED
        BY <1>3, <3>1
    <3>3. PICK m \in S : \A n \in S : m <= n
      <4> HIDE DEF S
      <4> QED
        BY <3>2, LeastElement
    <3> DEFINE T == {p[1] : p \in {q \in equal : q[1] + q[2] = m}}
    <3>4. T \subseteq Nat /\ T # {}
      <4> HIDE DEF equal
      <4> QED
        BY <3>1, <3>3
    <3>5. PICK l \in T : \A n \in T : l <= n
      <4> HIDE DEF T
      <4> QED
        BY <3>4, LeastElement
    <3>6. PICK p \in equal : p[1] + p[2] = m /\ p[1] = l
      <4> HIDE DEF equal
      <4> QED
        BY <3>5
    <3>7. ASSUME NEW q \in equal
          PROVE  \/ p[1] + p[2] < q[1] + q[2]
                 \/ p[1] + p[2] = q[1] + q[2] /\ p[1] <= q[1]
      <4>1. q[1] + q[2] \in S /\ q[1] + q[2] \in Nat /\ m \in Nat /\ l \in Nat /\ q[1] \in Nat
        BY <3>1, <3>2, <3>3, <3>4, <3>5
      <4>2. m <= q[1] + q[2]
        BY <3>3, <4>1
      <4>3. m = q[1] + q[2] => q[1] \in T
        OBVIOUS
      <4>4. m = q[1] + q[2] => l <= q[1]
        BY <3>5, <4>3
      <4>5. PICK x, y, z : x = p[1] + p[2] /\ y = q[1] + q[2] /\ z = q[1]
        OBVIOUS
      <4>6. x = m /\ y \in Nat /\ m \in Nat /\ m <= y /\ (m = y => l <= z)
        BY <3>6, <4>1, <4>2, <4>4, <4>5
      <4>7. x < y \/ (x = y /\ l <= z)
        BY <4>6
      <4> QED
        BY <3>6, <4>5, <4>7, Zenon
    <3> QED
      BY <3>6, <3>7, Zenon
  <2>3. PICK p \in equal : ResyncPoint(old, new, i, j) = p
    <3> HIDE DEF equal, Nearest
    <3> QED
      BY <2>1, <2>2
  <2>4. p = <<p[1], p[2]>> /\ p[1] \in i..(Len(old) - 1) /\ p[2] \in j..(Len(new) - 1) /\ old[p[1] + 1] = new[p[2] + 1]
    OBVIOUS
  <2>5. PICK a, b : a = p[1] /\ b = p[2]
    OBVIOUS
  <2>6. a \in i..Len(old) /\ b \in j..Len(new) /\ a < Len(old) /\ b < Len(new)
    BY <1>1, <2>4, <2>5
  <2>7. ResyncPoint(old, new, i, j) = <<a, b>> /\ old[a + 1] = new[b + 1]
    BY <2>3, <2>4, <2>5
  <2> QED
    BY <2>6, <2>7, Zenon
<1> QED
  BY <1>2, <1>3, Zenon

\* Adding the next part of one side to a difference.
LEMMA SideExtended ==
  ASSUME NEW Y, NEW s \in Seq(Y), NEW i \in Nat, NEW a \in Nat, i <= a, a <= Len(s), NEW mark,
         NEW out \in Seq(Marked(Y)), Side(out, mark) = Part(s, 0, i),
         NEW ext \in Seq(Marked(Y)), Side(ext, mark) = Part(s, i, a)
  PROVE  Side(out \o ext, mark) = Part(s, 0, a)
<1>1. Side(out \o ext, mark) = Side(out, mark) \o Side(ext, mark)
  <2>1. PICK c : c = out \o ext
    OBVIOUS
  <2>2. SidesJoin(out, ext, c, mark)
    BY <2>1, SideConcat
  <2> QED
    BY <2>1, <2>2, Zenon DEF SidesJoin
<1>2. Part(s, 0, i) \o Part(s, i, a) = Part(s, 0, a)
  BY PartJoined
<1> QED
  BY <1>1, <1>2, Zenon

LEMMA HunkOK ==
  ASSUME NEW Y, NEW old \in Seq(Y), NEW new \in Seq(Y), NEW i \in Nat, NEW j \in Nat, NEW a \in Nat, NEW b \in Nat,
         i <= a, a <= Len(old), j <= b, b <= Len(new)
  PROVE  LET h == Hunk(old, new, i, j, <<a, b>>)
         IN /\ h \in Seq(Marked(Y)) /\ Side(h, "-") = Part(old, i, a) /\ Side(h, "+") = Part(new, j, b)
<1>1. PICK p, q : p = Run("-", old, i, a) /\ q = Run("+", new, j, b)
  OBVIOUS
<1>2. "-" \in Marks /\ "+" \in Marks /\ "-" \in {Same, "-"} /\ "+" \in {Same, "+"}
  BY DEF Marks
<1>11. "-" \notin {Same, "+"} /\ "+" \notin {Same, "-"}
  BY Zenon DEF Same
<1>3. p \in Seq(Marked(Y)) /\ Side(p, "-") = Part(old, i, a) /\ Side(p, "+") = <<>>
  BY <1>1, <1>2, <1>11, RunOK
<1>4. q \in Seq(Marked(Y)) /\ Side(q, "+") = Part(new, j, b) /\ Side(q, "-") = <<>>
  BY <1>1, <1>2, <1>11, RunOK
<1>5. p \o q \in Seq(Marked(Y))
  BY <1>3, <1>4
<1>6. \A mark : Side(p \o q, mark) = Side(p, mark) \o Side(q, mark)
  <2>1. PICK c : c = p \o q
    OBVIOUS
  <2>2. \A mark : SidesJoin(p, q, c, mark)
    BY <1>3, <1>4, <2>1, SideConcat
  <2> QED
    BY <2>1, <2>2, Zenon DEF SidesJoin
<1>7. Part(old, i, a) \in Seq(Y) /\ Part(new, j, b) \in Seq(Y)
  <2>1. i + 1 \in Nat \ {0} /\ j + 1 \in Nat \ {0} /\ a \in Int /\ b \in Int
    OBVIOUS
  <2> QED
    BY <2>1, PartOK DEF Part
<1>8. Part(old, i, a) \o <<>> = Part(old, i, a) /\ <<>> \o Part(new, j, b) = Part(new, j, b)
  BY <1>7
<1>9. Hunk(old, new, i, j, <<a, b>>) = p \o q
  BY <1>1 DEF Hunk
<1>10. Side(p \o q, "-") = Part(old, i, a) /\ Side(p \o q, "+") = Part(new, j, b)
  BY <1>3, <1>4, <1>6, <1>8, Zenon
<1> QED
  BY <1>5, <1>9, <1>10

\* A line that both sides have.
SameLine(y) == << <<Same, y>> >>
Gives(Y, ext, s, i, j, mark) == ext \in Seq(Marked(Y)) /\ Side(ext, mark) = Part(s, i, j)

LEMMA SameLineOK ==
  ASSUME NEW Y, NEW s \in Seq(Y), NEW i \in Nat, i < Len(s), NEW mark, NEW ext, ext = SameLine(s[i + 1])
  PROVE  Gives(Y, ext, s, i, i + 1, mark)
<1>1. Run(Same, s, i, i + 1) = [k \in 1..1 |-> <<Same, s[i + k]>>]
  <2>1. (i + 1) - i = 1
    OBVIOUS
  <2> QED
    BY <2>1 DEF Run
<1>2. Run(Same, s, i, i + 1) = ext
  <2>1. \A k \in 1..1 : k = 1
    OBVIOUS
  <2>2. ext = [k \in 1..1 |-> <<Same, s[i + 1]>>]
    BY DEF SameLine
  <2> QED
    BY <1>1, <2>1, <2>2
<1>3. Same \in Marks /\ Same \in {Same, mark}
  BY DEF Marks
<1>4. i + 1 \in Nat /\ i <= i + 1 /\ i + 1 <= Len(s)
  OBVIOUS
<1>5. Run(Same, s, i, i + 1) \in Seq(Marked(Y)) /\ Side(Run(Same, s, i, i + 1), mark) = Part(s, i, i + 1)
  BY <1>3, <1>4, RunOK
<1> QED
  BY <1>2, <1>5 DEF Gives

\* How far a comparison has come: what is written out gives both sides up to here.
Written(Y, old, new, i, j, out) ==
  /\ i \in 0..Len(old) /\ j \in 0..Len(new) /\ out \in Seq(Marked(Y))
  /\ Side(out, "-") = Part(old, 0, i) /\ Side(out, "+") = Part(new, 0, j)

\* Every round goes on, unless both ends have been reached.
GoesOn(Y, old, new, i, j, out) ==
  \E a, b, o : /\ Round(old, new, [i |-> i, j |-> j, out |-> out]) = [i |-> a, j |-> b, out |-> o]
               /\ Written(Y, old, new, a, b, o)
               /\ \/ i + j < a + b
                  \/ a = Len(old) /\ b = Len(new)
LEMMA RoundOK ==
  ASSUME NEW Y, NEW old \in Seq(Y), NEW new \in Seq(Y), NEW i, NEW j, NEW out, Written(Y, old, new, i, j, out)
  PROVE  GoesOn(Y, old, new, i, j, out)
<1> SUFFICES \E a, b, o : /\ Round(old, new, [i |-> i, j |-> j, out |-> out]) = [i |-> a, j |-> b, out |-> o]
                          /\ Written(Y, old, new, a, b, o)
                          /\ \/ i + j < a + b
                             \/ a = Len(old) /\ b = Len(new)
  BY Zenon DEF GoesOn
<1>1. PICK m \in Nat, n \in Nat : m = Len(old) /\ n = Len(new)
  OBVIOUS
<1>2. i \in Nat /\ j \in Nat /\ i <= m /\ j <= n /\ out \in Seq(Marked(Y))
  BY <1>1 DEF Written
<1>3. Side(out, "-") = Part(old, 0, i) /\ Side(out, "+") = Part(new, 0, j)
  BY DEF Written
<1> DEFINE s == [i |-> i, j |-> j, out |-> out]
<1>4. s.i = i /\ s.j = j /\ s.out = out
  OBVIOUS
<1> HIDE DEF s
<1>5. CASE i = m /\ j = n
  <2>1. Round(old, new, s) = s
    BY <1>1, <1>4, <1>5 DEF Round
  <2> QED
    BY <1>1, <1>5, <2>1 DEF s
<1>6. CASE ~(i = m /\ j = n) /\ i < m /\ j < n /\ old[i + 1] = new[j + 1]
  <2>1. PICK ext : ext = SameLine(old[i + 1])
    OBVIOUS
  <2>2. ext = SameLine(new[j + 1])
    BY <1>6, <2>1
  <2>3. ext \in Seq(Marked(Y)) /\ Side(ext, "-") = Part(old, i, i + 1)
    <3>1. i \in Nat /\ i < Len(old)
      BY <1>1, <1>2, <1>6
    <3>2. \A mark : Gives(Y, ext, old, i, i + 1, mark)
      BY <2>1, <3>1, SameLineOK
    <3> QED
      BY <3>2 DEF Gives
  <2>4. Side(ext, "+") = Part(new, j, j + 1)
    <3>1. j \in Nat /\ j < Len(new)
      BY <1>1, <1>2, <1>6
    <3>2. \A mark : Gives(Y, ext, new, j, j + 1, mark)
      BY <2>2, <3>1, SameLineOK
    <3> QED
      BY <3>2 DEF Gives
  <2>5. PICK a \in Nat, b \in Nat : a = i + 1 /\ b = j + 1
    BY <1>2
  <2>6. PICK o : o = out \o ext
    OBVIOUS
  <2>7. i <= a /\ a <= Len(old) /\ j <= b /\ b <= Len(new)
    BY <1>1, <1>2, <1>6, <2>5
  <2>8. Side(o, "-") = Part(old, 0, a)
    BY <1>2, <1>3, <2>3, <2>5, <2>6, <2>7, SideExtended
  <2>9. Side(o, "+") = Part(new, 0, b)
    BY <1>2, <1>3, <2>3, <2>4, <2>5, <2>6, <2>7, SideExtended
  <2>10. o \in Seq(Marked(Y))
    BY <1>2, <2>3, <2>6
  <2>11. Round(old, new, s) = [i |-> a, j |-> b, out |-> o]
    <3>1. Append(out, <<Same, old[i + 1]>>) = o
      <4>1. PICK M, x : M = Marked(Y) /\ x = <<Same, old[i + 1]>>
        OBVIOUS
      <4>2. out \in Seq(M) /\ ext = <<x>> /\ <<x>> \in Seq(M)
        BY <1>2, <2>1, <2>3, <4>1 DEF SameLine
      <4>3. Append(out, x) = out \o <<x>>
        BY <4>2
      <4> QED
        BY <2>6, <4>1, <4>2, <4>3
    <3> QED
      BY <1>1, <1>4, <1>6, <2>5, <3>1, Zenon DEF Round, Same
  <2>12. Written(Y, old, new, a, b, o)
    BY <2>7, <2>8, <2>9, <2>10 DEF Written
  <2>13. i + j < a + b
    BY <1>2, <2>5
  <2> QED
    BY <2>11, <2>12, <2>13 DEF s
<1>7. CASE ~(i = m /\ j = n) /\ ~(i < m /\ j < n /\ old[i + 1] = new[j + 1])
  <2>1. i \in 0..Len(old) /\ j \in 0..Len(new)
    BY <1>1, <1>2
  <2>2. PICK a \in i..Len(old), b \in j..Len(new) :
          /\ ResyncPoint(old, new, i, j) = <<a, b>>
          /\ \/ a = Len(old) /\ b = Len(new)
             \/ a < Len(old) /\ b < Len(new) /\ old[a + 1] = new[b + 1]
    BY <2>1, ResyncPointOK
  <2>3. a \in Nat /\ b \in Nat /\ i <= a /\ a <= Len(old) /\ j <= b /\ b <= Len(new)
    BY <1>1, <1>2
  <2>4. PICK h : h = Hunk(old, new, i, j, <<a, b>>)
    OBVIOUS
  <2>5. h \in Seq(Marked(Y)) /\ Side(h, "-") = Part(old, i, a) /\ Side(h, "+") = Part(new, j, b)
    BY <1>2, <2>3, <2>4, HunkOK, SMTT(30)
  <2>6. PICK o : o = out \o h
    OBVIOUS
  <2>7. Side(o, "-") = Part(old, 0, a)
    BY <1>2, <1>3, <2>3, <2>5, <2>6, SideExtended
  <2>8. Side(o, "+") = Part(new, 0, b)
    BY <1>2, <1>3, <2>3, <2>5, <2>6, SideExtended
  <2>9. o \in Seq(Marked(Y))
    BY <1>2, <2>5, <2>6
  <2>10. Round(old, new, s) = [i |-> a, j |-> b, out |-> o]
    <3>1. <<a, b>>[1] = a /\ <<a, b>>[2] = b
      OBVIOUS
    <3> QED
      BY <1>1, <1>4, <1>7, <2>2, <2>4, <2>6, <3>1, Zenon DEF Round, Same
  <2>11. Written(Y, old, new, a, b, o)
    BY <2>3, <2>7, <2>8, <2>9 DEF Written
  <2>12. i + j < a + b
    <3>1. a # i \/ b # j
      BY <1>1, <1>7, <2>2
    <3> QED
      BY <1>2, <2>3, <3>1
  <2> QED
    BY <2>10, <2>11, <2>12 DEF s
<1> QED
  BY <1>5, <1>6, <1>7 DEF s

\* A difference gives both sides, and is empty for equal objects.
LEMMA UnifiedDiffOK ==
  ASSUME NEW Y, NEW old \in Seq(Y), NEW new \in Seq(Y)
  PROVE  /\ UnifiedDiff(old, new) \in Seq(Marked(Y))
         /\ old = new => UnifiedDiff(old, new) = <<>>
         /\ old # new => Side(UnifiedDiff(old, new), "-") = old /\ Side(UnifiedDiff(old, new), "+") = new
<1>1. PICK m, n : m = Len(old) /\ n = Len(new) /\ m \in Nat /\ n \in Nat /\ m + n \in Nat
  <2>1. PICK m, n : m = Len(old) /\ n = Len(new)
    OBVIOUS
  <2>2. m \in Nat /\ n \in Nat
    BY <2>1
  <2>3. m + n \in Nat
    BY <2>2
  <2> QED
    BY <2>1, <2>2, <2>3, Zenon
<1>2. PICK N \in Nat : N = m + n
  BY <1>1
<1> DEFINE State(i, j, out) == [i |-> i, j |-> j, out |-> out]
           V == {State(y[1], y[2], y[3]) : y \in
                   {x \in (0..m) \X (0..n) \X Seq(Marked(Y)) : Written(Y, old, new, x[1], x[2], x[3])}}
           step == [x \in (1..N) \X V |-> Round(old, new, x[2])]
           Upto(g) == g = [k \in 0..N |-> IF k = 0 THEN State(0, 0, <<>>) ELSE Round(old, new, g[k - 1])]
           f == CHOOSE g : Upto(g)
<1>3. ASSUME NEW i, NEW j, NEW out, Written(Y, old, new, i, j, out)
      PROVE  State(i, j, out) \in V
  <2>1. i \in 0..m /\ j \in 0..n /\ out \in Seq(Marked(Y))
    BY <1>1, <1>3 DEF Written
  <2>2. PICK x : x = <<i, j, out>>
    OBVIOUS
  <2>3. x \in (0..m) \X (0..n) \X Seq(Marked(Y)) /\ x[1] = i /\ x[2] = j /\ x[3] = out
    BY <2>1, <2>2
  <2> HIDE DEF State
  <2> QED
    BY <1>3, <2>2, <2>3, Zenon
<1>4. ASSUME NEW s \in V
      PROVE  \E i, j, out : s = State(i, j, out) /\ Written(Y, old, new, i, j, out)
  <2> HIDE DEF State
  <2>1. PICK x \in (0..m) \X (0..n) \X Seq(Marked(Y)) : /\ Written(Y, old, new, x[1], x[2], x[3])
                                                         /\ s = State(x[1], x[2], x[3])
    BY Zenon
  <2> QED
    BY <2>1, Zenon
<1>5. State(0, 0, <<>>) \in V
  <2>1. <<>> \in Seq(Marked(Y)) /\ 0 \in 0..Len(old) /\ 0 \in 0..Len(new) /\ 0 \in Nat /\ 0 <= Len(old) /\ 0 <= Len(new)
    BY <1>1
  <2>2. \A mark : Side(<<>>, mark) = <<>>
    <3> TAKE mark
    <3>1. Kept(<<>>, mark) = {}
      <4>1. Kept(<<>>, mark) \subseteq 1..0
        BY Zenon, Len(<<>>) = 0 DEF Kept
      <4> QED
        BY <4>1
    <3>2. Pick(<<>>, Kept(<<>>, mark)) = <<>>
      BY <2>1, <3>1, PickAll
    <3>3. Side(<<>>, mark) = Unmark(<<>>)
      BY <2>1, <3>2, SideOK
    <3>4. Unmark(<<>>) \in Seq(Y) /\ Len(Unmark(<<>>)) = 0
      BY <2>1, UnmarkOK
    <3> QED
      BY <3>3, <3>4
  <2>3. Part(old, 0, 0) = <<>> /\ Part(new, 0, 0) = <<>>
    BY DEF Part
  <2>4. Written(Y, old, new, 0, 0, <<>>)
    BY <2>1, <2>2, <2>3, Zenon DEF Written
  <2> QED
    BY <1>3, <2>4
<1>6. ASSUME NEW s \in V PROVE Round(old, new, s) \in V
  <2> HIDE DEF V
  <2>1. PICK i, j, out : s = State(i, j, out) /\ Written(Y, old, new, i, j, out)
    BY <1>4
  <2>2. PICK a, b, o : /\ Round(old, new, s) = State(a, b, o) /\ Written(Y, old, new, a, b, o)
    <3>1. Written(Y, old, new, i, j, out)
      BY <2>1
    <3>2. PICK a, b, o : /\ Round(old, new, [i |-> i, j |-> j, out |-> out]) = [i |-> a, j |-> b, out |-> o]
                         /\ Written(Y, old, new, a, b, o)
                         /\ \/ i + j < a + b
                            \/ a = Len(old) /\ b = Len(new)
      <4>1. GoesOn(Y, old, new, i, j, out)
        BY <3>1, RoundOK
      <4> QED
        BY <4>1, Zenon DEF GoesOn
    <3>3. Round(old, new, s) = State(a, b, o)
      BY <2>1, <3>2, Zenon DEF State
    <3> QED
      BY <3>2, <3>3, Zenon
  <2> QED
    BY <1>3, <2>2
<1> HIDE DEF V
<1>7. 0 \in 0..N /\ N \in 0..N /\ \A k \in 1..N : k \in 0..N /\ k # 0 /\ k - 1 \in 0..N
  OBVIOUS
<1>8. Upto(f)
  <2>1. step \in [(1..N) \X V -> V]
    BY <1>6
  <2>2. PICK W, e : W = V /\ e = State(0, 0, <<>>)
    OBVIOUS
  <2>3. PICK h : h \in [0..N -> V] /\ h[0] = e /\ \A k \in 1..N : h[k] = step[<<k, h[k - 1]>>]
    <3> HIDE DEF step, State
    <3>1. step \in [(1..N) \X W -> W] /\ e \in W
      BY <1>5, <2>1, <2>2, Zenon
    <3>2. PICK h : Iterates(h, N, W, e, step)
      BY <3>1, RecursionExists
    <3> QED
      BY <2>2, <3>2, Zenon DEF Iterates
  <2>4. ASSUME NEW k \in 1..N PROVE h[k] = Round(old, new, h[k - 1])
    <3>1. h[k - 1] \in V /\ <<k, h[k - 1]>> \in (1..N) \X V
      BY <1>7, <2>3
    <3> QED
      BY <2>3, <3>1
  <2>5. ASSUME NEW k \in 0..N PROVE h[k] = IF k = 0 THEN State(0, 0, <<>>) ELSE Round(old, new, h[k - 1])
    <3>1. k = 0 \/ k \in 1..N
      OBVIOUS
    <3> HIDE DEF State
    <3> QED
      BY <1>7, <2>2, <2>3, <2>4, <3>1, Zenon
  <2>6. h = [k \in 0..N |-> h[k]]
    BY <2>3
  <2>7. Upto(h)
    <3> HIDE DEF State
    <3> QED
      BY <2>5, <2>6, Zenon
  <2> HIDE DEF Upto
  <2> QED
    BY <2>7, Zenon
<1> HIDE DEF f, State
<1>9. f[0] = State(0, 0, <<>>) /\ \A k \in 1..N : f[k] = Round(old, new, f[k - 1])
  BY <1>7, <1>8, Zenon
<1> DEFINE Far(s, k) == \E i, j, out : s = State(i, j, out) /\ Written(Y, old, new, i, j, out) /\ (k <= i + j)
<1>10. \A k \in 0..N : k \in {l \in 0..N : Far(f[l], l)}
  <2> DEFINE S == {l \in 0..N : Far(f[l], l)}
  <2>1. 0 \in S
    <3>1. PICK i, j, out : f[0] = State(i, j, out) /\ Written(Y, old, new, i, j, out)
      <4>1. f[0] \in V
        BY <1>5, <1>9
      <4> QED
        BY <1>4, <4>1
    <3>2. i \in Nat /\ j \in Nat
      BY <1>1, <3>1 DEF Written
    <3>3. 0 <= i + j
      BY <3>2
    <3> QED
      BY <1>7, <3>1, <3>3, Zenon
  <2>2. \A k \in 0..(N - 1) : k \in S => k + 1 \in S
    <3> SUFFICES ASSUME NEW k \in 0..(N - 1), Far(f[k], k) PROVE k + 1 \in 0..N /\ Far(f[k + 1], k + 1)
      OBVIOUS
    <3>1. k + 1 \in 1..N /\ k + 1 \in 0..N /\ (k + 1) - 1 = k /\ k \in Nat
      OBVIOUS
    <3>2. f[k + 1] = Round(old, new, f[k])
      BY <1>9, <3>1
    <3>3. PICK i, j, out : f[k] = State(i, j, out) /\ Written(Y, old, new, i, j, out) /\ (k <= i + j)
      OBVIOUS
    <3>4. PICK a, b, o : /\ Round(old, new, [i |-> i, j |-> j, out |-> out]) = [i |-> a, j |-> b, out |-> o]
                         /\ Written(Y, old, new, a, b, o)
                         /\ \/ i + j < a + b
                            \/ a = Len(old) /\ b = Len(new)
      <4>1. GoesOn(Y, old, new, i, j, out)
        BY <3>3, RoundOK
      <4> QED
        BY <4>1, Zenon DEF GoesOn
    <3>5. f[k + 1] = State(a, b, o)
      BY <3>2, <3>3, <3>4, Zenon DEF State
    <3>6. i \in Nat /\ j \in Nat /\ a \in Nat /\ b \in Nat
      BY <1>1, <3>3, <3>4 DEF Written
    <3>7. k + 1 <= a + b
      BY <1>1, <1>2, <3>1, <3>3, <3>4, <3>6
    <3> QED
      BY <3>1, <3>4, <3>5, <3>7, Zenon
  <2> HIDE DEF S, Far
  <2>3. \A k \in 0..N : k \in S
    BY <2>1, <2>2, Repetition
  <2> QED
    BY <2>3 DEF S
<1>11. PICK i, j, out : f[N] = State(i, j, out) /\ Written(Y, old, new, i, j, out) /\ (N <= i + j)
  <2> HIDE DEF Far
  <2>1. Far(f[N], N)
    BY <1>7, <1>10
  <2> QED
    BY <2>1 DEF Far
<1>12. i = m /\ j = n /\ f[N].out = out
  <2>1. i \in 0..m /\ j \in 0..n
    BY <1>1, <1>11 DEF Written
  <2>2. f[N].out = out
    BY <1>11 DEF State
  <2> QED
    BY <1>1, <1>2, <1>11, <2>1, <2>2
<1>13. UnifiedDiff(old, new) = IF old = new THEN <<>> ELSE f[N].out
  BY <1>1, <1>2 DEF UnifiedDiff, f, State
<1>14. Part(old, 0, m) = old /\ Part(new, 0, n) = new
  BY <1>1 DEF Part
<1>15. out \in Seq(Marked(Y)) /\ Side(out, "-") = old /\ Side(out, "+") = new
  BY <1>11, <1>12, <1>14, Zenon DEF Written
<1>16. <<>> \in Seq(Marked(Y))
  OBVIOUS
<1> QED
  BY <1>12, <1>13, <1>15, <1>16, Zenon

-----------------------------------------------------------------------------
(* The documents of a stream *)

\* What may be applied.
Applied(d) ==
  /\ d.live \in Seq(YamlLines) /\ d.proposed \in Seq(YamlLines) /\ d.isNew \in BOOLEAN
  /\ d.isNew => d.live = <<>> /\ d.proposed # <<>>

\* A line is a manifest, a separator or one that is ignored.
LEMMA LineKinds ==
  ASSUME NEW l \in StreamLines
  PROVE  /\ l[1] = "obj" <=> (l # Separator /\ l \notin Ignored)
         /\ l[1] = "obj" => l = Manifest(l[2]) /\ Applied(l[2])
<1>1. CASE l = Separator \/ l \in Ignored
  <2>1. PICK x : l = <<x>> /\ x \in {"---", "#", ""}
    BY <1>1, Zenon DEF Separator, Ignored
  <2>2. x # "obj"
    BY <2>1, Zenon
  <2>3. l[1] = x
    <3>1. PICK y : y = x
      OBVIOUS
    <3>2. l = <<y>>
      BY <2>1, <3>1, Zenon
    <3>3. l[1] = y
      BY <3>2
    <3> QED
      BY <3>1, <3>3
  <2> QED
    BY <1>1, <2>2, <2>3, Zenon
<1>2. CASE ~(l = Separator \/ l \in Ignored)
  <2>1. l \in StreamLines \ ({Separator} \cup Ignored)
    BY <1>2, Zenon
  <2>2. l = Manifest(l[2])
    BY <2>1, StreamsOK, Zenon
  <2>3. /\ l[2] \in [fails : {"none", "parse", "map", "get", "patch"}, isNew : BOOLEAN,
                     live : Seq(YamlLines), proposed : Seq(YamlLines)]
        /\ l[2].isNew => l[2].live = <<>> /\ l[2].proposed # <<>>
    BY <2>1, StreamsOK, Zenon
  <2>4. Applied(l[2])
    BY <2>3, Zenon DEF Applied
  <2>5. l[1] = "obj"
    <3>1. PICK d : d = l[2]
      OBVIOUS
    <3>2. l = <<"obj", d>>
      BY <2>2, <3>1 DEF Manifest
    <3> QED
      BY <3>2
  <2> QED
    BY <1>2, <2>2, <2>4, <2>5, Zenon
<1> QED
  BY <1>1, <1>2, Zenon

\* A stream as the editor may leave it.
Stream(data) ==
  /\ data \in Seq(StreamLines)
  /\ \A i, j \in 1..Len(data) :
       (i < j /\ data[i][1] = "obj" /\ data[j][1] = "obj") => \E k \in i..j : data[k] = Separator

LEMMA StreamTyped ==
  ASSUME NEW data \in Streams
  PROVE  Stream(data)
BY StreamsOK, Zenon DEF Stream

\* The content of the k-th piece of a stream, where it is in the stream.
Inner(data, k) == {p \in 1..Len(data) : /\ Nth(Cuts(data, Separator), k) < p /\ p < Nth(Cuts(data, Separator), k + 1)
                                        /\ data[p][1] = "obj"}

\* It is the manifest lines between two separators, and there is at most one.
PieceAt(data, k, piece, a) ==
  /\ a \in Nat
  /\ Content(piece) \subseteq 1..Len(piece) /\ piece \in Seq(StreamLines)
  /\ \A i \in Content(piece) : a + i \in Inner(data, k) /\ piece[i] = data[a + i]
  /\ \A p \in Inner(data, k) : p - a \in Content(piece)
  /\ \A p, q \in Inner(data, k) : p = q

LEMMA PieceContent ==
  ASSUME NEW data, Stream(data), NEW k \in 1..Len(Split(data, Separator))
  PROVE  PieceAt(data, k, Split(data, Separator)[k], Nth(Cuts(data, Separator), k))
<1> DEFINE C == Cuts(data, Separator)
<1>1. data \in Seq(StreamLines) /\ Len(data) \in Nat
  BY DEF Stream
<1>2. PICK n \in Nat : n = Len(data)
  BY <1>1
<1>3. PICK P : P = Len(Split(data, Separator)) /\ P = Cardinality(C) - 1 /\ Split(data, Separator) \in Seq(Seq(StreamLines))
  BY <1>1, SplitOK
<1>4. PICK piece, a, b : piece = Split(data, Separator)[k] /\ a = Nth(C, k) /\ b = Nth(C, k + 1)
  OBVIOUS
<1>5. Adjacent(C, a, b) /\ C \subseteq 0..(n + 1)
  <2>1. C \subseteq Int /\ IsFiniteSet(C) /\ C \subseteq 0..(Len(data) + 1)
    BY <1>1, CutsOK
  <2>2. k \in 1..(Cardinality(C) - 1)
    BY <1>3
  <2> HIDE DEF C
  <2>3. Adjacent(C, Nth(C, k), Nth(C, k + 1))
    BY <2>1, <2>2, NthAdjacent
  <2> QED
    BY <1>2, <1>4, <2>1, <2>3
<1>6. a \in 0..(n + 1) /\ b \in 0..(n + 1) /\ a < b /\ \A c \in C : c <= a \/ b <= c
  BY <1>5 DEF Adjacent
<1>7. piece = SubSeq(data, a + 1, b - 1)
  <2>1. piece = SubSeq(data, Nth(C, k) + 1, Nth(C, k + 1) - 1)
    BY <1>1, <1>4, SplitAt
  <2> QED
    BY <1>4, <2>1
<1>8. /\ piece \in Seq(StreamLines) /\ Len(piece) = b - a - 1
      /\ \A i \in 1..(b - a - 1) : piece[i] = data[a + i] /\ a + i \in 1..n
  <2>1. data \in Seq(StreamLines) /\ a \in 0..(Len(data) + 1) /\ b \in 0..(Len(data) + 1) /\ a < b
    BY <1>1, <1>2, <1>6
  <2>2. /\ piece \in Seq(StreamLines) /\ Len(piece) = b - a - 1
        /\ \A i \in 1..(b - a - 1) : piece[i] = data[a + i] /\ a + i \in 1..Len(data)
    BY <1>7, <2>1, BetweenOK
  <2> QED
    BY <1>2, <2>2
<1>9. ASSUME NEW p \in 1..n, a < p, p < b PROVE data[p] # Separator
  <2>1. ASSUME data[p] = Separator PROVE FALSE
    <3>1. p \in C
      BY <1>2, <2>1 DEF Cuts
    <3>2. p <= a \/ b <= p
      BY <1>6, <3>1
    <3> QED
      BY <1>6, <1>9, <3>2
  <2> QED
    BY <2>1
<1>10. Inner(data, k) = {p \in 1..n : a < p /\ p < b /\ data[p][1] = "obj"}
  BY <1>2, <1>4 DEF Inner
<1>11. ASSUME NEW p \in 1..n, a < p, p < b PROVE data[p][1] = "obj" <=> data[p] \notin Ignored
  <2>1. data[p] \in StreamLines
    BY <1>1, <1>2
  <2>2. data[p] # Separator
    BY <1>9, <1>11
  <2> QED
    BY <2>1, <2>2, LineKinds, Zenon
<1>12. Content(piece) = {i \in 1..Len(piece) : piece[i] \notin Ignored}
  BY DEF Content
<1>13. ASSUME NEW i \in Content(piece) PROVE a + i \in Inner(data, k) /\ piece[i] = data[a + i]
  <2>1. i \in 1..(b - a - 1) /\ piece[i] \notin Ignored
    BY <1>8, <1>12, Zenon
  <2>2. PICK p \in 1..n : p = a + i /\ piece[i] = data[p]
    BY <1>8, <2>1
  <2>3. a < p /\ p < b
    BY <1>6, <2>1, <2>2
  <2>4. data[p][1] = "obj"
    BY <1>11, <2>1, <2>2, <2>3, Zenon
  <2> QED
    BY <1>10, <2>2, <2>3, <2>4
<1>14. ASSUME NEW p \in Inner(data, k) PROVE p - a \in Content(piece)
  <2>1. p \in 1..n /\ a < p /\ p < b /\ data[p][1] = "obj"
    BY <1>10
  <2>2. PICK i \in 1..(b - a - 1) : i = p - a /\ a + i = p
    BY <1>6, <2>1
  <2>3. piece[i] = data[p]
    BY <1>8, <2>2
  <2>4. data[p] \notin Ignored
    BY <1>11, <2>1, Zenon
  <2>5. i \in Content(piece)
    BY <1>8, <1>12, <2>3, <2>4, Zenon
  <2> QED
    BY <2>2, <2>5
<1>15. ASSUME NEW p \in Inner(data, k), NEW q \in Inner(data, k) PROVE ~(p < q)
  <2>1. /\ p \in 1..n /\ a < p /\ p < b /\ data[p][1] = "obj"
        /\ q \in 1..n /\ a < q /\ q < b /\ data[q][1] = "obj"
    BY <1>10
  <2>2. ASSUME p < q PROVE FALSE
    <3>1. PICK m \in p..q : data[m] = Separator
      BY <1>2, <2>1, <2>2 DEF Stream
    <3>2. m \in 1..n /\ a < m /\ m < b
      BY <1>6, <2>1
    <3> QED
      BY <1>9, <3>1, <3>2
  <2> QED
    BY <2>2
<1>16. \A p, q \in Inner(data, k) : p = q
  <2>1. \A p, q \in Inner(data, k) : p \in Int /\ q \in Int /\ ~(p < q) /\ ~(q < p)
    BY <1>10, <1>15
  <2> QED
    BY <2>1
<1>17. a \in Nat /\ Content(piece) \subseteq 1..Len(piece)
  BY <1>6, <1>12
<1> QED
  BY <1>4, <1>8, <1>13, <1>14, <1>16, <1>17, Zenon DEF PieceAt

\* Cutting a stream finds its manifests, each of them once, in their order.
LEMMA DocumentsOK ==
  ASSUME NEW data, Stream(data)
  PROVE  /\ Documents(data) = Manifests(data) /\ Len(Manifests(data)) \in Nat
         /\ Manifests(data) = [k \in 1..Len(Manifests(data)) |-> Manifests(data)[k]]
         /\ \A k \in 1..Len(Manifests(data)) : Applied(Manifests(data)[k])
<1> DEFINE pieces == Split(data, Separator)
           C == Cuts(data, Separator)
           T == ObjectLines(data)
           S == {k \in 1..Len(pieces) : HasContent(pieces[k])}
           at == [k \in S |-> CHOOSE p \in Inner(data, k) : TRUE]
<1>1. data \in Seq(StreamLines) /\ Len(data) \in Nat
  BY DEF Stream
<1>2. PICK n \in Nat : n = Len(data)
  BY <1>1
<1>3. PICK P \in Nat : P = Len(pieces) /\ P = Cardinality(C) - 1
  <2>1. Len(pieces) \in Nat \ {0} /\ Len(pieces) = Cardinality(C) - 1
    BY <1>1, SplitOK
  <2> QED
    BY <2>1
<1>4. pieces \in Seq(Seq(StreamLines))
  BY <1>1, SplitOK
<1>5. ASSUME NEW k \in 1..P
      PROVE  /\ Nth(C, k) \in Nat /\ Content(pieces[k]) \subseteq 1..Len(pieces[k]) /\ pieces[k] \in Seq(StreamLines)
             /\ \A i \in Content(pieces[k]) : Nth(C, k) + i \in Inner(data, k) /\ pieces[k][i] = data[Nth(C, k) + i]
             /\ \A p \in Inner(data, k) : p - Nth(C, k) \in Content(pieces[k])
             /\ \A p, q \in Inner(data, k) : p = q
  <2>1. PieceAt(data, k, pieces[k], Nth(C, k))
    BY <1>3, PieceContent
  <2> HIDE DEF C, pieces
  <2> QED
    BY <2>1, Zenon DEF PieceAt
<1>6. C \subseteq Int /\ IsFiniteSet(C) /\ C \subseteq 0..(n + 1) /\ Cardinality(C) \in Nat
  BY <1>1, <1>2, CutsOK
<1>7. S \subseteq 1..P /\ T \subseteq 1..n
  BY <1>2, <1>3 DEF ObjectLines
<1>8. ASSUME NEW k \in 1..P, NEW p \in Inner(data, k) PROVE p \in T /\ k \in S
  <2>1. p \in T
    BY DEF Inner, ObjectLines
  <2>2. p - Nth(C, k) \in Content(pieces[k])
    BY <1>5
  <2>3. HasContent(pieces[k])
    BY <2>2, Zenon DEF HasContent
  <2> QED
    BY <1>3, <2>1, <2>3
<1>9. ASSUME NEW k \in S PROVE at[k] \in Inner(data, k)
  <2>1. k \in 1..P /\ HasContent(pieces[k])
    BY <1>3
  <2>2. PICK i : i \in Content(pieces[k])
    BY <2>1, Zenon DEF HasContent
  <2>3. Nth(C, k) + i \in Inner(data, k)
    BY <1>5, <2>1, <2>2
  <2>4. (CHOOSE p \in Inner(data, k) : TRUE) \in Inner(data, k)
    BY <2>3, Zenon
  <2> HIDE DEF S
  <2> QED
    BY <2>4
<1>10. at \in [S -> T]
  <2> HIDE DEF S, T
  <2>1. \A k \in S : at[k] \in T
    <3> HIDE DEF at
    <3> QED
      BY <1>7, <1>8, <1>9
  <2> QED
    BY <2>1
<1>11. ASSUME NEW k \in S, NEW l \in S, k < l PROVE at[k] < at[l]
  <2> HIDE DEF S, at, C, T
  <2>1. at[k] \in Inner(data, k) /\ at[l] \in Inner(data, l) /\ k \in 1..P /\ l \in 1..P
    BY <1>7, <1>9
  <2>2. /\ at[k] \in 1..n /\ at[k] < Nth(C, k + 1) /\ at[l] \in 1..n /\ Nth(C, l) < at[l]
    BY <1>2, <2>1 DEF Inner, C
  <2>3. Nth(C, k + 1) \in C /\ Nth(C, l) \in C
    <3>1. k + 1 \in 1..Cardinality(C) /\ l \in 1..Cardinality(C)
      BY <1>3, <1>6, <2>1
    <3> QED
      BY <1>6, <3>1, NthOK
  <2>4. Nth(C, k + 1) <= Nth(C, l)
    <3>1. CASE k + 1 = l
      <4>1. PICK x : x = Nth(C, l) /\ x \in Int
        BY <1>6, <2>3
      <4> QED
        BY <3>1, <4>1
    <3>2. CASE k + 1 < l
      <4>1. k + 1 \in 1..Cardinality(C) /\ l \in 1..Cardinality(C)
        BY <1>3, <1>6, <2>1
      <4>2. Nth(C, k + 1) < Nth(C, l)
        BY <1>6, <3>2, <4>1, NthOrder
      <4>3. PICK x, y \in Int : x = Nth(C, k + 1) /\ y = Nth(C, l)
        BY <1>6, <2>3
      <4>4. x < y
        BY <4>2, <4>3, Zenon
      <4>5. x <= y
        BY <4>3, <4>4
      <4> QED
        BY <4>3, <4>5, Zenon
    <3>3. k < l /\ k \in Int /\ l \in Int
      BY <1>11, <2>1
    <3>4. k + 1 = l \/ k + 1 < l
      BY <3>3
    <3> QED
      BY <3>1, <3>2, <3>4
  <2>5. Nth(C, k + 1) \in Int /\ Nth(C, l) \in Int
    BY <1>6, <2>3
  <2> QED
    BY <2>2, <2>4, <2>5
<1>12. ASSUME NEW p \in T PROVE \E k \in S : at[k] = p
  <2>1. p \in 1..n /\ data[p][1] = "obj"
    BY <1>2 DEF ObjectLines
  <2>2. \E k \in 1..P : p \in Inner(data, k)
    <3> DEFINE L == {c \in C : c < p}
    <3>1. data[p] # Separator
      <4>1. data[p] \in StreamLines
        BY <1>1, <1>2, <2>1
      <4> QED
        BY <2>1, <4>1, LineKinds
    <3>2. p \notin C
      BY <1>2, <2>1, <3>1 DEF Cuts
    <3>3. 0 \in C /\ n + 1 \in C
      BY <1>1, <1>2, CutsOK
    <3> HIDE DEF C
    <3>4. \E a, b : Adjacent(C, a, b) /\ a < p /\ p < b
      <4>1. L \subseteq Nat /\ L # {}
        <5>1. \A c \in C : c \in Nat
          BY <1>6
        <5>2. 0 < p
          BY <2>1
        <5> QED
          BY <3>3, <5>1, <5>2
      <4> DEFINE U == {c \in C : p < c}
                 D == {p - c : c \in L}
      <4>2. U \subseteq Nat /\ U # {}
        <5>1. \A c \in C : c \in Nat
          BY <1>6
        <5>2. p < n + 1
          BY <2>1
        <5> QED
          BY <3>3, <5>1, <5>2
      <4>3. D \subseteq Nat /\ D # {}
        <5>1. \A c \in L : p - c \in Nat
          BY <1>6, <2>1
        <5> HIDE DEF L
        <5> QED
          BY <4>1, <5>1
      <4>4. PICK b \in U : \A m \in U : b <= m
        <5> HIDE DEF U
        <5> QED
          BY <4>2, LeastElement
      <4>5. PICK d \in D : \A m \in D : d <= m
        <5> HIDE DEF D
        <5> QED
          BY <4>3, LeastElement
      <4>6. PICK a \in L : d = p - a
        OBVIOUS
      <4>7. a \in C /\ b \in C /\ a < p /\ p < b /\ a \in Int /\ b \in Int
        BY <1>6
      <4>8. ASSUME NEW c \in C PROVE c <= a \/ b <= c
        <5>1. c \in Int /\ c # p
          BY <1>6, <3>2
        <5>2. CASE c < p
          <6>1. p - c \in D
            BY <5>2
          <6>2. d <= p - c
            BY <4>5, <6>1
          <6> QED
            BY <2>1, <4>6, <4>7, <5>1, <6>2
        <5>3. CASE p < c
          BY <4>4, <5>3
        <5> QED
          BY <2>1, <5>1, <5>2, <5>3
      <4>9. Adjacent(C, a, b)
        BY <2>1, <4>7, <4>8 DEF Adjacent
      <4> QED
        BY <4>7, <4>9
    <3>5. PICK a, b : Adjacent(C, a, b) /\ a < p /\ p < b
      BY <3>4
    <3>6. PICK k \in 1..P : a = Nth(C, k) /\ b = Nth(C, k + 1)
      <4>1. C \subseteq Int /\ IsFiniteSet(C) /\ Adjacent(C, a, b)
        BY <1>6, <3>5, Zenon
      <4>2. \A x, y : Adjacent(C, x, y) => \E k \in 1..(Cardinality(C) - 1) : x = Nth(C, k) /\ y = Nth(C, k + 1)
        BY <4>1, NthAdjacent
      <4> QED
        <5>1. PICK k \in 1..(Cardinality(C) - 1) : a = Nth(C, k) /\ b = Nth(C, k + 1)
          BY <4>1, <4>2
        <5>2. k \in 1..P
          BY <1>3, <5>1
        <5> QED
          BY <5>1, <5>2, Zenon
    <3>7. p \in Inner(data, k)
      BY <1>2, <2>1, <3>5, <3>6 DEF Inner, C
    <3> QED
      BY <3>7
  <2>3. PICK k \in 1..P : p \in Inner(data, k)
    BY <2>2
  <2>4. k \in S
    BY <1>8, <2>3
  <2>5. at[k] \in Inner(data, k)
    BY <1>9, <2>4
  <2>6. at[k] = p
    <3> HIDE DEF at
    <3> QED
      BY <1>5, <2>3, <2>5
  <2> HIDE DEF S, at
  <2> QED
    BY <2>4, <2>6
<1>13. /\ Cardinality(T) = Cardinality(S) /\ Cardinality(S) \in Nat
       /\ \A k \in 1..Cardinality(S) : at[Nth(S, k)] = Nth(T, k) /\ Nth(S, k) \in S /\ Nth(T, k) \in T
  <2> HIDE DEF S, T, at
  <2>1. S \subseteq Int /\ IsFiniteSet(S) /\ Cardinality(S) \in 0..P
    BY <1>7, PositionsOK
  <2>2. T \subseteq Int /\ IsFiniteSet(T)
    BY <1>7, PositionsOK
  <2>3. Cardinality(T) = Cardinality(S) /\ \A k \in 1..Cardinality(S) : at[Nth(S, k)] = Nth(T, k)
    <3>1. \A i, j \in S : i < j => at[i] < at[j]
      BY <1>11, Zenon
    <3>2. \A p \in T : \E k \in S : at[k] = p
      BY <1>12, Zenon
    <3>3. InOrder(at, S, T)
      BY <1>10, <2>1, <2>2, <3>1, <3>2, Zenon DEF InOrder
    <3>4. RanksKept(at, S, T)
      BY <3>3, SameRanks, Zenon
    <3> QED
      BY <3>4, Zenon DEF RanksKept
  <2>4. \A k \in 1..Cardinality(S) : Nth(S, k) \in S
    BY <2>1, NthOK
  <2>5. \A k \in 1..Cardinality(S) : Nth(T, k) \in T
    BY <2>2, <2>3, NthOK
  <2> QED
    BY <2>1, <2>3, <2>4, <2>5
<1>14. PICK N \in Nat : N = Cardinality(S)
  BY <1>13
<1>15. /\ SplitDocuments(data) = Pick(pieces, S) /\ Len(Pick(pieces, S)) = N
       /\ \A k \in 1..N : Pick(pieces, S)[k] = pieces[Nth(S, k)]
  <2>1. SplitDocuments(data) = Pick(pieces, S)
    BY DEF SplitDocuments
  <2>2. S \subseteq 1..Len(pieces)
    OBVIOUS
  <2> HIDE DEF S, pieces
  <2> QED
    BY <1>4, <1>14, <2>1, <2>2, PickOK, PickAt
<1>16. /\ Manifests(data) = [k \in 1..N |-> data[Nth(T, k)][2]] /\ Len(Manifests(data)) = N
  <2>1. T \subseteq 1..Len(data)
    BY DEF ObjectLines
  <2>2. Manifests(data) = [k \in 1..Len(Pick(data, T)) |-> Pick(data, T)[k][2]]
    BY Zenon DEF Manifests
  <2> HIDE DEF T, S
  <2>3. Len(Pick(data, T)) = N /\ \A k \in 1..N : Pick(data, T)[k] = data[Nth(T, k)]
    <3>1. Cardinality(T) = N
      BY <1>13, <1>14
    <3>2. Len(Pick(data, T)) = Cardinality(T)
      BY <1>1, <2>1, PickOK
    <3>3. \A k \in 1..Cardinality(T) : Pick(data, T)[k] = data[Nth(T, k)]
      BY <1>1, <2>1, PickAt
    <3> QED
      BY <3>1, <3>2, <3>3
  <2>4. Manifests(data) = [k \in 1..N |-> data[Nth(T, k)][2]]
    BY <2>2, <2>3, Zenon
  <2>5. Len(Manifests(data)) = N
    BY <1>14, <2>4
  <2> QED
    BY <2>4, <2>5
<1>17. ASSUME NEW k \in 1..N
       PROVE  FirstOf(pieces[Nth(S, k)], Content(pieces[Nth(S, k)]))[1][2] = data[Nth(T, k)][2]
  <2>1. PICK s, t, q : s = Nth(S, k) /\ t = Nth(T, k) /\ q = pieces[s]
    OBVIOUS
  <2>2. s \in S /\ at[s] = t
    BY <1>13, <1>14, <2>1
  <2>3. s \in 1..P /\ t \in Inner(data, s)
    <3> HIDE DEF S, at
    <3> QED
      BY <1>7, <1>9, <2>2
  <2>4. /\ Nth(C, s) \in Nat /\ Content(q) \subseteq 1..Len(q) /\ q \in Seq(StreamLines)
        /\ \A i \in Content(q) : Nth(C, s) + i \in Inner(data, s) /\ q[i] = data[Nth(C, s) + i]
        /\ \A p, r \in Inner(data, s) : p = r
    BY <1>5, <2>1, <2>3
  <2>5. t - Nth(C, s) \in Content(q)
    BY <1>5, <2>1, <2>3
  <2> HIDE DEF C
  <2>6. PICK i \in Content(q) : FirstOf(q, Content(q)) = <<q[i]>>
    BY <2>4, <2>5, FirstOfOK
  <2>7. q[i] = data[t]
    BY <2>3, <2>4
  <2>8. FirstOf(q, Content(q))[1] = data[t]
    BY <2>6, <2>7
  <2> QED
    BY <2>1, <2>8, Zenon
<1>18. Documents(data) = [k \in 1..N |-> data[Nth(T, k)][2]]
  <2>1. Documents(data) = [k \in 1..Len(SplitDocuments(data)) |->
                             FirstOf(SplitDocuments(data)[k], Content(SplitDocuments(data)[k]))[1][2]]
    BY Zenon DEF Documents
  <2>2. Len(SplitDocuments(data)) = N /\ \A k \in 1..N : SplitDocuments(data)[k] = pieces[Nth(S, k)]
    BY <1>15, Zenon
  <2> HIDE DEF S, T, pieces
  <2>3. \A k \in 1..N : FirstOf(SplitDocuments(data)[k], Content(SplitDocuments(data)[k]))[1][2] = data[Nth(T, k)][2]
    BY <1>17, <2>2, Zenon
  <2> QED
    BY <2>1, <2>2, <2>3, Zenon
<1>19. ASSUME NEW k \in 1..N PROVE Applied(data[Nth(T, k)][2])
  <2>1. PICK t : t = Nth(T, k)
    OBVIOUS
  <2>2. t \in T
    BY <1>13, <1>14, <2>1
  <2>3. t \in 1..n /\ data[t][1] = "obj"
    BY <1>2, <2>2 DEF ObjectLines
  <2>4. data[t] \in StreamLines
    BY <1>1, <1>2, <2>3
  <2>5. Applied(data[t][2])
    BY <2>3, <2>4, LineKinds
  <2> QED
    BY <2>1, <2>5
<1> HIDE DEF S, T, pieces, at
<1>20. PICK m : m = Manifests(data)
  OBVIOUS
<1>21. m = [k \in 1..N |-> data[Nth(T, k)][2]] /\ Len(m) = N
  BY <1>16, <1>20
<1>22. \A k \in 1..N : m[k] = data[Nth(T, k)][2]
  BY <1>21, Zenon
<1>23. \A k \in 1..N : Applied(m[k])
  BY <1>19, <1>22, Zenon
<1>24. m = [k \in 1..N |-> m[k]]
  BY <1>21
<1> QED
  BY <1>14, <1>18, <1>20, <1>21, <1>23, <1>24, Zenon

-----------------------------------------------------------------------------
(* What :apply shows *)

\* A result tells the truth about its document.
Unchanged(d) == d.fails = "none" /\ ~d.isNew /\ d.live = d.proposed
Truthful(d, r) ==
  /\ r.diff \in Seq(Marked(YamlLines))
  /\ r.err <=> d.fails # "none"
  /\ d.fails = "none" =>
       \/ r.diff = <<>> /\ ~d.isNew /\ d.live = d.proposed
       \/ Side(r.diff, "-") = d.live /\ Side(r.diff, "+") = d.proposed
  /\ r.err \/ r.diff # <<>> \/ Unchanged(d)

LEMMA EmptySide ==
  ASSUME NEW mark
  PROVE  Side(<<>>, mark) = <<>>
<1>1. <<>> \in Seq(Marked({}))
  OBVIOUS
<1>2. Side(<<>>, mark) = Unmark(Pick(<<>>, Kept(<<>>, mark)))
  BY <1>1, SideOK
<1>3. Kept(<<>>, mark) = {}
  BY DEF Kept
<1>4. Pick(<<>>, {}) = <<>>
  BY <1>1, PickAll
<1>5. Unmark(<<>>) = <<>>
  BY DEF Unmark
<1> QED
  BY <1>2, <1>3, <1>4, <1>5

LEMMA NewObject ==
  ASSUME NEW Y, NEW s \in Seq(Y), s # <<>>, NEW r, r = Run("+", s, 0, Len(s))
  PROVE  r \in Seq(Marked(Y)) /\ r # <<>> /\ Side(r, "-") = <<>> /\ Side(r, "+") = s
<1>1. PICK n \in Nat : n = Len(s)
  OBVIOUS
<1>2. "+" \in Marks /\ "+" \in {Same, "+"} /\ "+" \notin {Same, "-"}
  BY Zenon DEF Marks, Same
<1>3. n # 0
  BY <1>1
<1>4. n - 0 = n /\ 0 <= n /\ n <= Len(s)
  BY <1>1
<1>5. r = Run("+", s, 0, n) /\ 0 \in Nat
  BY <1>1, Zenon
<1>6. r \in Seq(Marked(Y)) /\ Len(r) = n /\ Side(r, "-") = <<>> /\ Side(r, "+") = Part(s, 0, n)
  BY <1>2, <1>4, <1>5, RunOK
<1>7. Part(s, 0, n) = s
  BY <1>1 DEF Part
<1>8. r # <<>>
  <2>1. Len(<<>>) = 0
    OBVIOUS
  <2> QED
    BY <1>3, <1>6, <2>1, Zenon
<1> QED
  BY <1>6, <1>7, <1>8, Zenon

\* Diff, for one document.
LEMMA DiffOneOK ==
  ASSUME NEW d, Applied(d)
  PROVE  Truthful(d, DiffOne(d))
<1>1. /\ d.live \in Seq(YamlLines) /\ d.proposed \in Seq(YamlLines) /\ d.isNew \in BOOLEAN
      /\ d.isNew => d.live = <<>> /\ d.proposed # <<>>
  BY Zenon DEF Applied
<1>2. CASE d.fails # "none"
  <2>1. DiffOne(d) = [err |-> TRUE, diff |-> <<>>]
    BY <1>2, Zenon DEF DiffOne
  <2>2. DiffOne(d).err = TRUE /\ DiffOne(d).diff = <<>>
    BY <2>1
  <2>3. <<>> \in Seq(Marked(YamlLines))
    OBVIOUS
  <2> QED
    BY <1>2, <2>2, <2>3, Zenon DEF Truthful
<1>3. CASE d.fails = "none" /\ d.isNew
  <2>1. PICK r : r = Run("+", d.proposed, 0, Len(d.proposed))
    OBVIOUS
  <2>2. DiffOne(d) = [err |-> FALSE, diff |-> r]
    BY <1>3, <2>1, Zenon DEF DiffOne
  <2>3. DiffOne(d).err = FALSE /\ DiffOne(d).diff = r
    BY <2>2
  <2>4. r \in Seq(Marked(YamlLines)) /\ r # <<>> /\ Side(r, "-") = <<>> /\ Side(r, "+") = d.proposed
    BY <1>1, <1>3, <2>1, NewObject
  <2> QED
    BY <1>1, <1>3, <2>3, <2>4, Zenon DEF Truthful
<1>4. CASE d.fails = "none" /\ ~d.isNew
  <2>1. PICK r : r = UnifiedDiff(d.live, d.proposed)
    OBVIOUS
  <2>2. DiffOne(d) = [err |-> FALSE, diff |-> r]
    BY <1>4, <2>1, Zenon DEF DiffOne
  <2>3. DiffOne(d).err = FALSE /\ DiffOne(d).diff = r
    BY <2>2
  <2>4. /\ r \in Seq(Marked(YamlLines)) /\ (d.live = d.proposed => r = <<>>)
        /\ d.live # d.proposed => Side(r, "-") = d.live /\ Side(r, "+") = d.proposed
    BY <1>1, <2>1, UnifiedDiffOK
  <2>5. r = <<>> => d.live = d.proposed
    BY <2>4, EmptySide, Zenon
  <2> QED
    BY <1>1, <1>4, <2>3, <2>4, <2>5, Zenon DEF Truthful, Unchanged
<1> QED
  BY <1>1, <1>2, <1>3, <1>4

\* So do the results for a stream.
AllTruthful(docs, results) ==
  /\ Len(results) \in Nat /\ Len(results) = Len(docs)
  /\ results = [k \in 1..Len(results) |-> results[k]]
  /\ \A k \in 1..Len(results) : Truthful(docs[k], results[k])

LEMMA DiffOK ==
  ASSUME NEW data, Stream(data), NEW results, results = Diff(Documents(data))
  PROVE  AllTruthful(Manifests(data), results)
<1>1. PICK m : m = Manifests(data)
  OBVIOUS
<1>2. Documents(data) = m /\ Len(m) \in Nat /\ \A k \in 1..Len(m) : Applied(m[k])
  BY <1>1, DocumentsOK
<1>3. PICK n \in Nat : n = Len(m)
  BY <1>2
<1>4. results = [k \in 1..n |-> DiffOne(m[k])]
  BY <1>2, <1>3, Zenon DEF Diff
<1>5. Len(results) = n
  BY <1>4
<1>6. \A k \in 1..n : results[k] = DiffOne(m[k])
  BY <1>4, Zenon
<1>7. \A k \in 1..n : Truthful(m[k], results[k])
  BY <1>2, <1>3, <1>6, DiffOneOK, Zenon
<1>8. results = [k \in 1..n |-> results[k]]
  BY <1>4
<1> QED
  BY <1>1, <1>3, <1>5, <1>7, <1>8, Zenon DEF AllTruthful

\* The page that shows them has lines.
LEMMA RenderDiffOK ==
  ASSUME NEW results, Len(results) \in Nat,
         \A k \in 1..Len(results) : results[k].diff \in Seq(Marked(YamlLines))
  PROVE  Len(RenderDiffResults(results)) \in Nat
<1>1. PICK n \in Nat : n = Len(results)
  OBVIOUS
<1>2. PICK blank, header, failed, same, hint :
        /\ blank = <<"">> /\ header = <<"===">> /\ failed = <<"!">> /\ same = <<"(">> /\ hint = <<"#">>
  BY Zenon
<1> DEFINE V == {blank, header, failed, same, hint} \cup Marked(YamlLines)
           Body(r) == IF r.err THEN <<failed>> ELSE IF r.diff = <<>> THEN <<same>> ELSE r.diff
           Entry(r) == <<blank, header>> \o Body(r)
           ss == [k \in 1..n |-> Entry(results[k])]
<1>3. RenderDiffResults(results) = <<hint>> \o Flatten(ss) \o <<blank>>
  BY <1>1, <1>2, Zenon DEF RenderDiffResults
<1>4. ASSUME NEW k \in 1..n PROVE Entry(results[k]) \in Seq(V)
  <2>1. PICK d : d = results[k].diff /\ d \in Seq(Marked(YamlLines))
    BY <1>1
  <2>2. d \in Seq(V)
    BY <2>1
  <2>3. <<failed>> \in Seq(V) /\ <<same>> \in Seq(V) /\ <<blank, header>> \in Seq(V)
    OBVIOUS
  <2> HIDE DEF V
  <2>4. Body(results[k]) \in Seq(V)
    BY <2>1, <2>2, <2>3, Zenon
  <2> HIDE DEF Body
  <2>5. PICK b : b = Body(results[k]) /\ b \in Seq(V)
    BY <2>4
  <2>6. <<blank, header>> \o b \in Seq(V)
    BY <2>3, <2>5
  <2> QED
    BY <2>5, <2>6, Zenon
<1>5. ss \in Seq(Seq(V))
  <2> HIDE DEF V, Entry
  <2> QED
    BY <1>4
<1>6. Flatten(ss) \in Seq(V)
  <2> HIDE DEF V, ss
  <2> QED
    BY <1>5, FlattenOK
<1>7. <<hint>> \in Seq(V) /\ <<blank>> \in Seq(V)
  OBVIOUS
<1>8. PICK f : f = Flatten(ss) /\ f \in Seq(V)
  BY <1>6
<1> HIDE DEF V, ss
<1>9. <<hint>> \o f \o <<blank>> \in Seq(V)
  BY <1>7, <1>8
<1>10. Len(<<hint>> \o f \o <<blank>>) \in Nat
  BY <1>9
<1> QED
  BY <1>3, <1>8, <1>10, Zenon

-----------------------------------------------------------------------------
(* The pages of :explain *)

\* The rows a field list makes.
Row(f) == <<"field", f>>

LEMMA SelectedFields ==
  ASSUME NEW node
  PROVE  ImmediateFields(node) \in Seq(Seq(STRING))
<1>1. FieldOrder \in Seq(Seq(STRING))
  BY TypesOK
<1>2. PICK S : S = {k \in 1..Len(FieldOrder) : FieldOrder[k] \in DOMAIN node.properties}
  OBVIOUS
<1>3. S \subseteq 1..Len(FieldOrder)
  BY <1>2
<1>4. Pick(FieldOrder, S) \in Seq(Seq(STRING))
  BY <1>1, <1>3, PickOK
<1>5. <<>> \in Seq(Seq(STRING))
  OBVIOUS
<1> QED
  BY <1>2, <1>4, <1>5, Zenon DEF ImmediateFields

\* A page of :explain is a heading, the rows of the fields and a blank line.
Heading(x, fields) ==
  << <<"KIND", x.r.kind>>, <<"VERSION", x.version>>, <<"">>, <<"FIELD">>, <<"">>, <<"DESCRIPTION">>, <<"text">> >>
  \o (IF fields = <<>> THEN <<>> ELSE << <<"">> >> \o << <<"FIELDS">> >>)
LEMMA RenderSchemaForm ==
  ASSUME NEW x, NEW place, NEW fields, fields = ImmediateFields(Node(place))
  PROVE  RenderSchema(x, place) = Heading(x, fields) \o [k \in 1..Len(fields) |-> Row(fields[k])] \o << <<"">> >>
BY Zenon DEF RenderSchema, Heading, Row

\* What a page lists: the rows that show a field.
Listed(l) == {l[k][2] : k \in {m \in 1..Len(l) : l[m][1] = "field"}}

Unlisted(l) == \A k \in 1..Len(l) : l[k][1] # "field"
Shows(l, fields) == Len(l) \in Nat /\ Listed(l) = {fields[k] : k \in 1..Len(fields)}

LEMMA ListedOK ==
  ASSUME NEW V, NEW h \in Seq(V), NEW r \in Seq(V), NEW b \in Seq(V), NEW F, NEW fields \in Seq(F),
         Len(r) = Len(fields), \A k \in 1..Len(fields) : r[k] = Row(fields[k]),
         Unlisted(h), Unlisted(b),
         NEW l, l = h \o r \o b
  PROVE  Shows(l, fields)
<1>1. PICK p, q, w \in Nat : p = Len(h) /\ q = Len(r) /\ w = Len(b) /\ q = Len(fields)
  OBVIOUS
<1>2. PICK g : g = h \o r
  OBVIOUS
<1>3. /\ g \in Seq(V) /\ Len(g) = p + q
      /\ \A i \in 1..p : g[i] = h[i]
      /\ \A i \in 1..q : g[p + i] = r[i]
  <2>1. /\ g \in Seq(V) /\ Len(g) = Len(h) + Len(r)
        /\ \A i \in 1..Len(h) : g[i] = h[i]
        /\ \A i \in 1..Len(r) : g[Len(h) + i] = r[i]
    <3>1. Behind(V, h, r, g)
      BY <1>2, BehindOK
    <3> QED
      BY <3>1, Zenon DEF Behind
  <2> QED
    BY <1>1, <2>1
<1>4. /\ l \in Seq(V) /\ Len(l) = Len(g) + w
      /\ \A i \in 1..Len(g) : l[i] = g[i]
      /\ \A i \in 1..w : l[Len(g) + i] = b[i]
  <2>1. g \in Seq(V) /\ b \in Seq(V) /\ l = g \o b
    BY <1>2, <1>3
  <2>2. Behind(V, g, b, l)
    BY <2>1, BehindOK, Zenon
  <2> QED
    BY <1>1, <2>2, Zenon DEF Behind
<1>5. Len(l) = p + q + w /\ Len(l) \in Nat
  BY <1>3, <1>4
<1>6. \A i \in 1..p : l[i][1] # "field"
  BY <1>1, <1>3, <1>4 DEF Unlisted
<1>7. ASSUME NEW i \in 1..q PROVE l[p + i] = Row(fields[i]) /\ p + i \in 1..Len(l)
  <2>1. p + i \in 1..Len(g)
    <3>1. Len(g) = p + q
      BY <1>3
    <3> QED
      BY <3>1
  <2>2. l[p + i] = r[i]
    BY <1>3, <1>4, <2>1
  <2> QED
    BY <1>1, <1>5, <2>2
<1>8. \A i \in 1..w : l[p + q + i][1] # "field"
  BY <1>1, <1>3, <1>4 DEF Unlisted
<1>9. \A f : Row(f)[1] = "field" /\ Row(f)[2] = f
  BY DEF Row
<1>10. ASSUME NEW m \in 1..Len(l), l[m][1] = "field"
       PROVE  \E k \in 1..Len(fields) : l[m][2] = fields[k]
  <2>1. m \in Int /\ ~(m <= p) /\ m <= p + q + w
    BY <1>5, <1>6, <1>10, SMTT(30)
  <2>2. CASE m > p + q
    <3>1. PICK i \in 1..w : m = p + q + i
      <4>1. m - (p + q) \in 1..w /\ m = p + q + (m - (p + q))
        BY <2>1, <2>2
      <4> QED
        BY <4>1
    <3> QED
      BY <1>8, <1>10, <3>1
  <2>3. CASE m <= p + q
    <3>1. PICK i \in 1..q : m = p + i
      <4>1. m - p \in 1..q /\ m = p + (m - p)
        BY <2>1, <2>3
      <4> QED
        BY <4>1
    <3>2. l[m] = Row(fields[i])
      BY <1>7, <3>1
    <3> QED
      BY <1>1, <1>9, <3>2
  <2> QED
    BY <2>1, <2>2, <2>3
<1>11. ASSUME NEW k \in 1..Len(fields)
       PROVE  \E m \in {m \in 1..Len(l) : l[m][1] = "field"} : l[m][2] = fields[k]
  <2>1. PICK m : m = p + k
    OBVIOUS
  <2>2. k \in 1..q
    BY <1>1
  <2>3. l[m] = Row(fields[k]) /\ m \in 1..Len(l)
    BY <1>7, <2>1, <2>2
  <2>4. l[m][1] = "field" /\ l[m][2] = fields[k]
    BY <1>9, <2>3
  <2> QED
    BY <2>3, <2>4
<1>12. Listed(l) \subseteq {fields[k] : k \in 1..Len(fields)}
  BY <1>10 DEF Listed
<1>13. {fields[k] : k \in 1..Len(fields)} \subseteq Listed(l)
  <2>1. \A k \in 1..Len(fields) : \E m \in {m \in 1..Len(l) : l[m][1] = "field"} : fields[k] = l[m][2]
    BY <1>11
  <2>2. \A k \in 1..Len(fields) : fields[k] \in Listed(l)
    BY <2>1 DEF Listed
  <2> QED
    BY <2>2
<1> QED
  BY <1>5, <1>12, <1>13 DEF Shows

HeadingLines(x) ==
  {<<"KIND", x.r.kind>>, <<"VERSION", x.version>>, <<"">>, <<"FIELD">>, <<"DESCRIPTION">>, <<"text">>, <<"FIELDS">>}
LEMMA HeadingOK ==
  ASSUME NEW x, NEW fields, NEW V, NEW h, h = Heading(x, fields),
         HeadingLines(x) \subseteq V
  PROVE  h \in Seq(V) /\ Unlisted(h)
<1>1. PICK a, b, c, d, e, f, g :
        /\ a = <<"KIND", x.r.kind>> /\ b = <<"VERSION", x.version>> /\ c = <<"">> /\ d = <<"FIELD">>
        /\ e = <<"DESCRIPTION">> /\ f = <<"text">> /\ g = <<"FIELDS">>
  BY Zenon
<1>2. PICK t : t = <<a, b, c, d, c, e, f>>
  OBVIOUS
<1>3. PICK u : u = IF fields = <<>> THEN <<>> ELSE <<c>> \o <<g>>
  OBVIOUS
<1>4. h = t \o u
  BY <1>1, <1>2, <1>3, Zenon DEF Heading
<1>5. {a, b, c, d, e, f, g} \subseteq V
  BY <1>1, Zenon DEF HeadingLines
<1>6. PICK nothing : nothing = ""
  BY Zenon
<1>7. nothing # "field"
  BY <1>6, Zenon
<1>8. c[1] # "field"
  <2>1. c = <<nothing>>
    BY <1>1, <1>6, Zenon
  <2> QED
    BY <1>7, <2>1
<1>9. a[1] # "field" /\ b[1] # "field" /\ d[1] # "field" /\ e[1] # "field" /\ f[1] # "field" /\ g[1] # "field"
  <2>1. a = <<"KIND", x.r.kind>> /\ b = <<"VERSION", x.version>> /\ d = <<"FIELD">>
        /\ e = <<"DESCRIPTION">> /\ f = <<"text">> /\ g = <<"FIELDS">>
    BY <1>1, Zenon
  <2> QED
    BY <2>1
<1>10. t \in Seq(V) /\ Len(t) = 7 /\ \A k \in 1..7 : t[k] \in {a, b, c, d, e, f}
  BY <1>2, <1>5
<1>11. u \in Seq(V) /\ Len(u) \in {0, 2} /\ \A k \in 1..Len(u) : u[k] \in {c, g}
  <2>1. CASE fields = <<>>
    BY <1>3, <2>1
  <2>2. CASE fields # <<>>
    <3>1. u = <<c>> \o <<g>>
      BY <1>3, <2>2
    <3>2. PICK p, q : p = <<c>> /\ q = <<g>>
      OBVIOUS
    <3>3. p \in Seq(V) /\ q \in Seq(V) /\ Len(p) = 1 /\ Len(q) = 1 /\ p[1] = c /\ q[1] = g
      BY <1>5, <3>2
    <3>4. u = p \o q
      BY <3>1, <3>2, Zenon
    <3>5. Behind(V, p, q, u)
      BY <3>3, <3>4, BehindOK, Zenon
    <3>6. u \in Seq(V) /\ Len(u) = 2 /\ u[1] = c /\ u[2] = g
      BY <3>3, <3>5 DEF Behind
    <3> QED
      BY <3>6
  <2> QED
    BY <2>1, <2>2
<1>12. /\ h \in Seq(V) /\ Len(h) = Len(t) + Len(u)
       /\ \A i \in 1..Len(t) : h[i] = t[i]
       /\ \A i \in 1..Len(u) : h[Len(t) + i] = u[i]
  <2>1. Behind(V, t, u, h)
    BY <1>4, <1>10, <1>11, BehindOK, Zenon
  <2> QED
    BY <2>1, Zenon DEF Behind
<1>13. \A k \in 1..Len(h) : h[k] \in {a, b, c, d, e, f, g}
  <2> SUFFICES ASSUME NEW k \in 1..Len(h) PROVE h[k] \in {a, b, c, d, e, f, g}
    OBVIOUS
  <2>1. CASE k <= 7
    BY <1>10, <1>12, <2>1
  <2>2. CASE k > 7
    <3>1. PICK i \in 1..Len(u) : k = 7 + i
      <4>1. k - 7 \in 1..Len(u) /\ k = 7 + (k - 7)
        BY <1>10, <1>11, <1>12, <2>2
      <4> QED
        BY <4>1
    <3> QED
      BY <1>10, <1>11, <1>12, <3>1
  <2> QED
    BY <1>10, <1>11, <1>12, <2>1, <2>2
<1> QED
  BY <1>8, <1>9, <1>12, <1>13, Zenon DEF Unlisted

\* A page lists the fields of its node.
LEMMA RenderSchemaOK ==
  ASSUME NEW x, NEW place, NEW l, l = RenderSchema(x, place)
  PROVE  Shows(l, ImmediateFields(Node(place)))
<1>1. PICK fields \in Seq(Seq(STRING)) : fields = ImmediateFields(Node(place))
  BY SelectedFields
<1>2. PICK h, blank : h = Heading(x, fields) /\ blank = <<"">>
  BY Zenon
<1>3. PICK r : r = [k \in 1..Len(fields) |-> Row(fields[k])]
  OBVIOUS
<1>4. l = h \o r \o <<blank>>
  BY <1>1, <1>2, <1>3, RenderSchemaForm, Zenon
<1> DEFINE V == HeadingLines(x) \cup {blank} \cup {Row(fields[k]) : k \in 1..Len(fields)}
<1>5. HeadingLines(x) \subseteq V
  BY Zenon
<1>6. h \in Seq(V) /\ Unlisted(h)
  <2> HIDE DEF V
  <2> QED
    <3>1. h = Heading(x, fields)
      BY <1>2, Zenon
    <3> QED
      BY <1>5, <3>1, HeadingOK
<1>7. blank \in V /\ \A k \in 1..Len(fields) : Row(fields[k]) \in V
  BY Zenon
<1> HIDE DEF V
<1>8. r \in Seq(V) /\ Len(r) = Len(fields) /\ \A k \in 1..Len(fields) : r[k] = Row(fields[k])
  BY <1>3, <1>7
<1>9. <<blank>> \in Seq(V) /\ \A k \in 1..Len(<<blank>>) : <<blank>>[k] = blank
  BY <1>7
<1>10. blank[1] # "field"
  <2>1. PICK nothing : nothing = ""
    BY Zenon
  <2>2. nothing # "field" /\ blank = <<nothing>>
    BY <1>2, <2>1, Zenon
  <2> QED
    BY <2>2
<1>11. PICK b : b = <<blank>>
  OBVIOUS
<1>12. b \in Seq(V) /\ Unlisted(b)
  BY <1>9, <1>10, <1>11, Zenon DEF Unlisted
<1>13. l = h \o r \o b
  BY <1>4, <1>11, Zenon
<1>14. Shows(l, fields)
  BY <1>6, <1>8, <1>12, <1>13, ListedOK, Zenon
<1> QED
  BY <1>1, <1>14, Zenon

\* Every page that :explain may show has lines.
LEMMA ExplainPages ==
  ASSUME NEW d, NEW token, NEW path, NEW l \in Explain(d, token, path)
  PROVE  Len(l) \in Nat
<1>1. \E x, place : l = RenderSchema(x, place)
  BY Zenon DEF Explain
<1>2. PICK x, place : l = RenderSchema(x, place)
  BY <1>1
<1>3. Shows(l, ImmediateFields(Node(place)))
  BY <1>2, RenderSchemaOK
<1> QED
  BY <1>3, Zenon DEF Shows

-----------------------------------------------------------------------------
(* Commands *)

\* What is typed after ":" holds words of what can be typed.
LEMMA ParseCommandOK ==
  ASSUME NEW typed \in Texts
  PROVE  ParseCommand(typed).arg \in Texts
<1>1. PICK V : V = CommandKeys \cup FilterKeys
  OBVIOUS
<1>2. typed \in Seq(V) /\ Texts = Seq(V)
  BY <1>1 DEF Texts
<1>3. PICK f : f = Fields(typed) /\ f \in Seq(Seq(V))
  BY <1>2, FieldsOK
<1>4. PICK arg : arg = IF Len(f) > 1 THEN f[2] ELSE <<>>
  OBVIOUS
<1>5. arg \in Seq(V) /\ <<>> \in Seq(V)
  <2>1. Len(f) > 1 => f[2] \in Seq(V)
    BY <1>3
  <2>2. <<>> \in Seq(V)
    OBVIOUS
  <2> QED
    BY <1>4, <2>1, <2>2
<1>6. CASE f = <<>>
  <2>1. ParseCommand(typed) = [verb |-> "noop", arg |-> <<>>]
    BY <1>3, <1>6, Zenon DEF ParseCommand
  <2> QED
    BY <1>2, <1>5, <2>1
<1>7. CASE f # <<>> /\ f[1] \in DOMAIN Verb
  <2>1. PICK a : a = IF Verb[f[1]] \in {"ctx", "explain"} THEN arg ELSE <<>>
    OBVIOUS
  <2>2. ParseCommand(typed) = [verb |-> Verb[f[1]], arg |-> a]
    BY <1>3, <1>4, <1>7, <2>1, Zenon DEF ParseCommand
  <2>3. a \in Seq(V)
    BY <1>5, <2>1
  <2> QED
    BY <1>2, <2>2, <2>3
<1>8. CASE f # <<>> /\ f[1] \notin DOMAIN Verb
  <2>1. PICK v : v = IF "." \in ToSet(f[1]) THEN "crdopen" ELSE "nav"
    OBVIOUS
  <2>2. ParseCommand(typed) = [verb |-> v, arg |-> f[1]]
    BY <1>3, <1>8, <2>1, Zenon DEF ParseCommand
  <2>3. f[1] \in Seq(V)
    BY <1>3, <1>8
  <2> QED
    BY <1>2, <2>2, <2>3
<1> QED
  BY <1>6, <1>7, <1>8

\* A command is about what was typed, and what it looks up, if it does, is a word.
Opening(a) == [verb |-> "open resource", arg |-> a]
Explaining == [verb |-> "explain", arg |-> <<>>]
Lookups == {NotAsked, Explaining} \cup {Opening(a) : a \in Texts}
Does(typed, v, a) == [word |-> typed, verb |-> v, arg |-> a]

LEMMA RunCommandForm ==
  ASSUME NEW typed \in Texts
  PROVE  \E v, a : RunCommand(typed) = Does(typed, v, a) /\ (v # "navigate" => a \in Texts)
<1>1. PICK c : c = ParseCommand(typed) /\ c.arg \in Texts
  BY ParseCommandOK
<1>2. CASE c.verb = "ctx"
  <2>1. RunCommand(typed) = Does(typed, IF c.arg = <<>> THEN "pick context" ELSE "switch context", c.arg)
    BY <1>1, <1>2, Zenon DEF RunCommand, Does
  <2> QED
    BY <1>1, <2>1, Zenon
<1>3. CASE c.verb = "explain"
  <2>1. RunCommand(typed) = Does(typed, ExplainCommand(c.arg), c.arg)
    BY <1>1, <1>3, Zenon DEF RunCommand, Does
  <2> QED
    BY <1>1, <2>1, Zenon
<1>4. CASE c.verb = "crdopen"
  <2>1. RunCommand(typed) = Does(typed, OpenCRD(c.arg), c.arg)
    BY <1>1, <1>4, Zenon DEF RunCommand, Does
  <2> QED
    BY <1>1, <2>1, Zenon
<1>5. CASE c.verb = "nav" /\ Resolve(c.arg) # {}
  <2>1. RunCommand(typed) = Does(typed, "navigate", CHOOSE k \in Resolve(c.arg) : TRUE)
    BY <1>1, <1>5, Zenon DEF RunCommand, Does
  <2> QED
    BY <2>1, Zenon
<1>6. CASE c.verb = "nav" /\ Resolve(c.arg) = {}
  <2>1. RunCommand(typed) = Does(typed, "open resource", c.arg)
    BY <1>1, <1>6, Zenon DEF RunCommand, Does
  <2> QED
    BY <1>1, <2>1, Zenon
<1>7. CASE c.verb \notin {"ctx", "explain", "crdopen", "nav"}
  <2>1. RunCommand(typed) = Does(typed, c.verb, c.arg)
    BY <1>1, <1>7, Zenon DEF RunCommand, Does
  <2> QED
    BY <1>1, <2>1, Zenon
<1> QED
  BY <1>2, <1>3, <1>4, <1>5, <1>6, <1>7, Zenon

LEMMA LookupOK ==
  ASSUME NEW typed \in Texts, NEW r, r = RunCommand(typed)
  PROVE  /\ r.word = typed /\ Lookup(r) \in Lookups
         /\ Lookup(r) # NotAsked => r.verb \in {"open resource", "explain"}
<1>1. PICK v, a : r = Does(typed, v, a) /\ (v # "navigate" => a \in Texts)
  BY RunCommandForm, Zenon
<1>2. r.word = typed /\ r.verb = v /\ r.arg = a
  BY <1>1 DEF Does
<1>3. CASE v = "open resource"
  <2>1. Lookup(r) = Opening(a) /\ a \in Texts
    BY <1>1, <1>2, <1>3, Zenon DEF Lookup, Opening
  <2> QED
    BY <1>2, <1>3, <2>1, Zenon DEF Lookups
<1>4. CASE v = "explain"
  <2>1. Lookup(r) = Explaining
    BY <1>1, <1>2, <1>4, Zenon DEF Lookup, Explaining
  <2> QED
    BY <1>2, <1>4, <2>1, Zenon DEF Lookups
<1>5. CASE v \notin {"open resource", "explain"}
  <2>1. Lookup(r) = NotAsked
    BY <1>2, <1>5, Zenon DEF Lookup
  <2> QED
    BY <1>2, <2>1, Zenon DEF Lookups
<1> QED
  BY <1>3, <1>4, <1>5, Zenon

-----------------------------------------------------------------------------
(* The invariant of the line *)

TypeInv ==
  /\ line \in {"command", "filter"} /\ mode \in {"none", "command", "filter", "quit"}
  /\ buf \in Texts /\ filter \in Texts /\ keys \in 0..MaxKeys[line]

\* The highlight is at rest, or on a command that is listed.
HighlightInv == cmdSel \in Nat /\ (cmdSel # 0 => mode = "command" /\ cmdSel < Len(Matches))

\* What is offered is what fits some text, and a suggestion that is highlighted is
\* on the line and in the filter.
Offered(s) == s = NoSuggest \/ \E b \in Texts : s = FilterMatches(b)
SuggestInv ==
  /\ Offered(suggest) /\ suggestSel \in -1..(Len(suggest.matches) - 1)
  /\ (mode = "filter" /\ suggestSel >= 0) =>
       /\ buf = suggest.prefix \o suggest.matches[suggestSel + 1]
       /\ filter = suggest.prefix \o suggest.matches[suggestSel + 1]

LineInv == TypeInv /\ HighlightInv /\ SuggestInv /\ FilterFollowsLine

\* Only what is typed matters to it.
LEMMA LineKept ==
  ASSUME LineInv, UNCHANGED typedVars
  PROVE  LineInv'
<1>1. /\ line' = line /\ mode' = mode /\ buf' = buf /\ cmdSel' = cmdSel
      /\ suggest' = suggest /\ suggestSel' = suggestSel /\ filter' = filter /\ keys' = keys
  BY DEF typedVars
<1>2. TypeInv'
  BY <1>1 DEF LineInv, TypeInv
<1>3. HighlightInv'
  BY <1>1 DEF LineInv, HighlightInv, Matches
<1>4. SuggestInv'
  BY <1>1, Zenon DEF LineInv, SuggestInv
<1>5. FilterFollowsLine'
  BY <1>1 DEF LineInv, FilterFollowsLine
<1> QED
  BY <1>2, <1>3, <1>4, <1>5 DEF LineInv

LEMMA KeysBounded ==
  \A l \in {"command", "filter"} : MaxKeys[l] \in Nat
<1>1. MaxKeys \in [{"command", "filter"} -> Nat]
  BY CatalogOK, Zenon
<1> QED
  BY <1>1

LEMMA OfferedOK ==
  ASSUME NEW s, Offered(s)
  PROVE  s.prefix \in Texts /\ s.matches \in Seq(Texts) /\ Len(s.matches) \in Nat
<1>1. CASE s = NoSuggest
  <2>1. s.prefix = <<>> /\ s.matches = <<>>
    BY <1>1 DEF NoSuggest
  <2> QED
    BY <2>1 DEF Texts
<1>2. CASE \E b \in Texts : s = FilterMatches(b)
  <2>1. PICK b \in Texts : s = FilterMatches(b)
    BY <1>2
  <2>2. s \in [prefix : Texts, matches : Seq(Texts)]
    BY <2>1, FilterMatchesOK
  <2> QED
    BY <2>2
<1> QED
  BY <1>1, <1>2 DEF Offered

LEMMA NoTextIsTyped ==
  <<>> \in Texts
BY DEF Texts

\* A line that is closed is at rest.
LEMMA ClosedOK ==
  ASSUME LineInv, Closed, mode' \in {"none", "quit"}, filter' \in Texts, line' = line, keys' = keys
  PROVE  LineInv'
<1>1. buf' = <<>> /\ cmdSel' = 0 /\ suggest' = NoSuggest /\ suggestSel' = -1
  BY DEF Closed
<1>2. TypeInv'
  BY <1>1, NoTextIsTyped DEF LineInv, TypeInv
<1>3. HighlightInv'
  BY <1>1 DEF HighlightInv
<1>4. SuggestInv'
  <2>1. NoSuggest.matches = <<>>
    BY DEF NoSuggest
  <2>2. Offered(suggest') /\ Len(suggest'.matches) = 0
    BY <1>1, <2>1 DEF Offered
  <2>3. ~(suggestSel' >= 0) /\ suggestSel' \in -1..(Len(suggest'.matches) - 1)
    BY <1>1, <2>2
  <2> QED
    BY <2>2, <2>3, Zenon DEF SuggestInv
<1>5. FilterFollowsLine'
  BY DEF FilterFollowsLine
<1> QED
  BY <1>2, <1>3, <1>4, <1>5 DEF LineInv

\* New suggestions are offered, and none of them is highlighted.
LEMMA SuggestionsOK ==
  ASSUME NEW b \in Texts, Suggestions(b)
  PROVE  SuggestInv'
<1>1. suggest' = FilterMatches(b) /\ suggestSel' = -1
  BY DEF Suggestions
<1>2. Offered(suggest')
  BY <1>1, Zenon DEF Offered
<1>3. Len(suggest'.matches) \in Nat
  BY <1>2, OfferedOK
<1>4. ~(suggestSel' >= 0) /\ suggestSel' \in -1..(Len(suggest'.matches) - 1)
  BY <1>1, <1>3
<1> QED
  BY <1>2, <1>4, Zenon DEF SuggestInv

\* Editing the line re-applies the filter and resets both highlights.
LEMMA EditedOK ==
  ASSUME LineInv, NEW b \in Texts, Edited(b), mode \in {"command", "filter"}, mode' = mode, line' = line,
         keys' \in 0..MaxKeys[line]
  PROVE  LineInv'
<1>1. buf' = b /\ cmdSel' = 0
  BY DEF Edited
<1>2. CASE mode = "filter"
  <2>1. filter' = b /\ Suggestions(b)
    BY <1>2 DEF Edited
  <2>2. SuggestInv'
    BY <2>1, SuggestionsOK
  <2>3. TypeInv' /\ HighlightInv' /\ FilterFollowsLine'
    BY <1>1, <2>1 DEF LineInv, TypeInv, HighlightInv, FilterFollowsLine
  <2> QED
    BY <2>2, <2>3 DEF LineInv
<1>3. CASE mode # "filter"
  <2>1. filter' = filter /\ suggest' = suggest /\ suggestSel' = suggestSel /\ mode' # "filter"
    BY <1>3 DEF Edited
  <2>2. SuggestInv'
    BY <2>1, Zenon DEF LineInv, SuggestInv
  <2>3. TypeInv' /\ HighlightInv' /\ FilterFollowsLine'
    BY <1>1, <2>1 DEF LineInv, TypeInv, HighlightInv, FilterFollowsLine
  <2> QED
    BY <2>2, <2>3 DEF LineInv
<1> QED
  BY <1>2, <1>3

\* The commands listed for what is typed have names that can be typed.
LEMMA ListedNames ==
  ASSUME NEW b, NEW k \in Nat, k < Len(CommandMatches(b))
  PROVE  CommandMatches(b)[k + 1].name \in Texts
<1>1. Len(CommandMatches(b)) \in Nat /\ \A i \in 1..Len(CommandMatches(b)) : CommandMatches(b)[i].name \in Seq(CommandKeys)
  BY HighlightedOK
<1>2. PICK i : i = k + 1
  OBVIOUS
<1>3. i \in 1..Len(CommandMatches(b))
  BY <1>1, <1>2
<1>4. CommandMatches(b)[i].name \in Seq(CommandKeys)
  BY <1>1, <1>3
<1>5. PICK n : n = CommandMatches(b)[i].name
  OBVIOUS
<1>6. n \in Seq(CommandKeys \cup FilterKeys)
  BY <1>4, <1>5
<1> QED
  BY <1>2, <1>5, <1>6 DEF Texts

LEMMA PaletteMoveOK ==
  ASSUME LineInv, NEW d \in {-1, 1}, PaletteMove(d)
  PROVE  LineInv'
<1>1. /\ mode = "command" /\ cmdSel' = cmdSel + d /\ UNCHANGED <<line, mode, buf, suggest, suggestSel, filter, keys>>
      /\ IF d = 1 THEN cmdSel < Len(CommandMatches(buf)) - 1 ELSE cmdSel > 0
  BY DEF PaletteMove
<1>2. PICK n \in Nat : n = Len(CommandMatches(buf))
  BY HighlightedOK
<1>3. cmdSel \in Nat /\ (cmdSel # 0 => cmdSel < n)
  BY <1>2 DEF LineInv, HighlightInv, Matches
<1>4. cmdSel' \in Nat /\ cmdSel' < n
  BY <1>1, <1>2, <1>3
<1>5. HighlightInv'
  BY <1>1, <1>2, <1>4 DEF HighlightInv, Matches
<1>6. TypeInv' /\ FilterFollowsLine'
  BY <1>1 DEF LineInv, TypeInv, FilterFollowsLine
<1>7. SuggestInv'
  BY <1>1, Zenon DEF LineInv, SuggestInv
<1> QED
  BY <1>5, <1>6, <1>7 DEF LineInv

LEMMA PaletteTabOK ==
  ASSUME LineInv, PaletteTab
  PROVE  LineInv'
<1>1. /\ mode = "command" /\ cmdSel' = 0 /\ UNCHANGED <<line, mode, suggest, suggestSel, filter, keys>>
      /\ cmdSel < Len(CommandMatches(buf)) /\ buf' = CommandMatches(buf)[cmdSel + 1].name
  BY DEF PaletteTab
<1>2. buf' \in Texts
  BY <1>1, ListedNames DEF LineInv, HighlightInv
<1>3. TypeInv' /\ HighlightInv' /\ FilterFollowsLine'
  BY <1>1, <1>2 DEF LineInv, TypeInv, HighlightInv, FilterFollowsLine
<1>4. SuggestInv'
  BY <1>1 DEF LineInv, SuggestInv
<1> QED
  BY <1>3, <1>4 DEF LineInv

\* The highlight of the suggestions goes around.
LEMMA NextSelOK ==
  ASSUME SuggestInv, NEW d \in {-1, 1}, Len(suggest.matches) > 0
  PROVE  NextSel(d) \in 0..(Len(suggest.matches) - 1)
<1>1. Len(suggest.matches) \in Nat /\ suggestSel \in -1..(Len(suggest.matches) - 1)
  BY OfferedOK DEF SuggestInv
<1>2. PICK n \in Nat : n = Len(suggest.matches) /\ n > 0
  BY <1>1
<1>3. PICK s \in Int : s = suggestSel /\ -1 <= s /\ s <= n - 1
  BY <1>1, <1>2
<1>4. PICK x \in Int : x = s + d + n
  <2>1. d \in Int /\ s \in Int /\ n \in Int
    BY <1>3
  <2>2. s + d + n \in Int
    BY <2>1
  <2> QED
    BY <2>2
<1>5. x % n \in 0..(n - 1)
  <2>1. n \in Nat \ {0}
    BY <1>2
  <2> QED
    BY <1>4, <2>1
<1>6. NextSel(d) \in {0, n - 1, x % n}
  BY <1>2, <1>3, <1>4, Zenon DEF NextSel
<1>7. 0 \in 0..(n - 1) /\ n - 1 \in 0..(n - 1)
  BY <1>2
<1> QED
  BY <1>2, <1>5, <1>6, <1>7, Zenon

LEMMA SelectSuggestOK ==
  ASSUME LineInv, NEW d \in {-1, 1}, SelectSuggest(d)
  PROVE  LineInv'
<1>1. /\ mode = "filter" /\ Len(suggest.matches) > 0 /\ keys < MaxKeys[line]
      /\ suggestSel' = NextSel(d) /\ keys' = keys + 1 /\ UNCHANGED <<line, mode, cmdSel, suggest>>
      /\ buf' = suggest.prefix \o suggest.matches[NextSel(d) + 1]
      /\ filter' = suggest.prefix \o suggest.matches[NextSel(d) + 1]
  BY DEF SelectSuggest
<1>2. PICK s : s = NextSel(d) /\ s \in 0..(Len(suggest.matches) - 1)
  BY NextSelOK, <1>1 DEF LineInv
<1>3. suggest.prefix \in Texts /\ suggest.matches \in Seq(Texts) /\ Len(suggest.matches) \in Nat
  BY OfferedOK DEF LineInv, SuggestInv
<1>4. buf' \in Texts
  <2>1. PICK p, m : p = suggest.prefix /\ m = suggest.matches[s + 1]
    OBVIOUS
  <2>2. p \in Texts /\ m \in Texts
    <3>1. s + 1 \in 1..Len(suggest.matches)
      BY <1>2, <1>3
    <3> QED
      BY <1>3, <2>1, <3>1
  <2>3. p \o m \in Texts
    BY <2>2 DEF Texts
  <2>4. buf' = p \o m
    BY <1>1, <1>2, <2>1, Zenon
  <2> QED
    BY <2>3, <2>4, Zenon
<1>5. filter' = buf'
  BY <1>1, Zenon
<1>6. keys' \in 0..MaxKeys[line]
  <2>1. MaxKeys[line] \in Nat /\ keys \in 0..MaxKeys[line]
    BY KeysBounded DEF LineInv, TypeInv
  <2> QED
    BY <1>1, <2>1
<1>7. TypeInv' /\ FilterFollowsLine'
  BY <1>1, <1>4, <1>5, <1>6 DEF LineInv, TypeInv, FilterFollowsLine
<1>8. HighlightInv'
  BY <1>1 DEF LineInv, HighlightInv
<1>9. SuggestInv'
  <2>1. suggestSel' \in -1..(Len(suggest'.matches) - 1)
    <3>1. s \in -1..(Len(suggest.matches) - 1)
      BY <1>2, <1>3
    <3> QED
      BY <1>1, <1>2, <3>1
  <2>2. suggest' = suggest /\ suggestSel' = NextSel(d)
    BY <1>1
  <2>3. Offered(suggest')
    BY <2>2, Zenon DEF LineInv, SuggestInv
  <2>4. /\ buf' = suggest'.prefix \o suggest'.matches[suggestSel' + 1]
        /\ filter' = suggest'.prefix \o suggest'.matches[suggestSel' + 1]
    BY <1>1, <2>2, Zenon
  <2> QED
    BY <2>1, <2>3, <2>4, Zenon DEF SuggestInv
<1> QED
  BY <1>7, <1>8, <1>9 DEF LineInv

-----------------------------------------------------------------------------
(* The invariant of the pages *)

\* A text page is drawn before the next key.
TextInv ==
  text # NoText =>
    text.rows \in Nat /\ text = [rows |-> text.rows, v |-> text.v] /\ Drawn(text.v, text.rows)

\* Who waits for an editor or an answer types nothing and looks at nothing, and a
\* text page belongs to what is looked at.
TurnsInv ==
  /\ editing \in BOOLEAN
  /\ (editing \/ asked # NotAsked) => preview = NoPreview /\ answer = NoAnswer /\ mode = "none"
  /\ editing => asked = NotAsked
  /\ (preview = NoPreview /\ answer = NoAnswer) => text = NoText

\* A lookup is for a word or an expression.
AskedInv == asked \in Lookups

\* What is previewed is the comparison of a stream that the editor left.
Compared(data) == [data |-> data, results |-> Diff(Documents(data))]
Nothing(data) == [data |-> data, results |-> <<>>]
Previewed(p, data) ==
  IF DiffHasContent(Diff(Documents(data))) THEN p = Compared(data) ELSE p = Nothing(data)
PreviewInv == preview = NoPreview \/ \E data \in Streams : Previewed(preview, data)

\* What is looked at is the answer to what was asked.
Opened(d, a) == [to |-> Opening(a), d |-> d, info |-> ResolveResource(d, a)]
Explained(d, expr) == [to |-> Explaining, d |-> d, expr |-> expr]
PagesFor(d, expr) == Explain(d, SplitExpr(expr).token, SplitExpr(expr).path)
Page(d, expr, t) == IF PagesFor(d, expr) = {} THEN t = NoText ELSE t # NoText /\ t.v.lines \in PagesFor(d, expr)
AnswerInv ==
  \/ answer = NoAnswer
  \/ \E d \in Discoveries, a \in Texts : answer = Opened(d, a)
  \/ \E d \in Discoveries, expr \in Expressions : answer = Explained(d, expr) /\ Page(d, expr, text)

PageInv == TextInv /\ TurnsInv /\ AskedInv /\ PreviewInv /\ AnswerInv
Inv == LineInv /\ PageInv

\* Who types changes nothing of it.
LEMMA PageKept ==
  ASSUME PageInv, UNCHANGED <<editing, pageVars>>, mode' = mode \/ CanType
  PROVE  PageInv'
<1>1. editing' = editing /\ preview' = preview /\ asked' = asked /\ answer' = answer /\ text' = text
  BY DEF pageVars
<1>2. TextInv'
  BY <1>1 DEF PageInv, TextInv
<1>3. TurnsInv'
  BY <1>1 DEF PageInv, TurnsInv, CanType
<1>4. AskedInv'
  BY <1>1 DEF PageInv, AskedInv
<1>5. PreviewInv'
  BY <1>1, Zenon DEF PageInv, PreviewInv
<1>6. AnswerInv'
  BY <1>1, Zenon DEF PageInv, AnswerInv
<1> QED
  BY <1>2, <1>3, <1>4, <1>5, <1>6 DEF PageInv

LEMMA IsPage ==
  ASSUME NEW rows, NEW v
  PROVE  [rows |-> rows, v |-> v] # NoText
<1>1. PICK t : t = [rows |-> rows, v |-> v]
  OBVIOUS
<1>2. DOMAIN t = {"rows", "v"} /\ DOMAIN NoText = {"rows"}
  BY <1>1 DEF NoText
<1>3. "v" \in DOMAIN t /\ "v" \notin DOMAIN NoText
  BY <1>2
<1> QED
  BY <1>1, <1>3

\* A text page as it is drawn.
IsDrawn(t, rows, v) == t = [rows |-> rows, v |-> ViewText(v, rows)] /\ rows \in Nat /\ View(v)

LEMMA DrawnOK ==
  ASSUME NEW t, NEW rows, NEW v, IsDrawn(t, rows, v)
  PROVE  /\ t # NoText /\ t.rows = rows /\ t.v = ViewText(v, rows) /\ t.v.lines = v.lines
         /\ t.rows \in Nat /\ t = [rows |-> t.rows, v |-> t.v] /\ Drawn(t.v, t.rows)
<1>1. PICK w : w = ViewText(v, rows)
  OBVIOUS
<1>2. Drawn(w, rows) /\ w.lines = v.lines
  BY <1>1, ViewTextOK DEF IsDrawn
<1>3. t = [rows |-> rows, v |-> w] /\ rows \in Nat
  BY <1>1, Zenon DEF IsDrawn
<1>4. t.rows = rows /\ t.v = w
  BY <1>3
<1>5. t # NoText
  BY <1>3, IsPage
<1> QED
  BY <1>1, <1>2, <1>3, <1>4, <1>5, Zenon

\* A page that is opened is drawn, with the lines it was opened for.
LEMMA OpensOK ==
  ASSUME NEW lines, Len(lines) \in Nat, Opens(lines)
  PROVE  TextInv' /\ text' # NoText /\ text'.v.lines = lines
<1>1. PICK h \in Heights : text' = [rows |-> h, v |-> ViewText(NewTextView(lines), h)]
  BY DEF Opens
<1>2. Heights \subseteq Nat
  BY CatalogOK, Zenon
<1>3. PICK v : v = NewTextView(lines) /\ View(v) /\ v.lines = lines
  BY NewTextViewOK
<1>4. IsDrawn(text', h, v)
  BY <1>1, <1>2, <1>3, Zenon DEF IsDrawn
<1>5. /\ text' # NoText /\ text'.v.lines = v.lines /\ text'.rows \in Nat
      /\ text' = [rows |-> text'.rows, v |-> text'.v] /\ Drawn(text'.v, text'.rows)
  BY <1>4, DrawnOK
<1> QED
  BY <1>3, <1>5, Zenon DEF TextInv

\* A key of a text page leaves it drawn, with the same lines.
LEMMA TextStepOK ==
  ASSUME PageInv, NEW w, View(w), w.lines = text.v.lines, TextStep(w)
  PROVE  PageInv' /\ IsDrawn(text', text.rows, w)
<1>1. /\ text # NoText /\ text' = [text EXCEPT !.v = ViewText(w, text.rows)]
      /\ mode' = mode /\ editing' = editing /\ preview' = preview /\ asked' = asked /\ answer' = answer
  BY DEF TextStep, lineVars, typedVars
<1>2. text.rows \in Nat /\ text = [rows |-> text.rows, v |-> text.v]
  BY <1>1, Zenon DEF PageInv, TextInv
<1>3. text' = [rows |-> text.rows, v |-> ViewText(w, text.rows)]
  <2>1. PICK r, v, u : r = text.rows /\ v = text.v /\ u = ViewText(w, text.rows)
    OBVIOUS
  <2>2. text = [rows |-> r, v |-> v] /\ text' = [text EXCEPT !.v = u]
    BY <1>1, <1>2, <2>1, Zenon
  <2>3. text' = [rows |-> r, v |-> u]
    BY <2>2
  <2> QED
    BY <2>1, <2>3, Zenon
<1>4. IsDrawn(text', text.rows, w)
  BY <1>2, <1>3, Zenon DEF IsDrawn
<1>5. /\ text' # NoText /\ text'.v.lines = w.lines /\ text'.rows \in Nat
      /\ text' = [rows |-> text'.rows, v |-> text'.v] /\ Drawn(text'.v, text'.rows)
  BY <1>4, DrawnOK
<1>6. TextInv'
  BY <1>5, Zenon DEF TextInv
<1>7. TurnsInv'
  BY <1>1 DEF PageInv, TurnsInv
<1>8. AskedInv' /\ PreviewInv'
  BY <1>1, Zenon DEF PageInv, AskedInv, PreviewInv
<1>9. AnswerInv'
  <2>1. \A d, expr : Page(d, expr, text) => Page(d, expr, text')
    <3>1. text'.v.lines = text.v.lines
      BY <1>5, Zenon
    <3> QED
      BY <1>1, <1>5, <3>1, Zenon DEF Page
  <2> QED
    BY <1>1, <2>1, Zenon DEF PageInv, AnswerInv
<1> QED
  BY <1>4, <1>6, <1>7, <1>8, <1>9 DEF PageInv

\* A page that is looked at has all that View says.
LEMMA PageView ==
  ASSUME PageInv, text # NoText
  PROVE  text.rows \in Nat /\ View(text.v) /\ text.v.height \in Int /\ Drawn(text.v, text.rows)
<1>1. text.rows \in Nat /\ Drawn(text.v, text.rows)
  BY Zenon DEF PageInv, TextInv
<1>2. View(text.v)
  BY <1>1, Zenon DEF Drawn
<1> QED
  BY <1>1, <1>2, ViewParts

\* Every key of a text page, and another size.
LEMMA TextKeys ==
  ASSUME PageInv
  PROVE  /\ \A d \in {-1, 1} : TextScroll(d) \/ TextLine(d) \/ TextJump(d) => PageInv'
         /\ TextEnds => PageInv'
         /\ \A f : TextSearch(f) => PageInv'
         /\ \A h \in Heights : Resize(h) => PageInv'
<1>1. ASSUME NEW d \in {-1, 1}, TextScroll(d) PROVE PageInv'
  <2>1. text # NoText /\ TextStep(Scroll(text.v, d * text.v.height))
    BY <1>1 DEF TextScroll
  <2>2. View(text.v) /\ text.v.height \in Int
    BY <2>1, PageView
  <2>3. PICK h \in Int : h = text.v.height
    BY <2>2
  <2>4. d * h \in Int
    BY <2>3
  <2>5. PICK n \in Int : n = d * text.v.height
    BY <2>3, <2>4
  <2>6. PICK w : w = Scroll(text.v, n)
    OBVIOUS
  <2>7. View(w) /\ w.lines = text.v.lines
    BY <2>2, <2>6, ScrollOK
  <2>8. TextStep(w)
    BY <2>1, <2>5, <2>6, Zenon
  <2> QED
    BY <2>7, <2>8, TextStepOK
<1>2. ASSUME NEW d \in {-1, 1}, TextLine(d) PROVE PageInv'
  <2>1. PICK w : w = Scroll(text.v, d)
    OBVIOUS
  <2>2. text # NoText /\ TextStep(w)
    BY <1>2, <2>1 DEF TextLine
  <2>3. View(text.v) /\ d \in Int
    BY <2>2, PageView
  <2>4. View(w) /\ w.lines = text.v.lines
    BY <2>1, <2>3, ScrollOK
  <2> QED
    BY <2>2, <2>4, TextStepOK
<1>3. ASSUME NEW d \in {-1, 1}, TextJump(d) PROVE PageInv'
  <2>1. PICK w : w = JumpMatch(text.v, d)
    OBVIOUS
  <2>2. text # NoText /\ TextStep(w)
    BY <1>3, <2>1 DEF TextJump
  <2>3. View(text.v)
    BY <2>2, PageView
  <2>4. View(w) /\ w.lines = text.v.lines
    BY <2>1, <2>3, JumpOK
  <2> QED
    BY <2>2, <2>4, TextStepOK
<1>4. ASSUME TextEnds PROVE PageInv'
  <2>1. PICK w : w \in {GoHome(text.v), GoEnd(text.v)} /\ text # NoText /\ TextStep(w)
    BY <1>4, Zenon DEF TextEnds
  <2>2. View(text.v) /\ 0 \in Int
    BY <2>1, PageView
  <2>3. View(w) /\ w.lines = text.v.lines
    BY <2>1, <2>2, ScrollOK
  <2> QED
    BY <2>1, <2>3, TextStepOK
<1>5. ASSUME NEW f, TextSearch(f) PROVE PageInv'
  <2>1. PICK w : w = SetTextFilter(text.v, f)
    OBVIOUS
  <2>2. text # NoText /\ TextStep(w)
    BY <1>5, <2>1 DEF TextSearch
  <2>3. View(text.v)
    BY <2>2, PageView
  <2>4. View(w) /\ w.lines = text.v.lines
    BY <2>1, <2>3, SetTextFilterOK
  <2> QED
    BY <2>2, <2>4, TextStepOK
<1>6. ASSUME NEW h \in Heights, Resize(h) PROVE PageInv'
  <2>1. /\ text # NoText /\ text' = [rows |-> h, v |-> ViewText(text.v, h)]
        /\ mode' = mode /\ editing' = editing /\ preview' = preview /\ asked' = asked /\ answer' = answer
    BY <1>6 DEF Resize, lineVars, typedVars
  <2>2. Heights \subseteq Nat
    BY CatalogOK, Zenon
  <2>3. View(text.v)
    BY <2>1, PageView
  <2>4. IsDrawn(text', h, text.v)
    BY <2>1, <2>2, <2>3, Zenon DEF IsDrawn
  <2>5. /\ text' # NoText /\ text'.v.lines = text.v.lines /\ text'.rows \in Nat
        /\ text' = [rows |-> text'.rows, v |-> text'.v] /\ Drawn(text'.v, text'.rows)
    BY <2>4, DrawnOK
  <2>6. TextInv'
    BY <2>5, Zenon DEF TextInv
  <2>7. TurnsInv'
    BY <2>1 DEF PageInv, TurnsInv
  <2>8. AskedInv' /\ PreviewInv'
    BY <2>1, Zenon DEF PageInv, AskedInv, PreviewInv
  <2>9. AnswerInv'
    <3>1. \A e, expr : Page(e, expr, text) => Page(e, expr, text')
      BY <2>1, <2>5, Zenon DEF Page
    <3> QED
      BY <2>1, <3>1, Zenon DEF PageInv, AnswerInv
  <2> QED
    BY <2>6, <2>7, <2>8, <2>9 DEF PageInv
<1> QED
  BY <1>1, <1>2, <1>3, <1>4, <1>5, <1>6

-----------------------------------------------------------------------------
(* Enter, and what is answered *)

\* What Enter runs was typed, or is the name of a command.
LEMMA SelectedOK ==
  ASSUME NEW b \in Texts, NEW sel \in Nat
  PROVE  SelectedCommand(b, sel) \in Texts
<1>1. SelectedCommand(b, sel) = b \/ (~(sel >= Len(CommandMatches(b))) /\ SelectedCommand(b, sel) = CommandMatches(b)[sel + 1].name)
  BY Zenon DEF SelectedCommand
<1>2. ~(sel >= Len(CommandMatches(b))) => sel < Len(CommandMatches(b))
  BY HighlightedOK
<1> QED
  BY <1>1, <1>2, ListedNames

LEMMA EnterOK ==
  ASSUME Inv, Enter
  PROVE  Inv'
<1>1. /\ CanType /\ Closed /\ mode \in {"command", "filter"}
      /\ line' = line /\ keys' = keys /\ preview' = preview /\ answer' = answer /\ text' = text
  BY Zenon DEF Enter
<1>2. /\ ~editing /\ preview = NoPreview /\ asked = NotAsked /\ answer = NoAnswer
  BY <1>1 DEF CanType
<1>3. LineInv /\ PageInv /\ filter \in Texts /\ buf \in Texts /\ cmdSel \in Nat
  BY DEF Inv, LineInv, TypeInv, HighlightInv
<1>4. TextInv' /\ PreviewInv' /\ AnswerInv'
  <2>1. text = NoText
    BY <1>2, <1>3 DEF PageInv, TurnsInv
  <2> QED
    BY <1>1, <1>2, <2>1, Zenon DEF TextInv, PreviewInv, AnswerInv
<1>5. CASE mode = "filter"
  <2>1. mode' = "none" /\ filter' = filter /\ editing' = editing /\ asked' = asked
    BY <1>5, Zenon DEF Enter
  <2>2. LineInv'
    BY <1>1, <1>3, <2>1, ClosedOK
  <2>3. TurnsInv' /\ AskedInv'
    BY <1>1, <1>2, <1>3, <2>1 DEF PageInv, TurnsInv, AskedInv
  <2> QED
    BY <1>4, <2>2, <2>3 DEF Inv, PageInv
<1>6. CASE mode # "filter"
  <2>1. PICK w : w = SelectedCommand(buf, cmdSel)
    OBVIOUS
  <2>2. PICK r : r = RunCommand(w)
    OBVIOUS
  <2>3. w \in Texts
    BY <1>3, <2>1, SelectedOK
  <2>4. /\ mode' = IF r.verb = "quit" THEN "quit" ELSE "none"
        /\ filter' = IF r.verb = "navigate" THEN <<>> ELSE filter
        /\ editing' = (r.verb = "apply") /\ asked' = Lookup(r)
    BY <1>6, <2>1, <2>2, Zenon DEF Enter
  <2>5. Lookup(r) \in Lookups /\ (Lookup(r) # NotAsked => r.verb \in {"open resource", "explain"})
    BY <2>2, <2>3, LookupOK, Zenon
  <2>6. LineInv'
    <3>1. mode' \in {"none", "quit"} /\ filter' \in Texts
      BY <1>3, <2>4, NoTextIsTyped, Zenon
    <3> QED
      BY <1>1, <1>3, <3>1, ClosedOK
  <2>7. TurnsInv'
    <3>1. editing' \in BOOLEAN
      BY <2>4
    <3>2. editing' => asked' = NotAsked /\ mode' = "none"
      BY <2>4, <2>5, Zenon
    <3>3. asked' # NotAsked => mode' = "none"
      BY <2>4, <2>5, Zenon
    <3>4. preview' = NoPreview /\ answer' = NoAnswer /\ text' = NoText
      BY <1>1, <1>2, <1>3 DEF PageInv, TurnsInv
    <3> QED
      BY <3>1, <3>2, <3>3, <3>4, Zenon DEF TurnsInv
  <2>8. AskedInv'
    BY <2>4, <2>5, Zenon DEF AskedInv
  <2> QED
    BY <1>4, <2>6, <2>7, <2>8 DEF Inv, PageInv
<1> QED
  BY <1>5, <1>6

\* The editor ends with a stream, which is compared.
LEMMA EditorReturnsOK ==
  ASSUME Inv, EditorReturns
  PROVE  Inv'
<1>0. PICK data \in Streams : Previews(data)
  BY Zenon DEF EditorReturns
<1>1. PICK results : results = Diff(Documents(data))
  OBVIOUS
<1>2. /\ editing /\ editing' = FALSE /\ UNCHANGED typedVars /\ asked' = asked /\ answer' = answer
      /\ IF DiffHasContent(results)
         THEN preview' = [data |-> data, results |-> results] /\ Opens(RenderDiffResults(results))
         ELSE preview' = [data |-> data, results |-> <<>>] /\ text' = NoText
  BY <1>0, <1>1, Zenon DEF EditorReturns, Previews
<1>3. mode' = mode
  BY <1>2 DEF typedVars
<1>4. LineInv'
  BY <1>2, LineKept DEF Inv
<1>5. asked = NotAsked /\ answer = NoAnswer /\ mode = "none"
  BY <1>2 DEF Inv, PageInv, TurnsInv
<1>6. Stream(data)
  BY StreamTyped
<1>7. Len(results) \in Nat /\ \A k \in 1..Len(results) : results[k].diff \in Seq(Marked(YamlLines))
  <2>1. Len(results) \in Nat /\ \A k \in 1..Len(results) : Truthful(Manifests(data)[k], results[k])
    BY <1>1, <1>6, DiffOK DEF AllTruthful
  <2> QED
    BY <2>1, Zenon DEF Truthful
<1>8. PreviewInv'
  <2>1. Previewed(preview', data)
    BY <1>1, <1>2, Zenon DEF Previewed, Compared, Nothing
  <2> QED
    BY <2>1, Zenon DEF PreviewInv
<1>9. TextInv' /\ (preview' = NoPreview => text' = NoText)
  <2>1. CASE DiffHasContent(results)
    <3>1. preview' = [data |-> data, results |-> results] /\ Opens(RenderDiffResults(results))
      BY <1>2, <2>1
    <3>2. Len(RenderDiffResults(results)) \in Nat
      BY <1>7, RenderDiffOK
    <3>3. TextInv'
      BY <3>1, <3>2, OpensOK
    <3>4. results # <<>>
      <4>1. PICK k \in 1..Len(results) : TRUE
        BY <2>1 DEF DiffHasContent
      <4> QED
        BY <4>1
    <3>5. preview'.results = results /\ NoPreview.results = <<>>
      BY <3>1 DEF NoPreview
    <3> QED
      BY <3>3, <3>4, <3>5, Zenon
  <2>2. CASE ~DiffHasContent(results)
    <3>1. text' = NoText
      BY <1>2, <2>2
    <3> QED
      BY <3>1, Zenon DEF TextInv
  <2> QED
    BY <2>1, <2>2
<1>10. TurnsInv'
  BY <1>2, <1>5, <1>9, Zenon DEF TurnsInv
<1>11. AskedInv' /\ AnswerInv'
  BY <1>2, <1>5, Zenon DEF Inv, PageInv, AskedInv, AnswerInv
<1> QED
  BY <1>4, <1>8, <1>9, <1>10, <1>11 DEF Inv, PageInv

\* Every lookup has one kind of answer.
LEMMA AskedOK ==
  ASSUME AskedInv
  PROVE  /\ asked.verb = "open resource" => \E a \in Texts : asked = Opening(a)
         /\ asked.verb = "explain" => asked = Explaining
         /\ \A a : Opening(a).arg = a /\ Opening(a).verb = "open resource" /\ Opening(a) # NotAsked
         /\ Explaining # NotAsked /\ Explaining.verb = "explain"
<1>1. PICK opens : opens = "open resource"
  BY Zenon
<1>2. opens # "none" /\ opens # "explain"
  BY <1>1, Zenon
<1>3. \A a : Opening(a) = [verb |-> opens, arg |-> a]
  BY <1>1, Zenon DEF Opening
<1>4. \A a : Opening(a).arg = a /\ Opening(a).verb = opens
  BY <1>3
<1>5. NotAsked.verb = "none" /\ Explaining.verb = "explain"
  BY DEF NotAsked, Explaining
<1>6. asked = NotAsked \/ asked = Explaining \/ \E a \in Texts : asked = Opening(a)
  BY Zenon DEF AskedInv, Lookups
<1> QED
  BY <1>1, <1>2, <1>4, <1>5, <1>6, Zenon

\* Discovery answers.
LEMMA OpenAnswersOK ==
  ASSUME Inv, NEW d \in Discoveries, OpenAnswers(d)
  PROVE  Inv'
<1>1. /\ asked.verb = "open resource" /\ asked' = NotAsked
      /\ answer' = [to |-> asked, d |-> d, info |-> ResolveResource(d, asked.arg)]
      /\ filter' \in {filter, <<>>}
      /\ UNCHANGED <<line, mode, buf, cmdSel, suggest, suggestSel, keys, editing, preview, text>>
  BY Zenon DEF OpenAnswers
<1>2. LineInv /\ PageInv /\ AskedInv /\ TypeInv
  BY DEF Inv, PageInv, LineInv
<1>3. PICK a \in Texts : asked = Opening(a)
  BY <1>1, <1>2, AskedOK, Zenon
<1>4. asked # NotAsked /\ asked.arg = a
  BY <1>2, <1>3, AskedOK, Zenon
<1>5. preview = NoPreview /\ answer = NoAnswer /\ mode = "none" /\ ~editing /\ text = NoText
  BY <1>2, <1>4 DEF PageInv, TurnsInv
<1>6. answer' = Opened(d, a)
  BY <1>1, <1>3, <1>4, Zenon DEF Opened
<1>13. /\ filter' \in {filter, <<>>} /\ asked' = NotAsked
       /\ UNCHANGED <<line, mode, buf, cmdSel, suggest, suggestSel, keys, editing, preview, text>>
  BY <1>1, Zenon
<1>7. AnswerInv'
  BY <1>6, Zenon DEF AnswerInv
<1>8. TypeInv' /\ FilterFollowsLine'
  BY <1>2, <1>5, <1>13, NoTextIsTyped DEF TypeInv, FilterFollowsLine
<1>9. HighlightInv'
  BY <1>2, <1>13 DEF LineInv, HighlightInv, Matches
<1>10. SuggestInv'
  <2>1. mode' # "filter" /\ suggest' = suggest /\ suggestSel' = suggestSel
    BY <1>5, <1>13
  <2> QED
    BY <1>2, <2>1, Zenon DEF LineInv, SuggestInv
<1>11. TextInv' /\ PreviewInv' /\ AskedInv'
  BY <1>1, <1>2, Zenon DEF PageInv, TextInv, PreviewInv, AskedInv, Lookups
<1>12. TurnsInv'
  BY <1>2, <1>5, <1>13 DEF PageInv, TurnsInv
<1> QED
  BY <1>7, <1>8, <1>9, <1>10, <1>11, <1>12 DEF Inv, LineInv, PageInv

LEMMA ExplainAnswersOK ==
  ASSUME Inv, NEW d \in Discoveries, NEW expr \in Expressions, ExplainAnswers(d, expr)
  PROVE  Inv'
<1>1. PICK pages : pages = PagesFor(d, expr)
  OBVIOUS
<1>2. /\ asked.verb = "explain" /\ asked' = NotAsked /\ answer' = [to |-> asked, d |-> d, expr |-> expr]
      /\ IF pages = {} THEN filter' = filter /\ text' = text ELSE filter' = <<>> /\ \E l \in pages : Opens(l)
      /\ UNCHANGED <<line, mode, buf, cmdSel, suggest, suggestSel, keys, editing, preview>>
  BY <1>1, Zenon DEF ExplainAnswers, ShowsPage, PagesFor
<1>3. LineInv /\ PageInv /\ AskedInv /\ TypeInv
  BY DEF Inv, PageInv, LineInv
<1>4. asked = Explaining /\ asked # NotAsked
  BY <1>2, <1>3, AskedOK, Zenon
<1>5. preview = NoPreview /\ answer = NoAnswer /\ mode = "none" /\ ~editing /\ text = NoText
  BY <1>3, <1>4 DEF PageInv, TurnsInv
<1>6. answer' = Explained(d, expr)
  BY <1>2, <1>4, Zenon DEF Explained
<1>7. answer' # NoAnswer
  <2>1. answer'.to = Explaining /\ NoAnswer.to = NotAsked
    BY <1>6 DEF Explained, NoAnswer
  <2> QED
    BY <1>4, <2>1, Zenon
<1>8. filter' \in {filter, <<>>}
  BY <1>2, Zenon
<1>9. TextInv' /\ Page(d, expr, text')
  <2>1. CASE pages = {}
    BY <1>1, <1>2, <1>5, <2>1, Zenon DEF TextInv, Page
  <2>2. CASE pages # {}
    <3>1. PICK l \in pages : Opens(l)
      BY <1>2, <2>2
    <3>2. Len(l) \in Nat
      BY <1>1, <3>1, ExplainPages, Zenon DEF PagesFor
    <3>3. TextInv' /\ text' # NoText /\ text'.v.lines = l
      BY <3>1, <3>2, OpensOK
    <3> QED
      BY <1>1, <2>2, <3>3, Zenon DEF Page
  <2> QED
    BY <2>1, <2>2
<1>10. AnswerInv'
  BY <1>6, <1>9, Zenon DEF AnswerInv
<1>11. TypeInv' /\ FilterFollowsLine'
  BY <1>2, <1>3, <1>5, <1>8, NoTextIsTyped DEF TypeInv, FilterFollowsLine
<1>12. HighlightInv'
  BY <1>2, <1>3 DEF LineInv, HighlightInv, Matches
<1>13. SuggestInv'
  <2>1. mode' # "filter" /\ suggest' = suggest /\ suggestSel' = suggestSel
    BY <1>2, <1>5
  <2> QED
    BY <1>3, <2>1, Zenon DEF LineInv, SuggestInv
<1>14. PreviewInv' /\ AskedInv'
  BY <1>2, <1>3, Zenon DEF PageInv, PreviewInv, AskedInv, Lookups
<1>15. TurnsInv'
  <2>1. mode' = mode /\ editing' = editing /\ preview' = preview /\ asked' = NotAsked
    BY <1>2, Zenon
  <2>2. editing \in BOOLEAN
    BY <1>3 DEF PageInv, TurnsInv
  <2> QED
    BY <1>5, <1>7, <2>1, <2>2, Zenon DEF TurnsInv
<1> QED
  BY <1>9, <1>10, <1>11, <1>12, <1>13, <1>14, <1>15 DEF Inv, LineInv, PageInv

-----------------------------------------------------------------------------
(* The invariant holds *)

LEMMA InitInv ==
  ASSUME Init
  PROVE  Inv
<1>1. /\ line \in {"command", "filter"} /\ mode = "none" /\ buf = <<>> /\ cmdSel = 0
      /\ suggest = NoSuggest /\ suggestSel = -1 /\ filter = <<>> /\ keys = 0
      /\ editing = FALSE /\ preview = NoPreview /\ asked = NotAsked /\ answer = NoAnswer /\ text = NoText
  BY DEF Init
<1>2. TypeInv
  <2>1. MaxKeys[line] \in Nat
    BY <1>1, KeysBounded
  <2>2. keys \in 0..MaxKeys[line]
    BY <1>1, <2>1
  <2> QED
    BY <1>1, <2>2, NoTextIsTyped DEF TypeInv
<1>3. HighlightInv /\ FilterFollowsLine
  BY <1>1 DEF HighlightInv, FilterFollowsLine
<1>4. SuggestInv
  <2>1. NoSuggest.matches = <<>>
    BY DEF NoSuggest
  <2>2. suggestSel \in -1..(Len(suggest.matches) - 1) /\ mode # "filter"
    BY <1>1, <2>1
  <2> QED
    BY <1>1, <2>2, Zenon DEF SuggestInv, Offered
<1>5. TextInv /\ TurnsInv /\ PreviewInv /\ AnswerInv
  BY <1>1 DEF TextInv, TurnsInv, PreviewInv, AnswerInv
<1>6. AskedInv
  BY <1>1, Zenon DEF AskedInv, Lookups
<1> QED
  BY <1>2, <1>3, <1>4, <1>5, <1>6 DEF Inv, LineInv, PageInv

\* The keys that open a line, type into it, or close it.
LEMMA OpenKeysOK ==
  ASSUME Inv, OpenCommand \/ OpenFilter
  PROVE  Inv'
<1>1. LineInv /\ PageInv /\ TypeInv
  BY DEF Inv, LineInv
<1>2. keys < MaxKeys[line] => keys + 1 \in 0..MaxKeys[line]
  <2>1. MaxKeys[line] \in Nat /\ keys \in 0..MaxKeys[line]
    BY <1>1, KeysBounded DEF TypeInv
  <2> QED
    BY <2>1
<1>3. CASE OpenCommand
  <2>1. /\ CanType /\ keys < MaxKeys[line] /\ mode' = "command" /\ buf' = <<>> /\ cmdSel' = 0 /\ keys' = keys + 1
        /\ UNCHANGED <<line, suggest, suggestSel, filter>> /\ UNCHANGED <<editing, pageVars>>
    BY <1>3 DEF OpenCommand
  <2>2. PageInv'
    BY <1>1, <2>1, PageKept
  <2>3. TypeInv' /\ HighlightInv' /\ FilterFollowsLine'
    BY <1>1, <1>2, <2>1, NoTextIsTyped DEF TypeInv, HighlightInv, FilterFollowsLine
  <2>4. SuggestInv'
    BY <1>1, <2>1, Zenon DEF LineInv, SuggestInv
  <2> QED
    BY <2>2, <2>3, <2>4 DEF Inv, LineInv
<1>4. CASE OpenFilter
  <2>1. /\ CanType /\ mode = "none" /\ keys < MaxKeys[line] /\ mode' = "filter" /\ buf' = <<>> /\ keys' = keys + 1
        /\ Suggestions(<<>>) /\ UNCHANGED <<line, cmdSel, filter>> /\ UNCHANGED <<editing, pageVars>>
    BY <1>4 DEF OpenFilter
  <2>2. PageInv'
    BY <1>1, <2>1, PageKept
  <2>3. TypeInv' /\ HighlightInv' /\ FilterFollowsLine'
    BY <1>1, <1>2, <2>1, NoTextIsTyped DEF LineInv, TypeInv, HighlightInv, FilterFollowsLine
  <2>4. SuggestInv'
    BY <2>1, NoTextIsTyped, SuggestionsOK
  <2> QED
    BY <2>2, <2>3, <2>4 DEF Inv, LineInv
<1> QED
  BY <1>3, <1>4

LEMMA TypeKeyOK ==
  ASSUME Inv, NEW c \in CommandKeys \cup FilterKeys, Type(c)
  PROVE  Inv'
<1>1. LineInv /\ PageInv /\ TypeInv
  BY DEF Inv, LineInv
<1>2. MaxKeys[line] \in Nat /\ keys \in 0..MaxKeys[line] /\ buf \in Texts
  BY <1>1, KeysBounded DEF TypeInv
<1>3. /\ CanType /\ keys < MaxKeys[line] /\ Edited(Append(buf, c)) /\ keys' = keys + 1
      /\ line' = line /\ mode' = mode /\ UNCHANGED <<editing, pageVars>>
  BY DEF Type
<1>4. mode \in {"command", "filter"}
  <2>1. mode \notin {"command", "filter"} => c \in {}
    BY Zenon DEF Type
  <2> QED
    BY <2>1
<1>5. PICK b : b = Append(buf, c)
  OBVIOUS
<1>6. b \in Texts
  BY <1>2, <1>5 DEF Texts
<1>7. keys' \in 0..MaxKeys[line]
  BY <1>2, <1>3
<1>8. LineInv'
  BY <1>1, <1>3, <1>4, <1>5, <1>6, <1>7, EditedOK
<1>9. PageInv'
  BY <1>1, <1>3, PageKept
<1> QED
  BY <1>8, <1>9 DEF Inv

LEMMA BackspaceOK ==
  ASSUME Inv, Backspace
  PROVE  Inv'
<1>1. LineInv /\ PageInv /\ TypeInv
  BY DEF Inv, LineInv
<1>2. MaxKeys[line] \in Nat /\ keys \in 0..MaxKeys[line] /\ buf \in Texts
  BY <1>1, KeysBounded DEF TypeInv
<1>3. PICK b : b = IF buf = <<>> THEN buf ELSE Front(buf)
  OBVIOUS
<1>4. /\ CanType /\ mode \in {"command", "filter"} /\ Edited(b) /\ keys' = keys
      /\ line' = line /\ mode' = mode /\ UNCHANGED <<editing, pageVars>>
  BY <1>3 DEF Backspace
<1>5. b \in Texts
  <2>1. CASE buf = <<>>
    BY <1>2, <1>3, <2>1
  <2>2. CASE buf # <<>>
    <3>1. PICK V : V = CommandKeys \cup FilterKeys
      OBVIOUS
    <3>2. buf \in Seq(V) /\ Len(buf) - 1 \in Int /\ Len(buf) - 1 <= Len(buf)
      BY <1>2, <3>1 DEF Texts
    <3>3. SubSeq(buf, 1, Len(buf) - 1) \in Seq(V)
      BY <3>2, PartOK
    <3> QED
      BY <1>3, <2>2, <3>1, <3>3, Zenon DEF Front, Texts
  <2> QED
    BY <2>1, <2>2
<1>6. keys' \in 0..MaxKeys[line]
  BY <1>2, <1>4
<1>7. LineInv'
  BY <1>1, <1>4, <1>5, <1>6, EditedOK
<1>8. PageInv'
  BY <1>1, <1>4, PageKept
<1> QED
  BY <1>7, <1>8 DEF Inv

LEMMA LeavingOK ==
  ASSUME Inv, ClearFilter \/ Esc \/ PageArrives
  PROVE  Inv'
<1>1. LineInv /\ PageInv /\ TypeInv
  BY DEF Inv, LineInv
<1>2. CASE ClearFilter
  <2>1. /\ CanType /\ mode = "none" /\ filter' = <<>> /\ UNCHANGED <<line, mode, buf, cmdSel, suggest, suggestSel, keys>>
        /\ UNCHANGED <<editing, pageVars>>
    BY <1>2 DEF ClearFilter
  <2>2. PageInv'
    BY <1>1, <2>1, PageKept
  <2>3. TypeInv' /\ HighlightInv' /\ FilterFollowsLine'
    BY <1>1, <2>1, NoTextIsTyped DEF LineInv, TypeInv, HighlightInv, FilterFollowsLine, Matches
  <2>4. SuggestInv'
    BY <1>1, <2>1 DEF LineInv, SuggestInv
  <2> QED
    BY <2>2, <2>3, <2>4 DEF Inv, LineInv
<1>3. CASE Esc \/ PageArrives
  <2>1. /\ CanType /\ mode' = "none" /\ filter' \in {filter, <<>>} /\ Closed /\ line' = line /\ keys' = keys
        /\ UNCHANGED <<editing, pageVars>>
    BY <1>3 DEF Esc, PageArrives
  <2>2. filter' \in Texts
    BY <1>1, <2>1, NoTextIsTyped DEF TypeInv
  <2>3. LineInv'
    BY <1>1, <2>1, <2>2, ClosedOK
  <2>4. PageInv'
    BY <1>1, <2>1, PageKept
  <2> QED
    BY <2>3, <2>4 DEF Inv
<1> QED
  BY <1>2, <1>3

LEMMA HighlightKeysOK ==
  ASSUME Inv, NEW d \in {-1, 1}, PaletteTab \/ PaletteMove(d) \/ SelectSuggest(d)
  PROVE  Inv'
<1>1. LineInv'
  BY PaletteTabOK, PaletteMoveOK, SelectSuggestOK DEF Inv
<1>2. CanType /\ UNCHANGED <<editing, pageVars>>
  BY DEF PaletteTab, PaletteMove, SelectSuggest
<1>3. PageInv'
  BY <1>2, PageKept DEF Inv
<1> QED
  BY <1>1, <1>3 DEF Inv

\* What leaves the line alone.
LEMMA PageKeysOK ==
  ASSUME Inv,
         \/ \E d \in {-1, 1} : TextScroll(d) \/ TextLine(d) \/ TextJump(d)
         \/ TextEnds \/ (\E f \in Needles : TextSearch(f)) \/ (\E h \in Heights : Resize(h))
  PROVE  Inv'
<1>1. PageInv /\ LineInv
  BY DEF Inv
<1>2. UNCHANGED typedVars
  BY DEF TextScroll, TextLine, TextJump, TextEnds, TextSearch, Resize, TextStep, lineVars
<1>3. PageInv'
  BY <1>1, TextKeys, Zenon
<1>4. LineInv'
  BY <1>1, <1>2, LineKept
<1> QED
  BY <1>3, <1>4 DEF Inv

LEMMA PageEndsOK ==
  ASSUME Inv, EditorFails \/ ClosePreview \/ UNCHANGED vars
  PROVE  Inv'
<1>1. LineInv /\ PageInv
  BY DEF Inv
<1>2. UNCHANGED typedVars
  BY DEF EditorFails, ClosePreview, vars, lineVars, typedVars
<1>3. LineInv' /\ mode' = mode
  BY <1>1, <1>2, LineKept DEF typedVars
<1>4. CASE EditorFails
  <2>1. editing /\ editing' = FALSE /\ preview' = preview /\ asked' = asked /\ answer' = answer /\ text' = text
    BY <1>4 DEF EditorFails, pageVars
  <2>2. TextInv' /\ AskedInv' /\ PreviewInv' /\ AnswerInv'
    BY <1>1, <2>1, Zenon DEF PageInv, TextInv, AskedInv, PreviewInv, AnswerInv
  <2>3. TurnsInv'
    BY <1>1, <1>3, <2>1 DEF PageInv, TurnsInv
  <2> QED
    BY <1>3, <2>2, <2>3 DEF Inv, PageInv
<1>5. CASE ClosePreview
  <2>1. editing' = editing /\ preview' = NoPreview /\ asked' = asked /\ answer' = NoAnswer /\ text' = NoText
    BY <1>5 DEF ClosePreview
  <2>2. TextInv' /\ AskedInv' /\ PreviewInv' /\ AnswerInv'
    BY <1>1, <2>1, Zenon DEF PageInv, TextInv, AskedInv, PreviewInv, AnswerInv
  <2>3. TurnsInv'
    BY <1>1, <1>3, <2>1 DEF PageInv, TurnsInv
  <2> QED
    BY <1>3, <2>2, <2>3 DEF Inv, PageInv
<1>6. CASE UNCHANGED vars
  <2>1. UNCHANGED <<editing, pageVars>>
    BY <1>6 DEF vars, pageVars
  <2>2. PageInv'
    BY <1>1, <1>3, <2>1, PageKept
  <2> QED
    BY <1>3, <2>2 DEF Inv
<1> QED
  BY <1>4, <1>5, <1>6

LEMMA NextInv ==
  ASSUME Inv, [Next]_vars
  PROVE  Inv'
<1>1. CASE OpenCommand \/ OpenFilter
  BY <1>1, OpenKeysOK
<1>2. ASSUME NEW c \in CommandKeys \cup FilterKeys, Type(c) PROVE Inv'
  BY <1>2, TypeKeyOK
<1>3. CASE Backspace
  BY <1>3, BackspaceOK
<1>4. CASE ClearFilter \/ Esc \/ PageArrives
  BY <1>4, LeavingOK
<1>5. CASE Enter
  BY <1>5, EnterOK
<1>6. CASE PaletteTab
  <2>1. 1 \in {-1, 1}
    OBVIOUS
  <2> QED
    BY <1>6, <2>1, HighlightKeysOK
<1>7. ASSUME NEW d \in {-1, 1}, PaletteMove(d) \/ SelectSuggest(d) PROVE Inv'
  BY <1>7, HighlightKeysOK
<1>8. CASE EditorFails \/ ClosePreview \/ Ended \/ UNCHANGED vars
  <2>1. EditorFails \/ ClosePreview \/ UNCHANGED vars
    BY <1>8, Zenon DEF Ended
  <2> QED
    BY <2>1, PageEndsOK
<1>9. CASE EditorReturns
  BY <1>9, EditorReturnsOK
<1>10. ASSUME NEW d \in Discoveries, OpenAnswers(d) PROVE Inv'
  BY <1>10, OpenAnswersOK
<1>11. ASSUME NEW d \in Discoveries, NEW expr \in Expressions, ExplainAnswers(d, expr) PROVE Inv'
  BY <1>11, ExplainAnswersOK
<1>12. CASE \/ \E d \in {-1, 1} : TextScroll(d) \/ TextLine(d) \/ TextJump(d)
            \/ TextEnds \/ (\E f \in Needles : TextSearch(f)) \/ (\E h \in Heights : Resize(h))
  BY <1>12, PageKeysOK, Zenon
<1>13. CASE Next
  BY <1>1, <1>2, <1>3, <1>4, <1>5, <1>6, <1>7, <1>8, <1>9, <1>10, <1>11, <1>12, <1>13, Zenon DEF Next
<1> QED
  BY <1>8, <1>13, Zenon

LEMMA InvHolds ==
  Spec => []Inv
<1>1. Init => Inv
  BY InitInv
<1>2. Inv /\ [Next]_vars => Inv'
  BY NextInv
<1> QED
  BY <1>1, <1>2, PTL DEF Spec

-----------------------------------------------------------------------------
(* What is on screen follows the line *)

LEMMA InvScreen ==
  ASSUME Inv
  PROVE  ScreenFollowsLine
<1>1. TypeInv /\ HighlightInv /\ SuggestInv /\ FilterFollowsLine /\ TextInv /\ TurnsInv
  BY DEF Inv, LineInv, PageInv
<1>2. PICK n \in Nat : n = Len(Matches) /\ n <= Len(Catalog) /\ Len(Catalog) \in Nat \ {0}
  BY HighlightedOK DEF Matches
<1>3. cmdSel \in Nat /\ (cmdSel # 0 => cmdSel < n)
  BY <1>1, <1>2 DEF HighlightInv
<1>4. cmdSel \in 0..(Len(Catalog) - 1)
  BY <1>2, <1>3
<1>5. text # NoText => text.v.offset \in 0..MaxOffset(text.v)
  BY <1>1, Zenon DEF TextInv, Drawn
<1>6. TypeOK
  <2>1. /\ line \in {"command", "filter"} /\ mode \in {"none", "command", "filter", "quit"}
        /\ buf \in Texts /\ filter \in Texts /\ keys \in 0..MaxKeys[line] /\ editing \in BOOLEAN
    BY <1>1 DEF TypeInv, TurnsInv
  <2>2. /\ suggestSel \in -1..(Len(suggest.matches) - 1)
        /\ (mode = "filter" /\ suggestSel >= 0) => filter = suggest.prefix \o suggest.matches[suggestSel + 1]
    BY <1>1, Zenon DEF SuggestInv
  <2> QED
    BY <1>4, <1>5, <2>1, <2>2, Zenon DEF TypeOK
<1>7. HighlightShown
  <2>1. cmdSel = 0 \/ cmdSel < n
    BY <1>3
  <2>2. n > 0 => PaletteWindow(cmdSel, n)[1] <= cmdSel /\ cmdSel < PaletteWindow(cmdSel, n)[2]
    <3> SUFFICES ASSUME n > 0 PROVE PaletteWindow(cmdSel, n)[1] <= cmdSel /\ cmdSel < PaletteWindow(cmdSel, n)[2]
      OBVIOUS
    <3>1. n \in Nat \ {0} /\ cmdSel \in 0..(n - 1)
      BY <1>3
    <3> QED
      BY <3>1, PaletteWindowOK
  <2> QED
    BY <1>2, <2>1, <2>2, Zenon DEF HighlightShown
<1> QED
  BY <1>1, <1>6, <1>7 DEF ScreenFollowsLine

\* However keys, answers and other pages follow each other, the rows are those of the
\* text on the line, a highlighted suggestion is on it, and the palette's highlight is
\* listed and drawn (SetFilter, selectSuggest, renderPalette).
THEOREM LineIsShown == Spec => []ScreenFollowsLine
<1>1. Inv => ScreenFollowsLine
  BY InvScreen
<1> QED
  BY <1>1, InvHolds, PTL

-----------------------------------------------------------------------------
(* A key acts on what is shown *)

\* Only Enter runs something while commands are typed.
LEMMA EnterRuns ==
  ASSUME Inv, Next, mode = "command", ran' # ran
  PROVE  Enter
<1>1. ~editing /\ asked = NotAsked
  BY DEF Inv, PageInv, TurnsInv
<1>2. asked.verb \notin {"open resource", "explain"}
  <2>1. asked.verb = "none"
    BY <1>1 DEF NotAsked
  <2> QED
    BY <2>1, Zenon
<1>3. ~OpenCommand
  BY DEF OpenCommand
<1>4. ~EditorReturns
  BY <1>1, Zenon DEF EditorReturns
<1>5. ~\E d \in Discoveries : OpenAnswers(d) \/ \E expr \in Expressions : ExplainAnswers(d, expr)
  BY <1>2, Zenon DEF OpenAnswers, ExplainAnswers
<1>6. /\ ~OpenFilter /\ ~ClearFilter /\ ~Backspace /\ ~Esc /\ ~PaletteTab /\ ~PageArrives
      /\ \A c : ~Type(c)
      /\ \A d : ~PaletteMove(d) /\ ~SelectSuggest(d)
  BY DEF OpenFilter, ClearFilter, Backspace, Esc, PaletteTab, PageArrives, Type, PaletteMove, SelectSuggest
<1>7. \A w : ~TextStep(w)
  BY DEF TextStep, lineVars
<1>8. /\ ~TextEnds /\ \A d : ~TextScroll(d) /\ ~TextLine(d) /\ ~TextJump(d)
      /\ \A f : ~TextSearch(f)
  BY <1>7, Zenon DEF TextEnds, TextScroll, TextLine, TextJump, TextSearch
<1>9. /\ ~EditorFails /\ ~ClosePreview /\ ~Ended /\ \A h : ~Resize(h)
  BY DEF EditorFails, ClosePreview, Ended, Resize, lineVars, vars
<1> QED
  BY <1>3, <1>4, <1>5, <1>6, <1>8, <1>9, Zenon DEF Next

\* The buffer holds a space.
Spaced(b) == " " \in ToSet(b)

LEMMA StepRuns ==
  ASSUME Inv, Next
  PROVE  (Runs /\ " " \notin ToSet(buf) /\ Len(Matches) > 0) => ran'.word = Matches[cmdSel + 1].name
<1> SUFFICES ASSUME Runs, ~Spaced(buf), Len(Matches) > 0 PROVE ran'.word = Matches[cmdSel + 1].name
  BY Zenon DEF Spaced
<1>2. Enter /\ mode = "command"
  BY EnterRuns DEF Runs
<1>3. PICK n \in Nat : n = Len(Matches) /\ Matches = CommandMatches(buf)
  BY HighlightedOK DEF Matches
<1>4. cmdSel \in Nat /\ cmdSel < n /\ buf \in Texts
  BY <1>3 DEF Inv, LineInv, HighlightInv, TypeInv
<1>5. ~(cmdSel >= Len(CommandMatches(buf)))
  BY <1>3, <1>4
<1>6. PICK w : w = SelectedCommand(buf, cmdSel)
  OBVIOUS
<1>7. w = Matches[cmdSel + 1].name
  BY <1>3, <1>5, <1>6, Zenon DEF SelectedCommand, Spaced
<1>8. w \in Texts
  BY <1>4, <1>6, SelectedOK
<1>9. ran' = RunCommand(w)
  BY <1>2, <1>6, Zenon DEF Enter
<1>10. ran'.word = w
  BY <1>8, <1>9, LookupOK, Zenon
<1> QED
  BY <1>7, <1>10

LEMMA StepShows ==
  ASSUME Inv
  PROVE  ((\E d \in {-1, 1} : TextJump(d)) \/ (text # NoText /\ text.v.filter # "" /\ \E f \in Needles : TextSearch(f)))
         => MatchOnScreen(text'.v)
<1>1. PageInv
  BY DEF Inv
<1>2. ASSUME NEW w, NEW rows, View(w), Aimed(w), rows \in Nat, w.matched = <<>> \/ w.height = BodyHeight(w, rows),
             IsDrawn(text', rows, w)
      PROVE  MatchOnScreen(text'.v)
  <2>1. text'.v = ViewText(w, rows)
    BY <1>2, DrawnOK
  <2>2. CASE w.height = BodyHeight(w, rows)
    <3>1. MatchOnScreen(ViewText(w, rows))
      BY <1>2, <2>2, AimedShows
    <3> QED
      BY <2>1, <3>1, Zenon
  <2>3. CASE w.matched = <<>>
    <3>1. text'.v.matched = <<>>
      BY <1>2, <2>1, <2>3, ViewTextOK
    <3> QED
      BY <3>1, Zenon DEF MatchOnScreen
  <2> QED
    BY <1>2, <2>2, <2>3
<1>3. ASSUME NEW d \in {-1, 1}, TextJump(d) PROVE MatchOnScreen(text'.v)
  <2>1. PICK w : w = JumpMatch(text.v, d)
    OBVIOUS
  <2>2. text # NoText /\ TextStep(w)
    BY <1>3, <2>1 DEF TextJump
  <2>3. text.rows \in Nat /\ View(text.v) /\ text.v.height = BodyHeight(text.v, text.rows)
    BY <1>1, <2>2, PageView, Zenon DEF Drawn
  <2>4. View(w) /\ w.filter = text.v.filter /\ w.height = text.v.height /\ Aimed(w) /\ w.lines = text.v.lines
    BY <2>1, <2>3, JumpOK
  <2>5. w.height = BodyHeight(w, text.rows)
    BY <2>3, <2>4, Zenon DEF BodyHeight
  <2>6. IsDrawn(text', text.rows, w)
    BY <1>1, <2>2, <2>4, TextStepOK
  <2> QED
    BY <1>2, <2>3, <2>4, <2>5, <2>6
<1>4. ASSUME text # NoText, text.v.filter # NoSearch, NEW f \in Needles, TextSearch(f) PROVE MatchOnScreen(text'.v)
  <2>1. PICK w : w = SetTextFilter(text.v, f)
    OBVIOUS
  <2>2. TextStep(w)
    BY <1>4, <2>1 DEF TextSearch
  <2>3. text.rows \in Nat /\ View(text.v) /\ text.v.height = BodyHeight(text.v, text.rows)
    BY <1>1, <1>4, PageView, Zenon DEF Drawn
  <2>4. View(w) /\ Aimed(w) /\ w.filter = f /\ w.height = text.v.height /\ w.lines = text.v.lines
    BY <2>1, <2>3, SetTextFilterOK
  <2>5. w.matched = <<>> \/ w.height = BodyHeight(w, text.rows)
    <3>1. CASE f = NoSearch
      BY <2>4, <3>1, Zenon DEF View
    <3>2. CASE f # NoSearch
      <4>1. BodyHeight(w, text.rows) = BodyHeight(text.v, text.rows)
        BY <1>4, <2>4, <3>2, Zenon DEF BodyHeight, NoSearch
      <4> QED
        BY <2>3, <2>4, <4>1, Zenon
    <3> QED
      BY <3>1, <3>2
  <2>6. IsDrawn(text', text.rows, w)
    BY <1>1, <2>2, <2>4, TextStepOK
  <2> QED
    BY <1>2, <2>3, <2>4, <2>5, <2>6
<1> QED
  BY <1>3, <1>4, Zenon DEF NoSearch

\* Enter on a word runs the command that is highlighted, whatever has changed the list
\* since it was drawn, and n, N and every further key of a search put the match they
\* are on into the window (selectedCommand, jumpMatch, SetFilter of textview.go).
THEOREM KeysActOnTheScreen == Spec => KeysAct
<1>1. Inv /\ [Next]_vars =>
        [(Runs /\ " " \notin ToSet(buf) /\ Len(Matches) > 0) => ran'.word = Matches[cmdSel + 1].name]_vars
  BY StepRuns, Zenon
<1>2. Inv /\ [Next]_vars =>
        [((\E d \in {-1, 1} : TextJump(d)) \/ (text # NoText /\ text.v.filter # "" /\ \E f \in Needles : TextSearch(f)))
         => MatchOnScreen(text'.v)]_vars
  BY StepShows, Zenon
<1>3. Spec => RunsTheHighlighted
  BY <1>1, InvHolds, PTL DEF Spec, RunsTheHighlighted
<1>4. Spec => SearchShows
  BY <1>2, InvHolds, PTL DEF Spec, SearchShows
<1> QED
  BY <1>3, <1>4 DEF KeysAct

-----------------------------------------------------------------------------
(* The preview can be trusted *)

LEMMA InvPreview ==
  ASSUME Inv
  PROVE  PreviewTrue
<1>1. preview = NoPreview \/ \E data \in Streams : Previewed(preview, data)
  BY Zenon DEF Inv, PageInv, PreviewInv
<1>2. NoPreview.results = <<>>
  BY DEF NoPreview
<1>3. ASSUME NEW data \in Streams, Previewed(preview, data), NEW results, results = Diff(Documents(data)),
             NEW m, m = Manifests(data)
      PROVE  /\ preview.data = data
             /\ Len(results) \in Nat /\ Len(results) = Len(m) /\ results = [k \in 1..Len(results) |-> results[k]]
             /\ \A k \in 1..Len(m) : Truthful(m[k], results[k])
             /\ IF DiffHasContent(results) THEN preview.results = results ELSE preview.results = <<>>
  <2>1. Stream(data)
    BY StreamTyped
  <2>2. /\ Len(results) \in Nat /\ Len(results) = Len(m) /\ results = [k \in 1..Len(results) |-> results[k]]
        /\ \A k \in 1..Len(results) : Truthful(m[k], results[k])
    <3>1. AllTruthful(m, results)
      BY <1>3, <2>1, DiffOK, Zenon
    <3> QED
      BY <3>1, Zenon DEF AllTruthful
  <2>3. Compared(data).data = data /\ Compared(data).results = results
    BY <1>3 DEF Compared
  <2>4. Nothing(data).data = data /\ Nothing(data).results = <<>>
    BY DEF Nothing
  <2>5. /\ preview.data = data
        /\ IF DiffHasContent(results) THEN preview.results = results ELSE preview.results = <<>>
    BY <1>3, <2>3, <2>4, Zenon DEF Previewed
  <2> QED
    BY <2>2, <2>5, Zenon
<1>4. PreviewRebuilds
  <2> SUFFICES ASSUME preview.results # <<>>
               PROVE  /\ Len(preview.results) = Len(Manifests(preview.data))
                      /\ \A k \in 1..Len(preview.results) :
                           LET doc == Manifests(preview.data)[k]
                               diff == preview.results[k].diff
                           IN /\ preview.results[k].err <=> doc.fails # "none"
                              /\ doc.fails = "none" =>
                                   \/ diff = <<>> /\ ~doc.isNew /\ doc.live = doc.proposed
                                   \/ Side(diff, "-") = doc.live /\ Side(diff, "+") = doc.proposed
    BY Zenon DEF PreviewRebuilds
  <2>1. PICK data \in Streams : Previewed(preview, data)
    BY <1>1, <1>2, Zenon
  <2>2. PICK m, r : m = Manifests(data) /\ r = Diff(Documents(data))
    BY Zenon
  <2>3. preview.data = data /\ preview.results = r /\ Len(r) = Len(m) /\ \A k \in 1..Len(r) : Truthful(m[k], r[k])
    BY <1>3, <2>1, <2>2, Zenon
  <2> QED
    BY <2>2, <2>3, Zenon DEF Truthful
<1>5. NoChangeIsTrue
  <2> SUFFICES ASSUME preview # NoPreview, preview.results = <<>>, NEW k \in 1..Len(Manifests(preview.data))
               PROVE  Unchanged(Manifests(preview.data)[k])
    BY Zenon DEF NoChangeIsTrue, Unchanged
  <2>1. PICK data \in Streams : Previewed(preview, data)
    BY <1>1, Zenon
  <2>2. PICK m, r : m = Manifests(data) /\ r = Diff(Documents(data))
    BY Zenon
  <2>3. /\ preview.data = data /\ Len(r) \in Nat /\ Len(r) = Len(m)
        /\ \A n \in 1..Len(m) : Truthful(m[n], r[n])
        /\ IF DiffHasContent(r) THEN preview.results = r ELSE preview.results = <<>>
    BY <1>3, <2>1, <2>2, Zenon
  <2>4. k \in 1..Len(m) /\ k \in 1..Len(r)
    BY <2>2, <2>3, Zenon
  <2>5. CASE DiffHasContent(r)
    <3>1. r = <<>>
      BY <2>3, <2>5, Zenon
    <3> QED
      BY <2>4, <3>1
  <2>6. CASE ~DiffHasContent(r)
    <3>1. ~r[k].err /\ r[k].diff = <<>>
      BY <2>4, <2>6, Zenon DEF DiffHasContent
    <3>2. Unchanged(m[k])
      BY <2>3, <2>4, <3>1, Zenon DEF Truthful
    <3> QED
      BY <2>2, <2>3, <3>2, Zenon
  <2> QED
    BY <2>5, <2>6
<1> QED
  BY <1>4, <1>5 DEF PreviewTrue

\* Whatever stream the editor of :apply leaves, the preview has an entry per manifest,
\* each entry rebuilds the live and the proposed object, and "no changes to apply" is
\* said only of streams that change nothing (SplitDocuments, unifiedDiff, diffHasContent).
THEOREM PreviewIsTrue == Spec => []PreviewTrue
<1>1. Inv => PreviewTrue
  BY InvPreview
<1> QED
  BY <1>1, InvHolds, PTL

-----------------------------------------------------------------------------
(* Words that discovery resolves *)

\* Where the group of a word begins.
Dot(s) == SelectInSeq(s, LAMBDA c : c = ".")

LEMMA DotOK ==
  ASSUME NEW V, NEW s \in Seq(V)
  PROVE  Dot(s) \in 0..Len(s) /\ (Dot(s) = 0 <=> "." \notin ToSet(s))
<1> DEFINE I == {k \in 1..Len(s) : s[k] = "."}
<1>1. Len(s) \in Nat /\ DOMAIN s = 1..Len(s)
  OBVIOUS
<1>3. Dot(s) = IF I # {} THEN CHOOSE x \in I : \A y \in I : x =< y ELSE 0
  BY Zenon DEF Dot, SelectInSeq, Min
<1>4. I \subseteq 1..Len(s) /\ I \subseteq Nat
  BY <1>1
<1>5. "." \in ToSet(s) <=> I # {}
  BY <1>1, Zenon DEF ToSet
<1> HIDE DEF I
<1>6. CASE I = {}
  <2>1. Dot(s) = 0
    BY <1>3, <1>6, Zenon
  <2> QED
    BY <1>1, <1>5, <1>6, <2>1
<1>7. CASE I # {}
  <2>1. \E x \in I : \A y \in I : x <= y
    BY <1>4, <1>7, LeastElement
  <2>2. Dot(s) \in I
    BY <1>3, <1>7, <2>1, Zenon
  <2>3. Dot(s) \in 1..Len(s)
    BY <1>4, <2>2
  <2> QED
    BY <1>1, <1>5, <1>7, <2>3
<1> QED
  BY <1>6, <1>7

\* What one answer of discovery serves.
List == [ok : BOOLEAN, group : Seq(STRING), version : STRING, resources : Seq(Resources)]
Lists == Seq(List)
ServedResources == [r : Resources, group : Seq(STRING), version : STRING]

LEMMA ServedOK ==
  ASSUME NEW lists \in Lists
  PROVE  Served(lists) \in Seq(ServedResources) /\ (lists = <<>> => Served(lists) = <<>>)
<1>1. PICK n \in Nat : n = Len(lists)
  BY DEF Lists
<1> DEFINE One(l) == IF ~l.ok THEN <<>>
                     ELSE [k \in 1..Len(l.resources) |-> [r |-> l.resources[k], group |-> l.group, version |-> l.version]]
           ss == [k \in 1..n |-> One(lists[k])]
<1>2. Served(lists) = Flatten(ss)
  BY <1>1, Zenon DEF Served
<1>3. ASSUME NEW k \in 1..n PROVE One(lists[k]) \in Seq(ServedResources)
  <2>1. PICK l : l = lists[k]
    OBVIOUS
  <2>2. l \in List
    BY <1>1, <2>1 DEF Lists
  <2>3. PICK rs, g, v : rs = l.resources /\ g = l.group /\ v = l.version
    OBVIOUS
  <2>4. rs \in Seq(Resources) /\ g \in Seq(STRING) /\ v \in STRING
    BY <2>2, <2>3 DEF List
  <2>5. ASSUME NEW i \in 1..Len(rs) PROVE [r |-> rs[i], group |-> g, version |-> v] \in ServedResources
    <3>1. rs[i] \in Resources
      BY <2>4
    <3> QED
      BY <2>4, <3>1 DEF ServedResources
  <2>6. [i \in 1..Len(rs) |-> [r |-> rs[i], group |-> g, version |-> v]] \in Seq(ServedResources)
    BY <2>4, <2>5
  <2>7. <<>> \in Seq(ServedResources)
    OBVIOUS
  <2> QED
    BY <2>1, <2>3, <2>6, <2>7, Zenon
<1>4. ss \in Seq(Seq(ServedResources))
  <2> HIDE DEF One
  <2> QED
    BY <1>3
<1>5. Served(lists) \in Seq(ServedResources)
  <2> HIDE DEF ss
  <2>1. Flatten(ss) \in Seq(ServedResources)
    BY <1>4, FlattenOK
  <2> QED
    BY <1>2, <2>1, Zenon
<1>6. ASSUME lists = <<>> PROVE Served(lists) = <<>>
  <2>1. n = 0
    BY <1>1, <1>6
  <2>2. ss \in Seq(Seq({}))
    <3> HIDE DEF One
    <3>1. ss = <<>>
      BY <2>1
    <3> QED
      BY <3>1
  <2>3. PICK f : f = Flatten(ss) /\ f \in Seq({})
    <3> HIDE DEF ss
    <3> QED
      BY <2>2, FlattenOK
  <2>4. f = <<>>
    BY <2>3
  <2> QED
    BY <1>2, <2>3, <2>4, Zenon
<1> QED
  BY <1>5, <1>6

LEMMA Discovered ==
  ASSUME NEW d \in Discoveries
  PROVE  d.lists \in Lists /\ (Unusable(d) => d.lists = <<>>)
<1>1. d \in [err : BOOLEAN, lists : Lists]
  BY DiscoveriesOK, Zenon DEF Lists, List
<1>2. d.lists \in Lists
  BY <1>1
<1> QED
  BY <1>2, Zenon DEF Unusable

\* The first of what fits answers for all of it.
AnswersFor(info, named) == IF named = {} THEN info = <<>> ELSE info # <<>> /\ ToSet(info) \subseteq named

LEMMA FirstAnswers ==
  ASSUME NEW V, NEW all \in Seq(V), NEW S, S \subseteq 1..Len(all), NEW named, named = {all[k] : k \in S}
  PROVE  AnswersFor(FirstOf(all, S), named)
<1>1. CASE S = {}
  <2>1. FirstOf(all, S) = <<>>
    BY <1>1, FirstOfOK
  <2>2. named = {}
    BY <1>1
  <2> QED
    BY <2>1, <2>2 DEF AnswersFor
<1>2. CASE S # {}
  <2>1. PICK i \in S : FirstOf(all, S) = <<all[i]>>
    BY <1>2, FirstOfOK
  <2>2. all[i] \in named
    OBVIOUS
  <2>3. PICK x : x = all[i]
    OBVIOUS
  <2>4. PICK f : f = <<x>>
    OBVIOUS
  <2>5. f # <<>> /\ ToSet(f) = {x}
    BY <2>4 DEF ToSet
  <2> QED
    BY <2>1, <2>2, <2>3, <2>4, <2>5, Zenon DEF AnswersFor
<1> QED
  BY <1>1, <1>2

\* What a lookup names, in what is served.
Named(l, lists) ==
  {x \in ToSet(Served(lists)) : x.r.name = Word(l) /\ ("." \in ToSet(l.arg) => x.group = Group(l))}

LEMMA ResolveOK ==
  ASSUME NEW V, NEW l, l.arg \in Seq(V), NEW d \in Discoveries
  PROVE  AnswersFor(ResolveResource(d, l.arg), Named(l, d.lists))
<1>1. PICK a \in Seq(V) : a = l.arg
  OBVIOUS
<1>2. PICK dot : dot = Dot(a) /\ dot \in 0..Len(a) /\ (dot = 0 <=> "." \notin ToSet(a))
  BY DotOK
<1>3. PICK all \in Seq(ServedResources) : all = Served(d.lists) /\ (d.lists = <<>> => all = <<>>)
  BY Discovered, ServedOK
<1>4. DOMAIN all = 1..Len(all)
  OBVIOUS
<1>5. Word(l) = IF dot = 0 THEN a ELSE SubSeq(a, 1, dot - 1)
  BY <1>1, <1>2, Zenon DEF Word, Dot
<1>6. Group(l) = SubSeq(a, Len(Word(l)) + 2, Len(a))
  BY <1>1, Zenon DEF Group
<1>7. ResolveResource(d, a) =
        IF Unusable(d) THEN <<>>
        ELSE IF dot = 0 THEN FindResourceAny(d.lists, a)
        ELSE FindResource(d.lists, SubSeq(a, 1, dot - 1), SubSeq(a, dot + 1, Len(a)))
  BY <1>2, Zenon DEF ResolveResource, Dot
<1>8. CASE Unusable(d)
  <2>1. all = <<>> /\ ToSet(all) = {}
    BY <1>3, <1>8, Discovered DEF ToSet
  <2>2. Named(l, d.lists) = {}
    BY <1>3, <2>1, Zenon DEF Named
  <2> QED
    BY <1>1, <1>7, <1>8, <2>2, Zenon DEF AnswersFor
<1>9. CASE ~Unusable(d) /\ dot = 0
  <2>1. PICK S : S = {k \in 1..Len(all) : all[k].r.name = a}
    OBVIOUS
  <2>2. ResolveResource(d, a) = FirstOf(all, S)
    BY <1>3, <1>7, <1>9, <2>1, Zenon DEF FindResourceAny
  <2>3. Named(l, d.lists) = {x \in ToSet(all) : x.r.name = a}
    BY <1>1, <1>2, <1>3, <1>5, <1>9, Zenon DEF Named
  <2>4. {x \in ToSet(all) : x.r.name = a} = {all[k] : k \in S}
    BY <1>4, <2>1, Zenon DEF ToSet
  <2>5. S \subseteq 1..Len(all)
    BY <2>1
  <2> QED
    BY <1>1, <2>2, <2>3, <2>4, <2>5, FirstAnswers, Zenon
<1>10. CASE ~Unusable(d) /\ dot # 0
  <2>1. PICK w, g : w = SubSeq(a, 1, dot - 1) /\ g = SubSeq(a, dot + 1, Len(a))
    OBVIOUS
  <2>2. Len(w) + 2 = dot + 1
    <3>1. PICK m \in Nat : m = dot - 1 /\ m <= Len(a)
      BY <1>2, <1>10
    <3>2. Len(SubSeq(a, 1, m)) = m
      BY <3>1
    <3>3. Len(w) = m
      BY <2>1, <3>1, <3>2, Zenon
    <3> QED
      BY <1>2, <3>1, <3>3
  <2>3. Word(l) = w /\ Group(l) = g
    BY <1>5, <1>6, <1>10, <2>1, <2>2, Zenon
  <2>4. PICK S : S = {k \in 1..Len(all) : all[k].r.name = w /\ all[k].group = g}
    OBVIOUS
  <2>5. ResolveResource(d, a) = FirstOf(all, S)
    BY <1>3, <1>7, <1>10, <2>1, <2>4, Zenon DEF FindResource
  <2>6. Named(l, d.lists) = {x \in ToSet(all) : x.r.name = w /\ x.group = g}
    BY <1>1, <1>2, <1>3, <1>10, <2>3, Zenon DEF Named
  <2>7. {x \in ToSet(all) : x.r.name = w /\ x.group = g} = {all[k] : k \in S}
    BY <1>4, <2>4, Zenon DEF ToSet
  <2>8. S \subseteq 1..Len(all)
    BY <2>4
  <2> QED
    BY <1>1, <2>5, <2>6, <2>7, <2>8, FirstAnswers, Zenon
<1> QED
  BY <1>8, <1>9, <1>10

LEMMA InvFound ==
  ASSUME Inv
  PROVE  FoundIfServed
<1>1. PICK opens : opens = "open resource"
  BY Zenon
<1>12. opens # "explain"
  BY <1>1, Zenon
<1> SUFFICES ASSUME answer # NoAnswer, answer.to.verb = opens
             PROVE  AnswersFor(answer.info, Named(answer.to, answer.d.lists))
  BY <1>1, Zenon DEF FoundIfServed, AnswersFor, Named
<1>2. \A d, a : Opened(d, a).to = Opening(a) /\ Opened(d, a).d = d /\ Opened(d, a).info = ResolveResource(d, a)
  BY DEF Opened
<1>3. \A d, expr : Explained(d, expr).to = Explaining
  BY DEF Explained
<1>4. AskedInv /\ AnswerInv
  BY DEF Inv, PageInv
<1>5. (\A a : Opening(a).arg = a) /\ Explaining.verb = "explain"
  BY <1>4, AskedOK, Zenon
<1>11. ASSUME NEW d, NEW expr PROVE answer # Explained(d, expr)
  <2> SUFFICES ASSUME answer = Explained(d, expr) PROVE FALSE
    OBVIOUS
  <2>1. answer.to = Explaining
    BY <1>3, Zenon
  <2> QED
    BY <1>5, <1>12, <2>1, Zenon
<1>6. PICK d \in Discoveries, a \in Texts : answer = Opened(d, a)
  BY <1>4, <1>11, Zenon DEF AnswerInv
<1>13. answer.to = Opening(a) /\ answer.d = d /\ answer.info = ResolveResource(d, a)
  BY <1>2, <1>6, Zenon
<1>14. answer.to.arg = a
  BY <1>5, <1>13, Zenon
<1>7. PICK l : l = answer.to /\ l.arg \in Texts /\ answer.d = d /\ answer.info = ResolveResource(d, l.arg)
  BY <1>13, <1>14, Zenon
<1>9. PICK V : Texts = Seq(V)
  BY Zenon DEF Texts
<1>10. AnswersFor(ResolveResource(d, l.arg), Named(l, d.lists))
  BY <1>7, <1>9, ResolveOK, Zenon
<1> QED
  BY <1>7, <1>10, Zenon

-----------------------------------------------------------------------------
(* Walking a document *)

LEMMA Published ==
  ASSUME NEW t \in DOMAIN Types
  PROVE  /\ Types[t].k \in {"string", "object", "array", "map"}
         /\ Types[t].k \in {"array", "map"} => Types[t].of \in DOMAIN Types
         /\ Types[t].k = "object" => \A f \in DOMAIN Types[t].fields :
              Types[t].fields[f] \in DOMAIN Types /\ f \in {FieldOrder[k] : k \in 1..Len(FieldOrder)}
         /\ Inside(Element(t)) = Element(t)
BY TypesOK, Zenon

\* The nodes, by the places they are at.
LEMMA NodeOK ==
  /\ \A t : Node(At(t)) = Publish(Types[t])
  /\ \A t : Node(<<"ref", t>>) = [ref |-> t]
  /\ \A t : Node(<<"allOf", t>>) = [allOf |-> << <<"ref", t>> >>]
  /\ \A t, u : At(t) = At(u) => t = u
BY DEF Node, At

\* The keys that a published type has.
LEMMA KeysOK ==
  ASSUME NEW t \in DOMAIN Types, NEW node, node = Publish(Types[t])
  PROVE  /\ ~Has(node, "ref") /\ ~Has(node, "allOf") /\ Has(node, "type")
         /\ Has(node, "items") <=> Types[t].k = "array"
         /\ Has(node, "additional") <=> Types[t].k = "map"
         /\ Has(node, "properties") <=> Types[t].k = "object"
         /\ node.type = "array" <=> Types[t].k = "array"
         /\ Types[t].k = "array" => node.items = FieldPlace(Types[t].of)
         /\ Types[t].k = "map" => node.additional = ValuePlace(Types[t].of)
         /\ Types[t].k = "object" => /\ DOMAIN node.properties = DOMAIN Types[t].fields
                                     /\ \A f \in DOMAIN Types[t].fields : node.properties[f] = FieldPlace(Types[t].fields[f])
<1>1. CASE Types[t].k = "string"
  <2>1. node = [type |-> "string"]
    BY <1>1, Zenon DEF Publish
  <2> QED
    BY <1>1, <2>1 DEF Has
<1>2. CASE Types[t].k = "array"
  <2>1. PICK below : below = FieldPlace(Types[t].of)
    OBVIOUS
  <2>2. node = [type |-> "array", items |-> below]
    BY <1>2, <2>1, Zenon DEF Publish
  <2>3. DOMAIN node = {"type", "items"} /\ node.type = "array" /\ node.items = below
    BY <2>2
  <2> QED
    BY <1>2, <2>1, <2>3, Zenon DEF Has
<1>3. CASE Types[t].k = "map"
  <2>1. PICK below : below = ValuePlace(Types[t].of)
    OBVIOUS
  <2>2. node = [type |-> "object", additional |-> below]
    BY <1>3, <2>1, Zenon DEF Publish
  <2>3. DOMAIN node = {"type", "additional"} /\ node.type = "object" /\ node.additional = below
    BY <2>2
  <2> QED
    BY <1>3, <2>1, <2>3, Zenon DEF Has
<1>4. CASE Types[t].k = "object"
  <2>1. PICK fields, below : fields = Types[t].fields /\ below = [f \in DOMAIN fields |-> FieldPlace(fields[f])]
    OBVIOUS
  <2>2. node = [type |-> "object", properties |-> below]
    BY <1>4, <2>1, Zenon DEF Publish
  <2>3. DOMAIN node = {"type", "properties"} /\ node.type = "object" /\ node.properties = below
    BY <2>2
  <2>4. DOMAIN below = DOMAIN fields /\ \A f \in DOMAIN fields : below[f] = FieldPlace(fields[f])
    BY <2>1, Zenon
  <2> QED
    BY <1>4, <2>1, <2>3, <2>4, Zenon DEF Has
<1> QED
  BY <1>1, <1>2, <1>3, <1>4, Published, Zenon

LEMMA TypeStringOK ==
  ASSUME NEW node, Has(node, "type")
  PROVE  TypeString(node) = node.type
BY Zenon DEF TypeString

\* References lead to the schemas they name.
LEMMA ResolvedOK ==
  ASSUME NEW t \in DOMAIN Types
  PROVE  ResolveRef(At(t)) = At(t) /\ ResolveRef(ValuePlace(t)) = At(t) /\ ResolveRef(FieldPlace(t)) = At(t)
<1>1. ResolveRef(At(t)) = At(t)
  <2>1. ~Has(Node(At(t)), "ref") /\ ~Has(Node(At(t)), "allOf")
    BY NodeOK, KeysOK, Zenon
  <2> QED
    BY <2>1, Zenon DEF ResolveRef
<1>2. ASSUME t \in Schemas, NEW p, p = <<"ref", t>>
      PROVE  Target(p) = At(t) /\ Has(Node(p), "ref") /\ ResolveRef(p) = At(t)
  <2>1. Node(p) = [ref |-> t]
    BY <1>2, NodeOK, Zenon
  <2>2. Has(Node(p), "ref") /\ Node(p).ref = t
    BY <2>1 DEF Has
  <2>3. Target(p) = At(t)
    BY <1>2, <2>2, Zenon DEF Target
  <2> QED
    BY <2>2, <2>3, Zenon DEF ResolveRef
<1>3. ASSUME t \in Schemas, NEW p, p = <<"allOf", t>>
      PROVE  ResolveRef(p) = At(t)
  <2>1. PICK r, all : r = <<"ref", t>> /\ all = <<r>>
    OBVIOUS
  <2>2. Node(p) = [allOf |-> all]
    BY <1>3, <2>1, NodeOK, Zenon
  <2>3. ~Has(Node(p), "ref") /\ Has(Node(p), "allOf") /\ Node(p).allOf = all
    BY <2>2 DEF Has
  <2>4. Target(r) = At(t) /\ Has(Node(r), "ref")
    BY <1>2, <1>3, <2>1, Zenon
  <2>5. all \in Seq({r}) /\ Len(all) = 1 /\ all[1] = r
    BY <2>1
  <2>6. PICK refs : refs = {k \in 1..Len(all) : Has(Node(all[k]), "ref")}
    OBVIOUS
  <2>7. 1 \in refs /\ refs \subseteq 1..Len(all) /\ refs # {}
    <3>1. 1 \in 1..Len(all)
      BY <2>5
    <3>2. 1 \in refs
      BY <2>4, <2>5, <2>6, <3>1, Zenon
    <3> QED
      BY <2>6, <3>2, Zenon
  <2>8. PICK i \in refs : FirstOf(all, refs) = <<all[i]>>
    BY <2>5, <2>7, FirstOfOK
  <2>9. FirstOf(all, refs)[1] = r
    <3>1. i = 1
      BY <2>5, <2>7
    <3> QED
      BY <2>5, <2>8, <3>1
  <2> QED
    BY <2>3, <2>4, <2>6, <2>7, <2>9, Zenon DEF ResolveRef
<1>4. CASE t \in Schemas
  <2>1. ValuePlace(t) = <<"ref", t>> /\ FieldPlace(t) = <<"allOf", t>>
    BY <1>4, Zenon DEF ValuePlace, FieldPlace
  <2> QED
    BY <1>1, <1>2, <1>3, <1>4, <2>1, Zenon
<1>5. CASE t \notin Schemas
  <2>1. ValuePlace(t) = At(t) /\ FieldPlace(t) = At(t)
    BY <1>5, Zenon DEF ValuePlace, FieldPlace
  <2> QED
    BY <1>1, <2>1, Zenon
<1> QED
  BY <1>4, <1>5

\* One container is unwrapped to what it holds.
LEMMA UnwrapOneOK ==
  ASSUME NEW t \in DOMAIN Types
  PROVE  UnwrapOne(At(t)) = At(Inside(t)) /\ Inside(t) \in DOMAIN Types
<1>1. PICK node : node = Node(At(t)) /\ node = Publish(Types[t])
  BY NodeOK, Zenon
<1>2. TypeString(node) = node.type
  BY <1>1, KeysOK, TypeStringOK, Zenon
<1>3. CASE Types[t].k = "array"
  <2>1. TypeString(node) = "array" /\ Has(node, "items") /\ node.items = FieldPlace(Types[t].of) /\ Types[t].of \in DOMAIN Types
    BY <1>1, <1>2, <1>3, KeysOK, Published, Zenon
  <2>2. ResolveRef(node.items) = At(Types[t].of)
    BY <2>1, ResolvedOK, Zenon
  <2>3. UnwrapOne(At(t)) = ResolveRef(node.items)
    BY <1>1, <2>1, Zenon DEF UnwrapOne
  <2>4. Inside(t) = Types[t].of
    BY <1>3, Zenon DEF Inside
  <2> QED
    BY <2>1, <2>2, <2>3, <2>4, Zenon
<1>4. CASE Types[t].k = "map"
  <2>1. PICK u, p : u = Types[t].of /\ p = ValuePlace(u) /\ u \in DOMAIN Types
    BY <1>4, Published, Zenon
  <2>2. TypeString(node) # "array" /\ Has(node, "additional") /\ node.additional = p
    <3>1. Types[t].k # "array"
      BY <1>4
    <3> QED
      BY <1>1, <1>2, <1>4, <2>1, <3>1, KeysOK, Zenon
  <2>3. UnwrapOne(At(t)) = IF Has(Node(p), "ref") THEN ResolveRef(p) ELSE IF Has(Node(p), "properties") THEN p ELSE At(t)
    BY <1>1, <2>2, Zenon DEF UnwrapOne
  <2>4. ResolveRef(p) = At(u)
    BY <2>1, ResolvedOK, Zenon
  <2>5. Types[t].k # "array"
    BY <1>4
  <2>6. CASE u \in Schemas
    <3>1. p = <<"ref", u>>
      BY <2>1, <2>6, Zenon DEF ValuePlace
    <3>2. Node(p) = [ref |-> u]
      BY <3>1, NodeOK, Zenon
    <3>3. Has(Node(p), "ref")
      BY <3>2 DEF Has
    <3>4. Inside(t) = u
      BY <1>4, <2>1, <2>6, Zenon DEF Inside
    <3> QED
      BY <2>1, <2>3, <2>4, <3>3, <3>4, Zenon
  <2>7. CASE u \notin Schemas
    <3>1. p = At(u)
      BY <2>1, <2>7, Zenon DEF ValuePlace
    <3>2. PICK below : below = Node(p) /\ below = Publish(Types[u])
      BY <3>1, NodeOK, Zenon
    <3>3. ~Has(below, "ref") /\ (Has(below, "properties") <=> Types[u].k = "object")
      BY <2>1, <3>2, KeysOK, Zenon
    <3>4. Inside(t) = IF Types[u].k = "object" THEN u ELSE t
      BY <1>4, <2>1, <2>5, <2>7, Zenon DEF Inside
    <3> QED
      BY <2>1, <2>3, <3>1, <3>2, <3>3, <3>4, Zenon
  <2> QED
    BY <2>6, <2>7
<1>5. CASE Types[t].k \notin {"array", "map"}
  <2>1. TypeString(node) # "array" /\ ~Has(node, "additional")
    <3>1. Types[t].k # "array" /\ Types[t].k # "map"
      BY <1>5
    <3> QED
      BY <1>1, <1>2, <3>1, KeysOK, Zenon
  <2>2. UnwrapOne(At(t)) = At(t)
    BY <1>1, <2>1, Zenon DEF UnwrapOne
  <2>3. Inside(t) = t
    BY <1>5 DEF Inside
  <2> QED
    BY <2>2, <2>3, Zenon
<1> QED
  BY <1>3, <1>4, <1>5

\* As many times as containers may be nested.
LEMMA UnwrapOK ==
  ASSUME NEW t \in DOMAIN Types
  PROVE  UnwrapContainers(At(t)) = At(Element(t)) /\ Element(t) \in DOMAIN Types
<1>1. PICK N \in Nat : N = MaxNesting
  BY TypesOK, Zenon
<1> DEFINE V == DOMAIN Types
           step == [x \in (1..N) \X V |-> Inside(x[2])]
           Upto(g) == g = [n \in 0..N |-> IF n = 0 THEN t ELSE Inside(g[n - 1])]
           Over(g) == g = [n \in 0..N |-> IF n = 0 THEN At(t) ELSE UnwrapOne(g[n - 1])]
           f == CHOOSE g : Upto(g)
           u == CHOOSE g : Over(g)
<1>2. 0 \in 0..N /\ N \in 0..N /\ \A k \in 1..N : k \in 0..N /\ k # 0 /\ k - 1 \in 0..N
  OBVIOUS
<1>3. PICK h : /\ h \in [0..N -> V] /\ h[0] = t
               /\ \A k \in 1..N : h[k] = Inside(h[k - 1])
  <2>1. step \in [(1..N) \X V -> V]
    <3>1. \A x \in V : Inside(x) \in V
      BY UnwrapOneOK
    <3> QED
      BY <3>1
  <2>2. t \in V
    OBVIOUS
  <2>3. PICK h : h \in [0..N -> V] /\ h[0] = t /\ \A k \in 1..N : h[k] = step[<<k, h[k - 1]>>]
    <3> HIDE DEF step
    <3>1. PICK W, e : W = V /\ e = t
      OBVIOUS
    <3> HIDE DEF V
    <3>2. step \in [(1..N) \X W -> W] /\ e \in W
      BY <2>1, <2>2, <3>1, Zenon
    <3>3. PICK h : Iterates(h, N, W, e, step)
      BY <3>2, RecursionExists
    <3> QED
      BY <3>1, <3>3, Zenon DEF Iterates
  <2>4. ASSUME NEW k \in 1..N PROVE h[k] = Inside(h[k - 1])
    <3>1. h[k - 1] \in V /\ <<k, h[k - 1]>> \in (1..N) \X V
      BY <1>2, <2>3
    <3> QED
      BY <2>3, <3>1
  <2> QED
    BY <2>3, <2>4, Zenon
<1>4. Upto(f)
  <2>1. ASSUME NEW k \in 0..N PROVE h[k] = IF k = 0 THEN t ELSE Inside(h[k - 1])
    <3>1. k = 0 \/ k \in 1..N
      OBVIOUS
    <3> QED
      BY <1>2, <1>3, <3>1, Zenon
  <2>2. h = [k \in 0..N |-> h[k]]
    BY <1>3
  <2>3. Upto(h)
    BY <2>1, <2>2, Zenon
  <2> HIDE DEF Upto
  <2> QED
    BY <2>3, Zenon
<1>5. Over(u)
  <2> DEFINE j == [k \in 0..N |-> At(h[k])]
  <2>1. \A k \in 0..N : j[k] = At(h[k])
    BY Zenon
  <2>2. j = [k \in 0..N |-> j[k]]
    BY Zenon
  <2> HIDE DEF j
  <2>3. ASSUME NEW k \in 0..N PROVE j[k] = IF k = 0 THEN At(t) ELSE UnwrapOne(j[k - 1])
    <3>1. k = 0 \/ k \in 1..N
      OBVIOUS
    <3>2. CASE k = 0
      BY <1>2, <1>3, <2>1, <3>2, Zenon
    <3>3. CASE k \in 1..N
      <4>1. k # 0 /\ k - 1 \in 0..N
        BY <1>2, <3>3
      <4>2. h[k - 1] \in V
        BY <1>3, <4>1
      <4>3. UnwrapOne(At(h[k - 1])) = At(Inside(h[k - 1]))
        BY <4>2, UnwrapOneOK
      <4> QED
        BY <1>3, <2>1, <3>3, <4>1, <4>3, Zenon
    <3> QED
      BY <3>1, <3>2, <3>3
  <2>4. Over(j)
    BY <2>2, <2>3, Zenon
  <2> HIDE DEF Over
  <2> QED
    BY <2>4, Zenon
<1> HIDE DEF f, u
<1>6. f[0] = t /\ \A k \in 1..N : f[k] = Inside(f[k - 1])
  BY <1>2, <1>4, Zenon
<1>7. u[0] = At(t) /\ \A k \in 1..N : u[k] = UnwrapOne(u[k - 1])
  BY <1>2, <1>5, Zenon
<1>8. \A k \in 0..N : f[k] \in V /\ u[k] = At(f[k])
  <2> DEFINE S == {k \in 0..N : f[k] \in V /\ u[k] = At(f[k])}
  <2>1. 0 \in S
    BY <1>2, <1>6, <1>7, Zenon
  <2>2. ASSUME NEW k \in 0..(N - 1), k \in S PROVE k + 1 \in S
    <3>1. k + 1 \in 1..N /\ (k + 1) - 1 = k
      OBVIOUS
    <3>2. PICK i : i = k + 1 /\ i \in 1..N /\ i \in 0..N /\ i - 1 = k
      BY <3>1
    <3>3. f[k] \in V /\ u[k] = At(f[k])
      BY <2>2, Zenon
    <3>4. f[i] = Inside(f[k]) /\ u[i] = UnwrapOne(u[k])
      BY <1>6, <1>7, <3>2, Zenon
    <3>5. Inside(f[k]) \in V /\ UnwrapOne(At(f[k])) = At(Inside(f[k]))
      BY <3>3, UnwrapOneOK
    <3>6. i \in S
      BY <3>2, <3>3, <3>4, <3>5, Zenon
    <3> QED
      BY <3>2, <3>6, Zenon
  <2> HIDE DEF S
  <2>3. \A k \in 0..N : k \in S
    BY <2>1, <2>2, Repetition
  <2> QED
    BY <2>3, Zenon DEF S
<1>9. Element(t) = f[N]
  BY <1>1, Zenon DEF Element, f
<1>10. UnwrapContainers(At(t)) = u[N]
  BY <1>1, Zenon DEF UnwrapContainers, u
<1> QED
  BY <1>2, <1>8, <1>9, <1>10, Zenon

\* A field is where the types say it is.
LEMMA FieldsListed ==
  ASSUME NEW t \in DOMAIN Types
  PROVE  /\ ImmediateFields(Node(At(t))) \in Seq(Seq(STRING))
         /\ {ImmediateFields(Node(At(t)))[k] : k \in 1..Len(ImmediateFields(Node(At(t))))} = FieldsOf(t)
         /\ \A f \in FieldsOf(t) : Types[t].fields[f] \in DOMAIN Types
<1>1. PICK node : node = Node(At(t)) /\ node = Publish(Types[t])
  BY NodeOK, Zenon
<1>2. PICK fields \in Seq(Seq(STRING)) : fields = ImmediateFields(node)
  BY SelectedFields
<1>3. CASE Types[t].k = "object"
  <2>1. /\ Has(node, "properties") /\ DOMAIN node.properties = DOMAIN Types[t].fields
        /\ FieldsOf(t) = DOMAIN Types[t].fields
        /\ \A f \in DOMAIN Types[t].fields :
             Types[t].fields[f] \in DOMAIN Types /\ f \in {FieldOrder[k] : k \in 1..Len(FieldOrder)}
    BY <1>1, <1>3, KeysOK, Published, Zenon DEF FieldsOf
  <2>2. PICK F, S : F = DOMAIN Types[t].fields /\ S = {k \in 1..Len(FieldOrder) : FieldOrder[k] \in F}
    OBVIOUS
  <2>3. fields = Pick(FieldOrder, S)
    BY <1>2, <2>1, <2>2, Zenon DEF ImmediateFields
  <2>4. FieldOrder \in Seq(Seq(STRING))
    BY TypesOK, Zenon
  <2>5. S \subseteq 1..Len(FieldOrder)
    BY <2>2
  <2>6. Len(fields) = Cardinality(S)
    BY <2>3, <2>4, <2>5, PickOK
  <2>7. \A k \in 1..Cardinality(S) : fields[k] = FieldOrder[Nth(S, k)]
    BY <2>3, <2>4, <2>5, PickAt
  <2>8. /\ \A k \in 1..Cardinality(S) : Nth(S, k) \in S
        /\ \A i \in S : \E k \in 1..Cardinality(S) : Nth(S, k) = i
    BY <2>4, <2>5, PickedAt
  <2>9. ASSUME NEW k \in 1..Len(fields) PROVE fields[k] \in F
    <3>1. k \in 1..Cardinality(S)
      BY <2>6, Zenon
    <3>2. PICK i \in S : fields[k] = FieldOrder[i]
      BY <2>7, <2>8, <3>1, Zenon
    <3>3. FieldOrder[i] \in F
      BY <2>2, Zenon
    <3> QED
      BY <3>2, <3>3, Zenon
  <2>10. ASSUME NEW f \in F PROVE f \in {fields[k] : k \in 1..Len(fields)}
    <3>1. PICK i \in 1..Len(FieldOrder) : f = FieldOrder[i]
      BY <2>1, <2>2, Zenon
    <3>2. i \in S
      BY <2>2, <3>1, Zenon
    <3>3. PICK k \in 1..Cardinality(S) : Nth(S, k) = i
      BY <2>8, <3>2, Zenon
    <3> QED
      BY <2>6, <2>7, <3>1, <3>3, Zenon
  <2>11. {fields[k] : k \in 1..Len(fields)} = F
    BY <2>9, <2>10, Zenon
  <2> QED
    BY <1>1, <1>2, <2>1, <2>2, <2>11, Zenon
<1>4. CASE Types[t].k # "object"
  <2>1. FieldsOf(t) = {} /\ ~Has(node, "properties")
    BY <1>1, <1>4, KeysOK, Zenon DEF FieldsOf
  <2>2. fields = <<>>
    BY <1>2, <2>1, Zenon DEF ImmediateFields
  <2>3. {fields[k] : k \in 1..Len(fields)} = {}
    BY <2>2
  <2> QED
    BY <1>1, <1>2, <2>1, <2>3, Zenon
<1> QED
  BY <1>3, <1>4

\* One step along a path, by the types.
Along(t, f) == IF f \notin FieldsOf(Element(t)) THEN <<>> ELSE <<Types[Element(t)].fields[f]>>

LEMMA StepOK ==
  ASSUME NEW t \in DOMAIN Types, NEW f
  PROVE  /\ Along(t, f) = <<>> => Step(At(t), f) = <<>>
         /\ Along(t, f) # <<>> => \E u \in DOMAIN Types : Along(t, f) = <<u>> /\ Step(At(t), f) = <<At(u)>>
<1>1. PICK e \in DOMAIN Types : e = Element(t) /\ UnwrapContainers(At(t)) = At(e)
  BY UnwrapOK
<1>2. PICK node : node = Node(At(e)) /\ node = Publish(Types[e])
  BY NodeOK, Zenon
<1>3. Step(At(t), f) = IF Has(node, "properties") /\ f \in DOMAIN node.properties
                       THEN <<ResolveRef(node.properties[f])>> ELSE <<>>
  BY <1>1, <1>2, Zenon DEF Step
<1>4. f \in FieldsOf(e) <=> (Has(node, "properties") /\ f \in DOMAIN node.properties)
  BY <1>2, KeysOK, Zenon DEF FieldsOf
<1>5. Along(t, f) = IF f \notin FieldsOf(e) THEN <<>> ELSE <<Types[e].fields[f]>>
  BY <1>1, Zenon DEF Along
<1>6. CASE f \notin FieldsOf(e)
  BY <1>3, <1>4, <1>5, <1>6, Zenon
<1>7. CASE f \in FieldsOf(e)
  <2>1. PICK u \in DOMAIN Types : u = Types[e].fields[f]
    BY <1>7, FieldsListed
  <2>2. Types[e].k = "object" /\ f \in DOMAIN Types[e].fields
    BY <1>7, Zenon DEF FieldsOf
  <2>3. node.properties[f] = FieldPlace(u)
    BY <1>2, <2>1, <2>2, KeysOK, Zenon
  <2>4. ResolveRef(node.properties[f]) = At(u)
    BY <2>3, ResolvedOK, Zenon
  <2>5. Step(At(t), f) = <<At(u)>> /\ Along(t, f) = <<u>>
    BY <1>3, <1>4, <1>5, <1>7, <2>1, <2>4, Zenon
  <2> QED
    BY <2>5
<1> QED
  BY <1>6, <1>7

\* Where a path leads in the document, and by the types.
Reached(p, q) == (p = <<>> /\ q = <<>>) \/ \E t \in DOMAIN Types : p = <<At(t)>> /\ q = <<t>>

LEMMA NavigateOK ==
  ASSUME NEW n \in DOMAIN Types, NEW V, NEW path \in Seq(V)
  PROVE  Reached(Navigate(At(n), path), TypeAt(n, path))
<1>1. PICK N \in Nat : N = Len(path)
  OBVIOUS
<1> DEFINE T == {<<>>} \cup {<<t>> : t \in DOMAIN Types}
           Go(q, f) == IF q = <<>> THEN <<>> ELSE Along(q[1], f)
           Walk(p, f) == IF p = <<>> THEN <<>> ELSE Step(p[1], f)
           step == [x \in (1..N) \X T |-> Go(x[2], path[x[1]])]
           ByTypes(g) == g = [k \in 0..N |->
             IF k = 0 THEN <<n>>
             ELSE IF g[k - 1] = <<>> \/ path[k] \notin FieldsOf(Element(g[k - 1][1])) THEN <<>>
             ELSE <<Types[Element(g[k - 1][1])].fields[path[k]]>>]
           ByNodes(g) == g = [k \in 0..N |->
             IF k = 0 THEN <<ResolveRef(At(n))>>
             ELSE IF g[k - 1] = <<>> THEN <<>> ELSE Step(g[k - 1][1], path[k])]
           f == CHOOSE g : ByTypes(g)
           u == CHOOSE g : ByNodes(g)
           Place(q) == IF q = <<>> THEN <<>> ELSE <<At(q[1])>>
<1>2. 0 \in 0..N /\ N \in 0..N /\ \A k \in 1..N : k \in 0..N /\ k # 0 /\ k - 1 \in 0..N
  OBVIOUS
<1>3. ASSUME NEW q \in T, NEW x
      PROVE  /\ Go(q, x) \in T /\ Walk(Place(q), x) = Place(Go(q, x)) /\ Reached(Place(q), q)
             /\ Go(q, x) = IF q = <<>> \/ x \notin FieldsOf(Element(q[1])) THEN <<>> ELSE <<Types[Element(q[1])].fields[x]>>
  <2>1. q = <<>> \/ \E t \in DOMAIN Types : q = <<t>>
    BY Zenon
  <2>2. CASE q = <<>>
    BY <2>2, Zenon DEF Reached
  <2>3. CASE \E t \in DOMAIN Types : q = <<t>>
    <3>1. PICK t \in DOMAIN Types : q = <<t>>
      BY <2>3
    <3>2. q # <<>> /\ q[1] = t
      BY <3>1
    <3>3. PICK p : p = <<At(t)>>
      OBVIOUS
    <3>4. p # <<>> /\ p[1] = At(t)
      BY <3>3
    <3>5. Place(q) = p /\ Go(q, x) = Along(t, x) /\ Walk(Place(q), x) = Step(At(t), x)
      BY <3>2, <3>3, <3>4, Zenon
    <3>6. Reached(Place(q), q)
      BY <3>1, <3>3, <3>5, Zenon DEF Reached
    <3>7. Go(q, x) = IF q = <<>> \/ x \notin FieldsOf(Element(q[1])) THEN <<>> ELSE <<Types[Element(q[1])].fields[x]>>
      BY <3>2, Zenon DEF Along
    <3>8. CASE Along(t, x) = <<>>
      <4>1. Step(At(t), x) = <<>>
        BY <3>8, StepOK
      <4> QED
        BY <3>5, <3>6, <3>7, <3>8, <4>1, Zenon
    <3>9. CASE Along(t, x) # <<>>
      <4>1. PICK w \in DOMAIN Types : Along(t, x) = <<w>> /\ Step(At(t), x) = <<At(w)>>
        BY <3>9, StepOK
      <4>2. <<w>> # <<>> /\ <<w>>[1] = w
        OBVIOUS
      <4>3. Place(<<w>>) = <<At(w)>>
        BY <4>2, Zenon
      <4> QED
        BY <3>5, <3>6, <3>7, <4>1, <4>3, Zenon
    <3> QED
      BY <3>8, <3>9
  <2> QED
    BY <2>1, <2>2, <2>3
<1>4. <<n>> \in T /\ Place(<<n>>) = <<At(n)>> /\ ResolveRef(At(n)) = At(n)
  <2>1. <<n>> # <<>> /\ <<n>>[1] = n
    OBVIOUS
  <2> QED
    BY <2>1, ResolvedOK, Zenon
<1> HIDE DEF T, Go, Walk, Place
<1>5. PICK h : h \in [0..N -> T] /\ h[0] = <<n>> /\ \A k \in 1..N : h[k] = Go(h[k - 1], path[k])
  <2>1. step \in [(1..N) \X T -> T]
    BY <1>3
  <2>2. PICK h : h \in [0..N -> T] /\ h[0] = <<n>> /\ \A k \in 1..N : h[k] = step[<<k, h[k - 1]>>]
    <3> HIDE DEF step
    <3>1. PICK W, e : W = T /\ e = <<n>>
      OBVIOUS
    <3>2. step \in [(1..N) \X W -> W] /\ e \in W
      BY <1>4, <2>1, <3>1, Zenon
    <3>3. PICK h : Iterates(h, N, W, e, step)
      BY <3>2, RecursionExists
    <3> QED
      BY <3>1, <3>3, Zenon DEF Iterates
  <2>3. ASSUME NEW k \in 1..N PROVE h[k] = Go(h[k - 1], path[k])
    <3>1. h[k - 1] \in T /\ <<k, h[k - 1]>> \in (1..N) \X T
      BY <1>2, <2>2
    <3> QED
      BY <2>2, <3>1
  <2> QED
    BY <2>2, <2>3, Zenon
<1>6. \A k \in 0..N : h[k] \in T
  BY <1>5
<1>7. ByTypes(f)
  <2>1. ASSUME NEW k \in 0..N
        PROVE  h[k] = IF k = 0 THEN <<n>>
                      ELSE IF h[k - 1] = <<>> \/ path[k] \notin FieldsOf(Element(h[k - 1][1])) THEN <<>>
                      ELSE <<Types[Element(h[k - 1][1])].fields[path[k]]>>
    <3>1. k = 0 \/ k \in 1..N
      OBVIOUS
    <3>2. CASE k = 0
      BY <1>5, <3>2, Zenon
    <3>3. CASE k \in 1..N
      <4>1. k # 0 /\ h[k - 1] \in T /\ h[k] = Go(h[k - 1], path[k])
        BY <1>2, <1>5, <1>6, <3>3, Zenon
      <4> QED
        BY <1>3, <4>1, Zenon
    <3> QED
      BY <3>1, <3>2, <3>3
  <2>2. h = [k \in 0..N |-> h[k]]
    BY <1>5
  <2>3. ByTypes(h)
    BY <2>1, <2>2, Zenon
  <2> HIDE DEF ByTypes
  <2> QED
    BY <2>3, Zenon
<1>8. ByNodes(u)
  <2> DEFINE j == [k \in 0..N |-> Place(h[k])]
  <2>1. \A k \in 0..N : j[k] = Place(h[k])
    BY Zenon
  <2>2. j = [k \in 0..N |-> j[k]]
    BY Zenon
  <2> HIDE DEF j
  <2>3. ASSUME NEW k \in 0..N
        PROVE  j[k] = IF k = 0 THEN <<ResolveRef(At(n))>>
                      ELSE IF j[k - 1] = <<>> THEN <<>> ELSE Step(j[k - 1][1], path[k])
    <3>1. k = 0 \/ k \in 1..N
      OBVIOUS
    <3>2. CASE k = 0
      BY <1>2, <1>4, <1>5, <2>1, <3>2, Zenon
    <3>3. CASE k \in 1..N
      <4>1. k # 0 /\ k - 1 \in 0..N /\ h[k - 1] \in T /\ h[k] = Go(h[k - 1], path[k])
        BY <1>2, <1>5, <1>6, <3>3, Zenon
      <4>2. Walk(Place(h[k - 1]), path[k]) = Place(h[k])
        BY <1>3, <4>1, Zenon
      <4>3. j[k] = Walk(j[k - 1], path[k])
        BY <2>1, <4>1, <4>2, Zenon
      <4> QED
        BY <4>1, <4>3, Zenon DEF Walk
    <3> QED
      BY <3>1, <3>2, <3>3
  <2>4. ByNodes(j)
    BY <2>2, <2>3, Zenon
  <2> HIDE DEF ByNodes
  <2> QED
    BY <2>4, Zenon
<1> HIDE DEF f, u
<1>9. f[0] = <<n>> /\ \A k \in 1..N : f[k - 1] \in T => f[k] = Go(f[k - 1], path[k])
  <2>1. f[0] = <<n>>
    BY <1>2, <1>7, Zenon
  <2>2. ASSUME NEW k \in 1..N, f[k - 1] \in T PROVE f[k] = Go(f[k - 1], path[k])
    <3>1. f[k] = IF f[k - 1] = <<>> \/ path[k] \notin FieldsOf(Element(f[k - 1][1])) THEN <<>>
                 ELSE <<Types[Element(f[k - 1][1])].fields[path[k]]>>
      BY <1>2, <1>7, Zenon
    <3> QED
      BY <1>3, <2>2, <3>1, Zenon
  <2> QED
    BY <2>1, <2>2
<1>10. u[0] = <<At(n)>> /\ \A k \in 1..N : u[k] = Walk(u[k - 1], path[k])
  BY <1>2, <1>4, <1>8, Zenon DEF Walk
<1>11. \A k \in 0..N : f[k] \in T /\ u[k] = Place(f[k])
  <2> DEFINE S == {k \in 0..N : f[k] \in T /\ u[k] = Place(f[k])}
  <2>1. 0 \in S
    BY <1>2, <1>4, <1>9, <1>10, Zenon
  <2>2. ASSUME NEW k \in 0..(N - 1), k \in S PROVE k + 1 \in S
    <3>1. k + 1 \in 1..N /\ (k + 1) - 1 = k
      OBVIOUS
    <3>2. PICK i : i = k + 1 /\ i \in 1..N /\ i \in 0..N /\ i - 1 = k
      BY <3>1
    <3>3. f[k] \in T /\ u[k] = Place(f[k])
      BY <2>2, Zenon
    <3>4. f[i] = Go(f[k], path[i]) /\ u[i] = Walk(u[k], path[i])
      BY <1>9, <1>10, <3>2, <3>3, Zenon
    <3>5. i \in S
      BY <1>3, <3>2, <3>3, <3>4, ZenonT(30)
    <3> QED
      BY <3>2, <3>5, Zenon
  <2> HIDE DEF S
  <2>3. \A k \in 0..N : k \in S
    BY <2>1, <2>2, Repetition
  <2> QED
    BY <2>3, Zenon DEF S
<1>12. Reached(u[N], f[N])
  BY <1>2, <1>3, <1>11, Zenon
<1>13. TypeAt(n, path) = IF f[N] = <<>> THEN <<>> ELSE <<Element(f[N][1])>>
  BY <1>1 DEF TypeAt, f
<1>14. Navigate(At(n), path) = IF u[N] = <<>> THEN <<>> ELSE <<UnwrapContainers(u[N][1])>>
  BY <1>1 DEF Navigate, u
<1>15. CASE u[N] = <<>> /\ f[N] = <<>>
  BY <1>13, <1>14, <1>15, Zenon DEF Reached
<1>16. CASE \E t \in DOMAIN Types : u[N] = <<At(t)>> /\ f[N] = <<t>>
  <2>1. PICK t \in DOMAIN Types : u[N] = <<At(t)>> /\ f[N] = <<t>>
    BY <1>16
  <2>2. u[N] # <<>> /\ f[N] # <<>> /\ u[N][1] = At(t) /\ f[N][1] = t
    BY <2>1
  <2>3. TypeAt(n, path) = <<Element(t)>> /\ Navigate(At(n), path) = <<At(Element(t))>>
    BY <1>13, <1>14, <2>2, UnwrapOK, Zenon
  <2> QED
    BY <2>3, UnwrapOK, Zenon DEF Reached
<1> QED
  BY <1>12, <1>15, <1>16, Zenon DEF Reached

LEMMA SplitExprOK ==
  ASSUME NEW expr \in Expressions
  PROVE  SplitExpr(expr).path \in Seq(Seq(STRING))
<1>1. expr \in Seq(STRING)
  BY DiscoveriesOK, Zenon
<1>2. PICK parts \in Seq(Seq(STRING)) : parts = Split(expr, ".") /\ Len(parts) \in Nat \ {0}
  BY <1>1, SplitOK
<1>3. PICK rest \in Seq(Seq(STRING)) : rest = Tail(parts)
  <2>1. parts # <<>>
    BY <1>2
  <2>2. PICK W : W = Seq(STRING) /\ parts \in Seq(W)
    OBVIOUS
  <2>3. Tail(parts) \in Seq(W)
    BY <2>1, <2>2
  <2> QED
    BY <2>2, <2>3, Zenon
<1>4. PICK S : S = NotEmpty(rest) /\ S \subseteq 1..Len(rest)
  BY DEF NotEmpty
<1>5. Pick(rest, S) \in Seq(Seq(STRING))
  BY <1>4, PickOK
<1>6. PICK token, path : token = parts[1] /\ path = Pick(rest, S)
  OBVIOUS
<1>7. SplitExpr(expr) = [token |-> token, path |-> path]
  BY <1>2, <1>3, <1>4, <1>6, Zenon DEF SplitExpr
<1> QED
  BY <1>5, <1>6, <1>7

\* The empty word is no kind, and nothing is if discovery did not answer.
LEMMA KindOK ==
  ASSUME NEW d \in Discoveries, NEW token, FindKind(d.lists, token) # <<>>
  PROVE  ~Unusable(d) /\ token # <<>>
<1>1. PICK all \in Seq(ServedResources) : all = Served(d.lists) /\ (d.lists = <<>> => all = <<>>)
  BY Discovered, ServedOK
<1>2. PICK S : S = {k \in 1..Len(all) : ~all[k].r.sub /\ token \in all[k].r.words}
  OBVIOUS
<1>3. FindKind(d.lists, token) = FirstOf(all, S)
  BY <1>1, <1>2, Zenon DEF FindKind
<1>4. S \subseteq 1..Len(all)
  BY <1>2
<1>5. S # {}
  BY <1>3, <1>4, FirstOfOK
<1>6. PICK k \in 1..Len(all) : token \in all[k].r.words
  BY <1>2, <1>5, Zenon
<1>7. all # <<>>
  BY <1>6
<1>8. PICK x \in Resources : x = all[k].r
  <2>1. all[k] \in ServedResources
    OBVIOUS
  <2>2. all[k].r \in Resources
    BY <2>1 DEF ServedResources
  <2> QED
    BY <2>2, Zenon
<1>9. x.words \subseteq Seq(STRING) \ {<<>>}
  BY DEF Resources
<1> QED
  BY <1>1, <1>6, <1>7, <1>8, <1>9, Discovered, Zenon

\* The schemas of a resource, by its group, version and kind.
OwnOf(x) == <<x.group, x.version, x.r.kind>>
NamesOf(own) == IF own \in Schemas \ Unmarked THEN {own} ELSE {n \in Schemas : n[2] = own[2] /\ n[3] = own[3]}

LEMMA NamesOK ==
  ASSUME NEW x
  PROVE  SchemasForGVK(x) = NamesOf(OwnOf(x)) /\ NamesOf(OwnOf(x)) \subseteq DOMAIN Types
<1>1. PICK own : own = OwnOf(x) /\ own = <<x.group, x.version, x.r.kind>>
  BY DEF OwnOf
<1>2. own[2] = x.version /\ own[3] = x.r.kind
  BY <1>1
<1>3. PICK exact : exact = {n \in Schemas \ Unmarked : n = own}
  OBVIOUS
<1>4. SchemasForGVK(x) = IF exact # {} THEN exact ELSE {n \in Schemas : n[2] = x.version /\ n[3] = x.r.kind}
  BY <1>1, <1>3, Zenon DEF SchemasForGVK
<1>5. NamesOf(own) = IF own \in Schemas \ Unmarked THEN {own} ELSE {n \in Schemas : n[2] = x.version /\ n[3] = x.r.kind}
  BY <1>2, Zenon DEF NamesOf
<1>6. own \in Schemas \ Unmarked => exact = {own}
  BY <1>3
<1>7. own \notin Schemas \ Unmarked => exact = {}
  BY <1>3
<1>8. SchemasForGVK(x) = NamesOf(own)
  BY <1>4, <1>5, <1>6, <1>7, Zenon
<1>9. Schemas \subseteq DOMAIN Types
  BY TypesOK, Zenon
<1>10. NamesOf(own) \subseteq DOMAIN Types
  BY <1>5, <1>9
<1> QED
  BY <1>1, <1>8, <1>10, Zenon

\* What a path means, and the pages that show it.
FoundTypes(own, path) == UNION {ToSet(TypeAt(n, path)) : n \in NamesOf(own)}

LEMMA PagesOK ==
  ASSUME NEW d \in Discoveries, NEW token, NEW V, NEW path \in Seq(V),
         NEW kind, kind = FindKind(d.lists, token), NEW x, kind # <<>> => x = kind[1]
  PROVE  IF kind = <<>> \/ <<x.group, x.version>> \notin Documented \/ FoundTypes(OwnOf(x), path) = {}
         THEN Explain(d, token, path) = {}
         ELSE /\ Explain(d, token, path) # {}
              /\ \A l \in Explain(d, token, path) : \E t \in FoundTypes(OwnOf(x), path) : Listed(l) = FieldsOf(t)
<1>1. CASE kind = <<>>
  BY <1>1, Zenon DEF Explain
<1>2. CASE kind # <<>> /\ <<x.group, x.version>> \notin Documented
  BY <1>2, Zenon DEF Explain
<1>3. CASE kind # <<>> /\ <<x.group, x.version>> \in Documented
  <2>1. ~Unusable(d) /\ token # <<>>
    BY <1>3, KindOK, Zenon
  <2>2. PICK names : names = NamesOf(OwnOf(x)) /\ names = SchemasForGVK(x) /\ names \subseteq DOMAIN Types
    BY NamesOK, Zenon
  <2>3. PICK found : found = FoundTypes(OwnOf(x), path) /\ found = UNION {ToSet(TypeAt(n, path)) : n \in names}
    BY <2>2, Zenon DEF FoundTypes
  <2>4. Explain(d, token, path) =
          {RenderSchema(x, Navigate(At(n), path)[1]) : n \in {m \in names : Navigate(At(m), path) # <<>>}}
    BY <1>3, <2>1, <2>2, Zenon DEF Explain
  <2>5. ASSUME NEW n \in names
        PROVE  \/ Navigate(At(n), path) = <<>> /\ ToSet(TypeAt(n, path)) = {}
               \/ \E t \in DOMAIN Types : /\ Navigate(At(n), path) # <<>> /\ Navigate(At(n), path)[1] = At(t)
                                          /\ ToSet(TypeAt(n, path)) = {t}
    <3>1. PICK p, q : p = Navigate(At(n), path) /\ q = TypeAt(n, path) /\ Reached(p, q)
      BY <2>2, NavigateOK, Zenon
    <3>2. CASE p = <<>> /\ q = <<>>
      <4>1. ToSet(q) = {}
        BY <3>2 DEF ToSet
      <4> QED
        BY <3>1, <3>2, <4>1, Zenon
    <3>3. CASE \E t \in DOMAIN Types : p = <<At(t)>> /\ q = <<t>>
      <4>1. PICK t \in DOMAIN Types : p = <<At(t)>> /\ q = <<t>>
        BY <3>3
      <4>2. p # <<>> /\ p[1] = At(t)
        BY <4>1
      <4>3. ToSet(q) = {t}
        BY <4>1 DEF ToSet
      <4> QED
        BY <3>1, <4>2, <4>3, Zenon
    <3> QED
      BY <3>1, <3>2, <3>3, Zenon DEF Reached
  <2>6. found = {} <=> \A n \in names : Navigate(At(n), path) = <<>>
    <3>1. ASSUME found = {}, NEW n \in names PROVE Navigate(At(n), path) = <<>>
      <4>1. ToSet(TypeAt(n, path)) \subseteq found
        BY <2>3, Zenon
      <4> QED
        BY <2>5, <3>1, <4>1, Zenon
    <3>2. ASSUME \A n \in names : Navigate(At(n), path) = <<>> PROVE found = {}
      <4>1. \A n \in names : ToSet(TypeAt(n, path)) = {}
        BY <2>5, <3>2, Zenon
      <4> QED
        BY <2>3, <4>1, Zenon
    <3> QED
      BY <3>1, <3>2
  <2>7. Explain(d, token, path) = {} <=> found = {}
    BY <2>4, <2>6, Zenon
  <2>8. ASSUME NEW l \in Explain(d, token, path) PROVE \E t \in found : Listed(l) = FieldsOf(t)
    <3>1. PICK n \in names : Navigate(At(n), path) # <<>> /\ l = RenderSchema(x, Navigate(At(n), path)[1])
      BY <2>4, Zenon
    <3>2. PICK t \in DOMAIN Types : Navigate(At(n), path)[1] = At(t) /\ ToSet(TypeAt(n, path)) = {t}
      BY <2>5, <3>1, Zenon
    <3>3. t \in found
      BY <2>3, <3>2, Zenon
    <3>4. PICK fields : fields = ImmediateFields(Node(At(t)))
      OBVIOUS
    <3>5. Shows(l, fields)
      BY <3>1, <3>2, <3>4, RenderSchemaOK, Zenon
    <3>6. {fields[k] : k \in 1..Len(fields)} = FieldsOf(t)
      BY <3>4, FieldsListed, Zenon
    <3> QED
      BY <3>3, <3>5, <3>6, Zenon DEF Shows
  <2> QED
    BY <1>3, <2>3, <2>7, <2>8, Zenon
<1> QED
  BY <1>1, <1>2, <1>3

LEMMA InvExplained ==
  ASSUME Inv
  PROVE  ExplainFollowsTypes
<1> DEFINE e == SplitExpr(answer.expr)
           kind == FindKind(answer.d.lists, e.token)
           x == kind[1]
<1> SUFFICES ASSUME answer # NoAnswer, answer.to.verb = "explain"
             PROVE  IF kind = <<>> \/ <<x.group, x.version>> \notin Documented \/ FoundTypes(OwnOf(x), e.path) = {}
                    THEN text = NoText
                    ELSE text # NoText /\ \E t \in FoundTypes(OwnOf(x), e.path) : Listed(text.v.lines) = FieldsOf(t)
  BY Zenon DEF ExplainFollowsTypes, FoundTypes, OwnOf, NamesOf, Listed
<1> HIDE DEF x
<1>1. AskedInv /\ AnswerInv
  BY DEF Inv, PageInv
<1>2. \A d, a : Opened(d, a).to = Opening(a)
  BY DEF Opened
<1>3. \A d, expr : Explained(d, expr).d = d /\ Explained(d, expr).expr = expr
  BY DEF Explained
<1>4. ASSUME NEW d, NEW a PROVE answer # Opened(d, a)
  <2> SUFFICES ASSUME answer = Opened(d, a) PROVE FALSE
    OBVIOUS
  <2>1. answer.to = Opening(a)
    BY <1>2, Zenon
  <2>2. Opening(a).verb = "open resource"
    BY <1>1, AskedOK, Zenon
  <2> QED
    BY <2>1, <2>2, Zenon
<1>5. PICK d \in Discoveries, expr \in Expressions : answer = Explained(d, expr) /\ Page(d, expr, text)
  BY <1>1, <1>4, Zenon DEF AnswerInv
<1>6. answer.d = d /\ answer.expr = expr
  BY <1>3, <1>5, Zenon
<1>7. PICK token, path, V : /\ token = e.token /\ path = e.path /\ V = Seq(STRING) /\ path \in Seq(V)
                            /\ e = SplitExpr(expr)
  BY <1>6, SplitExprOK, Zenon
<1>8. PagesFor(d, expr) = Explain(d, token, path) /\ kind = FindKind(d.lists, token)
  BY <1>6, <1>7, Zenon DEF PagesFor
<1>10. kind # <<>> => x = kind[1]
  BY Zenon DEF x
<1> HIDE DEF e, kind
<1>11. d \in Discoveries /\ path \in Seq(V) /\ kind = FindKind(d.lists, token) /\ (kind # <<>> => x = kind[1])
  BY <1>7, <1>8, <1>10, Zenon
<1>12. IF kind = <<>> \/ <<x.group, x.version>> \notin Documented \/ FoundTypes(OwnOf(x), path) = {}
       THEN Explain(d, token, path) = {}
       ELSE /\ Explain(d, token, path) # {}
            /\ \A l \in Explain(d, token, path) : \E t \in FoundTypes(OwnOf(x), path) : Listed(l) = FieldsOf(t)
  BY <1>11, PagesOK
<1>9. IF kind = <<>> \/ <<x.group, x.version>> \notin Documented \/ FoundTypes(OwnOf(x), e.path) = {}
      THEN PagesFor(d, expr) = {}
      ELSE /\ PagesFor(d, expr) # {}
           /\ \A l \in PagesFor(d, expr) : \E t \in FoundTypes(OwnOf(x), e.path) : Listed(l) = FieldsOf(t)
  BY <1>7, <1>8, <1>12, Zenon
<1> QED
  BY <1>5, <1>9, Zenon DEF Page

\* Whatever discovery answers, a word is unknown only if nothing usable serves it, and
\* :explain shows the fields that a path leads to by the types, or nothing where it
\* leads nowhere (ResolvePluralGroup, ResolveResource, findKind, navigate, unwrapContainers).
THEOREM LookupsAreTrue == Spec => []LookupsTrue
<1>1. Inv => LookupsTrue
  BY InvFound, InvExplained DEF LookupsTrue
<1> QED
  BY <1>1, InvHolds, PTL

-----------------------------------------------------------------------------
(* The words of a filter *)

Space == " "
Words(s) == Pieces(s, Space) \ {<<>>}

LEMMA WordsOK ==
  ASSUME NEW V, NEW s \in Seq(V)
  PROVE  ToSet(Fields(s)) = Words(s) /\ ParseFilter(s) = UNION {Term(t) : t \in Words(s)}
<1>1. PICK pieces \in Seq(Seq(V)) : pieces = Split(s, Space)
  BY SplitOK
<1>2. PICK S : S = {k \in 1..Len(pieces) : pieces[k] # <<>>}
  OBVIOUS
<1>3. S \subseteq 1..Len(pieces)
  BY <1>2
<1>4. Fields(s) = Pick(pieces, S)
  BY <1>1, <1>2, Zenon DEF Fields, NotEmpty, Space
<1>5. PICK f \in Seq(Seq(V)) : f = Pick(pieces, S) /\ Len(f) = Cardinality(S)
  BY <1>1, <1>3, PickOK
<1>6. \A k \in 1..Cardinality(S) : f[k] = pieces[Nth(S, k)]
  BY <1>1, <1>3, <1>5, PickAt
<1>7. /\ \A k \in 1..Cardinality(S) : Nth(S, k) \in S
      /\ \A i \in S : \E k \in 1..Cardinality(S) : Nth(S, k) = i
  BY <1>1, <1>3, PickedAt
<1>8. DOMAIN f = 1..Cardinality(S)
  BY <1>5
<1>9. ASSUME NEW k \in 1..Cardinality(S) PROVE f[k] \in Words(s)
  <2>1. PICK i \in S : f[k] = pieces[i]
    BY <1>6, <1>7, Zenon
  <2>2. i \in 1..Len(pieces) /\ pieces[i] # <<>>
    BY <1>2, Zenon
  <2> QED
    BY <1>1, <2>1, <2>2, Zenon DEF Words, Pieces
<1>10. ASSUME NEW w \in Words(s) PROVE \E k \in 1..Cardinality(S) : f[k] = w
  <2>1. PICK i \in 1..Len(pieces) : w = pieces[i] /\ w # <<>>
    BY <1>1, Zenon DEF Words, Pieces
  <2>2. i \in S
    BY <1>2, <2>1, Zenon
  <2> QED
    BY <1>6, <1>7, <2>1, <2>2, Zenon
<1>11. ToSet(f) = Words(s)
  BY <1>8, <1>9, <1>10, Zenon DEF ToSet
<1> QED
  BY <1>4, <1>5, <1>11, Zenon DEF ParseFilter

\* A text without a space is a word.
LEMMA OneWord ==
  ASSUME NEW V, NEW s \in Seq(V), s # <<>>, \A i \in 1..Len(s) : s[i] # Space
  PROVE  ParseFilter(s) = Term(s)
<1>1. Split(s, Space) = <<s>>
  BY SplitWhole
<1>2. Len(<<s>>) = 1 /\ <<s>>[1] = s
  OBVIOUS
<1>3. Pieces(s, Space) = {s}
  <2>1. PICK p : p = Split(s, Space) /\ p = <<s>>
    BY <1>1, Zenon
  <2>2. {p[k] : k \in 1..Len(p)} = {s}
    BY <2>1
  <2> QED
    BY <2>1, <2>2, Zenon DEF Pieces
<1>4. Words(s) = {s}
  BY <1>3, Zenon DEF Words
<1>5. ParseFilter(s) = UNION {Term(t) : t \in Words(s)}
  BY WordsOK
<1>6. ParseFilter(s) = UNION {Term(t) : t \in {s}}
  BY <1>4, <1>5, Zenon
<1> QED
  BY <1>6, Zenon

\* More terms keep fewer rows.
LEMMA MoreTerms ==
  ASSUME NEW a, NEW b, ParseFilter(a) \subseteq ParseFilter(b)
  PROVE  FilterRows(b) \subseteq FilterRows(a)
BY Zenon DEF FilterRows, MatchesAll

\* The text up to the last space has no word that the whole has not.
LEMMA WordsBefore ==
  ASSUME NEW V, NEW s \in Seq(V), NEW u, u = UpTo(s, Space), NEW last, last = After(s, Space)
  PROVE  /\ u \in Seq(V) /\ last \in Seq(V) /\ \A i \in 1..Len(last) : last[i] # Space
         /\ Words(s) = Words(u) \cup ({last} \ {<<>>})
<1>1. /\ u \in Seq(V) /\ last \in Seq(V) /\ \A i \in 1..Len(last) : last[i] # Space
      /\ Pieces(s, Space) \ {<<>>} = (Pieces(u, Space) \cup {last}) \ {<<>>}
  BY LastPiece, Zenon
<1> QED
  BY <1>1, Zenon DEF Words

LEMMA TermsNarrowOK ==
  ASSUME NEW V, NEW s \in Seq(V)
  PROVE  FilterRows(s) \subseteq FilterRows(UpTo(s, Space))
<1>1. PICK u, last : u = UpTo(s, Space) /\ last = After(s, Space)
  OBVIOUS
<1>2. u \in Seq(V) /\ Words(s) = Words(u) \cup ({last} \ {<<>>})
  BY <1>1, WordsBefore
<1>4. Words(u) \subseteq Words(s)
  BY <1>2, Zenon
<1>5. ParseFilter(u) = UNION {Term(t) : t \in Words(u)}
  BY <1>2, WordsOK
<1>6. ParseFilter(s) = UNION {Term(t) : t \in Words(s)}
  BY WordsOK
<1>3. ParseFilter(u) \subseteq ParseFilter(s)
  BY <1>4, <1>5, <1>6, Zenon
<1> QED
  BY <1>1, <1>3, MoreTerms, Zenon

\* The alternatives of a value that has a "|".
Alternatives(value, scope) == {StripRepeatedScope(p, scope) : p \in Pieces(value, "|")} \ {<<>>}

LEMMA AlternativesOK ==
  ASSUME NEW V, NEW value \in Seq(V), NEW scope, NEW a, a = SplitAlternatives(value, scope)
  PROVE  /\ a \in Seq(Seq(V))
         /\ Len(Split(value, "|")) = 1 => a = <<value>>
         /\ Len(Split(value, "|")) # 1 => ToSet(a) = Alternatives(value, scope)
<1>1. PICK parts \in Seq(Seq(V)) : parts = Split(value, "|")
  BY SplitOK
<1>2. PICK n \in Nat : n = Len(parts)
  OBVIOUS
<1>3. PICK alts : alts = [i \in 1..n |-> StripRepeatedScope(parts[i], scope)]
  OBVIOUS
<1>4. a = IF n = 1 THEN <<value>> ELSE Pick(alts, NotEmpty(alts))
  BY <1>1, <1>2, <1>3, Zenon DEF SplitAlternatives
<1>5. alts \in Seq(Seq(V)) /\ Len(alts) = n
  <2>1. ASSUME NEW i \in 1..n PROVE StripRepeatedScope(parts[i], scope) \in Seq(V)
    <3>1. parts[i] \in Seq(V)
      BY <1>2
    <3> QED
      BY <3>1, StripOK
  <2> QED
    BY <1>3, <2>1
<1>6. PICK S : S = NotEmpty(alts) /\ S = {k \in 1..n : alts[k] # <<>>}
  BY <1>5, Zenon DEF NotEmpty
<1>7. S \subseteq 1..Len(alts)
  BY <1>5, <1>6
<1>8. PICK f \in Seq(Seq(V)) : f = Pick(alts, S) /\ Len(f) = Cardinality(S)
  BY <1>5, <1>7, PickOK
<1>9. \A k \in 1..Cardinality(S) : f[k] = alts[Nth(S, k)]
  BY <1>5, <1>7, <1>8, PickAt
<1>10. /\ \A k \in 1..Cardinality(S) : Nth(S, k) \in S
       /\ \A i \in S : \E k \in 1..Cardinality(S) : Nth(S, k) = i
  BY <1>5, <1>7, PickedAt
<1>11. DOMAIN f = 1..Cardinality(S)
  BY <1>8
<1>12. PICK N : N = {StripRepeatedScope(p, scope) : p \in Pieces(value, "|")}
  OBVIOUS
<1>13. \A i \in 1..n : alts[i] = StripRepeatedScope(parts[i], scope)
  BY <1>3, Zenon
<1>14. Pieces(value, "|") = {parts[i] : i \in 1..n}
  BY <1>1, <1>2, Zenon DEF Pieces
<1>15. ASSUME NEW k \in 1..Cardinality(S) PROVE f[k] \in N \ {<<>>}
  <2>1. PICK i \in 1..n : f[k] = alts[i] /\ alts[i] # <<>>
    BY <1>6, <1>9, <1>10, Zenon
  <2> QED
    BY <1>12, <1>13, <1>14, <2>1, Zenon
<1>16. ASSUME NEW w \in N, w # <<>> PROVE \E k \in 1..Cardinality(S) : f[k] = w
  <2>1. PICK i \in 1..n : w = alts[i]
    BY <1>12, <1>13, <1>14, Zenon
  <2>2. i \in S
    BY <1>6, <1>16, <2>1, Zenon
  <2> QED
    BY <1>9, <1>10, <2>1, <2>2, Zenon
<1>17. ToSet(f) = N \ {<<>>}
  BY <1>11, <1>15, <1>16, Zenon DEF ToSet
<1>18. <<value>> \in Seq(Seq(V))
  OBVIOUS
<1> QED
  BY <1>1, <1>2, <1>4, <1>6, <1>8, <1>12, <1>17, <1>18, Zenon DEF Alternatives

\* The needles of a value that is no regex, whatever their order.
NeedlesOf(value, scope) == ToSet(SplitAlternatives(value, scope))

LEMMA NeedlesOK ==
  ASSUME NEW V, NEW value \in Seq(V), NEW scope
  PROVE  /\ (\A i \in 1..Len(value) : value[i] # "|") => NeedlesOf(value, scope) = {value}
         /\ (\E i \in 1..Len(value) : value[i] = "|") => NeedlesOf(value, scope) = Alternatives(value, scope)
         /\ NeedlesOf(value, scope) = {} <=> SplitAlternatives(value, scope) = <<>>
<1>1. PICK a \in Seq(Seq(V)) : a = SplitAlternatives(value, scope)
  BY AlternativesOK
<1>2. ASSUME \A i \in 1..Len(value) : value[i] # "|" PROVE NeedlesOf(value, scope) = {value}
  <2>1. Split(value, "|") = <<value>>
    BY <1>2, SplitWhole
  <2>2. Len(Split(value, "|")) = 1
    BY <2>1
  <2>3. a = <<value>>
    BY <1>1, <2>2, AlternativesOK
  <2>4. ToSet(a) = {value}
    BY <2>3 DEF ToSet
  <2> QED
    BY <1>1, <2>4, Zenon DEF NeedlesOf
<1>3. ASSUME \E i \in 1..Len(value) : value[i] = "|"
      PROVE NeedlesOf(value, scope) = Alternatives(value, scope)
  <2>1. Len(Split(value, "|")) # 1
    <3>1. PICK m \in Nat : m = Len(Split(value, "|"))
      BY SplitOK
    <3>2. m > 1
      BY <1>3, <3>1, SplitWhole
    <3>3. m # 1
      BY <3>2
    <3> QED
      BY <3>1, <3>3, Zenon
  <2>2. ToSet(a) = Alternatives(value, scope)
    BY <1>1, <2>1, AlternativesOK
  <2> QED
    BY <1>1, <2>2, Zenon DEF NeedlesOf
<1>4. ToSet(a) = {} <=> a = <<>>
  BY DEF ToSet
<1> QED
  BY <1>1, <1>2, <1>3, <1>4, Zenon DEF NeedlesOf

\* When a row meets a word.
Met(r, word) == \A t \in Term(word) : Found(t, r) # t.invert
Holds(r, scope, needles) == \E s \in TextsOf(r, scope) : \E n \in needles : Within(n, s)

LEMMA RowsMet ==
  ASSUME NEW V, NEW s \in Seq(V)
  PROVE  FilterRows(s) = {r \in ToSet(TableRows) : \A w \in Words(s) : Met(r, w)}
<1>1. PICK words : words = Words(s) /\ ParseFilter(s) = UNION {Term(t) : t \in words}
  BY WordsOK
<1>2. \A r : MatchesAll(r, ParseFilter(s)) <=> \A w \in words : Met(r, w)
  BY <1>1, Zenon DEF MatchesAll, Met
<1> QED
  BY <1>1, <1>2, Zenon DEF FilterRows

\* A word that is no regex, by its parts.
PlainWord(word, scope, value) ==
  /\ scope = ScopeOf(Drop(word, "!")) /\ value = ValueOf(Drop(word, "!"))
  /\ value # <<>> /\ ~Begins(value, "~")

LEMMA PlainTermOK ==
  ASSUME NEW word, NEW scope, NEW value, PlainWord(word, scope, value), NEW a, a = SplitAlternatives(value, scope)
  PROVE  Term(word) = IF a = <<>> THEN {} ELSE {[invert |-> Begins(word, "!"), scope |-> scope, needles |-> a]}
BY Zenon DEF Term, PlainWord

LEMMA PlainMet ==
  ASSUME NEW V, NEW word, NEW scope, NEW value \in Seq(V), PlainWord(word, scope, value), NEW r
  PROVE  Met(r, word) <=> (NeedlesOf(value, scope) = {} \/ (Holds(r, scope, NeedlesOf(value, scope)) <=> ~Begins(word, "!")))
<1>1. PICK a : a = SplitAlternatives(value, scope)
  OBVIOUS
<1>2. PICK t : t = [invert |-> Begins(word, "!"), scope |-> scope, needles |-> a]
  OBVIOUS
<1>3. Term(word) = IF a = <<>> THEN {} ELSE {t}
  BY <1>1, <1>2, PlainTermOK, Zenon
<1>4. NeedlesOf(value, scope) = ToSet(a) /\ (ToSet(a) = {} <=> a = <<>>)
  BY <1>1, NeedlesOK, Zenon DEF NeedlesOf
<1>5. t.invert = Begins(word, "!") /\ t.scope = scope /\ t.needles = a
  BY <1>2, Zenon
<1>6. Found(t, r) <=> Holds(r, scope, ToSet(a))
  BY <1>5, Zenon DEF Found, Holds
<1>7. Found(t, r) \in BOOLEAN /\ Begins(word, "!") \in BOOLEAN
  BY Zenon DEF Found, Begins
<1>8. (Found(t, r) # t.invert) <=> (Holds(r, scope, ToSet(a)) <=> ~Begins(word, "!"))
  BY <1>5, <1>6, <1>7, Zenon
<1> QED
  BY <1>3, <1>4, <1>8, Zenon DEF Met

-----------------------------------------------------------------------------
(* A "|" is typed *)

LEMMA AppendedOK ==
  ASSUME NEW V, NEW s \in Seq(V), NEW c \in V, NEW t, t = Append(s, c)
  PROVE  /\ t \in Seq(V) /\ t # <<>> /\ Len(t) = Len(s) + 1 /\ Len(s) \in Nat
         /\ \A i \in 1..Len(s) : t[i] = s[i]
         /\ t[Len(s) + 1] = c
         /\ s # <<>> => Head(t) = Head(s) /\ Tail(t) = Append(Tail(s), c)
<1>1. PICK n \in Nat : n = Len(s)
  OBVIOUS
<1>2. t \in Seq(V) /\ Len(t) = n + 1 /\ t[n + 1] = c /\ \A i \in 1..n : t[i] = s[i]
  BY <1>1
<1>3. t # <<>>
  BY <1>1, <1>2
<1>4. ASSUME s # <<>> PROVE Head(t) = Head(s) /\ Tail(t) = Append(Tail(s), c)
  <2>1. Head(t) = Head(s)
    BY <1>1, <1>2, <1>4
  <2>2. Tail(t) \in Seq(V) /\ Len(Tail(t)) = n /\ \A i \in 1..n : Tail(t)[i] = t[i + 1]
    BY <1>2
  <2>3. Tail(s) \in Seq(V) /\ Len(Tail(s)) = n - 1 /\ \A i \in 1..(n - 1) : Tail(s)[i] = s[i + 1]
    BY <1>1, <1>4
  <2>4. PICK x : x = Append(Tail(s), c)
    OBVIOUS
  <2>5. x \in Seq(V) /\ Len(x) = n /\ x[n] = c /\ \A i \in 1..(n - 1) : x[i] = s[i + 1]
    BY <1>1, <1>4, <2>3, <2>4
  <2>6. \A i \in 1..n : Tail(t)[i] = x[i]
    <3> TAKE i \in 1..n
    <3>1. CASE i = n
      BY <1>2, <2>2, <2>5, <3>1
    <3>2. CASE i \in 1..(n - 1)
      <4>1. i + 1 \in 1..n
        BY <3>2
      <4> QED
        BY <1>2, <2>2, <2>5, <3>2, <4>1
    <3>3. i = n \/ i \in 1..(n - 1)
      OBVIOUS
    <3> QED
      BY <3>1, <3>2, <3>3, Zenon
  <2>7. Tail(t) = x
    BY <2>2, <2>5, <2>6
  <2> QED
    BY <2>1, <2>4, <2>7, Zenon
<1> QED
  BY <1>1, <1>2, <1>3, <1>4

\* The text before the last separator stays when something else is typed.
LEMMA AppendBehind ==
  ASSUME NEW V, NEW s \in Seq(V), NEW c \in V, NEW sep, c # sep, NEW t, t = Append(s, c)
  PROVE  UpTo(t, sep) = UpTo(s, sep) /\ After(t, sep) = Append(After(s, sep), c)
<1>1. PICK n \in Nat : n = Len(s)
  OBVIOUS
<1>2. t \in Seq(V) /\ Len(t) = n + 1 /\ t[n + 1] = c /\ \A i \in 1..n : t[i] = s[i]
  BY <1>1, AppendedOK
<1>3. PICK l \in 0..n : l = LastAt(s, sep) /\ (l = 0 \/ s[l] = sep) /\ \A k \in 1..n : s[k] = sep => k <= l
  BY <1>1, LastAtOK
<1>4. PICK m \in 0..(n + 1) : m = LastAt(t, sep) /\ (m = 0 \/ t[m] = sep) /\ \A k \in 1..(n + 1) : t[k] = sep => k <= m
  BY <1>2, LastAtOK
<1>5. m # n + 1
  BY <1>2, <1>4
<1>6. m \in 0..n
  BY <1>5
<1>7. m <= l
  <2>1. CASE m = 0
    BY <2>1
  <2>2. CASE m \in 1..n
    BY <1>2, <1>3, <1>4, <2>2
  <2> QED
    BY <1>6, <2>1, <2>2
<1>8. l <= m
  <2>1. CASE l = 0
    BY <2>1
  <2>2. CASE l \in 1..n
    <3>1. t[l] = sep /\ l \in 1..(n + 1)
      BY <1>2, <1>3, <2>2
    <3> QED
      BY <1>4, <3>1
  <2> QED
    BY <2>1, <2>2
<1>9. m = l
  BY <1>7, <1>8
<1>10. SubSeq(t, 1, l) = SubSeq(s, 1, l)
  BY <1>1, <1>2
<1>11. PICK a, b : a = SubSeq(s, l + 1, n) /\ b = SubSeq(t, l + 1, n + 1)
  OBVIOUS
<1>12. PICK d \in Nat : d = n - l
  OBVIOUS
<1>13. a \in Seq(V) /\ Len(a) = d /\ \A i \in 1..d : a[i] = s[l + i]
  <2>1. \A i \in (l + 1)..n : s[i] \in V
    BY <1>1
  <2>2. a \in Seq(V)
    BY <1>1, <1>11, <2>1
  <2>3. Len(a) = d
    BY <1>1, <1>11, <1>12
  <2>4. \A i \in 1..d : a[i] = s[l + i]
    BY <1>1, <1>11, <1>12
  <2> QED
    BY <2>2, <2>3, <2>4
<1>14. b \in Seq(V) /\ Len(b) = d + 1 /\ \A i \in 1..(d + 1) : b[i] = t[l + i]
  <2>1. \A i \in (l + 1)..(n + 1) : t[i] \in V
    BY <1>2
  <2>2. b \in Seq(V)
    BY <1>2, <1>11, <2>1
  <2>3. Len(b) = d + 1
    BY <1>2, <1>11, <1>12
  <2>4. \A i \in 1..(d + 1) : b[i] = t[l + i]
    <3>1. b = [i \in 1..(d + 1) |-> t[l + i]]
      BY <1>1, <1>2, <1>11, <1>12
    <3> QED
      BY <3>1
  <2> QED
    BY <2>2, <2>3, <2>4
<1>15. PICK x : x = Append(a, c)
  OBVIOUS
<1>16. x \in Seq(V) /\ Len(x) = d + 1 /\ x[d + 1] = c /\ \A i \in 1..d : x[i] = a[i]
  BY <1>13, <1>15, AppendedOK
<1>17. \A i \in 1..(d + 1) : b[i] = x[i]
  <2> TAKE i \in 1..(d + 1)
  <2>1. CASE i = d + 1
    <3>1. l + i = n + 1
      BY <1>12, <2>1
    <3> QED
      BY <1>2, <1>14, <1>16, <2>1, <3>1
  <2>2. CASE i \in 1..d
    <3>1. l + i \in 1..n
      BY <1>12, <2>2
    <3> QED
      BY <1>2, <1>13, <1>14, <1>16, <2>2, <3>1
  <2> QED
    BY <2>1, <2>2
<1>18. b = x
  BY <1>14, <1>16, <1>17
<1>19. UpTo(t, sep) = SubSeq(t, 1, l) /\ UpTo(s, sep) = SubSeq(s, 1, l)
  BY <1>3, <1>4, <1>9, Zenon DEF UpTo
<1>20. After(t, sep) = b /\ After(s, sep) = a
  BY <1>1, <1>2, <1>3, <1>4, <1>9, <1>11, Zenon DEF After
<1> QED
  BY <1>10, <1>15, <1>18, <1>19, <1>20, Zenon

\* A word that goes on keeps its "!" and its column.
Extended(t, w, c) ==
  /\ Begins(t, "!") <=> Begins(w, "!")
  /\ ScopeOf(Drop(t, "!")) = ScopeOf(Drop(w, "!"))
  /\ ValueOf(Drop(t, "!")) = Append(ValueOf(Drop(w, "!")), c)

LEMMA WordExtended ==
  ASSUME NEW V, NEW w \in Seq(V), NEW c \in V, ValueOf(Drop(w, "!")) # <<>>, NEW t, t = Append(w, c)
  PROVE  Extended(t, w, c)
<1>1. w # <<>>
  BY Zenon DEF Drop, Begins, ValueOf, Scoped
<1>2. t # <<>> /\ Head(t) = Head(w) /\ Tail(t) = Append(Tail(w), c)
  BY <1>1, AppendedOK
<1>3. PICK tok \in Seq(V) : tok = Drop(w, "!") /\ ValueOf(tok) # <<>>
  BY DropOK
<1>4. Begins(t, "!") <=> Begins(w, "!")
  BY <1>1, <1>2, Zenon DEF Begins
<1>5. PICK tok2 : tok2 = Drop(t, "!") /\ tok2 = Append(tok, c)
  BY <1>2, <1>3, <1>4, Zenon DEF Drop
<1>6. tok # <<>>
  BY <1>3, Zenon DEF ValueOf, Scoped
<1>7. tok2 # <<>> /\ Head(tok2) = Head(tok) /\ Tail(tok2) = Append(Tail(tok), c)
  BY <1>5, <1>6, AppendedOK
<1>8. Scoped(tok2) <=> Scoped(tok)
  BY <1>6, <1>7, Zenon DEF Scoped
<1>9. ScopeOf(tok2) = ScopeOf(tok) /\ ValueOf(tok2) = Append(ValueOf(tok), c)
  BY <1>5, <1>7, <1>8, Zenon DEF ScopeOf, ValueOf
<1> QED
  BY <1>3, <1>4, <1>5, <1>9, Zenon DEF Extended

\* An empty alternative adds no needle.
LEMMA BarAdded ==
  ASSUME NEW V, NEW v \in Seq(V), "|" \in V, v # <<>>, ~Scoped(v), NEW scope, NEW w, w = Append(v, "|")
  PROVE  NeedlesOf(w, scope) = NeedlesOf(v, scope)
<1>1. /\ w \in Seq(V) /\ Len(w) = Len(v) + 1 /\ Len(v) \in Nat /\ w[Len(v) + 1] = "|"
  BY AppendedOK
<1>2. PICK k \in 1..Len(w) : w[k] = "|"
  <2>1. PICK k : k = Len(v) + 1
    OBVIOUS
  <2>2. k \in 1..Len(w) /\ w[k] = "|"
    BY <1>1, <2>1
  <2> QED
    BY <2>2, Zenon
<1>3. NeedlesOf(w, scope) = Alternatives(w, scope)
  BY <1>1, <1>2, NeedlesOK
<1>4. PICK p, q : p = Split(v, "|") /\ q = Split(w, "|")
  OBVIOUS
<1>5. PICK n \in Nat : n = Len(p)
  BY <1>4, SplitOK
<1>6. Len(q) = n + 1 /\ (\A i \in 1..n : q[i] = p[i]) /\ q[n + 1] = <<>>
  BY <1>4, <1>5, SplitAppended
<1>7. {q[i] : i \in 1..(n + 1)} = {p[i] : i \in 1..n} \cup {<<>>}
  <2>1. ASSUME NEW i \in 1..(n + 1) PROVE q[i] \in {p[j] : j \in 1..n} \cup {<<>>}
    <3>1. i \in 1..n \/ i = n + 1
      OBVIOUS
    <3> QED
      BY <1>6, <3>1, Zenon
  <2>2. ASSUME NEW i \in 1..n PROVE p[i] \in {q[j] : j \in 1..(n + 1)}
    <3>1. i \in 1..(n + 1)
      OBVIOUS
    <3> QED
      BY <1>6, <3>1, Zenon
  <2>3. <<>> \in {q[j] : j \in 1..(n + 1)}
    <3>1. n + 1 \in 1..(n + 1)
      OBVIOUS
    <3> QED
      BY <1>6, <3>1, Zenon
  <2> QED
    BY <2>1, <2>2, <2>3, Zenon
<1>8. Pieces(w, "|") = Pieces(v, "|") \cup {<<>>}
  <2>1. Pieces(w, "|") = {q[i] : i \in 1..(n + 1)}
    BY <1>4, <1>6, Zenon DEF Pieces
  <2>2. Pieces(v, "|") = {p[i] : i \in 1..n}
    BY <1>4, <1>5, Zenon DEF Pieces
  <2> QED
    BY <1>7, <2>1, <2>2, Zenon
<1>9. StripRepeatedScope(<<>>, scope) = <<>> /\ StripRepeatedScope(v, scope) = v
  BY Zenon DEF StripRepeatedScope, Scoped
<1>10. NeedlesOf(w, scope) = Alternatives(v, scope)
  BY <1>3, <1>8, <1>9, Zenon DEF Alternatives
<1>11. CASE \E i \in 1..Len(v) : v[i] = "|"
  <2>1. NeedlesOf(v, scope) = Alternatives(v, scope)
    BY <1>11, NeedlesOK
  <2> QED
    BY <1>10, <2>1, Zenon
<1>12. CASE \A i \in 1..Len(v) : v[i] # "|"
  <2>1. p = <<v>>
    BY <1>4, <1>12, SplitWhole
  <2>2. {p[i] : i \in 1..Len(p)} = {v}
    BY <2>1
  <2>3. Pieces(v, "|") = {v}
    BY <1>4, <2>2, Zenon DEF Pieces
  <2>4. Alternatives(v, scope) = {v}
    <3>1. Alternatives(v, scope) = {StripRepeatedScope(x, scope) : x \in {v}} \ {<<>>}
      BY <2>3, Zenon DEF Alternatives
    <3>2. {StripRepeatedScope(x, scope) : x \in {v}} = {v}
      BY <1>9, Zenon
    <3>3. {v} \ {<<>>} = {v}
      OBVIOUS
    <3> QED
      BY <3>1, <3>2, <3>3, Zenon
  <2>5. NeedlesOf(v, scope) = {v}
    BY <1>12, NeedlesOK
  <2> QED
    BY <1>10, <2>4, <2>5, Zenon
<1> QED
  BY <1>11, <1>12

LEMMA BarHarmless ==
  ASSUME NEW V, "|" \in V, NEW s \in Seq(V), NEW last, last = After(s, Space), last # <<>>,
         NEW v, v = ValueOf(Drop(last, "!")), v # <<>>, ~Begins(v, "~"), ~Scoped(v)
  PROVE  FilterRows(Append(s, "|")) = FilterRows(s)
<1>1. PICK t, u, more, w, scope : /\ t = Append(s, "|") /\ u = UpTo(s, Space) /\ more = Append(last, "|")
                                  /\ w = Append(v, "|") /\ scope = ScopeOf(Drop(last, "!"))
  OBVIOUS
<1>2. "|" # Space
  BY Zenon DEF Space
<1>3. t \in Seq(V) /\ last \in Seq(V) /\ u \in Seq(V)
  BY <1>1, AppendedOK, WordsBefore
<1>4. UpTo(t, Space) = u /\ After(t, Space) = more
  <2>1. UpTo(t, Space) = UpTo(s, Space) /\ After(t, Space) = Append(After(s, Space), "|")
    BY <1>1, <1>2, AppendBehind, ZenonT(30)
  <2> QED
    BY <1>1, <2>1, Zenon
<1>5. more # <<>> /\ more \in Seq(V)
  <2>1. PICK c : c = "|" /\ c \in V
    OBVIOUS
  <2>2. last \in Seq(V) /\ more = Append(last, c)
    BY <1>1, <1>3, <2>1, Zenon
  <2> QED
    BY <2>1, <2>2, AppendedOK
<1>6. Words(s) = Words(u) \cup {last}
  <2>1. Words(s) = Words(u) \cup ({last} \ {<<>>})
    BY <1>1, WordsBefore
  <2> QED
    BY <2>1
<1>7. Words(t) = Words(u) \cup {more}
  <2>1. Words(t) = Words(u) \cup ({more} \ {<<>>})
    BY <1>3, <1>4, WordsBefore
  <2> QED
    BY <1>5, <2>1
<1>8. v \in Seq(V)
  <2>1. Drop(last, "!") \in Seq(V)
    BY <1>3, DropOK
  <2> QED
    BY <2>1, DropOK
<1>9. /\ Begins(more, "!") <=> Begins(last, "!")
      /\ ScopeOf(Drop(more, "!")) = scope /\ ValueOf(Drop(more, "!")) = w
  <2>1. ValueOf(Drop(last, "!")) # <<>>
    BY Zenon
  <2>2. /\ Begins(more, "!") <=> Begins(last, "!")
        /\ ScopeOf(Drop(more, "!")) = ScopeOf(Drop(last, "!"))
        /\ ValueOf(Drop(more, "!")) = Append(ValueOf(Drop(last, "!")), "|")
    <3>1. Extended(more, last, "|")
      BY <1>1, <1>3, <2>1, WordExtended
    <3> QED
      BY <3>1, Zenon DEF Extended
  <2> QED
    BY <1>1, <2>2, Zenon
<1>10. w \in Seq(V) /\ w # <<>> /\ Head(w) = Head(v)
  BY <1>1, <1>8, AppendedOK
<1>11. PlainWord(last, scope, v)
  BY <1>1, Zenon DEF PlainWord
<1>12. PlainWord(more, scope, w)
  BY <1>9, <1>10, Zenon DEF PlainWord, Begins
<1>13. NeedlesOf(w, scope) = NeedlesOf(v, scope)
  BY <1>1, <1>8, BarAdded
<1>14. ASSUME NEW r PROVE Met(r, more) <=> Met(r, last)
  <2>1. PICK N : N = NeedlesOf(v, scope) /\ N = NeedlesOf(w, scope)
    BY <1>13
  <2>2. Met(r, last) <=> (N = {} \/ (Holds(r, scope, N) <=> ~Begins(last, "!")))
    BY <1>8, <1>11, <2>1, PlainMet, Zenon
  <2>3. Met(r, more) <=> (N = {} \/ (Holds(r, scope, N) <=> ~Begins(more, "!")))
    BY <1>10, <1>12, <2>1, PlainMet, Zenon
  <2> QED
    BY <1>9, <2>2, <2>3, Zenon
<1>15. FilterRows(s) = {r \in ToSet(TableRows) : \A x \in Words(s) : Met(r, x)}
  BY RowsMet
<1>16. FilterRows(t) = {r \in ToSet(TableRows) : \A x \in Words(t) : Met(r, x)}
  BY <1>3, RowsMet
<1>17. \A r : (\A x \in Words(s) : Met(r, x)) <=> (\A x \in Words(t) : Met(r, x))
  <2> TAKE r
  <2>1. (\A x \in Words(s) : Met(r, x)) <=> (\A x \in Words(u) : Met(r, x)) /\ Met(r, last)
    BY <1>6, Zenon
  <2>2. (\A x \in Words(t) : Met(r, x)) <=> (\A x \in Words(u) : Met(r, x)) /\ Met(r, more)
    BY <1>7, Zenon
  <2> QED
    BY <1>14, <2>1, <2>2, Zenon
<1>18. FilterRows(t) = FilterRows(s)
  BY <1>15, <1>16, <1>17, Zenon
<1> QED
  BY <1>1, <1>18, Zenon

LEMMA InvBar ==
  ASSUME Inv
  PROVE  BarIsHarmless /\ TermsNarrow
<1>1. PICK W : W = CommandKeys \cup FilterKeys /\ Texts = Seq(W)
  BY DEF Texts
<1>2. buf \in Seq(W)
  BY <1>1 DEF Inv, LineInv, TypeInv
<1>3. PICK V : V = W \cup {"|"}
  OBVIOUS
<1>4. "|" \in V /\ buf \in Seq(V)
  BY <1>2, <1>3
<1>5. BarIsHarmless
  <2> SUFFICES ASSUME LastToken # <<>>, PlainValue PROVE FilterRows(Append(buf, "|")) = FilterRows(buf)
    BY Zenon DEF BarIsHarmless
  <2>1. PICK last : last = After(buf, Space) /\ last = LastToken
    BY Zenon DEF LastToken, Space
  <2>2. PICK v : v = ValueOf(Drop(last, "!"))
    OBVIOUS
  <2>3. v # <<>> /\ ~Begins(v, "~") /\ ~Scoped(v)
    BY <2>1, <2>2, Zenon DEF PlainValue
  <2> QED
    BY <1>4, <2>1, <2>2, <2>3, BarHarmless
<1>6. TermsNarrow
  <2>1. FilterRows(buf) \subseteq FilterRows(UpTo(buf, Space))
    BY <1>4, TermsNarrowOK
  <2> QED
    BY <2>1, Zenon DEF TermsNarrow, Space
<1> QED
  BY <1>5, <1>6

-----------------------------------------------------------------------------
(* The hint for an empty result *)

\* What a row says holds no mark.
LEMMA RowTexts ==
  ASSUME NEW r \in ToSet(TableRows), NEW scope, NEW s \in TextsOf(r, scope)
  PROVE  /\ s \in Seq(STRING) /\ \A i \in 1..Len(s) : s[i] \notin DOMAIN ColumnScope \cup {"!", "~", "|"}
         /\ s # <<>> => s[1] # Space
<1>1. s \in {r.ns, r.name, r.cell}
  BY Zenon DEF TextsOf
<1>2. PICK k \in DOMAIN TableRows : r = TableRows[k]
  BY Zenon DEF ToSet
<1>3. PICK T : T = [ns : Seq(STRING), name : Seq(STRING), cell : Seq(STRING)]
  OBVIOUS
<1>4. TableRows \in Seq(T)
  BY <1>3, RowsOK, Zenon
<1>5. k \in 1..Len(TableRows) /\ r \in T
  BY <1>2, <1>4
<1>6. r.ns \in Seq(STRING) /\ r.name \in Seq(STRING) /\ r.cell \in Seq(STRING)
  BY <1>3, <1>5
<1>7. s \in Seq(STRING)
  BY <1>1, <1>6, Zenon
<1>8. /\ \A i \in 1..Len(s) : s[i] \notin DOMAIN ColumnScope \cup {"!", "~", "|"}
      /\ s # <<>> => s[1] # " "
  BY <1>1, <1>2, <1>5, RowsOK, Zenon
<1> QED
  BY <1>7, <1>8, Zenon DEF Space

LEMMA ColumnOK ==
  ASSUME NEW c \in DOMAIN ColumnScope
  PROVE  c # "!" /\ c # "~" /\ c # "|" /\ c # Space
<1>1. c \notin {"!", "~", "|", " "}
  BY RowsOK, Zenon
<1> QED
  BY <1>1, Zenon DEF Space

\* A word has something, but no space.
LEMMA WordShape ==
  ASSUME NEW V, NEW s \in Seq(V), NEW w \in Words(s)
  PROVE  w \in Seq(V) /\ w # <<>> /\ \A i \in 1..Len(w) : w[i] # Space
<1>1. w \in Pieces(s, Space) /\ w # <<>>
  BY Zenon DEF Words
<1>2. PICK a \in 0..(Len(s) + 1), b \in 0..(Len(s) + 1) :
        Adjacent(Cuts(s, Space), a, b) /\ w = SubSeq(s, a + 1, b - 1)
  <2>1. \E a, b \in 0..(Len(s) + 1) : Adjacent(Cuts(s, Space), a, b) /\ w = SubSeq(s, a + 1, b - 1)
    BY <1>1, CutsOfPiece
  <2> QED
    BY <2>1, Zenon
<1>3. a < b /\ \A c \in Cuts(s, Space) : c <= a \/ b <= c
  BY <1>2, Zenon DEF Adjacent
<1>4. /\ w \in Seq(V) /\ Len(w) = b - a - 1
      /\ \A i \in 1..(b - a - 1) : w[i] = s[a + i] /\ a + i \in 1..Len(s)
  BY <1>2, <1>3, BetweenOK
<1>5. ASSUME NEW i \in 1..Len(w), w[i] = Space PROVE FALSE
  <2>1. i \in 1..(b - a - 1) /\ Len(s) \in Nat
    BY <1>4
  <2>2. PICK k : k = a + i /\ k \in 1..Len(s) /\ s[k] = Space
    BY <1>4, <1>5, <2>1
  <2>3. k \in Cuts(s, Space)
    BY <2>2, Zenon DEF Cuts
  <2>4. k <= a \/ b <= k
    BY <1>3, <2>3
  <2> QED
    BY <1>2, <2>1, <2>2, <2>4
<1> QED
  BY <1>1, <1>4, <1>5

\* The rows of a word.
LEMMA RowsOfWord ==
  ASSUME NEW V, NEW w \in Seq(V), w # <<>>, \A i \in 1..Len(w) : w[i] # Space
  PROVE  FilterRows(w) = {r \in ToSet(TableRows) : Met(r, w)}
<1>1. ParseFilter(w) = Term(w)
  BY OneWord
<1> QED
  BY <1>1, Zenon DEF FilterRows, MatchesAll, Met

LEMMA EmptyOK ==
  ASSUME NEW V
  PROVE  <<>> \in Seq(V) /\ Len(<<>>) = 0
OBVIOUS

LEMMA SameLetters ==
  ASSUME NEW V, NEW s \in Seq(V), NEW t \in Seq(V), Len(s) = Len(t), \A i \in 1..Len(t) : s[i] = t[i]
  PROVE  s = t
OBVIOUS

\* Values that are joined keep their alternatives.
JoinedValues(V, terms, j) ==
  /\ j \in Seq(V) /\ j # <<>> /\ j[1] = Tail(terms[1])[1]
  /\ \E i \in 1..Len(j) : j[i] = "|"
  /\ \A k \in 1..Len(terms) : Pieces(Tail(terms[k]), "|") \subseteq Pieces(j, "|")
  /\ \A i \in 1..Len(j) : j[i] = "|" \/ \E k \in 1..Len(terms) : \E m \in 1..Len(Tail(terms[k])) : j[i] = Tail(terms[k])[m]

LEMMA JoinedOK ==
  ASSUME NEW V, "|" \in V, NEW terms \in Seq(Seq(V)), Len(terms) > 1,
         \A k \in 1..Len(terms) : terms[k] # <<>> /\ Tail(terms[k]) # <<>>, NEW j, j = Joined(terms)
  PROVE  JoinedValues(V, terms, j)
<1>1. PICK n \in Nat : n = Len(terms) /\ n > 1
  OBVIOUS
<1>2. PICK bar : bar = "|" /\ bar \in V
  OBVIOUS
<1>3. PICK tl : tl = [k \in 1..n |-> Tail(terms[k])]
  OBVIOUS
<1>4. ASSUME NEW k \in 1..n
      PROVE  tl[k] = Tail(terms[k]) /\ tl[k] \in Seq(V) /\ tl[k] # <<>> /\ Len(tl[k]) \in Nat \ {0}
  <2>1. terms[k] \in Seq(V) /\ terms[k] # <<>> /\ Tail(terms[k]) # <<>>
    BY <1>1
  <2>2. PICK x : x = Tail(terms[k]) /\ x \in Seq(V) /\ x # <<>>
    BY <2>1, TailOK
  <2>3. Len(x) \in Nat \ {0}
    BY <2>2, TailOK
  <2>4. tl[k] = x
    BY <1>3, <2>2, Zenon
  <2> QED
    BY <2>2, <2>3, <2>4, Zenon
<1>5. PICK ss : ss = [k \in 1..n |-> <<bar>> \o tl[k]]
  OBVIOUS
<1>6. ASSUME NEW k \in 1..n PROVE Behind(V, <<bar>>, tl[k], ss[k])
  <2>1. <<bar>> \in Seq(V)
    BY <1>2
  <2>2. PICK x : x = <<bar>> \o tl[k]
    OBVIOUS
  <2>3. Behind(V, <<bar>>, tl[k], x)
    BY <1>4, <2>1, <2>2, BehindOK, Zenon
  <2> QED
    BY <1>5, <2>2, <2>3, Zenon
<1>7. ASSUME NEW k \in 1..n
      PROVE  /\ ss[k] \in Seq(V) /\ Len(ss[k]) = Len(tl[k]) + 1 /\ ss[k][1] = bar
             /\ \A m \in 1..Len(tl[k]) : ss[k][m + 1] = tl[k][m]
             /\ Tail(ss[k]) = tl[k] /\ ss[k] # <<>>
  <2>1. PICK b, x, y : b = <<bar>> /\ x = tl[k] /\ y = ss[k]
    OBVIOUS
  <2>2. Len(b) = 1 /\ b[1] = bar
    BY <2>1
  <2>3. /\ y \in Seq(V) /\ Len(x) \in Nat /\ Len(y) = Len(b) + Len(x)
        /\ \A p \in 1..Len(b) : y[p] = b[p]
        /\ \A q \in 1..Len(x) : y[Len(b) + q] = x[q]
    BY <1>6, <2>1, Zenon DEF Behind
  <2>4. y \in Seq(V) /\ Len(y) = Len(x) + 1 /\ y[1] = bar
    BY <2>2, <2>3
  <2>5. \A m \in 1..Len(x) : y[m + 1] = x[m]
    <3> TAKE m \in 1..Len(x)
    <3>1. y[1 + m] = x[m]
      BY <2>2, <2>3
    <3>2. 1 + m = m + 1
      BY <2>3
    <3> QED
      BY <3>1, <3>2, Zenon
  <2>6. y # <<>>
    BY <2>3, <2>4
  <2>7. Tail(y) = x
    <3>1. PICK z : z = Tail(y) /\ z \in Seq(V) /\ Len(z) = Len(y) - 1 /\ \A m \in 1..Len(z) : z[m] = y[m + 1]
      BY <2>4, <2>6, TailOK
    <3>2. x \in Seq(V)
      BY <1>4, <2>1
    <3>3. Len(z) = Len(x) /\ \A m \in 1..Len(x) : z[m] = x[m]
      BY <2>3, <2>4, <2>5, <3>1
    <3> QED
      BY <3>1, <3>2, <3>3, SameLetters
  <2> QED
    BY <2>1, <2>4, <2>5, <2>6, <2>7, Zenon
<1>8. ss \in Seq(Seq(V)) /\ Len(ss) = n
  BY <1>5, <1>7
<1>9. Preceded(ss, bar)
  BY <1>7, <1>8 DEF Preceded
<1>10. PICK F : F = Flatten(ss)
  OBVIOUS
<1>11. j = Tail(F)
  <2>1. \A k \in 1..n : <<bar>> \o tl[k] = <<"|">> \o Tail(terms[k])
    BY <1>2, <1>4, Zenon
  <2>2. ss = [k \in 1..n |-> <<"|">> \o Tail(terms[k])]
    BY <1>5, <2>1, Zenon
  <2> QED
    BY <1>1, <1>10, <2>2, Zenon DEF Joined
<1>12. F \in Seq(V)
  BY <1>8, <1>10, FlattenOK, Zenon
<1>13. PICK off : Offsets(ss, off)
  BY <1>8, FlattenOK, Zenon
<1>14. off[0] = 0 /\ \A k \in 1..n : off[k] = off[k - 1] + Len(ss[k]) /\ \A l \in 1..Len(ss[k]) : F[off[k - 1] + l] = ss[k][l]
  BY <1>8, <1>10, <1>13 DEF Offsets
<1>15. 1 \in 1..n /\ 2 \in 1..n /\ 1 - 1 = 0 /\ 2 - 1 = 1
  BY <1>1
<1>16. PICK L : L = Len(tl[1]) /\ L \in Nat \ {0}
  BY <1>4, <1>15, Zenon
<1>17. Len(ss[1]) = L + 1 /\ Len(ss[2]) \in Nat \ {0} /\ ss[2][1] = bar /\ ss[1][1 + 1] = tl[1][1]
  <2>1. ss[1] \in Seq(V) /\ Len(ss[1]) = Len(tl[1]) + 1 /\ \A m \in 1..Len(tl[1]) : ss[1][m + 1] = tl[1][m]
    BY <1>7, <1>15, Zenon
  <2>2. ss[2] \in Seq(V) /\ Len(ss[2]) = Len(tl[2]) + 1 /\ ss[2][1] = bar /\ Len(tl[2]) \in Nat
    BY <1>4, <1>7, <1>15
  <2>3. 1 \in 1..Len(tl[1])
    BY <1>16
  <2> QED
    BY <1>16, <2>1, <2>2, <2>3, SMTT(30)
<1>18. off[1] = L + 1 /\ F[0 + 2] = tl[1][1] /\ F[L + 1 + 1] = bar
  <2>1. off[1] = 0 + Len(ss[1]) /\ 2 \in 1..Len(ss[1]) /\ 1 \in 1..Len(ss[2])
    BY <1>14, <1>15, <1>16, <1>17
  <2>2. F[0 + 2] = ss[1][2]
    BY <1>14, <1>15, <2>1
  <2>3. off[1] = L + 1
    BY <1>16, <1>17, <2>1
  <2>4. F[L + 1 + 1] = ss[2][1]
    BY <1>14, <1>15, <2>1, <2>3
  <2> QED
    BY <1>17, <2>2, <2>3, <2>4
<1>19. off[2] \in Nat /\ off[1] \in Nat /\ off[2] = off[1] + Len(ss[2]) /\ off[2] <= Len(F)
  <2>1. /\ off[2 - 1] \in Nat /\ off[2] \in Nat /\ off[2] = off[2 - 1] + Len(ss[2]) /\ off[2] <= Len(Flatten(ss))
    <3>1. ASSUME NEW k \in 1..Len(ss)
          PROVE  off[k - 1] \in Nat /\ off[k] \in Nat /\ off[k] = off[k - 1] + Len(ss[k]) /\ off[k] <= Len(Flatten(ss))
      BY <1>8, <1>13, OffsetsOK
    <3> QED
      BY <1>8, <1>15, <3>1, Zenon
  <2> QED
    BY <1>10, <1>15, <2>1
<1>20. PICK N : N = Len(F) /\ N \in Nat
  <2>1. Len(F) \in Nat
    BY <1>12
  <2> QED
    BY <2>1, Zenon
<1>21. N > L + 1
  <2>1. PICK a, b, c : a = off[1] /\ b = off[2] /\ c = Len(ss[2])
    OBVIOUS
  <2>2. a = L + 1 /\ b = a + c /\ b <= N /\ c \in Nat \ {0} /\ b \in Nat
    BY <1>17, <1>18, <1>19, <1>20, <2>1, Zenon
  <2> QED
    BY <1>16, <1>20, <2>2
<1>22. F # <<>>
  BY <1>12, <1>16, <1>20, <1>21
<1>23. j \in Seq(V) /\ Len(j) = N - 1 /\ \A m \in 1..Len(j) : j[m] = F[m + 1]
  BY <1>11, <1>12, <1>20, <1>22, TailOK
<1>24. 1 \in 1..Len(j) /\ L + 1 \in 1..Len(j) /\ 1 + 1 = 0 + 2
  BY <1>16, <1>20, <1>21, <1>23
<1>25. j[1] = tl[1][1] /\ j[L + 1] = bar /\ j # <<>>
  <2>1. j[1] = F[1 + 1] /\ j[L + 1] = F[L + 1 + 1]
    BY <1>23, <1>24, Zenon
  <2>2. Len(j) # 0
    <3>1. ASSUME NEW l \in Nat, 1 \in 1..l PROVE l # 0
      BY <3>1
    <3>2. Len(j) \in Nat
      BY <1>23
    <3> QED
      BY <1>24, <3>1, <3>2, Zenon
  <2>3. j # <<>>
    BY <2>2, EmptyOK, Zenon
  <2> QED
    BY <1>18, <1>24, <2>1, <2>3, Zenon
<1>26. \A k \in 1..n : Pieces(tl[k], bar) \subseteq Pieces(j, bar)
  <2> TAKE k \in 1..n
  <2>1. Pieces(Tail(ss[k]), bar) \subseteq Pieces(Tail(F), bar)
    BY <1>2, <1>8, <1>9, <1>10, MarkedPieces
  <2>2. Tail(ss[k]) = tl[k]
    BY <1>7
  <2> QED
    BY <1>11, <2>1, <2>2, Zenon
<1>27. ASSUME NEW i \in 1..Len(j)
       PROVE  j[i] = bar \/ \E k \in 1..n : \E m \in 1..Len(tl[k]) : j[i] = tl[k][m]
  <2>1. PICK p : p = i + 1 /\ p \in 1..N /\ j[i] = F[p]
    BY <1>20, <1>23
  <2>2. \E k \in 1..Len(ss) : \E q \in 1..Len(ss[k]) : Flatten(ss)[p] = ss[k][q]
    BY <1>8, <1>10, <1>20, <2>1, FlattenMembers
  <2>3. PICK k \in 1..n : \E q \in 1..Len(ss[k]) : F[p] = ss[k][q]
    BY <1>8, <1>10, <2>2, Zenon
  <2>4. PICK q \in 1..Len(ss[k]) : F[p] = ss[k][q]
    BY <2>3, Zenon
  <2>5. PICK T : T = Len(tl[k]) /\ T \in Nat /\ Len(ss[k]) = T + 1 /\ ss[k][1] = bar /\ \A m \in 1..T : ss[k][m + 1] = tl[k][m]
    BY <1>4, <1>7
  <2>6. CASE q = 1
    BY <2>1, <2>4, <2>5, <2>6
  <2>7. CASE q # 1
    <3>1. PICK m : m = q - 1 /\ m \in 1..T /\ m + 1 = q
      BY <2>4, <2>5, <2>7, SMTT(30)
    <3>2. ss[k][m + 1] = tl[k][m]
      BY <2>5, <3>1
    <3>3. j[i] = tl[k][m]
      BY <2>1, <2>4, <3>1, <3>2
    <3> QED
      BY <2>5, <3>1, <3>3, Zenon
  <2> QED
    BY <2>6, <2>7, Zenon
<1>28. j \in Seq(V) /\ j # <<>> /\ j[1] = Tail(terms[1])[1]
  BY <1>4, <1>15, <1>23, <1>25
<1>29. \E i \in 1..Len(j) : j[i] = "|"
  BY <1>2, <1>24, <1>25
<1>30. \A k \in 1..Len(terms) : Pieces(Tail(terms[k]), "|") \subseteq Pieces(j, "|")
  BY <1>1, <1>2, <1>4, <1>26, Zenon
<1>31. \A i \in 1..Len(j) : j[i] = "|" \/ \E k \in 1..Len(terms) : \E m \in 1..Len(Tail(terms[k])) : j[i] = Tail(terms[k])[m]
  <2> SUFFICES ASSUME NEW i \in 1..Len(j), j[i] # "|"
               PROVE  \E k \in 1..Len(terms) : \E m \in 1..Len(Tail(terms[k])) : j[i] = Tail(terms[k])[m]
    BY Zenon
  <2>1. PICK k \in 1..n : \E m \in 1..Len(tl[k]) : j[i] = tl[k][m]
    BY <1>2, <1>27, Zenon
  <2>2. \E m \in 1..Len(Tail(terms[k])) : j[i] = Tail(terms[k])[m]
    BY <1>4, <2>1, Zenon
  <2> QED
    BY <1>1, <2>2, Zenon
<1> QED
  BY <1>28, <1>29, <1>30, <1>31, Zenon DEF JoinedValues

\* A sublist has what its sequence has at the positions that are kept, and nothing else.
Keeps(p, s, S) ==
  /\ \A k \in 1..Len(p) : \E i \in S : p[k] = s[i]
  /\ \A i \in S : \E k \in 1..Len(p) : p[k] = s[i]

LEMMA PickKeeps ==
  ASSUME NEW V, NEW s \in Seq(V), NEW S, S \subseteq 1..Len(s), NEW p, p = Pick(s, S)
  PROVE  p \in Seq(V) /\ Keeps(p, s, S)
<1>1. PICK c : c = Cardinality(S)
  OBVIOUS
<1>2. p \in Seq(V) /\ Len(p) = c
  BY <1>1, PickOK
<1>3. \A k \in 1..c : p[k] = s[Nth(S, k)]
  BY <1>1, PickAt
<1>4. (\A k \in 1..c : Nth(S, k) \in S) /\ (\A i \in S : \E k \in 1..c : Nth(S, k) = i)
  BY <1>1, PickedAt
<1> QED
  BY <1>2, <1>3, <1>4, Zenon DEF Keeps

\* The terms a hint may join are words of the filter.
LEMMA PlainTermsOK ==
  ASSUME NEW V, NEW s \in Seq(V), NEW p, p = PlainTerms(s)
  PROVE  p \in Seq(Seq(V)) /\ \A k \in 1..Len(p) : p[k] \in Words(s) /\ Joins(p[k])
<1>1. PICK pieces \in Seq(Seq(V)) : pieces = Split(s, Space)
  BY SplitOK
<1>2. PICK S : S = {k \in 1..Len(pieces) : pieces[k] # <<>>}
  OBVIOUS
<1>3. S \subseteq 1..Len(pieces)
  BY <1>2
<1>4. Fields(s) = Pick(pieces, S)
  BY <1>1, <1>2, Zenon DEF Fields, NotEmpty, Space
<1>5. PICK f \in Seq(Seq(V)) : f = Fields(s)
  BY <1>1, <1>3, <1>4, PickOK
<1>6. PICK P : P = {k \in 1..Len(f) : Joins(f[k])}
  OBVIOUS
<1>7. P \subseteq 1..Len(f)
  BY <1>6
<1>8. p = Pick(f, P)
  BY <1>5, <1>6, Zenon DEF PlainTerms
<1>9. p \in Seq(Seq(V)) /\ Keeps(p, f, P)
  BY <1>7, <1>8, PickKeeps
<1>10. ToSet(f) = Words(s)
  BY <1>5, WordsOK
<1>11. DOMAIN f = 1..Len(f)
  BY <1>5
<1>12. ASSUME NEW k \in 1..Len(p) PROVE p[k] \in Words(s) /\ Joins(p[k])
  <2>1. PICK i \in P : p[k] = f[i]
    BY <1>9, Zenon DEF Keeps
  <2>2. i \in 1..Len(f) /\ Joins(f[i])
    BY <1>6, Zenon
  <2>3. f[i] \in ToSet(f)
    BY <1>11, <2>2, Zenon DEF ToSet
  <2> QED
    BY <1>10, <2>1, <2>2, <2>3, Zenon
<1> QED
  BY <1>9, <1>12, Zenon

\* What a hint joins: the terms of one column, all of them.
HintFrom(s, terms, c, hint) ==
  /\ Len(terms) > 1 /\ c \in DOMAIN ColumnScope /\ hint = <<c>> \o Joined(terms)
  /\ \A k \in 1..Len(terms) : terms[k] \in Words(s) /\ Joins(terms[k])
  /\ \A k \in 1..Len(PlainTerms(s)) :
       ScopeOf(PlainTerms(s)[k]) = ColumnScope[c] => \E n \in 1..Len(terms) : terms[n] = PlainTerms(s)[k]

LEMMA HintOf ==
  ASSUME NEW V, NEW s \in Seq(V), UnsatisfiableHint(s) # <<>>
  PROVE  \E terms \in Seq(Seq(V)) : \E c \in V : HintFrom(s, terms, c, UnsatisfiableHint(s))
<1> DEFINE plain == PlainTerms(s)
           at(k) == {n \in 1..Len(plain) : ScopeOf(plain[n]) = ScopeOf(plain[k])}
           same(k) == Pick(plain, at(k))
           twice == {k \in 1..Len(plain) : Len(same(k)) > 1}
           first == CHOOSE n \in twice : \A m \in twice : n <= m
<1>1. UnsatisfiableHint(s) = IF twice = {} THEN <<>> ELSE <<Head(plain[first])>> \o Joined(same(first))
  BY Zenon DEF UnsatisfiableHint
<1>2. twice # {} /\ UnsatisfiableHint(s) = <<Head(plain[first])>> \o Joined(same(first))
  BY <1>1, Zenon
<1>3. plain \in Seq(Seq(V)) /\ \A k \in 1..Len(plain) : plain[k] \in Words(s) /\ Joins(plain[k])
  BY PlainTermsOK
<1>4. twice \subseteq Nat
  BY <1>3
<1>5. \E n \in twice : \A m \in twice : n <= m
  BY <1>2, <1>4, LeastElement, Zenon
<1>6. first \in twice
  BY <1>5, Zenon
<1>7. PICK k \in 1..Len(plain) : k = first /\ Len(same(k)) > 1
  BY <1>6, Zenon
<1>8. PICK P : P = at(k)
  OBVIOUS
<1>9. PICK p : p = PlainTerms(s)
  OBVIOUS
<1>10. P \subseteq 1..Len(p) /\ \A n \in 1..Len(p) : n \in P <=> ScopeOf(p[n]) = ScopeOf(p[k])
  BY <1>8, <1>9, Zenon
<1>11. PICK terms : terms = Pick(p, P)
  OBVIOUS
<1>12. p \in Seq(Seq(V)) /\ k \in 1..Len(p) /\ \A n \in 1..Len(p) : p[n] \in Words(s) /\ Joins(p[n])
  BY <1>3, <1>9, Zenon
<1>13. terms \in Seq(Seq(V)) /\ Keeps(terms, p, P)
  BY <1>10, <1>11, <1>12, PickKeeps
<1>14. PICK c : c = Head(p[k])
  OBVIOUS
<1>15. c \in DOMAIN ColumnScope /\ ScopeOf(p[k]) = ColumnScope[c] /\ p[k] # <<>>
  BY <1>12, <1>14, Zenon DEF Joins, Scoped, ScopeOf
<1>16. c \in V
  <2>1. p[k] \in Seq(V)
    BY <1>12
  <2> QED
    BY <1>14, <1>15, <2>1, TailOK, Zenon
<1>17. UnsatisfiableHint(s) = <<c>> \o Joined(terms) /\ Len(terms) > 1
  BY <1>2, <1>7, <1>8, <1>9, <1>11, <1>14, Zenon
<1>18. ASSUME NEW n \in 1..Len(terms) PROVE terms[n] \in Words(s) /\ Joins(terms[n])
  <2>1. PICK i \in P : terms[n] = p[i]
    BY <1>13, Zenon DEF Keeps
  <2> QED
    BY <1>10, <1>12, <2>1, Zenon
<1>19. ASSUME NEW n \in 1..Len(p), ScopeOf(p[n]) = ColumnScope[c] PROVE \E m \in 1..Len(terms) : terms[m] = p[n]
  <2>1. n \in P
    BY <1>10, <1>15, <1>19, Zenon
  <2> QED
    BY <1>13, <2>1, Zenon DEF Keeps
<1>20. HintFrom(s, terms, c, UnsatisfiableHint(s))
  BY <1>9, <1>15, <1>17, <1>18, <1>19, Zenon DEF HintFrom
<1> QED
  BY <1>13, <1>16, <1>20, Zenon

\* A term a hint may join, by its parts.
LEMMA JoinsOK ==
  ASSUME NEW V, NEW t \in Seq(V), Joins(t)
  PROVE  PlainWord(t, ScopeOf(t), Tail(t)) /\ ~Begins(t, "!") /\ t # <<>> /\ Tail(t) # <<>> /\ Tail(t) \in Seq(V)
<1>1. ~Begins(t, "!") /\ Scoped(t) /\ Tail(t) # <<>> /\ ~Begins(Tail(t), "~") /\ t # <<>>
  BY Zenon DEF Joins, Scoped
<1>2. Drop(t, "!") = t /\ ValueOf(t) = Tail(t)
  BY <1>1, Zenon DEF Drop, ValueOf
<1>3. Tail(t) \in Seq(V)
  BY <1>1, TailOK, Zenon
<1> QED
  BY <1>1, <1>2, <1>3, Zenon DEF PlainWord

LEMMA SingleOK ==
  ASSUME NEW V, NEW c \in V, NEW b, b = <<c>>
  PROVE  b \in Seq(V) /\ Len(b) = 1 /\ b[1] = c
OBVIOUS

\* A column before a value is a word that is no regex.
ColumnTerm(V, c, j, w) ==
  w \in Seq(V) /\ w # <<>> /\ PlainWord(w, ColumnScope[c], j) /\ ~Begins(w, "!") /\ ScopeOf(w) = ColumnScope[c]

LEMMA ColumnWord ==
  ASSUME NEW V, NEW c \in V, c \in DOMAIN ColumnScope, NEW j \in Seq(V), j # <<>>, ~Begins(j, "~"),
         NEW w, w = <<c>> \o j
  PROVE  ColumnTerm(V, c, j, w)
<1>1. Behind(V, <<c>>, j, w)
  <2>1. <<c>> \in Seq(V)
    OBVIOUS
  <2> QED
    BY <2>1, BehindOK, Zenon
<1>2. PICK b : b = <<c>> /\ Len(b) = 1 /\ b[1] = c
  OBVIOUS
<1>3. /\ w \in Seq(V) /\ Len(j) \in Nat /\ Len(w) = Len(b) + Len(j)
      /\ \A p \in 1..Len(b) : w[p] = b[p]
      /\ \A q \in 1..Len(j) : w[Len(b) + q] = j[q]
  BY <1>1, <1>2, Zenon DEF Behind
<1>4. w \in Seq(V) /\ Len(w) = Len(j) + 1 /\ w[1] = c /\ \A q \in 1..Len(j) : w[1 + q] = j[q]
  BY <1>2, <1>3
<1>5. w # <<>>
  BY <1>3, <1>4
<1>6. Head(w) = c /\ Tail(w) \in Seq(V) /\ Len(Tail(w)) = Len(w) - 1 /\ \A q \in 1..Len(Tail(w)) : Tail(w)[q] = w[q + 1]
  BY <1>4, <1>5, TailOK
<1>7. PICK x : x = Tail(w)
  OBVIOUS
<1>8. Len(x) = Len(j) /\ x \in Seq(V) /\ \A q \in 1..Len(j) : x[q] = j[q]
  BY <1>3, <1>4, <1>6, <1>7
<1>9. x = j
  BY <1>8, SameLetters
<1>10. c # "!"
  BY ColumnOK
<1>11. ~Begins(w, "!") /\ Scoped(w) /\ Drop(w, "!") = w /\ ScopeOf(w) = ColumnScope[c] /\ ValueOf(w) = j
  BY <1>5, <1>6, <1>7, <1>9, <1>10, Zenon DEF Begins, Scoped, Drop, ScopeOf, ValueOf
<1> QED
  BY <1>4, <1>5, <1>11, Zenon DEF PlainWord, ColumnTerm

\* What is found in a text of a row begins with a letter the text has.
LEMMA NoColumnInside ==
  ASSUME NEW V, NEW n \in Seq(V), n # <<>>, NEW r \in ToSet(TableRows), NEW scope, NEW s \in TextsOf(r, scope), Within(n, s)
  PROVE  ~Scoped(n) /\ n[1] # "!" /\ n[1] # "~"
<1>1. s \in Seq(STRING) /\ \A i \in 1..Len(s) : s[i] \notin DOMAIN ColumnScope \cup {"!", "~", "|"}
  BY RowTexts
<1>2. PICK L, N : L = Len(s) /\ L \in Nat /\ N = Len(n) /\ N \in Nat \ {0}
  BY <1>1, TailOK
<1>3. PICK i \in 0..(L - N) : SubSeq(s, i + 1, i + N) = n
  BY <1>2, Zenon DEF Within
<1>4. PICK b : b = i + N + 1 /\ b - 1 = i + N /\ b \in 0..(L + 1) /\ i \in 0..(L + 1) /\ i < b /\ 1 \in 1..(b - i - 1) /\ i + 1 \in 1..L
  BY <1>2, <1>3
<1>5. n = SubSeq(s, i + 1, b - 1)
  BY <1>3, <1>4
<1>6. \A k \in 1..(b - i - 1) : n[k] = s[i + k] /\ i + k \in 1..Len(s)
  BY <1>1, <1>2, <1>4, <1>5, BetweenOK
<1>7. n[1] = s[i + 1]
  BY <1>4, <1>6
<1>8. n[1] \notin DOMAIN ColumnScope \cup {"!", "~", "|"}
  BY <1>1, <1>2, <1>4, <1>7
<1>9. Head(n) = n[1]
  BY TailOK
<1> QED
  BY <1>8, <1>9, Zenon DEF Scoped

\* What a value finds, a value that has its alternatives finds as well.
LEMMA MoreAlternatives ==
  ASSUME NEW V, NEW v \in Seq(V), v # <<>>, NEW j \in Seq(V), \E i \in 1..Len(j) : j[i] = "|",
         Pieces(v, "|") \subseteq Pieces(j, "|"), NEW scope, NEW r \in ToSet(TableRows), Holds(r, scope, NeedlesOf(v, scope))
  PROVE  Holds(r, scope, NeedlesOf(j, scope))
<1>1. NeedlesOf(j, scope) = Alternatives(j, scope)
  BY NeedlesOK
<1>2. PICK s \in TextsOf(r, scope) : \E n \in NeedlesOf(v, scope) : Within(n, s)
  BY Zenon DEF Holds
<1>3. PICK n \in NeedlesOf(v, scope) : Within(n, s)
  BY <1>2, Zenon
<1>4. n \in Alternatives(j, scope)
  <2>1. CASE \E i \in 1..Len(v) : v[i] = "|"
    <3>1. NeedlesOf(v, scope) = Alternatives(v, scope)
      BY <2>1, NeedlesOK
    <3> QED
      BY <1>3, <3>1, Zenon DEF Alternatives
  <2>2. CASE \A i \in 1..Len(v) : v[i] # "|"
    <3>1. NeedlesOf(v, scope) = {v} /\ Split(v, "|") = <<v>>
      BY <2>2, NeedlesOK, SplitWhole
    <3>2. n = v
      BY <1>3, <3>1
    <3>3. v \in Pieces(v, "|")
      BY <3>1 DEF Pieces
    <3>4. ~Scoped(v)
      BY <1>2, <1>3, <3>2, NoColumnInside
    <3>5. StripRepeatedScope(v, scope) = v
      BY <3>4, Zenon DEF StripRepeatedScope
    <3> QED
      BY <3>2, <3>3, <3>5, Zenon DEF Alternatives
  <2> QED
    BY <2>1, <2>2, Zenon
<1> QED
  BY <1>1, <1>2, <1>3, <1>4, Zenon DEF Holds

\* The hint finds whatever one of the terms of its column finds.
LEMMA HintFinds ==
  ASSUME NEW V, "|" \in V, NEW s \in Seq(V), NEW terms \in Seq(Seq(V)), NEW c \in V, NEW hint, HintFrom(s, terms, c, hint),
         NEW t \in Seq(V), t \in ToSet(PlainTerms(s)), ScopeOf(t) = ColumnScope[c], Term(t) # {}
  PROVE  ScopeOf(hint) = ColumnScope[c] /\ FilterRows(t) \subseteq FilterRows(hint)
<1>1. /\ Len(terms) > 1 /\ c \in DOMAIN ColumnScope /\ hint = <<c>> \o Joined(terms)
      /\ \A k \in 1..Len(terms) : terms[k] \in Words(s) /\ Joins(terms[k])
      /\ \A k \in 1..Len(PlainTerms(s)) :
           ScopeOf(PlainTerms(s)[k]) = ColumnScope[c] => \E n \in 1..Len(terms) : terms[n] = PlainTerms(s)[k]
  BY Zenon DEF HintFrom
<1>2. ASSUME NEW k \in 1..Len(terms)
      PROVE  /\ terms[k] \in Seq(V) /\ terms[k] # <<>> /\ Tail(terms[k]) # <<>> /\ Tail(terms[k]) \in Seq(V)
             /\ ~Begins(Tail(terms[k]), "~") /\ \A i \in 1..Len(Tail(terms[k])) : Tail(terms[k])[i] # Space
  <2>1. PICK w : w = terms[k]
    OBVIOUS
  <2>2. w \in Seq(V) /\ w # <<>> /\ \A i \in 1..Len(w) : w[i] # Space
    BY <1>1, <2>1, WordShape
  <2>3. PICK x : x = Tail(w)
    OBVIOUS
  <2>4. x # <<>> /\ x \in Seq(V) /\ ~Begins(x, "~")
    <3>1. Joins(w)
      BY <1>1, <2>1
    <3> QED
      BY <2>2, <2>3, <3>1, JoinsOK, Zenon DEF Joins
  <2>5. Len(x) = Len(w) - 1 /\ Len(w) \in Nat \ {0} /\ \A i \in 1..Len(x) : x[i] = w[i + 1]
    BY <2>2, <2>3, TailOK
  <2>6. \A i \in 1..Len(x) : x[i] # Space
    BY <2>2, <2>5
  <2> QED
    BY <2>1, <2>2, <2>3, <2>4, <2>6, Zenon
<1>3. PICK j : j = Joined(terms)
  OBVIOUS
<1>4. JoinedValues(V, terms, j)
  BY <1>1, <1>2, <1>3, JoinedOK
<1>5. /\ j \in Seq(V) /\ j # <<>> /\ j[1] = Tail(terms[1])[1]
      /\ \E i \in 1..Len(j) : j[i] = "|"
      /\ \A k \in 1..Len(terms) : Pieces(Tail(terms[k]), "|") \subseteq Pieces(j, "|")
      /\ \A i \in 1..Len(j) : j[i] = "|" \/ \E k \in 1..Len(terms) : \E m \in 1..Len(Tail(terms[k])) : j[i] = Tail(terms[k])[m]
  BY <1>4, Zenon DEF JoinedValues
<1>6. ~Begins(j, "~")
  <2>1. 1 \in 1..Len(terms)
    BY <1>1
  <2>2. PICK x : x = Tail(terms[1]) /\ x \in Seq(V) /\ x # <<>> /\ ~Begins(x, "~")
    BY <1>2, <2>1, Zenon
  <2>3. Head(x) = x[1] /\ Head(j) = j[1]
    BY <1>5, <2>2, TailOK, Zenon
  <2> QED
    BY <1>5, <2>2, <2>3, Zenon DEF Begins
<1>7. hint \in Seq(V) /\ hint # <<>> /\ PlainWord(hint, ColumnScope[c], j) /\ ~Begins(hint, "!") /\ ScopeOf(hint) = ColumnScope[c]
  <2>1. hint = <<c>> \o j
    BY <1>1, <1>3, Zenon
  <2>2. c \in DOMAIN ColumnScope
    BY <1>1, Zenon
  <2>3. j \in Seq(V)
    BY <1>5, Zenon
  <2>4. j # <<>>
    BY <1>5, Zenon
  <2>5. ColumnTerm(V, c, j, hint)
    BY <1>6, <2>1, <2>2, <2>3, <2>4, ColumnWord, Zenon
  <2> QED
    BY <2>5, Zenon DEF ColumnTerm
<1>8. ASSUME NEW i \in 1..Len(hint) PROVE hint[i] # Space
  <2>1. <<c>> \in Seq(V)
    BY SingleOK, Zenon
  <2>2. Behind(V, <<c>>, j, hint)
    BY <1>1, <1>3, <1>5, <2>1, BehindOK, Zenon
  <2>3. PICK b : b = <<c>> /\ Len(b) = 1 /\ b[1] = c
    BY SingleOK, Zenon
  <2>4. /\ Len(j) \in Nat /\ Len(hint) = Len(b) + Len(j)
        /\ \A p \in 1..Len(b) : hint[p] = b[p]
        /\ \A q \in 1..Len(j) : hint[Len(b) + q] = j[q]
    BY <2>2, <2>3, Zenon DEF Behind
  <2>5. CASE i = 1
    <3>1. c # Space
      BY <1>1, ColumnOK
    <3> QED
      BY <2>3, <2>4, <2>5, <3>1
  <2>6. CASE i # 1
    <3>1. PICK q : q = i - 1 /\ q \in 1..Len(j) /\ 1 + q = i
      BY <2>3, <2>4, <2>6
    <3>2. hint[i] = j[q]
      BY <2>3, <2>4, <3>1
    <3>3. "|" # Space
      BY Zenon DEF Space
    <3>4. j[q] # Space
      BY <1>2, <1>5, <3>1, <3>3, ZenonT(30)
    <3> QED
      BY <3>2, <3>4
  <2> QED
    BY <2>5, <2>6, Zenon
<1>9. PICK p : p = PlainTerms(s) /\ p \in Seq(Seq(V)) /\ \A k \in 1..Len(p) : p[k] \in Words(s) /\ Joins(p[k])
  BY PlainTermsOK
<1>10. PICK k \in 1..Len(p) : t = p[k]
  <2>1. DOMAIN p = 1..Len(p)
    BY <1>9
  <2> QED
    BY <1>9, <2>1, Zenon DEF ToSet
<1>11. PICK n \in 1..Len(terms) : terms[n] = t
  BY <1>1, <1>9, <1>10, Zenon
<1>12. PICK v : v = Tail(t)
  OBVIOUS
<1>13. Joins(t) /\ t # <<>> /\ \A i \in 1..Len(t) : t[i] # Space
  BY <1>9, <1>10, WordShape
<1>14. PlainWord(t, ColumnScope[c], v) /\ ~Begins(t, "!") /\ v # <<>> /\ v \in Seq(V)
  BY <1>12, <1>13, JoinsOK
<1>15. NeedlesOf(v, ColumnScope[c]) # {}
  <2>1. PICK a : a = SplitAlternatives(v, ColumnScope[c])
    OBVIOUS
  <2>2. a # <<>>
    BY <1>14, <2>1, PlainTermOK, Zenon
  <2> QED
    BY <1>14, <2>1, <2>2, NeedlesOK
<1>16. FilterRows(t) = {r \in ToSet(TableRows) : Met(r, t)} /\ FilterRows(hint) = {r \in ToSet(TableRows) : Met(r, hint)}
  BY <1>7, <1>8, <1>13, RowsOfWord
<1>17. ASSUME NEW r \in ToSet(TableRows), Met(r, t) PROVE Met(r, hint)
  <2>1. Holds(r, ColumnScope[c], NeedlesOf(v, ColumnScope[c]))
    BY <1>14, <1>15, <1>17, PlainMet
  <2>2. Pieces(v, "|") \subseteq Pieces(j, "|")
    BY <1>5, <1>11, <1>12, Zenon
  <2>3. Holds(r, ColumnScope[c], NeedlesOf(j, ColumnScope[c]))
    BY <1>5, <1>14, <2>1, <2>2, MoreAlternatives
  <2> QED
    BY <1>5, <1>7, <2>3, PlainMet
<1> QED
  BY <1>7, <1>16, <1>17, Zenon

LEMMA InvHint ==
  ASSUME Inv
  PROVE  HintHelps
<1>1. PICK W : W = CommandKeys \cup FilterKeys /\ Texts = Seq(W)
  BY DEF Texts
<1>2. buf \in Seq(W)
  BY <1>1 DEF Inv, LineInv, TypeInv
<1>3. PICK V : V = W \cup {"|"}
  OBVIOUS
<1>4. "|" \in V /\ buf \in Seq(V)
  BY <1>2, <1>3
<1>5. PICK hint : hint = UnsatisfiableHint(buf)
  OBVIOUS
<1> SUFFICES ASSUME hint # <<>>, NEW t \in ToSet(PlainTerms(buf)), ScopeOf(t) = ScopeOf(hint), Term(t) # {}
             PROVE  FilterRows(t) \subseteq FilterRows(hint)
  BY <1>5, Zenon DEF HintHelps
<1>6. PICK terms \in Seq(Seq(V)), c \in V : HintFrom(buf, terms, c, hint)
  <2>1. \E terms \in Seq(Seq(V)) : \E c \in V : HintFrom(buf, terms, c, hint)
    BY <1>4, <1>5, HintOf
  <2> QED
    BY <2>1, Zenon
<1>7. t \in Seq(V)
  <2>1. PlainTerms(buf) \in Seq(Seq(V))
    BY <1>4, PlainTermsOK, Zenon
  <2> QED
    BY <2>1 DEF ToSet
<1>8. ScopeOf(hint) = ColumnScope[c]
  <2>1. c \in DOMAIN ColumnScope /\ hint = <<c>> \o Joined(terms)
    BY <1>6, Zenon DEF HintFrom
  <2>2. Head(hint) = c
    BY <2>1
  <2> QED
    BY <2>1, <2>2, Zenon DEF ScopeOf, Scoped
<1> QED
  BY <1>4, <1>6, <1>7, <1>8, HintFinds

-----------------------------------------------------------------------------
(* A suggestion is put on the line *)

\* s ends with x.
Ends(V, x, s) ==
  /\ x \in Seq(V) /\ s \in Seq(V) /\ Len(x) \in Nat /\ Len(s) \in Nat /\ Len(x) <= Len(s)
  /\ \A i \in 1..Len(x) : x[i] = s[Len(s) - Len(x) + i]

LEMMA EndsSelf ==
  ASSUME NEW V, NEW s \in Seq(V)
  PROVE  Ends(V, s, s)
<1>1. PICK n \in Nat : n = Len(s)
  OBVIOUS
<1>2. \A i \in 1..n : n - n + i = i
  OBVIOUS
<1> QED
  BY <1>1, <1>2 DEF Ends

LEMMA EndsTail ==
  ASSUME NEW V, NEW s \in Seq(V), s # <<>>, NEW x, x = Tail(s)
  PROVE  Ends(V, x, s)
<1>1. PICK n : n = Len(s) /\ n \in Nat \ {0} /\ x \in Seq(V) /\ Len(x) = n - 1 /\ \A i \in 1..Len(x) : x[i] = s[i + 1]
  BY TailOK
<1>2. \A i \in 1..(n - 1) : n - (n - 1) + i = i + 1
  BY <1>1
<1>3. \A i \in 1..Len(x) : x[i] = s[Len(s) - Len(x) + i]
  BY <1>1, <1>2
<1>4. Len(x) \in Nat /\ Len(s) \in Nat /\ Len(x) <= Len(s)
  BY <1>1
<1> QED
  BY <1>1, <1>3, <1>4, Zenon DEF Ends

LEMMA EndsAfter ==
  ASSUME NEW V, NEW s \in Seq(V), NEW c, NEW x, x = After(s, c)
  PROVE  Ends(V, x, s) /\ Len(x) = Len(s) - LastAt(s, c)
<1>0. PICK n \in Nat : n = Len(s)
  OBVIOUS
<1>1. PICK l \in 0..n : l = LastAt(s, c)
  BY <1>0, LastAtOK
<1>2. PICK b : b = n + 1 /\ b - 1 = n /\ b \in 0..(n + 1) /\ l \in 0..(n + 1) /\ l < b /\ b - l - 1 = n - l /\ n - l \in Nat
  BY <1>1
<1>3. x = SubSeq(s, l + 1, b - 1)
  BY <1>0, <1>1, <1>2 DEF After
<1>4. x \in Seq(V) /\ Len(x) = n - l /\ \A i \in 1..(n - l) : x[i] = s[l + i]
  <2>1. l \in 0..(Len(s) + 1) /\ b \in 0..(Len(s) + 1)
    BY <1>0, <1>2
  <2>2. /\ x \in Seq(V) /\ Len(x) = b - l - 1
        /\ \A i \in 1..(b - l - 1) : x[i] = s[l + i] /\ l + i \in 1..Len(s)
    BY <1>2, <1>3, <2>1, BetweenOK
  <2> QED
    BY <1>2, <2>2
<1>5. n - (n - l) = l /\ n - l <= n
  BY <1>1, <1>2
<1>6. \A i \in 1..Len(x) : x[i] = s[Len(s) - Len(x) + i]
  BY <1>0, <1>4, <1>5
<1>7. Len(x) \in Nat /\ Len(s) \in Nat /\ Len(x) <= Len(s)
  BY <1>0, <1>2, <1>4, <1>5
<1> QED
  <2>1. Len(x) = Len(s) - LastAt(s, c)
    BY <1>0, <1>1, <1>4
  <2> QED
    BY <1>4, <1>6, <1>7, <2>1, Zenon DEF Ends

LEMMA EndsTrans ==
  ASSUME NEW V, NEW x, NEW y, NEW z, Ends(V, x, y), Ends(V, y, z)
  PROVE  Ends(V, x, z)
<1>1. /\ x \in Seq(V) /\ y \in Seq(V) /\ Len(x) \in Nat /\ Len(y) \in Nat /\ Len(x) <= Len(y)
      /\ \A i \in 1..Len(x) : x[i] = y[Len(y) - Len(x) + i]
  BY Zenon DEF Ends
<1>2. /\ z \in Seq(V) /\ Len(z) \in Nat /\ Len(y) <= Len(z)
      /\ \A i \in 1..Len(y) : y[i] = z[Len(z) - Len(y) + i]
  BY Zenon DEF Ends
<1>3. ASSUME NEW i \in 1..Len(x) PROVE x[i] = z[Len(z) - Len(x) + i]
  <2>1. PICK k : k = Len(y) - Len(x) + i /\ k \in 1..Len(y) /\ Len(z) - Len(y) + k = Len(z) - Len(x) + i
    BY <1>1, <1>2
  <2> QED
    BY <1>1, <1>2, <2>1
<1>4. Len(x) <= Len(z)
  BY <1>1, <1>2
<1> QED
  BY <1>1, <1>2, <1>3, <1>4, Zenon DEF Ends

\* What is cut off leaves the text before it.
LEMMA EndsBehind ==
  ASSUME NEW V, NEW x, NEW s, Ends(V, x, s), NEW a, a = SubSeq(s, 1, Len(s) - Len(x))
  PROVE  Behind(V, a, x, s) /\ a \in Seq(V)
<1>1. /\ x \in Seq(V) /\ s \in Seq(V) /\ Len(x) \in Nat /\ Len(s) \in Nat /\ Len(x) <= Len(s)
      /\ \A i \in 1..Len(x) : x[i] = s[Len(s) - Len(x) + i]
  BY Zenon DEF Ends
<1>2. PICK n, m, d : n = Len(s) /\ m = Len(x) /\ d = n - m /\ n \in Nat /\ m \in Nat /\ d \in Nat /\ n = d + m
  <2>1. PICK n, m : n = Len(s) /\ m = Len(x) /\ n \in Nat /\ m \in Nat /\ m <= n
    BY <1>1, Zenon
  <2>2. n - m \in Nat /\ n = (n - m) + m
    BY <2>1
  <2> QED
    BY <2>1, <2>2
<1>3. PICK z, b : z = 0 /\ b = d + 1 /\ z + 1 = 1 /\ b - 1 = d /\ z \in 0..(n + 1) /\ b \in 0..(n + 1) /\ z < b /\ b - z - 1 = d
  BY <1>2
<1>4. a = SubSeq(s, z + 1, b - 1)
  BY <1>2, <1>3
<1>5. a \in Seq(V) /\ Len(a) = d /\ \A i \in 1..d : a[i] = s[z + i]
  BY <1>1, <1>2, <1>3, <1>4, BetweenOK
<1>6. \A i \in 1..d : s[i] = a[i]
  BY <1>2, <1>3, <1>5
<1>7. Len(s) = Len(a) + Len(x) /\ Len(a) \in Nat /\ (\A i \in 1..Len(a) : s[i] = a[i]) /\ \A q \in 1..Len(x) : s[Len(a) + q] = x[q]
  BY <1>1, <1>2, <1>5, <1>6
<1> QED
  BY <1>1, <1>5, <1>7, Zenon DEF Behind

\* Two texts that only end differently.
Swapped(V, a, x, q, l, p) == a \in Seq(V) /\ x \in Seq(V) /\ q \in Seq(V) /\ Behind(V, a, x, l) /\ Behind(V, a, q, p)

LEMMA BehindTail ==
  ASSUME NEW V, NEW a \in Seq(V), a # <<>>, NEW x, NEW l, Behind(V, a, x, l)
  PROVE  l # <<>> /\ Head(l) = Head(a) /\ Behind(V, Tail(a), x, Tail(l))
<1>1. /\ l \in Seq(V) /\ Len(a) \in Nat /\ Len(x) \in Nat /\ Len(l) = Len(a) + Len(x)
      /\ \A p \in 1..Len(a) : l[p] = a[p]
      /\ \A q \in 1..Len(x) : l[Len(a) + q] = x[q]
  BY Zenon DEF Behind
<1>2. PICK n, m : n = Len(a) /\ n \in Nat \ {0} /\ m = Len(x) /\ m \in Nat
  BY <1>1, TailOK, Zenon
<1>3. PICK b : b = Tail(a) /\ b \in Seq(V) /\ Len(b) = n - 1 /\ Head(a) = a[1] /\ \A i \in 1..Len(b) : b[i] = a[i + 1]
  BY <1>2, TailOK
<1>4. l # <<>>
  BY <1>1, <1>2
<1>5. PICK k : k = Tail(l) /\ k \in Seq(V) /\ Len(k) = Len(l) - 1 /\ Head(l) = l[1] /\ \A i \in 1..Len(k) : k[i] = l[i + 1]
  <2>1. l \in Seq(V)
    BY <1>1, Zenon
  <2>2. /\ Tail(l) \in Seq(V) /\ Len(Tail(l)) = Len(l) - 1 /\ Head(l) = l[1]
        /\ \A i \in 1..Len(Tail(l)) : Tail(l)[i] = l[i + 1]
    BY <1>4, <2>1, TailOK, Zenon
  <2> QED
    BY <2>2, Zenon
<1>6. Head(l) = Head(a)
  BY <1>1, <1>2, <1>3, <1>5
<1>7. Len(b) \in Nat /\ Len(k) = Len(b) + Len(x)
  BY <1>1, <1>2, <1>3, <1>5
<1>8. ASSUME NEW i \in 1..Len(b) PROVE k[i] = b[i]
  <2>1. PICK j : j = i + 1 /\ j \in 1..n /\ i \in 1..Len(k)
    BY <1>1, <1>2, <1>3, <1>5
  <2> QED
    BY <1>1, <1>2, <1>3, <1>5, <2>1
<1>9. ASSUME NEW q \in 1..Len(x) PROVE k[Len(b) + q] = x[q]
  <2>1. PICK i : i = Len(b) + q /\ i \in 1..Len(k) /\ i + 1 = Len(a) + q
    BY <1>1, <1>2, <1>3, <1>5
  <2> QED
    BY <1>1, <1>5, <2>1
<1>10. Behind(V, b, x, k)
  BY <1>1, <1>5, <1>7, <1>8, <1>9, Zenon DEF Behind
<1> QED
  BY <1>3, <1>4, <1>5, <1>6, <1>10, Zenon

LEMMA BehindNothing ==
  ASSUME NEW V, NEW x \in Seq(V), NEW l, Behind(V, <<>>, x, l)
  PROVE  l = x
<1>1. PICK e : e = <<>> /\ Len(e) = 0
  OBVIOUS
<1>2. l \in Seq(V) /\ Len(x) \in Nat /\ Len(l) = Len(e) + Len(x) /\ \A q \in 1..Len(x) : l[Len(e) + q] = x[q]
  BY <1>1, Zenon DEF Behind
<1>3. Len(l) = Len(x) /\ \A q \in 1..Len(x) : l[q] = x[q]
  BY <1>1, <1>2
<1> QED
  BY <1>2, <1>3, SameLetters

\* A mark at the beginning is taken off both or neither, unless it belongs to the end.
Peel(s, C) == IF s # <<>> /\ Head(s) \in C THEN Tail(s) ELSE s
SameMark(l, p, C) ==
  /\ (l # <<>> /\ Head(l) \in C) <=> (p # <<>> /\ Head(p) \in C)
  /\ (l # <<>> /\ Head(l) \in C) => Head(l) = Head(p)

LEMMA PeelOK ==
  ASSUME NEW V, NEW C, NEW a, NEW x, NEW q, NEW l, NEW p, Swapped(V, a, x, q, l, p), q # <<>>, q[1] \notin C,
         Len(x) <= Len(Peel(l, C))
  PROVE  SameMark(l, p, C) /\ Swapped(V, Peel(a, C), x, q, Peel(l, C), Peel(p, C))
<1>1. a \in Seq(V) /\ x \in Seq(V) /\ q \in Seq(V) /\ Behind(V, a, x, l) /\ Behind(V, a, q, p)
  BY Zenon DEF Swapped
<1>2. CASE a # <<>>
  <2>1. /\ l # <<>> /\ Head(l) = Head(a) /\ Behind(V, Tail(a), x, Tail(l))
        /\ p # <<>> /\ Head(p) = Head(a) /\ Behind(V, Tail(a), q, Tail(p))
    BY <1>1, <1>2, BehindTail, Zenon
  <2>2. Tail(a) \in Seq(V)
    BY <1>1, <1>2, TailOK, Zenon
  <2>3. SameMark(l, p, C)
    BY <2>1, Zenon DEF SameMark
  <2>4. Swapped(V, Peel(a, C), x, q, Peel(l, C), Peel(p, C))
    BY <1>1, <1>2, <2>1, <2>2, Zenon DEF Swapped, Peel
  <2> QED
    BY <2>3, <2>4
<1>3. CASE a = <<>>
  <2>1. l = x /\ p = q
    BY <1>1, <1>3, BehindNothing, Zenon
  <2>2. Head(q) = q[1]
    BY <1>1, TailOK, Zenon
  <2>3. ASSUME l # <<>>, Head(l) \in C PROVE FALSE
    <3>1. Len(Tail(x)) = Len(x) - 1 /\ Len(x) \in Nat \ {0}
      BY <1>1, <2>1, <2>3, TailOK
    <3>2. Peel(l, C) = Tail(x)
      BY <2>1, <2>3, Zenon DEF Peel
    <3> QED
      BY <3>1, <3>2
  <2>4. ~(l # <<>> /\ Head(l) \in C) /\ ~(p # <<>> /\ Head(p) \in C)
    BY <2>1, <2>2, <2>3, Zenon
  <2>5. Peel(l, C) = l /\ Peel(p, C) = p /\ Peel(a, C) = a
    BY <1>3, <2>4, Zenon DEF Peel
  <2>6. SameMark(l, p, C)
    BY <2>4, Zenon DEF SameMark
  <2>7. Swapped(V, Peel(a, C), x, q, Peel(l, C), Peel(p, C))
    BY <2>5, Zenon
  <2> QED
    BY <2>6, <2>7
<1> QED
  BY <1>2, <1>3, Zenon

\* What follows a position.
LEMMA RestOK ==
  ASSUME NEW V, NEW s \in Seq(V), NEW n, n = Len(s), NEW d \in 0..n, NEW r, r = SubSeq(s, d + 1, n)
  PROVE  r \in Seq(V) /\ Len(r) = n - d /\ \A i \in 1..(n - d) : r[i] = s[d + i]
<1>1. n \in Nat
  OBVIOUS
<1>2. PICK b : b = n + 1 /\ b - 1 = n /\ b - d - 1 = n - d
  BY <1>1
<1>3. d \in 0..(Len(s) + 1) /\ b \in 0..(Len(s) + 1) /\ d < b
  BY <1>1, <1>2
<1>4. r = SubSeq(s, d + 1, b - 1)
  BY <1>2
<1>5. r \in Seq(V) /\ Len(r) = b - d - 1 /\ \A i \in 1..(b - d - 1) : r[i] = s[d + i] /\ d + i \in 1..Len(s)
  BY <1>3, <1>4, BetweenOK
<1> QED
  BY <1>2, <1>5

LEMMA RestBehind ==
  ASSUME NEW V, NEW a \in Seq(V), NEW x, NEW l, Behind(V, a, x, l), NEW d \in Nat, d <= Len(a)
  PROVE  /\ Behind(V, SubSeq(a, d + 1, Len(a)), x, SubSeq(l, d + 1, Len(l)))
         /\ SubSeq(a, d + 1, Len(a)) \in Seq(V) /\ Len(SubSeq(a, d + 1, Len(a))) = Len(a) - d
<1>0. PICK b, k : b = SubSeq(a, d + 1, Len(a)) /\ k = SubSeq(l, d + 1, Len(l))
  OBVIOUS
<1>1. /\ l \in Seq(V) /\ Len(a) \in Nat /\ Len(x) \in Nat /\ Len(l) = Len(a) + Len(x)
      /\ \A p \in 1..Len(a) : l[p] = a[p]
      /\ \A q \in 1..Len(x) : l[Len(a) + q] = x[q]
  BY Zenon DEF Behind
<1>2. PICK n, m : n = Len(a) /\ m = Len(x) /\ n \in Nat /\ m \in Nat
  BY <1>1
<1>3. d \in 0..n /\ n - d \in Nat
  BY <1>2
<1>4. b \in Seq(V) /\ Len(b) = n - d /\ \A i \in 1..(n - d) : b[i] = a[d + i]
  BY <1>0, <1>2, <1>3, RestOK
<1>5. PICK N : N = Len(l) /\ N = n + m /\ d \in 0..N /\ N - d = (n - d) + m
  BY <1>1, <1>2, <1>3
<1>6. k \in Seq(V) /\ Len(k) = N - d /\ \A i \in 1..(N - d) : k[i] = l[d + i]
  BY <1>0, <1>1, <1>5, RestOK
<1>7. ASSUME NEW i \in 1..(n - d) PROVE k[i] = b[i]
  <2>1. i \in 1..(N - d) /\ d + i \in 1..n
    BY <1>2, <1>3, <1>5
  <2> QED
    BY <1>1, <1>2, <1>4, <1>6, <2>1
<1>8. ASSUME NEW q \in 1..m PROVE k[(n - d) + q] = x[q]
  <2>1. PICK i : i = (n - d) + q /\ i \in 1..(N - d) /\ d + i = n + q
    BY <1>2, <1>3, <1>5
  <2> QED
    BY <1>1, <1>2, <1>6, <2>1
<1>9. Len(b) \in Nat /\ Len(k) = Len(b) + Len(x)
  BY <1>2, <1>3, <1>4, <1>5, <1>6
<1>10. (\A i \in 1..Len(b) : k[i] = b[i]) /\ \A q \in 1..Len(x) : k[Len(b) + q] = x[q]
  BY <1>2, <1>4, <1>7, <1>8
<1>11. Behind(V, b, x, k)
  BY <1>1, <1>2, <1>6, <1>9, <1>10, Zenon DEF Behind
<1> QED
  BY <1>0, <1>2, <1>4, <1>11, Zenon

\* If the last separator is before the end that differs, it is the last one of both.
LEMMA CutOK ==
  ASSUME NEW V, NEW a, NEW x, NEW q, NEW l, NEW p, Swapped(V, a, x, q, l, p), NEW sep,
         \A i \in 1..Len(q) : q[i] # sep, NEW d, d = LastAt(l, sep), d <= Len(a)
  PROVE  /\ d \in Nat /\ LastAt(p, sep) = d
         /\ Swapped(V, SubSeq(a, d + 1, Len(a)), x, q, After(l, sep), After(p, sep))
         /\ Len(SubSeq(a, d + 1, Len(a))) = Len(a) - d
<1>1. a \in Seq(V) /\ x \in Seq(V) /\ q \in Seq(V) /\ Behind(V, a, x, l) /\ Behind(V, a, q, p)
  BY Zenon DEF Swapped
<1>2. /\ l \in Seq(V) /\ Len(a) \in Nat /\ Len(x) \in Nat /\ Len(l) = Len(a) + Len(x)
      /\ \A i \in 1..Len(a) : l[i] = a[i]
  BY <1>1, Zenon DEF Behind
<1>3. /\ p \in Seq(V) /\ Len(q) \in Nat /\ Len(p) = Len(a) + Len(q)
      /\ \A i \in 1..Len(a) : p[i] = a[i]
      /\ \A i \in 1..Len(q) : p[Len(a) + i] = q[i]
  BY <1>1, Zenon DEF Behind
<1>4. d \in 0..Len(l) /\ (d = 0 \/ l[d] = sep) /\ \A k \in 1..Len(l) : l[k] = sep => k <= d
  BY <1>2, LastAtOK
<1>5. PICK e : e = LastAt(p, sep)
  OBVIOUS
<1>6. e \in 0..Len(p) /\ (e = 0 \/ p[e] = sep) /\ \A k \in 1..Len(p) : p[k] = sep => k <= e
  BY <1>3, <1>5, LastAtOK
<1>7. d \in Nat /\ e \in Nat
  BY <1>2, <1>3, <1>4, <1>6
<1>8. d <= e
  <2>1. CASE d = 0
    BY <1>7, <2>1
  <2>2. CASE d # 0
    <3>1. d \in 1..Len(a) /\ d \in 1..Len(p)
      BY <1>2, <1>3, <1>7, <2>2
    <3>2. p[d] = sep
      BY <1>2, <1>3, <1>4, <2>2, <3>1
    <3> QED
      BY <1>6, <3>1, <3>2
  <2> QED
    BY <2>1, <2>2
<1>9. e <= d
  <2>1. CASE e = 0
    BY <1>7, <2>1
  <2>2. CASE e # 0 /\ e <= Len(a)
    <3>1. e \in 1..Len(a) /\ e \in 1..Len(l)
      BY <1>2, <1>7, <2>2
    <3>2. l[e] = sep
      BY <1>2, <1>3, <1>6, <2>2, <3>1
    <3> QED
      BY <1>4, <3>1, <3>2
  <2>3. CASE e > Len(a)
    <3>1. PICK i : i = e - Len(a) /\ i \in 1..Len(q) /\ Len(a) + i = e
      BY <1>2, <1>3, <1>6, <1>7, <2>3
    <3>2. q[i] = sep /\ e # 0
      <4>1. e # 0
        BY <1>2, <1>7, <2>3
      <4>2. p[e] = sep
        BY <1>6, <4>1
      <4>3. p[Len(a) + i] = q[i]
        BY <1>3, <3>1
      <4> QED
        BY <3>1, <4>1, <4>2, <4>3
    <3> QED
      BY <3>1, <3>2
  <2> QED
    BY <1>2, <1>7, <2>1, <2>2, <2>3
<1>10. e = d
  BY <1>7, <1>8, <1>9
<1>11. PICK b : b = SubSeq(a, d + 1, Len(a))
  OBVIOUS
<1>12. After(l, sep) = SubSeq(l, d + 1, Len(l)) /\ After(p, sep) = SubSeq(p, d + 1, Len(p))
  BY <1>5, <1>10, Zenon DEF After
<1>13. Behind(V, b, x, After(l, sep)) /\ Behind(V, b, q, After(p, sep)) /\ b \in Seq(V) /\ Len(b) = Len(a) - d
  <2>1. d <= Len(a) /\ d \in Nat
    BY <1>7
  <2>2. /\ Behind(V, SubSeq(a, d + 1, Len(a)), x, SubSeq(l, d + 1, Len(l)))
        /\ SubSeq(a, d + 1, Len(a)) \in Seq(V) /\ Len(SubSeq(a, d + 1, Len(a))) = Len(a) - d
    BY <1>1, <2>1, RestBehind, Zenon
  <2>3. Behind(V, SubSeq(a, d + 1, Len(a)), q, SubSeq(p, d + 1, Len(p)))
    BY <1>1, <2>1, RestBehind, Zenon
  <2> QED
    BY <1>11, <1>12, <2>2, <2>3, Zenon
<1>14. Swapped(V, b, x, q, After(l, sep), After(p, sep))
  BY <1>1, <1>13, Zenon DEF Swapped
<1> QED
  BY <1>5, <1>7, <1>10, <1>11, <1>13, <1>14, Zenon

LEMMA SwappedAll ==
  ASSUME NEW V, NEW a, NEW x, NEW q, NEW l, NEW p, Swapped(V, a, x, q, l, p), Len(l) = Len(x)
  PROVE  p = q
<1>1. a \in Seq(V) /\ q \in Seq(V) /\ Behind(V, a, x, l) /\ Behind(V, a, q, p)
  BY Zenon DEF Swapped
<1>2. Len(a) \in Nat /\ Len(x) \in Nat /\ Len(l) = Len(a) + Len(x)
  BY <1>1, Zenon DEF Behind
<1>3. Len(a) = 0
  BY <1>2
<1>4. a = <<>>
  BY <1>1, <1>3
<1> QED
  BY <1>1, <1>4, BehindNothing, Zenon

\* What a word asks for, and what of it a suggestion takes the place of.
Parts(word, scope, v, x) ==
  /\ scope = ScopeOf(Drop(word, "!")) /\ v = ValueOf(Drop(word, "!"))
  /\ x = IF "|" \in ToSet(v) THEN StripRepeatedScope(After(v, "|"), scope) ELSE After(v, "|")
Letters(q) == \A i \in 1..Len(q) : q[i] \notin DOMAIN ColumnScope \cup {"!", "~", "|"}

LEMMA PeelsOK ==
  ASSUME NEW s
  PROVE  /\ \A c : Drop(s, c) = Peel(s, {c}) /\ (Begins(s, c) <=> s # <<>> /\ Head(s) \in {c})
         /\ ValueOf(s) = Peel(s, DOMAIN ColumnScope) /\ (Scoped(s) <=> s # <<>> /\ Head(s) \in DOMAIN ColumnScope)
BY Zenon DEF Drop, Begins, ValueOf, Scoped, Peel

LEMMA PeelEnds ==
  ASSUME NEW V, NEW s \in Seq(V), NEW C
  PROVE  Ends(V, Peel(s, C), s) /\ Peel(s, C) \in Seq(V)
<1>1. CASE s # <<>> /\ Head(s) \in C
  <2>1. Ends(V, Tail(s), s)
    BY <1>1, EndsTail, Zenon
  <2> QED
    BY <1>1, <2>1, Zenon DEF Peel, Ends
<1>2. CASE ~(s # <<>> /\ Head(s) \in C)
  <2>1. Ends(V, s, s)
    BY EndsSelf, Zenon
  <2> QED
    BY <1>2, <2>1, Zenon DEF Peel
<1> QED
  BY <1>1, <1>2, Zenon

LEMMA PartsEnd ==
  ASSUME NEW V, NEW word \in Seq(V), NEW scope, NEW v, NEW x, Parts(word, scope, v, x)
  PROVE  Ends(V, x, v) /\ Ends(V, v, Drop(word, "!")) /\ Ends(V, Drop(word, "!"), word) /\ Ends(V, x, After(v, "|"))
<1>1. PICK tok : tok = Drop(word, "!") /\ Ends(V, tok, word) /\ tok \in Seq(V)
  <2>1. Drop(word, "!") = Peel(word, {"!"})
    BY PeelsOK, Zenon
  <2>2. Ends(V, Peel(word, {"!"}), word) /\ Peel(word, {"!"}) \in Seq(V)
    BY PeelEnds, Zenon
  <2> QED
    BY <2>1, <2>2, Zenon
<1>2. Ends(V, v, tok) /\ v \in Seq(V)
  <2>1. v = Peel(tok, DOMAIN ColumnScope)
    BY <1>1, PeelsOK, Zenon DEF Parts
  <2>2. Ends(V, Peel(tok, DOMAIN ColumnScope), tok) /\ Peel(tok, DOMAIN ColumnScope) \in Seq(V)
    BY <1>1, PeelEnds, Zenon
  <2> QED
    BY <2>1, <2>2, Zenon
<1>3. PICK alt : alt = After(v, "|") /\ Ends(V, alt, v) /\ alt \in Seq(V)
  BY <1>2, EndsAfter, Zenon DEF Ends
<1>4. x \in {alt, Peel(alt, DOMAIN ColumnScope)}
  BY <1>3, Zenon DEF Parts, StripRepeatedScope, Peel, Scoped
<1>5. Ends(V, x, alt)
  BY <1>3, <1>4, PeelEnds, EndsSelf, Zenon
<1>6. Ends(V, x, v)
  BY <1>3, <1>5, EndsTrans, Zenon
<1> QED
  BY <1>1, <1>2, <1>3, <1>5, <1>6, Zenon

\* What takes the place of the last alternative is an alternative.
LEMMA LastAlternative ==
  ASSUME NEW V, NEW word \in Seq(V), NEW scope, NEW v \in Seq(V), NEW x, Parts(word, scope, v, x),
         NEW a, NEW q, NEW w, Swapped(V, a, x, q, v, w), q # <<>>, Letters(q)
  PROVE  q \in NeedlesOf(w, scope)
<1>1. a \in Seq(V) /\ x \in Seq(V) /\ q \in Seq(V) /\ Behind(V, a, x, v) /\ Behind(V, a, q, w)
  BY Zenon DEF Swapped
<1>2. w \in Seq(V)
  BY <1>1, Zenon DEF Behind
<1>3. DOMAIN v = 1..Len(v)
  OBVIOUS
<1>4. Len(q) \in Nat \ {0} /\ q[1] = Head(q) /\ \A i \in 1..Len(q) : q[i] \notin DOMAIN ColumnScope /\ q[i] # "|"
  BY <1>1, TailOK, Zenon DEF Letters
<1>5. ~Scoped(q)
  <2>1. 1 \in 1..Len(q)
    BY <1>4
  <2> QED
    BY <1>4, <2>1, Zenon DEF Scoped
<1>6. CASE "|" \notin ToSet(v)
  <2>1. x = After(v, "|")
    BY <1>6, Zenon DEF Parts
  <2>2. \A i \in 1..Len(v) : v[i] # "|"
    BY <1>3, <1>6, Zenon DEF ToSet
  <2>3. PICK d : d = LastAt(v, "|") /\ d \in 0..Len(v) /\ (d = 0 \/ v[d] = "|")
    BY LastAtOK
  <2>4. d = 0
    BY <2>2, <2>3
  <2>5. Len(x) = Len(v) - LastAt(v, "|")
    BY <2>1, EndsAfter, Zenon
  <2>6. Len(x) = Len(v)
    BY <2>3, <2>4, <2>5
  <2>7. w = q
    BY <2>6, SwappedAll, Zenon
  <2>8. NeedlesOf(q, scope) = {q}
    BY <1>1, <1>4, NeedlesOK
  <2> QED
    BY <2>7, <2>8
<1>7. CASE "|" \in ToSet(v)
  <2>1. PICK alt : alt = After(v, "|") /\ x = StripRepeatedScope(alt, scope) /\ Ends(V, x, alt) /\ Ends(V, alt, v)
    BY <1>7, PartsEnd, EndsAfter, Zenon DEF Parts
  <2>2. PICK d : d = LastAt(v, "|") /\ d \in 0..Len(v) /\ \A k \in 1..Len(v) : v[k] = "|" => k <= d
    BY LastAtOK
  <2>3. d # 0
    <3>1. PICK i \in 1..Len(v) : v[i] = "|"
      BY <1>3, <1>7, Zenon DEF ToSet
    <3> QED
      BY <2>2, <3>1
  <2>4. Len(alt) = Len(v) - d
    BY <2>1, <2>2, EndsAfter, Zenon
  <2>5. Len(x) \in Nat /\ Len(alt) \in Nat /\ Len(v) \in Nat /\ Len(x) <= Len(alt) /\ Len(a) \in Nat /\ Len(v) = Len(a) + Len(x)
    BY <1>1, <2>1, Zenon DEF Ends, Behind
  <2>6. d <= Len(a) /\ d \in Nat
    BY <2>2, <2>4, <2>5
  <2>7. PICK y : y = After(w, "|")
    OBVIOUS
  <2>8. PICK b : b = SubSeq(a, d + 1, Len(a))
    OBVIOUS
  <2>9. \A i \in 1..Len(q) : q[i] # "|"
    BY <1>4
  <2>10. LastAt(w, "|") = d /\ Swapped(V, b, x, q, alt, y)
    <3>1. d = LastAt(v, "|")
      BY <2>2, Zenon
    <3>2. d <= Len(a)
      BY <2>6, Zenon
    <3>3. LastAt(w, "|") = d /\ Swapped(V, SubSeq(a, d + 1, Len(a)), x, q, After(v, "|"), After(w, "|"))
      BY <2>9, <3>1, <3>2, CutOK
    <3> QED
      BY <2>1, <2>7, <2>8, <3>3, Zenon
  <2>11. \E i \in 1..Len(w) : w[i] = "|"
    <3>1. d \in 0..Len(w) /\ (d = 0 \/ w[d] = "|")
      BY <1>2, <2>10, LastAtOK, Zenon
    <3>2. d \in 1..Len(w)
      BY <2>3, <2>6, <3>1
    <3> QED
      BY <2>3, <3>1, <3>2
  <2>12. NeedlesOf(w, scope) = Alternatives(w, scope)
    BY <1>2, <2>11, NeedlesOK
  <2>13. y # <<>>
    <3>1. Behind(V, b, q, y)
      BY <2>10, Zenon DEF Swapped
    <3>2. Len(b) \in Nat /\ Len(y) = Len(b) + Len(q)
      BY <3>1, Zenon DEF Behind
    <3> QED
      BY <1>4, <3>2
  <2>14. y \in Pieces(w, "|")
    <3>1. Pieces(w, "|") \ {<<>>} = (Pieces(UpTo(w, "|"), "|") \cup {After(w, "|")}) \ {<<>>}
      BY <1>2, LastPiece, Zenon
    <3> QED
      BY <2>7, <2>13, <3>1, Zenon
  <2>15. StripRepeatedScope(y, scope) = q
    <3> DEFINE D == DOMAIN ColumnScope
    <3>1. CASE Scoped(alt) /\ ScopeOf(alt) = scope
      <4>1. x = Tail(alt) /\ Peel(alt, D) = Tail(alt) /\ alt # <<>> /\ Head(alt) \in D
        BY <2>1, <3>1, Zenon DEF StripRepeatedScope, Peel, Scoped
      <4>2. Len(x) <= Len(Peel(alt, D))
        BY <2>5, <4>1
      <4>3. q[1] \notin D
        BY <1>4
      <4>4. SameMark(alt, y, D) /\ Swapped(V, Peel(b, D), x, q, Peel(alt, D), Peel(y, D))
        BY <2>10, <4>2, <4>3, PeelOK
      <4>5. Peel(y, D) = q
        BY <4>1, <4>4, SwappedAll, Zenon
      <4>6. y # <<>> /\ Head(y) \in D /\ Head(y) = Head(alt)
        BY <4>1, <4>4, Zenon DEF SameMark
      <4> QED
        BY <3>1, <4>5, <4>6, Zenon DEF StripRepeatedScope, Peel, Scoped, ScopeOf
    <3>2. CASE ~(Scoped(alt) /\ ScopeOf(alt) = scope)
      <4>1. x = alt
        BY <2>1, <3>2, Zenon DEF StripRepeatedScope
      <4>2. y = q
        BY <2>10, <4>1, SwappedAll, Zenon
      <4> QED
        BY <1>5, <4>2, Zenon DEF StripRepeatedScope
    <3> QED
      BY <3>1, <3>2, Zenon
  <2> QED
    BY <2>12, <2>14, <2>15, Zenon DEF Alternatives
<1> QED
  BY <1>6, <1>7, Zenon

\* The term a suggestion makes has the scope that was completed, and asks for the suggestion.
LEMMA CompletedOK ==
  ASSUME NEW V, NEW last \in Seq(V), NEW scope, NEW v, NEW x, Parts(last, scope, v, x), ~Begins(v, "~"),
         NEW a, NEW q, NEW p, Swapped(V, a, x, q, last, p), q # <<>>, Letters(q), NEW t \in Term(p)
  PROVE  t.scope = scope /\ q \in ToSet(t.needles)
<1>1. a \in Seq(V) /\ x \in Seq(V) /\ q \in Seq(V) /\ Behind(V, a, x, last) /\ Behind(V, a, q, p)
  BY Zenon DEF Swapped
<1>2. Len(q) \in Nat \ {0}
  BY <1>1, TailOK, Zenon
<1>3. q[1] \notin DOMAIN ColumnScope /\ q[1] \notin {"!"} /\ q[1] \notin {"~"}
  <2>1. 1 \in 1..Len(q)
    BY <1>2
  <2> QED
    BY <2>1, Zenon DEF Letters
<1>4. PICK tok : tok = Drop(last, "!")
  OBVIOUS
<1>5. Ends(V, x, v) /\ Ends(V, v, tok)
  BY <1>4, PartsEnd, Zenon
<1>6. /\ Len(x) \in Nat /\ Len(v) \in Nat /\ Len(tok) \in Nat /\ Len(x) <= Len(v) /\ Len(v) <= Len(tok)
      /\ v \in Seq(V)
  BY <1>5, Zenon DEF Ends
<1>7. tok = Peel(last, {"!"}) /\ v = Peel(tok, DOMAIN ColumnScope) /\ scope = ScopeOf(tok)
  <2>1. tok = Peel(last, {"!"})
    BY <1>4, PeelsOK, Zenon
  <2>2. v = ValueOf(tok) /\ scope = ScopeOf(tok)
    BY <1>4, Zenon DEF Parts
  <2>3. v = Peel(tok, DOMAIN ColumnScope)
    BY <2>2, PeelsOK, Zenon
  <2> QED
    BY <2>1, <2>2, <2>3, Zenon
<1>8. PICK a1, tok1 : a1 = Peel(a, {"!"}) /\ tok1 = Peel(p, {"!"})
  OBVIOUS
<1>9. Swapped(V, a1, x, q, tok, tok1)
  <2>1. Len(x) <= Len(Peel(last, {"!"}))
    BY <1>6, <1>7
  <2>2. Swapped(V, Peel(a, {"!"}), x, q, Peel(last, {"!"}), Peel(p, {"!"}))
    BY <1>3, <2>1, PeelOK, Zenon
  <2> QED
    BY <1>7, <1>8, <2>2, Zenon
<1>10. PICK a2, w : a2 = Peel(a1, DOMAIN ColumnScope) /\ w = Peel(tok1, DOMAIN ColumnScope)
  OBVIOUS
<1>11. Swapped(V, a2, x, q, v, w) /\ SameMark(tok, tok1, DOMAIN ColumnScope)
  <2>1. Len(x) <= Len(Peel(tok, DOMAIN ColumnScope))
    BY <1>6, <1>7
  <2>2. /\ SameMark(tok, tok1, DOMAIN ColumnScope)
        /\ Swapped(V, Peel(a1, DOMAIN ColumnScope), x, q, Peel(tok, DOMAIN ColumnScope), Peel(tok1, DOMAIN ColumnScope))
    BY <1>3, <1>9, <2>1, PeelOK, Zenon
  <2> QED
    BY <1>7, <1>10, <2>2, Zenon
<1>12. ~(v # <<>> /\ Head(v) \in {"~"}) /\ Peel(v, {"~"}) = v
  BY Zenon DEF Begins, Peel
<1>13. ~Begins(w, "~")
  <2>1. Len(x) <= Len(Peel(v, {"~"}))
    BY <1>6, <1>12
  <2>2. SameMark(v, w, {"~"})
    BY <1>3, <1>11, <2>1, PeelOK, Zenon
  <2> QED
    BY <1>12, <2>2, Zenon DEF SameMark, Begins
<1>14. w # <<>> /\ w \in Seq(V)
  <2>1. Behind(V, a2, q, w)
    BY <1>11, Zenon DEF Swapped
  <2>2. w \in Seq(V) /\ Len(a2) \in Nat /\ Len(w) = Len(a2) + Len(q)
    BY <2>1, Zenon DEF Behind
  <2> QED
    BY <1>2, <2>2
<1>15. tok1 = Drop(p, "!") /\ w = ValueOf(tok1)
  <2>1. Drop(p, "!") = Peel(p, {"!"})
    BY PeelsOK, Zenon
  <2>2. ValueOf(tok1) = Peel(tok1, DOMAIN ColumnScope)
    BY PeelsOK, Zenon
  <2> QED
    BY <1>8, <1>10, <2>1, <2>2, Zenon
<1>16. ScopeOf(tok1) = scope
  BY <1>7, <1>11, Zenon DEF SameMark, ScopeOf, Scoped
<1>17. PlainWord(p, scope, w)
  BY <1>13, <1>14, <1>15, <1>16, Zenon DEF PlainWord
<1>18. q \in NeedlesOf(w, scope)
  BY <1>6, <1>11, LastAlternative
<1>19. PICK c : c = SplitAlternatives(w, scope)
  OBVIOUS
<1>20. t = [invert |-> Begins(p, "!"), scope |-> scope, needles |-> c]
  <2>1. Term(p) = IF c = <<>> THEN {} ELSE {[invert |-> Begins(p, "!"), scope |-> scope, needles |-> c]}
    BY <1>17, <1>19, PlainTermOK
  <2> QED
    BY <2>1, Zenon
<1>21. t.scope = scope /\ t.needles = c
  <2>1. PICK b : b = Begins(p, "!")
    OBVIOUS
  <2>2. t = [invert |-> b, scope |-> scope, needles |-> c]
    BY <1>20, <2>1, Zenon
  <2> QED
    BY <2>2
<1> QED
  BY <1>18, <1>19, <1>21, Zenon DEF NeedlesOf

\* What is offered for a scope is what a term of that scope, or of any, is compared with.
LEMMA OffersOK ==
  ASSUME NEW r, NEW scope
  PROVE  Offers(r, scope) \in TextsOf(r, scope) /\ Offers(r, scope) \in TextsOf(r, "any")
<1>1. TextsOf(r, "any") = {r.ns, r.name, r.cell}
  BY DEF TextsOf
<1>2. CASE scope = "ns"
  BY <1>1, <1>2 DEF Offers, TextsOf
<1>3. CASE scope = "cell"
  BY <1>1, <1>3 DEF Offers, TextsOf
<1>4. CASE scope = "name"
  BY <1>1, <1>4 DEF Offers, TextsOf
<1>5. CASE scope \notin {"ns", "cell", "name"}
  BY <1>1, <1>5 DEF Offers, TextsOf
<1> QED
  BY <1>2, <1>3, <1>4, <1>5

\* A part of a text that has no mark is a term of its own.
LEMMA PartFound ==
  ASSUME NEW V, NEW q \in Seq(V), q # <<>>, Letters(q), NEW r, NEW scope, Within(q, Offers(r, scope)), NEW t \in Term(q)
  PROVE  Found(t, r)
<1>1. Len(q) \in Nat \ {0} /\ q[1] = Head(q)
  BY TailOK, Zenon
<1>2. Head(q) \notin DOMAIN ColumnScope /\ Head(q) # "!" /\ Head(q) # "~"
  <2>1. 1 \in 1..Len(q)
    BY <1>1
  <2> QED
    BY <1>1, <2>1, Zenon DEF Letters
<1>3. Drop(q, "!") = q /\ ValueOf(q) = q /\ ScopeOf(q) = "any" /\ ~Begins(q, "~")
  BY <1>2, Zenon DEF Drop, Begins, ValueOf, ScopeOf, Scoped
<1>4. PlainWord(q, "any", q)
  BY <1>3, Zenon DEF PlainWord
<1>5. PICK c : c = SplitAlternatives(q, "any")
  OBVIOUS
<1>6. t = [invert |-> Begins(q, "!"), scope |-> "any", needles |-> c]
  <2>1. Term(q) = IF c = <<>> THEN {} ELSE {[invert |-> Begins(q, "!"), scope |-> "any", needles |-> c]}
    BY <1>4, <1>5, PlainTermOK
  <2> QED
    BY <2>1, Zenon
<1>7. t.scope = "any" /\ t.needles = c
  <2>1. PICK b : b = Begins(q, "!")
    OBVIOUS
  <2>2. t = [invert |-> b, scope |-> "any", needles |-> c]
    BY <1>6, <2>1, Zenon
  <2> QED
    BY <2>2
<1>8. NeedlesOf(q, "any") = {q}
  <2>1. \A i \in 1..Len(q) : q[i] # "|"
    BY Zenon DEF Letters
  <2> QED
    BY <2>1, NeedlesOK
<1>9. q \in ToSet(t.needles)
  BY <1>5, <1>7, <1>8, Zenon DEF NeedlesOf
<1> QED
  BY <1>7, <1>9, OffersOK, Zenon DEF Found

\* q is what o has from a position on.
PartOf(V, q, o) ==
  q \in Seq(V) /\ q # <<>> /\ \E d \in 0..Len(o) : d + Len(q) <= Len(o) /\ \A i \in 1..Len(q) : q[i] = o[d + i]

LEMMA PartWithin ==
  ASSUME NEW V, NEW q, NEW o \in Seq(V), PartOf(V, q, o)
  PROVE  Within(q, o)
<1>1. q \in Seq(V) /\ q # <<>>
  BY Zenon DEF PartOf
<1>2. PICK n, m : n = Len(o) /\ n \in Nat /\ m = Len(q) /\ m \in Nat
  <2>1. Len(o) \in Nat /\ Len(q) \in Nat
    BY <1>1
  <2> QED
    BY <2>1, Zenon
<1>3. PICK d \in 0..n : d + m <= n /\ \A i \in 1..m : q[i] = o[d + i]
  BY <1>2, Zenon DEF PartOf
<1>4. PICK b : b = d + m + 1 /\ b - 1 = d + m /\ b - d - 1 = m /\ b \in 0..(n + 1) /\ d \in 0..(n + 1) /\ d < b
  <2>1. PICK b : b = d + m + 1
    OBVIOUS
  <2>2. b - 1 = d + m /\ b - d - 1 = m /\ b \in 0..(n + 1) /\ d \in 0..(n + 1) /\ d < b
    BY <1>2, <1>3, <2>1
  <2> QED
    BY <2>1, <2>2, Zenon
<1>5. PICK s : s = SubSeq(o, d + 1, b - 1)
  OBVIOUS
<1>6. s \in Seq(V) /\ Len(s) = b - d - 1 /\ \A i \in 1..(b - d - 1) : s[i] = o[d + i] /\ d + i \in 1..Len(o)
  BY <1>2, <1>4, <1>5, BetweenOK
<1>7. Len(s) = Len(q) /\ \A i \in 1..Len(q) : s[i] = q[i]
  BY <1>2, <1>3, <1>4, <1>6
<1>8. s = q
  BY <1>1, <1>6, <1>7, SameLetters
<1>9. SubSeq(o, d + 1, d + m) = q
  BY <1>4, <1>5, <1>8
<1>10. d \in 0..(n - m)
  BY <1>2, <1>3
<1> QED
  BY <1>2, <1>9, <1>10, Zenon DEF Within

\* A word of a text that ends with what is offered ends with a part of it, or is one.
LEMMA WordsCompleted ==
  ASSUME NEW V, NEW a \in Seq(V), \A i \in 1..Len(a) : a[i] # Space, NEW o \in Seq(V), o # <<>>, o[1] # Space,
         NEW w, Behind(V, a, o, w), NEW p \in Words(w)
  PROVE  \E q : PartOf(V, q, o) /\ (p = q \/ Behind(V, a, q, p))
<1>1. /\ w \in Seq(V) /\ Len(a) \in Nat /\ Len(o) \in Nat /\ Len(w) = Len(a) + Len(o)
      /\ \A i \in 1..Len(a) : w[i] = a[i]
      /\ \A i \in 1..Len(o) : w[Len(a) + i] = o[i]
  BY Zenon DEF Behind
<1>2. PICK h, n, N : h = Len(a) /\ n = Len(o) /\ N = Len(w) /\ h \in Nat /\ n \in Nat \ {0} /\ N = h + n
  <2>1. PICK h, n : h = Len(a) /\ n = Len(o) /\ h \in Nat /\ n \in Nat \ {0}
    BY <1>1, TailOK, Zenon
  <2> QED
    BY <1>1, <2>1
<1>3. p \in Pieces(w, Space) /\ p # <<>>
  BY Zenon DEF Words
<1>4. PICK k \in 0..(N + 1), c \in 0..(N + 1) : Adjacent(Cuts(w, Space), k, c) /\ p = SubSeq(w, k + 1, c - 1)
  <2>0. w \in Seq(V)
    BY <1>1, Zenon
  <2>1. \E k, c \in 0..(Len(w) + 1) : Adjacent(Cuts(w, Space), k, c) /\ p = SubSeq(w, k + 1, c - 1)
    BY <1>3, <2>0, CutsOfPiece
  <2> QED
    BY <1>2, <2>1, Zenon
<1>5. k \in Cuts(w, Space) /\ c \in Cuts(w, Space) /\ k < c
  BY <1>4, Zenon DEF Adjacent
<1>6. /\ k = 0 \/ (k \in 1..N /\ w[k] = Space)
      /\ c = N + 1 \/ (c \in 1..N /\ w[c] = Space)
  <2>1. k \in {0, N + 1} \/ (k \in 1..N /\ w[k] = Space)
    BY <1>2, <1>5, Zenon DEF Cuts
  <2>2. c \in {0, N + 1} \/ (c \in 1..N /\ w[c] = Space)
    BY <1>2, <1>5, Zenon DEF Cuts
  <2> QED
    BY <1>2, <1>4, <1>5, <2>1, <2>2
<1>7. p \in Seq(V) /\ Len(p) = c - k - 1 /\ \A i \in 1..(c - k - 1) : p[i] = w[k + i]
  <2>1. k \in 0..(Len(w) + 1) /\ c \in 0..(Len(w) + 1)
    BY <1>2, <1>4
  <2>2. p \in Seq(V) /\ Len(p) = c - k - 1 /\ \A i \in 1..(c - k - 1) : p[i] = w[k + i] /\ k + i \in 1..Len(w)
    BY <1>1, <1>4, <1>5, <2>1, BetweenOK
  <2> QED
    BY <2>2
<1>8. ASSUME NEW i \in 1..N, w[i] = Space PROVE i > h
  <2>1. ASSUME i \in 1..h PROVE FALSE
    BY <1>1, <1>2, <1>8, <2>1
  <2> QED
    BY <1>2, <2>1
<1>9. CASE k # 0
  <2>1. k > h /\ k \in 1..N
    BY <1>6, <1>8, <1>9
  <2>2. PICK d : d = k - h /\ d \in 0..n /\ k = h + d
    <3>1. k - h \in 0..n /\ k = h + (k - h)
      BY <1>2, <2>1
    <3> QED
      BY <3>1
  <2>3. d + Len(p) <= n
    BY <1>2, <1>4, <1>5, <1>7, <2>2
  <2>4. ASSUME NEW i \in 1..Len(p) PROVE p[i] = o[d + i]
    <3>1. i \in 1..(c - k - 1)
      BY <1>7
    <3>2. PICK j : j = d + i /\ j \in 1..n /\ k + i = h + j
      <4>1. d + i \in 1..n /\ k + i = h + (d + i)
        BY <1>2, <1>4, <1>5, <2>1, <2>2, <3>1
      <4> QED
        BY <4>1
    <3>3. p[i] = w[k + i] /\ w[Len(a) + j] = o[j]
      BY <1>1, <1>2, <1>7, <3>1, <3>2
    <3>4. w[k + i] = w[h + j]
      BY <3>2, Zenon
    <3> QED
      BY <1>2, <3>2, <3>3, <3>4, Zenon
  <2>5. PartOf(V, p, o)
    BY <1>2, <1>3, <1>7, <2>2, <2>3, <2>4, Zenon DEF PartOf
  <2> QED
    BY <2>5, Zenon
<1>10. CASE k = 0
  <2>1. c > h + 1
    <3>1. CASE c = N + 1
      BY <1>2, <3>1
    <3>2. CASE c \in 1..N /\ w[c] = Space
      <4>1. c > h
        BY <1>8, <3>2
      <4>2. ASSUME c = h + 1 PROVE FALSE
        <5>1. w[h + 1] = o[1]
          BY <1>1, <1>2
        <5> QED
          BY <3>2, <4>2, <5>1
      <4> QED
        BY <1>2, <3>2, <4>1, <4>2
    <3> QED
      BY <1>6, <3>1, <3>2
  <2>2. PICK b, z, m : /\ b = c - h /\ z = 0 /\ m = b - z - 1 /\ z + 1 = 1 /\ b \in 0..(n + 1) /\ z \in 0..(n + 1) /\ z < b
                       /\ m \in Nat \ {0} /\ c - k - 1 = h + m /\ m <= n
    <3>1. PICK b, z, m : b = c - h /\ z = 0 /\ m = c - h - 1
      OBVIOUS
    <3>2. m = b - z - 1 /\ z + 1 = 1 /\ b \in 0..(n + 1) /\ z \in 0..(n + 1) /\ z < b
      <4>1. c \in Int /\ c - h \in 1..(n + 1)
        BY <1>2, <1>4, <2>1
      <4>2. b \in 1..(n + 1) /\ z = 0 /\ m = b - 1
        BY <1>2, <3>1, <4>1
      <4> QED
        BY <1>2, <4>2
    <3>3. m \in Nat \ {0} /\ c - k - 1 = h + m /\ m <= n
      BY <1>2, <1>4, <1>10, <2>1, <3>1
    <3> QED
      BY <3>1, <3>2, <3>3, Zenon
  <2>3. PICK q : q = SubSeq(o, z + 1, b - 1)
    OBVIOUS
  <2>4. q \in Seq(V) /\ Len(q) = b - z - 1 /\ \A i \in 1..(b - z - 1) : q[i] = o[z + i] /\ z + i \in 1..Len(o)
    BY <1>2, <2>2, <2>3, BetweenOK
  <2>5. q \in Seq(V) /\ Len(q) = m /\ \A i \in 1..m : q[i] = o[0 + i]
    BY <2>2, <2>4
  <2>6. q # <<>>
    BY <2>2, <2>5
  <2>7. PartOf(V, q, o)
    <3>1. 0 \in 0..n /\ 0 + m <= n
      BY <1>2, <2>2
    <3> QED
      BY <1>2, <2>5, <2>6, <3>1, Zenon DEF PartOf
  <2>8. Len(p) = h + m /\ \A i \in 1..(h + m) : p[i] = w[i]
    <3>1. \A i \in 1..(h + m) : k + i = i
      BY <1>10
    <3> QED
      BY <1>7, <2>2, <3>1
  <2>9. \A i \in 1..h : p[i] = a[i]
    BY <1>1, <1>2, <2>2, <2>8
  <2>10. ASSUME NEW i \in 1..m PROVE p[h + i] = q[i]
    <3>1. PICK j : j = h + i /\ j \in 1..(h + m) /\ i \in 1..n
      <4>1. h + i \in 1..(h + m) /\ i \in 1..n
        BY <1>2, <2>2
      <4> QED
        BY <4>1
    <3>2. p[j] = w[j] /\ w[h + i] = o[i]
      BY <1>1, <1>2, <2>8, <3>1
    <3>3. 0 + i = i
      OBVIOUS
    <3>4. q[i] = o[i]
      BY <2>5, <3>3
    <3> QED
      BY <3>1, <3>2, <3>4
  <2>11. Len(q) \in Nat /\ Len(p) = Len(a) + Len(q)
    BY <1>2, <2>2, <2>5, <2>8
  <2>12. Behind(V, a, q, p)
    BY <1>1, <1>2, <1>7, <2>5, <2>9, <2>10, <2>11, Zenon DEF Behind
  <2> QED
    BY <2>7, <2>12, Zenon
<1> QED
  BY <1>9, <1>10, Zenon

LEMMA BehindEmpty ==
  ASSUME NEW V, NEW a \in Seq(V)
  PROVE  Behind(V, a, <<>>, a) /\ \A c : Behind(V, a, <<>>, c) => c = a
<1>1. PICK e : e = <<>> /\ Len(e) = 0
  OBVIOUS
<1>2. PICK n : n = Len(a) /\ n \in Nat /\ n + 0 = n
  <2>1. Len(a) \in Nat
    OBVIOUS
  <2> QED
    BY <2>1
<1>3. 1..Len(e) = {}
  BY <1>1
<1>4. Behind(V, a, e, a)
  <2>1. Len(e) \in Nat /\ Len(a) = Len(a) + Len(e) /\ Len(a) \in Nat
    BY <1>1, <1>2
  <2> QED
    BY <1>3, <2>1, Zenon DEF Behind
<1>5. ASSUME NEW c, Behind(V, a, e, c) PROVE c = a
  <2>1. c \in Seq(V) /\ Len(c) = Len(a) + Len(e) /\ \A p \in 1..Len(a) : c[p] = a[p]
    BY <1>5, Zenon DEF Behind
  <2>2. Len(c) = Len(a)
    BY <1>1, <1>2, <2>1
  <2> QED
    BY <2>1, <2>2, SameLetters
<1> QED
  BY <1>1, <1>4, <1>5, Zenon

\* What is offered is a text of a row, and stands behind what the typed text began with.
Suggested(V, b, m, a, scope, v, x, r) ==
  /\ a \in Seq(V) /\ (\A i \in 1..Len(a) : a[i] # Space)
  /\ a = After(FilterMatches(b).prefix, Space) /\ Behind(V, a, x, After(b, Space)) /\ After(b, Space) \in Seq(V)
  /\ Parts(After(b, Space), scope, v, x) /\ ~Begins(v, "~")
  /\ r \in ToSet(TableRows) /\ m = Offers(r, scope) /\ m # <<>>

\* What comes before the text that is typed keeps the words before it.
LEMMA PrefixOK ==
  ASSUME NEW V, NEW b \in Seq(V), NEW last, last = After(b, Space), NEW scope, NEW v, NEW x, Parts(last, scope, v, x),
         NEW pre, pre = SubSeq(b, 1, Len(b) - Len(x)), NEW a, a = After(pre, Space)
  PROVE  a \in Seq(V) /\ last \in Seq(V) /\ x \in Seq(V) /\ Behind(V, a, x, last) /\ \A i \in 1..Len(a) : a[i] # Space
<1>1. last \in Seq(V) /\ \A i \in 1..Len(last) : last[i] # Space
  BY LastPiece, Zenon
<1>2. PICK d : d = LastAt(b, Space) /\ d \in 0..Len(b)
  BY LastAtOK
<1>3. Ends(V, last, b) /\ Len(last) = Len(b) - d
  BY <1>2, EndsAfter, Zenon
<1>4. Ends(V, x, last)
  <2>1. Ends(V, x, v) /\ Ends(V, v, Drop(last, "!")) /\ Ends(V, Drop(last, "!"), last)
    BY <1>1, PartsEnd, Zenon
  <2> QED
    BY <2>1, EndsTrans, Zenon
<1>5. Ends(V, x, b)
  BY <1>3, <1>4, EndsTrans, Zenon
<1>6. Behind(V, pre, x, b) /\ pre \in Seq(V)
  BY <1>5, EndsBehind, Zenon
<1>7. PICK e : e = <<>> /\ e \in Seq(V) /\ Len(e) = 0
  BY EmptyOK, Zenon
<1>8. Swapped(V, pre, x, e, b, pre)
  <2>1. x \in Seq(V)
    BY <1>4, Zenon DEF Ends
  <2>2. Behind(V, pre, e, pre)
    <3>1. Behind(V, pre, <<>>, pre)
      BY <1>6, BehindEmpty, Zenon
    <3> QED
      BY <1>7, <3>1, Zenon
  <2> QED
    BY <1>6, <1>7, <2>1, <2>2, Zenon DEF Swapped
<1>9. d <= Len(pre)
  <2>1. Len(pre) \in Nat /\ Len(x) \in Nat /\ Len(b) = Len(pre) + Len(x) /\ Len(x) <= Len(last) /\ Len(last) \in Nat
    BY <1>4, <1>6, Zenon DEF Behind, Ends
  <2> QED
    BY <1>2, <1>3, <2>1
<1>10. PICK c : c = SubSeq(pre, d + 1, Len(pre))
  OBVIOUS
<1>11. Swapped(V, c, x, e, last, a)
  <2>1. \A i \in 1..Len(e) : e[i] # Space
    BY <1>7
  <2>2. d = LastAt(b, Space)
    BY <1>2, Zenon
  <2>3. Swapped(V, SubSeq(pre, d + 1, Len(pre)), x, e, After(b, Space), After(pre, Space))
    BY <1>8, <1>9, <2>1, <2>2, CutOK
  <2> QED
    BY <1>10, <2>3, Zenon
<1>12. c \in Seq(V) /\ x \in Seq(V) /\ Behind(V, c, x, last) /\ Behind(V, c, e, a)
  BY <1>11, Zenon DEF Swapped
<1>13. a = c
  BY <1>7, <1>12, BehindEmpty, Zenon
<1>14. ASSUME NEW i \in 1..Len(a) PROVE a[i] # Space
  <2>1. /\ Len(a) \in Nat /\ Len(x) \in Nat /\ Len(last) = Len(a) + Len(x)
        /\ \A p \in 1..Len(a) : last[p] = a[p]
    BY <1>12, <1>13, Zenon DEF Behind
  <2>2. i \in 1..Len(last) /\ last[i] = a[i]
    BY <2>1
  <2> QED
    BY <1>1, <2>2
<1> QED
  BY <1>1, <1>12, <1>13, <1>14, Zenon

LEMMA SuggestedOK ==
  ASSUME NEW V, NEW b \in Seq(V), FilterKeys \subseteq V, NEW k \in 1..Len(FilterMatches(b).matches),
         NEW m, m = FilterMatches(b).matches[k]
  PROVE  \E a, scope, v, x, r : Suggested(V, b, m, a, scope, v, x, r)
<1> DEFINE last == After(b, Space)
           tok == Drop(last, "!")
           scope == ScopeOf(tok)
           v == ValueOf(tok)
           x == IF "|" \in ToSet(v) THEN StripRepeatedScope(After(v, "|"), scope) ELSE After(v, "|")
           offers == [i \in 1..Len(TableRows) |-> Offers(TableRows[i], scope)]
           fits == {i \in 1..Len(offers) : /\ offers[i] # <<>> /\ IsPrefix(x, offers[i])
                                           /\ \A n \in 1..(i - 1) : offers[n] # offers[i]}
           none == [prefix |-> <<>>, matches |-> <<>>]
           some == [prefix |-> SubSeq(b, 1, Len(b) - Len(x)), matches |-> Pick(offers, fits)]
<1>1. FilterMatches(b) = IF last = <<>> \/ Begins(v, "~") THEN none ELSE some
  BY Zenon DEF FilterMatches, Space
<1>2. ~(last = <<>> \/ Begins(v, "~"))
  <2>1. ASSUME last = <<>> \/ Begins(v, "~") PROVE FALSE
    <3>1. FilterMatches(b) = none
      BY <1>1, <2>1, Zenon
    <3>2. none.matches = <<>>
      OBVIOUS
    <3>3. FilterMatches(b).matches = <<>>
      BY <3>1, <3>2, Zenon
    <3>4. k \in 1..0
      BY <3>3
    <3> QED
      BY <3>4
  <2> QED
    BY <2>1
<1>3. PICK pre, of, on : pre = SubSeq(b, 1, Len(b) - Len(x)) /\ of = Pick(offers, fits) /\ on = Len(TableRows)
  OBVIOUS
<1>4. FilterMatches(b) = [prefix |-> pre, matches |-> of]
  BY <1>1, <1>2, <1>3, Zenon
<1>5. FilterMatches(b).prefix = pre /\ FilterMatches(b).matches = of
  <2> HIDE DEF last, tok, scope, v, x, offers, fits, none, some
  <2> QED
    BY <1>4
<1>6. offers \in Seq(Seq(V)) /\ Len(offers) = on /\ (\A i \in 1..on : offers[i] = Offers(TableRows[i], scope)) /\ on \in Nat
  <2> HIDE DEF scope
  <2>1. \A i \in 1..Len(TableRows) : Offers(TableRows[i], scope) \in Seq(V)
    <3> TAKE i \in 1..Len(TableRows)
    <3>1. /\ TableRows[i].ns \in Seq(FilterKeys) /\ TableRows[i].name \in Seq(FilterKeys)
          /\ TableRows[i].cell \in Seq(FilterKeys)
      BY RowsTyped
    <3>2. Offers(TableRows[i], scope) \in {TableRows[i].ns, TableRows[i].cell, TableRows[i].name}
      BY Zenon DEF Offers
    <3>3. Offers(TableRows[i], scope) \in Seq(FilterKeys)
      BY <3>1, <3>2
    <3> QED
      BY <3>3
  <2>2. Len(TableRows) \in Nat
    BY RowsTyped
  <2> QED
    BY <1>3, <2>1, <2>2
<1>7. fits \subseteq 1..Len(offers) /\ \A i \in fits : offers[i] # <<>>
  BY Zenon
<1>8. Keeps(of, offers, fits)
  <2> HIDE DEF offers, fits
  <2> QED
    BY <1>3, <1>6, <1>7, PickKeeps
<1>9. PICK i \in fits : m = offers[i]
  <2> HIDE DEF offers, fits
  <2> QED
    BY <1>5, <1>8, Zenon DEF Keeps
<1>10. i \in 1..on /\ m # <<>> /\ m = Offers(TableRows[i], scope)
  <2> HIDE DEF offers, fits, scope
  <2> QED
    BY <1>6, <1>7, <1>9, Zenon
<1>11. TableRows[i] \in ToSet(TableRows)
  <2>1. DOMAIN TableRows = 1..Len(TableRows)
    BY RowsTyped
  <2> QED
    BY <1>3, <1>10, <2>1, Zenon DEF ToSet
<1>12. Parts(last, scope, v, x)
  BY Zenon DEF Parts
<1>13. PICK a : a = After(pre, Space)
  OBVIOUS
<1>14. a \in Seq(V) /\ last \in Seq(V) /\ x \in Seq(V) /\ Behind(V, a, x, last) /\ \A n \in 1..Len(a) : a[n] # Space
  <2> HIDE DEF tok, scope, v, x
  <2> QED
    BY <1>3, <1>12, <1>13, PrefixOK
<1>15. Suggested(V, b, m, a, scope, v, x, TableRows[i])
  <2> HIDE DEF tok, scope, v, x
  <2> QED
    BY <1>2, <1>5, <1>10, <1>11, <1>12, <1>13, <1>14, Zenon DEF Suggested
<1> QED
  <2> HIDE DEF tok, scope, v, x
  <2> QED
    BY <1>15, Zenon

\* The rows of a suggestion hold what it asks for.
LEMMA SuggestionOK ==
  ASSUME NEW V, NEW b \in Seq(V), FilterKeys \subseteq V, NEW m, NEW a, NEW scope, NEW v, NEW x, NEW r,
         Suggested(V, b, m, a, scope, v, x, r), NEW t \in ParseFilter(After(FilterMatches(b).prefix, Space) \o m), m \in Seq(V)
  PROVE  Found(t, r)
<1>1. PICK last : last = After(b, Space)
  OBVIOUS
<1>2. /\ a \in Seq(V) /\ (\A i \in 1..Len(a) : a[i] # Space)
      /\ a = After(FilterMatches(b).prefix, Space) /\ Behind(V, a, x, last) /\ last \in Seq(V)
      /\ Parts(last, scope, v, x) /\ ~Begins(v, "~")
      /\ r \in ToSet(TableRows) /\ m = Offers(r, scope) /\ m # <<>>
  BY <1>1, Zenon DEF Suggested
<1>3. PICK w : w = a \o m
  OBVIOUS
<1>4. Behind(V, a, m, w)
  BY <1>2, <1>3, BehindOK, Zenon
<1>5. w \in Seq(V)
  BY <1>4, Zenon DEF Behind
<1>6. PICK p \in Words(w) : t \in Term(p)
  <2>1. ParseFilter(w) = UNION {Term(n) : n \in Words(w)}
    BY <1>5, WordsOK
  <2>2. t \in ParseFilter(w)
    BY <1>2, <1>3, Zenon
  <2> QED
    BY <2>1, <2>2, Zenon
<1>7. m \in TextsOf(r, scope)
  BY <1>2, OffersOK, Zenon
<1>8. (\A i \in 1..Len(m) : m[i] \notin DOMAIN ColumnScope \cup {"!", "~", "|"}) /\ m[1] # Space
  BY <1>2, <1>7, RowTexts, Zenon
<1>9. PICK q : PartOf(V, q, m) /\ (p = q \/ Behind(V, a, q, p))
  BY <1>2, <1>4, <1>8, WordsCompleted
<1>10. Within(q, m)
  BY <1>9, PartWithin
<1>11. q \in Seq(V) /\ q # <<>> /\ Letters(q)
  <2>1. q \in Seq(V) /\ q # <<>>
    BY <1>9, Zenon DEF PartOf
  <2>2. PICK d \in 0..Len(m) : d + Len(q) <= Len(m) /\ \A i \in 1..Len(q) : q[i] = m[d + i]
    BY <1>9, Zenon DEF PartOf
  <2>3. Len(m) \in Nat /\ Len(q) \in Nat
    BY <2>1
  <2>4. ASSUME NEW i \in 1..Len(q) PROVE q[i] \notin DOMAIN ColumnScope \cup {"!", "~", "|"}
    <3>1. d + i \in 1..Len(m)
      BY <2>2, <2>3
    <3> QED
      BY <1>8, <2>2, <3>1
  <2> QED
    BY <2>1, <2>4, Zenon DEF Letters
<1>12. CASE p = q
  BY <1>2, <1>6, <1>10, <1>11, <1>12, PartFound, Zenon
<1>13. CASE Behind(V, a, q, p)
  <2>1. x \in Seq(V)
    BY <1>2, PartsEnd, Zenon DEF Ends
  <2>2. Swapped(V, a, x, q, last, p)
    BY <1>2, <1>11, <1>13, <2>1, Zenon DEF Swapped
  <2>3. t.scope = scope /\ q \in ToSet(t.needles)
    BY <1>2, <1>6, <1>11, <2>2, CompletedOK, Zenon
  <2> QED
    BY <1>7, <1>10, <2>3, Zenon DEF Found
<1> QED
  BY <1>9, <1>12, <1>13, Zenon

LEMMA InvSuggest ==
  ASSUME Inv
  PROVE  SuggestionFits
<1>1. PICK W : W = CommandKeys \cup FilterKeys /\ Texts = Seq(W)
  BY DEF Texts
<1>2. FilterKeys \subseteq W
  BY <1>1
<1>3. Offered(suggest)
  BY Zenon DEF Inv, LineInv, SuggestInv
<1>4. suggest.matches \in Seq(Seq(W))
  BY <1>1, <1>3, OfferedOK, Zenon
<1> SUFFICES ASSUME NEW k \in 1..Len(suggest.matches)
             PROVE  \E r \in ToSet(TableRows) : \A t \in ParseFilter(After(suggest.prefix, Space) \o suggest.matches[k]) : Found(t, r)
  BY Zenon DEF SuggestionFits, Space
<1>5. suggest # NoSuggest
  <2>1. ASSUME suggest = NoSuggest PROVE FALSE
    <3>1. suggest.matches = <<>>
      BY <2>1 DEF NoSuggest
    <3>2. k \in 1..0
      BY <3>1
    <3> QED
      BY <3>2
  <2> QED
    BY <2>1
<1>6. PICK b \in Seq(W) : suggest = FilterMatches(b)
  BY <1>1, <1>3, <1>5, Zenon DEF Offered
<1>7. PICK m : m = suggest.matches[k] /\ m \in Seq(W)
  <2>1. suggest.matches[k] \in Seq(W)
    BY <1>4
  <2> QED
    BY <2>1, Zenon
<1>8. PICK a, scope, v, x, r : Suggested(W, b, m, a, scope, v, x, r)
  <2>1. k \in 1..Len(FilterMatches(b).matches) /\ m = FilterMatches(b).matches[k]
    BY <1>6, <1>7, Zenon
  <2>2. \E a, scope, v, x, r : Suggested(W, b, m, a, scope, v, x, r)
    BY <1>2, <2>1, SuggestedOK, Zenon
  <2> QED
    BY <2>2, Zenon
<1>9. r \in ToSet(TableRows)
  BY <1>8, Zenon DEF Suggested
<1>10. ASSUME NEW t \in ParseFilter(After(suggest.prefix, Space) \o m) PROVE Found(t, r)
  <2>1. t \in ParseFilter(After(FilterMatches(b).prefix, Space) \o m)
    BY <1>6, <1>10, Zenon
  <2> QED
    BY <1>2, <1>7, <1>8, <2>1, SuggestionOK, Zenon
<1> QED
  BY <1>7, <1>9, <1>10, Zenon

\* What the filter offers is true of what it keeps, in every state: a "|" that is typed
\* changes nothing, more terms keep fewer rows, the hint for an empty result matches
\* what a term of the user's matched, and a suggestion is found in a row (filterRows,
\* unsatisfiableHint, filterMatches).
THEOREM FilterIsSound == Spec => []FilterSound
<1>1. Inv => FilterSound
  BY InvBar, InvHint, InvSuggest, Zenon DEF FilterSound
<1> QED
  BY <1>1, InvHolds, PTL
===============================================================================
