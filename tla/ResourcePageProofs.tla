------------------------- MODULE ResourcePageProofs -------------------------
(***************************************************************************)
(* What is on a resource page's screen is true, and its cursor stays on    *)
(* its object and in the window: for every set of names, every number of   *)
(* objects and usage values, and every height of the terminal.             *)
(***************************************************************************)
EXTENDS ResourcePage, SublistTheorems

-----------------------------------------------------------------------------
(* Sorting *)

Ordered(rows, col, desc) ==
  \A i, j \in DOMAIN rows : i < j =>
    IF desc THEN SortKey(rows[i], col) >= SortKey(rows[j], col)
            ELSE SortKey(rows[i], col) <= SortKey(rows[j], col)

Permutation(q, n) ==
  /\ q \in [1 .. n -> 1 .. n]
  /\ \A k, l \in 1 .. n : q[k] = q[l] => k = l
  /\ \A i \in 1 .. n : \E k \in 1 .. n : q[k] = i

\* sort.SliceStable, as the model defines it by the number of rows that go before
\* each row, is a permutation of the rows, and it is in order.
LEMMA SortedOK ==
  ASSUME NEW n \in Nat, NEW rows, DOMAIN rows = 1 .. n, NEW col, NEW desc \in BOOLEAN,
         \A i \in 1 .. n : SortKey(rows[i], col) \in Int
  PROVE  \E q : /\ Permutation(q, n)
                /\ Sorted(rows, col, desc) = [k \in 1 .. n |-> rows[q[k]]]
                /\ Ordered(Sorted(rows, col, desc), col, desc)
<1> DEFINE Less(i, j) == IF desc THEN SortKey(rows[j], col) < SortKey(rows[i], col)
                                 ELSE SortKey(rows[i], col) < SortKey(rows[j], col)
           Before(i, j) == Less(i, j) \/ (~Less(j, i) /\ i < j)
           D == 1 .. n
           Earlier(i) == {j \in D : Before(j, i)}
           place == [i \in D |-> Cardinality(Earlier(i))]
           p == [i \in D |-> place[i] + 1]
<1>1. \A i, j, k \in D : Before(i, j) /\ Before(j, k) => Before(i, k)
  OBVIOUS
<1>2. \A i, j \in D : /\ i = j \/ Before(i, j) \/ Before(j, i)
                      /\ ~(Before(i, j) /\ Before(j, i)) /\ ~Before(i, i)
  OBVIOUS
<1>3. IsFiniteSet(D) /\ Cardinality(D) = n
  BY FS_Interval
<1>4. Sorted(rows, col, desc) = [k \in D |-> rows[CHOOSE i \in D : place[i] = k - 1]]
  BY DEF Sorted
<1>5. \A i, j \in D : Before(i, j) =>
         IF desc THEN SortKey(rows[i], col) >= SortKey(rows[j], col)
                 ELSE SortKey(rows[i], col) <= SortKey(rows[j], col)
  OBVIOUS
<1>6. \A i, j \in D : j \in Earlier(i) <=> Before(j, i)
  OBVIOUS
<1>7. \A i \in D : Earlier(i) \subseteq D
  OBVIOUS
<1>0. \A k : k \in D <=> k \in Int /\ 1 <= k /\ k <= n
  OBVIOUS
<1> HIDE DEF Before, Earlier, D
<1>8. ASSUME NEW i \in D, NEW j \in D, Before(i, j)
      PROVE  place[i] < place[j] /\ place[i] \in Nat /\ place[j] \in Nat
  <2>1. Earlier(i) \subseteq Earlier(j)
    BY <1>1, <1>6, <1>7, <1>8
  <2>2. i \in Earlier(j) /\ i \notin Earlier(i)
    BY <1>2, <1>6, <1>8
  <2>3. IsFiniteSet(Earlier(j))
    BY <1>3, <1>7, FS_Subset
  <2> QED
    BY <2>1, <2>2, <2>3, StrictlySmaller
<1>9. \A i, j \in D : place[i] = place[j] => i = j
  BY <1>2, <1>8
<1>10. \A i \in D : place[i] \in 0 .. n - 1
  <2> TAKE i \in D
  <2>1. i \notin Earlier(i) /\ Earlier(i) \subseteq D
    BY <1>2, <1>6, <1>7
  <2>2. Cardinality(Earlier(i)) \in Nat /\ Cardinality(Earlier(i)) < Cardinality(D)
    BY <1>3, <2>1, StrictlySmaller
  <2> QED
    BY <1>3, <2>2
<1>11. p \in [D -> 1 .. Cardinality(D)] /\ \A i, j \in D : p[i] = p[j] => i = j
  BY <1>3, <1>9, <1>10
<1>12. \A i \in D : p[i] = place[i] + 1
  OBVIOUS
<1> HIDE DEF p
<1>13. \A k \in 1 .. Cardinality(D) : \E i \in D : p[i] = k
  BY <1>3, <1>11, Ranking
<1>14. \A k \in D : \E i \in D : place[i] = k - 1
  <2> TAKE k \in D
  <2>1. k \in 1 .. Cardinality(D)
    BY <1>0, <1>3
  <2>2. PICK i \in D : place[i] + 1 = k
    BY <1>12, <1>13, <2>1
  <2>3. place[i] \in Int
    BY <1>10
  <2> QED
    BY <2>2, <2>3
<1> HIDE DEF place
<1> DEFINE q == [k \in D |-> CHOOSE i \in D : place[i] = k - 1]
<1>15. \A k \in D : q[k] \in D /\ place[q[k]] = k - 1
  BY <1>14
<1>16. Sorted(rows, col, desc) = [k \in D |-> rows[q[k]]]
  BY <1>4
<1>17. q \in [D -> D]
  BY <1>15
<1> HIDE DEF q
<1>18. Permutation(q, n)
  <2>1. \A k, l \in D : q[k] = q[l] => k = l
    <3> SUFFICES ASSUME NEW k \in D, NEW l \in D, q[k] = q[l] PROVE k = l
      OBVIOUS
    <3>1. k - 1 = l - 1 /\ k \in Int /\ l \in Int
      BY <1>0, <1>15
    <3> QED
      BY <3>1
  <2>2. ASSUME NEW i \in D PROVE \E k \in D : q[k] = i
    <3>1. place[i] + 1 \in D
      BY <1>10 DEF D
    <3>2. place[q[place[i] + 1]] = place[i] /\ q[place[i] + 1] \in D
      BY <1>10, <1>15, <3>1
    <3> QED
      BY <1>9, <3>1, <3>2
  <2> QED
    BY <1>17, <2>1, <2>2 DEF Permutation, D
<1>19. Ordered(Sorted(rows, col, desc), col, desc)
  <2> SUFFICES ASSUME NEW k \in D, NEW l \in D, k < l
               PROVE  IF desc THEN SortKey(rows[q[k]], col) >= SortKey(rows[q[l]], col)
                              ELSE SortKey(rows[q[k]], col) <= SortKey(rows[q[l]], col)
    BY <1>16 DEF Ordered
  <2>1. q[k] \in D /\ q[l] \in D /\ place[q[k]] < place[q[l]] /\ place[q[k]] \in Nat /\ place[q[l]] \in Nat
    <3>1. q[k] \in D /\ q[l] \in D /\ place[q[k]] = k - 1 /\ place[q[l]] = l - 1 /\ k \in Int /\ l \in Int
      BY <1>0, <1>15
    <3>2. place[q[k]] \in Nat /\ place[q[l]] \in Nat
      <4>1. \A i \in D : place[i] \in Nat
        BY <1>10
      <4> QED
        BY <3>1, <4>1, Zenon
    <3>3. k - 1 < l - 1
      BY <3>1
    <3>4. place[q[k]] < place[q[l]]
      BY <3>1, <3>3, Zenon
    <3> QED
      BY <3>1, <3>2, <3>4, Zenon
  <2>2. Before(q[k], q[l])
    BY <1>2, <1>8, <2>1
  <2> QED
    BY <1>5, <2>1, <2>2
<1> QED
  BY <1>16, <1>18, <1>19 DEF D

-----------------------------------------------------------------------------
(* The rows of a page: what the snapshot, the overlay, the filter and the  *)
(* sort keep of them                                                       *)

UniqueUids(rows) == \A i, j \in DOMAIN rows : rows[i].uid = rows[j].uid => i = j
RowsOK(rows) == rows \in Seq(Rows) /\ UniqueUids(rows)
RowSet(rows) == {rows[i] : i \in DOMAIN rows}

\* UIDs are handed out once.
LiveOK == /\ live \in [Names -> 0 .. MaxUid] /\ created \in 0 .. MaxUid
          /\ \A n \in Names : live[n] <= created
          /\ \A m, n \in Names : live[m] = live[n] /\ live[m] # 0 => m = n

\* What a row consists of, and that its sort keys can be compared.
LEMMA RowFields ==
  ASSUME NEW r \in Rows
  PROVE  r.uid \in 1 .. MaxUid /\ r.name \in Names /\ r.cpu \in 0 .. MaxUsage
         /\ \A col : SortKey(r, col) \in Int
<1>1. r.uid \in 1 .. MaxUid /\ r.name \in Names /\ r.cpu \in 0 .. MaxUsage
  BY DEF Rows
<1>2. Names \subseteq Int /\ 0 .. MaxUsage \subseteq Int
  BY ConstantsOK
<1>3. r.name \in Int /\ r.cpu \in Int
  BY <1>1, <1>2, Zenon
<1> QED
  BY <1>1, <1>3, Zenon DEF SortKey

\* A UID, a name and a usage make a row.
LEMMA NewRow ==
  ASSUME NEW u \in 1 .. MaxUid, NEW n \in Names, NEW c \in 0 .. MaxUsage
  PROVE  [uid |-> u, name |-> n, cpu |-> c] \in Rows
BY DEF Rows

\* A sequence that takes rows from another one, each at most once.
LEMMA PickedRows ==
  ASSUME NEW rows, RowsOK(rows), NEW n \in Nat, NEW s, s = [k \in 1 .. n |-> s[k]],
         NEW q, \A k \in 1 .. n : q[k] \in DOMAIN rows /\ s[k] = rows[q[k]],
         \A k, l \in 1 .. n : q[k] = q[l] => k = l
  PROVE  RowsOK(s) /\ Len(s) = n /\ DOMAIN s = 1 .. n
<1>1. DOMAIN rows = 1 .. Len(rows) /\ \A i \in DOMAIN rows : rows[i] \in Rows
  BY DEF RowsOK
<1>2. s \in [1 .. n -> Rows]
  BY <1>1
<1>3. s \in Seq(Rows) /\ Len(s) = n /\ DOMAIN s = 1 .. n
  BY <1>2
<1>4. UniqueUids(s)
  BY <1>3 DEF RowsOK, UniqueUids
<1> QED
  BY <1>3, <1>4 DEF RowsOK

\* Sorting permutes the rows: same length, same set, and in order.
LEMMA SortKeepsRows ==
  ASSUME NEW rows, RowsOK(rows), NEW col, NEW desc \in BOOLEAN, NEW s, s = Sorted(rows, col, desc)
  PROVE  RowsOK(s) /\ Len(s) = Len(rows) /\ DOMAIN s = DOMAIN rows /\ RowSet(s) = RowSet(rows)
         /\ Ordered(s, col, desc)
<1>1. PICK n \in Nat : n = Len(rows) /\ DOMAIN rows = 1 .. n /\ \A i \in 1 .. n : rows[i] \in Rows
  BY DEF RowsOK
<1>2. \A i \in 1 .. n : SortKey(rows[i], col) \in Int
  BY <1>1, RowFields
<1>3. PICK q : Permutation(q, n) /\ s = [k \in 1 .. n |-> rows[q[k]]] /\ Ordered(s, col, desc)
  BY <1>1, <1>2, SortedOK
<1>4. \A k \in 1 .. n : q[k] \in 1 .. n /\ s[k] = rows[q[k]]
  BY <1>3 DEF Permutation
<1>5. RowsOK(s) /\ Len(s) = n /\ DOMAIN s = 1 .. n
  <2>1. \A k, l \in 1 .. n : q[k] = q[l] => k = l
    BY <1>3 DEF Permutation
  <2>2. s = [k \in 1 .. n |-> s[k]]
    BY <1>3
  <2>3. \A k \in 1 .. n : q[k] \in DOMAIN rows /\ s[k] = rows[q[k]]
    BY <1>1, <1>4
  <2> QED
    BY <2>1, <2>2, <2>3, PickedRows
<1>6. RowSet(s) = RowSet(rows)
  <2>1. \A i \in 1 .. n : \E k \in 1 .. n : q[k] = i
    BY <1>3 DEF Permutation
  <2>2. \A k \in DOMAIN s : \E i \in DOMAIN rows : s[k] = rows[i]
    BY <1>1, <1>4, <1>5, Zenon
  <2>3. \A i \in DOMAIN rows : \E k \in DOMAIN s : rows[i] = s[k]
    <3> SUFFICES ASSUME NEW i \in 1 .. n PROVE \E k \in 1 .. n : rows[i] = s[k]
      BY <1>1, <1>5
    <3>1. PICK k \in 1 .. n : q[k] = i
      BY <2>1
    <3>2. s[k] = rows[i]
      BY <1>4, <3>1
    <3> QED
      BY <3>2
  <2> QED
    BY <2>2, <2>3 DEF RowSet
<1> QED
  BY <1>1, <1>3, <1>5, <1>6

\* The metrics overlay changes usages only, so UIDs stay unique.
LEMMA OverlayKeepsRows ==
  ASSUME NEW rows, RowsOK(rows), NEW m \in [Names -> 0 .. MaxUsage], NEW s, s = Overlay(rows, m)
  PROVE  RowsOK(s)
<1>1. PICK n \in Nat : n = Len(rows) /\ DOMAIN rows = 1 .. n /\ \A i \in 1 .. n : rows[i] \in Rows
  BY DEF RowsOK
<1>2. ASSUME NEW i \in 1 .. n
      PROVE  s[i] \in Rows /\ s[i].uid = rows[i].uid
  <2>1. PICK r \in Rows : r = rows[i]
    BY <1>1
  <2>2. r.name \in Names /\ m[r.name] \in 0 .. MaxUsage
    BY RowFields
  <2>3. s[i] = IF m[r.name] = 0 THEN r ELSE [r EXCEPT !.cpu = m[r.name]]
    BY <1>1, <2>1 DEF Overlay
  <2>4. \A x \in 0 .. MaxUsage : [r EXCEPT !.cpu = x] \in Rows /\ [r EXCEPT !.cpu = x].uid = r.uid
    <3>1. ASSUME NEW A, NEW B, NEW C, NEW t \in [uid : A, name : B, cpu : C], NEW x \in C
          PROVE  [t EXCEPT !.cpu = x] \in [uid : A, name : B, cpu : C] /\ [t EXCEPT !.cpu = x].uid = t.uid
      OBVIOUS
    <3> QED
      BY <3>1 DEF Rows
  <2> QED
    BY <2>1, <2>2, <2>3, <2>4
<1>3. s = [i \in 1 .. n |-> s[i]]
  BY <1>1 DEF Overlay
<1>4. s \in Seq(Rows) /\ DOMAIN s = 1 .. n
  <2>1. s \in [1 .. n -> Rows]
    BY <1>2, <1>3
  <2> QED
    BY <2>1
<1>5. UniqueUids(s)
  BY <1>1, <1>2, <1>4 DEF RowsOK, UniqueUids
<1> QED
  BY <1>4, <1>5 DEF RowsOK

\* The filter keeps exactly the rows that match.
LEMMA FilterKeepsRows ==
  ASSUME NEW rows, RowsOK(rows), NEW f, NEW s, s = FilterRows(rows, f)
  PROVE  RowsOK(s) /\ RowSet(s) = {r \in RowSet(rows) : Matches(r, f)}
<1>1. PICK n \in Nat : n = Len(rows) /\ DOMAIN rows = 1 .. n /\ \A i \in 1 .. n : rows[i] \in Rows
  BY DEF RowsOK
<1>2. CASE f = NoFilter
  BY <1>2 DEF FilterRows, RowSet, Matches
<1>3. CASE f # NoFilter
  <2>1. PICK kept : kept = {i \in DOMAIN rows : Matches(rows[i], f)}
    OBVIOUS
  <2>2. kept \subseteq DOMAIN rows /\ kept \subseteq Int /\ IsFiniteSet(kept)
    <3>1. kept \subseteq 1 .. n /\ 1 .. n \subseteq Int /\ kept \subseteq DOMAIN rows
      BY <1>1, <2>1
    <3>2. IsFiniteSet(1 .. n)
      BY FS_Interval
    <3> QED
      BY <3>1, <3>2, FS_Subset
  <2>3. PICK c \in Nat : c = Cardinality(kept)
    BY <2>2, FS_CardinalityType
  <2>4. s = [k \in 1 .. c |-> rows[Nth(kept, k)]]
    BY <1>3, <2>1, <2>3 DEF FilterRows, Pick
  <2>5. /\ \A k \in 1 .. c : Nth(kept, k) \in kept
        /\ \A k, l \in 1 .. c : Nth(kept, k) = Nth(kept, l) => k = l
        /\ \A i \in kept : \E k \in 1 .. c : Nth(kept, k) = i
    BY <2>2, <2>3, NthOK
  <2>6. PICK q : q = [k \in 1 .. c |-> Nth(kept, k)]
    OBVIOUS
  <2>7. /\ \A k \in 1 .. c : q[k] \in kept /\ s[k] = rows[q[k]]
        /\ \A k, l \in 1 .. c : q[k] = q[l] => k = l
        /\ \A i \in kept : \E k \in 1 .. c : q[k] = i
        /\ s = [k \in 1 .. c |-> s[k]]
    BY <2>4, <2>5, <2>6
  <2>8. RowsOK(s) /\ DOMAIN s = 1 .. c
    <3>1. \A k \in 1 .. c : q[k] \in DOMAIN rows /\ s[k] = rows[q[k]]
      BY <2>2, <2>7
    <3>2. \A k, l \in 1 .. c : q[k] = q[l] => k = l
      BY <2>7
    <3>3. s = [k \in 1 .. c |-> s[k]]
      BY <2>7
    <3>4. RowsOK(s) /\ Len(s) = c /\ DOMAIN s = 1 .. c
      BY <3>1, <3>2, <3>3, PickedRows, SMTT(30)
    <3> QED
      BY <3>4
  <2>9. RowSet(s) = {rows[i] : i \in kept}
    BY <2>7, <2>8 DEF RowSet
  <2>10. RowSet(s) = {r \in RowSet(rows) : Matches(r, f)}
    BY <2>1, <2>9, Zenon DEF RowSet
  <2> QED
    BY <2>8, <2>10
<1> QED
  BY <1>2, <1>3

\* A snapshot has one row per object, and no two with the same UID.
LEMMA SnapshotOK ==
  ASSUME LiveOK
  PROVE  RowsOK(SnapshotRows)
<1>1. PICK present : present = {n \in Names : live[n] # 0}
  OBVIOUS
<1>2. present \subseteq Names /\ present \subseteq Int /\ IsFiniteSet(present)
  <2>1. present \subseteq Names /\ Names \subseteq Int /\ IsFiniteSet(Names)
    BY <1>1, ConstantsOK
  <2> QED
    BY <2>1, FS_Subset
<1>3. PICK c \in Nat : c = Cardinality(present)
  BY <1>2, FS_CardinalityType
<1>4. PICK q : q = [k \in 1 .. c |-> Nth(present, k)]
  OBVIOUS
<1>5. /\ \A k \in 1 .. c : q[k] \in present
      /\ \A k, l \in 1 .. c : q[k] = q[l] => k = l
  <2>1. /\ \A k \in 1 .. c : Nth(present, k) \in present
        /\ \A k, l \in 1 .. c : Nth(present, k) = Nth(present, l) => k = l
    BY <1>2, <1>3, NthOK
  <2> QED
    BY <1>4, <2>1
<1>6. PICK s : s = SnapshotRows
  OBVIOUS
<1>7. s = [k \in 1 .. c |-> [uid |-> live[q[k]], name |-> q[k], cpu |-> 0]]
  BY <1>1, <1>3, <1>4, <1>6 DEF SnapshotRows
<1>8. \A k \in 1 .. c : q[k] \in Names /\ live[q[k]] \in 1 .. MaxUid /\ 0 \in 0 .. MaxUsage
  <2>1. \A m \in present : m \in Names /\ live[m] \in 0 .. MaxUid /\ live[m] # 0
    BY <1>1 DEF LiveOK
  <2>2. \A m \in present : m \in Names /\ live[m] \in 1 .. MaxUid
    BY <2>1, ConstantsOK
  <2>3. 0 \in 0 .. MaxUsage
    BY ConstantsOK
  <2> QED
    BY <1>5, <2>2, <2>3
<1>9. \A k \in 1 .. c : s[k] \in Rows /\ s[k].uid = live[q[k]]
  BY <1>7, <1>8, NewRow
<1>10. s \in Seq(Rows) /\ DOMAIN s = 1 .. c
  <2>1. s \in [1 .. c -> Rows]
    BY <1>7, <1>9
  <2> QED
    BY <2>1
<1>11. UniqueUids(s)
  <2> SUFFICES ASSUME NEW k \in 1 .. c, NEW l \in 1 .. c, s[k].uid = s[l].uid PROVE k = l
    BY <1>10 DEF UniqueUids
  <2>1. live[q[k]] = live[q[l]] /\ live[q[k]] # 0
    BY <1>8, <1>9
  <2> QED
    BY <1>5, <1>8, <2>1 DEF LiveOK
<1> QED
  BY <1>6, <1>10, <1>11 DEF RowsOK

-----------------------------------------------------------------------------
(* The table widget *)

TableFields == {"rows", "cursor", "offset", "height", "width", "sortCol", "sortDesc", "marked", "cache"}

Typed(t) ==
  /\ DOMAIN t = TableFields /\ RowsOK(t.rows)
  /\ t.cursor \in Int /\ t.offset \in Nat /\ t.height \in Nat
  /\ t.sortDesc \in BOOLEAN /\ t.marked \subseteq 1 .. MaxUid

CursorOK(t) ==
  /\ t.cursor \in Nat
  /\ t.cursor < Len(t.rows) \/ (t.cursor = 0 /\ Len(t.rows) = 0)
  /\ t.height > 0 => t.offset <= t.cursor /\ t.cursor < t.offset + t.height

\* A cached line is the line of the row that has the key's UID, painted with the
\* key's flags: together with the uniqueness of UIDs this is why a hit is right
\* whatever the cursor and the marks have become since.
CacheOK(t) ==
  \A e \in t.cache : \E i \in DOMAIN t.rows :
    /\ e.key.uid = t.rows[i].uid
    /\ e.line = [name |-> t.rows[i].name, cpu |-> t.rows[i].cpu, width |-> e.key.width,
                 selected |-> e.key.selected, marked |-> e.key.marked]

WidgetOK(t) == Typed(t) /\ CursorOK(t) /\ CacheOK(t) /\ Ordered(t.rows, t.sortCol, t.sortDesc)

\* clampCursor puts the cursor on a row, and leaves one that is on a row.
LEMMA Clamped ==
  ASSUME NEW t, Typed(t), NEW u, u = ClampCursor(t)
  PROVE  /\ DOMAIN u = TableFields /\ u.rows = t.rows /\ u.offset = t.offset /\ u.height = t.height /\ u.width = t.width
         /\ u.sortCol = t.sortCol /\ u.sortDesc = t.sortDesc /\ u.marked = t.marked /\ u.cache = t.cache
         /\ u.cursor \in Nat /\ (u.cursor < Len(u.rows) \/ (u.cursor = 0 /\ Len(u.rows) = 0))
         /\ t.cursor \in 0 .. Len(t.rows) - 1 => u.cursor = t.cursor
<1>1. PICK n \in Nat, c \in Int : n = Len(t.rows) /\ c = t.cursor
  BY DEF Typed, RowsOK
<1>2. PICK d : /\ d = IF (IF (IF c < 0 THEN 0 ELSE c) >= n THEN n - 1 ELSE (IF c < 0 THEN 0 ELSE c)) < 0 THEN 0
                       ELSE (IF (IF c < 0 THEN 0 ELSE c) >= n THEN n - 1 ELSE (IF c < 0 THEN 0 ELSE c))
               /\ u = [t EXCEPT !.cursor = d]
  BY <1>1, Zenon DEF ClampCursor, RowCount
<1>3. d \in Nat /\ (d < n \/ (d = 0 /\ n = 0)) /\ (c \in 0 .. n - 1 => d = c)
  BY <1>1, <1>2
<1>4. /\ DOMAIN u = TableFields /\ u.rows = t.rows /\ u.offset = t.offset /\ u.height = t.height /\ u.width = t.width
      /\ u.sortCol = t.sortCol /\ u.sortDesc = t.sortDesc /\ u.marked = t.marked /\ u.cache = t.cache /\ u.cursor = d
  BY <1>2 DEF Typed, TableFields
<1> QED
  BY <1>1, <1>3, <1>4

\* ensureVisible moves only the window, and moves it over the cursor.
LEMMA MadeVisible ==
  ASSUME NEW t, DOMAIN t = TableFields, t.cursor \in Nat, t.offset \in Nat, t.height \in Nat, NEW u, u = EnsureVisible(t)
  PROVE  /\ DOMAIN u = TableFields /\ u.rows = t.rows /\ u.cursor = t.cursor /\ u.height = t.height /\ u.width = t.width
         /\ u.sortCol = t.sortCol /\ u.sortDesc = t.sortDesc /\ u.marked = t.marked /\ u.cache = t.cache
         /\ u.offset \in Nat
         /\ u.height > 0 => u.offset <= u.cursor /\ u.cursor < u.offset + u.height
<1>1. PICK c \in Nat, o \in Nat, h \in Nat : c = t.cursor /\ o = t.offset /\ h = t.height
  OBVIOUS
<1>2. CASE h <= 0
  <2>1. u = t
    BY <1>1, <1>2 DEF EnsureVisible
  <2> QED
    BY <1>1, <1>2, <2>1
<1>3. CASE ~(h <= 0)
  <2>1. PICK d : /\ d = IF (IF c >= (IF c < o THEN c ELSE o) + h THEN c - h + 1 ELSE (IF c < o THEN c ELSE o)) < 0 THEN 0
                         ELSE (IF c >= (IF c < o THEN c ELSE o) + h THEN c - h + 1 ELSE (IF c < o THEN c ELSE o))
                 /\ u = [t EXCEPT !.offset = d]
    BY <1>1, <1>3, Zenon DEF EnsureVisible
  <2>2. d \in Nat /\ d <= c /\ c < d + h
    BY <1>1, <1>3, <2>1
  <2>3. /\ DOMAIN u = TableFields /\ u.rows = t.rows /\ u.cursor = t.cursor /\ u.height = t.height /\ u.width = t.width
        /\ u.sortCol = t.sortCol /\ u.sortDesc = t.sortDesc /\ u.marked = t.marked /\ u.cache = t.cache /\ u.offset = d
    BY <2>1 DEF TableFields
  <2> QED
    BY <1>1, <2>2, <2>3
<1> QED
  BY <1>2, <1>3

\* Together they leave a well-placed cursor over the same rows.
LEMMA Settled ==
  ASSUME NEW t, Typed(t), NEW u, u = EnsureVisible(ClampCursor(t))
  PROVE  /\ Typed(u) /\ CursorOK(u) /\ u.rows = t.rows /\ u.sortCol = t.sortCol /\ u.sortDesc = t.sortDesc
         /\ u.cache = t.cache /\ u.height = t.height
         /\ t.cursor \in 0 .. Len(t.rows) - 1 => u.cursor = t.cursor
<1>1. PICK v : v = ClampCursor(t)
  OBVIOUS
<1>2. /\ DOMAIN v = TableFields /\ v.rows = t.rows /\ v.offset = t.offset /\ v.height = t.height
      /\ v.sortCol = t.sortCol /\ v.sortDesc = t.sortDesc /\ v.marked = t.marked /\ v.cache = t.cache
      /\ v.cursor \in Nat /\ (v.cursor < Len(v.rows) \/ (v.cursor = 0 /\ Len(v.rows) = 0))
      /\ t.cursor \in 0 .. Len(t.rows) - 1 => v.cursor = t.cursor
  BY <1>1, Clamped
<1>3. v.offset \in Nat /\ v.height \in Nat
  BY <1>2 DEF Typed
<1>4. /\ DOMAIN u = TableFields /\ u.rows = v.rows /\ u.cursor = v.cursor /\ u.height = v.height
      /\ u.sortCol = v.sortCol /\ u.sortDesc = v.sortDesc /\ u.marked = v.marked /\ u.cache = v.cache
      /\ u.offset \in Nat
      /\ u.height > 0 => u.offset <= u.cursor /\ u.cursor < u.offset + u.height
  BY <1>1, <1>2, <1>3, MadeVisible, SMTT(60)
<1>5. u.cursor \in Int /\ u.height \in Nat
  BY <1>2, <1>3, <1>4
<1>6. Typed(u)
  BY <1>2, <1>4, <1>5, Zenon DEF Typed
<1>7. CursorOK(u)
  BY <1>2, <1>4, Zenon DEF CursorOK
<1> QED
  BY <1>2, <1>4, <1>6, <1>7, Zenon

\* The keys that move the cursor.
LEMMA MoveKeeps ==
  ASSUME NEW t, WidgetOK(t), NEW u \in Moves(t)
  PROVE  WidgetOK(u) /\ u.rows = t.rows
<1>1. ASSUME NEW c \in Int, u = EnsureVisible(ClampCursor([t EXCEPT !.cursor = c]))
      PROVE  WidgetOK(u) /\ u.rows = t.rows
  <2>1. PICK v : v = [t EXCEPT !.cursor = c]
    OBVIOUS
  <2>2. /\ DOMAIN v = TableFields /\ v.rows = t.rows /\ v.offset = t.offset /\ v.height = t.height
        /\ v.sortCol = t.sortCol /\ v.sortDesc = t.sortDesc /\ v.marked = t.marked /\ v.cache = t.cache /\ v.cursor = c
    BY <2>1 DEF WidgetOK, Typed, TableFields
  <2>3. Typed(v)
    BY <2>2, Zenon DEF WidgetOK, Typed
  <2>4. Typed(u) /\ CursorOK(u) /\ u.rows = t.rows /\ u.sortCol = t.sortCol /\ u.sortDesc = t.sortDesc /\ u.cache = t.cache
    BY <1>1, <2>1, <2>2, <2>3, Settled, ZenonT(30)
  <2> QED
    BY <2>4, Zenon DEF WidgetOK, CacheOK
<1>2. PICK c \in Int, h \in Int, n \in Int : c = t.cursor /\ h = t.height /\ n = Len(t.rows)
  BY DEF WidgetOK, Typed, RowsOK
<1>3. c + -1 \in Int /\ c + 1 \in Int /\ c + -h \in Int /\ c + h \in Int /\ n - 1 \in Int
  OBVIOUS
<1>4. CASE u \in {MoveUp(t), MoveDown(t), PageUp(t), PageDown(t), End(t)}
  <2>1. \/ u = EnsureVisible(ClampCursor([t EXCEPT !.cursor = c + -1]))
        \/ u = EnsureVisible(ClampCursor([t EXCEPT !.cursor = c + 1]))
        \/ u = EnsureVisible(ClampCursor([t EXCEPT !.cursor = c + -h]))
        \/ u = EnsureVisible(ClampCursor([t EXCEPT !.cursor = c + h]))
        \/ u = EnsureVisible(ClampCursor([t EXCEPT !.cursor = n - 1]))
    BY <1>2, <1>4, Zenon DEF MoveUp, MoveDown, PageUp, PageDown, End, MoveBy, RowCount
  <2> QED
    BY <1>1, <1>3, <2>1, Zenon
<1>5. CASE u = Home(t)
  <2>1. PICK v : v = [t EXCEPT !.cursor = 0]
    OBVIOUS
  <2>2. /\ DOMAIN v = TableFields /\ v.rows = t.rows /\ v.offset = t.offset /\ v.height = t.height
        /\ v.sortCol = t.sortCol /\ v.sortDesc = t.sortDesc /\ v.marked = t.marked /\ v.cache = t.cache /\ v.cursor = 0
        /\ v.cursor \in Nat
    BY <2>1 DEF WidgetOK, Typed, TableFields
  <2>3. v.offset \in Nat /\ v.height \in Nat
    BY <2>2 DEF WidgetOK, Typed
  <2>4. /\ DOMAIN u = TableFields /\ u.rows = v.rows /\ u.cursor = v.cursor /\ u.height = v.height
        /\ u.sortCol = v.sortCol /\ u.sortDesc = v.sortDesc /\ u.marked = v.marked /\ u.cache = v.cache
        /\ u.offset \in Nat
        /\ u.height > 0 => u.offset <= u.cursor /\ u.cursor < u.offset + u.height
    BY <1>5, <2>1, <2>2, <2>3, MadeVisible, ZenonT(30) DEF Home
  <2>5. u.cursor \in Int /\ u.cursor \in Nat /\ u.height \in Nat
    BY <2>2, <2>3, <2>4
  <2>6. u.cursor < Len(u.rows) \/ (u.cursor = 0 /\ Len(u.rows) = 0)
    BY <1>2, <2>2, <2>4 DEF WidgetOK, CursorOK
  <2> QED
    BY <2>2, <2>4, <2>5, <2>6, ZenonT(30) DEF WidgetOK, Typed, CursorOK, CacheOK
<1> QED
  BY <1>4, <1>5, Zenon DEF Moves

\* Marks are UIDs of rows; marking and forgetting marks leaves the rest alone.
LEMMA MarksKeep ==
  ASSUME NEW t, WidgetOK(t), NEW u, u = ToggleMark(t) \/ u = PruneMarks(t)
  PROVE  WidgetOK(u) /\ u.rows = t.rows
<1>1. CASE u = t
  BY <1>1
<1>2. ASSUME NEW M, M \subseteq 1 .. MaxUid, u = [t EXCEPT !.marked = M]
      PROVE  WidgetOK(u) /\ u.rows = t.rows
  <2>1. /\ DOMAIN u = TableFields /\ u.rows = t.rows /\ u.offset = t.offset /\ u.height = t.height /\ u.cursor = t.cursor
        /\ u.sortCol = t.sortCol /\ u.sortDesc = t.sortDesc /\ u.marked = M /\ u.cache = t.cache
    BY <1>2 DEF WidgetOK, Typed, TableFields
  <2>2. Typed(t) /\ CursorOK(t) /\ CacheOK(t) /\ Ordered(t.rows, t.sortCol, t.sortDesc)
    BY DEF WidgetOK
  <2>3. Typed(u)
    BY <1>2, <2>1, <2>2 DEF Typed
  <2>4. CursorOK(u)
    BY <2>1, <2>2 DEF CursorOK
  <2>5. CacheOK(u)
    BY <2>1, <2>2, Zenon DEF CacheOK
  <2> QED
    BY <2>1, <2>2, <2>3, <2>4, <2>5, Zenon DEF WidgetOK
<1>3. t.marked \subseteq 1 .. MaxUid
  BY DEF WidgetOK, Typed
<1>4. CASE u = PruneMarks(t)
  <2>1. PICK M : M = t.marked \cap {t.rows[i].uid : i \in DOMAIN t.rows}
    OBVIOUS
  <2>2. u = [t EXCEPT !.marked = M]
    BY <1>4, <2>1, Zenon DEF PruneMarks
  <2>3. M \subseteq 1 .. MaxUid
    BY <1>3, <2>1, Zenon
  <2> QED
    BY <1>2, <2>2, <2>3, Zenon
<1>5. CASE u = ToggleMark(t) /\ u # t
  <2>1. PICK x : x = Selected(t).uid
    OBVIOUS
  <2>2. SelectedOK(t) /\ \E M : (M \subseteq t.marked \cup {x}) /\ u = [t EXCEPT !.marked = M]
    BY <1>5, <2>1, Zenon DEF ToggleMark
  <2>3. Selected(t) \in Rows
    BY <2>2 DEF Selected, SelectedOK, RowCount, WidgetOK, Typed, RowsOK
  <2>4. x \in 1 .. MaxUid
    BY <2>1, <2>3, RowFields
  <2> QED
    BY <1>2, <1>3, <2>2, <2>4, Zenon
<1> QED
  BY <1>1, <1>4, <1>5

\* The object SetRows looks for is found where it is, because UIDs are unique.
LEMMA IndexFound ==
  ASSUME NEW rows, RowsOK(rows), NEW x, \E i \in DOMAIN rows : rows[i].uid = x
  PROVE  /\ IndexOf(rows, x) \in 0 .. Len(rows) - 1
         /\ rows[IndexOf(rows, x) + 1].uid = x
<1>1. PICK n \in Nat : n = Len(rows) /\ DOMAIN rows = 1 .. n
  BY DEF RowsOK
<1>2. PICK k \in DOMAIN rows : rows[k].uid = x
  OBVIOUS
<1>3. \A j \in 1 .. k - 1 : rows[j].uid # x
  BY <1>1, <1>2 DEF RowsOK, UniqueUids
<1>4. PICK c : c = CHOOSE i \in DOMAIN rows : rows[i].uid = x /\ \A j \in 1 .. i - 1 : rows[j].uid # x
  OBVIOUS
<1>5. c \in DOMAIN rows /\ rows[c].uid = x
  BY <1>2, <1>3, <1>4, Zenon
<1>6. IndexOf(rows, x) = c - 1
  BY <1>2, <1>4, Zenon DEF IndexOf
<1>7. c - 1 \in 0 .. n - 1 /\ (c - 1) + 1 = c
  BY <1>1, <1>5
<1> QED
  BY <1>1, <1>5, <1>6, <1>7

\* SetRows leaves a widget in order over the rows it was given, with the cursor
\* on the object it was on when that object is among them.
LEMMA SetRowsKeeps ==
  ASSUME NEW t, WidgetOK(t), NEW rows, RowsOK(rows), NEW u, u = SetRows(t, rows)
  PROVE  /\ WidgetOK(u) /\ RowSet(u.rows) = RowSet(rows)
         /\ (SelectedOK(t) /\ \E i \in DOMAIN u.rows : u.rows[i].uid = Selected(t).uid)
              => Selected(u).uid = Selected(t).uid
<1>1. PICK s : s = Sorted(rows, t.sortCol, t.sortDesc)
  OBVIOUS
<1>2. t.sortDesc \in BOOLEAN /\ DOMAIN t = TableFields
  BY DEF WidgetOK, Typed
<1>3. RowsOK(s) /\ Len(s) = Len(rows) /\ RowSet(s) = RowSet(rows) /\ Ordered(s, t.sortCol, t.sortDesc)
  BY <1>1, <1>2, SortKeepsRows
<1>4. PICK x : x = Selected(t).uid
  OBVIOUS
<1>5. PICK d : d = IF SelectedOK(t) THEN IndexOf(s, x) ELSE 0
  OBVIOUS
<1>6. d \in Int /\ ((SelectedOK(t) /\ \E i \in DOMAIN s : s[i].uid = x) => d \in 0 .. Len(s) - 1 /\ s[d + 1].uid = x)
  <2>1. CASE SelectedOK(t) /\ \E i \in DOMAIN s : s[i].uid = x
    <3>1. d \in 0 .. Len(s) - 1 /\ s[d + 1].uid = x
      BY <1>3, <1>5, <2>1, IndexFound
    <3>2. 0 .. Len(s) - 1 \subseteq Int
      OBVIOUS
    <3> QED
      BY <3>1, <3>2, Zenon
  <2>2. CASE ~(SelectedOK(t) /\ \E i \in DOMAIN s : s[i].uid = x)
    BY <1>5, <2>2 DEF IndexOf
  <2> QED
    BY <2>1, <2>2
<1>7. PICK a : a = [t EXCEPT !.rows = rows]
  OBVIOUS
<1>8. /\ DOMAIN a = TableFields /\ a.rows = rows /\ a.offset = t.offset /\ a.height = t.height /\ a.width = t.width
      /\ a.sortCol = t.sortCol /\ a.sortDesc = t.sortDesc /\ a.marked = t.marked /\ a.cursor = t.cursor
  BY <1>2, <1>7 DEF TableFields
<1>9. PICK b : b = [a EXCEPT !.rows = s]
  OBVIOUS
<1>10. /\ DOMAIN b = TableFields /\ b.rows = s /\ b.offset = t.offset /\ b.height = t.height /\ b.width = t.width
       /\ b.sortCol = t.sortCol /\ b.sortDesc = t.sortDesc /\ b.marked = t.marked /\ b.cursor = t.cursor
  BY <1>8, <1>9 DEF TableFields
<1>11. PICK c : c = [b EXCEPT !.cache = {}]
  OBVIOUS
<1>12. /\ DOMAIN c = TableFields /\ c.rows = s /\ c.offset = t.offset /\ c.height = t.height /\ c.width = t.width
       /\ c.sortCol = t.sortCol /\ c.sortDesc = t.sortDesc /\ c.marked = t.marked /\ c.cache = {}
  BY <1>10, <1>11 DEF TableFields
<1>13. PICK v : v = [c EXCEPT !.cursor = d]
  OBVIOUS
<1>14. /\ DOMAIN v = TableFields /\ v.rows = s /\ v.offset = t.offset /\ v.height = t.height /\ v.width = t.width
       /\ v.sortCol = t.sortCol /\ v.sortDesc = t.sortDesc /\ v.marked = t.marked /\ v.cache = {} /\ v.cursor = d
  BY <1>12, <1>13 DEF TableFields
<1>15. Typed(v)
  BY <1>3, <1>6, <1>14, Zenon DEF WidgetOK, Typed
<1>16. u = EnsureVisible(ClampCursor(v))
  <2>1. c = ResetCache(ApplySort([t EXCEPT !.rows = rows]))
    BY <1>1, <1>7, <1>8, <1>9, <1>11, Zenon DEF ResetCache, ApplySort
  <2> QED
    BY <1>4, <1>5, <1>12, <1>13, <2>1, Zenon DEF SetRows
<1>17. /\ Typed(u) /\ CursorOK(u) /\ u.rows = s /\ u.sortCol = t.sortCol /\ u.sortDesc = t.sortDesc
       /\ u.cache = {} /\ (d \in 0 .. Len(s) - 1 => u.cursor = d)
  BY <1>14, <1>15, <1>16, Settled
<1>18. WidgetOK(u) /\ RowSet(u.rows) = RowSet(rows)
  BY <1>3, <1>17, Zenon DEF WidgetOK, CacheOK
<1>19. ASSUME SelectedOK(t), \E i \in DOMAIN u.rows : u.rows[i].uid = Selected(t).uid
       PROVE  Selected(u).uid = Selected(t).uid
  BY <1>4, <1>6, <1>17, <1>19, Zenon DEF Selected
<1> QED
  BY <1>18, <1>19

\* A change of the sort column or direction re-orders the same rows.
LEMMA SortChangeKeeps ==
  ASSUME NEW t, WidgetOK(t), NEW u \in SortedTables(t)
  PROVE  WidgetOK(u) /\ RowSet(u.rows) = RowSet(t.rows)
<1>1. PICK col : \E desc \in BOOLEAN : u = SetSortState(t, col, desc)
  <2>1. t.sortDesc \in BOOLEAN /\ (~t.sortDesc) \in BOOLEAN /\ FALSE \in BOOLEAN
    BY DEF WidgetOK, Typed
  <2> QED
    BY <2>1, Zenon DEF SortedTables, SetSort
<1>2. PICK desc \in BOOLEAN : u = SetSortState(t, col, desc)
  BY <1>1
<1>3. PICK s : s = Sorted(t.rows, col, desc)
  OBVIOUS
<1>4. RowsOK(t.rows) /\ DOMAIN t = TableFields
  BY DEF WidgetOK, Typed
<1>5. RowsOK(s) /\ Len(s) = Len(t.rows) /\ RowSet(s) = RowSet(t.rows) /\ Ordered(s, col, desc)
  BY <1>3, <1>4, SortKeepsRows
<1>6. PICK a : a = [t EXCEPT !.sortCol = col, !.sortDesc = desc]
  OBVIOUS
<1>7. /\ DOMAIN a = TableFields /\ a.rows = t.rows /\ a.offset = t.offset /\ a.height = t.height /\ a.cursor = t.cursor
      /\ a.sortCol = col /\ a.sortDesc = desc /\ a.marked = t.marked
  BY <1>4, <1>6 DEF TableFields
<1>8. PICK b : b = [a EXCEPT !.rows = s]
  OBVIOUS
<1>9. /\ DOMAIN b = TableFields /\ b.rows = s /\ b.offset = t.offset /\ b.height = t.height /\ b.cursor = t.cursor
      /\ b.sortCol = col /\ b.sortDesc = desc /\ b.marked = t.marked
  BY <1>7, <1>8 DEF TableFields
<1>10. u = [b EXCEPT !.cache = {}]
  BY <1>2, <1>3, <1>6, <1>7, <1>8, Zenon DEF SetSortState, ResetCache, ApplySort
<1>11. /\ DOMAIN u = TableFields /\ u.rows = s /\ u.offset = t.offset /\ u.height = t.height /\ u.cursor = t.cursor
       /\ u.sortCol = col /\ u.sortDesc = desc /\ u.marked = t.marked /\ u.cache = {}
  BY <1>9, <1>10 DEF TableFields
<1>12. Typed(u)
  BY <1>5, <1>11, Zenon DEF WidgetOK, Typed
<1>13. CursorOK(u)
  BY <1>5, <1>11, Zenon DEF WidgetOK, CursorOK
<1> QED
  BY <1>5, <1>11, <1>12, <1>13, Zenon DEF WidgetOK, CacheOK

\* A line taken from the cache is the line a fresh rendering gives.
LEMMA HitIsFresh ==
  ASSUME NEW t, RowsOK(t.rows), CacheOK(t), NEW i \in DOMAIN t.rows
  PROVE  Line(t, i) = FreshLine(t, i)
<1>1. CASE Cached(t, i) = {}
  BY <1>1 DEF Line
<1>2. CASE Cached(t, i) # {}
  <2>1. PICK e : e = CHOOSE x \in Cached(t, i) : TRUE
    OBVIOUS
  <2>2. e \in Cached(t, i) /\ Line(t, i) = e.line
    BY <1>2, <2>1, Zenon DEF Line
  <2>3. e \in t.cache /\ e.key = LineKey(t, i)
    BY <2>2 DEF Cached
  <2>4. PICK j \in DOMAIN t.rows :
           /\ e.key.uid = t.rows[j].uid
           /\ e.line = [name |-> t.rows[j].name, cpu |-> t.rows[j].cpu, width |-> e.key.width,
                        selected |-> e.key.selected, marked |-> e.key.marked]
    BY <2>3, Zenon DEF CacheOK
  <2>5. /\ e.key.uid = t.rows[i].uid /\ e.key.width = t.width /\ e.key.selected = (i - 1 = t.cursor)
        /\ e.key.marked = (t.rows[i].uid \in t.marked)
    BY <2>3 DEF LineKey
  <2>6. i = j
    BY <2>4, <2>5 DEF RowsOK, UniqueUids
  <2> QED
    BY <2>2, <2>4, <2>5, <2>6, Zenon DEF FreshLine
<1> QED
  BY <1>1, <1>2

\* Painting resizes, moves the window over the cursor and fills the cache with
\* the lines of the rows that are there.
LEMMA ViewKeeps ==
  ASSUME NEW t, WidgetOK(t), NEW h \in Heights, NEW u, u = Paint(SetSize(t, 1, h))
  PROVE  WidgetOK(u) /\ u.rows = t.rows
<1>1. PICK r : r = IF 1 # t.width THEN ResetCache(t) ELSE t
  OBVIOUS
<1>2. /\ DOMAIN r = TableFields /\ r.rows = t.rows /\ r.cursor = t.cursor /\ r.offset = t.offset
      /\ r.sortCol = t.sortCol /\ r.sortDesc = t.sortDesc /\ r.marked = t.marked /\ r.cache \subseteq t.cache
  <2>0. DOMAIN t = TableFields
    BY DEF WidgetOK, Typed
  <2>1. CASE r = t
    BY <2>0, <2>1
  <2>2. CASE r = [t EXCEPT !.cache = {}]
    BY <2>0, <2>2 DEF TableFields
  <2> QED
    BY <1>1, <2>1, <2>2, Zenon DEF ResetCache
<1>3. PICK a : a = [r EXCEPT !.width = 1, !.height = h]
  OBVIOUS
<1>4. /\ DOMAIN a = TableFields /\ a.rows = t.rows /\ a.cursor = t.cursor /\ a.offset = t.offset /\ a.height = h
      /\ a.sortCol = t.sortCol /\ a.sortDesc = t.sortDesc /\ a.marked = t.marked /\ a.cache \subseteq t.cache
  <2>1. /\ DOMAIN a = TableFields /\ a.rows = r.rows /\ a.cursor = r.cursor /\ a.offset = r.offset /\ a.height = h
        /\ a.sortCol = r.sortCol /\ a.sortDesc = r.sortDesc /\ a.marked = r.marked /\ a.cache = r.cache
    BY <1>2, <1>3 DEF TableFields
  <2> QED
    BY <1>2, <2>1, Zenon
<1>5. h \in Nat
  BY ConstantsOK
<1>6. PICK v : v = EnsureVisible(a)
  OBVIOUS
<1>7. /\ DOMAIN v = TableFields /\ v.rows = t.rows /\ v.cursor = t.cursor /\ v.height = h
      /\ v.sortCol = t.sortCol /\ v.sortDesc = t.sortDesc /\ v.marked = t.marked /\ v.cache \subseteq t.cache
      /\ v.offset \in Nat
      /\ v.height > 0 => v.offset <= v.cursor /\ v.cursor < v.offset + v.height
  <2>1. a.cursor \in Nat /\ a.offset \in Nat /\ a.height \in Nat
    BY <1>4, <1>5 DEF WidgetOK, Typed, CursorOK
  <2>2. /\ DOMAIN v = TableFields /\ v.rows = a.rows /\ v.cursor = a.cursor /\ v.height = a.height
        /\ v.sortCol = a.sortCol /\ v.sortDesc = a.sortDesc /\ v.marked = a.marked /\ v.cache = a.cache
        /\ v.offset \in Nat
        /\ v.height > 0 => v.offset <= v.cursor /\ v.cursor < v.offset + v.height
    BY <1>4, <1>6, <2>1, MadeVisible
  <2> QED
    BY <1>4, <2>2, Zenon
<1>8. RowsOK(v.rows) /\ CacheOK(v)
  <2>1. \A e : e \in v.cache => e \in t.cache
    BY <1>7
  <2> QED
    BY <1>7, <2>1, Zenon DEF WidgetOK, Typed, CacheOK
<1>9. PICK fresh : fresh = {[key |-> LineKey(v, i), line |-> Line(v, i)] : i \in Window(v)}
  OBVIOUS
<1>10. PICK all : all = v.cache \cup fresh
  OBVIOUS
<1>11. u = [v EXCEPT !.cache = all]
  BY <1>1, <1>3, <1>6, <1>9, <1>10, ZenonT(30) DEF Paint, SetSize
<1>12. /\ DOMAIN u = TableFields /\ u.rows = v.rows /\ u.cursor = v.cursor /\ u.height = v.height /\ u.offset = v.offset
       /\ u.sortCol = v.sortCol /\ u.sortDesc = v.sortDesc /\ u.marked = v.marked /\ u.cache = all
  BY <1>7, <1>11 DEF TableFields
<1>13. CacheOK(u)
  <2> SUFFICES ASSUME NEW e \in all
               PROVE  \E i \in DOMAIN v.rows :
                        /\ e.key.uid = v.rows[i].uid
                        /\ e.line = [name |-> v.rows[i].name, cpu |-> v.rows[i].cpu, width |-> e.key.width,
                                     selected |-> e.key.selected, marked |-> e.key.marked]
    BY <1>12 DEF CacheOK
  <2>1. CASE e \in v.cache
    BY <1>8, <2>1, Zenon DEF CacheOK
  <2>2. CASE e \in fresh
    <3>1. PICK i \in Window(v) : e = [key |-> LineKey(v, i), line |-> Line(v, i)]
      BY <1>9, <2>2
    <3>2. i \in DOMAIN v.rows
      BY DEF Window
    <3>3. e.key = LineKey(v, i) /\ e.line = FreshLine(v, i)
      BY <1>8, <3>1, <3>2, HitIsFresh
    <3>4. /\ e.key.uid = v.rows[i].uid /\ e.key.width = v.width /\ e.key.selected = (i - 1 = v.cursor)
          /\ e.key.marked = (v.rows[i].uid \in v.marked)
      BY <3>3 DEF LineKey
    <3> QED
      BY <3>2, <3>3, <3>4, Zenon DEF FreshLine
  <2> QED
    BY <1>10, <2>1, <2>2
<1>14. Typed(u)
  BY <1>5, <1>7, <1>12, Zenon DEF WidgetOK, Typed
<1>15. CursorOK(u)
  BY <1>7, <1>12, Zenon DEF WidgetOK, CursorOK
<1> QED
  BY <1>7, <1>12, <1>13, <1>14, <1>15, Zenon DEF WidgetOK

-----------------------------------------------------------------------------
(* The page *)

\* The inductive invariant: the widget is in order over the page's rows that
\* match the filter, and no UID is on two rows.
PageInv ==
  /\ LiveOK /\ WidgetOK(tbl) /\ RowsOK(allRows)
  /\ metrics \in [Names -> 0 .. MaxUsage] /\ filter \in Filters
  /\ RowSet(tbl.rows) = {r \in RowSet(allRows) : Matches(r, filter)}

\* A page starts empty.
LEMMA PageInit == Init => PageInv
<1> SUFFICES ASSUME Init PROVE PageInv
  OBVIOUS
<1>1. LiveOK /\ metrics \in [Names -> 0 .. MaxUsage] /\ filter \in Filters
  BY ConstantsOK DEF Init, LiveOK, Filters
<1>2. RowsOK(<<>>) /\ DOMAIN <<>> = {} /\ Len(<<>>) = 0
  BY DEF RowsOK, UniqueUids
<1>3. PICK t : t = NewTable
  OBVIOUS
<1>4. /\ DOMAIN t = TableFields /\ t.rows = <<>> /\ t.cursor = 0 /\ t.offset = 0 /\ t.height = 0
      /\ t.sortDesc = FALSE /\ t.marked = {} /\ t.cache = {}
  BY <1>3 DEF NewTable, TableFields
<1>5. Typed(t) /\ CursorOK(t)
  <2>1. t.cursor \in Int /\ t.cursor \in Nat /\ t.offset \in Nat /\ t.height \in Nat /\ ~(t.height > 0)
    BY <1>4
  <2>2. t.sortDesc \in BOOLEAN /\ t.marked \subseteq 1 .. MaxUid
    BY <1>4
  <2> QED
    BY <1>2, <1>4, <2>1, <2>2, Zenon DEF Typed, CursorOK
<1>6. CacheOK(t) /\ Ordered(t.rows, t.sortCol, t.sortDesc)
  BY <1>2, <1>4 DEF CacheOK, Ordered
<1>7. RowSet(<<>>) = {}
  BY <1>2 DEF RowSet
<1>8. tbl = t /\ allRows = <<>>
  BY <1>3 DEF Init
<1> QED
  BY <1>1, <1>2, <1>4, <1>5, <1>6, <1>7, <1>8, Zenon DEF PageInv, WidgetOK

\* reapplyFilter: what it leaves in the table and in allRows, whatever rows,
\* metrics and filter it is given.
LEMMA Reapplied ==
  ASSUME WidgetOK(tbl), NEW rows, RowsOK(rows), NEW m \in [Names -> 0 .. MaxUsage], NEW f,
         ReapplyFilter(rows, m, f)
  PROVE  /\ WidgetOK(tbl)' /\ RowsOK(allRows')
         /\ RowSet(tbl'.rows) = {r \in RowSet(allRows') : Matches(r, f)}
         /\ (SelectedOK(tbl) /\ \E i \in DOMAIN tbl'.rows : tbl'.rows[i].uid = Selected(tbl).uid)
              => Selected(tbl').uid = Selected(tbl).uid
<1>1. PICK over : over = Overlay(rows, m)
  OBVIOUS
<1>2. PICK kept : kept = FilterRows(over, f)
  OBVIOUS
<1>3. RowsOK(over)
  BY <1>1, OverlayKeepsRows
<1>4. RowsOK(kept) /\ RowSet(kept) = {r \in RowSet(over) : Matches(r, f)}
  BY <1>2, <1>3, FilterKeepsRows
<1>5. PICK shown : shown = SetRows(tbl, kept)
  OBVIOUS
<1>6. tbl' = shown /\ allRows' = IF f = NoFilter THEN shown.rows ELSE over
  BY <1>1, <1>2, <1>5, Zenon DEF ReapplyFilter
<1>7. /\ WidgetOK(shown) /\ RowSet(shown.rows) = RowSet(kept)
      /\ (SelectedOK(tbl) /\ \E i \in DOMAIN shown.rows : shown.rows[i].uid = Selected(tbl).uid)
           => Selected(shown).uid = Selected(tbl).uid
  BY <1>4, <1>5, SetRowsKeeps
<1>8. RowsOK(shown.rows)
  BY <1>7, Zenon DEF WidgetOK, Typed
<1>9. RowsOK(allRows') /\ RowSet(tbl'.rows) = {r \in RowSet(allRows') : Matches(r, f)}
  <2>1. CASE f = NoFilter
    <3>1. \A r : Matches(r, f)
      BY <2>1 DEF Matches
    <3>2. RowSet(allRows') = {r \in RowSet(allRows') : Matches(r, f)}
      BY <3>1
    <3> QED
      BY <1>6, <1>8, <2>1, <3>2, Zenon
  <2>2. CASE f # NoFilter
    BY <1>3, <1>4, <1>6, <1>7, <2>2, Zenon
  <2> QED
    BY <2>1, <2>2
<1>10. WidgetOK(tbl')
  BY <1>6, <1>7, Zenon
<1> QED
  BY <1>6, <1>7, <1>9, <1>10, Zenon

\* Every step of the cluster, of the page and of its keys keeps the invariant.
LEMMA PageStep == PageInv /\ [Next]_vars => PageInv'
<1> SUFFICES ASSUME PageInv, [Next]_vars PROVE PageInv'
  OBVIOUS
<1>0. /\ LiveOK /\ WidgetOK(tbl) /\ RowsOK(allRows) /\ metrics \in [Names -> 0 .. MaxUsage] /\ filter \in Filters
      /\ RowSet(tbl.rows) = {r \in RowSet(allRows) : Matches(r, filter)}
  BY DEF PageInv
<1>1. ASSUME UNCHANGED page, LiveOK'
      PROVE  PageInv'
  <2>1. tbl' = tbl /\ allRows' = allRows /\ metrics' = metrics /\ filter' = filter
    BY <1>1 DEF page
  <2> QED
    BY <1>0, <1>1, <2>1, Zenon DEF PageInv
<1>2. ASSUME UNCHANGED <<live, created>>
      PROVE  LiveOK'
  BY <1>0, <1>2 DEF LiveOK
<1>3. ASSUME UNCHANGED <<live, created, allRows, metrics, filter>>, WidgetOK(tbl'), tbl'.rows = tbl.rows
      PROVE  PageInv'
  BY <1>0, <1>2, <1>3, Zenon DEF PageInv
<1>4. CASE UNCHANGED vars
  BY <1>1, <1>2, <1>4 DEF vars, page
<1>5. ASSUME NEW n \in Names, ClusterCreate(n)
      PROVE  PageInv'
  <2>1. UNCHANGED page
    BY <1>5 DEF ClusterCreate
  <2>2. LiveOK'
    <3>1. /\ created \in 0 .. MaxUid /\ created < MaxUid /\ created' = created + 1 /\ MaxUid \in Nat
          /\ live' = [live EXCEPT ![n] = created + 1] /\ live[n] = 0
      BY <1>0, <1>5, ConstantsOK DEF ClusterCreate, LiveOK
    <3>2. created + 1 \in 1 .. MaxUid
      BY <3>1
    <3>3. live' \in [Names -> 0 .. MaxUid] /\ created' \in 0 .. MaxUid
      BY <1>0, <3>1, <3>2 DEF LiveOK
    <3>4. \A k \in Names : live[k] \in Int /\ live[k] <= created /\ live[k] # created + 1
      <4>1. \A k \in Names : live[k] \in Int /\ live[k] <= created
        BY <1>0 DEF LiveOK
      <4> QED
        BY <3>1, <4>1
    <3>5. \A k \in Names : live'[k] = IF k = n THEN created + 1 ELSE live[k]
      BY <1>0, <3>1 DEF LiveOK
    <3>6. \A k \in Names : live'[k] <= created'
      BY <3>1, <3>4, <3>5
    <3>7. \A k, l \in Names : live'[k] = live'[l] /\ live'[k] # 0 => k = l
      BY <1>0, <3>4, <3>5 DEF LiveOK
    <3> QED
      BY <3>3, <3>6, <3>7 DEF LiveOK
  <2> QED
    BY <1>1, <2>1, <2>2
<1>6. ASSUME NEW n \in Names, ClusterRemove(n)
      PROVE  PageInv'
  <2>1. UNCHANGED page
    BY <1>6 DEF ClusterRemove
  <2>2. LiveOK'
    BY <1>0, <1>6, ConstantsOK DEF ClusterRemove, LiveOK
  <2> QED
    BY <1>1, <2>1, <2>2
<1>7. CASE Apply
  <2>1. ReapplyFilter(SnapshotRows, metrics, filter) /\ UNCHANGED <<live, created, metrics, filter>>
    BY <1>7 DEF Apply
  <2>2. RowsOK(SnapshotRows)
    BY <1>0, SnapshotOK
  <2>3. /\ WidgetOK(tbl)' /\ RowsOK(allRows')
        /\ RowSet(tbl'.rows) = {r \in RowSet(allRows') : Matches(r, filter)}
    BY <1>0, <2>1, <2>2, Reapplied
  <2> QED
    BY <1>0, <1>2, <2>1, <2>3, Zenon DEF PageInv
<1>8. ASSUME NEW m \in [Names -> 0 .. MaxUsage], MetricsMsg(m)
      PROVE  PageInv'
  <2>1. ReapplyFilter(allRows, m, filter) /\ metrics' = m /\ UNCHANGED <<live, created, filter>>
    BY <1>8 DEF MetricsMsg
  <2>2. /\ WidgetOK(tbl)' /\ RowsOK(allRows')
        /\ RowSet(tbl'.rows) = {r \in RowSet(allRows') : Matches(r, filter)}
    BY <1>0, <2>1, Reapplied
  <2> QED
    BY <1>0, <1>2, <2>1, <2>2, Zenon DEF PageInv
<1>9. ASSUME NEW f \in Filters, SetFilter(f)
      PROVE  PageInv'
  <2>1. ReapplyFilter(allRows, metrics, f) /\ filter' = f /\ UNCHANGED <<live, created, metrics>>
    BY <1>9 DEF SetFilter
  <2>2. /\ WidgetOK(tbl)' /\ RowsOK(allRows')
        /\ RowSet(tbl'.rows) = {r \in RowSet(allRows') : Matches(r, f)}
    BY <1>0, <2>1, Reapplied
  <2> QED
    BY <1>0, <1>2, <2>1, <2>2, Zenon DEF PageInv
<1>10. CASE MoveKey
  BY <1>0, <1>3, <1>10, MoveKeeps DEF MoveKey
<1>11. CASE SelectKey
  <2>1. PICK t : t = ToggleMark(tbl)
    OBVIOUS
  <2>2. WidgetOK(t) /\ t.rows = tbl.rows
    BY <1>0, <2>1, MarksKeep
  <2>3. tbl' \in Moves(t)
    BY <1>11, <2>1, Zenon DEF SelectKey, Moves
  <2>4. WidgetOK(tbl') /\ tbl'.rows = t.rows
    BY <2>2, <2>3, MoveKeeps
  <2> QED
    BY <1>3, <1>11, <2>2, <2>4 DEF SelectKey
<1>12. CASE SortKeyPress
  <2>1. WidgetOK(tbl') /\ RowSet(tbl'.rows) = RowSet(tbl.rows)
    BY <1>0, <1>12, SortChangeKeeps DEF SortKeyPress
  <2>2. UNCHANGED <<live, created, metrics, filter>> /\ allRows' = IF filter = NoFilter THEN tbl'.rows ELSE allRows
    BY <1>12 DEF SortKeyPress
  <2>3. CASE filter = NoFilter
    <3>1. RowsOK(tbl'.rows)
      BY <2>1, Zenon DEF WidgetOK, Typed
    <3>2. \A r : Matches(r, filter)
      BY <2>3 DEF Matches
    <3>3. RowSet(allRows') = {r \in RowSet(allRows') : Matches(r, filter)}
      BY <3>2
    <3> QED
      BY <1>0, <1>2, <2>1, <2>2, <2>3, <3>1, <3>3, Zenon DEF PageInv
  <2>4. CASE filter # NoFilter
    BY <1>0, <1>2, <2>1, <2>2, <2>4, Zenon DEF PageInv
  <2> QED
    BY <2>3, <2>4
<1>13. ASSUME NEW h \in Heights, View(h)
       PROVE  PageInv'
  <2>1. WidgetOK(tbl') /\ tbl'.rows = tbl.rows
    BY <1>0, <1>13, ViewKeeps DEF View
  <2> QED
    BY <1>3, <1>13, <2>1 DEF View
<1>14. CASE DeleteKey
  <2>1. WidgetOK(tbl') /\ tbl'.rows = tbl.rows
    BY <1>0, <1>14, MarksKeep DEF DeleteKey
  <2> QED
    BY <1>3, <1>14, <2>1 DEF DeleteKey
<1> QED
  BY <1>4, <1>5, <1>6, <1>7, <1>8, <1>9, <1>10, <1>11, <1>12, <1>13, <1>14 DEF Next

\* The page's invariant holds in every reachable state.
LEMMA PageInvariance == Spec => []PageInv
BY PageInit, PageStep, PTL DEF Spec

\* The cursor is on a row whenever there is one, and inside the painted window,
\* after any order of refreshes, filters, sorts, moves and resizes (clampCursor,
\* ensureVisible), for every height of the terminal.
THEOREM CursorStaysVisible == Spec => []CursorVisible
<1>1. PageInv => CursorVisible
  <2> SUFFICES ASSUME PageInv PROVE CursorVisible
    OBVIOUS
  <2>1. PICK c \in Nat, o \in Nat, h \in Nat, n \in Nat :
          c = tbl.cursor /\ o = tbl.offset /\ h = tbl.height /\ n = Len(tbl.rows)
    BY DEF PageInv, WidgetOK, Typed, CursorOK, RowsOK
  <2>2. (c < n \/ (c = 0 /\ n = 0)) /\ (h > 0 => o <= c /\ c < o + h)
    BY <2>1 DEF PageInv, WidgetOK, CursorOK
  <2>3. tbl.rows # <<>> => n # 0
    BY <2>1 DEF PageInv, WidgetOK, Typed, RowsOK
  <2>4. (n # 0 => c >= 0 /\ c < n) /\ (h > 0 => o <= c /\ c < o + h /\ o <= n)
    BY <2>2
  <2> QED
    BY <2>1, <2>3, <2>4, Zenon DEF CursorVisible, SelectedOK, RowCount
<1> QED
  BY <1>1, PageInvariance, PTL

\* What is painted is true: every cached line in the window is the line a fresh
\* rendering would give, the table shows exactly the page's rows that match the
\* filter after the overlay, and they are in the order of the sort column.
THEOREM ScreenStaysHonest == Spec => []ScreenHonest
<1>1. PageInv => ScreenHonest
  <2> SUFFICES ASSUME PageInv PROVE ScreenHonest
    OBVIOUS
  <2>0. WidgetOK(tbl) /\ Typed(tbl) /\ RowsOK(tbl.rows) /\ RowsOK(allRows)
    BY Zenon DEF PageInv, WidgetOK, Typed
  <2>1. TypeOK
    <3>1. /\ \A i \in DOMAIN tbl.rows : tbl.rows[i] \in Rows
          /\ \A i \in DOMAIN allRows : allRows[i] \in Rows
      BY <2>0 DEF RowsOK
    <3>2. tbl.cursor \in Nat /\ tbl.offset \in Nat /\ tbl.marked \subseteq 1 .. MaxUid
      BY DEF PageInv, WidgetOK, Typed, CursorOK
    <3> QED
      BY <3>1, <3>2, Zenon DEF PageInv, LiveOK, TypeOK
  <2>2. NoStaleLine
    <3>1. \A i \in Window(tbl) : i \in DOMAIN tbl.rows
      BY DEF Window
    <3>2. CacheOK(tbl)
      BY <2>0, Zenon DEF WidgetOK
    <3> QED
      BY <2>0, <3>1, <3>2, HitIsFresh DEF NoStaleLine
  <2>3. FilterHonest
    <3>1. RowSet(tbl.rows) = {r \in RowSet(allRows) : Matches(r, filter)}
      BY DEF PageInv
    <3>2. \A i \in DOMAIN tbl.rows : tbl.rows[i] \in RowSet(tbl.rows)
      BY DEF RowSet
    <3>3. \A i \in DOMAIN tbl.rows : Matches(tbl.rows[i], filter)
      BY <3>1, <3>2
    <3> QED
      BY <3>1, <3>3, Zenon DEF FilterHonest, RowSet
  <2>4. RowsInOrder
    BY <2>0, Zenon DEF WidgetOK, Ordered, RowsInOrder
  <2> QED
    BY <2>1, <2>2, <2>3, <2>4 DEF ScreenHonest
<1> QED
  BY <1>1, PageInvariance, PTL

\* A snapshot or a metrics answer the user did not ask for leaves the cursor on
\* its object while that object is still shown (SetRows restores it by UID).
THEOREM RefreshHoldsCursor == Spec => RefreshKeepsCursor
<1> DEFINE Kept == (/\ Apply \/ \E m \in [Names -> 0 .. MaxUsage] : MetricsMsg(m)
                    /\ SelectedOK(tbl)
                    /\ \E i \in DOMAIN tbl'.rows : tbl'.rows[i].uid = Selected(tbl).uid)
                   => Selected(tbl').uid = Selected(tbl).uid
<1>1. PageInv => Kept
  <2> SUFFICES ASSUME PageInv, Apply \/ \E m \in [Names -> 0 .. MaxUsage] : MetricsMsg(m), SelectedOK(tbl),
                      \E i \in DOMAIN tbl'.rows : tbl'.rows[i].uid = Selected(tbl).uid
               PROVE  Selected(tbl').uid = Selected(tbl).uid
    OBVIOUS
  <2>0. WidgetOK(tbl) /\ RowsOK(allRows) /\ LiveOK /\ metrics \in [Names -> 0 .. MaxUsage]
    BY DEF PageInv
  <2>1. CASE Apply
    <3>1. ReapplyFilter(SnapshotRows, metrics, filter) /\ RowsOK(SnapshotRows)
      BY <2>0, <2>1, SnapshotOK DEF Apply
    <3> QED
      BY <2>0, <3>1, Reapplied
  <2>2. ASSUME NEW m \in [Names -> 0 .. MaxUsage], MetricsMsg(m)
        PROVE  Selected(tbl').uid = Selected(tbl).uid
    <3>1. ReapplyFilter(allRows, m, filter)
      BY <2>2 DEF MetricsMsg
    <3> QED
      BY <2>0, <3>1, Reapplied
  <2> QED
    BY <2>1, <2>2
<1>2. RefreshKeepsCursor <=> [][Kept]_vars
  BY DEF RefreshKeepsCursor
<1> HIDE DEF Kept
<1> QED
  BY <1>1, <1>2, PageInvariance, PTL
=============================================================================
