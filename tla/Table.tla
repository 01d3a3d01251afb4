------------------------------- MODULE Table -------------------------------
(***************************************************************************)
(* The windowed table widget (internal/component/table.go).  The widget is *)
(* a plain struct with imperative methods, so it is modelled as a record   *)
(* and each method as an operator from a table to the table it leaves.     *)
(* Indices count from 0, as in the code: row i is rows[i + 1].             *)
(*                                                                         *)
(* A row keeps what the widget looks at: the UID it is identified by, the  *)
(* object's name, and the text of one cell the metrics overlay rewrites    *)
(* (cpu, 0 for the placeholder).  Column 0 sorts by name, column 1 by cpu. *)
(***************************************************************************)
EXTENDS Integers, Sequences, FiniteSets

\* One of the column count's worth of sort columns: NAME and CPU.
Columns == {0, 1}

NewTable == [rows |-> <<>>, cursor |-> 0, offset |-> 0, height |-> 0,
             width |-> 0, sortCol |-> 0, sortDesc |-> FALSE,
             marked |-> {}, cache |-> {}]

RowCount(t) == Len(t.rows)
SelectedOK(t) == t.cursor >= 0 /\ t.cursor < RowCount(t)
Selected(t) == t.rows[t.cursor + 1]

SortKey(r, col) == IF col = 0 THEN r.name ELSE r.cpu

(***************************************************************************)
(* sort.SliceStable: row i goes before row j when its key is less in the   *)
(* chosen direction, or when neither is less and it came first.            *)
(***************************************************************************)
Sorted(rows, col, desc) ==
  LET Less(i, j) == IF desc THEN SortKey(rows[j], col) < SortKey(rows[i], col)
                            ELSE SortKey(rows[i], col) < SortKey(rows[j], col)
      Before(i, j) == Less(i, j) \/ (~Less(j, i) /\ i < j)
      place == [i \in DOMAIN rows |-> Cardinality({j \in DOMAIN rows : Before(j, i)})]
  IN [k \in DOMAIN rows |-> rows[CHOOSE i \in DOMAIN rows : place[i] = k - 1]]

ApplySort(t) == [t EXCEPT !.rows = Sorted(t.rows, t.sortCol, t.sortDesc)]
ResetCache(t) == [t EXCEPT !.cache = {}]

ClampCursor(t) ==
  LET low == IF t.cursor < 0 THEN 0 ELSE t.cursor
      high == IF low >= RowCount(t) THEN RowCount(t) - 1 ELSE low
  IN [t EXCEPT !.cursor = IF high < 0 THEN 0 ELSE high]

EnsureVisible(t) ==
  LET up == IF t.cursor < t.offset THEN t.cursor ELSE t.offset
      down == IF t.cursor >= up + t.height THEN t.cursor - t.height + 1 ELSE up
  IN IF t.height <= 0 THEN t
     ELSE [t EXCEPT !.offset = IF down < 0 THEN 0 ELSE down]

(***************************************************************************)
(* SetRows looks up the selected UID in the new, sorted rows; an object    *)
(* that is gone leaves the cursor on the first row.                        *)
(***************************************************************************)
IndexOf(rows, uid) ==
  IF \E i \in DOMAIN rows : rows[i].uid = uid
  THEN (CHOOSE i \in DOMAIN rows :
          /\ rows[i].uid = uid
          /\ \A j \in 1 .. i - 1 : rows[j].uid # uid) - 1
  ELSE 0

\* (mutant) the window does not follow the cursor
SetRowsUnseen(t, rows) ==
  LET sorted == ResetCache(ApplySort([t EXCEPT !.rows = rows]))
  IN ClampCursor([sorted EXCEPT !.cursor = IF SelectedOK(t) THEN IndexOf(sorted.rows, Selected(t).uid) ELSE 0])
\* (mutant) the cursor keeps its index instead of its object
SetRowsByIndex(t, rows) ==
  EnsureVisible(ClampCursor(ResetCache(ApplySort([t EXCEPT !.rows = rows]))))
SetRows(t, rows) ==
  LET sorted == ResetCache(ApplySort([t EXCEPT !.rows = rows]))
      cursor == IF SelectedOK(t) THEN IndexOf(sorted.rows, Selected(t).uid) ELSE 0
  IN EnsureVisible(ClampCursor([sorted EXCEPT !.cursor = cursor]))

\* SetSortState and SetSort re-sort in place: the cursor index stays.
SetSortState(t, col, desc) ==
  ResetCache(ApplySort([t EXCEPT !.sortCol = col, !.sortDesc = desc]))
SetSort(t, col) ==
  SetSortState(t, col, IF col = t.sortCol THEN ~t.sortDesc ELSE FALSE)

SetSize(t, width, height) ==
  LET resized == IF width # t.width THEN ResetCache(t) ELSE t
  IN EnsureVisible([resized EXCEPT !.width = width, !.height = height])

MoveBy(t, delta) == EnsureVisible(ClampCursor([t EXCEPT !.cursor = @ + delta]))
MoveUp(t) == MoveBy(t, -1)
MoveDown(t) == MoveBy(t, 1)
PageUp(t) == MoveBy(t, -t.height)
PageDown(t) == MoveBy(t, t.height)
Home(t) == EnsureVisible([t EXCEPT !.cursor = 0])
End(t) == EnsureVisible(ClampCursor([t EXCEPT !.cursor = RowCount(t) - 1]))

ToggleMark(t) ==
  IF ~SelectedOK(t) THEN t
  ELSE LET uid == Selected(t).uid
       IN [t EXCEPT !.marked = IF uid \in @ THEN @ \ {uid} ELSE @ \cup {uid}]

\* MarkedRows returns the marked rows in display order and prunes, as a side
\* effect, every mark whose row the table does not hold at the moment.
PruneMarks(t) == [t EXCEPT !.marked = @ \cap {t.rows[i].uid : i \in DOMAIN t.rows}]

(***************************************************************************)
(* Body paints the rows of the window.  A painted line is kept under the   *)
(* row's identity and the flags it was painted with; a later paint of the  *)
(* same key takes the line from the cache.                                 *)
(***************************************************************************)
Window(t) == {i \in DOMAIN t.rows : i > t.offset /\ i <= t.offset + t.height}
LineKey(t, i) == [uid |-> t.rows[i].uid, width |-> t.width, selected |-> i - 1 = t.cursor,
                  marked |-> t.rows[i].uid \in t.marked, sortCol |-> t.sortCol]
FreshLine(t, i) == [name |-> t.rows[i].name, cpu |-> t.rows[i].cpu, width |-> t.width,
                    selected |-> i - 1 = t.cursor, marked |-> t.rows[i].uid \in t.marked]
Cached(t, i) == {e \in t.cache : e.key = LineKey(t, i)}
Line(t, i) == IF Cached(t, i) = {} THEN FreshLine(t, i)
              ELSE (CHOOSE e \in Cached(t, i) : TRUE).line
Paint(t) == [t EXCEPT !.cache = @ \cup {[key |-> LineKey(t, i), line |-> Line(t, i)] : i \in Window(t)}]
=============================================================================
