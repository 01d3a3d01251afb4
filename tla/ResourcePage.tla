---------------------------- MODULE ResourcePage ----------------------------
(***************************************************************************)
(* A resource page (internal/view/resource.go) over the table widget: the  *)
(* snapshots and metrics it is handed, its live filter, its sort keys and  *)
(* the selection its delete key acts on.  The cluster changes on its own   *)
(* under the page; what it shows lags behind until the next snapshot.      *)
(***************************************************************************)
EXTENDS Table, Sublists

CONSTANTS Names,     \* the object names of the kind, numbers in their sort order
          MaxUid,    \* bound: objects ever created
          MaxUsage,  \* bound: distinct usage values
          Heights    \* heights the terminal may give the table body

ASSUME ConstantsOK == /\ Names \subseteq Nat /\ IsFiniteSet(Names)
                      /\ MaxUid \in Nat /\ MaxUsage \in Nat
                      /\ Heights \subseteq Nat \ {0}

VARIABLES live,      \* the cluster: the UID of the object of each name, 0 for none
          created,   \* UIDs handed out so far
          tbl,       \* the table widget
          allRows,   \* the page's unfiltered rows
          metrics,   \* usage per name of the last metrics snapshot, 0 for absent
          filter     \* the live filter

vars == <<live, created, tbl, allRows, metrics, filter>>
page == <<tbl, allRows, metrics, filter>>

\* "cpu:" stands for a term scoped to a column the overlay writes: it keeps the
\* rows whose cpu cell shows a usage.  Module FilterTerms has the grammar.
NoFilter == "none"
Filters == {NoFilter, "cpu:"}
Rows == [uid : 1 .. MaxUid, name : Names, cpu : 0 .. MaxUsage]

Matches(r, f) == f = NoFilter \/ r.cpu > 0

\* ViewStore.Snapshot hands over the cached objects in name order, with the
\* projector's placeholder in the cpu cell.
SnapshotRows ==
  LET present == {n \in Names : live[n] # 0}
  IN [k \in 1 .. Cardinality(present) |->
        [uid |-> live[Nth(present, k)], name |-> Nth(present, k), cpu |-> 0]]

\* overlayMetrics rewrites the cells of the rows the metrics name, in place.
Overlay(rows, m) ==
  [i \in DOMAIN rows |->
     IF m[rows[i].name] = 0 THEN rows[i] ELSE [rows[i] EXCEPT !.cpu = m[rows[i].name]]]

\* filterRows keeps the rows that match, in their order; it returns the very slice
\* it was given when there is no term.
FilterRows(rows, f) ==
  LET kept == {i \in DOMAIN rows : Matches(rows[i], f)}
  IN IF f = NoFilter THEN rows ELSE Pick(rows, kept)

\* reapplyFilter: overlay first, then filter, then hand the rows to the table,
\* which sorts them in place - and allRows with them when nothing was filtered.
\* (mutant) the filter reads the cells before the overlay has written them
FilterThenOverlay(rows, m, f) ==
  LET over == Overlay(rows, m)
      shown == SetRows(tbl, Overlay(FilterRows(rows, f), m))
  IN tbl' = shown /\ allRows' = IF f = NoFilter THEN shown.rows ELSE over
ReapplyFilter(rows, m, f) ==
  LET over == Overlay(rows, m)
      shown == SetRows(tbl, FilterRows(over, f))
  IN /\ tbl' = shown
     /\ allRows' = IF f = NoFilter THEN shown.rows ELSE over

Init == /\ live = [n \in Names |-> 0] /\ created = 0
        /\ tbl = NewTable /\ allRows = <<>>
        /\ metrics = [n \in Names |-> 0]
        /\ filter = NoFilter

\* Another client creates or removes an object of the kind.
ClusterCreate(n) == /\ live[n] = 0 /\ created < MaxUid
                    /\ created' = created + 1
                    /\ live' = [live EXCEPT ![n] = created + 1]
                    /\ UNCHANGED page
ClusterRemove(n) == /\ live[n] # 0
                    /\ live' = [live EXCEPT ![n] = 0]
                    /\ UNCHANGED <<created, page>>

Apply == /\ ReapplyFilter(SnapshotRows, metrics, filter)
         /\ UNCHANGED <<live, created, metrics, filter>>

MetricsMsg(m) == /\ metrics' = m
                 /\ ReapplyFilter(allRows, m, filter)
                 /\ UNCHANGED <<live, created, filter>>

SetFilter(f) == /\ filter' = f
                /\ ReapplyFilter(allRows, metrics, f)
                /\ UNCHANGED <<live, created, metrics>>

\* The keys that only move the cursor or the mark.
Moves(t) == {MoveUp(t), MoveDown(t), PageUp(t), PageDown(t), Home(t), End(t)}
MoveKey == /\ tbl' \in Moves(tbl)
           /\ UNCHANGED <<live, created, allRows, metrics, filter>>
SelectKey == /\ tbl' = MoveDown(ToggleMark(tbl))
             /\ UNCHANGED <<live, created, allRows, metrics, filter>>

\* cycleSort and toggleSortDir.
SortedTables(t) == {SetSortState(t, (t.sortCol + 1) % Cardinality(Columns), FALSE),
                    SetSort(t, t.sortCol)}
SortKeyPress == /\ tbl' \in SortedTables(tbl)
                /\ allRows' = IF filter = NoFilter THEN tbl'.rows ELSE allRows
                /\ UNCHANGED <<live, created, metrics, filter>>

\* View is called by the renderer between two updates.
View(h) == /\ tbl' = Paint(SetSize(tbl, 1, h))
           /\ UNCHANGED <<live, created, allRows, metrics, filter>>

\* deleteAction asks for the marked rows, or for the cursor row when MarkedRows
\* finds none; what is asked for is the business of module ClusterWrites, the
\* marks that MarkedRows forgets are this page's.
DeleteKey == /\ tbl' = PruneMarks(tbl)
             /\ UNCHANGED <<live, created, allRows, metrics, filter>>

Next == \/ \E n \in Names : ClusterCreate(n) \/ ClusterRemove(n)
        \/ Apply
        \/ \E m \in [Names -> 0 .. MaxUsage] : MetricsMsg(m)
        \/ \E f \in Filters : SetFilter(f)
        \/ MoveKey \/ SelectKey \/ SortKeyPress
        \/ \E h \in Heights : View(h)
        \/ DeleteKey

Spec == Init /\ [][Next]_vars

-----------------------------------------------------------------------------
TypeOK ==
  /\ live \in [Names -> 0 .. MaxUid] /\ created \in 0 .. MaxUid
  /\ \A i \in DOMAIN tbl.rows : tbl.rows[i] \in Rows
  /\ \A i \in DOMAIN allRows : allRows[i] \in Rows
  /\ tbl.cursor \in Nat /\ tbl.offset \in Nat /\ tbl.marked \subseteq 1 .. MaxUid
  /\ metrics \in [Names -> 0 .. MaxUsage] /\ filter \in Filters

\* The cursor is on a row whenever there is one, and that row is inside the
\* painted window: clampCursor and ensureVisible hold whatever order of
\* refreshes, filters, moves and resizes the rows went through.
CursorVisible ==
  /\ tbl.rows # <<>> => SelectedOK(tbl)
  /\ tbl.height > 0 => /\ tbl.offset <= tbl.cursor
                       /\ tbl.cursor < tbl.offset + tbl.height
                       /\ tbl.offset <= RowCount(tbl)

\* A line taken from the render cache is the line a fresh rendering would give:
\* no refresh, overlay, mark, move or sort leaves an old line under a key that is
\* still asked for (the comment of resetCache).
NoStaleLine == \A i \in Window(tbl) : Line(tbl, i) = FreshLine(tbl, i)

\* The table shows exactly the rows of the page whose cells, as they are shown,
\* match the filter: the overlay has happened before the filter read the cells.
FilterHonest == /\ \A i \in DOMAIN tbl.rows : Matches(tbl.rows[i], filter)
                /\ {tbl.rows[i] : i \in DOMAIN tbl.rows}
                     = {r \in {allRows[i] : i \in DOMAIN allRows} : Matches(r, filter)}

\* The rows stay in the order of the chosen column and direction although the
\* overlay rewrites sort keys of rows the table already holds.
RowsInOrder ==
  \A i, j \in DOMAIN tbl.rows : i < j =>
    IF tbl.sortDesc THEN SortKey(tbl.rows[i], tbl.sortCol) >= SortKey(tbl.rows[j], tbl.sortCol)
                    ELSE SortKey(tbl.rows[i], tbl.sortCol) <= SortKey(tbl.rows[j], tbl.sortCol)

\* A refresh the user did not ask for never moves the cursor to another object
\* while the selected one is still shown (SetRows restores it by UID).
RefreshKeepsCursor ==
  [][(/\ Apply \/ \E m \in [Names -> 0 .. MaxUsage] : MetricsMsg(m)
      /\ SelectedOK(tbl)
      /\ \E i \in DOMAIN tbl'.rows : tbl'.rows[i].uid = Selected(tbl).uid)
     => Selected(tbl').uid = Selected(tbl).uid]_vars

\* What is on screen is what the cluster's rows are: no cached line is out of
\* date, the filter shows exactly the rows that match after the metrics overlay,
\* and the rows are in the order of the sort column.
ScreenHonest == TypeOK /\ NoStaleLine /\ FilterHonest /\ RowsInOrder
=============================================================================
