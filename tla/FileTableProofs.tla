---------------------------- MODULE FileTableProofs ----------------------------
(***************************************************************************)
(* Theorems about FileTable, for any tree, any number of navigations and   *)
(* any quick search: however listings overtake each other, a table that is *)
(* not loading shows the directory its tab is at; the row painted as the   *)
(* cursor and the anchor of a range stay on their entries; and a find      *)
(* session has a timer that ends it.                                       *)
(***************************************************************************)
EXTENDS FileTable, PickedProofs

Fields == {"of", "names", "ascending", "filter", "selected", "cursor", "row",
           "onParent", "hasParent", "anchor", "held", "gen", "loading", "search"}

IsTable(t) == DOMAIN t = Fields /\ t = [f \in Fields |-> t[f]]

IsTab(t) ==
  /\ DOMAIN t = {"dir", "back", "forward", "locked"}
  /\ t = [f \in {"dir", "back", "forward", "locked"} |-> t[f]]

(* u is a table that shows what t shows, of the same generation.           *)
Keeps(t, u) ==
  /\ IsTable(u)
  /\ u.of = t.of /\ u.hasParent = t.hasParent
  /\ u.gen = t.gen /\ u.loading = t.loading

(* What makes ShownIsCurrent inductive: no listing on its way is newer than *)
(* the table, and those that are as new are of the tab's directory.        *)
Current ==
  /\ IsTable(table) /\ IsTab(tab)
  /\ table.gen \in Nat
  /\ \A load \in loads :
       load.gen \in Nat /\ load.gen <= table.gen
         /\ (load.gen = table.gen => load.dir = tab.dir)
  /\ ShownIsCurrent

-----------------------------------------------------------------------------
(* The delegate's methods keep what is shown.                              *)

LEMMA KeepsItself == ASSUME NEW t, IsTable(t) PROVE Keeps(t, t)
BY DEF Keeps

LEMMA KeepsTransitively ==
  ASSUME NEW t, NEW u, NEW v, Keeps(t, u), Keeps(u, v)
  PROVE  Keeps(t, v)
BY DEF Keeps

LEMMA SetCursorRowKeeps ==
  ASSUME NEW t, NEW u, Keeps(t, u), NEW row PROVE Keeps(t, SetCursorRow(u, row))
BY DEF Keeps, IsTable, Fields, SetCursorRow

LEMMA EndRangeKeeps ==
  ASSUME NEW t, IsTable(t) PROVE Keeps(t, EndRange(t))
BY DEF Keeps, IsTable, Fields, EndRange

LEMMA SyncCursorRowKeeps ==
  ASSUME NEW t, NEW u, Keeps(t, u) PROVE Keeps(t, SyncCursorRow(u))
BY DEF Keeps, IsTable, Fields, SyncCursorRow, EndRange

LEMMA OnParentKeeps ==
  ASSUME NEW t, IsTable(t), NEW b PROVE Keeps(t, [t EXCEPT !.onParent = b])
BY DEF Keeps, IsTable, Fields

LEMMA SelectedKeeps ==
  ASSUME NEW t, IsTable(t), NEW S PROVE Keeps(t, [t EXCEPT !.selected = S])
BY DEF Keeps, IsTable, Fields

LEMMA SearchKeeps ==
  ASSUME NEW t, IsTable(t), NEW s PROVE Keeps(t, [t EXCEPT !.search = s])
BY DEF Keeps, IsTable, Fields

LEMMA MoveCursorToKeeps ==
  ASSUME NEW t, IsTable(t), NEW display PROVE Keeps(t, MoveCursorTo(t, display))
<1> DEFINE moved == EndRange(t)
           onEntry == [moved EXCEPT !.onParent = FALSE]
           d == IF display < Len(Order(t)) + Offset(t) THEN display
                ELSE Len(Order(t)) + Offset(t)
<1>1. Keeps(t, moved)
  BY EndRangeKeeps
<1>2. Keeps(t, [moved EXCEPT !.onParent = TRUE]) /\ Keeps(t, onEntry)
  BY <1>1, OnParentKeeps, KeepsTransitively DEF Keeps
<1>3. Keeps(t, SetCursorRow(onEntry, d - Offset(t)))
  BY <1>2, SetCursorRowKeeps
<1>4. \/ MoveCursorTo(t, display) = t
      \/ MoveCursorTo(t, display) = [moved EXCEPT !.onParent = TRUE]
      \/ MoveCursorTo(t, display) = SetCursorRow(onEntry, d - Offset(t))
  BY DEF MoveCursorTo
<1> QED
  BY <1>2, <1>3, <1>4, KeepsItself

LEMMA ToggleCursorKeeps ==
  ASSUME NEW t, IsTable(t) PROVE Keeps(t, ToggleCursor(t))
BY KeepsItself, SelectedKeeps DEF ToggleCursor

LEMMA ExtendToKeeps ==
  ASSUME NEW t, IsTable(t), NEW row PROVE Keeps(t, ExtendTo(t, row))
<1>1. ASSUME NEW a, NEW h, NEW S
      PROVE  Keeps(t, SetCursorRow([t EXCEPT !.anchor = a, !.held = h, !.selected = S], row))
  <2>1. Keeps(t, [t EXCEPT !.anchor = a, !.held = h, !.selected = S])
    BY DEF Keeps, IsTable, Fields
  <2> QED
    BY <2>1, SetCursorRowKeeps
<1> QED
  BY <1>1 DEF ExtendTo

LEMMA ClearSearchKeeps ==
  ASSUME NEW t, IsTable(t) PROVE Keeps(t, ClearSearch(t)) /\ Keeps(t, ClearJump(t))
<1>1. Keeps(t, [t EXCEPT !.search = NoSearch, !.filter = NoFilter])
  BY DEF Keeps, IsTable, Fields
<1>2. Keeps(t, SyncCursorRow([t EXCEPT !.search = NoSearch, !.filter = NoFilter]))
  BY <1>1, SyncCursorRowKeeps
<1>3. Keeps(t, ClearSearch(t))
  BY <1>2, SearchKeeps DEF ClearSearch
<1> QED
  BY <1>3, KeepsItself DEF ClearJump

LEMMA SearchedKeeps ==
  ASSUME NEW t, IsTable(t), NEW u \in Searched(t) PROVE Keeps(t, u)
<1>1. CASE u \in Jumped(t)
  BY <1>1, KeepsItself, MoveCursorToKeeps DEF Jumped
<1>2. CASE u = Filtered(t)
  <2> DEFINE s == SyncCursorRow([t EXCEPT !.filter = t.search.query])
             first == [s EXCEPT !.onParent = FALSE]
  <2>1. Keeps(t, [t EXCEPT !.filter = t.search.query])
    BY DEF Keeps, IsTable, Fields
  <2>2. Keeps(t, s)
    BY <2>1, SyncCursorRowKeeps
  <2>3. Keeps(t, first)
    BY <2>2, OnParentKeeps, KeepsTransitively DEF Keeps
  <2>4. Keeps(t, SetCursorRow(first, 1))
    BY <2>3, SetCursorRowKeeps
  <2>5. u = s \/ u = SetCursorRow(first, 1)
    BY <1>2 DEF Filtered
  <2> QED
    BY <2>2, <2>4, <2>5
<1> QED
  BY <1>1, <1>2 DEF Searched

-----------------------------------------------------------------------------
LEMMA CurrentStarts == Init => Current
<1> SUFFICES ASSUME Init PROVE Current
  OBVIOUS
<1>1. PICK r \in Restored :
        /\ tab = [dir |-> r.dir, back |-> << >>, forward |-> << >>, locked |-> FALSE]
        /\ loads = {[gen |-> 0, dir |-> r.dir, select |-> r.cursor, ascending |-> TRUE]}
  BY DEF Init
<1>2. table = Fresh
  BY DEF Init
<1>3. IsTable(table) /\ table.gen = 0 /\ table.loading
  BY <1>2 DEF Fresh, IsTable, Fields
<1>4. IsTab(tab) /\ tab.dir = r.dir
  BY <1>1 DEF IsTab
<1> QED
  BY <1>1, <1>3, <1>4 DEF Current, ShownIsCurrent

(* A handler that keeps what is shown.                                     *)
LEMMA CurrentKept ==
  ASSUME Current, Keeps(table, table'), UNCHANGED <<tab, loads>>
  PROVE  Current'
BY DEF Current, Keeps, ShownIsCurrent

LEMMA ReloadCurrent ==
  ASSUME Current, NEW dir, NEW select, Reload(dir, select), IsTab(tab'), tab'.dir = dir
  PROVE  Current'
<1> DEFINE cleared == ClearSearch(table)
<1>1. Keeps(table, cleared)
  BY ClearSearchKeeps DEF Current
<1>2. /\ IsTable(table') /\ table'.gen = table.gen + 1 /\ table'.loading
  BY <1>1 DEF Reload, Keeps, IsTable, Fields
<1>3. ASSUME NEW load \in loads'
      PROVE  /\ load.gen \in Nat /\ load.gen <= table'.gen
             /\ load.gen = table'.gen => load.dir = tab'.dir
  BY <1>2 DEF Reload, Current
<1> QED
  BY <1>2, <1>3 DEF Current, ShownIsCurrent

LEMMA NavigateToCurrent ==
  ASSUME Current, NEW history, NEW dir, NEW select, NavigateTo(history, dir, select),
         IsTab(history), history.dir = tab.dir
  PROVE  Current'
<1>1. CASE tab.locked
  <2>1. tab' = history /\ UNCHANGED <<table, loads>>
    BY <1>1 DEF NavigateTo
  <2> QED
    BY <2>1 DEF Current, ShownIsCurrent
<1>2. CASE ~tab.locked
  <2>1. tab' = [history EXCEPT !.dir = dir] /\ Reload(dir, select)
    BY <1>2 DEF NavigateTo
  <2>2. IsTab(tab') /\ tab'.dir = dir
    BY <2>1 DEF IsTab
  <2> QED
    BY <2>1, <2>2, ReloadCurrent
<1> QED
  BY <1>1, <1>2

LEMMA VisitCurrent ==
  ASSUME Current, NEW dir, NEW select, Visit(dir, select)
  PROVE  Current'
<1>1. ASSUME NEW b, NEW f
      PROVE  LET h == [tab EXCEPT !.back = b, !.forward = f]
             IN IsTab(h) /\ h.dir = tab.dir
  BY DEF Current, IsTab
<1>2. IsTab(tab)
  BY DEF Current
<1> QED
  BY <1>1, <1>2, NavigateToCurrent DEF Visit

LEMMA NavigationsCurrent ==
  ASSUME Current,
         \/ NavigateToPath \/ NavigateToParent \/ EnterDirectory
         \/ NavigateHistoryBack \/ NavigateHistoryForward \/ RereadCurrentDir \/ SetLocked
  PROVE  Current'
<1>1. CASE NavigateToPath
  BY <1>1, VisitCurrent DEF NavigateToPath
<1>2. CASE NavigateToParent
  BY <1>2, VisitCurrent DEF NavigateToParent
<1>3. CASE EnterDirectory
  BY <1>3, VisitCurrent DEF EnterDirectory, NavigateToParent
<1>4. CASE NavigateHistoryBack
  <2> DEFINE h == [tab EXCEPT !.back = Front(@), !.forward = Append(@, tab.dir)]
  <2>1. IsTab(h) /\ h.dir = tab.dir
    BY DEF Current, IsTab
  <2>2. NavigateTo(h, Last(tab.back), "none")
    BY <1>4 DEF NavigateHistoryBack
  <2> QED
    BY <2>1, <2>2, NavigateToCurrent
<1>5. CASE NavigateHistoryForward
  <2> DEFINE h == [tab EXCEPT !.forward = Front(@), !.back = Append(@, tab.dir)]
  <2>1. IsTab(h) /\ h.dir = tab.dir
    BY DEF Current, IsTab
  <2>2. NavigateTo(h, Last(tab.forward), "none")
    BY <1>5 DEF NavigateHistoryForward
  <2> QED
    BY <2>1, <2>2, NavigateToCurrent
<1>6. CASE RereadCurrentDir
  <2>1. Reload(tab.dir, "none") /\ tab' = tab
    BY <1>6 DEF RereadCurrentDir
  <2>2. IsTab(tab') /\ tab'.dir = tab.dir
    BY <2>1 DEF Current
  <2> QED
    BY <2>1, <2>2, ReloadCurrent
<1>7. CASE SetLocked
  BY <1>7 DEF SetLocked, Current, IsTab, ShownIsCurrent
<1> QED
  BY <1>1, <1>2, <1>3, <1>4, <1>5, <1>6, <1>7

(* The end of a listing shows it only if no later one was asked for.       *)
LEMMA ListingsCurrent ==
  ASSUME Current, LoadDone \/ LoadFails PROVE Current'
<1>1. CASE LoadFails
  BY <1>1 DEF LoadFails, Current, ShownIsCurrent
<1>2. CASE LoadDone
  <2>1. PICK load \in loads :
          /\ loads' = loads \ {load} /\ tab' = tab
          /\ table' = IF Applies(load) THEN Listed(table, load) ELSE table
    BY <1>2 DEF LoadDone
  <2>2. CASE ~Applies(load)
    BY <2>1, <2>2 DEF Current, ShownIsCurrent
  <2>3. CASE Applies(load)
    <3> DEFINE bare == [EndRange(table) EXCEPT
                          !.of = load.dir, !.names = Tree[load.dir],
                          !.ascending = load.ascending,
                          !.filter = NoFilter, !.selected = {}, !.onParent = FALSE]
               listed == SetCursorRow(bare, 1)
               shown == [listed EXCEPT !.hasParent = load.dir # << >>, !.loading = FALSE]
    <3>1. IsTable(bare) /\ bare.of = load.dir /\ bare.gen = table.gen
      BY EndRangeKeeps DEF Current, Keeps, IsTable, Fields
    <3>2. IsTable(listed) /\ listed.of = load.dir /\ listed.gen = table.gen
      <4>1. Keeps(bare, bare)
        BY <3>1, KeepsItself
      <4>2. Keeps(bare, listed)
        BY <4>1, SetCursorRowKeeps
      <4> HIDE DEF bare, listed
      <4> QED
        BY <3>1, <4>2 DEF Keeps
    <3>3. /\ IsTable(shown) /\ shown.of = load.dir /\ shown.gen = table.gen
          /\ shown.hasParent = (load.dir # << >>)
      BY <3>2 DEF IsTable, Fields
    <3>4. Keeps(shown, SelectRowByName(shown, load.select))
      BY <3>3, KeepsItself, MoveCursorToKeeps DEF SelectRowByName
    <3>5. table' = SelectRowByName(shown, load.select)
      BY <2>1, <2>3 DEF Listed
    <3>6. load.dir = tab.dir
      BY <2>1, <2>3 DEF Applies, Current
    <3>7. /\ IsTable(table') /\ table'.gen = table.gen
          /\ table'.of = tab.dir /\ table'.hasParent = (tab.dir # << >>)
      BY <3>3, <3>4, <3>5, <3>6 DEF Keeps
    <3> QED
      BY <2>1, <3>7 DEF Current, ShownIsCurrent
  <2> QED
    BY <2>2, <2>3
<1> QED
  BY <1>1, <1>2

LEMMA ClickedKeeps ==
  ASSUME NEW t, IsTable(t), NEW d, NEW modifier \in {"none", "shift", "control"}
  PROVE  Keeps(t, Clicked(t, d, modifier))
<1> DEFINE s == ClearSearch(t)
           moved == MoveCursorTo(s, d)
           bare == [moved EXCEPT !.selected = {}]
<1>1. Keeps(t, s)
  BY ClearSearchKeeps
<1>2. Keeps(t, moved)
  BY <1>1, MoveCursorToKeeps, KeepsTransitively DEF Keeps
<1>3. Keeps(t, ExtendTo(s, d - Offset(s)))
  BY <1>1, ExtendToKeeps, KeepsTransitively DEF Keeps
<1>4. Keeps(t, ToggleCursor(moved))
  BY <1>2, ToggleCursorKeeps, KeepsTransitively DEF Keeps
<1>5. Keeps(t, bare)
  BY <1>2, SelectedKeeps, KeepsTransitively DEF Keeps
<1>6. Keeps(t, ToggleCursor(bare))
  BY <1>5, ToggleCursorKeeps, KeepsTransitively DEF Keeps
<1>7. \/ Clicked(t, d, modifier) = moved
      \/ Clicked(t, d, modifier) = ExtendTo(s, d - Offset(s))
      \/ Clicked(t, d, modifier) = ToggleCursor(moved)
      \/ Clicked(t, d, modifier) = ToggleCursor(bare)
  BY Zenon DEF Clicked
<1> QED
  BY <1>2, <1>3, <1>4, <1>6, <1>7

LEMMA PointersCurrent ==
  ASSUME Current,
         \/ MoveCursor \/ ToggleSelection \/ ToggleSelectionAndAdvance \/ ExtendSelection
         \/ SelectMany \/ DeselectAll \/ InvertSelection \/ PerformSort
         \/ HandleLeftClick \/ PrepareContextMenu
  PROVE  Current'
<1> USE DEF Handles
<1>0. IsTable(table)
  BY DEF Current
<1>1. CASE MoveCursor
  <2>1. PICK d : Handles(MoveCursorTo(ClearJump(table), d))
    BY <1>1 DEF MoveCursor
  <2>2. Keeps(table, MoveCursorTo(ClearJump(table), d))
    BY <1>0, ClearSearchKeeps, MoveCursorToKeeps, KeepsTransitively DEF Keeps
  <2> QED
    BY <2>1, <2>2, CurrentKept
<1>2. CASE ToggleSelection
  BY <1>0, <1>2, ToggleCursorKeeps, CurrentKept DEF ToggleSelection
<1>3. CASE ToggleSelectionAndAdvance
  <2>1. Keeps(table, MoveCursorTo(ToggleCursor(table), DisplayRow(table) + 1))
    BY <1>0, ToggleCursorKeeps, MoveCursorToKeeps, KeepsTransitively DEF Keeps
  <2> QED
    BY <1>3, <2>1, CurrentKept DEF ToggleSelectionAndAdvance
<1>4. CASE ExtendSelection
  BY <1>0, <1>4, ExtendToKeeps, CurrentKept DEF ExtendSelection
<1>5. CASE SelectMany \/ DeselectAll \/ InvertSelection
  BY <1>0, <1>5, SelectedKeeps, CurrentKept DEF SelectMany, DeselectAll, InvertSelection
<1>6. CASE PerformSort
  <2>1. Keeps(table, [table EXCEPT !.ascending = ~@])
    BY <1>0 DEF Keeps, IsTable, Fields
  <2>2. Keeps(table, SyncCursorRow([table EXCEPT !.ascending = ~@]))
    BY <2>1, SyncCursorRowKeeps
  <2> QED
    BY <1>6, <2>2, CurrentKept DEF PerformSort
<1>7. CASE HandleLeftClick
  BY <1>0, <1>7, ClickedKeeps, CurrentKept DEF HandleLeftClick, Click
<1>8. CASE PrepareContextMenu
  <2>1. PICK d : LET moved == MoveCursorTo(ClearSearch(table), d)
                 IN Handles(IF MouseMode = "Norton" THEN ToggleCursor(moved) ELSE moved)
    BY <1>8 DEF PrepareContextMenu
  <2>2. Keeps(table, MoveCursorTo(ClearSearch(table), d))
    BY <1>0, ClearSearchKeeps, MoveCursorToKeeps, KeepsTransitively DEF Keeps
  <2>3. Keeps(table, ToggleCursor(MoveCursorTo(ClearSearch(table), d)))
    BY <2>2, ToggleCursorKeeps, KeepsTransitively DEF Keeps
  <2> QED
    BY <2>1, <2>2, <2>3, CurrentKept
<1> QED
  BY <1>1, <1>2, <1>3, <1>4, <1>5, <1>6, <1>7, <1>8

LEMMA KeyedCurrent ==
  ASSUME Current, NEW s, Keyed([table EXCEPT !.search = s]) PROVE Current'
<1>1. Keeps(table, [table EXCEPT !.search = s])
  BY SearchKeeps DEF Current
<1>2. Keeps(table, table')
  BY <1>1, SearchedKeeps, KeepsTransitively DEF Keyed, Keeps
<1> QED
  BY <1>2, CurrentKept DEF Keyed

LEMMA SearchesCurrent ==
  ASSUME Current,
         \/ PushQuickSearchChar \/ HandleBackspace \/ ToggleQuickFilter \/ ExitQuickSearch
         \/ TimerFires
  PROVE  Current'
<1>0. IsTable(table)
  BY DEF Current
<1>1. CASE PushQuickSearchChar
  BY <1>1, KeyedCurrent DEF PushQuickSearchChar
<1>2. CASE HandleBackspace
  <2>1. CASE NavigateToParent
    BY <2>1, NavigationsCurrent
  <2>2. CASE Handles(ClearSearch(table))
    BY <1>0, <2>2, ClearSearchKeeps, CurrentKept DEF Handles
  <2>3. CASE Keyed([table EXCEPT !.search.query = @ - 1, !.search.gen = @ + 1])
    <3> DEFINE before == table.search
               shorter == [before EXCEPT !.query = before.query - 1]
               first == [table EXCEPT !.search = shorter]
               after == [shorter EXCEPT !.gen = before.gen + 1]
    <3>1. [table EXCEPT !.search.query = @ - 1, !.search.gen = @ + 1]
            = [first EXCEPT !.search.gen = before.gen + 1]
      OBVIOUS
    <3>2. first.search = shorter
      BY <1>0 DEF IsTable, Fields
    <3>3. [first EXCEPT !.search.gen = before.gen + 1] = [table EXCEPT !.search = after]
      BY <1>0, <3>2 DEF IsTable, Fields
    <3>4. Keyed([table EXCEPT !.search = after])
      BY <2>3, <3>1, <3>3
    <3> QED
      BY <3>4, KeyedCurrent
  <2> QED
    BY <1>2, <2>1, <2>2, <2>3 DEF HandleBackspace
<1>3. CASE ToggleQuickFilter
  BY <1>3, KeyedCurrent DEF ToggleQuickFilter
<1>4. CASE ExitQuickSearch
  BY <1>0, <1>4, ClearSearchKeeps, CurrentKept DEF ExitQuickSearch, Handles
<1>5. CASE TimerFires
  <2>1. Keeps(table, table') /\ UNCHANGED <<tab, loads>>
    BY <1>0, <1>5, ClearSearchKeeps, KeepsItself DEF TimerFires
  <2> QED
    BY <2>1, CurrentKept
<1> QED
  BY <1>1, <1>2, <1>3, <1>4, <1>5

LEMMA CurrentStep == Current /\ [Next]_vars => Current'
<1> SUFFICES ASSUME Current, [Next]_vars PROVE Current'
  OBVIOUS
<1>1. CASE UNCHANGED vars
  BY <1>1 DEF vars, Current, ShownIsCurrent
<1>2. CASE Next
  BY <1>2, NavigationsCurrent, ListingsCurrent, PointersCurrent, SearchesCurrent DEF Next
<1> QED
  BY <1>1, <1>2

(* A table that is not marked loading shows the directory its tab is at,   *)
(* however many listings are under way and in whichever order they end.    *)
THEOREM ListingIsCurrent == Spec => []ShownIsCurrent
<1>1. Current => ShownIsCurrent
  BY DEF Current
<1> QED
  BY <1>1, CurrentStarts, CurrentStep, PTL DEF Spec

-----------------------------------------------------------------------------
(* The rows.  An order holds every name at most once: then a row and the   *)
(* name there determine each other.                                        *)
Listing(t) == t.names \in Seq(Names) /\ Once(t.names)

Anchored(t) ==
  t.anchor # 0 => t.anchor \in 1..Len(Order(t)) /\ Order(t)[t.anchor] = t.held

(* A table whose cursor and anchor are where they say.                     *)
Rowed(t) ==
  /\ IsTable(t) /\ Listing(t)
  /\ t.row = RowOf(t, t.cursor)
  /\ Anchored(t)

(* u is such a table, in the same search as t.                             *)
Follows(t, u) == Rowed(u) /\ u.search = t.search

LEMMA ReverseOnce ==
  ASSUME NEW S, NEW s \in Seq(S), Once(s)
  PROVE  Reverse(s) \in Seq(S) /\ Len(Reverse(s)) = Len(s) /\ Once(Reverse(s))
<1> DEFINE n == Len(s)
<1>1. n \in Nat
  BY LenProperties
<1>2. ASSUME NEW i \in 1..n
      PROVE  n - i + 1 \in 1..n
  BY <1>1
<1>3. ASSUME NEW i \in 1..n
      PROVE  s[n - i + 1] \in S
  BY <1>2, ElementOfSeq
<1>4. Reverse(s) = [i \in 1..n |-> s[n - i + 1]]
  BY DEF Reverse
<1>5. Reverse(s) \in Seq(S) /\ Len(Reverse(s)) = n
  <2> HIDE DEF n
  <2> QED
    BY <1>1, <1>3, <1>4
<1>6. ASSUME NEW i \in 1..n, NEW j \in 1..n, Reverse(s)[i] = Reverse(s)[j]
      PROVE  i = j
  <2>1. n - i + 1 = n - j + 1
    BY <1>2, <1>4, <1>6 DEF Once
  <2> HIDE DEF n
  <2> QED
    BY <1>1, <2>1
<1> QED
  BY <1>5, <1>6 DEF Once

(* What an order is made of.                                               *)
LEMMA OrderFacts ==
  ASSUME NEW t, Listing(t)
  PROVE  /\ Order(t) \in Seq(Names) /\ Once(Order(t)) /\ Len(Order(t)) \in Nat
         /\ Len(Order(t)) <= Len(t.names)
<1> DEFINE sorted == IF t.ascending THEN t.names ELSE Reverse(t.names)
           passing == {i \in DOMAIN sorted : sorted[i] \in Matching[t.filter + 1]}
<1>1. /\ sorted \in Seq(Names) /\ Once(sorted) /\ Len(sorted) = Len(t.names)
      /\ Len(sorted) \in Nat
  BY ReverseOnce, LenProperties DEF Listing
<1>2. Within(passing, Len(sorted))
  <2>1. DOMAIN sorted = 1..Len(sorted)
    BY <1>1, LenProperties
  <2> QED
    BY <2>1 DEF Within
<1>3. Order(t) = sorted \/ Order(t) = Picked(sorted, passing)
  BY DEF Order
<1> HIDE DEF sorted, passing
<1>4. /\ Picked(sorted, passing) \in Seq(Names) /\ Len(Picked(sorted, passing)) <= Len(sorted)
      /\ Len(Picked(sorted, passing)) = Cardinality(passing)
  BY <1>1, <1>2, PickedType
<1>5. Once(Picked(sorted, passing))
  BY <1>1, <1>2, PickedOnce
<1>6. Len(Picked(sorted, passing)) \in Nat
  BY <1>4, LenProperties
<1> QED
  BY <1>1, <1>3, <1>4, <1>5, <1>6

(* A name's row is where it is, and none for a name that is not there.     *)
LEMMA RowOfFacts ==
  ASSUME NEW t, Listing(t)
  PROVE  /\ \A r \in 1..Len(Order(t)) : RowOf(t, Order(t)[r]) = r
         /\ RowOf(t, "none") = 0
         /\ \A name : RowOf(t, name) \in 0..Len(Order(t))
<1> DEFINE order == Order(t)
<1>1. order \in Seq(Names) /\ Once(order) /\ Len(order) \in Nat
  BY OrderFacts
<1>2. Range(order) = {order[r] : r \in 1..Len(order)}
  BY <1>1, LenProperties DEF Range
<1>3. ASSUME NEW r \in 1..Len(order)
      PROVE  RowOf(t, order[r]) = r
  BY <1>1, <1>2 DEF RowOf, Once
<1>4. "none" \notin Range(order)
  BY <1>1, <1>2, ElementOfSeq, FileTableAssumption DEF FileTableAssumption
<1>5. ASSUME NEW name
      PROVE  RowOf(t, name) \in 0..Len(order)
  <2>1. CASE name \in Range(order)
    <3>1. PICK r \in 1..Len(order) : name = order[r]
      BY <1>2, <2>1
    <3>2. RowOf(t, name) = r
      BY <1>3, <3>1
    <3> HIDE DEF order
    <3> QED
      BY <1>1, <3>2
  <2>2. CASE name \notin Range(order)
    <3>1. RowOf(t, name) = 0
      BY <2>2 DEF RowOf
    <3> HIDE DEF order
    <3> QED
      BY <1>1, <3>1
  <2> QED
    BY <2>1, <2>2
<1> QED
  BY <1>3, <1>4, <1>5 DEF RowOf

(* Nothing but the names, their direction and the filter makes the order.  *)
LEMMA SameOrder ==
  ASSUME NEW t, NEW u, u.names = t.names, u.ascending = t.ascending, u.filter = t.filter
  PROVE  /\ Order(u) = Order(t) /\ \A name : RowOf(u, name) = RowOf(t, name)
         /\ Listing(t) => Listing(u)
BY DEF Order, RowOf, Listing

-----------------------------------------------------------------------------
(* The delegate's methods keep the cursor and the anchor where they are.   *)

LEMMA SetCursorRowFollows ==
  ASSUME NEW t, IsTable(t), Listing(t), Anchored(t), NEW row,
         row \in 1..Len(Order(t)) \/ Order(t) = << >>
  PROVE  Follows(t, SetCursorRow(t, row))
<1> DEFINE r == IF Order(t) = << >> THEN 0 ELSE row
           cursor == IF r = 0 THEN "none" ELSE Order(t)[r]
           u == [t EXCEPT !.row = r, !.cursor = cursor]
<1>1. /\ IsTable(u) /\ u.row = r /\ u.cursor = cursor
      /\ u.names = t.names /\ u.ascending = t.ascending /\ u.filter = t.filter
      /\ u.anchor = t.anchor /\ u.held = t.held /\ u.search = t.search
  BY DEF IsTable, Fields
<1>2. SetCursorRow(t, row) = u
  BY DEF SetCursorRow
<1>3. RowOf(t, cursor) = r
  BY RowOfFacts, OrderFacts
<1> HIDE DEF u, r, cursor
<1>4. Order(u) = Order(t) /\ RowOf(u, cursor) = RowOf(t, cursor) /\ Listing(u)
  BY <1>1, SameOrder
<1> QED
  BY <1>1, <1>2, <1>3, <1>4 DEF Follows, Rowed, Anchored

LEMMA EndRangeFollows ==
  ASSUME NEW t, IsTable(t)
  PROVE  LET u == EndRange(t)
         IN /\ IsTable(u) /\ Anchored(u) /\ u.search = t.search
            /\ u.names = t.names /\ u.ascending = t.ascending /\ u.filter = t.filter
            /\ u.row = t.row /\ u.cursor = t.cursor /\ u.hasParent = t.hasParent
BY DEF EndRange, IsTable, Fields, Anchored

LEMMA SyncCursorRowFollows ==
  ASSUME NEW t, IsTable(t), Listing(t)
  PROVE  Follows(t, SyncCursorRow(t))
<1> DEFINE u == SyncCursorRow(t)
<1>1. /\ IsTable(u) /\ u.row = RowOf(t, t.cursor) /\ u.cursor = t.cursor
      /\ u.names = t.names /\ u.ascending = t.ascending /\ u.filter = t.filter
      /\ u.anchor = 0 /\ u.search = t.search
  BY DEF SyncCursorRow, EndRange, IsTable, Fields
<1> HIDE DEF u
<1>2. RowOf(u, t.cursor) = RowOf(t, t.cursor) /\ Listing(u)
  BY <1>1, SameOrder
<1> QED
  BY <1>1, <1>2 DEF u, Follows, Rowed, Anchored

(* A change of what has no part in the rows.                               *)
LEMMA AsideFollows ==
  ASSUME NEW t, NEW u, Rowed(t), IsTable(u),
         u.names = t.names, u.ascending = t.ascending, u.filter = t.filter,
         u.row = t.row, u.cursor = t.cursor, u.anchor = t.anchor, u.held = t.held
  PROVE  Rowed(u)
<1>1. Order(u) = Order(t) /\ RowOf(u, t.cursor) = RowOf(t, t.cursor) /\ Listing(u)
  BY SameOrder DEF Rowed
<1> QED
  BY <1>1 DEF Rowed, Anchored

LEMMA MoveCursorToFollows ==
  ASSUME NEW t, Rowed(t), NEW display \in Nat, display >= 1
  PROVE  Follows(t, MoveCursorTo(t, display))
<1> DEFINE length == Len(Order(t))
           count == length + Offset(t)
           d == IF display < count THEN display ELSE count
           moved == EndRange(t)
           above == [moved EXCEPT !.onParent = TRUE]
           onEntry == [moved EXCEPT !.onParent = FALSE]
<1>1. /\ IsTable(moved) /\ Anchored(moved) /\ moved.search = t.search
      /\ moved.names = t.names /\ moved.ascending = t.ascending /\ moved.filter = t.filter
      /\ moved.row = t.row /\ moved.cursor = t.cursor /\ moved.hasParent = t.hasParent
      /\ moved.anchor = 0
  BY EndRangeFollows DEF Rowed, EndRange, IsTable, Fields
<1>2. length \in Nat
  BY OrderFacts DEF Rowed
<1> HIDE DEF length, moved
<1>3. /\ Rowed(above) /\ above.search = t.search
  <2>1. /\ IsTable(above) /\ above.search = t.search /\ above.anchor = 0
        /\ above.names = t.names /\ above.ascending = t.ascending /\ above.filter = t.filter
        /\ above.row = t.row /\ above.cursor = t.cursor
    BY <1>1 DEF IsTable, Fields
  <2> HIDE DEF above
  <2>2. RowOf(above, t.cursor) = RowOf(t, t.cursor) /\ Listing(above)
    BY <2>1, SameOrder DEF Rowed
  <2> QED
    BY <2>1, <2>2 DEF Rowed, Anchored
<1>4. ASSUME count # 0, ~ (t.hasParent /\ d = 1)
      PROVE  Follows(t, SetCursorRow(onEntry, d - Offset(t)))
  <2>1. /\ IsTable(onEntry) /\ onEntry.search = t.search /\ onEntry.anchor = 0
        /\ onEntry.names = t.names /\ onEntry.ascending = t.ascending
        /\ onEntry.filter = t.filter
    BY <1>1 DEF IsTable, Fields
  <2> HIDE DEF onEntry
  <2>2. Order(onEntry) = Order(t) /\ Listing(onEntry) /\ Anchored(onEntry)
    BY <2>1, SameOrder DEF Rowed, Anchored
  <2>3. d - Offset(t) \in 1..length
    BY <1>2, <1>4 DEF Offset
  <2>4. Follows(onEntry, SetCursorRow(onEntry, d - Offset(t)))
    BY <2>1, <2>2, <2>3, SetCursorRowFollows DEF length
  <2> QED
    BY <2>1, <2>4 DEF Follows
<1>5. MoveCursorTo(t, display) =
        IF count = 0 THEN t
        ELSE IF t.hasParent /\ d = 1 THEN above ELSE SetCursorRow(onEntry, d - Offset(t))
  BY DEF MoveCursorTo, length, moved
<1> HIDE DEF count, d, above, onEntry
<1> QED
  BY <1>3, <1>4, <1>5 DEF Follows

LEMMA SelectRowByNameFollows ==
  ASSUME NEW t, Rowed(t), NEW name
  PROVE  Follows(t, SelectRowByName(t, name))
<1>1. ASSUME RowOf(t, name) # 0
      PROVE  RowOf(t, name) + Offset(t) \in Nat /\ RowOf(t, name) + Offset(t) >= 1
  <2>1. RowOf(t, name) \in 0..Len(Order(t)) /\ Len(Order(t)) \in Nat
    BY RowOfFacts, OrderFacts DEF Rowed
  <2> QED
    BY <1>1, <2>1 DEF Offset
<1> QED
  BY <1>1, MoveCursorToFollows DEF SelectRowByName, Follows

LEMMA SelectedFollows ==
  ASSUME NEW t, Rowed(t), NEW S
  PROVE  Follows(t, [t EXCEPT !.selected = S])
<1> DEFINE u == [t EXCEPT !.selected = S]
<1>1. /\ IsTable(u) /\ u.search = t.search
      /\ u.names = t.names /\ u.ascending = t.ascending /\ u.filter = t.filter
      /\ u.row = t.row /\ u.cursor = t.cursor /\ u.anchor = t.anchor /\ u.held = t.held
  BY DEF Rowed, IsTable, Fields
<1> HIDE DEF u
<1>2. Follows(t, u)
  BY <1>1, AsideFollows DEF Follows
<1> QED
  BY <1>2 DEF u

LEMMA ToggleCursorFollows ==
  ASSUME NEW t, Rowed(t) PROVE Follows(t, ToggleCursor(t))
BY SelectedFollows DEF ToggleCursor, Follows

LEMMA ExtendToFollows ==
  ASSUME NEW t, Rowed(t), NEW row \in 1..Len(Order(t))
  PROVE  Follows(t, ExtendTo(t, row))
<1> DEFINE old == IF t.row = 0 THEN row ELSE t.row
           anchor == IF t.anchor = 0 THEN old ELSE t.anchor
           held == IF t.anchor = 0 THEN Order(t)[old] ELSE t.held
           u(S) == [t EXCEPT !.anchor = anchor, !.held = held, !.selected = S]
<1>1. t.row \in 0..Len(Order(t)) /\ Len(Order(t)) \in Nat
  BY RowOfFacts, OrderFacts DEF Rowed
<1>2. old \in 1..Len(Order(t))
  BY <1>1
<1>3. anchor \in 1..Len(Order(t)) /\ Order(t)[anchor] = held
  BY <1>2 DEF Rowed, Anchored
<1>4. ASSUME NEW S
      PROVE  Follows(t, SetCursorRow(u(S), row))
  <2> DEFINE v == u(S)
  <2>1. /\ IsTable(v) /\ v.search = t.search /\ v.anchor = anchor /\ v.held = held
        /\ v.names = t.names /\ v.ascending = t.ascending /\ v.filter = t.filter
    BY DEF Rowed, IsTable, Fields
  <2> HIDE DEF v, old, anchor, held
  <2>2. Order(v) = Order(t) /\ Listing(v)
    BY <2>1, SameOrder DEF Rowed
  <2>3. Anchored(v)
    BY <1>3, <2>1, <2>2 DEF Anchored
  <2>4. Follows(v, SetCursorRow(v, row))
    BY <2>1, <2>2, <2>3, SetCursorRowFollows
  <2> QED
    BY <2>1, <2>4 DEF Follows, v
<1>5. \E S : ExtendTo(t, row) = SetCursorRow(u(S), row)
  BY DEF ExtendTo
<1> QED
  BY <1>4, <1>5

(* Taking a filter away leaves no fewer rows.                              *)
LEMMA ClearSearchFollows ==
  ASSUME NEW t, Rowed(t)
  PROVE  LET u == ClearSearch(t)
         IN /\ Rowed(u) /\ u.search = NoSearch /\ u.hasParent = t.hasParent
            /\ Len(Order(t)) <= Len(Order(u))
<1> DEFINE plain == [t EXCEPT !.search = NoSearch]
           bare == [t EXCEPT !.search = NoSearch, !.filter = NoFilter]
<1>0. Len(Order(t)) \in Nat /\ Len(Order(t)) <= Len(t.names)
  BY OrderFacts DEF Rowed
<1>1. /\ Rowed(plain) /\ plain.search = NoSearch /\ plain.hasParent = t.hasParent
      /\ Len(Order(t)) <= Len(Order(plain))
  <2>1. /\ IsTable(plain) /\ plain.search = NoSearch /\ plain.hasParent = t.hasParent
        /\ plain.names = t.names /\ plain.ascending = t.ascending /\ plain.filter = t.filter
        /\ plain.row = t.row /\ plain.cursor = t.cursor
        /\ plain.anchor = t.anchor /\ plain.held = t.held
    BY DEF Rowed, IsTable, Fields
  <2> HIDE DEF plain
  <2>2. Rowed(plain) /\ Order(plain) = Order(t)
    BY <2>1, AsideFollows, SameOrder
  <2> QED
    BY <1>0, <2>1, <2>2
<1>2. LET u == SyncCursorRow(bare)
      IN /\ Rowed(u) /\ u.search = NoSearch /\ u.hasParent = t.hasParent
         /\ Len(Order(t)) <= Len(Order(u))
  <2> DEFINE u == SyncCursorRow(bare)
  <2>1. /\ IsTable(bare) /\ bare.search = NoSearch /\ bare.hasParent = t.hasParent
        /\ bare.names = t.names /\ bare.ascending = t.ascending /\ bare.filter = NoFilter
    BY DEF Rowed, IsTable, Fields
  <2> HIDE DEF bare
  <2>2. /\ u.names = bare.names /\ u.ascending = bare.ascending /\ u.filter = bare.filter
        /\ u.hasParent = bare.hasParent
    BY <2>1 DEF SyncCursorRow, EndRange, IsTable, Fields
  <2>3. Listing(bare)
    BY <2>1 DEF Rowed, Listing
  <2>4. Follows(bare, u)
    BY <2>1, <2>3, SyncCursorRowFollows
  <2> HIDE DEF u
  <2>5. Order(u) = IF t.ascending THEN t.names ELSE Reverse(t.names)
    BY <2>1, <2>2 DEF Order
  <2>6. Len(Order(u)) = Len(t.names)
    BY <2>5, ReverseOnce DEF Rowed, Listing
  <2> QED
    BY <1>0, <2>1, <2>2, <2>4, <2>6 DEF Follows, u
<1> QED
  BY <1>1, <1>2 DEF ClearSearch

(* u follows t, or has ended its search.                                   *)
Quiets(t, u) == Rowed(u) /\ u.search \in {t.search, NoSearch}

LEMMA ClearJumpFollows ==
  ASSUME NEW t, Rowed(t)
  PROVE  /\ Quiets(t, ClearJump(t))
         /\ ClearJump(t).search.mode # "Jump"
  BY ClearSearchFollows DEF ClearJump, Quiets, NoSearch

LEMMA FilteredFollows ==
  ASSUME NEW t, Rowed(t) PROVE Follows(t, Filtered(t))
<1> DEFINE bare == [t EXCEPT !.filter = t.search.query]
           s == SyncCursorRow(bare)
           first == [s EXCEPT !.onParent = FALSE]
<1>1. /\ IsTable(bare) /\ bare.search = t.search
      /\ bare.names = t.names /\ bare.ascending = t.ascending
  BY DEF Rowed, IsTable, Fields
<1> HIDE DEF bare
<1>2. Follows(t, s)
  <2>1. Listing(bare)
    BY <1>1 DEF Rowed, Listing
  <2> QED
    BY <1>1, <2>1, SyncCursorRowFollows DEF Follows
<1> HIDE DEF s
<1>3. ASSUME Order(s) # << >>
      PROVE  Follows(t, SetCursorRow(first, 1))
  <2>1. /\ IsTable(first) /\ first.search = s.search
        /\ first.names = s.names /\ first.ascending = s.ascending /\ first.filter = s.filter
        /\ first.row = s.row /\ first.cursor = s.cursor
        /\ first.anchor = s.anchor /\ first.held = s.held
    BY <1>2 DEF Follows, Rowed, IsTable, Fields
  <2> HIDE DEF first
  <2>2. Rowed(first) /\ Order(first) = Order(s)
    BY <1>2, <2>1, AsideFollows, SameOrder DEF Follows
  <2>3. 1 \in 1..Len(Order(first))
    <3>1. Order(s) \in Seq(Names) /\ Len(Order(s)) \in Nat
      BY <1>2, OrderFacts DEF Follows, Rowed
    <3> QED
      BY <1>3, <2>2, <3>1, EmptySeq
  <2>4. Follows(first, SetCursorRow(first, 1))
    BY <2>2, <2>3, SetCursorRowFollows DEF Rowed
  <2> QED
    BY <1>2, <2>1, <2>4 DEF Follows
<1> QED
  BY <1>2, <1>3 DEF Filtered, s, bare, first

LEMMA SearchedFollows ==
  ASSUME NEW t, Rowed(t), NEW u \in Searched(t) PROVE Follows(t, u)
<1>1. CASE u \in Jumped(t)
  <2>1. \/ u = t
        \/ \E r \in 1..Len(Order(t)) : u = MoveCursorTo(t, r + Offset(t))
    BY <1>1 DEF Jumped
  <2>2. ASSUME NEW r \in 1..Len(Order(t))
        PROVE  Follows(t, MoveCursorTo(t, r + Offset(t)))
    <3>1. r + Offset(t) \in Nat /\ r + Offset(t) >= 1
      BY DEF Offset
    <3> QED
      BY <3>1, MoveCursorToFollows
  <2> QED
    BY <2>1, <2>2 DEF Follows
<1>2. CASE u = Filtered(t)
  BY <1>2, FilteredFollows
<1> QED
  BY <1>1, <1>2 DEF Searched

LEMMA ListedFollows ==
  ASSUME NEW t, Rowed(t), NEW load, load.dir \in DOMAIN Tree
  PROVE  Follows(t, Listed(t, load))
<1> DEFINE moved == EndRange(t)
           bare == [moved EXCEPT !.of = load.dir, !.names = Tree[load.dir],
                                 !.ascending = load.ascending, !.filter = NoFilter,
                                 !.selected = {}, !.onParent = FALSE]
           listed == SetCursorRow(bare, 1)
           shown == [listed EXCEPT !.hasParent = load.dir # << >>, !.loading = FALSE]
<1>1. IsTable(moved) /\ moved.search = t.search /\ moved.anchor = 0
  BY DEF Rowed, EndRange, IsTable, Fields
<1> HIDE DEF moved
<1>2. IsTable(bare) /\ bare.search = t.search /\ bare.names = Tree[load.dir] /\ bare.anchor = 0
  BY <1>1 DEF IsTable, Fields
<1> HIDE DEF bare
<1>3. Listing(bare)
  <2>1. Tree[load.dir] \in Seq(Names) /\ IsInjective(Tree[load.dir])
    BY FileTableAssumption DEF FileTableAssumption
  <2>2. Once(Tree[load.dir])
    BY <2>1, LenProperties DEF IsInjective, Once
  <2> QED
    BY <1>2, <2>1, <2>2 DEF Listing
<1>4. Order(bare) = << >> \/ 1 \in 1..Len(Order(bare))
  BY <1>3, OrderFacts, EmptySeq
<1>5. Follows(t, listed)
  <2>1. Follows(bare, listed)
    BY <1>2, <1>3, <1>4, SetCursorRowFollows DEF Anchored
  <2> QED
    BY <1>2, <2>1 DEF Follows
<1> HIDE DEF listed
<1>6. /\ IsTable(shown) /\ shown.search = listed.search
      /\ shown.names = listed.names /\ shown.ascending = listed.ascending
      /\ shown.filter = listed.filter /\ shown.row = listed.row
      /\ shown.cursor = listed.cursor /\ shown.anchor = listed.anchor
      /\ shown.held = listed.held
  BY <1>5 DEF Follows, Rowed, IsTable, Fields
<1> HIDE DEF shown
<1>7. Rowed(shown) /\ shown.search = t.search
  BY <1>5, <1>6, AsideFollows DEF Follows
<1>8. Follows(t, SelectRowByName(shown, load.select))
  BY <1>7, SelectRowByNameFollows DEF Follows
<1>9. Listed(t, load) = SelectRowByName(shown, load.select)
  BY DEF Listed, shown, listed, bare, moved
<1> QED
  BY <1>8, <1>9

LEMMA ClickedFollows ==
  ASSUME NEW t, Rowed(t), NEW d \in DisplayRows(t),
         NEW modifier \in {"none", "shift", "control"}
  PROVE  Quiets(t, Clicked(t, d, modifier))
<1> DEFINE s == ClearSearch(t)
           moved == MoveCursorTo(s, d)
           bare == [moved EXCEPT !.selected = {}]
<1>0. Len(Order(t)) \in Nat
  BY OrderFacts DEF Rowed
<1>1. d \in Nat /\ d >= 1 /\ d <= Len(Order(t)) + Offset(t)
  BY <1>0 DEF DisplayRows, Offset
<1>2. /\ Rowed(s) /\ s.search = NoSearch /\ s.hasParent = t.hasParent
      /\ Len(Order(t)) <= Len(Order(s))
  BY ClearSearchFollows
<1> HIDE DEF s
<1>3. Follows(s, moved)
  BY <1>1, <1>2, MoveCursorToFollows
<1>4. ASSUME ~ (s.hasParent /\ d = 1)
      PROVE  Follows(s, ExtendTo(s, d - Offset(s)))
  <2>1. Len(Order(s)) \in Nat
    BY <1>2, OrderFacts DEF Rowed
  <2>2. d - Offset(s) \in 1..Len(Order(s))
    BY <1>0, <1>1, <1>2, <1>4, <2>1 DEF Offset
  <2> QED
    BY <1>2, <2>2, ExtendToFollows
<1> HIDE DEF moved
<1>5. Follows(s, ToggleCursor(moved))
  BY <1>3, ToggleCursorFollows DEF Follows
<1>6. Follows(s, bare)
  BY <1>3, SelectedFollows DEF Follows
<1> HIDE DEF bare
<1>7. Follows(s, ToggleCursor(bare))
  BY <1>6, ToggleCursorFollows DEF Follows
<1>8. \/ Clicked(t, d, modifier) = moved
      \/ ~ (s.hasParent /\ d = 1) /\ Clicked(t, d, modifier) = ExtendTo(s, d - Offset(s))
      \/ Clicked(t, d, modifier) = ToggleCursor(moved)
      \/ Clicked(t, d, modifier) = ToggleCursor(bare)
  BY Zenon DEF Clicked, s, moved, bare
<1> QED
  BY <1>2, <1>3, <1>4, <1>5, <1>7, <1>8 DEF Follows, Quiets

-----------------------------------------------------------------------------
(* The find session and its timers: every keystroke spends one of keys, so *)
(* a generation has a timer of its own for as long as it is the session's. *)
SearchState == [mode : {"off", "Jump", "Filter"}, query : Int, gen : Nat]

Timed ==
  /\ keys \in Nat /\ timers \in [0..MaxKeys -> Nat]
  /\ table.search \in SearchState
  /\ table.search.gen + keys <= MaxKeys
  /\ JumpIsTimed

Tracked == Rowed(table) /\ Timed

LEMMA TrackedStarts == Init => Tracked
<1> SUFFICES ASSUME Init PROVE Tracked
  OBVIOUS
<1>1. table = Fresh /\ keys = MaxKeys /\ timers = [g \in 0..MaxKeys |-> 0]
  BY DEF Init
<1>2. MaxKeys \in Nat
  BY FileTableAssumption DEF FileTableAssumption
<1>3. /\ IsTable(table) /\ table.names = << >> /\ table.ascending = TRUE
      /\ table.filter = NoFilter /\ table.cursor = "none" /\ table.row = 0
      /\ table.anchor = 0 /\ table.search = NoSearch
  BY <1>1 DEF Fresh, IsTable, Fields
<1>4. Rowed(table)
  <2>1. Listing(table)
    BY <1>3, EmptySeq DEF Listing, Once
  <2>2. RowOf(table, "none") = 0
    BY <2>1, RowOfFacts
  <2> QED
    BY <1>3, <2>1, <2>2 DEF Rowed, Anchored
<1>5. Timed
  BY <1>1, <1>2, <1>3 DEF Timed, NoSearch, SearchState, JumpIsTimed
<1> QED
  BY <1>4, <1>5 DEF Tracked

LEMMA QuietTracked ==
  ASSUME Tracked, Quiets(table, table'), UNCHANGED <<timers, keys>>
  PROVE  Tracked'
<1>1. MaxKeys \in Nat
  BY FileTableAssumption DEF FileTableAssumption
<1>2. CASE table'.search = table.search
  BY <1>2 DEF Tracked, Timed, JumpIsTimed, Quiets
<1>3. CASE table'.search = NoSearch
  BY <1>1, <1>3 DEF Tracked, Timed, JumpIsTimed, Quiets, NoSearch, SearchState
<1> QED
  BY <1>2, <1>3 DEF Quiets

LEMMA ReloadTracked ==
  ASSUME Tracked, NEW dir, NEW select, Reload(dir, select)
  PROVE  Tracked'
<1> DEFINE s == ClearSearch(table)
<1>1. Rowed(s) /\ s.search = NoSearch
  BY ClearSearchFollows DEF Tracked
<1>2. table' = [s EXCEPT !.gen = table'.gen, !.loading = TRUE] /\ UNCHANGED <<timers, keys>>
  <2>1. table' = [s EXCEPT !.gen = @ + 1, !.loading = TRUE] /\ UNCHANGED <<timers, keys>>
    BY DEF Reload
  <2> HIDE DEF s
  <2> QED
    BY <1>1, <2>1 DEF Rowed, IsTable, Fields
<1> HIDE DEF s
<1>3. /\ IsTable(table') /\ table'.search = s.search
      /\ table'.names = s.names /\ table'.ascending = s.ascending
      /\ table'.filter = s.filter /\ table'.row = s.row
      /\ table'.cursor = s.cursor /\ table'.anchor = s.anchor /\ table'.held = s.held
  BY <1>1, <1>2 DEF Rowed, IsTable, Fields
<1>4. Rowed(table')
  BY <1>1, <1>3, AsideFollows
<1> QED
  BY <1>1, <1>2, <1>3, <1>4, QuietTracked DEF Quiets

LEMMA NavigationsTracked ==
  ASSUME Tracked,
         \/ NavigateToPath \/ NavigateToParent \/ EnterDirectory
         \/ NavigateHistoryBack \/ NavigateHistoryForward \/ RereadCurrentDir \/ SetLocked
  PROVE  Tracked'
<1>1. ASSUME NEW history, NEW dir, NEW select, NavigateTo(history, dir, select)
      PROVE  Tracked'
  <2>1. CASE tab.locked
    <3>1. UNCHANGED <<table, timers, keys>>
      BY <1>1, <2>1 DEF NavigateTo
    <3> QED
      BY <3>1, QuietTracked DEF Quiets, Tracked
  <2>2. CASE ~tab.locked
    BY <1>1, <2>2, ReloadTracked DEF NavigateTo
  <2> QED
    BY <2>1, <2>2
<1>2. ASSUME NEW dir, NEW select, Visit(dir, select)
      PROVE  Tracked'
  BY <1>1, <1>2 DEF Visit
<1>3. CASE NavigateToPath
  BY <1>2, <1>3 DEF NavigateToPath
<1>4. CASE NavigateToParent \/ EnterDirectory
  BY <1>2, <1>4 DEF EnterDirectory, NavigateToParent
<1>5. CASE NavigateHistoryBack \/ NavigateHistoryForward
  BY <1>1, <1>5 DEF NavigateHistoryBack, NavigateHistoryForward
<1>6. CASE RereadCurrentDir
  BY <1>6, ReloadTracked DEF RereadCurrentDir
<1>7. CASE SetLocked
  <2>1. keys \in Nat /\ keys > 0 /\ keys' = keys - 1 /\ UNCHANGED <<table, timers>>
    BY <1>7 DEF SetLocked, Tracked, Timed
  <2>2. MaxKeys \in Nat /\ table.search.gen \in Nat
    BY FileTableAssumption DEF FileTableAssumption, Tracked, Timed, SearchState
  <2>3. keys' \in Nat /\ table.search.gen + keys' <= MaxKeys
    BY <2>1, <2>2 DEF Tracked, Timed
  <2> QED
    BY <2>1, <2>3 DEF Tracked, Timed, JumpIsTimed
<1> QED
  BY <1>3, <1>4, <1>5, <1>6, <1>7

LEMMA ListingsTracked ==
  ASSUME Tracked, LoadDone \/ LoadFails PROVE Tracked'
<1>1. Quiets(table, table)
  BY DEF Quiets, Tracked
<1>2. CASE LoadFails
  BY <1>1, <1>2, QuietTracked DEF LoadFails
<1>3. CASE LoadDone
  <2>1. PICK load \in loads :
          /\ load.dir \in DOMAIN Tree
          /\ table' = IF Applies(load) THEN Listed(table, load) ELSE table
          /\ UNCHANGED <<timers, keys>>
    BY <1>3 DEF LoadDone
  <2>2. Follows(table, Listed(table, load))
    BY <2>1, ListedFollows DEF Tracked
  <2> QED
    BY <1>1, <2>1, <2>2, QuietTracked DEF Follows, Quiets
<1> QED
  BY <1>2, <1>3

LEMMA HandledTracked ==
  ASSUME Tracked, NEW u, Quiets(table, u), Handles(u) PROVE Tracked'
BY QuietTracked DEF Handles

LEMMA PointersTracked ==
  ASSUME Tracked,
         \/ MoveCursor \/ ToggleSelection \/ ToggleSelectionAndAdvance \/ ExtendSelection
         \/ SelectMany \/ DeselectAll \/ InvertSelection \/ PerformSort
         \/ HandleLeftClick \/ PrepareContextMenu
  PROVE  Tracked'
<1>0. Rowed(table) /\ Len(Order(table)) \in Nat
  BY OrderFacts DEF Tracked, Rowed
<1>d. ASSUME NEW d \in DisplayRows(table)
      PROVE  d \in Nat /\ d >= 1
  BY <1>0, <1>d DEF DisplayRows, Offset
<1>1. CASE MoveCursor
  <2>1. PICK d \in DisplayRows(table) : Handles(MoveCursorTo(ClearJump(table), d))
    BY <1>1 DEF MoveCursor
  <2>2. Quiets(table, ClearJump(table))
    BY <1>0, ClearJumpFollows
  <2>3. Follows(ClearJump(table), MoveCursorTo(ClearJump(table), d))
    BY <1>d, <2>2, MoveCursorToFollows DEF Quiets
  <2> QED
    BY <2>1, <2>2, <2>3, HandledTracked DEF Follows, Quiets
<1>2. CASE ToggleSelection
  BY <1>0, <1>2, ToggleCursorFollows, HandledTracked DEF ToggleSelection, Follows, Quiets
<1>3. CASE ToggleSelectionAndAdvance
  <2> DEFINE toggled == ToggleCursor(table)
             d == DisplayRow(table) + 1
  <2>1. Follows(table, toggled)
    BY <1>0, ToggleCursorFollows
  <2>2. d \in Nat /\ d >= 1
    <3>1. table.row \in 0..Len(Order(table))
      BY <1>0, RowOfFacts DEF Rowed
    <3> QED
      BY <1>0, <3>1 DEF DisplayRow, Offset
  <2> HIDE DEF toggled, d
  <2>3. Follows(toggled, MoveCursorTo(toggled, d))
    BY <2>1, <2>2, MoveCursorToFollows DEF Follows
  <2> QED
    BY <1>3, <2>1, <2>3, HandledTracked
       DEF ToggleSelectionAndAdvance, toggled, d, Follows, Quiets
<1>4. CASE ExtendSelection
  BY <1>0, <1>4, ExtendToFollows, HandledTracked DEF ExtendSelection, Follows, Quiets
<1>5. CASE SelectMany \/ DeselectAll \/ InvertSelection
  BY <1>0, <1>5, SelectedFollows, HandledTracked
     DEF SelectMany, DeselectAll, InvertSelection, Follows, Quiets
<1>6. CASE PerformSort
  <2> DEFINE turned == [table EXCEPT !.ascending = ~@]
  <2>1. IsTable(turned) /\ Listing(turned) /\ turned.search = table.search
    BY <1>0 DEF Rowed, IsTable, Fields, Listing
  <2>2. Handles(SyncCursorRow(turned))
    BY <1>6 DEF PerformSort
  <2> HIDE DEF turned
  <2> QED
    BY <2>1, <2>2, SyncCursorRowFollows, HandledTracked DEF Follows, Quiets
<1>7. CASE HandleLeftClick
  BY <1>0, <1>7, ClickedFollows, HandledTracked DEF HandleLeftClick, Click
<1>8. CASE PrepareContextMenu
  <2> DEFINE s == ClearSearch(table)
  <2>1. PICK d \in DisplayRows(table) :
          Handles(IF MouseMode = "Norton" THEN ToggleCursor(MoveCursorTo(s, d))
                  ELSE MoveCursorTo(s, d))
    BY <1>8 DEF PrepareContextMenu
  <2>2. Rowed(s) /\ s.search = NoSearch
    BY <1>0, ClearSearchFollows
  <2> HIDE DEF s
  <2>3. Follows(s, MoveCursorTo(s, d))
    BY <1>d, <2>2, MoveCursorToFollows
  <2>4. Follows(s, ToggleCursor(MoveCursorTo(s, d)))
    BY <2>3, ToggleCursorFollows DEF Follows
  <2> QED
    BY <2>1, <2>2, <2>3, <2>4, HandledTracked DEF Follows, Quiets
<1> QED
  BY <1>1, <1>2, <1>3, <1>4, <1>5, <1>6, <1>7, <1>8

(* A keystroke's own timer is there when its search is.                    *)
LEMMA KeyedTracked ==
  ASSUME Tracked, NEW s \in SearchState, s.gen <= table.search.gen + 1,
         Keyed([table EXCEPT !.search = s])
  PROVE  Tracked'
<1> DEFINE t == [table EXCEPT !.search = s]
<1>1. Rowed(t) /\ t.search = s
  <2>1. /\ IsTable(t) /\ t.search = s
        /\ t.names = table.names /\ t.ascending = table.ascending
        /\ t.filter = table.filter /\ t.row = table.row
        /\ t.cursor = table.cursor /\ t.anchor = table.anchor /\ t.held = table.held
    BY DEF Tracked, Rowed, IsTable, Fields
  <2> HIDE DEF t
  <2> QED
    BY <2>1, AsideFollows DEF Tracked
<1>2. /\ table' \in Searched(t) /\ keys > 0 /\ keys' = keys - 1
      /\ timers' = [timers EXCEPT ![t.search.gen] = @ + 1]
  BY DEF Keyed
<1> HIDE DEF t
<1>3. Rowed(table') /\ table'.search = s
  BY <1>1, <1>2, SearchedFollows DEF Follows
<1>4. MaxKeys \in Nat /\ table.search.gen \in Nat /\ s.gen \in Nat /\ keys \in Nat
  BY FileTableAssumption DEF FileTableAssumption, Tracked, Timed, SearchState
<1>5. keys' \in Nat /\ s.gen + keys' <= MaxKeys /\ s.gen \in 0..MaxKeys
  BY <1>2, <1>4 DEF Tracked, Timed
<1>6. timers' \in [0..MaxKeys -> Nat] /\ timers'[s.gen] > 0
  BY <1>1, <1>2, <1>5 DEF Tracked, Timed
<1> QED
  BY <1>3, <1>5, <1>6 DEF Tracked, Timed, JumpIsTimed

LEMMA NextSearch ==
  ASSUME NEW s \in SearchState, NEW q \in Int, NEW m \in {"off", "Jump", "Filter"}
  PROVE  LET shorter == [s EXCEPT !.query = q]
         IN /\ [s EXCEPT !.query = q, !.gen = s.gen + 1] \in SearchState
            /\ [s EXCEPT !.query = q, !.gen = s.gen + 1].gen = s.gen + 1
            /\ [shorter EXCEPT !.gen = s.gen + 1] = [s EXCEPT !.query = q, !.gen = s.gen + 1]
            /\ [s EXCEPT !.mode = m, !.gen = s.gen + 1] \in SearchState
            /\ [s EXCEPT !.mode = m, !.gen = s.gen + 1].gen = s.gen + 1
<1> DEFINE g == s.gen + 1
<1>1. g \in Nat
  BY DEF SearchState
<1> HIDE DEF g
<1>2. /\ [s EXCEPT !.query = q, !.gen = g] \in SearchState
      /\ [s EXCEPT !.query = q, !.gen = g].gen = g
      /\ [[s EXCEPT !.query = q] EXCEPT !.gen = g] = [s EXCEPT !.query = q, !.gen = g]
  BY <1>1 DEF SearchState
<1>3. /\ [s EXCEPT !.mode = m, !.gen = g] \in SearchState
      /\ [s EXCEPT !.mode = m, !.gen = g].gen = g
  BY <1>1 DEF SearchState
<1> QED
  BY <1>2, <1>3 DEF g

LEMMA SearchesTracked ==
  ASSUME Tracked,
         \/ PushQuickSearchChar \/ HandleBackspace \/ ToggleQuickFilter \/ ExitQuickSearch
         \/ TimerFires
  PROVE  Tracked'
<1> DEFINE search == table.search
<1>0. /\ Rowed(table) /\ search \in SearchState
      /\ search.mode \in {"off", "Jump", "Filter"} /\ search.query \in Int
      /\ search.gen \in Nat
  BY DEF Tracked, Timed, SearchState
<1>n. MaxKeys \in Nat /\ keys \in Nat /\ search.gen + keys <= MaxKeys
  BY FileTableAssumption DEF FileTableAssumption, Tracked, Timed
<1>1. CASE PushQuickSearchChar
  <2> DEFINE session == Session(table)
             next == [session EXCEPT !.query = @ + 1, !.gen = @ + 1]
  <2>1. Keyed([table EXCEPT !.search = next])
    BY <1>1 DEF PushQuickSearchChar
  <2>2. session \in SearchState /\ session.gen <= search.gen
    BY <1>0, FileTableAssumption DEF FileTableAssumption, Session, NoSearch, SearchState
  <2>3. session.query + 1 \in Int /\ session.gen \in Nat
    BY <2>2 DEF SearchState
  <2> HIDE DEF session
  <2>4. next \in SearchState /\ next.gen = session.gen + 1
    BY <2>2, <2>3, NextSearch
  <2>5. next.gen <= search.gen + 1
    <3> HIDE DEF next, search
    <3> QED
      BY <1>0, <2>2, <2>3, <2>4
  <2> HIDE DEF next
  <2> QED
    BY <2>1, <2>4, <2>5, KeyedTracked DEF next
<1>2. CASE HandleBackspace
  <2>1. CASE NavigateToParent
    BY <2>1, NavigationsTracked
  <2>2. CASE Handles(ClearSearch(table))
    BY <1>0, <2>2, ClearSearchFollows, HandledTracked DEF Quiets
  <2>3. CASE Keyed([table EXCEPT !.search.query = @ - 1, !.search.gen = @ + 1])
    <3> DEFINE shorter == [search EXCEPT !.query = search.query - 1]
               first == [table EXCEPT !.search = shorter]
               after == [shorter EXCEPT !.gen = search.gen + 1]
    <3>1. [table EXCEPT !.search.query = @ - 1, !.search.gen = @ + 1]
            = [first EXCEPT !.search.gen = search.gen + 1]
      OBVIOUS
    <3>2. first.search = shorter
      BY <1>0 DEF Rowed, IsTable, Fields
    <3>3. [first EXCEPT !.search.gen = search.gen + 1] = [table EXCEPT !.search = after]
      BY <1>0, <3>2 DEF Rowed, IsTable, Fields
    <3>4. Keyed([table EXCEPT !.search = after])
      BY <2>3, <3>1, <3>3
    <3>5. after \in SearchState /\ after.gen <= search.gen + 1
      <4>1. search.query - 1 \in Int
        BY <1>0
      <4>2. after \in SearchState /\ after.gen = search.gen + 1
        <5> HIDE DEF search
        <5> QED
          BY <1>0, <4>1, NextSearch
      <4> HIDE DEF after
      <4> QED
        BY <1>0, <4>2
    <3> HIDE DEF after
    <3> QED
      BY <3>4, <3>5, KeyedTracked
  <2> QED
    BY <1>2, <2>1, <2>2, <2>3 DEF HandleBackspace
<1>3. CASE ToggleQuickFilter
  <2>1. Toggled(search) \in SearchState /\ Toggled(search).gen <= search.gen + 1
    <3>1. CASE search.mode = "off"
      <4>1. Toggled(search) = [mode |-> "Filter", query |-> 0, gen |-> 0]
        BY <3>1 DEF Toggled, NoSearch
      <4> HIDE DEF search
      <4> QED
        BY <1>0, <4>1 DEF SearchState
    <3>2. CASE search.mode # "off"
      <4> DEFINE mode == IF search.mode = "Jump" THEN "Filter" ELSE "Jump"
      <4>1. Toggled(search) = [search EXCEPT !.mode = mode, !.gen = @ + 1]
        BY <3>2 DEF Toggled
      <4>2. mode \in {"off", "Jump", "Filter"}
        OBVIOUS
      <4>3. Toggled(search) \in SearchState /\ Toggled(search).gen = search.gen + 1
        <5> HIDE DEF search, mode
        <5>1. /\ [search EXCEPT !.mode = mode, !.gen = search.gen + 1] \in SearchState
              /\ [search EXCEPT !.mode = mode, !.gen = search.gen + 1].gen = search.gen + 1
          BY <1>0, <4>2, 0 \in Int, NextSearch
        <5> QED
          BY <4>1, <5>1
      <4> QED
        BY <1>0, <4>3
    <3> QED
      BY <3>1, <3>2
  <2>2. Keyed([table EXCEPT !.search = Toggled(search)])
    BY <1>3 DEF ToggleQuickFilter
  <2> QED
    BY <2>1, <2>2, KeyedTracked
<1>4. CASE ExitQuickSearch
  BY <1>0, <1>4, ClearSearchFollows, HandledTracked DEF ExitQuickSearch, Quiets
<1>5. CASE TimerFires
  <2>1. PICK g \in 0..MaxKeys :
          /\ timers[g] > 0 /\ timers' = [timers EXCEPT ![g] = @ - 1]
          /\ table' = IF search.gen = g THEN ClearJump(table) ELSE table
          /\ keys' = keys
    BY <1>5 DEF TimerFires
  <2>2. Quiets(table, table')
    BY <1>0, <2>1, ClearJumpFollows DEF Quiets
  <2>3. timers' \in [0..MaxKeys -> Nat] /\ \A h \in 0..MaxKeys : h # g => timers'[h] = timers[h]
    BY <2>1 DEF Tracked, Timed
  <2>4. JumpIsTimed'
    <3>1. CASE search.gen = g
      BY <1>0, <2>1, <3>1, ClearJumpFollows DEF JumpIsTimed
    <3>2. CASE search.gen # g
      <4>1. search.gen \in 0..MaxKeys
        BY <1>0, <1>n DEF Tracked, Timed
      <4> QED
        BY <2>1, <2>3, <3>2, <4>1 DEF Tracked, Timed, JumpIsTimed
    <3> QED
      BY <3>1, <3>2
  <2>5. table'.search \in SearchState /\ table'.search.gen + keys' <= MaxKeys
    <3>1. CASE table'.search = search
      BY <1>0, <2>1, <3>1 DEF Tracked, Timed
    <3>2. CASE table'.search = NoSearch
      BY <1>0, <1>n, <2>1, <3>2 DEF NoSearch, SearchState, Tracked, Timed
    <3> QED
      BY <2>2, <3>1, <3>2 DEF Quiets
  <2> QED
    BY <2>1, <2>2, <2>3, <2>4, <2>5 DEF Tracked, Timed, Quiets
<1> QED
  BY <1>1, <1>2, <1>3, <1>4, <1>5

LEMMA TrackedStep == Tracked /\ [Next]_vars => Tracked'
<1> SUFFICES ASSUME Tracked, [Next]_vars PROVE Tracked'
  OBVIOUS
<1>1. CASE UNCHANGED vars
  BY <1>1 DEF vars, Tracked, Timed, JumpIsTimed
<1>2. CASE Next
  BY <1>2, NavigationsTracked, ListingsTracked, PointersTracked, SearchesTracked DEF Next
<1> QED
  BY <1>1, <1>2

(* The row painted as the cursor is that of the entry the model calls its  *)
(* cursor, through every sort, filter, listing, click and search, for any  *)
(* tree: what set_cursor_row says must never disagree.                     *)
THEOREM CursorIsInLockstep == Spec => []CursorLockstep
<1>1. Tracked => CursorLockstep
  BY DEF Tracked, Rowed, CursorLockstep
<1> QED
  BY <1>1, TrackedStarts, TrackedStep, PTL DEF Spec

(* While a range is being extended, its anchor stays on the entry it was   *)
(* put on.                                                                 *)
THEOREM AnchorIsKept == Spec => []AnchorKeepsEntry
<1>1. Tracked => AnchorKeepsEntry
  BY DEF Tracked, Rowed, Anchored, AnchorKeepsEntry
<1> QED
  BY <1>1, TrackedStarts, TrackedStep, PTL DEF Spec

(* A find session has a timer of its generation in flight, however its     *)
(* mode was switched and whichever earlier timers fired.                   *)
THEOREM FindSessionEnds == Spec => []JumpIsTimed
<1>1. Tracked => JumpIsTimed
  BY DEF Tracked, Timed
<1> QED
  BY <1>1, TrackedStarts, TrackedStep, PTL DEF Spec

===============================================================================
