------------------------------- MODULE FileTable -------------------------------
(***************************************************************************)
(* One tab of a panel (crates/duet-ui/src/file_table.rs): the directory it *)
(* is at, the listings on their way to it, the rows it shows, and the      *)
(* cursor, the selection and the quick search that refer to those rows.    *)
(* Every handler runs on the one UI thread; what interleaves is the end of *)
(* the background loads and of the quick search's idle timers.             *)
(*                                                                         *)
(* A path is the sequence of its names.  Rows count from 1, a row of 0 is  *)
(* None, and a display row is a row below the synthetic ".." one.          *)
(***************************************************************************)
EXTENDS Integers, FiniteSets, Sequences, SequencesExt, Picked

CONSTANTS
  Tree,         \* [path of a directory -> its names, in ascending order]
  Restored,     \* the [dir, cursor] a session may restore
  Hotlist,      \* the paths navigate_to_path is called with
  Matching,     \* Matching[q + 1]: the names that match q typed characters
  DefaultMode,  \* quick_search_default_mode
  MouseMode,    \* "Windows", "Norton" or "None"
  MayFail,      \* whether the listing of an existing directory may fail
  MaxLoads,     \* bound on the navigations
  MaxKeys       \* bound on the quick search's keystrokes and the lock's toggles

Names == UNION {Range(Tree[d]) : d \in DOMAIN Tree}
MaxQuery == Len(Matching) - 1

ASSUME FileTableAssumption ==
  /\ << >> \in DOMAIN Tree
  /\ \A d \in DOMAIN Tree : Tree[d] \in Seq(Names) /\ IsInjective(Tree[d])
  /\ "none" \notin Names
  /\ Matching[1] = Names
  /\ DefaultMode \in {"Jump", "Filter"}
  /\ MouseMode \in {"Windows", "Norton", "None"}
  /\ MayFail \in BOOLEAN
  /\ {MaxLoads, MaxKeys} \subseteq Nat

VARIABLES
  tab,     \* FileTable's own fields: [dir, back, forward, locked]
  table,   \* the FileTableDelegate and its DirectoryModel; held is history:
           \* the entry the range anchor was put on
  loads,   \* the listings in flight: [gen, dir, select, ascending]
  timers,  \* the idle timers in flight, by the generation they captured
  keys     \* keystrokes left, a bound

vars == <<tab, table, loads, timers, keys>>

NoFilter == -1
NoSearch == [mode |-> "off", query |-> 0, gen |-> 0]

Fresh ==
  [of |-> << >>, names |-> << >>, ascending |-> TRUE, filter |-> NoFilter,
   selected |-> {}, cursor |-> "none", row |-> 0, onParent |-> FALSE,
   hasParent |-> FALSE, anchor |-> 0, held |-> "none", gen |-> 0, loading |-> TRUE,
   search |-> NoSearch]

(* A restored tab: its first load has generation 0.                        *)
Init ==
  \E r \in Restored :
    /\ tab = [dir |-> r.dir, back |-> << >>, forward |-> << >>, locked |-> FALSE]
    /\ table = Fresh
    /\ loads = {[gen |-> 0, dir |-> r.dir, select |-> r.cursor, ascending |-> TRUE]}
    /\ timers = [g \in 0..MaxKeys |-> 0]
    /\ keys = MaxKeys

-----------------------------------------------------------------------------
(* The delegate's methods, as functions from a delegate to the next.       *)

(* model.order(): the sorted names that pass the filter.                   *)
Order(t) ==
  LET sorted == IF t.ascending THEN t.names ELSE Reverse(t.names)
  IN IF t.filter = NoFilter THEN sorted
     ELSE Picked(sorted, {i \in DOMAIN sorted : sorted[i] \in Matching[t.filter + 1]})

RowOf(t, name) ==
  IF name \in Range(Order(t))
  THEN CHOOSE r \in 1..Len(Order(t)) : Order(t)[r] = name ELSE 0

Offset(t) == IF t.hasParent THEN 1 ELSE 0

DisplayRows(t) == 1..(Len(Order(t)) + Offset(t))

SetCursorRow(t, row) ==
  LET r == IF Order(t) = << >> THEN 0 ELSE row
  IN [t EXCEPT !.row = r, !.cursor = IF r = 0 THEN "none" ELSE Order(t)[r]]

EndRange(t) == [t EXCEPT !.anchor = 0, !.held = "none"]

(* Deviation of SyncCursorRow: the anchor outlives the rows it counts.      *)
SyncKeepsAnchor(t) == [t EXCEPT !.row = RowOf(t, t.cursor)]

SyncCursorRow(t) == [EndRange(t) EXCEPT !.row = RowOf(t, t.cursor)]

MoveCursorTo(t, display) ==
  LET count == Len(Order(t)) + Offset(t)
      d == IF display < count THEN display ELSE count
      moved == EndRange(t)
  IN IF count = 0 THEN t
     ELSE IF t.hasParent /\ d = 1 THEN [moved EXCEPT !.onParent = TRUE]
     ELSE SetCursorRow([moved EXCEPT !.onParent = FALSE], d - Offset(t))

SelectRowByName(t, name) ==
  IF RowOf(t, name) = 0 THEN t ELSE MoveCursorTo(t, RowOf(t, name) + Offset(t))

Flip(S, names) == (S \ names) \cup (names \ S)

(* The toggle reads the row, which the ".." row does not disturb.          *)
ToggleCursor(t) ==
  IF t.row = 0 THEN t
  ELSE [t EXCEPT !.selected = Flip(@, {Order(t)[t.row]})]

(* The rows between the anchor and the old row that the new range leaves   *)
(* are deselected, those of the new range selected.                        *)
ExtendTo(t, row) ==
  LET old == IF t.row = 0 THEN row ELSE t.row
      anchor == IF t.anchor = 0 THEN old ELSE t.anchor
      Named(r) == {Order(t)[i] : i \in {i \in 1..Len(Order(t)) :
                     (anchor <= i /\ i <= r) \/ (r <= i /\ i <= anchor)}}
  IN SetCursorRow(
       [t EXCEPT !.anchor = anchor, !.held = IF t.anchor = 0 THEN Order(t)[old] ELSE @,
                  !.selected = (@ \ Named(old)) \cup Named(row)],
       row)

(* Only a session in Filter mode takes its filter away.                    *)
ClearSearch(t) ==
  IF t.search.mode = "Filter"
  THEN SyncCursorRow([t EXCEPT !.search = NoSearch, !.filter = NoFilter])
  ELSE [t EXCEPT !.search = NoSearch]

ClearJump(t) == IF t.search.mode = "Jump" THEN ClearSearch(t) ELSE t

(* Which of the matching rows scores best is left open.                    *)
Jumped(t) ==
  LET matching == {r \in 1..Len(Order(t)) :
                     Order(t)[r] \in Matching[t.search.query + 1]}
  IN IF matching = {} THEN {t}
     ELSE {MoveCursorTo(t, r + Offset(t)) : r \in matching}

Filtered(t) ==
  LET s == SyncCursorRow([t EXCEPT !.filter = t.search.query])
  IN IF s.row = 0 /\ Order(s) # << >>
     THEN SetCursorRow([s EXCEPT !.onParent = FALSE], 1) ELSE s

Searched(t) == IF t.search.mode = "Jump" THEN Jumped(t) ELSE {Filtered(t)}

(* set_model, set_has_parent_row and the cursor of an applied listing.     *)
Listed(t, load) ==
  LET names == Tree[load.dir]
      listed == SetCursorRow(
        [EndRange(t) EXCEPT
           !.of = load.dir, !.names = names, !.ascending = load.ascending,
           !.filter = NoFilter, !.selected = {}, !.onParent = FALSE], 1)
  IN SelectRowByName([listed EXCEPT !.hasParent = load.dir # << >>,
                                    !.loading = FALSE], load.select)

-----------------------------------------------------------------------------
(* navigate_to and reread_current_dir.  What a locked tab does instead is  *)
(* open another tab, outside this one.                                     *)

Reload(dir, select) ==
  /\ table.gen < MaxLoads
  /\ table' = [ClearSearch(table) EXCEPT !.gen = @ + 1, !.loading = TRUE]
  /\ loads' = loads \cup {[gen |-> table.gen + 1, dir |-> dir, select |-> select,
                           ascending |-> table.ascending]}
  /\ UNCHANGED <<timers, keys>>

(* history is the tab with the stacks its caller leaves.                   *)
NavigateTo(history, dir, select) ==
  IF tab.locked
  THEN tab' = history /\ UNCHANGED <<table, loads, timers, keys>>
  ELSE tab' = [history EXCEPT !.dir = dir] /\ Reload(dir, select)

Visit(dir, select) ==
  NavigateTo(IF tab.locked THEN tab
             ELSE [tab EXCEPT !.back = Append(@, tab.dir), !.forward = << >>],
             dir, select)

NavigateToPath == \E dir \in Hotlist : Visit(dir, "none")

NavigateToParent ==
  /\ tab.dir # << >>
  /\ Visit(Front(tab.dir), Last(tab.dir))

(* What the cursor is on is a directory by the listing shown, and its name *)
(* is joined to the directory the tab is at.                               *)
EnterDirectory ==
  IF table.onParent THEN NavigateToParent
  ELSE /\ Append(table.of, table.cursor) \in DOMAIN Tree
       /\ Visit(Append(tab.dir, table.cursor), "none")

NavigateHistoryBack ==
  /\ tab.back # << >>
  /\ NavigateTo([tab EXCEPT !.back = Front(@), !.forward = Append(@, tab.dir)],
                Last(tab.back), "none")

NavigateHistoryForward ==
  /\ tab.forward # << >>
  /\ NavigateTo([tab EXCEPT !.forward = Front(@), !.back = Append(@, tab.dir)],
                Last(tab.forward), "none")

(* A job has finished.                                                     *)
RereadCurrentDir == Reload(tab.dir, "none") /\ UNCHANGED tab

SetLocked ==
  /\ keys > 0
  /\ keys' = keys - 1
  /\ tab' = [tab EXCEPT !.locked = ~@]
  /\ UNCHANGED <<table, loads, timers>>

-----------------------------------------------------------------------------
(* The ends of the background queries.                                     *)

(* Deviation of Applies: whichever listing ends last is shown.             *)
AppliesAlways(load) == TRUE

Applies(load) == load.gen = table.gen

LoadDone ==
  \E load \in loads :
    /\ load.dir \in DOMAIN Tree
    /\ loads' = loads \ {load}
    /\ table' = IF Applies(load) THEN Listed(table, load) ELSE table
    /\ UNCHANGED <<tab, timers, keys>>

(* The directory is gone, or cannot be read: nobody is told.               *)
LoadFails ==
  \E load \in loads :
    /\ MayFail \/ load.dir \notin DOMAIN Tree
    /\ loads' = loads \ {load}
    /\ UNCHANGED <<tab, table, timers, keys>>

-----------------------------------------------------------------------------
(* The cursor, the selection and the sort.                                 *)

Handles(t) == table' = t /\ UNCHANGED <<tab, loads, timers, keys>>

(* By a row, a page or to an edge.                                         *)
MoveCursor == \E d \in DisplayRows(table) : Handles(MoveCursorTo(ClearJump(table), d))

ToggleSelection == Handles(ToggleCursor(table))

DisplayRow(t) == IF t.onParent \/ t.row = 0 THEN 1 ELSE t.row + Offset(t)

ToggleSelectionAndAdvance ==
  Handles(MoveCursorTo(ToggleCursor(table), DisplayRow(table) + 1))

ExtendSelection == \E r \in 1..Len(Order(table)) : Handles(ExtendTo(table, r))

SelectMany ==
  \E names \in {Range(Order(table)), Range(table.names) \cap Matching[2]} :
    Handles([table EXCEPT !.selected = @ \cup (names \cap Range(Order(table)))])

DeselectAll == Handles([table EXCEPT !.selected = {}])

InvertSelection == Handles([table EXCEPT !.selected = Flip(@, Range(Order(table)))])

(* Deviation of PerformSort: the row is not looked up again.                *)
PerformSortOnly == Handles(EndRange([table EXCEPT !.ascending = ~@]))

PerformSort == Handles(SyncCursorRow([table EXCEPT !.ascending = ~@]))

Clicked(t, d, modifier) ==
  LET s == ClearSearch(t)
      moved == MoveCursorTo(s, d)
  IN IF s.hasParent /\ d = 1 THEN moved
     ELSE CASE modifier = "shift" -> ExtendTo(s, d - Offset(s))
            [] modifier = "control" -> ToggleCursor(moved)
            [] OTHER -> IF MouseMode = "Windows"
                        THEN ToggleCursor([moved EXCEPT !.selected = {}]) ELSE moved

Click(d, modifier) == Handles(Clicked(table, d, modifier))

HandleLeftClick ==
  \E d \in DisplayRows(table), modifier \in {"none", "shift", "control"} :
    Click(d, modifier)

PrepareContextMenu ==
  \E d \in DisplayRows(table) :
    /\ d > Offset(table)
    /\ LET moved == MoveCursorTo(ClearSearch(table), d)
       IN Handles(IF MouseMode = "Norton" THEN ToggleCursor(moved) ELSE moved)

-----------------------------------------------------------------------------
(* The quick search.                                                       *)

(* Deviation of Keyed: the timer is left to the session's first keystroke.  *)
KeyedOnce(t) ==
  /\ keys > 0
  /\ keys' = keys - 1
  /\ table' \in Searched(t)
  /\ timers' = IF table.search.mode # "off" THEN timers
               ELSE [timers EXCEPT ![t.search.gen] = @ + 1]
  /\ UNCHANGED <<tab, loads>>

(* A keystroke's search and its idle timer.                                *)
Keyed(t) ==
  /\ keys > 0
  /\ keys' = keys - 1
  /\ table' \in Searched(t)
  /\ timers' = [timers EXCEPT ![t.search.gen] = @ + 1]
  /\ UNCHANGED <<tab, loads>>

Session(t) ==
  IF t.search.mode = "off" THEN [NoSearch EXCEPT !.mode = DefaultMode] ELSE t.search

PushQuickSearchChar ==
  LET session == Session(table)
  IN /\ session.query < MaxQuery
     /\ Keyed([table EXCEPT !.search =
                 [session EXCEPT !.query = @ + 1, !.gen = @ + 1]])

(* An emptied query ends the session; without one Backspace goes up.       *)
HandleBackspace ==
  IF table.search.mode = "off" THEN NavigateToParent
  ELSE IF table.search.query <= 1 THEN Handles(ClearSearch(table))
  ELSE Keyed([table EXCEPT !.search.query = @ - 1, !.search.gen = @ + 1])

Toggled(search) ==
  IF search.mode = "off" THEN [NoSearch EXCEPT !.mode = "Filter"]
  ELSE [search EXCEPT !.mode = IF @ = "Jump" THEN "Filter" ELSE "Jump", !.gen = @ + 1]

ToggleQuickFilter == Keyed([table EXCEPT !.search = Toggled(@)])

(* Escape, or the panel loses the focus.                                   *)
ExitQuickSearch == Handles(ClearSearch(table))

TimerFires ==
  \E g \in 0..MaxKeys :
    /\ timers[g] > 0
    /\ timers' = [timers EXCEPT ![g] = @ - 1]
    /\ table' = IF table.search.gen = g THEN ClearJump(table) ELSE table
    /\ UNCHANGED <<tab, loads, keys>>

-----------------------------------------------------------------------------
Next ==
  \/ NavigateToPath \/ NavigateToParent \/ EnterDirectory
  \/ NavigateHistoryBack \/ NavigateHistoryForward \/ RereadCurrentDir \/ SetLocked
  \/ LoadDone \/ LoadFails
  \/ MoveCursor \/ ToggleSelection \/ ToggleSelectionAndAdvance \/ ExtendSelection
  \/ SelectMany \/ DeselectAll \/ InvertSelection \/ PerformSort
  \/ HandleLeftClick \/ PrepareContextMenu
  \/ PushQuickSearchChar \/ HandleBackspace \/ ToggleQuickFilter \/ ExitQuickSearch
  \/ TimerFires

Spec == Init /\ [][Next]_vars

-----------------------------------------------------------------------------
(* The rows, the cursor and the anchor stay within the listing.            *)
TypeOK ==
  /\ tab.dir \in Seq(Names) /\ tab.locked \in BOOLEAN
  /\ {table.row, table.anchor} \subseteq 0..Len(Order(table))
  /\ table.selected \subseteq Range(table.names)
  /\ table.onParent => table.hasParent
  /\ table.search.mode \in {"off", "Jump", "Filter"}
  /\ table.search.query \in 0..MaxQuery

(* nav_generation: two listings end in any order, and still a table that is *)
(* not marked loading shows the directory its tab is at, with the ".." row  *)
(* that directory has.                                                      *)
ShownIsCurrent ==
  ~table.loading => table.of = tab.dir /\ table.hasParent = (tab.dir # << >>)

(* set_cursor_row, "the two must never disagree": the row painted as the    *)
(* cursor is the row of the entry the model calls its cursor, through every *)
(* sort, filter and listing, and none is painted while that is filtered out.*)
CursorLockstep == table.row = RowOf(table, table.cursor)

(* range_anchor counts rows: while a range is being extended, no sort,      *)
(* filter or listing moves another entry under its anchor.                  *)
AnchorKeepsEntry == table.anchor # 0 => Order(table)[table.anchor] = table.held

(* A find session is never left without the timer that ends it, however its *)
(* mode was switched while the earlier timers fired.                        *)
JumpIsTimed == table.search.mode = "Jump" => timers[table.search.gen] > 0

===============================================================================
