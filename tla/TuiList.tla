------------------------------- MODULE TuiList -------------------------------
(***************************************************************************)
(* The table of units of the terminal user interface (internal/tui/app.go)  *)
(* and its query language (internal/tui/query): which rows are shown, in    *)
(* which order, which of them are on the screen and where the cursor is,    *)
(* while the user moves, filters and sorts, builds change what rows say,    *)
(* and Setup reloads the project.                                           *)
(*                                                                          *)
(* Unit names are numbers, so that they have an order.  The cursor and the  *)
(* rows are positions in the list of units; the list starts at 1 here.      *)
(***************************************************************************)
EXTENDS Naturals, Integers, Sequences, FiniteSets, SequencesExt

CONSTANTS
    UnitNames,      \* the names of units
    Class,          \* name -> its class, a number
    ImageClass,
    Deps,           \* name -> the names it pulls in
    Projects,       \* machine or distro -> the units its project has
    Image,          \* machine or distro -> the default image, or NoImage
    NoImage,
    Queries,        \* what can be typed; see Query
    Sizes,          \* of what is built
    Heights,        \* heights of the terminal, less the fixed lines
    MinRows,        \* the least number of rows (3 in the code)
    MaxListEvents   \* a bound on builds, reloads, banners and changes of the terminal

RowStatus == {"none", "cached", "building", "pending"}     \* failed is to the rows what pending is
Columns == <<"name", "size">>     \* of seven; the others compare like one of these

(* A query: per field the values that are allowed (none: any), and the bare *)
(* words, each as the names that contain it.                                *)
Query == [type : SUBSET Range(Class), status : SUBSET (RowStatus \ {"none"}),
          in : SUBSET UnitNames, words : SUBSET SUBSET UnitNames]
EmptyQuery == [type |-> {}, status |-> {}, in |-> {}, words |-> {}]

ASSUME ListAssumption ==
    /\ IsFiniteSet(UnitNames) /\ UnitNames \subseteq Nat
    /\ Class \in [UnitNames -> Nat] /\ Deps \in [UnitNames -> SUBSET UnitNames]
    /\ \A p \in DOMAIN Projects : Projects[p] \subseteq UnitNames
    /\ Image \in [DOMAIN Projects -> UnitNames \union {NoImage}]
    /\ Queries \subseteq Query /\ EmptyQuery \in Queries
    /\ Sizes \subseteq Nat /\ Heights \subseteq Nat /\ Heights # {} /\ MinRows \in Nat \ {0} /\ MaxListEvents \in Nat

VARIABLES
    proj,           \* the project loaded last
    units,          \* m.units; of an earlier project when its graph could not be built
    visible,        \* m.visible, the rows: positions in units
    cursor,         \* m.cursor, a position in units
    listOffset,     \* the rows above the screen
    sorting,        \* [col, desc]
    query,          \* the active query
    saved,          \* savedQuery
    picked,         \* the image picked in Setup, which local.star keeps, or NoImage
    bar,            \* the query bar: [on, revert, comp]
    statuses,       \* name -> what its row says
    unitSize,       \* name -> installed size, 0 when not built
    height,
    banner,         \* a line above the table: a notification or the progress bar
    listEvents

listVars == <<proj, units, visible, cursor, listOffset, sorting, query, saved, picked, bar,
              statuses, unitSize, height, banner, listEvents>>
project == <<proj, units>>
rows == <<visible, cursor, listOffset>>
filter == <<sorting, query, saved, picked, bar>>
reported == <<statuses, unitSize>>
terminal == <<height, banner>>

allUnits(p) == SetToSortSeq(Projects[p], <)
Positions(us) == 1..Len(us)
ShutBar == [on |-> FALSE, revert |-> EmptyQuery, comp |-> FALSE]

-----------------------------------------------------------------------------
(* The query language *)

(* The units that `in:` reaches from a root, which it includes; none when   *)
(* the root is not in the project.                                          *)
BuildInClosure(p, root) ==
    LET reach[k \in 0..Cardinality(UnitNames)] ==
            IF k = 0 THEN {root} \cap Projects[p]
            ELSE reach[k - 1] \union ((UNION {Deps[u] : u \in reach[k - 1]}) \cap Projects[p])
    IN  reach[Cardinality(UnitNames)]

(* Fields are and-ed, the values of a field or-ed; two roots match nothing. *)
Matches(q, n, st, inSet) ==
    /\ \A w \in q.words : n \in w
    /\ q.type # {} => Class[n] \in q.type
    /\ q.status # {} => st[n] \in q.status
    /\ q.in # {} => n \in inSet

InSet(p, q) == UNION {BuildInClosure(p, r) : r \in {x \in q.in : q.in = {x}}}
FiltersStatus(q) == q.status # {}

-----------------------------------------------------------------------------
(* Rows *)

SortKey(col, n, sz) ==
    IF col = "size" THEN sz[n] ELSE n

(* The comparison of sortVisible: a unit without a size comes last in both  *)
(* directions, equal keys are ordered by name.                              *)
Before(so, us, sz, i, j) ==
    LET a == SortKey(so.col, us[i], sz)
        b == SortKey(so.col, us[j], sz)
        less == a < b \/ (a = b /\ us[i] < us[j])
        more == a > b \/ (a = b /\ us[i] > us[j])
    IN  CASE so.col = "size" /\ a = 0 /\ b # 0 -> FALSE
          [] so.col = "size" /\ b = 0 /\ a # 0 -> TRUE
          [] OTHER -> IF so.desc THEN more ELSE less

\* Mutant: the rows stay in the order of the list of units.
Unsorted(set, so, us, sz) == SetToSortSeq(set, <)

sortVisible(set, so, us, sz) ==
    SetToSortSeq(set, LAMBDA i, j : Before(so, us, sz, i, j))

Shown(p, us, q, so, st, sz) ==
    sortVisible({i \in Positions(us) : Matches(q, us[i], st, InSet(p, q))}, so, us, sz)

\* Mutant: the cursor stays where it was when its row disappears.
CursorStays(c, vis) == c

(* The cursor stays on its unit if that is still shown, else goes to the    *)
(* first row; without rows it stays.                                        *)
KeepCursor(c, vis) == IF c \in Range(vis) \/ vis = <<>> THEN c ELSE vis[1]

listViewportHeight(h, b, comp) ==
    Max({MinRows, h - (IF b THEN 1 ELSE 0) - (IF comp THEN 1 ELSE 0)})
Rows == listViewportHeight(height, banner, bar.comp)

PosOf(c, vis) == CHOOSE k \in DOMAIN vis : vis[k] = c

\* Mutant: the screen may be scrolled one row short of the cursor.
AdjustShort(off, c, vis, n) ==
    IF c \notin Range(vis) THEN off
    ELSE LET k == PosOf(c, vis) - 1
             up == IF k < off THEN k ELSE off
             down == IF k > up + n THEN k - n + 1 ELSE up
         IN  Max({0, Min({down, Len(vis) - n})})

(* The screen follows the cursor and does not end beyond the last row.      *)
adjustListOffset(off, c, vis, n) ==
    IF c \notin Range(vis) THEN off
    ELSE LET k == PosOf(c, vis) - 1
             up == IF k < off THEN k ELSE off
             down == IF k >= up + n THEN k - n + 1 ELSE up
         IN  Max({0, Min({down, Len(vis) - n})})

(* refreshVisible leaves the offset alone; applyQuery starts at the top and *)
(* scrolls to the cursor.                                                   *)
refreshVisible(p, us, q, so, st, sz, c) ==
    LET vis == Shown(p, us, q, so, st, sz)
    IN  [vis |-> vis, cur |-> KeepCursor(c, vis)]

applyQuery(p, us, q, so, st, sz, c, n) ==
    LET r == refreshVisible(p, us, q, so, st, sz, c)
    IN  [vis |-> r.vis, cur |-> r.cur, off |-> adjustListOffset(0, r.cur, r.vis, n)]

(* scrollUnitIntoView, unless the unit has no row.                          *)
Focus(r, us, name, n) ==
    LET hits == {i \in Range(r.vis) : us[i] = name}
    IN  IF hits = {} THEN r
        ELSE LET i == CHOOSE x \in hits : TRUE
             IN  [r EXCEPT !.cur = i, !.off = adjustListOffset(@, i, r.vis, n)]

Now == [vis |-> visible, cur |-> cursor, off |-> listOffset]
SetRows(r) == visible' = r.vis /\ cursor' = r.cur /\ listOffset' = r.off

ListInit ==
    /\ proj \in DOMAIN Projects
    /\ units = allUnits(proj)
    /\ query = EmptyQuery /\ saved = EmptyQuery /\ picked = NoImage /\ bar = ShutBar
    /\ sorting = [col |-> "name", desc |-> FALSE]
    /\ statuses = [n \in UnitNames |-> "none"] /\ unitSize = [n \in UnitNames |-> 0]
    /\ height \in Heights /\ banner = FALSE /\ listEvents = 0
    /\ LET r == Focus(applyQuery(proj, units, query, sorting, statuses, unitSize, 1, Rows),
                      units, Image[proj], Rows)
       IN  visible = r.vis /\ cursor = r.cur /\ listOffset = r.off

-----------------------------------------------------------------------------
(* Keys of the table *)

OnTable == ~bar.on
MoveTo(c) ==
    /\ cursor' = c
    /\ listOffset' = adjustListOffset(listOffset, c, visible, Rows)
    /\ UNCHANGED <<project, visible, filter, reported, terminal, listEvents>>

(* Up and down, a page up and down: k rows from the cursor, as far as there *)
(* are rows.                                                                *)
Step(k) ==
    LET here == IF cursor \in Range(visible) THEN PosOf(cursor, visible) ELSE 1
    IN  /\ OnTable /\ visible # <<>>
        /\ MoveTo(visible[Max({1, Min({here + k, Len(visible)})})])

KeyTop == OnTable /\ visible # <<>> /\ MoveTo(visible[1])
KeyBottom == OnTable /\ visible # <<>> /\ MoveTo(visible[Len(visible)])

(* `o` goes to the next column, `O` turns the order; the cursor goes to the *)
(* first row.                                                               *)
applySortReset(so) ==
    LET r == applyQuery(proj, units, query, so, statuses, unitSize, cursor, Rows)
        c == IF r.vis # <<>> THEN r.vis[1] ELSE r.cur
    IN  /\ sorting' = so
        /\ SetRows([r EXCEPT !.cur = c, !.off = adjustListOffset(0, c, r.vis, Rows)])

NextColumn(col) == LET i == CHOOSE k \in DOMAIN Columns : Columns[k] = col
                   IN  Columns[(i % Len(Columns)) + 1]

KeySort ==
    /\ OnTable
    /\ LET next == NextColumn(sorting.col)
       IN  applySortReset([col |-> next, desc |-> next = "size"])
    /\ UNCHANGED <<project, query, saved, picked, bar, reported, terminal, listEvents>>

KeyReverse ==
    /\ OnTable
    /\ applySortReset([sorting EXCEPT !.desc = ~@])
    /\ UNCHANGED <<project, query, saved, picked, bar, reported, terminal, listEvents>>

-----------------------------------------------------------------------------
(* The query *)

Activate(q, n) ==
    /\ query' = q
    /\ SetRows(applyQuery(proj, units, q, sorting, statuses, unitSize, cursor, n))

(* `/` opens the bar.                                                       *)
KeySearch ==
    /\ OnTable
    /\ bar' = [ShutBar EXCEPT !.on = TRUE, !.revert = query]
    /\ UNCHANGED <<project, rows, sorting, query, saved, picked, reported, terminal, listEvents>>

\* Mutant: the screen stays scrolled while the query is typed.
ReparseKeepsOffset(q) ==
    /\ bar.on
    /\ bar' = [bar EXCEPT !.comp = FALSE]
    /\ query' = q
    /\ SetRows(refreshVisible(proj, units, q, sorting, statuses, unitSize, cursor) @@ Now)
    /\ UNCHANGED <<project, sorting, saved, picked, reported, terminal, listEvents>>

(* A key that leaves a text which parses; it is applied at once.            *)
Reparse(q) ==
    /\ bar.on
    /\ bar' = [bar EXCEPT !.comp = FALSE]
    /\ Activate(q, listViewportHeight(height, banner, FALSE))
    /\ UNCHANGED <<project, sorting, saved, picked, reported, terminal, listEvents>>

(* ... and one that does not: the last good query stays, with its rows.     *)
ReparseFails ==
    /\ bar.on /\ bar.comp
    /\ bar' = [bar EXCEPT !.comp = FALSE]
    /\ UNCHANGED <<project, rows, sorting, query, saved, picked, reported, terminal, listEvents>>

(* Tab that finds several completions lists them under the bar.             *)
KeyComplete ==
    /\ bar.on /\ ~bar.comp
    /\ bar' = [bar EXCEPT !.comp = TRUE]
    /\ UNCHANGED <<project, rows, sorting, query, saved, picked, reported, terminal, listEvents>>

KeyAccept ==
    /\ bar.on
    /\ bar' = ShutBar
    /\ UNCHANGED <<project, rows, sorting, query, saved, picked, reported, terminal, listEvents>>

KeyRevert ==
    /\ bar.on
    /\ bar' = ShutBar
    /\ Activate(bar.revert, listViewportHeight(height, banner, FALSE))
    /\ UNCHANGED <<project, sorting, saved, picked, reported, terminal, listEvents>>

(* `\` goes back to the saved query, `S` saves the active one, if local.star*)
(* can be written.                                                          *)
KeySnapBack ==
    /\ OnTable
    /\ Activate(saved, Rows)
    /\ UNCHANGED <<project, sorting, saved, picked, bar, reported, terminal, listEvents>>

KeySave ==
    /\ OnTable /\ saved # query
    /\ saved' = query
    /\ UNCHANGED <<project, rows, sorting, query, picked, bar, reported, terminal, listEvents>>

-----------------------------------------------------------------------------
(* Setup *)

ListEvent == listEvents < MaxListEvents /\ listEvents' = listEvents + 1    \* a bound

DefaultImage(p) == IF picked \in Projects[p] THEN picked ELSE Image[p]

(* Setup is left: the cursor goes to the target image.                      *)
LeaveSetup ==
    /\ OnTable
    /\ SetRows(Focus(Now, units, DefaultImage(proj), Rows))
    /\ UNCHANGED <<project, filter, reported, terminal, listEvents>>

(* A new image: its closure becomes the query.                              *)
PickImage(n) ==
    /\ OnTable /\ ListEvent /\ n \in Projects[proj] /\ Class[n] = ImageClass
    /\ LET q == [EmptyQuery EXCEPT !.in = {n}]
       IN  /\ query' = q /\ saved' = q /\ picked' = n
           /\ SetRows(Focus(applyQuery(proj, units, q, sorting, statuses, unitSize, cursor, Rows),
                            units, n, Rows))
    /\ UNCHANGED <<project, sorting, bar, reported, terminal>>

(* recomputeStatuses: another machine or distro.  The rows are computed for *)
(* the old statuses first and again as each status is set; then the default *)
(* image gets the cursor.  When the graph cannot be built the old units     *)
(* stay, and when the hashes cannot be computed the old statuses do.        *)
Reload(p, graphOK, fresh) ==
    LET us == IF graphOK THEN allUnits(p) ELSE units
        r == applyQuery(p, us, query, sorting, statuses, unitSize,
                        IF graphOK THEN 1 ELSE cursor, Rows)
        st == [n \in UnitNames |-> IF n \in Range(us) /\ statuses[n] # "building" THEN fresh ELSE statuses[n]]
        q == IF FiltersStatus(query) /\ st # statuses
             THEN refreshVisible(p, us, query, sorting, st, unitSize, r.cur) @@ r ELSE r
    IN  /\ OnTable /\ ListEvent
        /\ proj' = p /\ units' = us /\ statuses' = st
        /\ SetRows(Focus(q, us, DefaultImage(p), Rows))
        /\ UNCHANGED <<filter, unitSize, terminal>>

-----------------------------------------------------------------------------
(* Builds, and the terminal *)

\* Mutant: the rows are left alone when a row's status changes.
StatusOnly(n, s) ==
    /\ statuses' = [statuses EXCEPT ![n] = s]
    /\ UNCHANGED <<visible, cursor, listOffset>>

(* setStatus and clearStatus: the rows are computed again only when the     *)
(* query asks for a status.                                                 *)
setStatus(n, s) ==
    /\ statuses' = [statuses EXCEPT ![n] = s]
    /\ IF FiltersStatus(query) /\ statuses[n] # s
       THEN LET r == refreshVisible(proj, units, query, sorting, [statuses EXCEPT ![n] = s], unitSize, cursor)
            IN  visible' = r.vis /\ cursor' = r.cur /\ UNCHANGED listOffset
       ELSE UNCHANGED <<visible, cursor, listOffset>>

(* An event of a build: waiting, cached, failed; a cleared status.          *)
StatusEvent(n, s) ==
    /\ ListEvent /\ statuses[n] # s /\ s # "building"
    /\ setStatus(n, s)
    /\ UNCHANGED <<project, filter, unitSize, terminal>>

(* A unit starts to build: unless the user pressed a key just now, the      *)
(* cursor follows.                                                          *)
BuildingEvent(n, follow) ==
    /\ ListEvent /\ statuses[n] # "building"
    /\ statuses' = [statuses EXCEPT ![n] = "building"]
    /\ LET st == [statuses EXCEPT ![n] = "building"]
           r == IF FiltersStatus(query)
                THEN refreshVisible(proj, units, query, sorting, st, unitSize, cursor) @@ Now ELSE Now
       IN  SetRows(IF follow THEN Focus(r, units, n, Rows) ELSE r)
    /\ UNCHANGED <<project, filter, unitSize, terminal>>

(* A unit is built, and its size is read.  The rows are not ordered anew.   *)
DoneEvent(n, s) ==
    /\ ListEvent /\ statuses[n] = "building"
    /\ setStatus(n, "cached")
    /\ unitSize' = [unitSize EXCEPT ![n] = s]
    /\ UNCHANGED <<project, filter, terminal>>

(* The build of n has ended well: only now the rows are ordered by the new  *)
(* sizes.  One that fails only sets a status, see StatusEvent.              *)
BuildDone(n) ==
    LET st == [statuses EXCEPT ![n] = "cached"]
        r == IF FiltersStatus(query) /\ statuses # st
             THEN refreshVisible(proj, units, query, sorting, st, unitSize, cursor) @@ Now ELSE Now
    IN  /\ statuses # st => listEvents < MaxListEvents
        /\ listEvents' = IF statuses # st THEN listEvents + 1 ELSE listEvents
        /\ statuses' = st
        /\ SetRows([r EXCEPT !.vis = IF sorting.col = "size"
                                     THEN sortVisible(Range(@), sorting, units, unitSize) ELSE @])
        /\ UNCHANGED <<project, filter, unitSize, terminal>>

Resize(h, b) ==
    /\ ListEvent /\ <<h, b>> # terminal
    /\ height' = h /\ banner' = b
    /\ UNCHANGED <<project, rows, filter, reported>>

KeyMove == Step(1) \/ Step(-1) \/ Step(Rows) \/ Step(-Rows) \/ KeyTop \/ KeyBottom

ListNext ==
    \/ KeyMove \/ KeySort \/ KeyReverse
    \/ KeySearch \/ ReparseFails \/ KeyComplete \/ KeyAccept \/ KeyRevert \/ KeySnapBack \/ KeySave
    \/ LeaveSetup
    \/ \E q \in Queries : Reparse(q)
    \/ \E n \in UnitNames :
         \/ PickImage(n) \/ BuildDone(n)
         \/ \E s \in RowStatus : StatusEvent(n, s)
         \/ \E f \in BOOLEAN : BuildingEvent(n, f)
         \/ \E s \in Sizes : DoneEvent(n, s)
    \/ \E p \in DOMAIN Projects, ok \in BOOLEAN, s \in {"none", "cached"} : Reload(p, ok, s)
    \/ \E h \in Heights, b \in BOOLEAN : Resize(h, b)

ListSpec == ListInit /\ [][ListNext]_listVars

-----------------------------------------------------------------------------
(* Properties *)

ListTypeOK ==
    /\ proj \in DOMAIN Projects /\ Range(units) \subseteq UnitNames
    /\ Range(visible) \subseteq Positions(units) /\ cursor \in Nat /\ listOffset \in Nat
    /\ sorting \in [col : Range(Columns), desc : BOOLEAN]
    /\ query \in Query /\ saved \in Query /\ picked \in UnitNames \union {NoImage}
    /\ bar.on \in BOOLEAN /\ bar.revert \in Query /\ bar.comp \in BOOLEAN
    /\ statuses \in [UnitNames -> RowStatus] /\ unitSize \in [UnitNames -> Sizes \union {0}]
    /\ height \in Heights /\ banner \in BOOLEAN
    /\ listEvents \in 0..MaxListEvents

(* The rows are exactly the units the query matches now, each once, however *)
(* builds, reloads and keys interleave, although they are recomputed only   *)
(* when a change is believed to matter.                                     *)
RowsMatchQuery ==
    /\ \A i \in Positions(units) :
          i \in Range(visible) <=> Matches(query, units[i], statuses, InSet(proj, query))
    /\ Len(visible) = Cardinality(Range(visible))

(* While there are rows the cursor is on one of them, so that a key never   *)
(* acts on a unit that is not shown.                                        *)
CursorOnRow == visible # <<>> => cursor \in Range(visible)

(* The rows are in the order the header claims, as long as what they are    *)
(* ordered by is not what builds change.                                    *)
RowsInOrder ==
    sorting.col = "name" =>
        \A k \in 1..(Len(visible) - 1) :
            Before(sorting, units, unitSize, visible[k], visible[k + 1])

(* A key that moves the cursor or the screen leaves the cursor on it,       *)
(* whatever size the terminal has got, and the screen does not end beyond   *)
(* the last row.                                                            *)
CursorOnScreen ==
    [][(/\ UNCHANGED <<visible, filter, listEvents>> /\ visible # <<>>
        /\ <<cursor, listOffset>>' # <<cursor, listOffset>>) =>
         /\ listOffset' <= PosOf(cursor', visible') - 1 /\ PosOf(cursor', visible') <= listOffset' + Rows
         /\ listOffset' = 0 \/ listOffset' + Rows <= Len(visible')]_listVars

(* The table can be drawn: its first row on the screen exists.  (A query    *)
(* for a status is left out; see DrawableAlways.)                           *)
Drawable == ~FiltersStatus(query) => listOffset <= Len(visible)

(* Drawing slices the rows from the offset on, so the offset must not be    *)
(* beyond them, also while a build changes which rows a status query has.   *)
DrawableAlways == listOffset <= Len(visible)

(* The table shows the rows the query asks for, in the order chosen, with   *)
(* the cursor on one of them and on the screen, and can be drawn.           *)
TableSound ==
    /\ [](ListTypeOK /\ RowsMatchQuery /\ CursorOnRow /\ RowsInOrder /\ Drawable)
    /\ CursorOnScreen

=============================================================================
