------------------------------ MODULE DetailView ------------------------------
(***************************************************************************)
(* The page of a unit in the terminal user interface (internal/tui/app.go): *)
(* its text, which ends with the two logs of the unit's build and is read   *)
(* again at every tick, how it is scrolled and searched while a build       *)
(* writes the logs, and the tab that lists the files of the unit.           *)
(*                                                                          *)
(* A line is the word a search can find in it; lines and scroll positions   *)
(* count from 0 as in the code, so line k is lines[k + 1].                  *)
(***************************************************************************)
EXTENDS Naturals, Integers, Sequences, FiniteSets, SequencesExt

CONSTANTS
    PageUnits,      \* units whose page is opened
    NoPage,
    Above,          \* unit -> the lines above the logs
    Words,          \* what lines contain, and what is searched for
    FilePaths,      \* paths of installed files, numbers
    FileSize,       \* path -> size
    PaneHeights,    \* heights of the terminal, less the fixed lines
    MinPane,        \* the least height of the text (5 in the code)
    MinFiles,       \* the least number of files (3 in the code)
    MaxWrites,      \* a bound on what builds write
    MaxLog          \* a bound on the length of a log

ASSUME PageAssumption ==
    /\ NoPage \notin PageUnits /\ Above \in [PageUnits -> Seq(Words)]
    /\ IsFiniteSet(FilePaths) /\ FilePaths \subseteq Nat /\ FileSize \in [FilePaths -> Nat]
    /\ PaneHeights \subseteq Nat /\ PaneHeights # {}
    /\ {MinPane, MinFiles} \subseteq Nat \ {0} /\ {MaxWrites, MaxLog} \subseteq Nat

VARIABLES
    logs,           \* unit -> [out : executor.log, log : build.log] on the disk
    installed,      \* unit -> the files in its destdir
    page,           \* detailUnit, NoPage while the table is shown
    tab,            \* detailTab
    lines,          \* outputLines and logLines: what was read last
    detailScroll,
    autoFollow,
    search,         \* [typing, text, matches, idx]; idx counts from 1, 0 when none
    detailFiles,    \* the files listed, in order
    filesScroll,
    filesSort,      \* [size, desc]
    pane,           \* the height of the terminal
    writes,
    sought          \* history: the last key was a search that found a line

pageVars == <<logs, installed, page, tab, lines, detailScroll, autoFollow, search,
              detailFiles, filesScroll, filesSort, pane, writes, sought>>
disk == <<logs, installed, writes>>
files == <<detailFiles, filesScroll, filesSort>>

NoLogs == [out |-> <<>>, log |-> <<>>]
NoSearch == [typing |-> FALSE, text |-> "", matches |-> <<>>, idx |-> 0]
OnInfo == page # NoPage /\ tab = "info" /\ ~search.typing
OnFiles == page # NoPage /\ tab = "files"

detailAllLines(u, ls) == Above[u] \o ls.out \o ls.log

(* A line is taken by the search bar while it is shown.                     *)
detailViewportHeight(s) ==
    Max({MinPane, pane - (IF s.typing \/ (s.text # "" /\ s.matches # <<>>) THEN 1 ELSE 0)})

detailMaxScroll(u, ls, s) ==
    Max({0, Len(detailAllLines(u, ls)) - detailViewportHeight(s)})

detailFilesViewportHeight == Max({MinFiles, pane - 1})
detailFilesMaxScroll == Max({0, Len(detailFiles) - detailFilesViewportHeight})

(* What viewDetail draws: the first line on the screen.                     *)
Start == Max({0, Min({detailScroll,
                      Len(detailAllLines(page, lines)) - detailViewportHeight(search)})})
Drawn == Start..(Start + detailViewportHeight(search) - 1)

PageInit ==
    /\ logs = [u \in PageUnits |-> NoLogs] /\ installed = [u \in PageUnits |-> FilePaths]
    /\ page = NoPage /\ tab = "info" /\ lines = NoLogs
    /\ detailScroll = 0 /\ autoFollow = FALSE /\ search = NoSearch
    /\ detailFiles = <<>> /\ filesScroll = 0 /\ filesSort = [size |-> FALSE, desc |-> FALSE]
    /\ pane \in PaneHeights /\ writes = 0 /\ sought = FALSE

-----------------------------------------------------------------------------
(* Opening, leaving, ticking *)

(* Enter on the table.  An earlier search is not cleared.                   *)
OpenPage(u) ==
    /\ page = NoPage
    /\ page' = u /\ tab' = "info" /\ lines' = logs[u]
    /\ autoFollow' = TRUE /\ detailScroll' = detailMaxScroll(u, logs[u], search)
    /\ detailFiles' = <<>> /\ filesScroll' = 0
    /\ UNCHANGED <<disk, search, filesSort, pane, sought>>

LeavePage ==
    /\ page' = NoPage /\ tab' = "info" /\ lines' = NoLogs /\ detailScroll' = 0
    /\ detailFiles' = <<>> /\ filesScroll' = 0 /\ sought' = FALSE
    /\ UNCHANGED <<disk, autoFollow, search, filesSort, pane>>

(* Esc clears the search first; on the files it does not.                   *)
PageEsc ==
    \/ OnInfo /\ search.text = "" /\ LeavePage
    \/ OnFiles /\ LeavePage
    \/ /\ OnInfo /\ search.text # ""
       /\ search' = NoSearch /\ sought' = FALSE
       /\ UNCHANGED <<disk, page, tab, lines, detailScroll, autoFollow, files, pane>>

(* Tick: refreshDetail, on either tab and while a search is typed.          *)
Tick ==
    /\ page # NoPage /\ lines' = logs[page]
    /\ detailScroll' = IF autoFollow THEN detailMaxScroll(page, logs[page], search) ELSE detailScroll
    /\ UNCHANGED <<disk, page, tab, autoFollow, search, files, pane, sought>>

ResizePane(h) ==
    /\ pane # h /\ pane' = h /\ sought' = FALSE
    /\ UNCHANGED <<disk, page, tab, lines, detailScroll, autoFollow, search, files>>

-----------------------------------------------------------------------------
(* Scrolling *)

Scroll(to, follow) ==
    /\ OnInfo
    /\ detailScroll' = to /\ autoFollow' = follow /\ sought' = FALSE
    /\ UNCHANGED <<disk, page, tab, lines, search, files, pane>>

ScrollUp(k) == Scroll(Max({0, detailScroll - k}), FALSE)

\* Mutant: reaching the end does not start following.
ScrollDownOnly(k) ==
    Scroll(Min({detailScroll + k, detailMaxScroll(page, lines, search)}), FALSE)

(* Down follows again once it is at the end.  One line down does not move   *)
(* back a position that is beyond the end; a page down does.                *)
ScrollDown(k) ==
    LET most == detailMaxScroll(page, lines, search)
        to == IF detailScroll + k <= most THEN detailScroll + k
              ELSE IF k = 1 THEN Max({detailScroll, most}) ELSE most
    IN  Scroll(to, autoFollow \/ to >= most)

PageHeight == detailViewportHeight(search)
ScrollKey ==
    \/ ScrollUp(1) \/ ScrollUp(PageHeight) \/ ScrollDown(1) \/ ScrollDown(PageHeight)
    \/ Scroll(0, FALSE)                                            \* g
    \/ Scroll(detailMaxScroll(page, lines, search), TRUE)          \* G
    \/ Scroll(detailScroll, TRUE)                                  \* b, a build

-----------------------------------------------------------------------------
(* Searching *)

\* Mutant: the page goes on following the log.
SeekAndFollow(s) ==
    LET line == s.matches[s.idx]
        mid == line - detailViewportHeight(s) \div 2
    IN  /\ search' = s /\ sought' = TRUE
        /\ detailScroll' = Min({Max({0, mid}), detailMaxScroll(page, lines, s)})
        /\ UNCHANGED autoFollow

(* scrollToDetailMatch: the line found goes to the middle of the screen.    *)
scrollToDetailMatch(s) ==
    LET line == s.matches[s.idx]
        mid == line - detailViewportHeight(s) \div 2
    IN  /\ search' = s /\ sought' = TRUE
        /\ detailScroll' = Min({Max({0, mid}), detailMaxScroll(page, lines, s)})
        /\ autoFollow' = FALSE

MatchesOf(w, u, ls) ==
    LET all == detailAllLines(u, ls)
    IN  SetToSortSeq({k - 1 : k \in {j \in DOMAIN all : all[j] = w}}, <)

NotFound(s) == search' = s /\ sought' = FALSE /\ UNCHANGED <<detailScroll, autoFollow>>

SearchKey ==
    /\ OnInfo /\ NotFound([NoSearch EXCEPT !.typing = TRUE])
    /\ UNCHANGED <<disk, page, tab, lines, files, pane>>

(* A key of the search, the text is w now: applyDetailSearch.               *)
Typed(w) ==
    LET m == IF w = "" THEN <<>> ELSE MatchesOf(w, page, lines)
        s == [typing |-> TRUE, text |-> w, matches |-> m, idx |-> IF m = <<>> THEN 0 ELSE 1]
    IN  /\ search.typing /\ page # NoPage
        /\ IF m = <<>> THEN NotFound(s) ELSE scrollToDetailMatch(s)
        /\ UNCHANGED <<disk, page, tab, lines, files, pane>>

(* Enter keeps the matches for n and N, Esc drops them.                     *)
SearchEnd(keep) ==
    /\ search.typing
    /\ search' = IF keep THEN [search EXCEPT !.typing = FALSE] ELSE NoSearch
    /\ sought' = (keep /\ sought)
    /\ UNCHANGED <<disk, page, tab, lines, detailScroll, autoFollow, files, pane>>

(* n and N go round.                                                        *)
WrapIdx(k) == IF search.idx + k = 0 THEN Len(search.matches)
              ELSE IF search.idx + k > Len(search.matches) THEN 1 ELSE search.idx + k

NextMatch(k) ==
    /\ OnInfo /\ search.matches # <<>>
    /\ scrollToDetailMatch([search EXCEPT !.idx = WrapIdx(k)])
    /\ UNCHANGED <<disk, page, tab, lines, files, pane>>

-----------------------------------------------------------------------------
(* The files *)

FileBefore(so, a, b) ==
    LET less == IF so.size /\ FileSize[a] # FileSize[b] THEN FileSize[a] < FileSize[b] ELSE a < b
    IN  IF so.desc THEN ~less /\ a # b ELSE less

sortDetailFiles(set, so) == SetToSortSeq(set, LAMBDA a, b : FileBefore(so, a, b))

(* The destdir is walked when the tab is entered, and not again.            *)
refreshDetailFiles ==
    /\ detailFiles' = sortDetailFiles(installed[page], filesSort)
    /\ filesScroll' = 0

(* Tab: refreshDetailFiles walks the destdir when the files are shown.  The *)
(* list is dropped here on the way back, where nothing reads it.            *)
SwitchTab ==
    /\ page # NoPage /\ ~search.typing
    /\ tab' = IF tab = "info" THEN "files" ELSE "info"
    /\ IF tab = "info"
       THEN refreshDetailFiles
       ELSE detailFiles' = <<>> /\ filesScroll' = 0
    /\ UNCHANGED <<disk, page, lines, detailScroll, autoFollow, search, filesSort, pane, sought>>

FilesScrollTo(to) ==
    /\ OnFiles /\ filesScroll' = to
    /\ UNCHANGED <<disk, page, tab, lines, detailScroll, autoFollow, search, detailFiles,
                   filesSort, pane, sought>>

FilesKey ==
    \/ FilesScrollTo(Max({0, filesScroll - 1})) \/ FilesScrollTo(0)
    \/ FilesScrollTo(Max({0, filesScroll - detailFilesViewportHeight}))
    \/ filesScroll < detailFilesMaxScroll /\ FilesScrollTo(filesScroll + 1)
    \/ FilesScrollTo(Min({filesScroll + detailFilesViewportHeight, detailFilesMaxScroll}))
    \/ FilesScrollTo(detailFilesMaxScroll)

(* `o` and `O`.                                                             *)
FilesResort ==
    /\ OnFiles
    /\ \E so \in {[size |-> ~filesSort.size, desc |-> ~filesSort.size],
                  [filesSort EXCEPT !.desc = ~@]} :
          filesSort' = so /\ detailFiles' = sortDetailFiles(Range(detailFiles), so)
    /\ filesScroll' = 0
    /\ UNCHANGED <<disk, page, tab, lines, detailScroll, autoFollow, search, pane, sought>>

-----------------------------------------------------------------------------
(* Builds *)

Write == writes < MaxWrites /\ writes' = writes + 1    \* a bound

(* A build writes a line, or starts and truncates both logs, or replaces    *)
(* the destdir.                                                             *)
LogLine(u, f, w) ==
    /\ Write /\ Len(logs[u][f]) < MaxLog
    /\ logs' = [logs EXCEPT ![u][f] = Append(@, w)]
    /\ UNCHANGED <<installed, page, tab, lines, detailScroll, autoFollow, search, files, pane, sought>>

Rebuild(u) ==
    /\ Write
    /\ \/ logs[u] # NoLogs /\ logs' = [logs EXCEPT ![u] = NoLogs] /\ UNCHANGED installed
       \/ \E fs \in {{}, FilePaths} : installed' = [installed EXCEPT ![u] = fs] /\ UNCHANGED logs
    /\ UNCHANGED <<page, tab, lines, detailScroll, autoFollow, search, files, pane, sought>>

PageNext ==
    \/ PageEsc \/ Tick \/ ScrollKey \/ SearchKey \/ SwitchTab \/ FilesKey \/ FilesResort
    \/ \E u \in PageUnits :
         \/ OpenPage(u) \/ Rebuild(u)
         \/ \E f \in {"out", "log"}, w \in Words : LogLine(u, f, w)
    \/ \E h \in PaneHeights : ResizePane(h)
    \/ \E w \in Words \union {""} : Typed(w)
    \/ \E keep \in BOOLEAN : SearchEnd(keep)
    \/ \E k \in {1, -1} : NextMatch(k)

PageSpec == PageInit /\ [][PageNext]_pageVars

-----------------------------------------------------------------------------
(* Properties *)

PageTypeOK ==
    /\ page \in PageUnits \union {NoPage} /\ tab \in {"info", "files"}
    /\ logs \in [PageUnits -> [out : Seq(Words), log : Seq(Words)]]
    /\ installed \in [PageUnits -> SUBSET FilePaths]
    /\ lines \in [out : Seq(Words), log : Seq(Words)]
    /\ detailScroll \in Nat /\ filesScroll \in Nat /\ autoFollow \in BOOLEAN
    /\ search.typing \in BOOLEAN /\ search.text \in Words \union {""}
    /\ search.matches \in Seq(Nat) /\ search.idx \in 0..Len(search.matches)
    /\ Range(detailFiles) \subseteq FilePaths /\ filesSort \in [size : BOOLEAN, desc : BOOLEAN]
    /\ pane \in PaneHeights /\ writes \in 0..MaxWrites /\ sought \in BOOLEAN

(* The line a search or n or N went to stays on the screen, however the log *)
(* grows below it and whatever ticks do, until the user moves away, the     *)
(* terminal changes, or a new build has cut the text short of it.           *)
MatchStaysOnScreen ==
    page # NoPage /\ sought /\ search.matches[search.idx] < Len(detailAllLines(page, lines))
        => search.matches[search.idx] \in Drawn

(* A page that follows shows the last line of the log as soon as it has     *)
(* read it, and going down to the end is enough to follow: the position     *)
(* counts as the end only while the page follows or is scrolled beyond.     *)
FollowsToTheEnd ==
    [][/\ (autoFollow /\ Tick) => Len(detailAllLines(page, lines')) - 1 \in Drawn'
       /\ (~autoFollow' /\ (ScrollDown(1) \/ ScrollDown(PageHeight)))
             => Len(detailAllLines(page, lines)) - 1 \notin Drawn']_pageVars

(* While logs grow, a found line stays on the screen, and the end of the    *)
(* log is followed from the moment the user goes there.                     *)
PageSound ==
    /\ [](PageTypeOK /\ MatchStaysOnScreen)
    /\ FollowsToTheEnd

=============================================================================
