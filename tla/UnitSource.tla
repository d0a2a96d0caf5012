----------------------------- MODULE UnitSource -----------------------------
(***************************************************************************)
(* The source tree of one unit: source.Prepare and the part of buildOne     *)
(* around it (internal/source/workspace.go, internal/build/executor.go),    *)
(* the dev-mode toggles DevToUpstream, DevToPin and DevPromoteToPin         *)
(* (internal/dev.go), and the toggle decision they and the build keep in    *)
(* build.json.                                                              *)
(*                                                                          *)
(* A commit is the sequence of changes that leads to it: a commit is an     *)
(* ancestor of another when it is a prefix of it, and applying a patch      *)
(* appends to it.                                                           *)
(***************************************************************************)
EXTENDS Sequences, SequencesExt, Naturals

CONSTANTS
    Changes,         \* what commits are made of
    Tags,            \* the upstream commits the unit may declare as its tag
    PatchLists,      \* the patch lists it may declare
    Branches,        \* the tips of the branches it may declare, <<>> for none
    Edit,            \* the change a user commits
    PatchMayFail,    \* a patch may fail to apply
    Toggles,         \* the user toggles the unit
    MaxCommits       \* bound on the commits the user makes

NoCommit == <<>>

Commits == Seq(Changes)

ASSUME SourceAssumption ==
    /\ Tags # {} /\ PatchLists # {} /\ Edit \in Changes
    /\ \A t \in Tags : t \in Commits \ {NoCommit}
    /\ \A p \in PatchLists : p \in Commits
    /\ Branches # {} /\ \A t \in Branches : t \in Commits
    /\ PatchMayFail \in BOOLEAN
    /\ Toggles \in BOOLEAN
    /\ MaxCommits \in Nat

VARIABLES
    star,            \* the tag, branch and patches the unit's .star declares
    src,             \* the working tree; see Trees
    state,           \* SourceState in build.json
    wish,            \* the mode the user last chose
    pc,              \* where the build of the unit is
    bmeta,           \* the SourceState the build read when it started
    unit,            \* the declaration the build was started with
    commits,         \* how many commits the user made
    toggle           \* history, read by properties only: the last toggle was
                     \* "kept", came "during" a build that still runs, or was
                     \* "overtaken" by the end of that build

sourceVars == <<star, src, state, wish, pc, bmeta, unit, commits, toggle>>

(* src/ on disk: whether it is a git repository, the commit checked out,    *)
(* the commit yoe/pin points at, the tip of the local branch DevToUpstream  *)
(* makes and whether HEAD is on it, and what lies uncommitted in the tree:  *)
(* nothing, files a build left, or edits of the user to tracked files.      *)
Trees == [git : BOOLEAN, head : Commits, pin : Commits, local : Commits,
          onLocal : BOOLEAN, dirt : {"clean", "artifacts", "edits"}]

NoTree == [git |-> FALSE, head |-> NoCommit, pin |-> NoCommit, local |-> NoCommit,
           onLocal |-> FALSE, dirt |-> "clean"]

SourceInit ==
    /\ star \in [tag : Tags, branch : Branches, patches : PatchLists]
    /\ src = NoTree
    /\ state = "" /\ wish = "pin"
    /\ pc = "idle" /\ bmeta = "" /\ unit = star
    /\ commits = 0 /\ toggle = "kept"

-----------------------------------------------------------------------------
(* The user. *)

EditStar ==
    /\ star' \in [tag : Tags, branch : Branches, patches : PatchLists]
    /\ star' # star
    /\ UNCHANGED <<src, state, wish, pc, bmeta, unit, commits, toggle>>

(* The user works in the tree once they switched the unit to dev mode. *)
UserEdits ==
    /\ src.git /\ wish = "dev" /\ src.dirt # "edits"
    /\ src' = [src EXCEPT !.dirt = "edits"]
    /\ UNCHANGED <<star, state, wish, pc, bmeta, unit, commits, toggle>>

UserCommits ==
    /\ src.git /\ wish = "dev" /\ src.dirt = "edits" /\ commits < MaxCommits
    /\ commits' = commits + 1
    /\ LET c == Append(src.head, Edit)
       IN  src' = [src EXCEPT !.head = c, !.dirt = "clean",
                              !.local = IF src.onLocal THEN c ELSE @]
    /\ UNCHANGED <<star, state, wish, pc, bmeta, unit, toggle>>

(* rm -rf src *)
Wipe ==
    /\ src.git /\ pc = "idle"
    /\ src' = NoTree
    /\ UNCHANGED <<star, state, wish, pc, bmeta, unit, commits, toggle>>

-----------------------------------------------------------------------------
(* git rev-list --count yoe/pin..HEAD; no count without the tag. *)
HasLocalCommits == src.git /\ src.pin # NoCommit /\ ~IsPrefix(src.head, src.pin)

(* DetectState: what the tree looks like, given the persisted decision.     *)
(* Every clone the build makes has an origin, so a tree with no persisted   *)
(* decision counts as dev.                                                  *)
DetectState ==
    IF ~src.git THEN ""
    ELSE IF src.dirt # "clean" THEN "dev-dirty"
    ELSE IF HasLocalCommits THEN "dev-mod"
    ELSE IF src.pin # NoCommit /\ state = "pin" THEN "pin" ELSE "dev"

(* The toggles of the TUI and of yoe dev take no notice of a running build. *)
Toggled == toggle' = IF pc = "idle" THEN "kept" ELSE "during"

(* One that fails halfway has changed the tree but no decision.             *)
HalfToggled == toggle' = IF pc # "idle" /\ toggle = "kept" THEN "during" ELSE toggle

(* DevToUpstream: a unit with no branch only gets its upstream.  One with a *)
(* branch is checked out on its local branch, which is created at the tip   *)
(* of the upstream branch only when it does not exist, and yoe/pin is       *)
(* anchored at the tag.  A failed fetch, and a checkout git refuses because *)
(* of edits, leave the tree as it was.                                      *)
DevToUpstream ==
    /\ Toggles /\ src.git
    /\ IF star.branch = NoCommit
         THEN UNCHANGED src
         ELSE LET c == IF src.local = NoCommit THEN star.branch ELSE src.local
              IN  src' = [src EXCEPT !.head = c, !.local = c, !.onLocal = TRUE,
                                     !.pin = star.tag]
    /\ state' = "dev" /\ wish' = "dev" /\ Toggled
    /\ UNCHANGED <<star, pc, bmeta, unit, commits>>

(* DevToPin without force refuses to drop what DetectState sees. *)
RefusesLocalWork == DetectState \in {"dev-dirty", "dev-mod"}

(* DevToPin checks the tag out over the tree and replays the patches; when  *)
(* one fails it returns with yoe/pin and the persisted decision as they     *)
(* were.                                                                    *)
DevToPin(force) ==
    /\ Toggles /\ src.git
    /\ force \/ ~RefusesLocalWork
    /\ \E k \in 0 .. Len(star.patches) :
         /\ k = Len(star.patches) \/ PatchMayFail
         /\ src' = [src EXCEPT !.head = star.tag \o SubSeq(star.patches, 1, k),
                               !.onLocal = FALSE,
                               !.dirt = IF @ = "edits" THEN "clean" ELSE @,
                               !.pin = IF k = Len(star.patches) THEN star.tag ELSE @]
         /\ IF k = Len(star.patches)
              THEN state' = "pin" /\ wish' = "pin" /\ Toggled
              ELSE UNCHANGED <<state, wish>> /\ HalfToggled
    /\ UNCHANGED <<star, pc, bmeta, unit, commits>>

(* DevPromoteToPin writes HEAD into the .star and moves yoe/pin to it. *)
DevPromoteToPin ==
    /\ Toggles
    /\ DetectState \in {"dev", "dev-mod"}
    /\ star' = [star EXCEPT !.tag = src.head]
    /\ src' = [src EXCEPT !.pin = src.head]
    /\ state' = "pin" /\ wish' = "pin" /\ Toggled
    /\ UNCHANGED <<pc, bmeta, unit, commits>>

-----------------------------------------------------------------------------
(* The build. *)

\* Mutant: the fresh build.json does not carry the SourceState over.
StartsBlank(clean) ==
    /\ pc = "idle" /\ pc' = "started"
    /\ bmeta' = "" /\ state' = "" /\ unit' = star
    /\ src' = IF clean THEN NoTree ELSE src
    /\ UNCHANGED <<star, wish, commits, toggle>>

(* buildOne starts: initBuildMeta keeps the SourceState it finds, and       *)
(* --clean removes the tree.                                                *)
BuildStart(clean) ==
    /\ pc = "idle"
    /\ pc' = "started"
    /\ bmeta' = state
    /\ unit' = star
    /\ src' = IF clean THEN NoTree ELSE src
    /\ UNCHANGED <<star, state, wish, commits, toggle>>

\* Mutant: a pin checkout is trusted whatever its tag.
TrustsAnyPin == src.git /\ (state \in {"dev", "pin"} \/ HasLocalCommits)

(* upstreamMatchesTag *)
PinMatchesTag == src.pin = unit.tag

(* Prepare takes the tree as it is: a dev-mode tree, a pin checkout of the  *)
(* declared tag, or (the legacy fallback) a tree with local commits.        *)
KeepsTree ==
    src.git /\ (state = "dev" \/ (state = "pin" /\ PinMatchesTag) \/ HasLocalCommits)

PrepareKeeps ==
    /\ pc = "started"
    /\ KeepsTree
    /\ pc' = "prepared"
    /\ UNCHANGED <<star, src, state, wish, bmeta, unit, commits, toggle>>

(* The tree cannot be kept.  That is not looked at again: Prepare first     *)
(* fetches, for as long as the network takes, and then removes what is      *)
(* there.                                                                   *)
PrepareFetches ==
    /\ pc = "started"
    /\ ~KeepsTree
    /\ pc' = "fetching"
    /\ UNCHANGED <<star, src, state, wish, bmeta, unit, commits, toggle>>

(* Fetch may fail; a promoted commit is upstream only once it was pushed. *)
FetchFails ==
    /\ pc = "fetching"
    /\ pc' = "failing"
    /\ UNCHANGED <<star, src, state, wish, bmeta, unit, commits, toggle>>

PrepareRemoves ==
    /\ pc = "fetching"
    /\ src' = NoTree
    /\ pc' = "removed"
    /\ UNCHANGED <<star, state, wish, bmeta, unit, commits, toggle>>

(* checkoutGit, or the extraction of an archive: no yoe/pin yet. *)
CloneOf(commit) == [NoTree EXCEPT !.git = TRUE, !.head = commit]

PrepareClones ==
    /\ pc = "removed"
    /\ src' = CloneOf(unit.tag)
    /\ pc' = "cloned"
    /\ UNCHANGED <<star, state, wish, bmeta, unit, commits, toggle>>

PrepareTags ==
    /\ pc = "cloned"
    /\ src' = [src EXCEPT !.pin = src.head]
    /\ pc' = "tagged"
    /\ UNCHANGED <<star, state, wish, bmeta, unit, commits, toggle>>

(* applyPatches commits the patches one by one; one that fails ends the     *)
(* build with those before it applied.                                      *)
PreparePatches ==
    /\ pc = "tagged"
    /\ \E k \in 0 .. Len(unit.patches) :
         /\ src' = [src EXCEPT !.head = @ \o SubSeq(unit.patches, 1, k)]
         /\ IF k = Len(unit.patches) THEN pc' = "prepared"
                                     ELSE PatchMayFail /\ pc' = "failing"
    /\ UNCHANGED <<star, state, wish, bmeta, unit, commits, toggle>>

(* The tasks run: they may leave files in the tree, and may fail. *)
Compile ==
    /\ pc = "prepared"
    /\ pc' \in {"compiled", "failing"}
    /\ src' \in {src, [src EXCEPT !.dirt = IF @ = "clean" THEN "artifacts" ELSE @]}
    /\ UNCHANGED <<star, state, wish, bmeta, unit, commits, toggle>>

\* Mutant: the decision recorded is always pin.
RecordsPin == IF ~src.git THEN bmeta ELSE "pin"

(* finalizeSourceState projects the SourceState the build started with. *)
FinalState == IF ~src.git THEN bmeta ELSE IF bmeta = "dev" THEN "dev" ELSE "pin"

(* The deferred write of build.json. *)
BuildEnds ==
    /\ pc \in {"compiled", "failing"}
    /\ state' = FinalState
    /\ pc' = "idle"
    /\ toggle' = IF toggle = "during" THEN "overtaken" ELSE toggle
    /\ UNCHANGED <<star, src, wish, bmeta, unit, commits>>

(* The process is killed: nothing runs to record the outcome. *)
Crash ==
    /\ pc # "idle"
    /\ pc' = "idle"
    /\ toggle' = IF toggle = "during" THEN "kept" ELSE toggle
    /\ UNCHANGED <<star, src, state, wish, bmeta, unit, commits>>

SourceNext ==
    \/ EditStar \/ UserEdits \/ UserCommits \/ Wipe
    \/ DevToUpstream \/ DevPromoteToPin
    \/ \E b \in BOOLEAN : DevToPin(b) \/ BuildStart(b)
    \/ PrepareKeeps \/ PrepareFetches \/ FetchFails \/ PrepareRemoves
    \/ PrepareClones \/ PrepareTags \/ PreparePatches
    \/ Compile \/ BuildEnds \/ Crash

SourceSpec == SourceInit /\ [][SourceNext]_sourceVars

-----------------------------------------------------------------------------
Stages == {"idle", "started", "fetching", "removed", "cloned", "tagged", "prepared", "compiled", "failing"}

Declarations == [tag : Commits, branch : Commits, patches : Commits]

(* The types of the variables: trees, the pin/dev decision that build.json  *)
(* persists, and the stages of buildOne.                                    *)
SourceTypeOK ==
    /\ star \in Declarations
    /\ unit \in Declarations
    /\ src \in Trees
    /\ state \in {"", "pin", "dev"} /\ bmeta \in {"", "pin", "dev"}
    /\ wish \in {"pin", "dev"}
    /\ pc \in Stages
    /\ commits \in 0 .. MaxCommits
    /\ toggle \in {"kept", "during", "overtaken"}

(* A build of a unit the user left in pin mode compiled the declared tag    *)
(* with the declared patches on it, and no edits of the user: Prepare's     *)
(* reuse of an existing tree never compiles anything else, whatever         *)
(* toggles, wipes, edits of the .star and crashes came before; unless the   *)
(* tree was toggled under that build or the toggle to pin was overtaken.    *)
PinBuildIsDeclared ==
    pc = "compiled" /\ wish = "pin" /\ toggle = "kept" =>
        src.head = unit.tag \o unit.patches /\ src.dirt # "edits"

(* Edits of the user, or commits of theirs beyond the pin, in dev mode. *)
Unpinned(c) == \E i \in DOMAIN c : c[i] = Edit /\ ~IsPrefix(SubSeq(c, 1, i), src.pin)
HasWork == wish = "dev" /\ src.git /\ (src.dirt = "edits" \/ Unpinned(src.head) \/ Unpinned(src.local))

Discards == (src.git /\ ~src'.git) \/ (src.dirt = "edits" /\ src'.dirt # "edits")
AskedFor == UserCommits \/ Wipe \/ BuildStart(TRUE) \/ DevToPin(TRUE)

(* Work of the user is discarded only by what they asked for by name: a     *)
(* forced DevToPin, build --clean, or removing the tree themselves; never   *)
(* by Prepare's clean-and-clone or by a build's bookkeeping, builds that    *)
(* run while the user edits, commits and toggles back included.  The toggle *)
(* to dev that allowed the work must not itself have come during a build.   *)
UserWorkSafe == [][HasWork /\ toggle = "kept" /\ Discards => AskedFor]_sourceVars

(* Without that condition: a toggle while Prepare fetches comes too late,   *)
(* and one that was overtaken protects nothing from the next build.         *)
UserWorkAlwaysSafe == [][HasWork /\ Discards => AskedFor]_sourceVars

(* build.json says dev exactly when the user's last toggle was to dev,      *)
(* whenever it came, even across builds, failures and crashes.  Only the    *)
(* end of a build that was running at the time of the toggle undoes it: it  *)
(* writes back the decision it read at its start.                           *)
ToggleKept == toggle # "overtaken" => (wish = "dev" <=> state = "dev")

(* What the comment in buildOne claims for every toggle: "the build write   *)
(* just records whichever was already in effect".                           *)
DecisionKept == wish = "dev" <=> state = "dev"

(* build.json and the tree agree across builds, failures and crashes: the   *)
(* user's decision survives every build but the one it interrupts.          *)
SourceInv ==
    /\ SourceTypeOK
    /\ ToggleKept

=============================================================================
