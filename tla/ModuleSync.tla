----------------------------- MODULE ModuleSync -----------------------------
(***************************************************************************)
(* Module clones: `yoe module sync` and the clone-if-missing of every load  *)
(* (internal/module/fetch.go), the dev-mode toggles (module/dev.go,         *)
(* state.go), and the walk over module_info(deps) that decides which        *)
(* modules a project has (internal/starlark/module_walk.go, cycle.go).      *)
(*                                                                          *)
(* One yoe command runs at a time; it may be killed while it clones.  A     *)
(* commit in a clone is <<version, own>>: how far along the declared ref it *)
(* is and how many commits of the user are on top.  Identities that share a *)
(* name are refs of one repository.                                         *)
(***************************************************************************)
EXTENDS Naturals, Sequences, SequencesExt, FiniteSets

CONSTANTS
    Refs,           \* ModuleRefs by canonical identity: [name, info, deps, local]
    ModuleLists,    \* the module lists PROJECT.star may declare, sequences of identities
    MaxRounds,      \* maxRounds
    RemoteFails,    \* a remote may fail when a dev clone is pulled
    MaxMoves, MaxCommits, MaxKills, MaxCommands    \* bounds

Ids == DOMAIN Refs
ModuleNames == {Refs[r].name : r \in Ids}

ASSUME ModuleAssumption ==
    /\ \A r \in Ids : /\ Refs[r].local \in BOOLEAN
                      /\ Refs[r].deps \in Seq(Ids)
    /\ \A p \in ModuleLists : p \in Seq(Ids) /\ \A i, j \in DOMAIN p : i # j => Refs[p[i]].name # Refs[p[j]].name
    /\ RemoteFails \in BOOLEAN /\ MaxRounds \in Nat \ {0}
    /\ {MaxMoves, MaxCommits, MaxKills, MaxCommands} \subseteq Nat

VARIABLES
    project,        \* the modules PROJECT.star declares
    tip,            \* the version each ref has at its remote
    dir,            \* name -> the clone in cache/modules; see Clones
    pc,             \* what the running command does next
    pending,        \* modules a sync has still to handle
    expansion,      \* expandTransitiveDeps; see NoExpansion
    search,         \* DetectCycles: the stack of its search and the modules visited
    loaded,         \* the list of the last load that succeeded
    forced,         \* the user confirmed the last switch back to pin
    moves, kills, commands

syncVars == <<project, tip, dir, pc, pending, expansion, search, loaded, forced, moves, kills, commands>>

(* A clone: how much of it is there, whose content, the commit checked out, *)
(* whether HEAD is on a branch, edits in the tree, the commit yoe/pin       *)
(* points at, and the state file.                                           *)
NoCommit == <<0, 0>>
Clones == [is : {"none", "fetching", "checkout", "whole"}, id : Ids, head : Nat \X Nat, branch : BOOLEAN,
           dirty : BOOLEAN, tag : Nat \X Nat, mode : {"", "dev"}]
NoClone(r) == [is |-> "none", id |-> r, head |-> NoCommit, branch |-> FALSE, dirty |-> FALSE,
               tag |-> NoCommit, mode |-> ""]

(* The list so far, the identities it has, the dependencies declared, the   *)
(* round; in a round the modules it adds, and the dependencies of the       *)
(* module read last that are still to be looked at.                         *)
NoExpansion == [combined |-> <<>>, seen |-> {}, graph |-> {}, round |-> 0, new |-> <<>>, deps |-> <<>>]
NoSearch == [stack |-> <<>>, done |-> {}]

SyncInit ==
    /\ project \in ModuleLists
    /\ tip = [r \in Ids |-> 1]
    /\ dir = [n \in ModuleNames |-> NoClone(CHOOSE r \in Ids : Refs[r].name = n)]
    /\ pc = "idle" /\ pending = <<>> /\ expansion = NoExpansion
    /\ search = NoSearch /\ loaded = <<>>
    /\ forced = FALSE /\ moves = 0 /\ kills = 0 /\ commands = 0

(* The state file: dev, or absent. *)
ReadState(n) == dir[n].mode
WriteState(c, mode) == [c EXCEPT !.mode = mode]

(* .git exists, though little else may. *)
HasGit(n) == dir[n].is # "none"

-----------------------------------------------------------------------------
(* source.DetectState on a module clone, with ReadState's decision: "error" *)
(* stands for a probe git refuses, for want of a commit or of the tag.      *)
Ahead(n) == dir[n].head # dir[n].tag

DetectState(n) ==
    IF dir[n].is = "none" THEN ""
    ELSE IF dir[n].is = "fetching" THEN "error"
    ELSE IF dir[n].is = "checkout" \/ dir[n].dirty THEN "dev-dirty"
    ELSE IF dir[n].tag = NoCommit THEN "error"
    ELSE IF Ahead(n) THEN "dev-mod"
    ELSE "dev"                \* the state file says so, or origin is configured

\* Mutant: every clone git cannot classify is left to the user.
UnknownIsDev(n) == IF DetectState(n) = "error" THEN "dev" ELSE DetectState(n)

(* moduleState: an unclassifiable clone is the user's if they claimed it. *)
ModuleState(n) == IF DetectState(n) = "error" THEN ReadState(n) ELSE DetectState(n)

IsDev(s) == s \in {"dev", "dev-mod", "dev-dirty"}

(* A fresh clone of depth 1 is on the ref's branch. *)
Cloned(n, r) ==
    [NoClone(r) EXCEPT !.is = "whole", !.head = <<tip[r], 0>>, !.branch = TRUE]

(* cloneModule clones into the place where the clone stays: it succeeds,    *)
(* fails after its retries and leaves nothing, or is killed half way.       *)
CloneModule(n, r, then) ==
    \/ dir' = [dir EXCEPT ![n] = Cloned(n, r)] /\ then
    \/ dir' = [dir EXCEPT ![n] = NoClone(r)] /\ pc' = "idle" /\ pending' = <<>> /\ expansion' = NoExpansion /\ UNCHANGED kills
    \/ /\ kills < MaxKills
       /\ kills' = kills + 1
       /\ \E half \in {"fetching", "checkout"} :
            dir' = [dir EXCEPT ![n] = [NoClone(r) EXCEPT !.is = half,
                        !.head = IF half = "checkout" THEN <<tip[r], 0>> ELSE NoCommit,
                        !.branch = half = "checkout"]]
       /\ pc' = "idle" /\ pending' = <<>> /\ expansion' = NoExpansion

(* pullDevClone: git fast-forwards the branch HEAD is on, or refuses.  A    *)
(* clone without work of its own is anchored where the pull left it.        *)
CanPull(n) ==
    /\ dir[n].branch
    /\ \/ dir[n].head[1] = tip[dir[n].id]
       \/ dir[n].head[2] = 0 /\ ~dir[n].dirty /\ dir[n].is = "whole"

\* Mutant: every pull moves the anchor.
AnchorAlways(state, c, head) == head

Anchor(state, c, head) == IF state = "dev" THEN head ELSE c.tag

Pulled(n) ==
    LET head == <<tip[dir[n].id], dir[n].head[2]>> IN
    [dir[n] EXCEPT !.head = head, !.tag = Anchor(ModuleState(n), dir[n], head)]

-----------------------------------------------------------------------------
(* `yoe module sync` goes through the modules PROJECT.star declares. *)
StartSync ==
    /\ pc = "idle" /\ commands < MaxCommands
    /\ commands' = commands + 1
    /\ pc' = "sync" /\ pending' = project
    /\ UNCHANGED <<project, forced, tip, dir, expansion, search, loaded, moves, kills>>

Handled == pending' = Tail(pending) /\ pc' = "sync" /\ UNCHANGED <<expansion, kills>>

(* Sync of one module: local ones are skipped, missing ones cloned, a       *)
(* module the clone says is in dev mode is pulled if that works, and any    *)
(* other one is put on the ref the project declares, detached.              *)
SyncOne ==
    /\ pc = "sync" /\ pending # <<>>
    /\ LET r == Head(pending)
           n == Refs[r].name IN
       IF Refs[r].local THEN Handled /\ UNCHANGED dir
       ELSE IF ~HasGit(n) THEN CloneModule(n, r, Handled)
       ELSE IF IsDev(ModuleState(n))
       THEN /\ \/ CanPull(n) /\ dir' = [dir EXCEPT ![n] = Pulled(n)]
               \/ (RemoteFails \/ ~CanPull(n)) /\ UNCHANGED dir
            /\ Handled
       ELSE \/ /\ dir' = [dir EXCEPT ![n].is = "whole", ![n].id = r, ![n].head = <<tip[r], 0>>,
                                      ![n].branch = FALSE]
               /\ Handled
            \/ UNCHANGED <<dir, expansion, kills>> /\ pc' = "idle" /\ pending' = <<>>
    /\ UNCHANGED <<project, forced, tip, search, loaded, moves, commands>>

SyncDone ==
    /\ pc = "sync" /\ pending = <<>>
    /\ pc' = "synced"
    /\ UNCHANGED <<project, forced, tip, dir, pending, expansion, search, loaded, moves, kills, commands>>

CommandEnds ==
    /\ pc \in {"synced", "loaded", "conflict", "cycle"}
    /\ pc' = "idle" /\ pending' = <<>> /\ expansion' = NoExpansion /\ search' = NoSearch
    /\ UNCHANGED <<project, forced, tip, dir, loaded, moves, kills, commands>>

-----------------------------------------------------------------------------
(* A load begins: the project's modules are incorporated first. *)
StartLoad ==
    /\ pc = "idle" /\ commands < MaxCommands
    /\ commands' = commands + 1
    /\ pc' = "need" /\ pending' = project
    /\ expansion' = [NoExpansion EXCEPT !.combined = project, !.seen = Range(project), !.round = 1]
    /\ UNCHANGED <<project, forced, tip, dir, search, loaded, moves, kills>>

Present == pending' = Tail(pending) /\ pc' = "need" /\ UNCHANGED <<expansion, kills>>

(* SyncIfNeeded, one module: whatever has a .git is taken as cloned. *)
SyncIfNeeded ==
    /\ pc = "need" /\ pending # <<>>
    /\ LET r == Head(pending)
           n == Refs[r].name IN
       IF Refs[r].local \/ HasGit(n) THEN Present /\ UNCHANGED dir
       ELSE CloneModule(n, r, Present)
    /\ UNCHANGED <<project, forced, tip, search, loaded, moves, commands>>

(* locateModulePath and peekModuleInfo: the deps in the MODULE.star on      *)
(* disk, which is what was cloned under that name, if it was checked out.   *)
OnDisk(r) == IF Refs[r].local THEN r ELSE dir[Refs[r].name].id
Readable(r) == Refs[r].local \/ dir[Refs[r].name].is = "whole"
Deps(r) == IF Readable(r) THEN Refs[OnDisk(r)].deps ELSE <<>>

\* Mutant: only identities are compared.
NoConflicts(seen, d) == {}

(* findNameConflict: someone already owns the name under another identity. *)
Conflicts(seen, d) == {s \in seen : s # d /\ Refs[s].name = Refs[d].name}

\* Mutant: only the modules the project declares itself are read.
FirstLevel == project

(* A round of expandTransitiveDeps goes over the list as the last one left  *)
(* it.                                                                      *)
ToRead == expansion.combined

StartRound ==
    /\ pc = "need" /\ pending = <<>>
    /\ pc' = "read" /\ pending' = ToRead
    /\ UNCHANGED <<project, forced, tip, dir, expansion, search, loaded, moves, kills, commands>>

(* The next module of the list is read. *)
Edges(r) == {<<Refs[OnDisk(r)].info, Refs[d].name>> : d \in Range(Deps(r))}

ReadModule ==
    /\ pc = "read" /\ expansion.deps = <<>> /\ pending # <<>>
    /\ expansion' = [expansion EXCEPT !.deps = Deps(Head(pending)), !.graph = @ \union Edges(Head(pending))]
    /\ pending' = Tail(pending)
    /\ UNCHANGED <<project, forced, tip, dir, pc, search, loaded, moves, kills, commands>>

(* One of its dependencies: known, overridden by the project, in conflict,  *)
(* or new.                                                                  *)
Incorporate ==
    /\ pc = "read" /\ expansion.deps # <<>>
    /\ LET d == Head(expansion.deps)
           known == d \in expansion.seen
           clash == Conflicts(expansion.seen, d) IN
       \/ /\ known \/ clash \intersect Range(project) # {}
          /\ expansion' = [expansion EXCEPT !.deps = Tail(@)]
          /\ UNCHANGED pc
       \/ /\ ~known /\ clash # {} /\ clash \intersect Range(project) = {}
          /\ pc' = "conflict"
          /\ UNCHANGED expansion
       \/ /\ ~known /\ clash = {}
          /\ expansion' = [expansion EXCEPT !.deps = Tail(@), !.seen = @ \union {d}, !.new = Append(@, d)]
          /\ UNCHANGED pc
    /\ UNCHANGED <<project, forced, tip, dir, pending, search, loaded, moves, kills, commands>>

(* The end of a round: something new to sync and read, or a stable list.    *)
RoundEnds ==
    /\ pc = "read" /\ expansion.deps = <<>> /\ pending = <<>>
    /\ LET all == expansion.combined \o expansion.new IN
       \/ /\ expansion.new # <<>> /\ expansion.round < MaxRounds
          /\ expansion' = [expansion EXCEPT !.combined = all, !.new = <<>>, !.round = @ + 1]
          /\ pending' = all /\ pc' = "need"
       \/ /\ expansion.new = <<>> \/ expansion.round = MaxRounds
          /\ expansion' = [expansion EXCEPT !.combined = all, !.new = <<>>]
          /\ pc' = "cycles" /\ UNCHANGED pending
    /\ UNCHANGED <<project, forced, tip, dir, search, loaded, moves, kills, commands>>

-----------------------------------------------------------------------------
(* DetectCycles: depth first from every module that declares deps; a module *)
(* met again while it is on the stack closes a cycle.  A step is one call   *)
(* or return of visit.  The order, which only decides which cycle is        *)
(* reported, is left open.                                                  *)
Roots == {e[1] : e \in expansion.graph}

\* Mutant: the search starts from modules nobody depends on.
TopRoots == Roots \ {e[2] : e \in expansion.graph}

Starts == Roots

DepsOf(n) == {d \in Roots : <<n, d>> \in expansion.graph}
OnTop == search.stack[Len(search.stack)]

VisitRoot(r) ==
    /\ pc = "cycles" /\ search.stack = <<>> /\ r \notin search.done
    /\ search' = [search EXCEPT !.stack = <<r>>]
    /\ UNCHANGED <<project, forced, tip, dir, pc, pending, expansion, loaded, moves, kills, commands>>

Visit(d) ==
    /\ pc = "cycles" /\ search.stack # <<>>
    /\ d \in DepsOf(OnTop) \ search.done
    /\ IF d \in Range(search.stack)
       THEN pc' = "cycle" /\ UNCHANGED search
       ELSE search' = [search EXCEPT !.stack = Append(@, d)] /\ UNCHANGED pc
    /\ UNCHANGED <<project, forced, tip, dir, pending, expansion, loaded, moves, kills, commands>>

Visited ==
    /\ pc = "cycles" /\ search.stack # <<>>
    /\ DepsOf(OnTop) \subseteq search.done
    /\ search' = [stack |-> SubSeq(search.stack, 1, Len(search.stack) - 1), done |-> search.done \union {OnTop}]
    /\ UNCHANGED <<project, forced, tip, dir, pc, pending, expansion, loaded, moves, kills, commands>>

(* No cycle: the list is the project's. *)
LoadEnds ==
    /\ pc = "cycles" /\ search.stack = <<>> /\ Starts \subseteq search.done
    /\ pc' = "loaded" /\ loaded' = expansion.combined
    /\ UNCHANGED <<project, forced, tip, dir, pending, expansion, search, moves, kills, commands>>

DetectCycles ==
    \/ \E r \in Starts : VisitRoot(r)
    \/ \E d \in Roots : Visit(d)
    \/ Visited \/ LoadEnds

-----------------------------------------------------------------------------
(* The ref the project has for a module the TUI lists. *)
Listed(n) == \E r \in Range(loaded) : Refs[r].name = n /\ ~Refs[r].local
Declared(n) == CHOOSE r \in Range(loaded) : Refs[r].name = n

(* ModuleToUpstream.  Origin is rewritten and widened before the fetch,     *)
(* which may fail; then HEAD is tagged and the decision recorded.  The TUI  *)
(* offers it for a module whose state file does not say dev.                *)
ToUpstream(n) ==
    /\ pc = "idle" /\ commands < MaxCommands /\ Listed(n) /\ HasGit(n) /\ ReadState(n) = ""
    /\ commands' = commands + 1
    /\ \/ UNCHANGED dir
       \/ /\ dir[n].is # "fetching"
          /\ dir' = [dir EXCEPT ![n] = WriteState([@ EXCEPT !.tag = dir[n].head], "dev")]
    /\ UNCHANGED <<project, forced, tip, pc, pending, expansion, search, loaded, moves, kills>>

\* Mutant: only uncommitted edits count as work.
RefusesEdits(n) == DetectState(n) = "dev-dirty"

(* ModuleToPin refuses local work unless forced; the TUI forces it once the *)
(* user has confirmed.  The fetch may fail; the reset moves the branch HEAD *)
(* is on, if any.                                                           *)
RefusesWork(n) == DetectState(n) \in {"dev-dirty", "dev-mod"}

ToPin(n, force) ==
    /\ pc = "idle" /\ commands < MaxCommands /\ Listed(n) /\ HasGit(n) /\ ReadState(n) = "dev"
    /\ force \/ ~RefusesWork(n)
    /\ commands' = commands + 1 /\ forced' = force
    /\ LET head == <<tip[Declared(n)], 0>> IN
       \/ UNCHANGED dir
       \/ dir' = [dir EXCEPT ![n] = WriteState([@ EXCEPT !.is = "whole", !.id = Declared(n), !.head = head,
                                                         !.dirty = FALSE, !.tag = head], "")]
    /\ UNCHANGED <<project, tip, pc, pending, expansion, search, loaded, moves, kills>>

(* PullDev, the modules tab's p. *)
PullDev(n) ==
    /\ pc = "idle" /\ Listed(n) /\ HasGit(n) /\ IsDev(ModuleState(n)) /\ CanPull(n)
    /\ dir' = [dir EXCEPT ![n] = Pulled(n)]
    /\ UNCHANGED <<project, forced, tip, pc, pending, expansion, search, loaded, moves, kills, commands>>

-----------------------------------------------------------------------------
(* Between commands others push to a ref, and the user works in a  *)
(* clone that is in dev mode.                                               *)
Push(r) ==
    /\ pc = "idle" /\ moves < MaxMoves
    /\ moves' = moves + 1
    /\ tip' = [tip EXCEPT ![r] = @ + 1]
    /\ UNCHANGED <<project, forced, dir, pc, pending, expansion, search, loaded, kills, commands>>

Work(n) ==
    /\ pc = "idle" /\ dir[n].is = "whole" /\ dir[n].mode = "dev"
    /\ \/ ~dir[n].dirty /\ dir' = [dir EXCEPT ![n].dirty = TRUE]
       \/ /\ dir[n].dirty /\ dir[n].head[2] < MaxCommits
          /\ dir' = [dir EXCEPT ![n].dirty = FALSE, ![n].head[2] = @ + 1]
    /\ UNCHANGED <<project, forced, tip, pc, pending, expansion, search, loaded, moves, kills, commands>>

SyncNext ==
    \/ StartSync \/ SyncOne \/ SyncDone \/ StartLoad \/ SyncIfNeeded
    \/ StartRound \/ ReadModule \/ Incorporate \/ RoundEnds \/ DetectCycles \/ CommandEnds
    \/ \E n \in ModuleNames : ToUpstream(n) \/ PullDev(n) \/ Work(n)
    \/ \E r \in Ids : Push(r)
    \/ \E n \in ModuleNames, force \in BOOLEAN : ToPin(n, force)

SyncSpec == SyncInit /\ [][SyncNext]_syncVars

-----------------------------------------------------------------------------
(* Every variable has its type, and half a clone is never in dev mode       *)
(* unless it has a commit to anchor.                                        *)
SyncTypeOK ==
    /\ forced \in BOOLEAN /\ project \in ModuleLists /\ tip \in [Ids -> Nat] /\ dir \in [ModuleNames -> Clones]
    /\ pc \in {"idle", "sync", "synced", "need", "read", "cycles", "loaded", "conflict", "cycle"}
    /\ Range(pending) \subseteq Ids /\ Range(loaded) \subseteq Ids
    /\ Range(expansion.combined) \union Range(expansion.new) = expansion.seen /\ expansion.round \in 0 .. MaxRounds
    /\ \A n \in ModuleNames : dir[n].mode = "dev" => dir[n].tag # NoCommit

(* No command of yoe loses commits or edits of the user in a module clone,  *)
(* save the switch back to pin that the user confirmed.                     *)
UserWorkKept ==
    [][\A n \in ModuleNames :
        \/ ToPin(n, TRUE) /\ forced'
        \/ /\ dir'[n].head[2] >= dir[n].head[2]
           /\ dir[n].dirty => dir'[n].dirty \/ dir'[n].head[2] > dir[n].head[2]]_syncVars

(* Work in a clone in dev mode shows, or nobody would be asked before it is *)
(* dropped: pulls never move the anchor past commits of the user.           *)
WorkIsSeen ==
    \A n \in ModuleNames : dir[n].mode = "dev" /\ (dir[n].dirty \/ dir[n].head[2] > 0)
        => DetectState(n) \in {"dev-dirty", "dev-mod"}

(* After `yoe module sync` a clone that was never in dev mode, and whose    *)
(* checkout was not cut short, is whole and on the declared ref, though an  *)
(* earlier command may have died while cloning it.                          *)
OnRef(r) == LET c == dir[Refs[r].name] IN c.is = "whole" /\ c.id = r /\ c.head = <<tip[r], 0>>

SyncRepairs ==
    [][SyncDone => \A r \in Range(project) :
            LET c == dir[Refs[r].name] IN
            ~Refs[r].local /\ c.tag = NoCommit /\ c.is # "checkout"
                => OnRef(r)]_syncVars

(* After `yoe module sync` a module that is not in dev mode is on the ref   *)
(* the project declares.                                                    *)
PinOnRef ==
    \A r \in Range(project) :
        pc = "synced" /\ ~Refs[r].local /\ dir[Refs[r].name].mode = "" => OnRef(r)

(* A load that succeeds has a module for every dependency any of its        *)
(* modules declares, however deep.                                          *)
LoadClosed ==
    pc = "loaded" => \A r \in Range(loaded) : \A d \in Range(Deps(r)) :
                        \E s \in Range(loaded) : Refs[s].name = Refs[d].name

(* It has one module of a name: two modules would share one directory.      *)
OneOfAName ==
    pc = "loaded" => \A i, j \in DOMAIN loaded : i # j => Refs[loaded[i]].name # Refs[loaded[j]].name

(* The dependencies declared form a cycle: some modules that each depend on *)
(* one of them.                                                             *)
Declares == UNION {{<<Refs[r].name, Refs[d].name>> : d \in Range(Deps(r))} : r \in expansion.seen}
Cyclic ==
    LET uses == Declares
        some == {e[1] : e \in uses}
    IN \E S \in (SUBSET some) \ {{}} : \A m \in S : \E n \in S : <<m, n>> \in uses

(* The depth-first search rejects a project exactly when dependencies form  *)
(* a cycle.                                                                 *)
CyclesFound ==
    /\ pc = "loaded" => ~Cyclic
    /\ pc = "cycle" => Cyclic

(* The modules of a project are found and kept: a load sees all of them,    *)
(* one of each name, a cycle is reported, and no commit of the user is      *)
(* hidden from the checks that protect it.                                  *)
SyncInv ==
    /\ SyncTypeOK
    /\ WorkIsSeen
    /\ LoadClosed
    /\ OneOfAName
    /\ CyclesFound

=============================================================================
