--------------------------- MODULE BuildScheduler ---------------------------
(***************************************************************************)
(* BuildUnits of internal/build/executor.go: the worker pool that builds    *)
(* the units of a project in parallel.  One call is modelled: planning,     *)
(* the goroutine of every unit, the semaphore that bounds them, the shared  *)
(* state they keep under one mutex, what buildOne does to build.json and    *)
(* to the package repository, cancellation, and the final index refresh.    *)
(*                                                                          *)
(* A step of a worker is the code between two points where another          *)
(* goroutine can interfere: a critical section of mu, a write to the        *)
(* repository, or a write of build.json.                                    *)
(***************************************************************************)
EXTENDS Naturals, FiniteSets

CONSTANTS Units,        \* the units of the project
          Requestable,  \* the names a user may ask for; some are no unit
          DepGraphs,    \* the dependency graphs a project may have
          Class,        \* Class[u]: "image", "container" or "package"
          HasWork,      \* the units with a task or a service
          Unbuildable,  \* the images the selected machine cannot boot
          Parallel      \* the capacity of the semaphore

ASSUME ConstantsAssumption ==
    /\ IsFiniteSet(Units)
    /\ Units \subseteq Requestable
    /\ DepGraphs \subseteq [Units -> SUBSET Units]
    /\ Class \in [Units -> {"image", "container", "package"}]
    /\ HasWork \subseteq Units
    /\ Unbuildable \subseteq Units
    /\ Parallel \in Nat \ {0}

VARIABLES
    deps,        \* the nodes of the DAG with their Deps
    phase,       \* "plan", "run", "done": where BuildUnits itself is
    result,      \* "none", "ok", "error": what BuildUnits returned
    order,       \* orderSet
    reuse,       \* the units whose plan says reuseCache()
    pc,          \* pc[u]: where the goroutine of u is
    depRebuilt,  \* depRebuilt[u]: the worker's local of that name
    indeg, started, rebuilt, publishedPkg, imageRefreshed, firstErr, stop,
    cancelled,   \* ctx.Err() # nil
    meta,        \* meta[u]: Status in build.json at this build's hash
    pool,        \* pool[u]: the package of u in the repository tree
    index,       \* index[u]: the package of u the on-disk index lists
    snap         \* snap[u]: what the index refresh of image u scanned

schedVars == <<indeg, started, rebuilt, publishedPkg, imageRefreshed, firstErr, stop>>
repoVars  == <<pool, index, snap>>
planVars  == <<deps, order, reuse>>
vars == <<deps, phase, result, order, reuse, pc, depRebuilt, indeg, started,
          rebuilt, publishedPkg, imageRefreshed, firstErr, stop, cancelled,
          meta, pool, index, snap>>

-----------------------------------------------------------------------------
(* Where a worker can be.  It holds the semaphore from "acquired" on, until *)
(* it returns: to "done" when it released its dependents, to "failed" when  *)
(* buildOne failed, to "stopped" when it found the build stopped.           *)
Holding == {"acquired", "checked", "building", "scanned", "writing",
            "assembling", "published", "failing", "built", "cached"}
Returned == {"done", "failed", "stopped"}
Control == {"idle", "spawned"} \cup Holding \cup Returned

Status == {"none", "building", "complete", "failed", "cancelled"}
Version == {"none", "old", "new"}

IsPackage(u) == Class[u] = "package"
Holders == {u \in Units : pc[u] \in Holding}
Unfinished(u) == {d \in deps[u] \cap order : pc[d] # "done"}
IndexTorn == \E v \in Units : pc[v] = "writing"

-----------------------------------------------------------------------------
(* Planning. *)

(* DepsOf with the units themselves: the smallest set that holds S and      *)
(* every dependency of its members.                                         *)
Closure(S) ==
    {u \in Units : \A T \in SUBSET Units :
        (S \subseteq T /\ \A t \in T : deps[t] \subseteq T) => u \in T}

(* TopologicalSort succeeds: no set of units is closed in on itself. *)
Acyclic == \A S \in (SUBSET Units) \ {{}} : \E u \in S : deps[u] \cap S = {}

(* CacheValid: the unit is recorded complete and, when it publishes a       *)
(* package, the package is still in the repository.                         *)
CacheValid(u) == meta[u] = "complete" /\ (IsPackage(u) => pool[u] # "none")

(* filterBuildOrder and skipUnbuildable. *)
BuildOrder(names) ==
    (IF names = {} THEN Units ELSE Closure(names)) \ Unbuildable

(* --force and --clean cover only what the user asked for. *)
Forced(u, names, force) == force /\ (names = {} \/ u \in names)

PlanOf(names, force, noCache) ==
    {u \in BuildOrder(names) : CacheValid(u) /\ ~Forced(u, names, force) /\ ~noCache}

PlanError(names) ==
    ~Acyclic \/ names \cap Unbuildable # {} \/ ~(names \subseteq Units)

(* Mutant: a unit with one dependency left counts as ready. *)
ReadyOneLeft(in, o) == {u \in o \ started : ~stop /\ in[u] <= 1}

(* launchReady: every unit not started whose dependencies are all done,     *)
(* unless the build is stopping.  in is the value of indeg it sees.         *)
Ready(in, o) == {u \in o \ started : ~stop /\ in[u] = 0}

InDegree(o) == [u \in Units |-> Cardinality(deps[u] \cap o)]

EmptyIndex == [u \in Units |-> "none"]

(* What earlier builds and commands left: the index may lack a package that *)
(* a failed or cancelled build published, or list one removed since.        *)
Init ==
    /\ deps \in DepGraphs
    /\ phase = "plan" /\ result = "none"
    /\ order = {} /\ reuse = {}
    /\ pc = [u \in Units |-> "idle"]
    /\ depRebuilt = [u \in Units |-> FALSE]
    /\ indeg = [u \in Units |-> 0]
    /\ started = {} /\ rebuilt = {}
    /\ publishedPkg = FALSE /\ imageRefreshed = FALSE
    /\ firstErr = FALSE /\ stop = FALSE /\ cancelled = FALSE
    /\ meta \in [Units -> {"none", "complete"}]
    /\ pool \in [Units -> {"none", "old"}] /\ index \in [Units -> {"none", "old"}]
    /\ \A u \in Units : "old" \in {pool[u], index[u]} => IsPackage(u) /\ u \in HasWork
    /\ snap = [u \in Units |-> EmptyIndex]

(* BuildUnits returns before it schedules anything: the graph has a cycle,  *)
(* a named image cannot be booted, a name is no unit, or a dry run.         *)
Refuse ==
    /\ phase = "plan"
    /\ phase' = "done"
    /\ \E names \in SUBSET Requestable :
         result' \in IF PlanError(names) THEN {"error"} ELSE {"ok"}
    /\ UNCHANGED <<deps, order, reuse, pc, depRebuilt, schedVars, cancelled, meta, repoVars>>

Plan ==
    /\ phase = "plan"
    /\ phase' = "run"
    /\ \E names \in SUBSET Requestable, force, noCache \in BOOLEAN :
         /\ ~PlanError(names)
         /\ order' = BuildOrder(names)
         /\ reuse' = PlanOf(names, force, noCache)
    /\ indeg' = InDegree(order')
    /\ started' = Ready(InDegree(order'), order')
    /\ pc' = [u \in Units |-> IF u \in started' THEN "spawned" ELSE "idle"]
    /\ UNCHANGED <<deps, result, depRebuilt, rebuilt, publishedPkg, imageRefreshed,
                   firstErr, stop, cancelled, meta, repoVars>>

-----------------------------------------------------------------------------
(* The worker of one unit. *)

Goto(u, l) == pc' = [pc EXCEPT ![u] = l]

(* sem <- struct{}{} *)
Acquire(u) ==
    /\ pc[u] = "spawned"
    /\ Cardinality(Holders) < Parallel
    /\ Goto(u, "acquired")
    /\ UNCHANGED <<planVars, phase, result, depRebuilt, schedVars, cancelled, meta, repoVars>>

(* Mutant: a worker that finds the build stopping waits instead of giving   *)
(* up.                                                                      *)
CheckStopWaits(u) ==
    /\ pc[u] = "acquired"
    /\ stop
    /\ UNCHANGED vars

(* Mutant: rebuilt dependencies are not looked at. *)
CheckDepsBlind(u) ==
    /\ pc[u] = "acquired"
    /\ ~stop
    /\ Goto(u, "checked")
    /\ UNCHANGED <<planVars, phase, result, depRebuilt, schedVars, cancelled, meta, repoVars>>

(* The first critical section: give up when the build is stopping, else     *)
(* look whether a dependency was rebuilt.                                   *)
CheckStop(u) ==
    /\ pc[u] = "acquired"
    /\ stop
    /\ Goto(u, "stopped")
    /\ UNCHANGED <<planVars, phase, result, depRebuilt, schedVars, cancelled, meta, repoVars>>

CheckDeps(u) ==
    /\ pc[u] = "acquired"
    /\ ~stop
    /\ depRebuilt' = [depRebuilt EXCEPT ![u] = deps[u] \cap rebuilt # {}]
    /\ Goto(u, "checked")
    /\ UNCHANGED <<planVars, phase, result, schedVars, cancelled, meta, repoVars>>

(* Mutant: a worker that sees the cancellation stops the build without      *)
(* recording an error.                                                      *)
SeeCancelSilently(u) ==
    /\ pc[u] = "checked"
    /\ cancelled
    /\ stop' = TRUE
    /\ Goto(u, "stopped")
    /\ UNCHANGED <<planVars, phase, result, depRebuilt, indeg, started, rebuilt, firstErr,
                   publishedPkg, imageRefreshed, cancelled, meta, repoVars>>

(* The worker saw ctx.Err() and stops the build. *)
SeeCancel(u) ==
    /\ pc[u] = "checked"
    /\ cancelled
    /\ firstErr' = TRUE /\ stop' = TRUE
    /\ Goto(u, "stopped")
    /\ UNCHANGED <<planVars, phase, result, depRebuilt, indeg, started, rebuilt,
                   publishedPkg, imageRefreshed, cancelled, meta, repoVars>>

ServeCached(u) ==
    /\ pc[u] = "checked"
    /\ ~cancelled
    /\ u \in reuse /\ ~depRebuilt[u]
    /\ Goto(u, "cached")
    /\ UNCHANGED <<planVars, phase, result, depRebuilt, schedVars, cancelled, meta, repoVars>>

(* buildOne begins: build.json says "building". *)
StartBuild(u) ==
    /\ pc[u] = "checked"
    /\ ~cancelled
    /\ ~(u \in reuse /\ ~depRebuilt[u])
    /\ meta' = [meta EXCEPT ![u] = "building"]
    /\ Goto(u, "building")
    /\ UNCHANGED <<planVars, phase, result, depRebuilt, schedVars, cancelled, repoVars>>

(* An image refreshes the index before its tasks run: refreshRepoIndex      *)
(* scans the repository tree, truncates the index file and fills it.  No    *)
(* lock is held across the three.                                           *)
RefreshScan(u) ==
    /\ pc[u] = "building"
    /\ Class[u] = "image" /\ u \in HasWork
    /\ snap' = [snap EXCEPT ![u] = pool]
    /\ Goto(u, "scanned")
    /\ UNCHANGED <<planVars, phase, result, depRebuilt, schedVars, cancelled, meta, pool, index>>

(* Mutant: assembly starts on the index the last build left. *)
RefreshFillSkipped(u) ==
    /\ pc[u] = "writing"
    /\ Goto(u, "assembling")
    /\ UNCHANGED <<planVars, phase, result, depRebuilt, schedVars, cancelled, meta, repoVars>>

RefreshTruncate(u) ==
    /\ pc[u] = "scanned"
    /\ index' = EmptyIndex
    /\ Goto(u, "writing")
    /\ UNCHANGED <<planVars, phase, result, depRebuilt, schedVars, cancelled, meta, pool, snap>>

RefreshFill(u) ==
    /\ pc[u] = "writing"
    /\ index' = snap[u]
    /\ Goto(u, "assembling")
    /\ UNCHANGED <<planVars, phase, result, depRebuilt, schedVars, cancelled, meta, pool, snap>>

(* Mutant: the package is built but not copied into the repository. *)
PublishNothing(u) ==
    /\ pc[u] = "building"
    /\ IsPackage(u) /\ u \in HasWork
    /\ Goto(u, "published")
    /\ UNCHANGED <<planVars, phase, result, depRebuilt, schedVars, cancelled, meta, repoVars>>

(* packageAPK or packageDeb: an atomic copy into the repository tree. *)
Publish(u) ==
    /\ pc[u] = "building"
    /\ IsPackage(u) /\ u \in HasWork
    /\ pool' = [pool EXCEPT ![u] = "new"]
    /\ Goto(u, "published")
    /\ UNCHANGED <<planVars, phase, result, depRebuilt, schedVars, cancelled, meta, index, snap>>

(* buildOne returns nil.  A unit with nothing to do returns before it       *)
(* refreshes or publishes; a container is built by its tasks alone.         *)
BuildReturns(u) ==
    /\ \/ pc[u] = "building" /\ (u \notin HasWork \/ Class[u] = "container")
       \/ pc[u] \in {"assembling", "published"}
    /\ meta' = [meta EXCEPT ![u] = IF cancelled THEN "cancelled" ELSE "complete"]
    /\ Goto(u, "built")
    /\ UNCHANGED <<planVars, phase, result, depRebuilt, schedVars, cancelled, repoVars>>

(* buildOne returns an error: a failed step, a failed refresh, a task the   *)
(* cancelled context killed.  Nothing fails once the package is published.  *)
BuildFails(u) ==
    /\ pc[u] \in {"building", "scanned", "writing", "assembling"}
    /\ meta' = [meta EXCEPT ![u] = IF cancelled THEN "cancelled" ELSE "failed"]
    /\ Goto(u, "failing")
    /\ UNCHANGED <<planVars, phase, result, depRebuilt, schedVars, cancelled, repoVars>>

(* The worker records the failure and stops the build. *)
RecordFailure(u) ==
    /\ pc[u] = "failing"
    /\ firstErr' = TRUE /\ stop' = TRUE
    /\ Goto(u, "failed")
    /\ UNCHANGED <<planVars, phase, result, depRebuilt, indeg, started, rebuilt,
                   publishedPkg, imageRefreshed, cancelled, meta, repoVars>>

(* The last critical section: mark the unit, release its dependents and     *)
(* start those that became ready.                                           *)
Finish(u) ==
    LET in == [v \in Units |-> IF v \in order /\ u \in deps[v] THEN indeg[v] - 1
                                                              ELSE indeg[v]]
        launched == Ready(in, order)
    IN
    /\ pc[u] \in {"built", "cached"}
    /\ rebuilt' = IF pc[u] = "built" THEN rebuilt \cup {u} ELSE rebuilt
    /\ imageRefreshed' = (imageRefreshed \/ (pc[u] = "built" /\ Class[u] = "image"))
    /\ publishedPkg' = (publishedPkg \/ (pc[u] = "built" /\ IsPackage(u)))
    /\ indeg' = in
    /\ started' = started \cup launched
    /\ pc' = [v \in Units |-> IF v = u THEN "done"
                              ELSE IF v \in launched THEN "spawned" ELSE pc[v]]
    /\ UNCHANGED <<planVars, phase, result, depRebuilt, firstErr, stop, cancelled, meta, repoVars>>

-----------------------------------------------------------------------------
(* wg.Wait() returned: every goroutine that was started has returned. *)
Drained == phase = "run" /\ \A u \in started : pc[u] \in Returned

ReturnError ==
    /\ Drained
    /\ firstErr
    /\ phase' = "done" /\ result' = "error"
    /\ UNCHANGED <<planVars, pc, depRebuilt, schedVars, cancelled, meta, repoVars>>

(* Mutant: a publish alone no longer asks for a refresh. *)
NeedsRefreshAfterImage == publishedPkg /\ imageRefreshed

NeedsRefresh == publishedPkg /\ ~imageRefreshed

ReturnOk ==
    /\ Drained
    /\ ~firstErr
    /\ phase' = "done" /\ result' = "ok"
    /\ index' = IF NeedsRefresh THEN pool ELSE index
    /\ UNCHANGED <<planVars, pc, depRebuilt, schedVars, cancelled, meta, pool, snap>>

(* The final refresh fails, before or after it truncated the file. *)
ReturnRefreshError ==
    /\ Drained
    /\ ~firstErr /\ NeedsRefresh
    /\ phase' = "done" /\ result' = "error"
    /\ index' \in {index, EmptyIndex}
    /\ UNCHANGED <<planVars, pc, depRebuilt, schedVars, cancelled, meta, pool, snap>>

(* The caller cancels the context. *)
Cancel ==
    /\ phase = "run"
    /\ ~cancelled
    /\ cancelled' = TRUE
    /\ UNCHANGED <<planVars, phase, result, pc, depRebuilt, schedVars, meta, repoVars>>

Worker(u) ==
    \/ Acquire(u) \/ CheckStop(u) \/ CheckDeps(u) \/ SeeCancel(u)
    \/ ServeCached(u) \/ StartBuild(u)
    \/ RefreshScan(u) \/ RefreshTruncate(u) \/ RefreshFill(u)
    \/ Publish(u) \/ BuildReturns(u) \/ BuildFails(u)
    \/ RecordFailure(u) \/ Finish(u)

Main == Refuse \/ Plan \/ ReturnError \/ ReturnOk \/ ReturnRefreshError

Terminated == phase = "done" /\ UNCHANGED vars

Next ==
    \/ Main \/ Cancel \/ Terminated
    \/ \E u \in Units : Worker(u)

Spec == Init /\ [][Next]_vars

(* The Go runtime schedules every goroutine that can run, and every build   *)
(* step ends: a task that hangs is outside this model.                      *)
Fairness == WF_vars(Main) /\ \A u \in Units : WF_vars(Worker(u))
FairSpec == Spec /\ Fairness

-----------------------------------------------------------------------------
(* Type invariant: every variable of the scheduler keeps its type. *)
TypeOK ==
    /\ deps \in DepGraphs
    /\ phase \in {"plan", "run", "done"} /\ result \in {"none", "ok", "error"}
    /\ order \in SUBSET Units /\ reuse \in SUBSET order
    /\ pc \in [Units -> Control]
    /\ depRebuilt \in [Units -> BOOLEAN]
    /\ indeg \in [Units -> Nat]
    /\ started \in SUBSET order /\ rebuilt \in SUBSET order
    /\ publishedPkg \in BOOLEAN /\ imageRefreshed \in BOOLEAN
    /\ firstErr \in BOOLEAN /\ stop \in BOOLEAN /\ cancelled \in BOOLEAN
    /\ meta \in [Units -> Status]
    /\ pool \in [Units -> Version] /\ index \in [Units -> Version]
    /\ snap \in [Units -> [Units -> Version]]

(* A goroutine is started only when every dependency that is part of this   *)
(* build released it: no unit builds against a dependency that is still     *)
(* being built, that failed, or that gave up (indeg and launchReady).       *)
DepsFirst ==
    \A u \in order : pc[u] # "idle" => \A d \in deps[u] \cap order : pc[d] = "done"

(* The semaphore bounds the workers that build at the same time, whatever   *)
(* number of goroutines exists and however they return.                     *)
BoundedWork == Cardinality(Holders) <= Parallel

(* A unit that finished without being rebuilt has no dependency this build  *)
(* rebuilt: the invalidation of cached builds reaches all the way up.       *)
RebuildPropagates ==
    \A u \in order : pc[u] = "done" /\ u \notin rebuilt => deps[u] \cap rebuilt = {}

(* When BuildUnits scheduled a build and returns nil, every unit of the     *)
(* build order was built or served: a cancelled context or a failed unit    *)
(* is never swallowed, and no unit is left waiting.                         *)
SuccessIsComplete ==
    result = "ok" => \A u \in order : pc[u] = "done"

(* After an uncancelled success the cache holds every unit that produces    *)
(* something: CacheValid would accept all of them in the next build.        *)
SuccessIsReusable ==
    (result = "ok" /\ ~cancelled) => \A u \in order \cap HasWork : CacheValid(u)

(* While an image is assembled, the index describes the package each of     *)
(* its dependencies has in the repository, rebuilt by this run or not: the  *)
(* pre-assembly refresh makes what was published visible.                   *)
ImageSeesItsClosure ==
    \A u \in order : pc[u] = "assembling" =>
        ~IndexTorn /\ \A d \in deps[u] : index[d] = pool[d]

(* When BuildUnits returns nil, the index describes what the build is for,  *)
(* whatever index it found: the whole tree if it rebuilt packages and no    *)
(* image, and each package of an image it assembled, rebuilt or cached,     *)
(* whatever was published beside the image and after its refresh.           *)
IndexCurrentAtSuccess ==
    result = "ok" =>
      /\ (\E u \in rebuilt : IsPackage(u)) /\ (\A u \in rebuilt : Class[u] # "image")
           => index = pool
      /\ \A u \in rebuilt \cap HasWork : Class[u] = "image" =>
           \A d \in deps[u] : index[d] = pool[d]

(* What the comments above both refreshes promise, "the index can never lag *)
(* the repo", does not hold: a build that finds everything in the cache     *)
(* keeps the index a failed build left, and a package published after the   *)
(* refresh of an image that does not contain it waits for the next one.     *)
IndexNeverLags == result = "ok" /\ order # {} => index = pool

(* Once the build is stopping, launchReady starts nothing more, and no      *)
(* further unit is handed to a worker.                                      *)
NoLaunchAfterStop == [][stop => started' = started]_vars

(* BuildUnits returns: no mix of failures, cancellation and full semaphore  *)
(* leaves wg.Wait() waiting for a goroutine that waits for another.         *)
Returns == <>(phase = "done")

(* The worker pool implements the sequential topological loop. *)
Topo == INSTANCE TopoBuild WITH
    finished <- {u \in Units : pc[u] = "done"},
    outcome  <- IF phase = "plan" THEN "planning"
                ELSE IF phase = "run" THEN "running" ELSE result
ImplementsTopo == Topo!TSpec

=============================================================================
