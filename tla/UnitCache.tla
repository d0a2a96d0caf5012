----------------------------- MODULE UnitCache ------------------------------
(***************************************************************************)
(* The build cache over many runs of `yoe build` (internal/build/executor.go*)
(* and meta.go with internal/resolve/hash.go): definitions are edited and   *)
(* reverted between and during runs, runs name some of the units, fail, or  *)
(* are killed, packages disappear from the repository, and each run decides *)
(* from the hash in build.json what it reuses.                              *)
(*                                                                          *)
(* A run takes the units one after the other in build order; BuildScheduler *)
(* is shown to implement that order.  What a build produced is recorded as  *)
(* the definition it saw and what its dependencies had produced then.       *)
(***************************************************************************)
EXTENDS DependencyGraph

CONSTANTS
    Declared,       \* the projects, and those of them
    Deep,           \* that are explored beyond the first plan
    Targets,        \* the names a run is started with; none is all
    Broken,         \* what a build that did not end well leaves
    MaxEdits, MaxRuns

ASSUME CacheAssumption ==
    /\ Deep \subseteq Declared
    /\ Targets \subseteq SUBSET Units
    /\ MaxEdits \in Nat /\ MaxRuns \in Nat \ {0}

VARIABLES
    proj,           \* what the units declare about each other
    dag,            \* the graph every run derives from it
    def,            \* the definition of each unit: 1 or 2
    meta,           \* build.json: status and hash
    art,            \* what lies in the unit's build directory
    pool,           \* the units whose package is in the repository
    run,            \* the current or last run
    result,         \* how it ended
    edits, runs     \* counters

cacheVars == <<proj, dag, def, meta, art, pool, run, result, edits, runs>>

NoRun == [order |-> {}, defs |-> [u \in Units |-> 1], hash |-> [u \in Units |-> <<>>], reuse |-> {},
          done |-> {}, rebuilt |-> {}]

(* Nothing is built yet. *)
Unbuilt ==
    /\ proj \in Declared
    /\ dag = BuildDAG(proj)
    /\ def = [u \in Units |-> 1]
    /\ meta = [u \in Units |-> [status |-> "none", hash |-> <<>>]]
    /\ art = [u \in Units |-> Broken]
    /\ pool = {}
    /\ run = NoRun
    /\ edits = 0

CacheInit == Unbuilt /\ result = "none" /\ runs = 0

graph == dag.deps
(* Every class but two publishes, except a unit with nothing to run, which  *)
(* is complete before anything is packaged ("bare").                        *)
IsPackage(u) == proj.class[u] \in {"package", "bare"}

(* The repository once u is published. *)
Published(u) == IF proj.class[u] = "package" THEN pool \union {u} ELSE pool

(* What a build makes of a unit: its definition over the build directories  *)
(* of everything it transitively depends on, AssembleSysroot's input.       *)
Made(u, d, built) == <<u, d, {<<v, built[v]>> : v \in dag.below[u]}>>

\* Mutant: the record of a failed build counts.
IsBuildRecorded(u, h) == meta[u].hash = h

(* IsBuildCached *)
IsBuildCached(u, h) == meta[u].status = "complete" /\ meta[u].hash = h

(* CacheValid: a package must still be in the repository. *)
CacheValid(u, h) == IsBuildCached(u, h) /\ (IsPackage(u) => u \in pool)

-----------------------------------------------------------------------------
(* The user edits a unit, or takes the edit back. *)
Edit(u) ==
    /\ edits < MaxEdits /\ proj \in Deep
    /\ edits' = edits + 1
    /\ def' = [def EXCEPT ![u] = 3 - @]
    /\ UNCHANGED <<proj, dag, meta, art, pool, run, result, runs>>

(* A package is removed from the repository. *)
LosePackage(u) ==
    /\ result # "running" /\ u \in pool
    /\ pool' = pool \ {u}
    /\ UNCHANGED <<proj, dag, def, meta, art, run, result, edits, runs>>

(* BuildUnits hashes every unit and plans the run; a cycle is an error. *)
StartRun(names, force) ==
    /\ result # "running"
    /\ runs < (IF proj \in Deep THEN MaxRuns ELSE 1)
    /\ runs' = runs + 1
    /\ IF Len(dag.order) < Cardinality(Units)
         THEN result' = "error" /\ run' = NoRun
         ELSE LET h == ComputeAllHashes(proj, dag.order, def)
                  order == IF names = {} THEN Units ELSE names \union UNION {dag.below[n] : n \in names}
              IN  /\ result' = "running"
                  /\ run' = [order |-> order, defs |-> def, hash |-> h, done |-> {}, rebuilt |-> {},
                             reuse |-> {u \in order : CacheValid(u, h[u])
                                          /\ ~(force /\ (names = {} \/ u \in names))}]
    /\ UNCHANGED <<proj, dag, def, meta, art, pool, edits>>

Turn(u) ==
    /\ result = "running" /\ proj \in Deep
    /\ u \in run.order \ run.done
    /\ graph[u] \intersect run.order \subseteq run.done

(* A cached unit is reused unless a dependency was rebuilt in this run. *)
Reuse(u) == u \in run.reuse /\ graph[u] \intersect run.rebuilt = {}

ServeCached(u) ==
    /\ Turn(u) /\ Reuse(u)
    /\ run' = [run EXCEPT !.done = @ \union {u}]
    /\ UNCHANGED <<proj, dag, def, meta, art, pool, result, edits, runs>>

\* Mutant: the outcome is recorded under the hash the unit has by now.
BuildsRehashed(u) ==
    /\ Turn(u) /\ ~Reuse(u)
    /\ art' = [art EXCEPT ![u] = Made(u, run.defs[u], art)]
    /\ pool' = Published(u)
    /\ meta' = [meta EXCEPT ![u] = [status |-> "complete", hash |-> ComputeAllHashes(proj, dag.order, def)[u]]]
    /\ run' = [run EXCEPT !.done = @ \union {u}, !.rebuilt = @ \union {u}]
    /\ UNCHANGED <<proj, dag, def, result, edits, runs>>

(* buildOne succeeds: it built the definition loaded when the run started   *)
(* with what its dependencies have in their build directories, published it *)
(* and recorded the hash computed when the run started.                     *)
BuildUnit(u) ==
    /\ Turn(u) /\ ~Reuse(u)
    /\ art' = [art EXCEPT ![u] = Made(u, run.defs[u], art)]
    /\ pool' = Published(u)
    /\ meta' = [meta EXCEPT ![u] = [status |-> "complete", hash |-> run.hash[u]]]
    /\ run' = [run EXCEPT !.done = @ \union {u}, !.rebuilt = @ \union {u}]
    /\ UNCHANGED <<proj, dag, def, result, edits, runs>>

(* buildOne fails, is cancelled or is killed (status building), before it   *)
(* published or after.                                                      *)
BuildFails(u) ==
    /\ Turn(u) /\ ~Reuse(u)
    /\ art' = [art EXCEPT ![u] = Broken]
    /\ pool' \in {pool, Published(u)}
    /\ \E s \in {"failed", "cancelled", "building"} :
         meta' = [meta EXCEPT ![u] = [status |-> s, hash |-> run.hash[u]]]
    /\ result' = "error"
    /\ UNCHANGED <<proj, dag, def, run, edits, runs>>

(* The run is interrupted between two units. *)
Interrupt ==
    /\ result = "running"
    /\ result' = "error"
    /\ UNCHANGED <<proj, dag, def, meta, art, pool, run, edits, runs>>

Finish ==
    /\ result = "running" /\ run.done = run.order
    /\ result' = "ok"
    /\ UNCHANGED <<proj, dag, def, meta, art, pool, run, edits, runs>>

CacheNext ==
    \/ \E names \in Targets, force \in BOOLEAN : StartRun(names, force)
    \/ \E u \in Units : Edit(u) \/ LosePackage(u) \/ ServeCached(u) \/ BuildUnit(u) \/ BuildFails(u)
    \/ Interrupt \/ Finish

CacheSpec == CacheInit /\ [][CacheNext]_cacheVars

-----------------------------------------------------------------------------
Results == {"none", "running", "ok", "error"}

(* The types, and which statuses a build.json may hold. *)
CacheTypeOK ==
    /\ Range(dag.order) \subseteq Units
    /\ def \in [Units -> {1, 2}]
    /\ \A u \in Units : meta[u].status \in {"none", "building", "failed", "cancelled", "complete"}
    /\ DOMAIN art = Units
    /\ pool \subseteq {u \in Units : IsPackage(u)}
    /\ run.reuse \subseteq run.order /\ run.done \subseteq run.order
    /\ run.rebuilt \subseteq run.done
    /\ result \in Results
    /\ edits \in 0 .. MaxEdits /\ runs \in 0 .. MaxRuns

(* What a build of everything from nothing would make of each unit. *)
FromScratch(defs) ==
    LET order == dag.order
        made[k \in 0 .. Len(order)] ==
          IF k = 0 THEN [u \in {} |-> <<>>]
          ELSE LET m == made[k - 1]
               IN  [v \in DOMAIN m \union {order[k]} |->
                      IF v = order[k] THEN Made(v, defs[v], m) ELSE m[v]]
    IN  made[Len(order)]

(* The unit and all it is built from are read by the hash as a whole, and   *)
(* every edge between them is a declared dependency, as the hash needs.     *)
HashCovers(u) == \A v \in dag.below[u] \union {u} : v \notin proj.unread /\ graph[v] \subseteq proj.deps[v]

(* A unit a run has dealt with, reused or rebuilt, is what a build from     *)
(* scratch of the same definitions would produce, through every edit,       *)
(* revert, partial run, failure, kill and lost package before it: the cache *)
(* never serves anything else, and nothing is built on a broken dependency. *)
DoneIsFresh ==
    LET fresh == FromScratch(run.defs)
    IN  \A u \in run.done : HashCovers(u) => art[u] = fresh[u]

(* The same for every unit, whatever edges it is built over and whatever of *)
(* it is edited: any change to a unit or to a dependency gives a new hash   *)
(* and a rebuild.                                                           *)
AlwaysFresh ==
    LET fresh == FromScratch(run.defs)
    IN  \A u \in run.done : art[u] = fresh[u]

(* Kahn's order names every unit once, dependencies first, unless there is  *)
(* a cycle; then the units left over hold one.  (The graph does not change: *)
(* it is judged before the first run.)                                      *)
SortIsTopological == runs = 0 =>
    LET order == dag.order
        left == Units \ Range(order)
    IN  /\ Cardinality(Range(order)) = Len(order)
        /\ \A i \in DOMAIN order : graph[order[i]] \subseteq {order[j] : j \in 1 .. i - 1}
        /\ (left = {}) <=> Acyclic(graph)
        /\ \A u \in left : graph[u] \intersect left # {}

(* What a unit's tasks need is scheduled with it: the build order of a name *)
(* is the least closed set, and holds its containers and, for every         *)
(* declared dependency with a unit of its own, all that one runs on, short  *)
(* of the unit itself and what only it runs on.                             *)
OrderIsClosed == runs = 0 =>
    \A u \in Units :
        LET order == dag.below[u] \union {u}
            runsOn == [v \in Units |-> IF v = u THEN {} ELSE proj.runtime[v] \intersect Units]
        IN  /\ order = Closure(graph, {u})
            /\ ContainerDeps(proj, u) \subseteq order
            /\ proj.class[u] # "image" =>
                 \A d \in Closure(runsOn, proj.deps[u] \intersect Units) \ {u} : Resolve(proj, d) \in order

(* The build order is a topological order of everything the targets need,   *)
(* and of nothing twice, for every graph the runs start from.               *)
OrderInv ==
    /\ CacheTypeOK
    /\ SortIsTopological
    /\ OrderIsClosed

=============================================================================
