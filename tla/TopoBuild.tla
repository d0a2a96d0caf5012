----------------------------- MODULE TopoBuild -----------------------------
(***************************************************************************)
(* What a build promises, without threads: the units of the build order    *)
(* finish one at a time, each after the dependencies that are part of the   *)
(* build, and a unit is rebuilt exactly when its cached build may not be    *)
(* reused or one of its dependencies was rebuilt by this same build.  The   *)
(* scheduler in internal/build/executor.go calls itself "the parallel       *)
(* analogue of the old topological for-loop"; this module is that loop.     *)
(***************************************************************************)
EXTENDS FiniteSets

CONSTANTS Units,      \* the units of the project
          DepGraphs   \* the dependency graphs a project may have

VARIABLES deps,       \* deps[u]: the direct dependencies of u
          order,      \* the units this build covers
          reuse,      \* the units whose cached build may be reused
          finished,   \* the units this build is through with
          rebuilt,    \* the units this build built
          outcome     \* "planning", "running", "ok" or "error"

tvars == <<deps, order, reuse, finished, rebuilt, outcome>>

TInit ==
    /\ deps \in DepGraphs
    /\ order = {} /\ reuse = {} /\ finished = {} /\ rebuilt = {}
    /\ outcome = "planning"

(* A dry run or a failed plan ends the build with nothing done. *)
TRefuse ==
    /\ outcome = "planning"
    /\ outcome' \in {"ok", "error"}
    /\ UNCHANGED <<deps, order, reuse, finished, rebuilt>>

TPlan ==
    /\ outcome = "planning"
    /\ outcome' = "running"
    /\ order' \in SUBSET Units
    /\ reuse' \in SUBSET order'
    /\ UNCHANGED <<deps, finished, rebuilt>>

(* One iteration of the loop: serve the unit from the cache or build it. *)
TProcess(u) ==
    /\ outcome = "running"
    /\ u \in order \ finished
    /\ deps[u] \cap order \subseteq finished
    /\ finished' = finished \cup {u}
    /\ rebuilt' = IF u \in reuse /\ deps[u] \cap rebuilt = {}
                    THEN rebuilt ELSE rebuilt \cup {u}
    /\ UNCHANGED <<deps, order, reuse, outcome>>

TReturnOk ==
    /\ outcome = "running"
    /\ finished = order
    /\ outcome' = "ok"
    /\ UNCHANGED <<deps, order, reuse, finished, rebuilt>>

TReturnError ==
    /\ outcome = "running"
    /\ outcome' = "error"
    /\ UNCHANGED <<deps, order, reuse, finished, rebuilt>>

TNext ==
    \/ TRefuse \/ TPlan
    \/ \E u \in Units : TProcess(u)
    \/ TReturnOk \/ TReturnError

TSpec == TInit /\ [][TNext]_tvars

============================================================================
