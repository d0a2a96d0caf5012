----------------------- MODULE BuildSchedulerProofs -----------------------
(***************************************************************************)
(* Proofs about BuildScheduler, for every set of units, every dependency    *)
(* graph and every capacity of the semaphore.                               *)
(*                                                                          *)
(* None of the invariants is inductive alone.  A worker is released by the  *)
(* counter indeg, so DepsFirst needs indeg[u] to be the number of           *)
(* dependencies that are not done, which in turn needs a released unit to   *)
(* be done once and for all.  IInv collects these facts.                    *)
(***************************************************************************)
EXTENDS BuildScheduler, FiniteSetTheorems, TLAPS

(* Before the plan nothing exists; after the return nobody runs. *)
InvPhase ==
    /\ phase = "plan" => /\ order = {} /\ result = "none" /\ ~stop
                         /\ \A u \in Units : pc[u] = "idle"
    /\ phase = "run" => result = "none" /\ Acyclic
    /\ phase = "done" => \A u \in Units : pc[u] \in Returned \cup {"idle"}

(* A goroutine exists exactly for the units in started. *)
InvStarted == \A u \in Units : pc[u] # "idle" <=> u \in started

(* indeg counts the dependencies in this build that are not done. *)
InvIndeg == \A u \in order : indeg[u] = Cardinality(Unfinished(u))

(* Unless the build is stopping, whoever waits for nobody was launched. *)
InvLaunched ==
    phase # "plan" /\ ~stop => \A u \in order : Unfinished(u) = {} => u \in started

(* A worker that gave up or failed has stopped the build with an error. *)
InvStop ==
    /\ stop <=> firstErr
    /\ \A u \in Units : pc[u] \in {"failed", "stopped"} => stop

(* The decision to serve or to build rests on the dependencies' final fate. *)
InvDecision ==
    /\ \A u \in rebuilt : pc[u] = "done"
    /\ \A u \in Units :
         /\ pc[u] = "checked" => depRebuilt[u] = (deps[u] \cap rebuilt # {})
         /\ pc[u] = "cached" => u \in reuse /\ deps[u] \cap rebuilt = {}
         /\ pc[u] \in {"building", "scanned", "writing", "assembling", "published", "built"}
              => ~(u \in reuse /\ deps[u] \cap rebuilt = {})

IInv ==
    /\ TypeOK /\ InvPhase /\ InvStarted /\ InvIndeg /\ InvLaunched /\ InvStop
    /\ InvDecision /\ DepsFirst /\ RebuildPropagates /\ SuccessIsComplete

---------------------------------------------------------------------------
(* The set of dependencies a unit waits for is finite, so its cardinality   *)
(* is a number and zero exactly when the set is empty.                      *)
LEMMA UnfinishedFinite ==
    ASSUME TypeOK, NEW u \in Units
    PROVE  /\ IsFiniteSet(Unfinished(u))
           /\ Cardinality(Unfinished(u)) \in Nat
           /\ Cardinality(Unfinished(u)) = 0 <=> Unfinished(u) = {}
<1>1. Unfinished(u) \subseteq Units
  BY ConstantsAssumption DEF Unfinished, TypeOK
<1>2. IsFiniteSet(Unfinished(u))
  BY <1>1, FS_Subset, ConstantsAssumption
<1> QED
  BY <1>2, FS_CardinalityType, FS_EmptySet

LEMMA InitIInv == Init => IInv
<1> SUFFICES ASSUME Init PROVE IInv
  OBVIOUS
<1> USE ConstantsAssumption DEF Init
<1>1. TypeOK
  BY DEF TypeOK, Control, Holding, Returned, Status, Version, EmptyIndex
<1>2. InvPhase /\ InvStarted /\ InvIndeg /\ InvLaunched /\ InvStop
  BY DEF InvPhase, InvStarted, InvIndeg, InvLaunched, InvStop
<1>3. InvDecision /\ DepsFirst /\ RebuildPropagates /\ SuccessIsComplete
  BY DEF InvDecision, DepsFirst, RebuildPropagates, SuccessIsComplete
<1> QED
  BY <1>1, <1>2, <1>3 DEF IInv

(* The plan counts every dependency in the build, none of which is done.    *)
LEMMA PlanIInv ==
    ASSUME IInv, Plan
    PROVE  IInv'
<1> USE DEF IInv
<1>1. PICK names \in SUBSET Requestable, force \in BOOLEAN, noCache \in BOOLEAN :
        /\ ~PlanError(names)
        /\ order' = BuildOrder(names)
        /\ reuse' = PlanOf(names, force, noCache)
  BY DEF Plan
<1>2. order' \subseteq Units /\ reuse' \subseteq order'
  BY <1>1 DEF BuildOrder, PlanOf, Closure
<1>3. phase = "plan" /\ order = {} /\ ~stop /\ deps' = deps /\ stop' = stop
      /\ rebuilt = {} /\ rebuilt' = rebuilt /\ result' = result /\ phase' = "run"
  BY DEF Plan, InvPhase, TypeOK
<1>4. started = {} /\ started' = {u \in order' : InDegree(order')[u] = 0}
  BY <1>3 DEF Plan, Ready, TypeOK
<1>5. pc' = [u \in Units |-> IF u \in started' THEN "spawned" ELSE "idle"]
  BY DEF Plan
<1>6. \A u \in Units : Unfinished(u)' = deps[u] \cap order'
  BY <1>3, <1>5, <1>2 DEF Unfinished
<1>7. deps \in [Units -> SUBSET Units]
  BY ConstantsAssumption DEF TypeOK
<1>8. \A u \in Units : /\ Cardinality(deps[u] \cap order') \in Nat
                       /\ Cardinality(deps[u] \cap order') = 0 <=> deps[u] \cap order' = {}
  <2> TAKE u \in Units
  <2>1. IsFiniteSet(deps[u] \cap order')
    BY <1>2, FS_Subset, ConstantsAssumption
  <2> QED
    BY <2>1, FS_CardinalityType, FS_EmptySet
<1>9. indeg' = [u \in Units |-> Cardinality(deps[u] \cap order')]
  BY <1>3 DEF Plan, InDegree
<1>10. started' = {u \in order' : deps[u] \cap order' = {}}
  BY <1>4, <1>8, <1>2 DEF InDegree
<1>11. TypeOK'
  <2>1. indeg' \in [Units -> Nat]
    BY <1>9, <1>8
  <2>2. pc' \in [Units -> Control]
    BY <1>5 DEF Control
  <2> QED
    BY <2>1, <2>2, <1>2, <1>3, <1>10 DEF TypeOK, Plan, repoVars
<1>12. InvPhase'
  <2>1. Acyclic'
    BY <1>1, <1>3 DEF PlanError, Acyclic
  <2> QED
    BY <2>1, <1>3 DEF InvPhase
<1>13. InvStarted'
  BY <1>5 DEF InvStarted
<1>14. InvIndeg'
  BY <1>6, <1>9, <1>2 DEF InvIndeg
<1>15. InvLaunched'
  BY <1>6, <1>10, <1>2 DEF InvLaunched
<1>16. InvStop'
  BY <1>3, <1>5 DEF InvStop, Plan
<1>17. InvDecision' /\ RebuildPropagates' /\ SuccessIsComplete'
  BY <1>3, <1>5, <1>2 DEF InvDecision, RebuildPropagates, SuccessIsComplete, InvPhase
<1>18. DepsFirst'
  BY <1>5, <1>10, <1>2, <1>3 DEF DepsFirst
<1> QED
  BY <1>11, <1>12, <1>13, <1>14, <1>15, <1>16, <1>17, <1>18


(* A step that moves one running worker without releasing it disturbs       *)
(* nothing the counters and the cache decisions of the others rest on.      *)
Quiet(u, l) ==
    /\ UNCHANGED <<deps, phase, result, order, reuse, indeg, started, rebuilt>>
    /\ pc[u] \notin {"idle"} \cup Returned
    /\ l \in Control \ {"idle", "done"}
    /\ pc' = [pc EXCEPT ![u] = l]

LEMMA QuietStep ==
    ASSUME IInv, NEW u \in Units, NEW l, Quiet(u, l), stop => stop'
    PROVE  /\ InvPhase' /\ InvStarted' /\ InvIndeg' /\ InvLaunched'
           /\ DepsFirst' /\ RebuildPropagates' /\ SuccessIsComplete'
           /\ pc' \in [Units -> Control]
           /\ \A v \in Units : v # u => pc'[v] = pc[v]
           /\ pc'[u] = l
<1> USE DEF IInv, Quiet
<1>1. pc \in [Units -> Control] /\ order \subseteq Units /\ deps \in [Units -> SUBSET Units]
  BY ConstantsAssumption DEF TypeOK
<1>2. /\ pc' \in [Units -> Control]
      /\ \A v \in Units : v # u => pc'[v] = pc[v]
      /\ pc'[u] = l
  BY <1>1
<1>3. \A v \in Units : pc'[v] = "done" <=> pc[v] = "done"
  BY <1>1 DEF Returned
<1>4. \A v \in Units : pc'[v] = "idle" <=> pc[v] = "idle"
  BY <1>1
<1>5. \A v \in Units : Unfinished(v)' = Unfinished(v)
  BY <1>3, <1>1 DEF Unfinished
<1>6. InvPhase'
  BY <1>2 DEF InvPhase, Acyclic
<1>7. InvStarted'
  BY <1>4 DEF InvStarted
<1>8. InvIndeg' /\ InvLaunched'
  BY <1>5, <1>1 DEF InvIndeg, InvLaunched
<1>9. DepsFirst'
  BY <1>3, <1>4, <1>1 DEF DepsFirst
<1>10. RebuildPropagates' /\ SuccessIsComplete'
  BY <1>3, <1>1 DEF RebuildPropagates, SuccessIsComplete
<1> QED
  BY <1>2, <1>6, <1>7, <1>8, <1>9, <1>10

(* The worker steps other than the one that releases the dependents. *)
QuietWorker(u) ==
    \/ Acquire(u) \/ CheckStop(u) \/ CheckDeps(u) \/ SeeCancel(u)
    \/ ServeCached(u) \/ StartBuild(u)
    \/ RefreshScan(u) \/ RefreshTruncate(u) \/ RefreshFill(u)
    \/ Publish(u) \/ BuildReturns(u) \/ BuildFails(u) \/ RecordFailure(u)

LEMMA QuietWorkerQuiet ==
    ASSUME IInv, NEW u \in Units, QuietWorker(u)
    PROVE  /\ \E l \in Control \ {"idle", "done"} : Quiet(u, l)
           /\ stop => stop'
<1> USE DEF Quiet, Goto, planVars, schedVars, Control, Holding, Returned
<1>1. CASE Acquire(u) BY <1>1 DEF Acquire
<1>2. CASE CheckStop(u) BY <1>2 DEF CheckStop
<1>3. CASE CheckDeps(u) BY <1>3 DEF CheckDeps
<1>4. CASE SeeCancel(u) BY <1>4 DEF SeeCancel
<1>5. CASE ServeCached(u) BY <1>5 DEF ServeCached
<1>6. CASE StartBuild(u) BY <1>6 DEF StartBuild
<1>7. CASE RefreshScan(u) BY <1>7 DEF RefreshScan
<1>8. CASE RefreshTruncate(u) BY <1>8 DEF RefreshTruncate
<1>9. CASE RefreshFill(u) BY <1>9 DEF RefreshFill
<1>10. CASE Publish(u) BY <1>10 DEF Publish
<1>11. CASE BuildReturns(u) BY <1>11 DEF BuildReturns
<1>12. CASE BuildFails(u) BY <1>12 DEF BuildFails
<1>13. CASE RecordFailure(u) BY <1>13 DEF RecordFailure
<1> QED
  BY <1>1, <1>2, <1>3, <1>4, <1>5, <1>6, <1>7, <1>8, <1>9, <1>10, <1>11, <1>12, <1>13
     DEF QuietWorker

LEMMA QuietWorkerIInv ==
    ASSUME IInv, NEW u \in Units, QuietWorker(u)
    PROVE  IInv'
<1>1. PICK l \in Control \ {"idle", "done"} : Quiet(u, l)
  BY QuietWorkerQuiet
<1>2. stop => stop'
  BY QuietWorkerQuiet
<1>3. /\ InvPhase' /\ InvStarted' /\ InvIndeg' /\ InvLaunched'
      /\ DepsFirst' /\ RebuildPropagates' /\ SuccessIsComplete'
      /\ pc' \in [Units -> Control]
      /\ \A v \in Units : v # u => pc'[v] = pc[v]
      /\ pc'[u] = l
  BY <1>1, <1>2, QuietStep
<1>4. TypeOK
  BY DEF IInv
<1>5. /\ UNCHANGED <<deps, phase, result, order, reuse, indeg, started, rebuilt>>
      /\ UNCHANGED <<publishedPkg, imageRefreshed>>
  BY <1>1 DEF Quiet, QuietWorker, Acquire, CheckStop, CheckDeps, SeeCancel, ServeCached,
     StartBuild, RefreshScan, RefreshTruncate, RefreshFill, Publish, BuildReturns,
     BuildFails, RecordFailure, schedVars
<1>6. /\ depRebuilt' \in [Units -> BOOLEAN]
      /\ firstErr' \in BOOLEAN /\ stop' \in BOOLEAN /\ cancelled' \in BOOLEAN
  BY <1>4 DEF TypeOK, QuietWorker, Acquire, CheckStop, CheckDeps, SeeCancel, ServeCached,
     StartBuild, RefreshScan, RefreshTruncate, RefreshFill, Publish, BuildReturns,
     BuildFails, RecordFailure, schedVars
<1>7. meta' \in [Units -> Status]
  BY <1>4 DEF TypeOK, Status, QuietWorker, Acquire, CheckStop, CheckDeps, SeeCancel,
     ServeCached, StartBuild, RefreshScan, RefreshTruncate, RefreshFill, Publish,
     BuildReturns, BuildFails, RecordFailure
<1>8. /\ pool' \in [Units -> Version] /\ index' \in [Units -> Version]
      /\ snap' \in [Units -> [Units -> Version]]
  <2> USE <1>4 DEF TypeOK, Version
  <2>1. EmptyIndex \in [Units -> Version]
    BY DEF EmptyIndex
  <2>2. CASE RefreshTruncate(u)
    BY <2>1, <2>2 DEF RefreshTruncate
  <2>3. CASE RefreshScan(u) \/ RefreshFill(u) \/ Publish(u)
    <3>1. snap[u] \in [Units -> Version]
      OBVIOUS
    <3>2. CASE RefreshScan(u)
      BY <3>2 DEF RefreshScan
    <3>3. CASE RefreshFill(u)
      BY <3>1, <3>3 DEF RefreshFill
    <3>4. CASE Publish(u)
      BY <3>4 DEF Publish
    <3> QED
      BY <2>3, <3>2, <3>3, <3>4
  <2>4. CASE ~(RefreshScan(u) \/ RefreshTruncate(u) \/ RefreshFill(u) \/ Publish(u))
    <3>1. UNCHANGED repoVars
      BY <2>4 DEF QuietWorker, Acquire, CheckStop, CheckDeps, SeeCancel, ServeCached, StartBuild,
         BuildReturns, BuildFails, RecordFailure
    <3> QED
      BY <3>1 DEF repoVars
  <2> QED
    BY <2>2, <2>3, <2>4
<1>9. TypeOK'
  BY <1>3, <1>4, <1>5, <1>6, <1>7, <1>8 DEF TypeOK
<1>10. InvStop'
  <2>1. InvStop
    BY DEF IInv
  <2>2. CASE CheckStop(u)
    BY <2>1, <2>2, <1>3 DEF InvStop, CheckStop, schedVars
  <2>3. CASE SeeCancel(u) \/ RecordFailure(u)
    BY <2>1, <2>3, <1>3 DEF InvStop, SeeCancel, RecordFailure
  <2>4. CASE ~(CheckStop(u) \/ SeeCancel(u) \/ RecordFailure(u))
    <3>1. l \notin {"failed", "stopped"} /\ UNCHANGED <<stop, firstErr>>
      BY <2>4, <1>3, <1>4 DEF TypeOK, QuietWorker, Acquire, CheckStop, CheckDeps, SeeCancel,
         ServeCached, StartBuild, RefreshScan, RefreshTruncate, RefreshFill, Publish,
         BuildReturns, BuildFails, RecordFailure, schedVars, Goto
    <3> QED
      BY <2>1, <3>1, <1>3 DEF InvStop
  <2> QED
    BY <2>2, <2>3, <2>4
<1>11. InvDecision'
  <2>1. InvDecision /\ rebuilt \subseteq Units /\ pc \in [Units -> Control]
    BY DEF IInv, TypeOK
  <2>2. \A v \in rebuilt' : pc'[v] = "done"
    BY <2>1, <1>1, <1>3, <1>5 DEF InvDecision, Quiet, Returned
  <2>3. \A v \in Units : v # u => depRebuilt'[v] = depRebuilt[v]
    BY <1>4 DEF TypeOK, QuietWorker, Acquire, CheckStop, CheckDeps, SeeCancel, ServeCached,
       StartBuild, RefreshScan, RefreshTruncate, RefreshFill, Publish, BuildReturns,
       BuildFails, RecordFailure
  <2>4. /\ pc'[u] = "checked" => depRebuilt'[u] = (deps[u] \cap rebuilt # {})
        /\ pc'[u] = "cached" => u \in reuse /\ deps[u] \cap rebuilt = {}
        /\ pc'[u] \in {"building", "scanned", "writing", "assembling", "published", "built"}
             => ~(u \in reuse /\ deps[u] \cap rebuilt = {})
    <3> USE <2>1, <1>4 DEF TypeOK, InvDecision, Goto
    <3>1. CASE Acquire(u) BY <3>1 DEF Acquire
    <3>2. CASE CheckStop(u) BY <3>2 DEF CheckStop
    <3>3. CASE CheckDeps(u) BY <3>3 DEF CheckDeps
    <3>4. CASE SeeCancel(u) BY <3>4 DEF SeeCancel
    <3>5. CASE ServeCached(u) BY <3>5 DEF ServeCached
    <3>6. CASE StartBuild(u) BY <3>6 DEF StartBuild
    <3>7. CASE RefreshScan(u) BY <3>7 DEF RefreshScan
    <3>8. CASE RefreshTruncate(u) BY <3>8 DEF RefreshTruncate
    <3>9. CASE RefreshFill(u) BY <3>9 DEF RefreshFill
    <3>10. CASE Publish(u) BY <3>10 DEF Publish
    <3>11. CASE BuildReturns(u) BY <3>11 DEF BuildReturns
    <3>12. CASE BuildFails(u) BY <3>12 DEF BuildFails
    <3>13. CASE RecordFailure(u) BY <3>13 DEF RecordFailure
    <3> QED
      BY <3>1, <3>2, <3>3, <3>4, <3>5, <3>6, <3>7, <3>8, <3>9, <3>10, <3>11, <3>12, <3>13
         DEF QuietWorker
  <2> QED
    BY <2>1, <2>2, <2>3, <2>4, <1>3, <1>5 DEF InvDecision
<1> QED
  BY <1>3, <1>9, <1>10, <1>11 DEF IInv


(* Releasing the dependents of u takes u out of what each of them waits     *)
(* for, and lowers exactly their counters by one.                           *)
LEMMA FinishIInv ==
    ASSUME IInv, NEW u \in Units, Finish(u)
    PROVE  IInv'
<1> DEFINE in == [v \in Units |-> IF v \in order /\ u \in deps[v] THEN indeg[v] - 1
                                                                   ELSE indeg[v]]
           launched == Ready(in, order)
<1>1. TypeOK /\ InvPhase /\ InvStarted /\ InvIndeg /\ InvLaunched /\ InvStop
      /\ InvDecision /\ DepsFirst /\ RebuildPropagates /\ SuccessIsComplete
  BY DEF IInv
<1>2. /\ pc[u] \in {"built", "cached"}
      /\ rebuilt' = IF pc[u] = "built" THEN rebuilt \cup {u} ELSE rebuilt
      /\ indeg' = in
      /\ started' = started \cup launched
      /\ pc' = [v \in Units |-> IF v = u THEN "done"
                                ELSE IF v \in launched THEN "spawned" ELSE pc[v]]
      /\ UNCHANGED <<deps, order, reuse, phase, result, depRebuilt, firstErr, stop, cancelled,
                     meta, pool, index, snap>>
  BY DEF Finish, planVars, repoVars
<1> HIDE DEF in
<1>3. /\ deps \in [Units -> SUBSET Units] /\ order \subseteq Units
      /\ started \subseteq order /\ rebuilt \subseteq order /\ indeg \in [Units -> Nat]
      /\ pc \in [Units -> Control]
  BY <1>1, ConstantsAssumption DEF TypeOK
<1>4. u \in started /\ u \in order /\ phase = "run"
  BY <1>1, <1>2, <1>3 DEF InvStarted, InvPhase, Returned, TypeOK
<1>5. launched = {v \in order \ started : ~stop /\ in[v] = 0}
  BY DEF Ready
<1>6. \A v \in Units : pc'[v] = "done" <=> pc[v] = "done" \/ v = u
  <2>1. \A v \in launched : pc[v] = "idle"
    BY <1>1, <1>3, <1>5 DEF InvStarted
  <2> QED
    BY <2>1, <1>2
<1>7. \A v \in Units : Unfinished(v)' = Unfinished(v) \ {u}
  BY <1>2, <1>3, <1>6 DEF Unfinished
<1>8. \A v \in order : in[v] = Cardinality(Unfinished(v)') /\ in[v] \in Nat
  <2> TAKE v \in order
  <2>1. IsFiniteSet(Unfinished(v)) /\ indeg[v] = Cardinality(Unfinished(v))
    BY <1>1, <1>3, UnfinishedFinite DEF InvIndeg
  <2>2. CASE u \in deps[v]
    <3>1. u \in Unfinished(v)
      BY <2>2, <1>2, <1>4 DEF Unfinished
    <3>2. Cardinality(Unfinished(v) \ {u}) = Cardinality(Unfinished(v)) - 1
          /\ IsFiniteSet(Unfinished(v) \ {u})
      BY <3>1, <2>1, FS_RemoveElement
    <3>3. in[v] = indeg[v] - 1
      BY <2>2, <1>3 DEF in
    <3>4. Cardinality(Unfinished(v) \ {u}) \in Nat
      BY <3>2, FS_CardinalityType
    <3>5. Unfinished(v)' = Unfinished(v) \ {u}
      BY <1>3, <1>7
    <3> QED
      BY <3>2, <3>3, <3>4, <3>5, <2>1
  <2>3. CASE u \notin deps[v]
    <3>1. Unfinished(v)' = Unfinished(v)
      BY <2>3, <1>3, <1>7 DEF Unfinished
    <3> QED
      BY <3>1, <2>1, <2>3, <1>3 DEF in
  <2> QED
    BY <2>2, <2>3
<1>9. in \in [Units -> Nat]
  BY <1>8, <1>3 DEF in
<1>10. \A v \in order : in[v] = 0 <=> Unfinished(v)' = {}
  <2> TAKE v \in order
  <2>1. IsFiniteSet(Unfinished(v)')
    BY <1>1, <1>3, <1>7, UnfinishedFinite, FS_Subset
  <2> QED
    BY <2>1, <1>8, FS_EmptySet
<1>11. TypeOK'
  <2>1. pc' \in [Units -> Control]
    BY <1>2, <1>3 DEF Control, Returned
  <2>2. started' \subseteq order' /\ rebuilt' \subseteq order'
    BY <1>2, <1>3, <1>4, <1>5
  <2>3. publishedPkg' \in BOOLEAN /\ imageRefreshed' \in BOOLEAN
    BY DEF Finish
  <2> QED
    BY <2>1, <2>2, <2>3, <1>1, <1>2, <1>9 DEF TypeOK
<1>12. InvPhase'
  BY <1>1, <1>2, <1>4 DEF InvPhase, Acyclic
<1>13. InvStarted'
  BY <1>1, <1>2, <1>4, <1>5, <1>3 DEF InvStarted
<1>14. InvIndeg'
  BY <1>2, <1>8 DEF InvIndeg
<1>15. InvLaunched'
  BY <1>2, <1>5, <1>10 DEF InvLaunched
<1>16. InvStop'
  BY <1>1, <1>2 DEF InvStop
<1>17. \A v \in Units : v \in started => u \notin deps[v]
  BY <1>1, <1>2, <1>3, <1>4 DEF DepsFirst, InvStarted
<1>18. \A v \in started : deps'[v] \cap rebuilt' = deps[v] \cap rebuilt
  BY <1>2, <1>3, <1>17
<1>19. InvDecision'
  <2>1. \A v \in rebuilt' : pc'[v] = "done"
    BY <1>1, <1>2, <1>3, <1>6 DEF InvDecision
  <2>2. \A v \in Units : v # u /\ v \notin launched => pc'[v] = pc[v]
    BY <1>2
  <2>3. \A v \in Units : pc'[v] \in Holding => v \in started /\ pc'[v] = pc[v]
    BY <1>1, <1>2, <2>2 DEF Holding, InvStarted
  <2> QED
    BY <2>1, <2>3, <1>1, <1>2, <1>18 DEF InvDecision, Holding
<1>20. DepsFirst'
  <2>1. \A v \in order : v \in started => \A d \in deps[v] \cap order : pc[d] = "done"
    BY <1>1, <1>3 DEF DepsFirst, InvStarted
  <2>2. \A v \in launched : Unfinished(v)' = {}
    BY <1>5, <1>10
  <2>3. \A v \in Units : pc'[v] # "idle" => v \in started \/ v \in launched
    BY <1>1, <1>2, <1>4 DEF InvStarted
  <2>4. ASSUME NEW v \in order, pc'[v] # "idle", NEW d \in deps[v] \cap order
        PROVE  pc'[d] = "done"
    <3>1. CASE v \in started
      BY <3>1, <2>1, <2>4, <1>3, <1>6
    <3>2. CASE v \in launched
      BY <3>2, <2>2, <2>4, <1>2, <1>3 DEF Unfinished
    <3> QED
      BY <3>1, <3>2, <2>3, <2>4, <1>3
  <2> QED
    BY <2>4, <1>2 DEF DepsFirst
<1>21. RebuildPropagates'
  <2>1. \A v \in order : pc'[v] = "done" => v \in started
    BY <1>1, <1>3, <1>4, <1>6 DEF InvStarted
  <2> QED
    BY <2>1, <1>1, <1>2, <1>3, <1>6, <1>18 DEF RebuildPropagates, InvDecision
<1>22. SuccessIsComplete'
  BY <1>1, <1>2, <1>4 DEF SuccessIsComplete, InvPhase
<1> QED
  BY <1>11, <1>12, <1>13, <1>14, <1>15, <1>16, <1>19, <1>20, <1>21, <1>22 DEF IInv

(* When every goroutine returned and none recorded an error, an unfinished  *)
(* unit whose dependencies are all finished would have been launched; a     *)
(* graph without cycles has such a unit as long as any is unfinished.       *)
LEMMA DrainedComplete ==
    ASSUME IInv, Drained, ~firstErr
    PROVE  \A u \in order : pc[u] = "done"
<1> DEFINE S == {u \in order : pc[u] # "done"}
<1>1. order \subseteq Units /\ deps \in [Units -> SUBSET Units]
  BY ConstantsAssumption DEF IInv, TypeOK
<1>2. ~stop /\ phase = "run" /\ Acyclic
  BY DEF IInv, InvStop, Drained, InvPhase
<1>3. SUFFICES ASSUME S # {} PROVE FALSE
  OBVIOUS
<1>4. PICK u \in S : deps[u] \cap S = {}
  BY <1>1, <1>2, <1>3 DEF Acyclic
<1>5. Unfinished(u) = {}
  BY <1>4 DEF Unfinished
<1>6. u \in started
  BY <1>2, <1>5 DEF IInv, InvLaunched
<1>7. pc[u] \in {"failed", "stopped"}
  BY <1>6 DEF Drained, Returned
<1> QED
  BY <1>1, <1>2, <1>7 DEF IInv, InvStop

LEMMA ReturnIInv ==
    ASSUME IInv, ReturnError \/ ReturnOk \/ ReturnRefreshError
    PROVE  IInv'
<1>1. /\ Drained /\ phase' = "done" /\ result' \in {"ok", "error"}
      /\ UNCHANGED <<deps, order, reuse, pc, depRebuilt, indeg, started, rebuilt, publishedPkg,
                     imageRefreshed, firstErr, stop, cancelled, meta, pool, snap>>
      /\ index' \in {pool, index, EmptyIndex}
  BY DEF ReturnError, ReturnOk, ReturnRefreshError, planVars, schedVars, repoVars
<1>2. result' = "ok" => ~firstErr
  BY DEF ReturnError, ReturnOk, ReturnRefreshError
<1>3. TypeOK'
  BY <1>1 DEF IInv, TypeOK, EmptyIndex, Version
<1>4. InvPhase'
  BY <1>1 DEF IInv, InvPhase, InvStarted, Drained
<1>5. InvStarted' /\ InvStop' /\ InvDecision' /\ DepsFirst' /\ RebuildPropagates'
  BY <1>1 DEF IInv, InvStarted, InvStop, InvDecision, DepsFirst, RebuildPropagates
<1>6. InvIndeg' /\ InvLaunched'
  BY <1>1 DEF IInv, InvIndeg, InvLaunched, Unfinished, Drained
<1>7. SuccessIsComplete'
  BY <1>1, <1>2, DrainedComplete DEF SuccessIsComplete
<1> QED
  BY <1>3, <1>4, <1>5, <1>6, <1>7 DEF IInv

LEMMA RefuseIInv ==
    ASSUME IInv, Refuse
    PROVE  IInv'
<1>1. /\ phase = "plan" /\ phase' = "done" /\ result' \in {"ok", "error"}
      /\ UNCHANGED <<deps, order, reuse, pc, depRebuilt, indeg, started, rebuilt, publishedPkg,
                     imageRefreshed, firstErr, stop, cancelled, meta, pool, index, snap>>
  BY DEF Refuse, schedVars, repoVars
<1>2. order = {} /\ \A u \in Units : pc[u] = "idle"
  BY <1>1 DEF IInv, InvPhase
<1> QED
  BY <1>1, <1>2 DEF IInv, TypeOK, InvPhase, InvStarted, InvStop, InvDecision, DepsFirst,
     RebuildPropagates, InvIndeg, InvLaunched, Unfinished, SuccessIsComplete

LEMMA IdleIInv ==
    ASSUME IInv, Cancel \/ UNCHANGED vars
    PROVE  IInv'
<1>1. /\ UNCHANGED <<deps, phase, result, order, reuse, pc, depRebuilt, indeg, started, rebuilt,
                     publishedPkg, imageRefreshed, firstErr, stop, meta, pool, index, snap>>
      /\ cancelled' \in {cancelled, TRUE}
  BY DEF Cancel, vars, planVars, schedVars, repoVars
<1>2. TypeOK' /\ InvStarted' /\ InvStop'
  BY <1>1 DEF IInv, TypeOK, InvStarted, InvStop
<1>3. InvPhase' /\ InvIndeg' /\ InvLaunched'
  BY <1>1 DEF IInv, InvPhase, Acyclic, InvIndeg, InvLaunched, Unfinished
<1>4. InvDecision' /\ DepsFirst' /\ RebuildPropagates' /\ SuccessIsComplete'
  BY <1>1 DEF IInv, InvDecision, DepsFirst, RebuildPropagates, SuccessIsComplete
<1> QED
  BY <1>2, <1>3, <1>4 DEF IInv

LEMMA NextIInv ==
    ASSUME IInv, [Next]_vars
    PROVE  IInv'
<1>1. CASE Refuse BY <1>1, RefuseIInv
<1>2. CASE Plan BY <1>2, PlanIInv
<1>3. CASE ReturnError \/ ReturnOk \/ ReturnRefreshError BY <1>3, ReturnIInv
<1>4. CASE Cancel \/ UNCHANGED vars BY <1>4, IdleIInv
<1>5. CASE Terminated BY <1>5, IdleIInv DEF Terminated
<1>6. ASSUME NEW u \in Units, Worker(u) PROVE IInv'
  <2>1. CASE Finish(u) BY <2>1, FinishIInv
  <2>2. CASE QuietWorker(u) BY <2>2, QuietWorkerIInv
  <2> QED BY <2>1, <2>2, <1>6 DEF Worker, QuietWorker
<1> QED
  BY <1>1, <1>2, <1>3, <1>4, <1>5, <1>6 DEF Next, Main

(* Every reachable state of the scheduler satisfies the inductive           *)
(* invariant.                                                               *)
THEOREM SpecIInv == Spec => []IInv
<1>1. IInv /\ [Next]_vars => IInv'
  BY NextIInv
<1> QED
  BY <1>1, InitIInv, PTL DEF Spec

(* Type correctness: in particular indeg never falls below zero, so no      *)
(* dependency is counted off twice.                                         *)
THEOREM TypeCorrect == Spec => []TypeOK
BY SpecIInv, PTL DEF IInv

(* No worker starts before every dependency in the build is done.           *)
THEOREM DepsFirstHolds == Spec => []DepsFirst
BY SpecIInv, PTL DEF IInv

(* A rebuilt dependency invalidates every cached dependent.                 *)
THEOREM RebuildPropagatesHolds == Spec => []RebuildPropagates
BY SpecIInv, PTL DEF IInv

(* BuildUnits returns nil only when the whole build order is done.          *)
THEOREM SuccessIsCompleteHolds == Spec => []SuccessIsComplete
BY SpecIInv, PTL DEF IInv


---------------------------------------------------------------------------
(* The workers that hold the semaphore are finitely many, and taking it is  *)
(* the only step that adds one.                                             *)
LEMMA HoldersStep ==
    ASSUME IInv, BoundedWork, [Next]_vars
    PROVE  BoundedWork'
<1>1. pc \in [Units -> Control]
  BY DEF IInv, TypeOK
<1>2. IsFiniteSet(Holders)
  BY FS_Subset, ConstantsAssumption DEF Holders
<1>3. ASSUME Holders' \subseteq Holders PROVE BoundedWork'
  <2>1. Cardinality(Holders') \in Nat /\ Cardinality(Holders) \in Nat
        /\ Cardinality(Holders') <= Cardinality(Holders)
    BY <1>2, <1>3, FS_Subset, FS_CardinalityType
  <2> QED
    BY <2>1, ConstantsAssumption DEF BoundedWork
<1>4. ASSUME NEW u \in Units, Acquire(u) PROVE BoundedWork'
  <2>1. Holders' = Holders \cup {u}
    BY <1>1, <1>4 DEF Holders, Acquire, Goto, Holding
  <2>2. u \notin Holders
    BY <1>4 DEF Acquire, Holders, Holding
  <2>3. Cardinality(Holders') = Cardinality(Holders) + 1
    BY <2>1, <2>2, <1>2, FS_AddElement
  <2>4. Cardinality(Holders) < Parallel /\ Cardinality(Holders) \in Nat
    BY <1>4, <1>2, FS_CardinalityType DEF Acquire
  <2> QED
    BY <2>3, <2>4, ConstantsAssumption DEF BoundedWork
<1>5. ASSUME NEW u \in Units, QuietWorker(u), ~Acquire(u) PROVE Holders' \subseteq Holders
  BY <1>1, <1>5 DEF Holders, Holding, Goto, QuietWorker, CheckStop, CheckDeps, SeeCancel,
     ServeCached, StartBuild, RefreshScan, RefreshTruncate, RefreshFill, Publish,
     BuildReturns, BuildFails, RecordFailure
<1>6. ASSUME NEW u \in Units, Finish(u) PROVE Holders' \subseteq Holders
  BY <1>1, <1>6 DEF Holders, Holding, Finish
<1>7. CASE Plan
  <2>1. Holders' \subseteq Holders
    BY <1>7 DEF Holders, Holding, Plan
  <2> QED BY <2>1, <1>3
<1>8. CASE Refuse \/ ReturnError \/ ReturnOk \/ ReturnRefreshError \/ Cancel
           \/ Terminated \/ UNCHANGED vars
  <2>1. pc' = pc
    BY <1>8 DEF Refuse, ReturnError, ReturnOk, ReturnRefreshError, Cancel, Terminated, vars
  <2> QED BY <2>1, <1>3 DEF Holders
<1>9. ASSUME NEW u \in Units, Worker(u) PROVE BoundedWork'
  BY <1>9, <1>3, <1>4, <1>5, <1>6 DEF Worker, QuietWorker
<1> QED
  BY <1>7, <1>8, <1>9 DEF Next, Main

(* At most Parallel workers build at any time.                              *)
THEOREM BoundedWorkHolds == Spec => []BoundedWork
<1>1. Init => BoundedWork
  <2> SUFFICES ASSUME Init PROVE BoundedWork
    OBVIOUS
  <2>1. Holders = {}
    BY DEF Init, Holders, Holding
  <2> QED
    BY <2>1, FS_EmptySet, ConstantsAssumption DEF BoundedWork
<1>2. IInv /\ BoundedWork /\ [Next]_vars => BoundedWork'
  BY HoldersStep
<1> QED
  BY <1>1, <1>2, SpecIInv, PTL DEF Spec

LEMMA StopStep ==
    ASSUME IInv, [Next]_vars, stop
    PROVE  started' = started
<1>1. ~Plan
  BY DEF Plan, IInv, InvPhase
<1>2. ASSUME NEW u \in Units, Finish(u) PROVE started' = started
  BY <1>2 DEF Finish, Ready
<1>3. ASSUME NEW u \in Units, QuietWorker(u) PROVE started' = started
  BY <1>3 DEF QuietWorker, Acquire, CheckStop, CheckDeps, SeeCancel, ServeCached,
     StartBuild, RefreshScan, RefreshTruncate, RefreshFill, Publish, BuildReturns,
     BuildFails, RecordFailure, schedVars
<1>4. ASSUME Refuse \/ ReturnError \/ ReturnOk \/ ReturnRefreshError \/ Cancel
             \/ Terminated \/ UNCHANGED vars
      PROVE  started' = started
  BY <1>4 DEF Refuse, ReturnError, ReturnOk, ReturnRefreshError, Cancel, Terminated,
     vars, schedVars
<1>5. ASSUME NEW u \in Units, Worker(u) PROVE started' = started
  BY <1>5, <1>2, <1>3 DEF Worker, QuietWorker
<1> QED
  BY <1>1, <1>4, <1>5 DEF Next, Main

(* A stopping build launches nothing more. *)
THEOREM NoLaunchAfterStopHolds == Spec => NoLaunchAfterStop
<1>1. IInv /\ [Next]_vars => [stop => started' = started]_vars
  BY StopStep
<1> QED
  BY <1>1, SpecIInv, PTL DEF Spec, NoLaunchAfterStop

---------------------------------------------------------------------------
(* Refinement: only Finish changes what the sequential loop sees. *)
LEMMA FinishRefines ==
    ASSUME IInv, NEW u \in Units, Finish(u)
    PROVE  Topo!TProcess(u)
<1>1. /\ pc \in [Units -> Control] /\ deps \in [Units -> SUBSET Units]
      /\ order \subseteq Units /\ started \subseteq order /\ phase \in {"plan", "run", "done"}
  BY ConstantsAssumption DEF IInv, TypeOK
<1>2. phase = "run" /\ u \in order /\ pc[u] \in {"built", "cached"} /\ pc[u] # "idle"
  BY <1>1 DEF IInv, InvPhase, InvStarted, Returned, Finish
<1>3. \A v \in Units : pc'[v] = "done" <=> pc[v] = "done" \/ v = u
  BY <1>1 DEF Finish, Ready, IInv, InvStarted
<1>4. {v \in Units : pc'[v] = "done"} = {v \in Units : pc[v] = "done"} \cup {u}
  BY <1>3
<1>5. deps[u] \cap order \subseteq {v \in Units : pc[v] = "done"}
  BY <1>1, <1>2 DEF IInv, DepsFirst
<1>6. rebuilt' = IF u \in reuse /\ deps[u] \cap rebuilt = {} THEN rebuilt ELSE rebuilt \cup {u}
  BY <1>2 DEF Finish, IInv, InvDecision
<1>7. UNCHANGED <<deps, order, reuse, phase, result>>
  BY DEF Finish, planVars
<1> QED
  BY <1>2, <1>4, <1>5, <1>6, <1>7 DEF Topo!TProcess

LEMMA QuietRefines ==
    ASSUME IInv, NEW u \in Units, QuietWorker(u)
    PROVE  UNCHANGED Topo!tvars
<1>1. PICK l \in Control \ {"idle", "done"} : Quiet(u, l)
  BY QuietWorkerQuiet
<1>2. pc \in [Units -> Control]
  BY DEF IInv, TypeOK
<1>3. \A v \in Units : pc'[v] = "done" <=> pc[v] = "done"
  BY <1>1, <1>2 DEF Quiet, Returned
<1>4. {v \in Units : pc'[v] = "done"} = {v \in Units : pc[v] = "done"}
  BY <1>3
<1> QED
  BY <1>1, <1>4 DEF Quiet, Topo!tvars

LEMMA MainRefines ==
    ASSUME IInv, Main
    PROVE  Topo!TNext
<1>1. CASE Refuse
  <2>1. phase = "plan" /\ phase' = "done" /\ result' \in {"ok", "error"}
        /\ UNCHANGED <<deps, order, reuse, pc, rebuilt>>
    BY <1>1 DEF Refuse, schedVars
  <2> QED
    BY <2>1 DEF Topo!TNext, Topo!TRefuse
<1>2. CASE Plan
  <2>1. /\ phase = "plan" /\ phase' = "run"
        /\ \A u \in Units : pc[u] = "idle" /\ pc'[u] \in {"idle", "spawned"}
        /\ UNCHANGED <<deps, rebuilt>>
    BY <1>2 DEF Plan, IInv, InvPhase
  <2>2. {v \in Units : pc'[v] = "done"} = {v \in Units : pc[v] = "done"}
    BY <2>1
  <2>3. order' \in SUBSET Units /\ reuse' \in SUBSET order'
    BY <1>2 DEF Plan, BuildOrder, PlanOf, Closure
  <2> QED
    BY <2>1, <2>2, <2>3 DEF Topo!TNext, Topo!TPlan
<1>3. CASE ReturnOk
  <2>1. /\ phase = "run" /\ phase' = "done" /\ result' = "ok"
        /\ UNCHANGED <<deps, order, reuse, pc, rebuilt>>
    BY <1>3 DEF ReturnOk, Drained, planVars, schedVars
  <2>2. \A u \in order : pc[u] = "done"
    BY <1>3, DrainedComplete DEF ReturnOk
  <2>3. \A u \in Units : pc[u] = "done" => u \in order
    BY DEF IInv, InvStarted, TypeOK
  <2>4. {v \in Units : pc[v] = "done"} = order
    BY <2>2, <2>3 DEF IInv, TypeOK
  <2> QED
    BY <2>1, <2>4 DEF Topo!TNext, Topo!TReturnOk
<1>4. CASE ReturnError \/ ReturnRefreshError
  <2>1. /\ phase = "run" /\ phase' = "done" /\ result' = "error"
        /\ UNCHANGED <<deps, order, reuse, pc, rebuilt>>
    BY <1>4 DEF ReturnError, ReturnRefreshError, Drained, planVars, schedVars
  <2> QED
    BY <2>1 DEF Topo!TNext, Topo!TReturnError
<1> QED
  BY <1>1, <1>2, <1>3, <1>4 DEF Main

LEMMA StepRefines ==
    ASSUME IInv, [Next]_vars
    PROVE  [Topo!TNext]_Topo!tvars
<1>1. CASE Main BY <1>1, MainRefines
<1>2. CASE Cancel \/ Terminated \/ UNCHANGED vars
  <2>1. UNCHANGED <<deps, order, reuse, pc, rebuilt, phase, result>>
    BY <1>2 DEF Cancel, Terminated, vars, planVars, schedVars
  <2> QED BY <2>1 DEF Topo!tvars
<1>3. ASSUME NEW u \in Units, Worker(u) PROVE [Topo!TNext]_Topo!tvars
  <2>1. CASE Finish(u)
    BY <2>1, FinishRefines DEF Topo!TNext
  <2>2. CASE QuietWorker(u)
    BY <2>2, QuietRefines
  <2> QED
    BY <2>1, <2>2, <1>3 DEF Worker, QuietWorker
<1> QED
  BY <1>1, <1>2, <1>3 DEF Next

(* The worker pool implements the sequential loop over the build order.     *)
THEOREM Refinement == Spec => ImplementsTopo
<1>1. Init => Topo!TInit
  BY DEF Init, Topo!TInit
<1>2. IInv /\ [Next]_vars => [Topo!TNext]_Topo!tvars
  BY StepRefines
<1> QED
  BY <1>1, <1>2, SpecIInv, PTL DEF Spec, ImplementsTopo, Topo!TSpec

---------------------------------------------------------------------------
(* What a successful build leaves behind. *)

(* Up to the point where it is rebuilt, a unit the plan reuses is as valid  *)
(* as the plan found it; a unit that is done was reused or rebuilt.         *)
InvReuse ==
    /\ \A u \in reuse :
         \/ pc[u] \in {"idle", "spawned", "acquired", "checked", "cached"}
         \/ pc[u] = "done" /\ u \notin rebuilt
         => CacheValid(u)
    /\ \A u \in Units : pc[u] = "done" => u \in reuse \cup rebuilt

(* Only images refresh, only packages publish; what was built is recorded   *)
(* complete unless the build was cancelled, and is in the repository.       *)
InvBuilt ==
    /\ \A u \in Units :
         /\ pc[u] \in {"scanned", "writing", "assembling"} => Class[u] = "image"
         /\ pc[u] = "published" => IsPackage(u) /\ pool[u] # "none"
         /\ pc[u] = "built" \/ u \in rebuilt =>
              /\ cancelled \/ meta[u] = "complete"
              /\ IsPackage(u) /\ u \in HasWork => pool[u] # "none"

(* The flags say what kinds of units were rebuilt. *)
InvFlags ==
    /\ publishedPkg <=> \E u \in rebuilt : IsPackage(u)
    /\ imageRefreshed <=> \E u \in rebuilt : Class[u] = "image"

(* Where one image is built, nobody else writes the index it assembles from,*)
(* and its dependencies do not change once it scanned them.                 *)
OneImage ==
    \A u, v \in HasWork \ Unbuildable : Class[u] = "image" /\ Class[v] = "image" => u = v

(* The image whose refresh is complete; once it is done its packages stay   *)
(* listed unless the final refresh fails.                                   *)
Listed(u) ==
    \/ pc[u] = "assembling"
    \/ pc[u] = "built" /\ Class[u] = "image" /\ u \in HasWork
    \/ pc[u] = "done" /\ u \in rebuilt \cap HasWork /\ Class[u] = "image" /\ result # "error"

InvScan ==
    /\ order \cap Unbuildable = {}
    /\ \A u \in Units : pc[u] \in {"scanned", "writing", "assembling"} => u \in HasWork \ Unbuildable
    /\ \A u \in Units : pc[u] \in {"scanned", "writing"} =>
         \A d \in deps[u] : snap[u][d] = pool[d]
    /\ \A u \in Units : Listed(u) => \A d \in deps[u] : index[d] = pool[d]

JInv == InvReuse /\ InvBuilt /\ InvFlags /\ SuccessIsReusable

KInv == InvScan /\ IndexCurrentAtSuccess

LEMMA InitJInv == Init => JInv /\ KInv
<1> SUFFICES ASSUME Init PROVE JInv /\ KInv
  OBVIOUS
<1> USE DEF Init
<1>1. InvReuse /\ InvBuilt /\ InvFlags /\ InvScan
  BY DEF InvReuse, InvBuilt, InvFlags, InvScan, Listed
<1>2. SuccessIsReusable /\ IndexCurrentAtSuccess
  BY DEF SuccessIsReusable, IndexCurrentAtSuccess
<1> QED
  BY <1>1, <1>2 DEF JInv, KInv

(* One worker moves: what the others rely on, meta and pool of their own    *)
(* units, stays.                                                            *)
LEMMA QuietJInv ==
    ASSUME IInv, JInv, NEW u \in Units, QuietWorker(u)
    PROVE  JInv'
<1>1. PICK l \in Control \ {"idle", "done"} : Quiet(u, l)
  BY QuietWorkerQuiet
<1>2. /\ \A v \in Units : v # u => pc'[v] = pc[v]
      /\ pc'[u] = l /\ pc[u] # "done" /\ pc[u] \in Control /\ phase = "run" /\ result = "none"
  BY <1>1, QuietWorkerQuiet, QuietStep DEF Quiet, Returned, IInv, InvPhase, TypeOK
<1>3. /\ UNCHANGED <<deps, phase, result, order, reuse, rebuilt, publishedPkg, imageRefreshed>>
      /\ cancelled' = cancelled
      /\ meta' \in [Units -> Status] /\ pool' \in [Units -> Version]
      /\ \A v \in Units : v # u => meta'[v] = meta[v] /\ pool'[v] = pool[v]
  BY DEF QuietWorker, Acquire, CheckStop, CheckDeps, SeeCancel, ServeCached, StartBuild,
     RefreshScan, RefreshTruncate, RefreshFill, Publish, BuildReturns, BuildFails,
     RecordFailure, schedVars, planVars, repoVars, IInv, TypeOK, Status, Version
<1>4. rebuilt \subseteq Units /\ reuse \subseteq Units /\ u \notin rebuilt
  BY <1>2 DEF IInv, TypeOK, InvDecision
<1>5. InvReuse'
  <2>1. \A v \in Units : v # u => CacheValid(v)' = CacheValid(v)
    BY <1>3 DEF CacheValid, IsPackage
  <2>2. u \in reuse /\ l \in {"spawned", "acquired", "checked", "cached"} => CacheValid(u)'
    <3> SUFFICES ASSUME u \in reuse, l \in {"spawned", "acquired", "checked", "cached"}
                 PROVE  CacheValid(u)'
      OBVIOUS
    <3>1. Acquire(u) \/ CheckDeps(u) \/ ServeCached(u)
      BY <1>2 DEF QuietWorker, CheckStop, SeeCancel, StartBuild, RefreshScan, RefreshTruncate,
         RefreshFill, Publish, BuildReturns, BuildFails, RecordFailure, Goto, IInv, TypeOK
    <3>2. pc[u] \in {"spawned", "acquired", "checked"} /\ meta' = meta /\ pool' = pool
      BY <3>1 DEF Acquire, CheckDeps, ServeCached, repoVars
    <3> QED
      BY <3>2 DEF JInv, InvReuse, CacheValid
  <2> QED
    BY <1>2, <1>3, <1>4, <2>1, <2>2 DEF JInv, InvReuse
<1>6. InvBuilt'
  <2>1. /\ l \in {"scanned", "writing", "assembling"} => Class[u] = "image"
        /\ l = "published" => IsPackage(u) /\ pool'[u] # "none"
        /\ l = "built" =>
             /\ cancelled \/ meta'[u] = "complete"
             /\ IsPackage(u) /\ u \in HasWork => pool'[u] # "none"
    <3> USE <1>2 DEF Goto, IInv, TypeOK, JInv, InvBuilt, IsPackage
    <3>1. CASE Acquire(u) \/ CheckStop(u) \/ CheckDeps(u) \/ SeeCancel(u)
      BY <3>1 DEF Acquire, CheckStop, CheckDeps, SeeCancel
    <3>2. CASE ServeCached(u) \/ StartBuild(u) \/ BuildFails(u) \/ RecordFailure(u)
      BY <3>2 DEF ServeCached, StartBuild, BuildFails, RecordFailure
    <3>3. CASE RefreshScan(u) \/ RefreshTruncate(u) \/ RefreshFill(u)
      BY <3>3 DEF RefreshScan, RefreshTruncate, RefreshFill
    <3>4. CASE Publish(u)
      BY <3>4 DEF Publish
    <3>5. CASE BuildReturns(u)
      BY <3>5 DEF BuildReturns, repoVars
    <3> QED
      BY <3>1, <3>2, <3>3, <3>4, <3>5 DEF QuietWorker
  <2> QED
    BY <1>2, <1>3, <1>4, <2>1 DEF JInv, InvBuilt, IsPackage
<1>7. InvFlags'
  <2>1. UNCHANGED <<rebuilt, publishedPkg, imageRefreshed>>
    BY DEF QuietWorker, Acquire, CheckStop, CheckDeps, SeeCancel, ServeCached, StartBuild,
       RefreshScan, RefreshTruncate, RefreshFill, Publish, BuildReturns, BuildFails,
       RecordFailure, schedVars
  <2> QED
    BY <2>1 DEF JInv, InvFlags, IsPackage
<1>8. SuccessIsReusable'
  BY <1>2, <1>3 DEF SuccessIsReusable
<1> QED
  BY <1>5, <1>6, <1>7, <1>8 DEF JInv

LEMMA FinishJInv ==
    ASSUME IInv, JInv, NEW u \in Units, Finish(u)
    PROVE  JInv'
<1>1. /\ pc[u] \in {"built", "cached"} /\ phase = "run" /\ result = "none" /\ u \notin rebuilt
      /\ pc[u] = "cached" => u \in reuse
  BY DEF Finish, IInv, InvPhase, InvDecision, Returned, TypeOK
<1>2. /\ rebuilt' = (IF pc[u] = "built" THEN rebuilt \cup {u} ELSE rebuilt)
      /\ imageRefreshed' = (imageRefreshed \/ (pc[u] = "built" /\ Class[u] = "image"))
      /\ publishedPkg' = (publishedPkg \/ (pc[u] = "built" /\ IsPackage(u)))
      /\ UNCHANGED <<deps, order, reuse, phase, result, cancelled, meta, pool, index>>
  BY DEF Finish, planVars, repoVars
<1>3. /\ pc'[u] = "done"
      /\ \A v \in Units : v # u => pc'[v] = pc[v] \/ (pc[v] = "idle" /\ pc'[v] = "spawned")
      /\ reuse \subseteq Units /\ rebuilt \subseteq Units
  BY DEF Finish, Ready, IInv, InvStarted, TypeOK
<1>4. \A v \in Units : CacheValid(v)' = CacheValid(v)
  BY <1>2 DEF CacheValid, IsPackage
<1>5. InvReuse'
  BY <1>1, <1>2, <1>3, <1>4 DEF JInv, InvReuse
<1>6. InvBuilt'
  BY <1>1, <1>2, <1>3 DEF JInv, InvBuilt, IsPackage
<1>7. InvFlags'
  BY <1>2 DEF JInv, InvFlags, IsPackage
<1>8. SuccessIsReusable'
  BY <1>1, <1>2 DEF SuccessIsReusable
<1> QED
  BY <1>5, <1>6, <1>7, <1>8 DEF JInv

LEMMA PlanJInv ==
    ASSUME IInv, JInv, Plan
    PROVE  JInv'
<1>1. /\ phase = "plan" /\ phase' = "run" /\ result = "none"
      /\ \A u \in Units : pc[u] = "idle" /\ pc'[u] \in {"idle", "spawned"}
      /\ rebuilt = {}
      /\ UNCHANGED <<deps, result, rebuilt, publishedPkg, imageRefreshed, cancelled, meta,
                     pool, index>>
  BY DEF Plan, IInv, InvPhase, TypeOK, repoVars
<1>2. \A u \in reuse' : u \in Units /\ CacheValid(u)'
  BY <1>1 DEF Plan, PlanOf, BuildOrder, Closure, CacheValid, IsPackage
<1>3. InvReuse' /\ InvBuilt'
  BY <1>1, <1>2 DEF InvReuse, InvBuilt
<1>4. InvFlags'
  BY <1>1 DEF JInv, InvFlags, IsPackage
<1>5. SuccessIsReusable'
  BY <1>1 DEF SuccessIsReusable
<1> QED
  BY <1>3, <1>4, <1>5 DEF JInv

(* Every unit is done, so it was rebuilt, and recorded, or reused, and      *)
(* still as valid as it was; and nobody is left between a write to the      *)
(* repository and the flag that asks for the final refresh.                 *)
LEMMA ReturnJInv ==
    ASSUME IInv, JInv, ReturnError \/ ReturnOk \/ ReturnRefreshError
    PROVE  JInv'
<1>1. /\ Drained /\ phase' = "done" /\ result' \in {"ok", "error"}
      /\ UNCHANGED <<deps, order, reuse, pc, rebuilt, publishedPkg, imageRefreshed, cancelled,
                     meta, pool>>
  BY DEF ReturnError, ReturnOk, ReturnRefreshError, planVars, schedVars, repoVars
<1>2. InvReuse' /\ InvBuilt'
  BY <1>1 DEF JInv, InvReuse, InvBuilt, CacheValid, IsPackage
<1>3. InvFlags'
  BY <1>1 DEF JInv, InvFlags, IsPackage
<1>4. ASSUME ReturnOk PROVE \A u \in order : pc[u] = "done"
  BY <1>4, DrainedComplete DEF ReturnOk
<1>5. SuccessIsReusable'
  <2>1. ASSUME ReturnOk, ~cancelled, NEW u \in order \cap HasWork PROVE CacheValid(u)'
    <3>1. pc[u] = "done" /\ u \in Units
      BY <2>1, <1>4 DEF IInv, TypeOK
    <3>2. CASE u \in rebuilt
      BY <1>1, <2>1, <3>1, <3>2 DEF JInv, InvBuilt, CacheValid, IsPackage
    <3>3. CASE u \notin rebuilt
      BY <1>1, <3>1, <3>3 DEF JInv, InvReuse, CacheValid, IsPackage
    <3> QED
      BY <3>2, <3>3
  <2>2. result' = "ok" => ReturnOk
    BY DEF ReturnError, ReturnRefreshError
  <2> QED
    BY <1>1, <2>1, <2>2 DEF SuccessIsReusable
<1> QED
  BY <1>2, <1>3, <1>5 DEF JInv

LEMMA OtherJInv ==
    ASSUME IInv, JInv, Refuse \/ Cancel \/ UNCHANGED vars
    PROVE  JInv'
<1>1. /\ UNCHANGED <<deps, order, reuse, pc, rebuilt, publishedPkg, imageRefreshed, meta, pool>>
      /\ cancelled' \in {cancelled, TRUE}
  BY DEF Refuse, Cancel, vars, planVars, schedVars, repoVars
<1>2. cancelled => cancelled'
  BY <1>1
<1>3. InvReuse' /\ InvFlags'
  BY <1>1 DEF JInv, InvReuse, InvFlags, CacheValid, IsPackage
<1>4. InvBuilt'
  BY <1>1, <1>2 DEF JInv, InvBuilt, IsPackage
<1>5. CASE Refuse
  <2>1. order = {}
    BY <1>5 DEF Refuse, IInv, InvPhase
  <2> QED
    BY <1>1, <1>3, <1>4, <2>1 DEF JInv, SuccessIsReusable
<1>6. CASE Cancel
  <2>1. result' = "none"
    BY <1>6 DEF Cancel, IInv, InvPhase
  <2> QED
    BY <1>3, <1>4, <2>1 DEF JInv, SuccessIsReusable
<1>7. CASE UNCHANGED vars
  <2>1. SuccessIsReusable'
    BY <1>7 DEF JInv, SuccessIsReusable, CacheValid, IsPackage, vars
  <2> QED
    BY <1>3, <1>4, <2>1 DEF JInv
<1> QED
  BY <1>5, <1>6, <1>7

LEMMA NextJInv ==
    ASSUME IInv, JInv, [Next]_vars
    PROVE  JInv'
<1>1. CASE Refuse \/ Cancel \/ Terminated \/ UNCHANGED vars
  BY <1>1, OtherJInv DEF Terminated
<1>2. CASE Plan \/ ReturnError \/ ReturnOk \/ ReturnRefreshError
  BY <1>2, PlanJInv, ReturnJInv
<1>3. ASSUME NEW u \in Units, Worker(u) PROVE JInv'
  BY <1>3, QuietJInv, FinishJInv DEF Worker, QuietWorker
<1> QED
  BY <1>1, <1>2, <1>3 DEF Next, Main

(* What build.json, the repository and its index hold along a build         *)
(* (executor.go's workers and refreshes) satisfies the inductive invariant. *)
THEOREM SpecJInv == Spec => []JInv
<1>1. IInv /\ JInv /\ [Next]_vars => JInv'
  BY NextJInv
<1>2. Init => JInv
  BY InitJInv
<1> QED
  BY <1>1, <1>2, SpecIInv, PTL DEF Spec

(* After an uncancelled success the next build could reuse every unit.      *)
THEOREM SuccessIsReusableHolds == Spec => []SuccessIsReusable
BY SpecJInv, PTL DEF JInv

---------------------------------------------------------------------------
(* What an image is assembled from. *)

(* The dependencies of a unit that runs are done or no part of the build,   *)
(* so none of them publishes.                                               *)
LEMMA DepsStay ==
    ASSUME IInv, NEW u \in Units, pc[u] # "idle", NEW v \in Units, pc[v] = "building"
    PROVE  v \notin deps[u]
<1>1. u \in order /\ v \in order
  BY DEF IInv, InvStarted, TypeOK
<1> QED
  BY <1>1 DEF IInv, DepsFirst

LEMMA WorkerScan ==
    ASSUME OneImage, IInv, JInv, KInv, NEW u \in Units, QuietWorker(u)
    PROVE  KInv'
<1>1. PICK l \in Control \ {"idle", "done"} : Quiet(u, l)
  BY QuietWorkerQuiet
<1>2. /\ \A v \in Units : v # u => pc'[v] = pc[v]
      /\ pc'[u] = l /\ pc[u] \notin {"idle", "done"} /\ l \notin {"idle", "done"}
      /\ UNCHANGED <<deps, order, rebuilt, result>> /\ deps \in [Units -> SUBSET Units]
  BY <1>1, QuietWorkerQuiet, QuietStep, ConstantsAssumption DEF Quiet, IInv, TypeOK, Returned
<1>3. u \in order /\ order \cap Unbuildable = {} /\ result = "none" /\ phase = "run"
  <2>1. u \in order
    BY <1>2 DEF IInv, InvStarted, TypeOK
  <2> QED
    BY <1>1, <1>2, <2>1 DEF IInv, InvPhase, KInv, InvScan, Quiet, TypeOK
<1>4. IndexCurrentAtSuccess'
  BY <1>2, <1>3 DEF IndexCurrentAtSuccess
<1>5. \A v \in Units : pc[v] \in {"scanned", "writing"} \/ Listed(v) =>
        v \in HasWork \ Unbuildable /\ Class[v] = "image"
  <2> SUFFICES ASSUME NEW v \in Units, pc[v] \in {"scanned", "writing"} \/ Listed(v)
               PROVE  v \in HasWork \ Unbuildable /\ Class[v] = "image"
    OBVIOUS
  <2>1. CASE pc[v] \in {"scanned", "writing", "assembling"}
    BY <2>1 DEF KInv, InvScan, JInv, InvBuilt
  <2>2. CASE pc[v] \in {"built", "done"}
    <3>1. v \in order
      BY <2>2 DEF IInv, InvStarted, TypeOK
    <3> QED
      BY <2>2, <3>1, <1>3 DEF Listed
  <2> QED
    BY <2>1, <2>2 DEF Listed
<1>6. \A v \in Units : v # u => Listed(v)' = Listed(v)
  BY <1>2 DEF Listed
<1>7. CASE RefreshScan(u)
  <2>1. pc[u] = "building" /\ l = "scanned" /\ snap' = [snap EXCEPT ![u] = pool]
        /\ pool' = pool /\ index' = index /\ u \in HasWork
    BY <1>2, <1>7 DEF RefreshScan, Goto, IInv, TypeOK
  <2>2. snap'[u] = pool /\ \A v \in Units : v # u => snap'[v] = snap[v]
    BY <2>1 DEF IInv, TypeOK
  <2>3. ~Listed(u)'
    BY <1>2, <2>1 DEF Listed
  <2>4. InvScan'
    BY <1>2, <1>3, <1>6, <2>1, <2>2, <2>3 DEF KInv, InvScan
  <2> QED
    BY <1>4, <2>4 DEF KInv
<1>8. CASE RefreshTruncate(u)
  <2>1. pc[u] = "scanned" /\ l = "writing" /\ pool' = pool /\ snap' = snap
    BY <1>2, <1>8 DEF RefreshTruncate, Goto, IInv, TypeOK
  <2>2. \A v \in Units : ~Listed(v)'
    <3>1. ~Listed(u)'
      BY <1>2, <2>1 DEF Listed
    <3>2. ASSUME NEW v \in Units, v # u PROVE ~Listed(v)
      BY <1>5, <2>1, <3>2 DEF OneImage
    <3> QED
      BY <1>6, <3>1, <3>2
  <2>3. InvScan'
    BY <1>2, <1>3, <2>1, <2>2 DEF KInv, InvScan
  <2> QED
    BY <1>4, <2>3 DEF KInv
<1>9. CASE RefreshFill(u)
  <2>1. pc[u] = "writing" /\ l = "assembling" /\ pool' = pool /\ index' = snap[u] /\ snap' = snap
    BY <1>2, <1>9 DEF RefreshFill, Goto, IInv, TypeOK
  <2>2. \A v \in Units : v # u => ~Listed(v)'
    BY <1>5, <1>6, <2>1 DEF OneImage
  <2>3. InvScan'
    BY <1>2, <1>3, <2>1, <2>2 DEF KInv, InvScan
  <2> QED
    BY <1>4, <2>3 DEF KInv
<1>10. CASE Publish(u)
  <2>1. pc[u] = "building" /\ l = "published" /\ pool' = [pool EXCEPT ![u] = "new"]
        /\ index' = index /\ snap' = snap
    BY <1>2, <1>10 DEF Publish, Goto, IInv, TypeOK
  <2>2. \A d \in Units : d # u => pool'[d] = pool[d]
    BY <2>1 DEF IInv, TypeOK
  <2>3. ~Listed(u)'
    BY <1>2, <2>1 DEF Listed
  <2>4. \A v \in Units : pc[v] # "idle" => \A d \in deps[v] : d \in Units /\ pool'[d] = pool[d]
    BY <1>2, <2>1, <2>2, DepsStay
  <2>5. \A v \in Units : Listed(v) => pc[v] # "idle"
    BY DEF Listed
  <2>6. InvScan'
    BY <1>2, <1>3, <1>6, <2>1, <2>3, <2>4, <2>5 DEF KInv, InvScan
  <2> QED
    BY <1>4, <2>6 DEF KInv
<1>11. CASE BuildReturns(u)
  <2>1. l = "built" /\ pool' = pool /\ index' = index /\ snap' = snap
        /\ \/ pc[u] = "building" /\ (u \notin HasWork \/ Class[u] = "container")
           \/ pc[u] \in {"assembling", "published"}
    BY <1>2, <1>11 DEF BuildReturns, Goto, IInv, TypeOK, repoVars
  <2>2. pc[u] = "published" => Class[u] = "package"
    BY DEF JInv, InvBuilt, IsPackage
  <2>3. Listed(u)' => Listed(u)
    BY <1>2, <2>1, <2>2 DEF Listed
  <2>4. InvScan'
    BY <1>2, <1>3, <1>6, <2>1, <2>3 DEF KInv, InvScan
  <2> QED
    BY <1>4, <2>4 DEF KInv
<1>12. CASE ~(RefreshScan(u) \/ RefreshTruncate(u) \/ RefreshFill(u) \/ Publish(u) \/ BuildReturns(u))
  <2>1. l \notin {"scanned", "writing", "assembling", "built"} /\ pool' = pool /\ index' = index
        /\ snap' = snap
    BY <1>2, <1>12 DEF QuietWorker, Acquire, CheckStop, CheckDeps, SeeCancel, ServeCached, StartBuild,
       BuildFails, RecordFailure, repoVars, Goto, IInv, TypeOK
  <2>2. ~Listed(u)'
    BY <1>2, <2>1 DEF Listed
  <2>3. InvScan'
    BY <1>2, <1>3, <1>6, <2>1, <2>2 DEF KInv, InvScan
  <2> QED
    BY <1>4, <2>3 DEF KInv
<1> QED
  BY <1>7, <1>8, <1>9, <1>10, <1>11, <1>12

(* The unit that released its dependents was listed before, when it was     *)
(* built.                                                                   *)
LEMMA FinishScan ==
    ASSUME IInv, JInv, KInv, NEW u \in Units, Finish(u)
    PROVE  KInv'
<1>1. /\ pc[u] \in {"built", "cached"}
      /\ rebuilt' = (IF pc[u] = "built" THEN rebuilt \cup {u} ELSE rebuilt)
      /\ UNCHANGED <<deps, order, result, phase, pool, index, snap>>
  BY DEF Finish, planVars, repoVars
<1>2. /\ \A v \in Units : v # u => pc'[v] = pc[v] \/ pc'[v] = "spawned"
      /\ pc'[u] = "done"
  BY DEF Finish
<1>3. result = "none" /\ u \notin rebuilt
  BY <1>1 DEF IInv, InvPhase, InvDecision, Returned, TypeOK
<1>4. \A v \in Units : Listed(v)' => Listed(v)
  BY <1>1, <1>2, <1>3 DEF Listed
<1>5. InvScan'
  BY <1>1, <1>2, <1>4 DEF KInv, InvScan
<1>6. IndexCurrentAtSuccess'
  BY <1>1, <1>3 DEF IndexCurrentAtSuccess
<1> QED
  BY <1>5, <1>6 DEF KInv

(* The final refresh is owed exactly when packages were rebuilt and no      *)
(* image was; otherwise the index stays as the images left it.              *)
LEMMA ReturnScan ==
    ASSUME IInv, JInv, KInv, ReturnError \/ ReturnOk \/ ReturnRefreshError
    PROVE  KInv'
<1>1. /\ Drained /\ UNCHANGED <<deps, order, pc, rebuilt, publishedPkg, imageRefreshed, pool, snap>>
      /\ result' = "error" \/ (ReturnOk /\ result' = "ok")
  <2>1. CASE ReturnOk
    BY <2>1 DEF ReturnOk, planVars, schedVars
  <2>2. CASE ReturnError \/ ReturnRefreshError
    BY <2>2 DEF ReturnError, ReturnRefreshError, planVars, schedVars, repoVars
  <2> QED
    BY <2>1, <2>2
<1>2. \A u \in Units : pc[u] \in Returned \cup {"idle"}
  BY <1>1 DEF Drained, IInv, InvStarted
<1>3. order \subseteq Units /\ rebuilt \subseteq order /\ deps \in [Units -> SUBSET Units]
  BY ConstantsAssumption DEF IInv, TypeOK
<1>4. \A u \in Units : Listed(u)' => Listed(u) /\ result' = "ok"
  <2>1. result = "none"
    BY <1>1 DEF Drained, IInv, InvPhase
  <2> QED
    BY <1>1, <1>2, <2>1 DEF Listed, Returned
<1>5. ASSUME ReturnOk PROVE index' = pool \/ index' = index
  BY <1>5 DEF ReturnOk
<1>6. InvScan'
  BY <1>1, <1>2, <1>3, <1>4, <1>5 DEF KInv, InvScan, Returned
<1>7. ASSUME result' = "ok", NEW u \in rebuilt \cap HasWork, Class[u] = "image", NEW d \in deps[u]
      PROVE  index'[d] = pool[d]
  <2>1. u \in Units /\ pc[u] = "done" /\ Listed(u)
    BY <1>1, <1>3, <1>7 DEF Listed, IInv, InvDecision, InvPhase, Drained
  <2>2. index[d] = pool[d]
    BY <2>1, <1>7 DEF KInv, InvScan
  <2> QED
    BY <1>1, <1>5, <1>7, <2>2
<1>8. ASSUME result' = "ok", \E u \in rebuilt : IsPackage(u), \A u \in rebuilt : Class[u] # "image"
      PROVE  index' = pool
  BY <1>1, <1>8 DEF ReturnOk, NeedsRefresh, JInv, InvFlags
<1>9. IndexCurrentAtSuccess'
  BY <1>1, <1>7, <1>8 DEF IndexCurrentAtSuccess, IsPackage
<1> QED
  BY <1>6, <1>9 DEF KInv

LEMMA NextScan ==
    ASSUME OneImage, IInv, JInv, KInv, [Next]_vars
    PROVE  KInv'
<1>1. CASE Refuse
  <2>1. /\ UNCHANGED <<deps, order, pc, rebuilt, pool, index, snap>>
        /\ rebuilt = {} /\ \A u \in Units : pc[u] = "idle"
    BY <1>1 DEF Refuse, schedVars, repoVars, IInv, InvPhase, TypeOK
  <2> QED
    BY <2>1 DEF KInv, InvScan, Listed, IndexCurrentAtSuccess
<1>2. CASE Cancel \/ Terminated \/ UNCHANGED vars
  <2>1. UNCHANGED <<deps, order, pc, result, rebuilt, pool, index, snap>>
    BY <1>2 DEF Cancel, Terminated, vars, planVars, schedVars, repoVars
  <2>2. InvScan'
    BY <2>1 DEF KInv, InvScan, Listed
  <2>3. IndexCurrentAtSuccess'
    BY <2>1 DEF KInv, IndexCurrentAtSuccess, IsPackage
  <2> QED
    BY <2>2, <2>3 DEF KInv
<1>3. CASE Plan
  <2>1. /\ \A u \in Units : pc'[u] \in {"idle", "spawned"}
        /\ order' \cap Unbuildable = {} /\ result' = "none"
    BY <1>3 DEF Plan, BuildOrder, IInv, InvPhase
  <2> QED
    BY <2>1 DEF KInv, InvScan, Listed, IndexCurrentAtSuccess
<1>4. CASE ReturnError \/ ReturnOk \/ ReturnRefreshError
  BY <1>4, ReturnScan
<1>5. ASSUME NEW u \in Units, Worker(u) PROVE KInv'
  BY <1>5, FinishScan, WorkerScan DEF Worker, QuietWorker
<1> QED
  BY <1>1, <1>2, <1>3, <1>4, <1>5 DEF Next, Main

(* Where one image is built, what a build's images are assembled from and   *)
(* what a success leaves in the index (refreshRepoIndex in buildOne and at  *)
(* the end of BuildUnits) follow from the order of the workers' steps,      *)
(* whatever index the build found.                                          *)
THEOREM SpecKInv ==
    ASSUME OneImage
    PROVE  Spec => []KInv
<1>1. Init => KInv
  BY InitJInv
<1>2. IInv /\ JInv /\ KInv /\ [Next]_vars => KInv'
  BY NextScan
<1> QED
  BY <1>1, <1>2, SpecIInv, SpecJInv, PTL DEF Spec

(* A successful build leaves the index describing the packages of the image *)
(* it assembled, and all of the repository if it rebuilt packages only,     *)
(* even if it started from the index of a failed build.                     *)
THEOREM IndexCurrentHolds ==
    ASSUME OneImage
    PROVE  Spec => []IndexCurrentAtSuccess
BY SpecKInv, PTL DEF KInv

(* The image of a build is assembled from an index that describes each of   *)
(* its dependencies as it is in the repository, however many packages are   *)
(* published meanwhile, if no other image is built beside it.               *)
THEOREM ImageSeesItsClosureHolds ==
    ASSUME OneImage
    PROVE  Spec => []ImageSeesItsClosure
<1>1. IInv /\ JInv /\ KInv => ImageSeesItsClosure
  <2> SUFFICES ASSUME IInv, JInv, KInv, NEW u \in order, pc[u] = "assembling"
               PROVE  ~IndexTorn /\ \A d \in deps[u] : index[d] = pool[d]
    BY DEF ImageSeesItsClosure
  <2>1. u \in Units
    BY DEF IInv, TypeOK
  <2>2. \A v \in Units : pc[v] # "writing"
    BY <2>1 DEF KInv, InvScan, JInv, InvBuilt, OneImage
  <2> QED
    BY <2>1, <2>2 DEF IndexTorn, KInv, InvScan, Listed
<1> QED
  BY <1>1, SpecIInv, SpecJInv, SpecKInv, PTL
=============================================================================
