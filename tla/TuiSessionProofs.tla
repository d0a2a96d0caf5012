-------------------------- MODULE TuiSessionProofs --------------------------
(***************************************************************************)
(* The terminal interface, for any set of units, any dependencies between   *)
(* them and any number of builds.  Three facts support each other: every    *)
(* build that is entered anywhere runs, a row shows "building" only for an  *)
(* event of a build that still runs, and the dialog on the screen is the    *)
(* one whose answer is awaited.  Then the Setup pages and local.star.       *)
(***************************************************************************)
EXTENDS TuiSession, TuiSetup, Induction, FiniteSetTheorems, SequenceTheorems, TLAPS

Targets == Units \cup {NoTarget}
Places == {"out", "reuse", "build", "cached", "queued", "going", "building", "served", "done", "failed"}
JobStates == [target : Targets, phase : {"unused", "load", "run", "over"}, at : [Units -> Places],
              cancelled : BOOLEAN, err : {"none", "cancelled", "failed"}]

Runs(j) == j.phase \in {"load", "run"}

(* A build has a target from its start, works on units only after its plan, *)
(* and is cancelled only while it runs.                                     *)
JobSound(j) ==
    /\ j.phase # "run" => \A u \in Units : j.at[u] = "out"
    /\ Runs(j) => j.target \in Units
    /\ j.phase = "unused" => j.target = NoTarget
    /\ j.cancelled => Runs(j)

InvJobs == jobs \in [Jobs -> JobStates] /\ \A b \in Jobs : JobSound(jobs[b])

InvHandles == cancels \in [Units -> 0 .. MaxBuilds] /\ building \subseteq Units /\ HandlesAreLive

(* Whatever runs can be cancelled, was, or has a second build beside it. *)
InvQuit ==
    \A b \in Jobs : Live(b) =>
        \/ jobs[b].cancelled
        \/ cancels[jobs[b].target] = b
        \/ \E c \in Jobs \ {b} : jobs[c].target = jobs[b].target

(* A row at "building" has a build that is at work on it. *)
InvRows ==
    /\ statuses \in [Units -> Statuses]
    /\ \A u \in Units \ LeftBuilding :
           statuses[u] = "building" => \E b \in Jobs : jobs[b].at[u] = "building"

InvBar == bar \in [total : Nat, done : Nat, pending : SUBSET Units] /\ BarOnlyWhileBuilding

(* A dialog and what waits for its answer come and go together. *)
InvScreen ==
    /\ view \in Views /\ confirm \in Confirms /\ dev \subseteq Units /\ quit \in BOOLEAN
    /\ prompt = Nothing \/ prompt \in {"scheme", "depth", "discard"} \X Units
    /\ op = Nothing \/ op \in {"dev", "pin", "promote"} \X Units
    /\ ResultFindsItsDialog

-----------------------------------------------------------------------------
(* The goroutine of a build *)

(* One job moves; it keeps its target, and until it is over also its place  *)
(* among the builds.                                                        *)
JobMoves(b, j) ==
    /\ jobs' = [jobs EXCEPT ![b] = j]
    /\ j \in JobStates /\ JobSound(j) /\ j.target = jobs[b].target /\ Live(b)
    /\ \/ Runs(j) /\ j.cancelled = jobs[b].cancelled /\ building' = building /\ cancels' = cancels
       \/ /\ j.phase = "over" /\ building' = building \ {j.target}
          /\ cancels' = [cancels EXCEPT ![j.target] = 0]
          /\ resetBuildProgress(building \ {j.target})

LEMMA AtMoves ==
  ASSUME InvJobs, NEW b \in Jobs, NEW u \in Units, NEW s \in Places, jobs[b].at[u] # "out", At(b, u, s),
         UNCHANGED <<building, cancels>>
  PROVE  \E j : JobMoves(b, j) /\ j.at = [jobs[b].at EXCEPT ![u] = s]
<1> DEFINE j == [jobs[b] EXCEPT !.at = [jobs[b].at EXCEPT ![u] = s]]
<1>1. jobs[b] \in JobStates /\ JobSound(jobs[b]) /\ jobs[b].phase = "run"
  BY DEF InvJobs, JobSound
<1>2. j \in JobStates /\ j.phase = "run" /\ j.target = jobs[b].target /\ j.cancelled = jobs[b].cancelled
  BY <1>1 DEF JobStates
<1>3. JobSound(j)
  BY <1>1, <1>2 DEF JobSound, Runs
<1>4. jobs' = [jobs EXCEPT ![b] = j]
  BY DEF At
<1>5. j.at = [jobs[b].at EXCEPT ![u] = s]
  BY <1>1 DEF JobStates
<1> HIDE DEF j
<1>6. JobMoves(b, j)
  BY <1>1, <1>2, <1>3, <1>4 DEF JobMoves, Live, Runs
<1> QED
  BY <1>5, <1>6

LEMMA OverMoves ==
  ASSUME InvJobs, NEW b \in Jobs, Live(b), NEW result, BuildDone(b, result)
  PROVE  \E j : /\ JobMoves(b, j) /\ j.phase = "over"
                /\ statuses' = [statuses EXCEPT ![jobs[b].target] = result]
<1> DEFINE j == [Idle EXCEPT !.target = jobs[b].target, !.phase = "over"]
<1>1. jobs[b] \in JobStates /\ JobSound(jobs[b]) /\ jobs[b].target \in Units
  BY DEF InvJobs, JobSound, Live, Runs
<1>2. Idle \in JobStates /\ Idle.cancelled = FALSE /\ \A u \in Units : Idle.at[u] = "out"
  BY DEF Idle, JobStates, Places, Targets
<1>3. /\ j \in JobStates /\ j.phase = "over" /\ j.target = jobs[b].target /\ ~j.cancelled
      /\ \A u \in Units : j.at[u] = "out"
  BY <1>1, <1>2 DEF JobStates, Targets
<1>4. jobs' = [jobs EXCEPT ![b] = j]
  BY DEF BuildDone
<1> HIDE DEF j
<1>5. JobSound(j)
  BY <1>3 DEF JobSound, Runs
<1>6. /\ building' = building \ {j.target} /\ cancels' = [cancels EXCEPT ![j.target] = 0]
      /\ resetBuildProgress(building \ {j.target})
      /\ statuses' = [statuses EXCEPT ![jobs[b].target] = result]
  BY <1>3 DEF BuildDone, EventStatus
<1>7. JobMoves(b, j)
  BY <1>3, <1>4, <1>5, <1>6 DEF JobMoves
<1> QED
  BY <1>3, <1>6, <1>7

LEMMA FieldMoves ==
  ASSUME InvJobs, NEW b \in Jobs, NEW j \in JobStates, jobs' = [jobs EXCEPT ![b] = j],
         Live(b), Runs(j), j.target = jobs[b].target, j.cancelled = jobs[b].cancelled,
         j.phase # "run" => j.at = jobs[b].at /\ jobs[b].phase # "run",
         UNCHANGED <<building, cancels>>
  PROVE  JobMoves(b, j)
<1>1. JobSound(jobs[b])
  BY DEF InvJobs
<1>2. JobSound(j)
  BY <1>1 DEF JobSound, Live, Runs
<1> QED
  BY <1>2 DEF JobMoves

(* Every step of a build moves its own job. *)
LEMMA StepMoves ==
  ASSUME InvJobs, NEW b \in Jobs, JobStep(b)
  PROVE  \E j : JobMoves(b, j)
<1>0. jobs[b] \in JobStates /\ JobSound(jobs[b]) /\ jobs \in [Jobs -> JobStates]
  BY DEF InvJobs
<1>1. CASE PlanUnits(b)
  <2>1. PICK a \in [Units -> Places] : jobs' = [jobs EXCEPT ![b].phase = "run", ![b].at = a]
    <3>1. PICK reuse \in SUBSET (Closure(jobs[b].target) \ {jobs[b].target}) :
            jobs' = [jobs EXCEPT ![b].phase = "run",
                                 ![b].at = [u \in Units |-> CASE u \in reuse -> "reuse"
                                                              [] u \in Closure(jobs[b].target) \ reuse -> "build"
                                                              [] OTHER -> "out"]]
      BY <1>1 DEF PlanUnits
    <3>2. [u \in Units |-> CASE u \in reuse -> "reuse"
                             [] u \in Closure(jobs[b].target) \ reuse -> "build"
                             [] OTHER -> "out"] \in [Units -> Places]
      BY DEF Places
    <3> QED
      BY <3>1, <3>2
  <2> DEFINE j == [jobs[b] EXCEPT !.phase = "run", !.at = a]
  <2>2. j \in JobStates /\ j.phase = "run" /\ j.target = jobs[b].target /\ j.cancelled = jobs[b].cancelled
    BY <1>0 DEF JobStates
  <2>3. jobs' = [jobs EXCEPT ![b] = j]
    BY <1>0, <2>1
  <2>4. Live(b) /\ UNCHANGED <<building, cancels>>
    BY <1>1 DEF PlanUnits, Live
  <2> HIDE DEF j
  <2>5. JobMoves(b, j)
    BY <2>2, <2>3, <2>4, FieldMoves DEF Runs
  <2> QED
    BY <2>5
<1>2. CASE LoadFails(b)
  <2>1. Live(b) /\ BuildDone(b, "failed")
    BY <1>2 DEF LoadFails, Live
  <2> QED
    BY <2>1, OverMoves
<1>3. CASE JobEnds(b)
  <2>1. Live(b) /\ \E result : BuildDone(b, result)
    BY <1>3 DEF JobEnds, Announced, Live
  <2> QED
    BY <2>1, OverMoves
<1>4. ASSUME NEW e \in {"cancelled", "failed"}, Live(b), jobs' = [jobs EXCEPT ![b].err = e],
             UNCHANGED <<building, cancels>>
      PROVE  \E j : JobMoves(b, j)
  <2> DEFINE j == [jobs[b] EXCEPT !.err = e]
  <2>1. /\ j \in JobStates /\ j.phase = jobs[b].phase /\ j.target = jobs[b].target
        /\ j.cancelled = jobs[b].cancelled /\ j.at = jobs[b].at
    BY <1>0 DEF JobStates
  <2>2. jobs' = [jobs EXCEPT ![b] = j]
    BY <1>0, <1>4
  <2> HIDE DEF j
  <2>3. JobMoves(b, j)
    BY <1>4, <2>1, <2>2, FieldMoves DEF Runs, Live
  <2> QED
    BY <2>3
<1>5. CASE RecordError(b)
  BY <1>4, <1>5 DEF RecordError
<1>6. ASSUME NEW u \in Units, NEW s \in Places, jobs[b].at[u] # "out", At(b, u, s), UNCHANGED <<building, cancels>>
      PROVE  \E j : JobMoves(b, j)
  BY <1>6, AtMoves
<1>7. ASSUME NEW u \in Units, Announce(b, u) \/ BuildingEvent(b, u) \/ DoneEvent(b, u) \/ FailedEvent(b, u)
      PROVE  \E j : JobMoves(b, j)
  <2>1. jobs[b].at[u] # "out" /\ UNCHANGED <<building, cancels>>
    BY <1>7 DEF Announce, BuildingEvent, DoneEvent, FailedEvent
  <2>2. \E s \in Places : At(b, u, s)
    BY <1>7 DEF Announce, BuildingEvent, DoneEvent, FailedEvent, Places
  <2> QED
    BY <1>6, <2>1, <2>2
<1>8. ASSUME NEW u \in Units, CheckWorker(b, u)
      PROVE  \E j : JobMoves(b, j)
  <2>1. jobs[b].at[u] # "out" /\ UNCHANGED <<building, cancels>> /\ Live(b)
    BY <1>8 DEF CheckWorker, Ready, Announced, Live
  <2>2. CASE jobs[b].cancelled
    BY <1>4, <1>8, <2>1, <2>2 DEF CheckWorker
  <2>3. CASE ~jobs[b].cancelled
    <3>1. \E s \in Places : At(b, u, s)
      BY <1>8, <2>3 DEF CheckWorker, Places
    <3> QED
      BY <1>6, <2>1, <3>1
  <2> QED
    BY <2>2, <2>3
<1> QED
  BY <1>1, <1>2, <1>3, <1>5, <1>7, <1>8 DEF JobStep

(* The handles of the other builds, and their way to be stopped, stay.      *)
LEMMA MovesKeep ==
  ASSUME InvJobs, InvHandles, InvQuit, NEW b \in Jobs, NEW j, JobMoves(b, j)
  PROVE  InvJobs' /\ InvHandles' /\ InvQuit'
<1>0. jobs \in [Jobs -> JobStates] /\ cancels \in [Units -> 0 .. MaxBuilds] /\ building \subseteq Units
  BY DEF InvJobs, InvHandles
<1>1. /\ jobs' = [jobs EXCEPT ![b] = j] /\ j \in JobStates /\ JobSound(j)
      /\ j.target = jobs[b].target /\ Live(b) /\ j.target \in Units
  BY DEF JobMoves, InvJobs, JobSound, Live, Runs
<1>2. jobs'[b] = j /\ \A c \in Jobs : c # b => jobs'[c] = jobs[c]
  BY <1>0, <1>1
<1>3. InvJobs'
  <2>1. jobs' \in [Jobs -> JobStates]
    BY <1>0, <1>1
  <2> QED
    BY <1>1, <1>2, <2>1 DEF InvJobs, JobSound, Runs
<1>4. \A c \in Jobs : jobs'[c].target = jobs[c].target
  BY <1>1, <1>2
<1>5. \A c \in Jobs : c # b => (Live(c)' <=> Live(c)) /\ jobs'[c].cancelled = jobs[c].cancelled
  BY <1>2 DEF Live
<1>6. \A u \in Units : cancels[u] # 0 => cancels[u] \in Jobs
  BY <1>0 DEF Jobs
<1>7. CASE Runs(j) /\ j.cancelled = jobs[b].cancelled /\ building' = building /\ cancels' = cancels
  <2>1. \A c \in Jobs : (Live(c)' <=> Live(c)) /\ jobs'[c].cancelled = jobs[c].cancelled
    BY <1>1, <1>2, <1>5, <1>7 DEF Live, Runs
  <2>2. InvHandles'
    BY <1>0, <1>4, <1>6, <1>7, <2>1 DEF InvHandles, HandlesAreLive
  <2>3. InvQuit'
    BY <1>4, <1>7, <2>1 DEF InvQuit
  <2> QED
    BY <1>3, <2>2, <2>3
<1>8. CASE j.phase = "over" /\ building' = building \ {j.target} /\ cancels' = [cancels EXCEPT ![j.target] = 0]
  <2>1. ~Live(b)' /\ cancels' \in [Units -> 0 .. MaxBuilds] /\ building' \subseteq Units
    <3>1. ~Live(b)'
      BY <1>2, <1>8 DEF Live
    <3>2. 0 \in 0 .. MaxBuilds
      BY ConstantsAssumption
    <3> QED
      BY <1>0, <1>8, <3>1, <3>2
  <2>2. \A u \in Units : cancels'[u] = IF u = j.target THEN 0 ELSE cancels[u]
    BY <1>0, <1>8
  <2>3. ASSUME NEW u \in Units, cancels'[u] # 0
        PROVE  Live(cancels[u])' /\ jobs'[cancels'[u]].target = u /\ ~jobs'[cancels'[u]].cancelled
    <3>1. u # j.target /\ cancels'[u] = cancels[u] /\ cancels[u] \in Jobs
      BY <1>6, <2>2, <2>3
    <3>2. PICK c \in Jobs : c = cancels[u]
      BY <3>1
    <3>3. Live(c) /\ jobs[c].target = u /\ ~jobs[c].cancelled
      BY <3>1, <3>2, <2>3 DEF InvHandles, HandlesAreLive
    <3>4. c # b
      BY <1>1, <3>1, <3>3
    <3>5. Live(c)' /\ jobs'[c].target = u /\ ~jobs'[c].cancelled
      BY <1>4, <1>5, <3>3, <3>4
    <3>6. c = cancels'[u]
      BY <3>1, <3>2
    <3> QED
      BY <3>5, <3>6 DEF Live
  <2>4. ASSUME NEW u \in building' PROVE \E c \in Jobs : Live(c)' /\ jobs'[c].target = u
    <3>1. u \in building /\ u # j.target /\ u \in Units
      BY <1>0, <1>8
    <3>2. PICK c \in Jobs : Live(c) /\ jobs[c].target = u
      BY <3>1 DEF InvHandles, HandlesAreLive
    <3> QED
      BY <1>1, <1>4, <1>5, <3>1, <3>2
  <2>5. InvHandles'
    BY <2>1, <2>3, <2>4 DEF InvHandles, HandlesAreLive
  <2>6. ASSUME NEW c \in Jobs, Live(c)'
        PROVE  \/ jobs'[c].cancelled
               \/ cancels'[jobs'[c].target] = c
               \/ \E d \in Jobs \ {c} : jobs'[d].target = jobs'[c].target
    <3>1. c # b /\ Live(c)
      BY <1>5, <2>1, <2>6
    <3>2. CASE jobs[c].target = j.target
      BY <1>1, <1>4, <3>1, <3>2
    <3>3. CASE jobs[c].target # j.target
      <4>1. jobs[c].target \in Units
        BY <3>1 DEF InvJobs, JobSound, Live, Runs
      <4> QED
        BY <1>4, <1>5, <2>2, <3>1, <3>3, <4>1 DEF InvQuit
    <3> QED
      BY <3>2, <3>3
  <2>7. InvQuit'
    BY <2>6 DEF InvQuit
  <2> QED
    BY <1>3, <2>5, <2>7
<1> QED
  BY <1>7, <1>8 DEF JobMoves

-----------------------------------------------------------------------------
(* Rows and the bar, while a build works *)

(* A row follows the build that reports on it. *)
LEMMA RowsFollow ==
  ASSUME InvJobs, InvRows, NEW b \in Jobs, NEW j, JobMoves(b, j), statuses' \in [Units -> Statuses],
         \A w \in Units : statuses'[w] = "building" =>
             \/ j.at[w] = "building"
             \/ statuses[w] = "building" /\ jobs[b].at[w] # "building"
  PROVE  InvRows'
<1>1. jobs'[b] = j /\ \A c \in Jobs : c # b => jobs'[c] = jobs[c]
  BY DEF JobMoves, InvJobs
<1>2. ASSUME NEW w \in Units \ LeftBuilding, statuses'[w] = "building"
      PROVE  \E c \in Jobs : jobs'[c].at[w] = "building"
  <2>1. CASE j.at[w] = "building"
    BY <1>1, <2>1
  <2>2. CASE statuses[w] = "building" /\ jobs[b].at[w] # "building"
    <3>1. PICK c \in Jobs : jobs[c].at[w] = "building"
      BY <2>2 DEF InvRows
    <3> QED
      BY <1>1, <2>2, <3>1
  <2> QED
    BY <1>2, <2>1, <2>2
<1> QED
  BY <1>2 DEF InvRows

LEMMA StepRows ==
  ASSUME InvJobs, InvRows, NEW b \in Jobs, JobStep(b)
  PROVE  InvRows'
<1>0. /\ statuses \in [Units -> Statuses] /\ jobs[b] \in JobStates /\ JobSound(jobs[b])
      /\ jobs \in [Jobs -> JobStates]
  BY DEF InvRows, InvJobs
<1>1. PICK j : JobMoves(b, j)
  BY StepMoves
<1>2. jobs'[b] = j /\ j \in JobStates
  BY <1>0, <1>1 DEF JobMoves
<1>3. ASSUME NEW u \in Units, NEW s \in Places, NEW t \in Statuses, At(b, u, s), EventStatus(u, t),
             t = "building" => s = "building"
      PROVE  InvRows'
  <2>1. j.at = [jobs[b].at EXCEPT ![u] = s]
    BY <1>0, <1>2, <1>3 DEF At, JobStates
  <2>2. j.at[u] = s /\ \A w \in Units : w # u => j.at[w] = jobs[b].at[w]
    BY <1>0, <2>1 DEF JobStates
  <2>3. statuses' \in [Units -> Statuses] /\ statuses'[u] = t /\ \A w \in Units : w # u => statuses'[w] = statuses[w]
    BY <1>0, <1>3 DEF EventStatus
  <2>4. ASSUME NEW w \in Units, statuses'[w] = "building"
        PROVE  j.at[w] = "building" \/ (statuses[w] = "building" /\ jobs[b].at[w] # "building")
    BY <1>3, <2>2, <2>3, <2>4
  <2> QED
    BY <1>1, <2>3, <2>4, RowsFollow
<1>4. ASSUME NEW u \in Units, Announce(b, u) \/ BuildingEvent(b, u) \/ DoneEvent(b, u) \/ FailedEvent(b, u)
      PROVE  InvRows'
  <2>1. CASE Announce(b, u)
    BY <1>3, <2>1 DEF Announce, Places, Statuses
  <2>2. CASE BuildingEvent(b, u)
    BY <1>3, <2>2 DEF BuildingEvent, Places, Statuses
  <2>3. CASE DoneEvent(b, u)
    BY <1>3, <2>3 DEF DoneEvent, Places, Statuses
  <2>4. CASE FailedEvent(b, u)
    BY <1>3, <2>4 DEF FailedEvent, Places, Statuses
  <2> QED
    BY <1>4, <2>1, <2>2, <2>3, <2>4
<1>5. ASSUME statuses' = statuses, \A w \in Units : jobs[b].at[w] = "building" => j.at[w] = "building"
      PROVE  InvRows'
  BY <1>0, <1>1, <1>5, RowsFollow
<1>6. ASSUME NEW u \in Units, CheckWorker(b, u)
      PROVE  InvRows'
  <2>1. jobs[b].at[u] # "building" /\ statuses' = statuses
    BY <1>6 DEF CheckWorker, Ready
  <2>2. ASSUME NEW w \in Units, jobs[b].at[w] = "building" PROVE j.at[w] = "building"
    <3>1. CASE jobs[b].cancelled
      BY <1>0, <1>2, <1>6, <2>2, <3>1 DEF CheckWorker, JobStates
    <3>2. CASE ~jobs[b].cancelled
      <4>1. PICK s : At(b, u, s)
        BY <1>6, <3>2 DEF CheckWorker
      <4>2. j.at = [jobs[b].at EXCEPT ![u] = s]
        BY <1>0, <1>2, <4>1 DEF At, JobStates
      <4> QED
        BY <1>0, <2>1, <2>2, <4>2 DEF JobStates
    <3> QED
      BY <3>1, <3>2
  <2> QED
    BY <1>5, <2>1, <2>2
<1>7. CASE PlanUnits(b)
  <2>1. statuses' = statuses /\ \A w \in Units : jobs[b].at[w] = "out"
    BY <1>0, <1>7 DEF PlanUnits, JobSound
  <2> QED
    BY <1>5, <2>1
<1>8. CASE RecordError(b)
  <2>1. statuses' = statuses /\ j.at = jobs[b].at
    BY <1>0, <1>2, <1>8 DEF RecordError, JobStates
  <2> QED
    BY <1>5, <2>1
<1>9. ASSUME NEW t \in {"none", "cached", "failed"}, EventStatus(jobs[b].target, t),
             \A w \in Units : jobs[b].at[w] # "building"
      PROVE  InvRows'
  <2>1. jobs[b].target \in Units
    BY <1>0, <1>1 DEF JobMoves, JobSound, Live, Runs
  <2>2. /\ statuses' \in [Units -> Statuses] /\ statuses'[jobs[b].target] = t
        /\ \A w \in Units : w # jobs[b].target => statuses'[w] = statuses[w]
    BY <1>0, <1>9, <2>1 DEF EventStatus, Statuses
  <2>3. ASSUME NEW w \in Units, statuses'[w] = "building"
        PROVE  statuses[w] = "building" /\ jobs[b].at[w] # "building"
    BY <1>9, <2>2, <2>3
  <2> QED
    BY <1>1, <2>2, <2>3, RowsFollow
<1>10. CASE LoadFails(b)
  <2>1. EventStatus(jobs[b].target, "failed") /\ \A w \in Units : jobs[b].at[w] = "out"
    BY <1>0, <1>10 DEF LoadFails, BuildDone, JobSound
  <2> QED
    BY <1>9, <2>1
<1>11. CASE JobEnds(b)
  <2>1. \A w \in Units : jobs[b].at[w] # "building"
    BY <1>11 DEF JobEnds
  <2>2. jobs[b].err \in {"none", "cancelled", "failed"}
    BY <1>0 DEF JobStates
  <2>3. PICK t \in {"none", "cached", "failed"} : BuildDone(b, t)
    BY <1>11, <2>2 DEF JobEnds
  <2> QED
    BY <1>9, <2>1, <2>3 DEF BuildDone
<1> QED
  BY <1>4, <1>6, <1>7, <1>8, <1>10, <1>11 DEF JobStep

(* A unit is counted once, and taken off the count once. *)
LEMMA BarCounts ==
  ASSUME InvBar, NEW u \in Units,
         markBuildUnitWaiting(u) \/ markBuildUnitFinished(u) \/ bar' = bar
  PROVE  /\ bar' \in [total : Nat, done : Nat, pending : SUBSET Units]
         /\ bar'.total = bar'.done + Cardinality(bar'.pending)
<1>0. /\ bar \in [total : Nat, done : Nat, pending : SUBSET Units]
      /\ bar.total = bar.done + Cardinality(bar.pending)
  BY DEF InvBar, BarOnlyWhileBuilding
<1>1. IsFiniteSet(bar.pending)
  BY <1>0, ConstantsAssumption, FS_Subset
<1>2. CASE bar' = bar
  BY <1>0, <1>2
<1>3. CASE markBuildUnitWaiting(u) /\ u \notin bar.pending
  <2>1. bar' = [bar EXCEPT !.total = @ + 1, !.pending = @ \cup {u}]
    BY <1>3 DEF markBuildUnitWaiting
  <2>2. Cardinality(bar.pending \cup {u}) = Cardinality(bar.pending) + 1 /\ Cardinality(bar.pending) \in Nat
    BY <1>1, <1>3, FS_AddElement, FS_CardinalityType
  <2>3. /\ bar' \in [total : Nat, done : Nat, pending : SUBSET Units]
        /\ bar'.total = bar.total + 1 /\ bar'.done = bar.done /\ bar'.pending = bar.pending \cup {u}
    <3>1. PICK p \in SUBSET Units : p = bar.pending \cup {u}
      BY <1>0
    <3>2. bar' = [total |-> bar.total + 1, done |-> bar.done, pending |-> p]
      BY <1>0, <2>1, <3>1
    <3> QED
      BY <1>0, <3>1, <3>2
  <2> QED
    BY <1>0, <2>2, <2>3
<1>4. CASE markBuildUnitFinished(u) /\ u \in bar.pending
  <2>1. bar' = [bar EXCEPT !.done = @ + 1, !.pending = @ \ {u}]
    BY <1>4 DEF markBuildUnitFinished
  <2>2. Cardinality(bar.pending \ {u}) = Cardinality(bar.pending) - 1 /\ Cardinality(bar.pending) \in Nat
    BY <1>1, <1>4, FS_RemoveElement, FS_CardinalityType
  <2>3. /\ bar' \in [total : Nat, done : Nat, pending : SUBSET Units]
        /\ bar'.total = bar.total /\ bar'.done = bar.done + 1 /\ bar'.pending = bar.pending \ {u}
    <3>1. PICK p \in SUBSET Units : p = bar.pending \ {u}
      BY <1>0
    <3>2. bar' = [total |-> bar.total, done |-> bar.done + 1, pending |-> p]
      BY <1>0, <2>1, <3>1
    <3> QED
      BY <1>0, <3>1, <3>2
  <2> QED
    BY <1>0, <2>2, <2>3
<1> QED
  BY <1>2, <1>3, <1>4 DEF markBuildUnitWaiting, markBuildUnitFinished

LEMMA StepBar ==
  ASSUME InvJobs, InvHandles, InvBar, NEW b \in Jobs, JobStep(b)
  PROVE  InvBar'
<1>0. /\ bar \in [total : Nat, done : Nat, pending : SUBSET Units]
      /\ bar.total = bar.done + Cardinality(bar.pending)
      /\ jobs \in [Jobs -> JobStates] /\ building \subseteq Units
  BY DEF InvBar, BarOnlyWhileBuilding, InvJobs, InvHandles
<1>1. PICK j : JobMoves(b, j)
  BY StepMoves
<1>2. jobs'[b] = j /\ j.target = jobs[b].target /\ \A c \in Jobs : c # b => jobs'[c] = jobs[c]
  BY <1>0, <1>1 DEF JobMoves
<1>3. CASE Runs(j)
  <2>1. Live(b)'
    BY <1>2, <1>3 DEF Live, Runs
  <2>2. ASSUME NEW u \in Units, markBuildUnitWaiting(u) \/ markBuildUnitFinished(u) \/ bar' = bar
        PROVE  InvBar'
    BY <2>1, <2>2, BarCounts DEF InvBar, BarOnlyWhileBuilding
  <2>3. jobs[b].target \in Units
    BY <1>1 DEF JobMoves, InvJobs, JobSound, Live, Runs
  <2>4. ~LoadFails(b) /\ ~JobEnds(b)
    <3>1. ASSUME NEW t PROVE ~BuildDone(b, t)
      <4> SUFFICES ASSUME BuildDone(b, t) PROVE FALSE
        OBVIOUS
      <4>1. jobs'[b] = [Idle EXCEPT !.target = jobs[b].target, !.phase = "over"]
        BY <1>0 DEF BuildDone
      <4>2. jobs'[b].phase = "over"
        BY <4>1 DEF Idle
      <4> QED
        BY <1>2, <1>3, <4>2 DEF Runs
    <3> QED
      BY <3>1 DEF LoadFails, JobEnds
  <2>5. ASSUME NEW u \in Units, Announce(b, u) \/ CheckWorker(b, u) \/ BuildingEvent(b, u)
                                 \/ DoneEvent(b, u) \/ FailedEvent(b, u)
        PROVE  InvBar'
    <3>1. markBuildUnitWaiting(u) \/ markBuildUnitFinished(u) \/ bar' = bar
      BY <2>5 DEF Announce, CheckWorker, BuildingEvent, DoneEvent, FailedEvent
    <3> QED
      BY <2>2, <3>1
  <2>6. CASE PlanUnits(b) \/ RecordError(b)
    <3>1. bar' = bar
      BY <2>6 DEF PlanUnits, RecordError
    <3> QED
      BY <2>2, <2>3, <3>1
  <2> QED
    BY <2>4, <2>5, <2>6 DEF JobStep
<1>4. CASE ~Runs(j)
  <2>1. resetBuildProgress(building \ {j.target})
    BY <1>1, <1>4 DEF JobMoves
  <2>2. CASE building \ {j.target} = {}
    <3>1. bar' = [total |-> 0, done |-> 0, pending |-> {}]
      BY <2>1, <2>2 DEF resetBuildProgress
    <3>2. Cardinality({}) = 0
      BY FS_EmptySet
    <3> QED
      BY <3>1, <3>2 DEF InvBar, BarOnlyWhileBuilding
  <2>3. CASE building \ {j.target} # {}
    <3>1. bar' = bar
      BY <2>1, <2>3 DEF resetBuildProgress
    <3>2. PICK u \in building : u # j.target
      BY <2>3
    <3>3. PICK c \in Jobs : Live(c) /\ jobs[c].target = u
      BY <1>0, <3>2 DEF InvHandles, HandlesAreLive
    <3>4. Live(c)'
      BY <1>2, <3>2, <3>3 DEF Live
    <3> QED
      BY <1>0, <3>1, <3>4 DEF InvBar, BarOnlyWhileBuilding
  <2> QED
    BY <2>2, <2>3
<1> QED
  BY <1>3, <1>4

-----------------------------------------------------------------------------
(* Starting and cancelling builds *)

Builds == InvJobs /\ InvHandles /\ InvQuit /\ InvRows /\ InvBar

(* Builds of some rows start, each in an unused job of its own. *)
StartsIn(rows, f) ==
    /\ \A u, w \in rows : f[u] = f[w] => u = w
    /\ \A u \in rows : jobs[f[u]].phase = "unused"
    /\ jobs' = [b \in Jobs |-> jobs'[b]]
    /\ \A u \in rows : jobs'[f[u]] = [jobs[f[u]] EXCEPT !.target = u, !.phase = "load"]
    /\ \A b \in Jobs : (\A u \in rows : f[u] # b) => jobs'[b] = jobs[b]
    /\ statuses' = [u \in Units |-> IF u \in rows THEN "waiting" ELSE statuses[u]]
    /\ cancels' = [u \in Units |-> IF u \in rows THEN f[u] ELSE cancels[u]]
    /\ building' = building \cup rows /\ bar' = bar

LEMMA StartsKeep ==
  ASSUME Builds, NEW rows \in SUBSET Units, NEW f \in [rows -> Jobs], StartsIn(rows, f)
  PROVE  Builds'
<1>0. /\ jobs \in [Jobs -> JobStates] /\ \A b \in Jobs : JobSound(jobs[b])
      /\ cancels \in [Units -> 0 .. MaxBuilds] /\ building \subseteq Units /\ statuses \in [Units -> Statuses]
  BY DEF Builds, InvJobs, InvHandles, InvRows
<1>1. ASSUME NEW u \in rows
      PROVE  /\ f[u] \in Jobs /\ jobs'[f[u]] \in JobStates /\ jobs'[f[u]].target = u /\ jobs'[f[u]].phase = "load"
             /\ ~jobs'[f[u]].cancelled /\ \A w \in Units : jobs'[f[u]].at[w] = "out" /\ jobs[f[u]].at[w] = "out"
  <2>1. f[u] \in Jobs /\ u \in Units
    OBVIOUS
  <2>2. PICK j \in JobStates : j = jobs[f[u]]
    BY <1>0, <2>1
  <2>3. j.phase = "unused" /\ JobSound(j) /\ jobs'[f[u]] = [j EXCEPT !.target = u, !.phase = "load"]
    BY <1>0, <2>1, <2>2 DEF StartsIn
  <2>4. ~j.cancelled /\ \A w \in Units : j.at[w] = "out"
    BY <2>3 DEF JobSound, Runs
  <2> QED
    BY <2>1, <2>2, <2>3, <2>4, ZenonT(40) DEF JobStates, Targets
<1>2. ASSUME NEW b \in Jobs, \A u \in rows : f[u] # b PROVE jobs'[b] = jobs[b]
  BY <1>2 DEF StartsIn
<1>3. ASSUME NEW b \in Jobs, Live(b) PROVE jobs'[b] = jobs[b] /\ Live(b)'
  <2>1. \A u \in rows : f[u] # b
    BY <1>3 DEF Live, StartsIn
  <2> QED
    BY <1>2, <1>3, <2>1 DEF Live
<1>4. InvJobs'
  <2>1. ASSUME NEW b \in Jobs PROVE jobs'[b] \in JobStates /\ JobSound(jobs'[b])
    <3>1. CASE \E u \in rows : f[u] = b
      <4>1. PICK u \in rows : f[u] = b
        BY <3>1
      <4> QED
        BY <1>1, <4>1 DEF JobSound, Runs
    <3>2. CASE \A u \in rows : f[u] # b
      BY <1>0, <1>2, <3>2
    <3> QED
      BY <3>1, <3>2
  <2>2. jobs' \in [Jobs -> JobStates]
    BY <2>1 DEF StartsIn
  <2> QED
    BY <2>1, <2>2 DEF InvJobs, JobSound, Runs
<1>5. ASSUME NEW u \in Units
      PROVE  cancels'[u] = IF u \in rows THEN f[u] ELSE cancels[u]
  BY DEF StartsIn
<1>6. InvHandles'
  <2>1. cancels' \in [Units -> 0 .. MaxBuilds] /\ building' \subseteq Units
    <3>1. Jobs \subseteq 0 .. MaxBuilds
      BY ONLY ConstantsAssumption DEF Jobs
    <3>2. \A u \in rows : f[u] \in 0 .. MaxBuilds
      BY <3>1
    <3> QED
      BY <1>0, <3>2 DEF StartsIn
  <2>2. ASSUME NEW u \in Units, cancels'[u] # 0
        PROVE  Live(cancels[u])' /\ jobs'[cancels'[u]].target = u /\ ~jobs'[cancels'[u]].cancelled
    <3>1. CASE u \in rows
      <4>1. cancels'[u] = f[u]
        BY <1>5, <3>1
      <4> QED
        BY <1>1, <3>1, <4>1 DEF Live
    <3>2. CASE u \notin rows
      <4>1. PICK c : c = cancels[u]
        OBVIOUS
      <4>2. cancels'[u] = c /\ c # 0
        BY <1>5, <2>2, <3>2, <4>1
      <4>3. c \in 0 .. MaxBuilds
        BY <1>0, <4>1
      <4>4. c \in Jobs
        BY ONLY <4>2, <4>3, ConstantsAssumption DEF Jobs
      <4>5. Live(c) /\ jobs[c].target = u /\ ~jobs[c].cancelled
        BY <4>1, <4>2 DEF Builds, InvHandles, HandlesAreLive
      <4>6. jobs'[c] = jobs[c] /\ Live(c)'
        BY <1>3, <4>4, <4>5
      <4> QED
        BY <4>2, <4>5, <4>6 DEF Live
    <3> QED
      BY <3>1, <3>2
  <2>3. ASSUME NEW u \in building' PROVE \E c \in Jobs : Live(c)' /\ jobs'[c].target = u
    <3>0. u \in building \/ u \in rows
      BY DEF StartsIn
    <3>1. CASE u \in rows
      <4>1. f[u] \in Jobs /\ jobs'[f[u]].target = u /\ jobs'[f[u]].phase = "load"
        BY <1>1, <3>1
      <4> QED
        BY <4>1 DEF Live
    <3>2. CASE u \in building
      <4>1. PICK c \in Jobs : Live(c) /\ jobs[c].target = u
        BY <1>0, <3>2 DEF Builds, InvHandles, HandlesAreLive
      <4> QED
        BY <1>3, <4>1
    <3> QED
      BY <3>0, <3>1, <3>2
  <2> QED
    BY <2>1, <2>2, <2>3 DEF InvHandles, HandlesAreLive
<1>7. InvQuit'
  <2>1. ASSUME NEW b \in Jobs, Live(b)'
        PROVE  \/ jobs'[b].cancelled
               \/ cancels'[jobs'[b].target] = b
               \/ \E c \in Jobs \ {b} : jobs'[c].target = jobs'[b].target
    <3>1. CASE \E u \in rows : f[u] = b
      <4>1. PICK u \in rows : f[u] = b
        BY <3>1
      <4>2. jobs'[b].target = u /\ u \in Units
        BY <1>1, <4>1
      <4> QED
        BY <1>5, <4>1, <4>2
    <3>2. CASE \A u \in rows : f[u] # b
      <4>1. jobs'[b] = jobs[b] /\ Live(b)
        BY <1>2, <2>1, <3>2 DEF Live
      <4>2. jobs[b].target \in Units
        BY <1>0, <4>1 DEF JobSound, Live, Runs
      <4>3. CASE jobs[b].target \in rows
        <5>1. PICK u \in rows : u = jobs[b].target
          BY <4>3
        <5>2. f[u] \in Jobs \ {b} /\ jobs'[f[u]].target = jobs'[b].target
          <6>1. f[u] \in Jobs /\ jobs'[f[u]].target = u
            BY <1>1
          <6> QED
            BY <3>2, <4>1, <5>1, <6>1
        <5> QED
          BY <5>2
      <4>4. CASE jobs[b].target \notin rows
        <5>1. CASE \E c \in Jobs \ {b} : jobs[c].target = jobs[b].target
          <6>1. PICK c \in Jobs \ {b} : jobs[c].target = jobs[b].target
            BY <5>1
          <6>2. CASE \E u \in rows : f[u] = c
            <7>1. JobSound(jobs[c]) /\ jobs[c].phase = "unused"
              BY <1>0, <6>2 DEF StartsIn
            <7>2. jobs[c].target = NoTarget
              BY <7>1 DEF JobSound
            <7> QED
              BY <4>2, <6>1, <7>2, ConstantsAssumption
          <6>3. CASE \A u \in rows : f[u] # c
            BY <1>2, <4>1, <6>1, <6>3
          <6> QED
            BY <6>2, <6>3
        <5>2. CASE jobs[b].cancelled \/ cancels[jobs[b].target] = b
          BY <1>5, <4>1, <4>2, <4>4, <5>2
        <5> QED
          BY <4>1, <5>1, <5>2 DEF Builds, InvQuit
      <4> QED
        BY <4>3, <4>4
    <3> QED
      BY <3>1, <3>2
  <2> QED
    BY <2>1 DEF InvQuit
<1>8. InvRows'
  <2>1. statuses' \in [Units -> Statuses]
    BY <1>0 DEF Statuses, StartsIn
  <2>2. ASSUME NEW u \in Units \ LeftBuilding, statuses'[u] = "building"
        PROVE  \E b \in Jobs : jobs'[b].at[u] = "building"
    <3>1. statuses[u] = "building"
      BY <2>2 DEF StartsIn
    <3>2. PICK b \in Jobs : jobs[b].at[u] = "building"
      BY <3>1 DEF Builds, InvRows
    <3>3. \A w \in rows : f[w] # b
      BY <1>1, <3>2
    <3> QED
      BY <1>2, <3>2, <3>3
  <2> QED
    BY <2>1, <2>2 DEF InvRows
<1>9. InvBar'
  BY <1>3 DEF Builds, InvBar, BarOnlyWhileBuilding, StartsIn
<1> QED
  BY <1>4, <1>6, <1>7, <1>8, <1>9 DEF Builds

(* b, and B for every row that is neither waiting nor building. *)
LEMMA KeysKeep ==
  ASSUME Builds, KeyBuildAll \/ \E u \in Units : KeyBuild(u)
  PROVE  Builds'
<1>0. /\ jobs \in [Jobs -> JobStates] /\ statuses \in [Units -> Statuses] /\ cancels \in [Units -> 0 .. MaxBuilds]
  BY DEF Builds, InvJobs, InvRows, InvHandles
<1>1. ASSUME NEW u \in Units, KeyBuild(u) PROVE Builds'
  <2>1. PICK b \in Jobs : startBuild(u, b)
    BY <1>1 DEF KeyBuild
  <2>2. PICK rows \in SUBSET Units : rows = {u}
    OBVIOUS
  <2>3. PICK f \in [rows -> Jobs] : f = [x \in rows |-> b]
    OBVIOUS
  <2>4. f[u] = b /\ u \in rows /\ \A x \in rows : x = u
    BY <2>2, <2>3
  <2>5. \A x, y \in rows : f[x] = f[y] => x = y
    BY <2>4
  <2>6. \A x \in rows : jobs[f[x]].phase = "unused"
    BY <2>1, <2>4 DEF startBuild
  <2>7. jobs' = [jobs EXCEPT ![b] = [jobs[b] EXCEPT !.target = u, !.phase = "load"]]
    BY <1>0, <2>1 DEF startBuild
  <2>8. /\ jobs' = [c \in Jobs |-> jobs'[c]]
        /\ jobs'[b] = [jobs[b] EXCEPT !.target = u, !.phase = "load"]
        /\ \A c \in Jobs : c # b => jobs'[c] = jobs[c]
    BY <1>0, <2>7
  <2>9. \A x \in rows : jobs'[f[x]] = [jobs[f[x]] EXCEPT !.target = x, !.phase = "load"]
    BY <2>4, <2>8
  <2>10. \A c \in Jobs : (\A x \in rows : f[x] # c) => jobs'[c] = jobs[c]
    BY <2>4, <2>8
  <2>11. statuses' = [x \in Units |-> IF x \in rows THEN "waiting" ELSE statuses[x]]
    BY <1>0, <2>1, <2>4 DEF startBuild
  <2>12. cancels' = [x \in Units |-> IF x \in rows THEN f[x] ELSE cancels[x]]
    BY <1>0, <2>1, <2>4 DEF startBuild
  <2>13. building' = building \cup rows /\ bar' = bar
    BY <1>1, <2>1, <2>2 DEF startBuild, KeyBuild
  <2>14. StartsIn(rows, f)
    BY <2>5, <2>6, <2>8, <2>9, <2>10, <2>11, <2>12, <2>13 DEF StartsIn
  <2> QED
    BY <2>14, StartsKeep
<1>2. CASE KeyBuildAll
  <2> DEFINE rows == {u \in Units : Startable(u)}
  <2>1. rows \in SUBSET Units
    OBVIOUS
  <2>2. PICK f \in [rows -> {b \in Jobs : jobs[b].phase = "unused"}] :
        /\ \A u, w \in rows : f[u] = f[w] => u = w
        /\ statuses' = [u \in Units |-> IF u \in rows THEN "waiting" ELSE statuses[u]]
        /\ cancels' = [u \in Units |-> IF u \in rows THEN f[u] ELSE cancels[u]]
        /\ jobs' = [b \in Jobs |-> IF \E u \in rows : f[u] = b
                                   THEN [jobs[b] EXCEPT !.target = CHOOSE u \in rows : f[u] = b,
                                                        !.phase = "load"]
                                   ELSE jobs[b]]
    BY <1>2 DEF KeyBuildAll
  <2>3. f \in [rows -> Jobs] /\ \A u \in rows : jobs[f[u]].phase = "unused"
    BY <2>2
  <2>4. building' = building \cup rows /\ bar' = bar
    BY <1>2 DEF KeyBuildAll
  <2> HIDE DEF rows
  <2>5. jobs' = [b \in Jobs |-> jobs'[b]]
    BY <2>2
  <2>6. ASSUME NEW u \in rows PROVE jobs'[f[u]] = [jobs[f[u]] EXCEPT !.target = u, !.phase = "load"]
    <3>1. (CHOOSE w \in rows : f[w] = f[u]) = u
      BY <2>2
    <3>2. f[u] \in Jobs
      BY <2>3
    <3> QED
      BY <2>2, <3>1, <3>2
  <2>7. ASSUME NEW b \in Jobs, \A u \in rows : f[u] # b PROVE jobs'[b] = jobs[b]
    BY <2>2, <2>7
  <2> QED
    <3>1. StartsIn(rows, f)
      BY <2>2, <2>3, <2>4, <2>5, <2>6, <2>7 DEF StartsIn
    <3> QED
      BY <2>1, <2>3, <3>1, StartsKeep
<1> QED
  BY <1>1, <1>2

(* Cancelling builds, one or all: their handles go, and they are marked. *)
LEMMA CancelsKeep ==
  ASSUME Builds, NEW S \in SUBSET Units, jobs' = Cancelled(S),
         cancels' = [u \in Units |-> IF u \in S THEN 0 ELSE cancels[u]],
         UNCHANGED <<statuses, building, bar>>
  PROVE  Builds'
<1>0. /\ jobs \in [Jobs -> JobStates] /\ \A b \in Jobs : JobSound(jobs[b])
      /\ cancels \in [Units -> 0 .. MaxBuilds] /\ building \subseteq Units /\ statuses \in [Units -> Statuses]
  BY DEF Builds, InvJobs, InvHandles, InvRows
<1>1. ASSUME NEW b \in Jobs
      PROVE  /\ jobs'[b] \in JobStates /\ JobSound(jobs'[b]) /\ (Live(b)' <=> Live(b))
             /\ jobs'[b].target = jobs[b].target /\ jobs'[b].at = jobs[b].at
             /\ jobs'[b].cancelled <=> jobs[b].cancelled \/ \E u \in S : cancels[u] = b
  <2>1. PICK j \in JobStates : j = jobs[b]
    BY <1>0
  <2>2. CASE \E u \in S : cancels[u] = b
    <3>1. PICK u \in S : cancels[u] = b
      BY <2>2
    <3>2. b # 0 /\ u \in Units
      BY DEF Jobs
    <3>3. Live(b)
      BY <3>1, <3>2 DEF Builds, InvHandles, HandlesAreLive
    <3>4. jobs'[b] = [j EXCEPT !.cancelled = TRUE]
      BY <2>1, <2>2 DEF Cancelled
    <3>5. /\ jobs'[b] \in JobStates /\ jobs'[b].cancelled = TRUE /\ jobs'[b].target = j.target
          /\ jobs'[b].at = j.at /\ jobs'[b].phase = j.phase
      BY <3>4 DEF JobStates
    <3>6. JobSound(jobs'[b])
      BY <1>0, <2>1, <3>3, <3>5 DEF JobSound, Runs, Live
    <3> QED
      BY <2>1, <2>2, <3>3, <3>5, <3>6 DEF Live
  <2>3. CASE ~\E u \in S : cancels[u] = b
    <3>1. jobs'[b] = jobs[b]
      BY <2>3 DEF Cancelled
    <3> QED
      BY <1>0, <2>3, <3>1 DEF Live
  <2> QED
    BY <2>2, <2>3
<1>2. InvJobs'
  <2>1. jobs' \in [Jobs -> JobStates]
    BY <1>1 DEF Cancelled
  <2> QED
    BY <1>1, <2>1 DEF InvJobs, JobSound, Runs
<1>3. InvHandles'
  <2>1. cancels' \in [Units -> 0 .. MaxBuilds]
    BY <1>0, ConstantsAssumption
  <2>2. ASSUME NEW u \in Units, cancels'[u] # 0
        PROVE  Live(cancels[u])' /\ jobs'[cancels'[u]].target = u /\ ~jobs'[cancels'[u]].cancelled
    <3>1. u \notin S /\ cancels'[u] = cancels[u]
      BY <2>2
    <3>2. PICK c : c = cancels[u]
      OBVIOUS
    <3>3. c \in Jobs
      BY <1>0, <2>2, <3>1, <3>2 DEF Jobs
    <3>4. Live(c) /\ jobs[c].target = u /\ ~jobs[c].cancelled
      BY <2>2, <3>1, <3>2 DEF Builds, InvHandles, HandlesAreLive
    <3>5. ASSUME NEW w \in S, cancels[w] = c PROVE FALSE
      <4>1. jobs[c].target = w
        <5>1. w \in Units /\ cancels[w] # 0
          BY <2>2, <3>1, <3>2, <3>5
        <5> QED
          BY <3>5, <5>1 DEF Builds, InvHandles, HandlesAreLive
      <4> QED
        BY <3>1, <3>4, <4>1
    <3>6. Live(c)' /\ jobs'[c].target = u /\ ~jobs'[c].cancelled
      BY <1>1, <3>3, <3>4, <3>5
    <3> QED
      BY <3>1, <3>2, <3>6 DEF Live
  <2>3. ASSUME NEW u \in building' PROVE \E c \in Jobs : Live(c)' /\ jobs'[c].target = u
    <3>1. PICK c \in Jobs : Live(c) /\ jobs[c].target = u
      BY <1>0 DEF Builds, InvHandles, HandlesAreLive
    <3> QED
      BY <1>1, <3>1
  <2> QED
    BY <1>0, <2>1, <2>2, <2>3 DEF InvHandles, HandlesAreLive
<1>4. InvQuit'
  <2>1. ASSUME NEW b \in Jobs, Live(b)'
        PROVE  \/ jobs'[b].cancelled
               \/ cancels'[jobs'[b].target] = b
               \/ \E c \in Jobs \ {b} : jobs'[c].target = jobs'[b].target
    <3>1. Live(b) /\ jobs[b].target \in Units
      BY <1>0, <1>1, <2>1 DEF JobSound, Live, Runs
    <3>2. CASE cancels[jobs[b].target] = b
      BY <1>1, <3>1, <3>2
    <3>3. CASE jobs[b].cancelled
      BY <1>1, <3>3
    <3>4. CASE \E c \in Jobs \ {b} : jobs[c].target = jobs[b].target
      BY <1>1, <3>4
    <3> QED
      BY <3>1, <3>2, <3>3, <3>4 DEF Builds, InvQuit
  <2> QED
    BY <2>1 DEF InvQuit
<1>5. InvRows'
  BY <1>1 DEF Builds, InvRows
<1>6. InvBar'
  BY <1>1 DEF Builds, InvBar, BarOnlyWhileBuilding
<1> QED
  BY <1>2, <1>3, <1>4, <1>5, <1>6 DEF Builds

(* Only rows change, each to what is on the disk or to nothing. *)
LEMMA RowsKeep ==
  ASSUME Builds, UNCHANGED <<building, cancels, bar, jobs>>, statuses' \in [Units -> Statuses],
         \A u \in Units \ LeftBuilding : statuses'[u] = "building" =>
             statuses[u] = "building" \/ \E b \in Jobs : jobs[b].at[u] = "building"
  PROVE  Builds'
<1>1. InvRows'
  BY DEF Builds, InvRows
<1>2. InvJobs' /\ InvHandles' /\ InvQuit' /\ InvBar'
  BY DEF Builds, InvJobs, InvHandles, HandlesAreLive, InvQuit, InvBar, BarOnlyWhileBuilding, Live
<1> QED
  BY <1>1, <1>2 DEF Builds

LEMMA ClearKeeps ==
  ASSUME Builds, ConfirmClean \/ KeyChoose \/ OpDone \/ \E u \in Units : SourceStateChanged(u)
  PROVE  Builds'
<1>0. statuses \in [Units -> Statuses]
  BY DEF Builds, InvRows
<1>1. UNCHANGED <<building, cancels, bar, jobs>>
  BY DEF ConfirmClean, KeyChoose, OpDone, SourceStateChanged
<1>2. CASE ConfirmClean
  <2>1. CASE statuses' = statuses
    BY <1>0, <1>1, <2>1, RowsKeep
  <2>2. CASE statuses' # statuses
    <3>1. PICK gone \in SUBSET Units : statuses' = [u \in Units |-> IF u \in gone THEN "none" ELSE statuses[u]]
      <4>1. {u \in Units : confirm[2] \in {u, NoTarget}} \in SUBSET Units
        OBVIOUS
      <4> QED
        BY <1>2, <2>2, <4>1 DEF ConfirmClean
    <3>2. statuses' \in [Units -> Statuses]
      BY <1>0, <3>1 DEF Statuses
    <3>3. \A u \in Units : statuses'[u] = "building" => statuses[u] = "building"
      BY <3>1
    <3> QED
      BY <1>1, <3>2, <3>3, RowsKeep
  <2> QED
    BY <2>1, <2>2
<1>3. CASE KeyChoose
  <2>1. PICK fresh \in scanStatuses(jobs, Units \ building) :
          statuses' = [u \in Units |-> IF u \in building THEN statuses[u] ELSE fresh[u]]
    BY <1>3 DEF KeyChoose, recomputeStatuses
  <2>2. /\ fresh \in [Units \ building -> Statuses]
        /\ \A u \in Units \ building :
              \/ fresh[u] \in {"none", "cached", "failed"}
              \/ fresh[u] = "building" /\ (u \in LeftBuilding \/ \E b \in Jobs : jobs[b].at[u] = "building")
    BY <2>1 DEF scanStatuses
  <2>3. statuses' \in [Units -> Statuses]
    BY <1>0, <2>1, <2>2
  <2>4. ASSUME NEW u \in Units \ LeftBuilding, statuses'[u] = "building"
        PROVE  statuses[u] = "building" \/ \E b \in Jobs : jobs[b].at[u] = "building"
    BY <2>1, <2>2, <2>4
  <2> QED
    BY <1>1, <2>3, <2>4, RowsKeep
<1>4. ASSUME NEW u, statuses' = Cleared(u) PROVE Builds'
  <2>1. statuses' \in [Units -> Statuses] /\ \A w \in Units : statuses'[w] = "building" => statuses[w] = "building"
    BY <1>0, <1>4 DEF Cleared, Statuses
  <2> QED
    BY <1>1, <2>1, RowsKeep
<1>5. CASE OpDone
  BY <1>4, <1>5 DEF OpDone
<1>6. CASE \E u \in Units : SourceStateChanged(u)
  BY <1>4, <1>6 DEF SourceStateChanged
<1> QED
  BY <1>2, <1>3, <1>5, <1>6

(* All other keys and messages leave the builds alone. *)
LEMMA NextBuilds == Builds /\ [Next]_vars => Builds'
<1> SUFFICES ASSUME Builds, [Next]_vars PROVE Builds'
  OBVIOUS
<1>0. cancels \in [Units -> 0 .. MaxBuilds]
  BY DEF Builds, InvHandles
<1>1. ASSUME UNCHANGED build PROVE Builds'
  <2>1. statuses \in [Units -> Statuses] /\ UNCHANGED <<building, cancels, bar, jobs>> /\ statuses' = statuses
    BY <1>1 DEF Builds, InvRows, build
  <2> QED
    BY <2>1, RowsKeep
<1>2. CASE UNCHANGED vars
  BY <1>1, <1>2 DEF vars, build
<1>3. CASE KeyQuit \/ KeySetup \/ KeyLeave \/ ConfirmNo \/ PromptCancel \/ PromptChoose \/ OpFails
  BY <1>1, <1>3 DEF KeyQuit, KeySetup, KeyLeave, ConfirmNo, PromptCancel, PromptChoose, OpFails
<1>4. ASSUME NEW u \in Units, KeyCancel(u) \/ KeyClean(u) \/ KeyToggle(u) \/ KeyPromote(u)
      PROVE  Builds'
  BY <1>1, <1>4 DEF KeyCancel, KeyClean, KeyToggle, KeyPromote
<1>5. CASE KeyBuildAll \/ \E u \in Units : KeyBuild(u)
  BY <1>5, KeysKeep
<1>6. CASE ConfirmClean \/ KeyChoose \/ OpDone \/ \E u \in Units : SourceStateChanged(u)
  BY <1>6, ClearKeeps
<1>7. CASE ConfirmQuit
  <2>1. PICK S \in SUBSET Units : S = Units
    OBVIOUS
  <2>2. /\ jobs' = Cancelled(S) /\ UNCHANGED <<statuses, building, bar>>
        /\ cancels' = [u \in Units |-> IF u \in S THEN 0 ELSE cancels[u]]
    BY <1>7, <2>1 DEF ConfirmQuit
  <2> QED
    BY <2>2, CancelsKeep
<1>8. ASSUME NEW u \in Units, ConfirmCancel(u) PROVE Builds'
  <2>1. PICK S \in SUBSET Units : S = {u}
    OBVIOUS
  <2>2. jobs' = Cancelled(S) /\ UNCHANGED <<statuses, building, bar>>
    BY <1>8, <2>1 DEF ConfirmCancel
  <2>3. cancels' = [w \in Units |-> IF w \in S THEN 0 ELSE cancels[w]]
    BY <1>0, <1>8, <2>1 DEF ConfirmCancel
  <2> QED
    BY <2>2, <2>3, CancelsKeep
<1>9. ASSUME NEW b \in Jobs, JobStep(b) PROVE Builds'
  <2>1. PICK j : JobMoves(b, j)
    BY <1>9, StepMoves DEF Builds
  <2>2. InvJobs' /\ InvHandles' /\ InvQuit'
    BY <2>1, MovesKeep DEF Builds
  <2>3. InvRows'
    BY <1>9, StepRows DEF Builds
  <2>4. InvBar'
    BY <1>9, StepBar DEF Builds
  <2> QED
    BY <2>2, <2>3, <2>4 DEF Builds
<1> QED
  BY <1>2, <1>3, <1>4, <1>5, <1>6, <1>7, <1>8, <1>9 DEF Next, UserKey, Background

LEMMA InitBuilds == Init => Builds
<1> SUFFICES ASSUME Init PROVE Builds
  OBVIOUS
<1>1. jobs = [b \in Jobs |-> Idle] /\ Idle \in JobStates
  BY DEF Init, Idle, JobStates, Places, Targets
<1>2. /\ Idle.phase = "unused" /\ Idle.target = NoTarget /\ Idle.cancelled = FALSE
      /\ \A u \in Units : Idle.at[u] = "out"
  BY DEF Idle
<1>3. InvJobs
  BY <1>1, <1>2 DEF InvJobs, JobSound, Runs
<1>4. 0 \in 0 .. MaxBuilds
  BY ConstantsAssumption
<1>5. InvHandles
  BY <1>4 DEF Init, InvHandles, HandlesAreLive
<1>6. \A b \in Jobs : ~Live(b)
  BY <1>1, <1>2 DEF Live
<1>7. InvQuit
  BY <1>6 DEF InvQuit
<1>8. InvRows
  BY DEF Init, InvRows, scanStatuses
<1>9. InvBar
  <2>1. Cardinality({}) = 0
    BY FS_EmptySet
  <2> QED
    BY <2>1 DEF Init, InvBar, BarOnlyWhileBuilding
<1> QED
  BY <1>3, <1>5, <1>7, <1>8, <1>9 DEF Builds

-----------------------------------------------------------------------------
(* Dialogs *)

LEMMA NextScreen == InvScreen /\ [Next]_vars => InvScreen'
<1> SUFFICES ASSUME InvScreen, [Next]_vars PROVE InvScreen'
  OBVIOUS
<1>0. Nothing = <<"none", NoTarget>> /\ Nothing \in Confirms
  BY DEF Nothing, Confirms
<1>1. CASE UNCHANGED <<screen, source, quit>>
  BY <1>1 DEF InvScreen, ResultFindsItsDialog, screen, source
<1>2. CASE UNCHANGED <<screen, prompt, op>> /\ dev' \subseteq Units /\ quit' \in BOOLEAN
  BY <1>2 DEF InvScreen, ResultFindsItsDialog, screen
<1>3. CASE /\ confirm' = Nothing /\ dev' \subseteq Units /\ quit' \in BOOLEAN /\ UNCHANGED <<view, prompt, op>>
  BY <1>0, <1>3 DEF InvScreen, ResultFindsItsDialog
<1>4. CASE ConfirmClean \/ ConfirmQuit \/ ConfirmNo \/ \E u \in Units : ConfirmCancel(u)
  BY <1>3, <1>4 DEF ConfirmClean, ConfirmQuit, ConfirmNo, ConfirmCancel, source, InvScreen
<1>5. CASE KeyQuit \/ \E u \in Units : KeyCancel(u) \/ KeyClean(u)
  <2>1. confirm' \in Confirms /\ UNCHANGED <<view, source>> /\ view = "units" /\ quit' \in BOOLEAN
    <3>1. CASE KeyQuit
      <4>1. <<"quit", NoTarget>> \in Confirms
        BY DEF Confirms
      <4>2. confirm' \in {<<"quit", NoTarget>>, Nothing} /\ quit' \in {TRUE, FALSE}
        BY <3>1 DEF KeyQuit
      <4> QED
        BY <1>0, <3>1, <4>1, <4>2 DEF KeyQuit, On
    <3>2. CASE \E u \in Units : KeyCancel(u) \/ KeyClean(u)
      BY <3>2 DEF KeyCancel, KeyClean, On, Confirms, InvScreen
    <3> QED
      BY <1>5, <3>1, <3>2
  <2> QED
    BY <2>1 DEF InvScreen, ResultFindsItsDialog, source
<1>6. CASE KeySetup \/ KeyLeave \/ KeyChoose
  <2>1. /\ view \in {"units", "setup"} /\ view' \in {"units", "setup"} /\ confirm = Nothing
        /\ UNCHANGED <<confirm, prompt, op, quit>> /\ dev' \subseteq Units
    BY <1>6 DEF KeySetup, KeyLeave, KeyChoose, On, source, recomputeStatuses, InvScreen
  <2> QED
    BY <2>1 DEF InvScreen, ResultFindsItsDialog, Views
<1>7. ASSUME NEW u \in Units, KeyToggle(u) \/ KeyPromote(u) PROVE InvScreen'
  <2>1. view = "units" /\ confirm = Nothing /\ UNCHANGED <<confirm, dev, quit>> /\ prompt = Nothing /\ op = Nothing
    BY <1>7 DEF KeyToggle, KeyPromote, On, InvScreen, ResultFindsItsDialog
  <2>2. CASE \E k \in {"scheme", "discard"} : Ask(k, u) /\ UNCHANGED op
    <3>1. prompt' \in {"scheme", "depth", "discard"} \X Units /\ view' = "prompt" /\ op' = Nothing /\ prompt' # Nothing
      BY <1>0, <2>1, <2>2 DEF Ask
    <3> QED
      BY <2>1, <3>1 DEF InvScreen, ResultFindsItsDialog, Views
  <2>3. CASE \E k \in {"pin", "promote"} : Start(k, u) /\ UNCHANGED prompt
    <3>1. op' \in {"dev", "pin", "promote"} \X Units /\ view' = "progress" /\ prompt' = Nothing /\ op' # Nothing
      BY <1>0, <2>1, <2>3 DEF Start
    <3> QED
      BY <2>1, <3>1 DEF InvScreen, ResultFindsItsDialog, Views
  <2> QED
    BY <1>7, <2>2, <2>3 DEF KeyToggle, KeyPromote
<1>8. CASE PromptCancel
  <2>1. view = "prompt" /\ prompt' = Nothing /\ view' = "units" /\ confirm = Nothing /\ UNCHANGED <<confirm, op, dev, quit>>
    BY <1>8 DEF PromptCancel, On
  <2> QED
    BY <2>1 DEF InvScreen, ResultFindsItsDialog, Views
<1>9. CASE PromptChoose
  <2>1. view = "prompt" /\ confirm = Nothing /\ UNCHANGED <<confirm, dev, quit>> /\ op = Nothing /\ prompt # Nothing
    BY <1>9 DEF PromptChoose, On, InvScreen, ResultFindsItsDialog
  <2>2. PICK k \in {"scheme", "depth", "discard"}, t \in Units : prompt = <<k, t>>
    BY <2>1 DEF InvScreen
  <2>3. prompt[1] = k /\ prompt[2] = t
    BY <2>2
  <2>4. CASE k = "scheme"
    <3>1. prompt' = [prompt EXCEPT ![1] = "depth"] /\ view' = view /\ op' = op
      BY <1>9, <2>3, <2>4 DEF PromptChoose
    <3>2. prompt' = <<"depth", t>>
      BY <2>2, <3>1
    <3>3. prompt' # Nothing /\ prompt' \in {"scheme", "depth", "discard"} \X Units
      BY <1>0, <3>2
    <3> QED
      BY <2>1, <3>1, <3>3 DEF InvScreen, ResultFindsItsDialog
  <2>5. CASE k # "scheme"
    <3>1. prompt' = Nothing /\ view' = "progress" /\ \E x \in {"dev", "pin"} : op' = <<x, t>>
      BY <1>9, <2>3, <2>5 DEF PromptChoose, Start
    <3>2. op' # Nothing /\ op' \in {"dev", "pin", "promote"} \X Units
      BY <1>0, <3>1
    <3> QED
      BY <2>1, <3>1, <3>2 DEF InvScreen, ResultFindsItsDialog, Views
  <2> QED
    BY <2>4, <2>5
<1>10. CASE OpDone \/ OpFails
  <2>1. /\ op # Nothing /\ op' = Nothing /\ view' = "units" /\ view = "progress" /\ prompt = Nothing
        /\ UNCHANGED <<confirm, prompt, quit>>
    BY <1>10 DEF OpDone, OpFails, InvScreen, ResultFindsItsDialog
  <2>2. dev' \subseteq Units
    <3>1. op[2] \in Units
      BY <2>1 DEF InvScreen
    <3> QED
      BY <1>10, <3>1 DEF OpDone, OpFails, InvScreen
  <2> QED
    BY <2>1, <2>2 DEF InvScreen, ResultFindsItsDialog, Views
<1>11. CASE \E u \in Units : SourceStateChanged(u)
  <2>1. dev' \subseteq Units /\ UNCHANGED <<screen, prompt, op, quit>>
    BY <1>11 DEF SourceStateChanged, InvScreen
  <2> QED
    BY <1>2, <2>1 DEF InvScreen
<1>12. CASE KeyBuildAll \/ \E u \in Units : KeyBuild(u)
  BY <1>1, <1>12 DEF KeyBuildAll, KeyBuild
<1>13. ASSUME NEW b \in Jobs, JobStep(b) PROVE InvScreen'
  <2>1. UNCHANGED <<screen, source, quit>>
    BY <1>13 DEF JobStep, PlanUnits, LoadFails, RecordError, JobEnds, BuildDone, Announce, CheckWorker,
                 BuildingEvent, DoneEvent, FailedEvent
  <2> QED
    BY <1>1, <2>1
<1>14. CASE UNCHANGED vars
  BY <1>1, <1>14 DEF vars
<1> QED
  BY <1>4, <1>5, <1>6, <1>7, <1>8, <1>9, <1>10, <1>11, <1>12, <1>13, <1>14 DEF Next, UserKey, Background

-----------------------------------------------------------------------------
LEMMA TuiInvHolds == Spec => [](Builds /\ InvScreen)
<1>1. Init => Builds /\ InvScreen
  <2>1. Init => InvScreen
    <3> SUFFICES ASSUME Init PROVE InvScreen
      OBVIOUS
    <3>1. Nothing \in Confirms
      BY DEF Nothing, Confirms
    <3>2. /\ view = "units" /\ confirm = Nothing /\ prompt = Nothing /\ op = Nothing /\ dev \subseteq Units
          /\ quit = FALSE
      BY DEF Init
    <3> QED
      BY <3>1, <3>2 DEF InvScreen, ResultFindsItsDialog, Views
  <2> QED
    BY <2>1, InitBuilds
<1>2. Builds /\ InvScreen /\ [Next]_vars => (Builds /\ InvScreen)'
  BY NextBuilds, NextScreen
<1> QED
  BY <1>1, <1>2, PTL DEF Spec

(* The cancel function that x and q call is that of a build of this unit    *)
(* which runs and was not cancelled, and a unit is entered as building only *)
(* while a build of it runs: for any number of builds and however they      *)
(* overlap (startBuild, updateConfirm, buildDoneMsg of app.go).             *)
THEOREM HandlesAreLiveHolds == Spec => []HandlesAreLive
<1>1. Builds /\ InvScreen => HandlesAreLive
  BY DEF Builds, InvHandles
<1> QED
  BY <1>1, TuiInvHolds, PTL

(* The rows, the progress bar and the dialogs tell what the builds and the  *)
(* source operations behind them do: no row is left at "building", the bar  *)
(* is shown only while a build runs and its counts add up, and a result     *)
(* finds the dialog that waits for it (buildEventMsg, buildDoneMsg,         *)
(* sourceOpDoneMsg of app.go).                                              *)
THEOREM RowsInvHolds == Spec => []RowsInv
<1>1. Builds /\ InvScreen => RowsInv
  <2> SUFFICES ASSUME Builds, InvScreen PROVE RowsInv
    OBVIOUS
  <2>1. jobs \in [Jobs -> JobStates] /\ \A b \in Jobs : JobSound(jobs[b])
    BY DEF Builds, InvJobs
  <2>2. TypeOK
    <3>1. /\ view \in Views /\ confirm \in Confirms /\ statuses \in [Units -> Statuses] /\ building \subseteq Units
          /\ cancels \in [Units -> 0 .. MaxBuilds] /\ bar \in [total : Nat, done : Nat, pending : SUBSET Units]
          /\ dev \subseteq Units /\ quit \in BOOLEAN
      BY DEF Builds, InvHandles, InvRows, InvBar, InvScreen
    <3>2. prompt \in {"none", "scheme", "depth", "discard"} \X (Units \cup {NoTarget})
      BY DEF InvScreen, Nothing
    <3>3. op \in {"none", "dev", "pin", "promote"} \X (Units \cup {NoTarget})
      BY DEF InvScreen, Nothing
    <3> QED
      BY <2>1, <3>1, <3>2, <3>3 DEF TypeOK, JobStates, Targets, Places
  <2>3. NoRowLeftBuilding
    <3> SUFFICES ASSUME NEW u \in Units \ LeftBuilding, statuses[u] = "building"
                 PROVE  \E b \in Jobs : Live(b)
      BY DEF NoRowLeftBuilding
    <3>1. PICK b \in Jobs : jobs[b].at[u] = "building"
      BY DEF Builds, InvRows
    <3> QED
      BY <2>1, <3>1 DEF JobSound, Live
  <2> QED
    BY <2>2, <2>3 DEF RowsInv, Builds, InvBar, InvScreen
<1> QED
  BY <1>1, TuiInvHolds, PTL

(* Quitting leaves no build running that was not cancelled, unless the same *)
(* unit was started again beside it and took over its entry (updateUnits,   *)
(* updateConfirm of app.go).                                                *)
THEOREM QuitCancelsHolds == Spec => QuitCancels
<1>1. Builds /\ InvScreen /\ [Next]_vars =>
        [quit' => \A b \in Jobs : Live(b) =>
            \/ jobs'[b].cancelled
            \/ \E c \in Jobs \ {b} : jobs[c].target = jobs[b].target]_vars
  <2> SUFFICES ASSUME Builds, InvScreen, Next, quit', NEW b \in Jobs, Live(b),
                      ~\E c \in Jobs \ {b} : jobs[c].target = jobs[b].target
               PROVE  jobs'[b].cancelled
    OBVIOUS
  <2>1. jobs[b].target \in Units /\ jobs[b] \in JobStates /\ jobs \in [Jobs -> JobStates]
    BY DEF Builds, InvJobs, JobSound, Live, Runs
  <2>2. jobs[b].cancelled \/ cancels[jobs[b].target] = b
    BY DEF Builds, InvQuit
  <2>3. KeyQuit \/ ConfirmQuit
    <3>1. ~quit /\ (quit' = quit \/ KeyQuit \/ ConfirmQuit)
      <4>1. CASE UserKey
        BY <4>1 DEF UserKey, KeyBuildAll, KeySetup, KeyLeave, KeyChoose, ConfirmClean, ConfirmNo, PromptCancel,
              PromptChoose, KeyBuild, KeyCancel, KeyClean, ConfirmCancel, KeyToggle, KeyPromote, KeyQuit, ConfirmQuit, On
      <4>2. ASSUME NEW c \in Jobs, JobStep(c) PROVE ~quit /\ quit' = quit
        BY <4>2 DEF JobStep, PlanUnits, LoadFails, RecordError, JobEnds, BuildDone, Announce, CheckWorker, Ready,
                 BuildingEvent, DoneEvent, FailedEvent
      <4>3. CASE OpDone \/ OpFails \/ \E u \in Units : SourceStateChanged(u)
        BY <4>3 DEF OpDone, OpFails, SourceStateChanged
      <4> QED
        BY <4>1, <4>2, <4>3 DEF Next, Background
    <3> QED
      BY <3>1
  <2>4. b # 0
    BY DEF Jobs
  <2>5. CASE KeyQuit
    <3>1. \A u \in Units : cancels[u] = 0
      BY <2>5 DEF KeyQuit
    <3>2. jobs' = jobs
      BY <2>5 DEF KeyQuit, build
    <3> QED
      BY <2>1, <2>2, <2>4, <3>1, <3>2
  <2>6. CASE ConfirmQuit
    <3>1. jobs'[b] = IF \E u \in Units : cancels[u] = b THEN [jobs[b] EXCEPT !.cancelled = TRUE] ELSE jobs[b]
      BY <2>6 DEF ConfirmQuit, Cancelled
    <3>2. [jobs[b] EXCEPT !.cancelled = TRUE].cancelled = TRUE
      BY <2>1 DEF JobStates
    <3> QED
      BY <2>1, <2>2, <3>1, <3>2
  <2> QED
    BY <2>3, <2>5, <2>6
<1> QED
  BY <1>1, TuiInvHolds, PTL DEF Spec, QuitCancels


-----------------------------------------------------------------------------
(* Setup: local.star and the forwards *)

(* A forward that may be stored.                                            *)
Known == {p \in Forward : p.guest \in Guests}
Stored(t) == t \in Seq(Known) /\ ForwardsApart(t)

(* Whatever holds overrides holds one of a guest port, those shown are what *)
(* the user asked for, and a forward that is edited is listed.              *)
InvForwards ==
    /\ Stored(shown.ports) /\ Stored(local.ports) /\ Stored(command.ov.ports)
    /\ \A p \in Known : In(p, shown.ports) <=> wanted[p.guest] = p.host
    /\ setupField = "edit" => editIdx = -1 \/ editIdx + 1 \in 1 .. Len(effectivePorts)

(* A command that has loaded local.star has it as it is, or nothing was     *)
(* loaded.                                                                  *)
InvSaved ==
    /\ ShownIsSaved /\ NoSettingLost
    /\ command.on /\ command.loaded => command.ov = local

LEMMA EmptyStored == Stored(<<>>) /\ Empty.ports = <<>>
<1>1. <<>> \in Seq(Known) /\ Len(<<>>) = 0
  OBVIOUS
<1>2. \A i \in 1 .. 0 : FALSE
  OBVIOUS
<1> QED
  BY <1>1, <1>2 DEF Stored, ForwardsApart, Empty

LEMMA StoredIn == ASSUME NEW t, Stored(t), NEW q, In(q, t)
                  PROVE  q \in Known /\ q.guest \in Guests /\ q.host \in Nat \ {0}
BY DEF Stored, In, Known, Forward

LEMMA OfGuest ==
  ASSUME NEW t, Stored(t), NEW q, In(q, t), NEW p, In(p, t), q.guest = p.guest
  PROVE  q = p
BY DEF Stored, ForwardsApart, In

LEMMA RangeIn == ASSUME NEW t, Stored(t) PROVE \A q : q \in Range(t) <=> In(q, t)
BY DEF Stored, Range, In

LEMMA EntriesKnown == Entries \subseteq Known
BY SetupAssumption DEF Known, Guests

LEMMA MachineStored == ASSUME NEW m \in DOMAIN Machines PROVE Stored(Machines[m])
<1>1. PICK t \in Seq(Forward) : t = Machines[m]
  BY SetupAssumption
<1>2. \A i \in 1 .. Len(t) : t[i] \in Forward /\ t[i] \in Range(t)
  BY DEF Range
<1>3. \A i \in 1 .. Len(t) : t[i].guest \in Guests
  BY <1>1, <1>2 DEF Guests
<1>4. t \in Seq(Known)
  <2>1. \A i \in 1 .. Len(t) : t[i] \in Known
    BY <1>2, <1>3 DEF Known
  <2> QED
    BY <2>1
<1>5. ForwardsApart(t)
  BY <1>1, SetupAssumption DEF ForwardsApart
<1> QED
  BY <1>1, <1>4, <1>5 DEF Stored

(* Forgetting the override of a guest port.                                 *)
LEMMA DropSound ==
  ASSUME NEW t, Stored(t), NEW g, NEW r, r = dropOverrideByGuest(t, g)
  PROVE  Stored(r) /\ \A q : In(q, r) <=> In(q, t) /\ q.guest # g
<1>1. t \in Seq(Known) /\ DOMAIN t = 1 .. Len(t) /\ Len(t) \in Nat
  BY DEF Stored
<1>2. PICK K : K = {i \in 1 .. Len(t) : t[i].guest # g}
  OBVIOUS
<1>3. K \in SUBSET (1 .. Len(t)) /\ r = KeepAt(t, K)
  BY <1>1, <1>2 DEF dropOverrideByGuest
<1>4. r \in Seq(Known) /\ \E f : Picks(f, r, t, K)
  BY <1>1, <1>3, KeepAtPicks
<1>5. PICK f : Picks(f, r, t, K)
  BY <1>4
<1>6. /\ \A i \in 1 .. Len(r) : f[i] \in K /\ r[i] = t[f[i]]
      /\ \A k \in K : \E i \in 1 .. Len(r) : f[i] = k
  BY <1>5 DEF Picks
<1>7. ForwardsApart(r)
  <2> SUFFICES ASSUME NEW i \in 1 .. Len(r), NEW j \in 1 .. Len(r), r[i].guest = r[j].guest
               PROVE  i = j
    BY DEF ForwardsApart
  <2>1. f[i] = f[j]
    <3>1. PICK a \in 1 .. Len(t), b \in 1 .. Len(t) : a = f[i] /\ b = f[j] /\ r[i] = t[a] /\ r[j] = t[b]
      BY <1>3, <1>6
    <3>2. \A x, y \in 1 .. Len(t) : t[x].guest = t[y].guest => x = y
      BY DEF Stored, ForwardsApart
    <3> QED
      BY ONLY <3>1, <3>2, r[i].guest = r[j].guest
  <2>2. K \in SUBSET Nat /\ Len(r) \in Nat
    <3>1. \A i1 \in 1 .. Len(t) : i1 \in Nat
      BY <1>1
    <3>2. Len(r) \in Nat
      BY <1>4
    <3> QED
      BY ONLY <1>3, <3>1, <3>2
  <2> QED
    BY <1>5, <2>1, <2>2, PicksApart
<1>8. \A q : In(q, r) <=> In(q, t) /\ q.guest # g
  BY <1>2, <1>6 DEF In
<1> QED
  BY <1>4, <1>7, <1>8 DEF Stored

(* Making an entry the forward of its guest port.                           *)
LEMMA SetSound ==
  ASSUME NEW t, Stored(t), NEW e \in Known, NEW r, r = setEffectivePort(t, e)
  PROVE  /\ Stored(r)
         /\ \A q : In(q, r) <=> (In(q, t) /\ q.guest # e.guest) \/ (q = e /\ e \notin Range(machinePorts))
<1>1. PICK rest : rest = dropOverrideByGuest(t, e.guest)
  OBVIOUS
<1>2. Stored(rest) /\ \A q : In(q, rest) <=> In(q, t) /\ q.guest # e.guest
  BY <1>1, DropSound
<1>3. r = IF e \in Range(machinePorts) THEN rest ELSE Append(rest, e)
  BY <1>1 DEF setEffectivePort
<1>4. CASE e \in Range(machinePorts)
  BY <1>2, <1>3, <1>4
<1>5. CASE e \notin Range(machinePorts)
  <2>n. PICK N \in Nat : N = Len(rest) /\ rest \in Seq(Known)
    BY <1>2 DEF Stored
  <2>1. r \in Seq(Known) /\ Len(r) = N + 1 /\ (\A i \in 1 .. N : r[i] = rest[i]) /\ r[N + 1] = e
    BY <1>3, <1>5, <2>n, AppendProperties
  <2>2. (\A i \in 1 .. (N + 1) : i \in 1 .. N \/ i = N + 1) /\ N + 1 \in 1 .. (N + 1)
        /\ \A i \in 1 .. N : i \in 1 .. (N + 1)
    BY <2>n
  <2>3. \A i \in 1 .. N : rest[i].guest # e.guest
    BY <1>2, <2>n DEF In
  <2>4. ForwardsApart(r)
    BY <1>2, <2>n, <2>1, <2>2, <2>3 DEF Stored, ForwardsApart
  <2>5. \A q : In(q, r) <=> In(q, rest) \/ q = e
    BY <2>n, <2>1, <2>2 DEF In
  <2> QED
    BY <1>2, <1>5, <2>1, <2>4, <2>5 DEF Stored
<1> QED
  BY <1>4, <1>5

(* What is listed. *)
LEMMA EffectiveSound ==
  ASSUME NEW m \in DOMAIN Machines, NEW t, Stored(t), NEW r, r = MergeQEMUPorts(Machines[m], t)
  PROVE  /\ Stored(r) /\ r \in Seq(Known) /\ Len(r) \in Nat
         /\ \A q : In(q, r) <=> In(q, t) \/ (In(q, Machines[m]) /\ \A p : In(p, t) => p.guest # q.guest)
<1>1. Stored(Machines[m])
  BY MachineStored
<1>2. /\ r \in Seq(Known) /\ ForwardsApart(r)
      /\ \A q : In(q, r) <=> In(q, t) \/ (In(q, Machines[m]) /\ \A p : In(p, t) => p.guest # q.guest)
  BY <1>1, MergeApart DEF Stored
<1>3. Len(r) \in Nat
  BY <1>2
<1> QED
  BY <1>2, <1>3 DEF Stored

-----------------------------------------------------------------------------
(* Saving *)

LEMMA MinTwo == ASSUME NEW a \in Nat, NEW b \in Nat PROVE Min({a, b}) = IF a <= b THEN a ELSE b
<1>1. PICK c \in {a, b} : c = IF a <= b THEN a ELSE b
  OBVIOUS
<1>2. (\A y \in {a, b} : c <= y) /\ \A x \in {a, b} : (\A y \in {a, b} : x <= y) => x = c
  BY <1>1
<1> QED
  BY <1>1, <1>2 DEF Min

LEMMA MaxTwo == ASSUME NEW a \in Int, NEW b \in Int PROVE Max({a, b}) = IF a >= b THEN a ELSE b
<1>1. PICK c \in {a, b} : c = IF a >= b THEN a ELSE b
  OBVIOUS
<1>2. (\A y \in {a, b} : c >= y) /\ \A x \in {a, b} : (\A y \in {a, b} : x >= y) => x = c
  BY <1>1
<1> QED
  BY <1>1, <1>2 DEF Max

LEMMA EmptySettings == Empty \in Settings
<1>1. FirstMachine \in DOMAIN Machines
  BY SetupAssumption DEF FirstMachine
<1>2. 0 \in 0 .. OffLadder /\ 0 \in 0 .. 2
  BY SetupAssumption DEF OffLadder
<1>3. <<>> \in Seq(Forward)
  OBVIOUS
<1> QED
  BY <1>1, <1>2, <1>3 DEF Empty, Settings

SettingFields == {"memory", "display", "ports", "machine", "parallel", "serial"}

LEMMA EmptyFields == DOMAIN Empty = SettingFields
BY DEF Empty, SettingFields

(* Some fields of s, the others of o. *)
LEMMA MixedSettings ==
  ASSUME NEW s \in Settings, NEW o \in Settings, NEW fields, NEW r,
         r = [f \in DOMAIN Empty |-> IF f \in fields THEN s[f] ELSE o[f]]
  PROVE  /\ r \in Settings
         /\ r.memory = IF "memory" \in fields THEN s.memory ELSE o.memory
         /\ r.display = IF "display" \in fields THEN s.display ELSE o.display
         /\ r.ports = IF "ports" \in fields THEN s.ports ELSE o.ports
<1>1. r = [memory |-> r.memory, display |-> r.display, ports |-> r.ports, machine |-> r.machine,
           parallel |-> r.parallel, serial |-> r.serial]
  BY EmptyFields DEF SettingFields
<1>2. /\ r.memory = IF "memory" \in fields THEN s.memory ELSE o.memory
      /\ r.display = IF "display" \in fields THEN s.display ELSE o.display
      /\ r.ports = IF "ports" \in fields THEN s.ports ELSE o.ports
      /\ r.machine = IF "machine" \in fields THEN s.machine ELSE o.machine
      /\ r.parallel = IF "parallel" \in fields THEN s.parallel ELSE o.parallel
      /\ r.serial = IF "serial" \in fields THEN s.serial ELSE o.serial
  BY EmptyFields DEF SettingFields
<1>3. r \in Settings
  BY <1>1, <1>2 DEF Settings
<1> QED
  BY <1>2, <1>3

LEMMA LoadsSettings ==
  ASSUME SetupTypeOK, Stored(local.ports)
  PROVE  LoadLocalOverrides \in Settings /\ Stored(LoadLocalOverrides.ports)
BY EmptySettings, EmptyStored DEF SetupTypeOK, LoadLocalOverrides

LEMMA SaveKeeps ==
  ASSUME SetupTypeOK, Stored(local.ports), NEW s \in Settings, Stored(s.ports), NEW fields,
         NEW ok \in BOOLEAN, mutateOverrides(s, fields, ok)
  PROVE  /\ local' \in Settings /\ last' \in Settings /\ loads' \in BOOLEAN /\ intact' \in BOOLEAN
         /\ saves' \in 0 .. MaxSaves /\ Stored(local'.ports)
         /\ NoSettingLost => NoSettingLost'
         /\ command.on => Overlap
<1>0. /\ local \in Settings /\ last \in Settings /\ loads \in BOOLEAN /\ intact \in BOOLEAN
      /\ saves \in 0 .. MaxSaves
  BY DEF SetupTypeOK
<1>1. LoadLocalOverrides \in Settings /\ Stored(LoadLocalOverrides.ports)
  BY LoadsSettings
<1>2. saves' \in 0 .. MaxSaves
  <2>1. saves < MaxSaves /\ saves' = saves + 1
    BY DEF mutateOverrides
  <2> QED
    BY ONLY <1>0, <2>1, SetupAssumption
<1>3. command.on => Overlap
  BY DEF mutateOverrides
<1>4. CASE ok
  <2>1. /\ local' = [f \in DOMAIN Empty |-> IF f \in fields THEN s[f] ELSE LoadLocalOverrides[f]]
        /\ last' = [f \in DOMAIN Empty |-> IF f \in fields THEN s[f] ELSE last[f]]
        /\ loads' = TRUE /\ intact' = (intact /\ loads)
    BY <1>4 DEF mutateOverrides
  <2>2. local' \in Settings /\ local'.ports = IF "ports" \in fields THEN s.ports ELSE LoadLocalOverrides.ports
    BY <1>1, <2>1, MixedSettings
  <2>3. last' \in Settings
    BY <1>0, <2>1, MixedSettings
  <2>4. Stored(local'.ports)
    BY <1>1, <2>2
  <2>5. NoSettingLost => NoSettingLost'
    <3> SUFFICES ASSUME NoSettingLost, intact' PROVE local' = last'
      BY DEF NoSettingLost
    <3>1. LoadLocalOverrides = last
      BY <2>1 DEF LoadLocalOverrides, NoSettingLost
    <3> QED
      BY <2>1, <3>1
  <2>6. loads' \in BOOLEAN /\ intact' \in BOOLEAN
    BY <1>0, <2>1
  <2> QED
    BY <1>2, <1>3, <2>2, <2>3, <2>4, <2>5, <2>6
<1>5. CASE ~ok
  <2>1. UNCHANGED <<local, loads, last, intact>>
    BY <1>5 DEF mutateOverrides
  <2> QED
    BY <1>0, <1>2, <1>3, <2>1 DEF NoSettingLost
<1> QED
  BY <1>4, <1>5

(* A save of the QEMU settings makes them agree, if it is one.              *)
LEMMA QemuKeeps ==
  ASSUME SetupTypeOK, Stored(local.ports), NEW s \in Settings, NEW ok \in BOOLEAN, saveQEMUSettings(s, ok)
  PROVE  shown' = s /\ agree' \in BOOLEAN /\ ShownIsSaved'
<1>1. shown' = s /\ agree' = ok
  BY DEF saveQEMUSettings
<1>2. ASSUME ok PROVE /\ local'.memory = s.memory /\ local'.display = s.display /\ local'.ports = s.ports
  <2>0. PICK fields : fields = {"memory", "display", "ports"}
    OBVIOUS
  <2>1. local' = [f \in DOMAIN Empty |-> IF f \in fields THEN s[f] ELSE LoadLocalOverrides[f]]
    BY <1>2, <2>0 DEF saveQEMUSettings, mutateOverrides
  <2>2. LoadLocalOverrides \in Settings
    BY LoadsSettings
  <2>3. /\ local'.memory = IF "memory" \in fields THEN s.memory ELSE LoadLocalOverrides.memory
        /\ local'.display = IF "display" \in fields THEN s.display ELSE LoadLocalOverrides.display
        /\ local'.ports = IF "ports" \in fields THEN s.ports ELSE LoadLocalOverrides.ports
    BY <2>1, <2>2, MixedSettings
  <2> QED
    BY ONLY <2>0, <2>3
<1> QED
  BY <1>1, <1>2 DEF ShownIsSaved

(* A save of another field leaves them as they were. *)
LEMMA OtherKeeps ==
  ASSUME SetupTypeOK, Stored(local.ports), NEW s \in Settings, NEW ok \in BOOLEAN, NEW fields,
         "memory" \notin fields, "display" \notin fields, "ports" \notin fields,
         mutateOverrides(s, fields, ok), OtherSave(ok),
         shown'.memory = shown.memory, shown'.display = shown.display, shown'.ports = shown.ports
  PROVE  agree' \in BOOLEAN /\ (ShownIsSaved => ShownIsSaved')
<1>1. agree' \in BOOLEAN
  BY DEF OtherSave, SetupTypeOK
<1>2. CASE ok
  <2>1. local' = [f \in DOMAIN Empty |-> IF f \in fields THEN s[f] ELSE LoadLocalOverrides[f]]
    BY <1>2 DEF mutateOverrides
  <2>2. LoadLocalOverrides \in Settings
    BY LoadsSettings
  <2>3. /\ local'.memory = LoadLocalOverrides.memory /\ local'.display = LoadLocalOverrides.display
        /\ local'.ports = LoadLocalOverrides.ports
    BY <2>1, <2>2, MixedSettings
  <2>4. agree' => agree /\ LoadLocalOverrides = local
    BY <1>2 DEF OtherSave, LoadLocalOverrides
  <2> QED
    BY <1>1, <2>3, <2>4 DEF ShownIsSaved
<1>3. CASE ~ok
  BY <1>1, <1>3 DEF mutateOverrides, OtherSave, ShownIsSaved
<1> QED
  BY <1>2, <1>3

-----------------------------------------------------------------------------
(* The steps of the Setup pages *)

SetupKept == SetupTypeOK /\ InvForwards
Pages == {"setup", "machine", "serial", "qemu", "edit"}

LEMMA ForwardsKept ==
  ASSUME InvForwards, shown'.ports = shown.ports, wanted' = wanted, Stored(local'.ports), Stored(command'.ov.ports),
         setupField' = "edit" => UNCHANGED <<shown, setupField, editIdx>>
  PROVE  InvForwards'
<1>1. \A p \in Known : In(p, shown'.ports) <=> wanted'[p.guest] = p.host
  BY DEF InvForwards
<1>2. setupField' = "edit" => editIdx' = -1 \/ editIdx' + 1 \in 1 .. Len(effectivePorts')
  <2> SUFFICES ASSUME setupField' = "edit" PROVE editIdx' = -1 \/ editIdx' + 1 \in 1 .. Len(effectivePorts')
    OBVIOUS
  <2>1. effectivePorts' = effectivePorts /\ editIdx' = editIdx /\ setupField = "edit"
    BY DEF effectivePorts, machinePorts
  <2> QED
    BY <2>1 DEF InvForwards
<1>3. Stored(shown'.ports)
  BY DEF InvForwards
<1> QED
  BY <1>1, <1>2, <1>3 DEF InvForwards

(* The steps that save nothing. *)
LEMMA MovesKept ==
  ASSUME SetupKept, UNCHANGED <<local, loads, shown, command, saves, last, wanted, agree, intact>>,
         setupField' \in Pages, qemuCursor' \in Nat, editIdx' \in Nat \union {-1},
         setupField' = "edit" => editIdx' = -1 \/ editIdx' + 1 \in 1 .. Len(effectivePorts)
  PROVE  SetupKept' /\ (InvSaved => InvSaved')
<1>1. SetupTypeOK'
  BY DEF SetupKept, SetupTypeOK, Pages
<1>2. InvForwards'
  <2>1. effectivePorts' = effectivePorts
    BY DEF effectivePorts, machinePorts
  <2> QED
    BY <2>1 DEF SetupKept, InvForwards
<1>3. InvSaved => InvSaved'
  BY DEF InvSaved, ShownIsSaved, NoSettingLost
<1> QED
  BY <1>1, <1>2, <1>3 DEF SetupKept

LEMMA CursorKept ==
  ASSUME SetupKept, Back \/ QemuUp \/ QemuDown \/ QemuEdit \/ EditCancel \/ \E f \in {"machine", "serial", "qemu"} : Enter(f)
  PROVE  SetupKept' /\ (InvSaved => InvSaved')
<1>0. /\ setupField \in Pages /\ qemuCursor \in Nat /\ editIdx \in Nat \union {-1} /\ -1 \in Nat \union {-1}
      /\ shown \in Settings /\ Stored(shown.ports)
  BY DEF SetupKept, SetupTypeOK, InvForwards, Pages
<1>1. PICK n \in Nat : n = Len(effectivePorts)
  <2>1. shown.machine \in DOMAIN Machines
    BY <1>0 DEF Settings
  <2> QED
    BY <1>0, <2>1, EffectiveSound DEF effectivePorts, machinePorts
<1>2. CASE Back
  BY <1>0, <1>2, MovesKept DEF Back, Pages
<1>3. CASE QemuUp
  <2>1. qemuCursor' \in Nat
    BY <1>0, <1>3 DEF QemuUp, QemuMove
  <2> QED
    BY <1>0, <1>3, <2>1, MovesKept DEF QemuUp, QemuMove, Pages
<1>4. CASE QemuDown
  <2>1. qemuCursor' \in Nat
    BY <1>0, <1>4 DEF QemuDown, QemuMove
  <2> QED
    BY <1>0, <1>4, <2>1, MovesKept DEF QemuDown, QemuMove, Pages
<1>5. CASE QemuEdit
  <2>1. setupField' = "edit" /\ UNCHANGED <<local, loads, shown, command, saves, last, wanted, agree, intact>>
    BY <1>5 DEF QemuEdit
  <2>2. CASE PortRow /\ editIdx' = qemuCursor - numFixedQEMURows /\ qemuCursor' = qemuCursor
    <3>1. qemuCursor >= 2 /\ qemuCursor < 2 + n + 1 - 1 /\ editIdx' = qemuCursor - 2
      BY <1>1, <2>2 DEF PortRow, numFixedQEMURows, qemuRowCount
    <3>2. editIdx' \in Nat \union {-1} /\ editIdx' + 1 \in 1 .. n
      <4>1. qemuCursor - 2 \in Nat /\ (qemuCursor - 2) + 1 \in 1 .. n
        BY ONLY <1>0, <1>1, <3>1
      <4> QED
        BY <3>1, <4>1
    <3> QED
      BY <1>0, <1>1, <2>1, <2>2, <3>2, MovesKept DEF Pages
  <2>3. CASE editIdx' = -1 /\ qemuCursor' = qemuRowCount - 1
    <3>1. qemuCursor' \in Nat
      BY <1>1, <2>3 DEF numFixedQEMURows, qemuRowCount
    <3> QED
      BY <1>0, <2>1, <2>3, <3>1, MovesKept DEF Pages
  <2> QED
    BY <1>5, <2>2, <2>3 DEF QemuEdit
<1>6. CASE EditCancel
  BY <1>0, <1>6, MovesKept DEF EditCancel, Pages
<1>7. ASSUME NEW f \in {"machine", "serial", "qemu"}, Enter(f) PROVE SetupKept' /\ (InvSaved => InvSaved')
  <2>1. setupField' \in Pages /\ setupField' # "edit"
    BY <1>7 DEF Enter, Pages
  <2> QED
    BY <1>0, <1>7, <2>1, MovesKept DEF Enter
<1> QED
  BY <1>2, <1>3, <1>4, <1>5, <1>6, <1>7

(* The saves of the other pages. *)
LEMMA OtherPagesKept ==
  ASSUME SetupKept, NEW s \in Settings, Stored(s.ports), NEW ok \in BOOLEAN, NEW fields,
         "memory" \notin fields, "display" \notin fields, "ports" \notin fields,
         mutateOverrides(s, fields, ok), OtherSave(ok), UNCHANGED <<qemuCursor, editIdx, command, wanted>>,
         shown' \in Settings, shown'.memory = shown.memory, shown'.display = shown.display,
         shown'.ports = shown.ports, setupField' \in {"setup", "serial"}
  PROVE  SetupKept' /\ (~Overlap /\ InvSaved => InvSaved')
<1>0. SetupTypeOK /\ InvForwards /\ Stored(local.ports)
  BY DEF SetupKept, InvForwards
<1>1. /\ local' \in Settings /\ last' \in Settings /\ loads' \in BOOLEAN /\ intact' \in BOOLEAN
      /\ saves' \in 0 .. MaxSaves /\ Stored(local'.ports)
      /\ NoSettingLost => NoSettingLost'
      /\ command.on => Overlap
  BY <1>0, SaveKeeps
<1>2. agree' \in BOOLEAN /\ (ShownIsSaved => ShownIsSaved')
  BY <1>0, OtherKeeps
<1>3. SetupTypeOK'
  BY <1>0, <1>1, <1>2 DEF SetupTypeOK
<1>4. InvForwards'
  <2>1. Stored(command'.ov.ports) /\ setupField' # "edit"
    BY <1>0 DEF InvForwards
  <2> QED
    BY <1>0, <1>1, <2>1, ForwardsKept
<1>5. ~Overlap /\ InvSaved => InvSaved'
  BY <1>1, <1>2 DEF InvSaved
<1> QED
  BY <1>3, <1>4, <1>5 DEF SetupKept

LEMMA OtherPages ==
  ASSUME SetupKept, NEW ok \in BOOLEAN,
         \/ \E n \in 1 .. 2 : SetParallel(n, ok)
         \/ \E m \in DOMAIN Machines : PickMachine(m, ok)
         \/ \E a \in Adapters \union {0} : PickAdapter(a, ok)
  PROVE  SetupKept' /\ (~Overlap /\ InvSaved => InvSaved')
<1>0. shown \in Settings /\ Stored(shown.ports) /\ SetupTypeOK /\ Stored(local.ports)
  BY DEF SetupKept, SetupTypeOK, InvForwards
<1>1. ASSUME NEW n \in 1 .. 2, SetParallel(n, ok) PROVE SetupKept' /\ (~Overlap /\ InvSaved => InvSaved')
  <2>1. PICK s : s = [shown EXCEPT !.parallel = n]
    OBVIOUS
  <2>2. /\ s \in Settings /\ s.memory = shown.memory /\ s.display = shown.display /\ s.ports = shown.ports
    BY <1>0, <2>1 DEF Settings
  <2>3. /\ mutateOverrides(s, {"parallel"}, ok) /\ OtherSave(ok) /\ UNCHANGED <<qemuCursor, editIdx, command, wanted>>
        /\ shown' = s /\ setupField' = "setup"
    BY <1>1, <2>1 DEF SetParallel
  <2> QED
    BY <1>0, <2>2, <2>3, OtherPagesKept
<1>2. ASSUME NEW m \in DOMAIN Machines, PickMachine(m, ok) PROVE SetupKept' /\ (~Overlap /\ InvSaved => InvSaved')
  <2>1. PICK s : s = [shown EXCEPT !.machine = m]
    OBVIOUS
  <2>2. /\ s \in Settings /\ s.memory = shown.memory /\ s.display = shown.display /\ s.ports = shown.ports
    BY <1>0, <2>1 DEF Settings
  <2>3. /\ mutateOverrides(s, {"machine"}, ok) /\ OtherSave(ok) /\ UNCHANGED <<qemuCursor, editIdx, command, wanted>>
        /\ shown' = s /\ setupField' = "setup"
    BY <1>2, <2>1 DEF PickMachine
  <2> QED
    BY <1>0, <2>2, <2>3, OtherPagesKept
<1>3. ASSUME NEW a \in Adapters \union {0}, PickAdapter(a, ok) PROVE SetupKept' /\ (~Overlap /\ InvSaved => InvSaved')
  <2>1. PICK l \in Settings : l = LoadLocalOverrides /\ Stored(l.ports)
    BY <1>0, LoadsSettings
  <2>2. PICK x \in [DOMAIN Machines -> Adapters \union {0}] : x = [l.serial EXCEPT ![shown.machine] = a]
    <3>1. l.serial \in [DOMAIN Machines -> Adapters \union {0}]
      BY DEF Settings
    <3> QED
      BY <3>1
  <2>3. PICK s : s = [l EXCEPT !.serial = x]
    OBVIOUS
  <2>4. s \in Settings /\ s.ports = l.ports
    BY <2>3 DEF Settings
  <2>5. /\ mutateOverrides(s, {"serial"}, ok) /\ OtherSave(ok) /\ UNCHANGED <<qemuCursor, editIdx, command, wanted>>
        /\ shown' = shown /\ setupField' \in {"setup", "serial"}
    BY <1>3, <2>1, <2>2, <2>3 DEF PickAdapter
  <2> QED
    BY <1>0, <2>1, <2>4, <2>5, OtherPagesKept
<1> QED
  BY <1>1, <1>2, <1>3

(* The saves of the QEMU page. *)
LEMMA QemuPageKept ==
  ASSUME SetupKept, NEW s \in Settings, Stored(s.ports), NEW ok \in BOOLEAN, saveQEMUSettings(s, ok),
         UNCHANGED command, setupField' = "qemu", qemuCursor' \in Nat, editIdx' \in Nat \union {-1},
         wanted' \in [Guests -> Nat],
         \A p \in Known : In(p, s.ports) <=> wanted'[p.guest] = p.host
  PROVE  SetupKept' /\ (~Overlap /\ InvSaved => InvSaved')
<1>0. SetupTypeOK /\ InvForwards /\ Stored(local.ports)
  BY DEF SetupKept, InvForwards
<1>1. shown' = s /\ agree' \in BOOLEAN /\ ShownIsSaved'
  BY <1>0, QemuKeeps
<1>2. /\ local' \in Settings /\ last' \in Settings /\ loads' \in BOOLEAN /\ intact' \in BOOLEAN
      /\ saves' \in 0 .. MaxSaves /\ Stored(local'.ports)
      /\ NoSettingLost => NoSettingLost'
      /\ command.on => Overlap
  <2>1. PICK fields : mutateOverrides(s, fields, ok)
    BY DEF saveQEMUSettings
  <2> QED
    BY <1>0, <2>1, SaveKeeps
<1>3. SetupTypeOK'
  BY <1>0, <1>1, <1>2 DEF SetupTypeOK
<1>4. InvForwards'
  <2>1. Stored(shown'.ports) /\ Stored(command'.ov.ports) /\ setupField' # "edit"
    BY <1>0, <1>1 DEF InvForwards
  <2>2. \A p \in Known : In(p, shown'.ports) <=> wanted'[p.guest] = p.host
    BY <1>1
  <2> QED
    BY <1>2, <2>1, <2>2 DEF InvForwards
<1>5. ~Overlap /\ InvSaved => InvSaved'
  BY <1>1, <1>2 DEF InvSaved
<1> QED
  BY <1>3, <1>4, <1>5 DEF SetupKept

LEMMA AdjustKept ==
  ASSUME SetupKept, NEW ok \in BOOLEAN, NEW right \in BOOLEAN, QemuAdjust(right, ok)
  PROVE  SetupKept' /\ (~Overlap /\ InvSaved => InvSaved')
<1>0. /\ shown \in Settings /\ Stored(shown.ports) /\ shown.memory \in 0 .. OffLadder /\ shown.display \in 0 .. 2
      /\ qemuCursor \in Nat /\ editIdx \in Nat \union {-1} /\ wanted \in [Guests -> Nat]
      /\ \A p \in Known : In(p, shown.ports) <=> wanted[p.guest] = p.host
  BY DEF SetupKept, SetupTypeOK, InvForwards, Settings
<1>1. setupField' = "qemu" /\ UNCHANGED <<qemuCursor, editIdx, command, wanted>>
  BY DEF QemuAdjust
<1>2. StepMemory(shown.memory, right) \in 0 .. OffLadder
  <2>1. PICK i \in Nat : i = (IF shown.memory = OffLadder THEN 0 ELSE shown.memory) /\ i <= Ladder
    BY <1>0, SetupAssumption DEF OffLadder
  <2>2. StepMemory(shown.memory, right) = IF right THEN Min({i + 1, Ladder}) ELSE Max({0, i - 1})
    BY <2>1 DEF StepMemory
  <2>3. Min({i + 1, Ladder}) \in 0 .. OffLadder
    <3>1. Min({i + 1, Ladder}) = IF i + 1 <= Ladder THEN i + 1 ELSE Ladder
      BY <2>1, MinTwo, SetupAssumption
    <3> QED
      BY <3>1, SetupAssumption DEF OffLadder
  <2>4. Max({0, i - 1}) \in 0 .. OffLadder
    <3>1. Max({0, i - 1}) = IF 0 >= i - 1 THEN 0 ELSE i - 1
      BY <2>1, MaxTwo
    <3> QED
      BY <2>1, <3>1, SetupAssumption DEF OffLadder
  <2> QED
    BY <2>2, <2>3, <2>4
<1>3. StepDisplay(shown.display, right) \in 0 .. 2
  <2>1. PICK i \in Nat : i = shown.display /\ i <= 2
    BY <1>0
  <2>2. StepDisplay(shown.display, right) = IF right THEN Min({i + 1, 2}) ELSE Max({0, i - 1})
    BY <2>1 DEF StepDisplay
  <2>3. Min({i + 1, 2}) \in 0 .. 2
    <3>1. Min({i + 1, 2}) = IF i + 1 <= 2 THEN i + 1 ELSE 2
      BY <2>1, MinTwo
    <3> QED
      BY <3>1
  <2>4. Max({0, i - 1}) \in 0 .. 2
    <3>1. Max({0, i - 1}) = IF 0 >= i - 1 THEN 0 ELSE i - 1
      BY <2>1, MaxTwo
    <3> QED
      BY <2>1, <3>1
  <2> QED
    BY <2>2, <2>3, <2>4
<1>4. PICK s \in Settings : s.ports = shown.ports /\ saveQEMUSettings(s, ok)
  <2>1. CASE saveQEMUSettings([shown EXCEPT !.memory = StepMemory(@, right)], ok)
    <3>1. PICK v \in 0 .. OffLadder : v = StepMemory(shown.memory, right)
      BY <1>2
    <3>2. PICK s : s = [shown EXCEPT !.memory = v]
      OBVIOUS
    <3>3. s \in Settings /\ s.ports = shown.ports
      BY <1>0, <3>2 DEF Settings
    <3>4. saveQEMUSettings(s, ok)
      BY <2>1, <3>1, <3>2
    <3> QED
      BY <3>3, <3>4
  <2>2. CASE saveQEMUSettings([shown EXCEPT !.display = StepDisplay(@, right)], ok)
    <3>1. PICK v \in 0 .. 2 : v = StepDisplay(shown.display, right)
      BY <1>3
    <3>2. PICK s : s = [shown EXCEPT !.display = v]
      OBVIOUS
    <3>3. s \in Settings /\ s.ports = shown.ports
      BY <1>0, <3>2 DEF Settings
    <3>4. saveQEMUSettings(s, ok)
      BY <2>2, <3>1, <3>2
    <3> QED
      BY <3>3, <3>4
  <2> QED
    BY <2>1, <2>2 DEF QemuAdjust
<1> QED
  BY <1>0, <1>1, <1>4, QemuPageKept

LEMMA DeleteKept ==
  ASSUME SetupKept, NEW ok \in BOOLEAN, deleteEffectivePort(ok)
  PROVE  SetupKept' /\ (~Overlap /\ InvSaved => InvSaved')
<1>0. /\ shown \in Settings /\ Stored(shown.ports) /\ shown.machine \in DOMAIN Machines
      /\ qemuCursor \in Nat /\ editIdx \in Nat \union {-1} /\ wanted \in [Guests -> Nat]
      /\ \A p \in Known : In(p, shown.ports) <=> wanted[p.guest] = p.host
  BY DEF SetupKept, SetupTypeOK, InvForwards, Settings
<1>1. PICK g : g = AtCursor.guest
  OBVIOUS
<1>2. PICK t : t = dropOverrideByGuest(shown.ports, g)
  OBVIOUS
<1>3. PICK s : s = [shown EXCEPT !.ports = t]
  OBVIOUS
<1>4. /\ setupField' = "qemu" /\ UNCHANGED <<editIdx, command>>
      /\ \E p \in Range(shown.ports) : p.guest = g
      /\ saveQEMUSettings(s, ok)
      /\ qemuCursor' = Min({qemuCursor, numFixedQEMURows + Len(MergeQEMUPorts(machinePorts, s.ports))})
      /\ wanted' = [wanted EXCEPT ![g] = 0]
  BY <1>1, <1>2, <1>3 DEF deleteEffectivePort
<1>5. Stored(t) /\ \A q : In(q, t) <=> In(q, shown.ports) /\ q.guest # g
  BY <1>0, <1>2, DropSound
<1>6. s \in Settings /\ s.ports = t
  <2>1. t \in Seq(Forward)
    <3>1. t \in Seq(Known) /\ Known \subseteq Forward
      BY <1>5 DEF Stored, Known
    <3> QED
      BY <3>1, SeqMonotonic
  <2> QED
    BY <1>0, <1>3, <2>1 DEF Settings
<1>7. g \in Guests
  BY <1>0, <1>4, RangeIn, StoredIn
<1>8. wanted' \in [Guests -> Nat] /\ \A p \in Known : wanted'[p.guest] = IF p.guest = g THEN 0 ELSE wanted[p.guest]
  BY <1>0, <1>4, <1>7 DEF Known
<1>9. \A p \in Known : In(p, s.ports) <=> wanted'[p.guest] = p.host
  <2>1. \A p \in Known : p.host # 0
    BY DEF Known, Forward
  <2> QED
    BY <1>0, <1>5, <1>6, <1>8, <2>1
<1>10. qemuCursor' \in Nat
  <2>1. PICK n \in Nat : n = Len(MergeQEMUPorts(machinePorts, s.ports))
    BY <1>0, <1>5, <1>6, EffectiveSound DEF machinePorts
  <2>2. qemuCursor' = Min({qemuCursor, 2 + n})
    BY <1>4, <2>1 DEF numFixedQEMURows
  <2>3. qemuCursor' = IF qemuCursor <= 2 + n THEN qemuCursor ELSE 2 + n
    BY <1>0, <2>2, MinTwo
  <2> QED
    BY <1>0, <2>3
<1> QED
  BY <1>0, <1>4, <1>5, <1>6, <1>8, <1>9, <1>10, QemuPageKept

(* An entry that is committed replaces the override of its guest port and   *)
(* of the one edited, and is at the cursor then.                            *)
LEMMA CommitSound ==
  ASSUME SetupKept, NEW e \in Entries, NEW ok \in BOOLEAN, EditCommit(e, ok)
  PROVE  /\ SetupKept' /\ (~Overlap /\ InvSaved => InvSaved')
         /\ PortRow' /\ AtCursor' = e
<1>0. /\ shown \in Settings /\ Stored(shown.ports) /\ shown.machine \in DOMAIN Machines
      /\ qemuCursor \in Nat /\ editIdx \in Nat \union {-1} /\ wanted \in [Guests -> Nat]
      /\ \A p \in Known : In(p, shown.ports) <=> wanted[p.guest] = p.host
      /\ setupField = "edit" => editIdx = -1 \/ editIdx + 1 \in 1 .. Len(effectivePorts)
  BY DEF SetupKept, SetupTypeOK, InvForwards, Settings
<1>e. e \in Known /\ e.guest \in Guests /\ e.host \in Nat
  BY EntriesKnown DEF Known, Forward
<1>1. PICK old : old = IF editIdx >= 0 THEN effectivePorts[editIdx + 1].guest ELSE e.guest
  OBVIOUS
<1>2. PICK rest : rest = IF old = e.guest THEN shown.ports ELSE dropOverrideByGuest(shown.ports, old)
  OBVIOUS
<1>3. PICK t : t = setEffectivePort(rest, e)
  OBVIOUS
<1>4. PICK eff : eff = MergeQEMUPorts(machinePorts, t)
  OBVIOUS
<1>5. PICK row : row = CHOOSE i \in DOMAIN eff : eff[i].guest = e.guest
  OBVIOUS
<1>6. PICK s : s = [shown EXCEPT !.ports = t]
  OBVIOUS
<1>7. /\ setupField = "edit" /\ setupField' = "qemu" /\ editIdx' = -1 /\ UNCHANGED command
      /\ saveQEMUSettings(s, ok) /\ qemuCursor' = numFixedQEMURows + row - 1
      /\ wanted' = [wanted EXCEPT ![old] = 0, ![e.guest] = IF e \in Range(machinePorts) THEN 0 ELSE e.host]
  BY <1>1, <1>2, <1>3, <1>4, <1>5, <1>6 DEF EditCommit
<1>8. old \in Guests
  <2>1. CASE editIdx >= 0
    <3>1. PICK i \in 1 .. Len(effectivePorts) : i = editIdx + 1
      BY <1>0, <1>7, <2>1
    <3>2. Stored(effectivePorts)
      BY <1>0, EffectiveSound DEF effectivePorts, machinePorts
    <3>3. In(effectivePorts[i], effectivePorts)
      BY DEF In
    <3> QED
      BY <1>1, <2>1, <3>1, <3>2, <3>3, StoredIn
  <2> QED
    BY <1>1, <1>e, <2>1
<1>9. Stored(rest) /\ \A q : q.guest # e.guest => (In(q, rest) <=> In(q, shown.ports) /\ q.guest # old)
  <2>1. CASE old = e.guest
    BY <1>0, <1>2, <2>1
  <2>2. CASE old # e.guest
    BY <1>0, <1>2, <2>2, DropSound
  <2> QED
    BY <2>1, <2>2
<1>10. /\ Stored(t)
       /\ \A q : In(q, t) <=> (In(q, shown.ports) /\ q.guest # e.guest /\ q.guest # old)
                               \/ (q = e /\ e \notin Range(machinePorts))
  <2>1. /\ Stored(t)
        /\ \A q : In(q, t) <=> (In(q, rest) /\ q.guest # e.guest) \/ (q = e /\ e \notin Range(machinePorts))
    BY <1>3, <1>9, <1>e, SetSound
  <2> QED
    BY <1>9, <2>1
<1>11. s \in Settings /\ s.ports = t /\ s.machine = shown.machine
  <2>1. t \in Seq(Forward)
    <3>1. t \in Seq(Known) /\ Known \subseteq Forward
      BY <1>10 DEF Stored, Known
    <3> QED
      BY <3>1, SeqMonotonic
  <2> QED
    BY <1>0, <1>6, <2>1 DEF Settings
<1>12. /\ Stored(eff) /\ eff \in Seq(Known) /\ Len(eff) \in Nat
       /\ \A q : In(q, eff) <=> In(q, t) \/ (In(q, machinePorts) /\ \A p : In(p, t) => p.guest # q.guest)
  BY <1>0, <1>4, <1>10, EffectiveSound DEF machinePorts
<1>13. In(e, eff)
  <2>1. CASE e \in Range(machinePorts)
    <3>1. In(e, machinePorts)
      BY <1>0, <2>1, MachineStored, RangeIn DEF machinePorts
    <3>2. \A p : In(p, t) => p.guest # e.guest
      BY <1>10, <2>1
    <3> QED
      BY <1>12, <3>1, <3>2
  <2>2. CASE e \notin Range(machinePorts)
    BY <1>10, <1>12, <2>2
  <2> QED
    BY <2>1, <2>2
<1>14. row \in 1 .. Len(eff) /\ eff[row] = e
  <2>1. DOMAIN eff = 1 .. Len(eff)
    BY <1>12
  <2>2. \E i \in DOMAIN eff : eff[i].guest = e.guest
    BY <1>13, <2>1 DEF In
  <2>3. row \in DOMAIN eff /\ eff[row].guest = e.guest
    BY <1>5, <2>2
  <2>4. In(eff[row], eff)
    BY <2>1, <2>3 DEF In
  <2> QED
    BY <1>12, <1>13, <2>1, <2>3, <2>4, OfGuest
<1>15. /\ wanted' \in [Guests -> Nat]
       /\ \A p \in Known : wanted'[p.guest] = IF p.guest = e.guest
                                              THEN IF e \in Range(machinePorts) THEN 0 ELSE e.host
                                              ELSE IF p.guest = old THEN 0 ELSE wanted[p.guest]
  <2>1. PICK h \in Nat : h = IF e \in Range(machinePorts) THEN 0 ELSE e.host
    BY <1>e
  <2>2. wanted' = [wanted EXCEPT ![old] = 0, ![e.guest] = h]
    BY <1>7, <2>1
  <2>3. \A p \in Known : p.guest \in Guests
    BY DEF Known
  <2>4. wanted' \in [Guests -> Nat]
    BY <1>0, <2>2
  <2>5. \A g \in Guests : wanted'[g] = IF g = e.guest THEN h ELSE IF g = old THEN 0 ELSE wanted[g]
    BY <1>0, <1>8, <1>e, <2>2
  <2> QED
    BY <2>1, <2>3, <2>4, <2>5
<1>16. \A p \in Known : In(p, s.ports) <=> wanted'[p.guest] = p.host
  <2> SUFFICES ASSUME NEW p \in Known PROVE In(p, t) <=> wanted'[p.guest] = p.host
    BY <1>11
  <2>1. p.host # 0 /\ (p = e <=> p.guest = e.guest /\ p.host = e.host)
    BY <1>e DEF Known, Forward
  <2>2. CASE p.guest = e.guest
    BY <1>10, <1>15, <2>1, <2>2
  <2>3. CASE p.guest # e.guest
    BY <1>0, <1>10, <1>15, <2>1, <2>3
  <2> QED
    BY <2>2, <2>3
<1>17. qemuCursor' = row + 1 /\ qemuCursor' \in Nat /\ qemuCursor' >= 2 /\ qemuCursor' < 2 + Len(eff)
  <2>1. qemuCursor' = 2 + row - 1
    BY <1>7 DEF numFixedQEMURows
  <2> QED
    BY ONLY <1>12, <1>14, <2>1
<1>18. SetupKept' /\ (~Overlap /\ InvSaved => InvSaved')
  <2>1. editIdx' \in Nat \union {-1}
    BY <1>7
  <2> QED
    BY <1>7, <1>10, <1>11, <1>15, <1>16, <1>17, <2>1, QemuPageKept
<1>19. PortRow' /\ AtCursor' = e
  <2>1. shown' = s
    BY <1>7 DEF saveQEMUSettings
  <2>2. effectivePorts' = eff
    BY <1>4, <1>11, <2>1 DEF effectivePorts, machinePorts
  <2>3. PortRow'
    <3>1. qemuRowCount' - 1 = 2 + Len(eff)
      BY <1>12, <2>2 DEF qemuRowCount, numFixedQEMURows
    <3> QED
      BY <1>17, <3>1 DEF PortRow, numFixedQEMURows
  <2>4. AtCursor' = e
    <3>1. qemuCursor' - 2 + 1 = row
      BY <1>14, <1>17
    <3> QED
      BY <1>14, <2>2, <3>1 DEF AtCursor, numFixedQEMURows
  <2> QED
    BY <2>3, <2>4
<1> QED
  BY <1>18, <1>19

(* The commands beside the user interface, and its restart. *)
LEMMA OutsideKept ==
  ASSUME SetupKept,
         \/ CommandLoads \/ Restart \/ Typo
         \/ CommandWrites("memory", OffLadder) \/ CommandWrites("parallel", 2)
  PROVE  SetupKept' /\ (~Overlap /\ InvSaved => InvSaved')
<1>0. /\ SetupTypeOK /\ InvForwards /\ shown \in Settings /\ Stored(shown.ports) /\ Stored(local.ports)
      /\ command.ov \in Settings /\ Stored(command.ov.ports) /\ local \in Settings /\ last \in Settings
      /\ loads \in BOOLEAN /\ agree \in BOOLEAN /\ intact \in BOOLEAN /\ command.on \in BOOLEAN
      /\ command.loaded \in BOOLEAN /\ saves \in 0 .. MaxSaves
  BY DEF SetupKept, SetupTypeOK, InvForwards
<1>l. PICK l \in Settings : l = LoadLocalOverrides /\ Stored(l.ports)
  BY <1>0, LoadsSettings
<1>n. saves < MaxSaves => saves + 1 \in 0 .. MaxSaves
  BY ONLY <1>0, SetupAssumption
<1>1. CASE CommandLoads
  <2>1. /\ command' = [on |-> TRUE, ov |-> l, loaded |-> loads]
        /\ UNCHANGED <<local, loads, shown, setupField, qemuCursor, editIdx, saves, last, wanted, agree, intact>>
    BY <1>1, <1>l DEF CommandLoads
  <2>2. command'.ov = l /\ command'.on \in BOOLEAN /\ command'.loaded = loads
    BY <2>1
  <2>3. SetupTypeOK'
    BY <1>0, <2>1, <2>2 DEF SetupTypeOK
  <2>4. InvForwards'
    BY <1>0, <1>l, <2>1, <2>2, ForwardsKept
  <2>5. InvSaved => InvSaved'
    BY <1>l, <2>1, <2>2 DEF InvSaved, ShownIsSaved, NoSettingLost, LoadLocalOverrides
  <2> QED
    BY <2>3, <2>4, <2>5 DEF SetupKept
<1>2. CASE Restart
  <2>1. /\ saves' \in 0 .. MaxSaves /\ setupField' = "setup" /\ qemuCursor' = 0 /\ editIdx' = -1 /\ agree' = loads
        /\ shown' = [l EXCEPT !.serial = Empty.serial]
        /\ wanted' = [g \in Guests |-> IF \E p \in Range(l.ports) : p.guest = g
                                       THEN (CHOOSE p \in Range(l.ports) : p.guest = g).host ELSE 0]
        /\ UNCHANGED <<local, loads, command, last, intact>>
    BY <1>2, <1>l, <1>n DEF Restart
  <2>2. shown' \in Settings /\ shown'.memory = l.memory /\ shown'.display = l.display /\ shown'.ports = l.ports
    <3>1. PICK x \in [DOMAIN Machines -> Adapters \union {0}] : x = Empty.serial
      BY EmptySettings DEF Settings
    <3> QED
      BY <2>1, <3>1 DEF Settings
  <2>3. ASSUME NEW g \in Guests
        PROVE  /\ wanted'[g] \in Nat
               /\ \A p \in Known : p.guest = g => (In(p, l.ports) <=> wanted'[g] = p.host)
    <3>1. CASE \E p \in Range(l.ports) : p.guest = g
      <4>1. PICK c : c = CHOOSE p \in Range(l.ports) : p.guest = g
        OBVIOUS
      <4>2. c \in Range(l.ports) /\ c.guest = g
        BY <3>1, <4>1
      <4>3. In(c, l.ports) /\ c \in Known
        BY <1>l, <4>2, RangeIn, StoredIn
      <4>4. wanted'[g] = c.host
        BY <2>1, <3>1, <4>1
      <4>5. ASSUME NEW p \in Known, p.guest = g PROVE In(p, l.ports) <=> c.host = p.host
        <5>1. In(p, l.ports) => p = c
          BY <1>l, <4>2, <4>3, <4>5, OfGuest
        <5>2. c.host = p.host => p = c
          BY <4>2, <4>3, <4>5 DEF Known, Forward
        <5> QED
          BY <4>3, <5>1, <5>2
      <4> QED
        BY <4>3, <4>4, <4>5 DEF Known, Forward
    <3>2. CASE ~\E p \in Range(l.ports) : p.guest = g
      <4>1. wanted'[g] = 0
        BY <2>1, <3>2
      <4>2. \A p \in Known : p.host # 0
        BY DEF Known, Forward
      <4>3. \A p : In(p, l.ports) => p.guest # g
        BY <1>l, <3>2, RangeIn
      <4> QED
        BY <4>1, <4>2, <4>3
    <3> QED
      BY <3>1, <3>2
  <2>4. wanted' \in [Guests -> Nat]
    BY <2>1, <2>3
  <2>5. SetupTypeOK'
    BY <1>0, <2>1, <2>2, <2>4 DEF SetupTypeOK
  <2>6. InvForwards'
    <3>1. \A p \in Known : In(p, shown'.ports) <=> wanted'[p.guest] = p.host
      <4>1. \A p \in Known : p.guest \in Guests
        BY DEF Known
      <4> QED
        BY <2>2, <2>3, <4>1
    <3>2. Stored(shown'.ports) /\ Stored(local'.ports) /\ Stored(command'.ov.ports) /\ setupField' # "edit"
      BY <1>0, <1>l, <2>1, <2>2
    <3> QED
      BY <3>1, <3>2 DEF InvForwards
  <2>7. InvSaved => InvSaved'
    BY <1>l, <2>1, <2>2 DEF InvSaved, ShownIsSaved, NoSettingLost, LoadLocalOverrides
  <2> QED
    BY <2>5, <2>6, <2>7 DEF SetupKept
<1>3. CASE Typo
  <2>1. /\ loads' \in BOOLEAN
        /\ UNCHANGED <<local, shown, setupField, qemuCursor, editIdx, command, saves, last, wanted, agree, intact>>
    BY <1>3 DEF Typo
  <2>2. SetupTypeOK'
    BY <1>0, <2>1 DEF SetupTypeOK
  <2>3. InvForwards'
    BY <1>0, <2>1, ForwardsKept
  <2>4. InvSaved => InvSaved'
    BY <2>1 DEF InvSaved, ShownIsSaved, NoSettingLost
  <2> QED
    BY <2>2, <2>3, <2>4 DEF SetupKept
<1>4. ASSUME NEW f, NEW v, CommandWrites(f, v),
             (f = "memory" /\ v = OffLadder) \/ (f = "parallel" /\ v = 2)
      PROVE  SetupKept' /\ (~Overlap /\ InvSaved => InvSaved')
  <2>1. /\ command.on /\ command' = NoCommand
        /\ UNCHANGED <<shown, setupField, qemuCursor, editIdx, wanted>>
    BY <1>4 DEF CommandWrites
  <2>2. command'.ov \in Settings /\ Stored(command'.ov.ports) /\ command'.on = FALSE /\ command'.loaded = TRUE
    BY <2>1, EmptySettings, EmptyStored DEF NoCommand
  <2>3. CASE command.ov[f] = v
    <3>1. UNCHANGED <<local, loads, last, saves, agree, intact>>
      BY <1>4, <2>3 DEF CommandWrites
    <3>2. SetupTypeOK'
      BY <1>0, <2>1, <2>2, <3>1 DEF SetupTypeOK
    <3>3. InvForwards'
      BY <1>0, <2>1, <2>2, <3>1, ForwardsKept
    <3>4. InvSaved => InvSaved'
      BY <2>1, <2>2, <3>1 DEF InvSaved, ShownIsSaved, NoSettingLost
    <3> QED
      BY <3>2, <3>3, <3>4 DEF SetupKept
  <2>4. CASE command.ov[f] # v
    <3>1. /\ local' = [command.ov EXCEPT ![f] = v] /\ loads' = TRUE
          /\ last' = [last EXCEPT ![f] = v]
          /\ saves' = Min({saves + 1, MaxSaves})
          /\ agree' = (agree /\ command.loaded /\ f # "memory")
          /\ intact' = (intact /\ command.loaded)
      BY <1>4, <2>4 DEF CommandWrites
    <3>2. v \in 0 .. OffLadder \/ f = "parallel"
      BY <1>4, SetupAssumption DEF OffLadder
    <3>3. local' \in Settings /\ local'.display = command.ov.display /\ local'.ports = command.ov.ports
      <4>1. CASE f = "memory"
        BY <1>0, <3>1, <3>2, <4>1 DEF Settings
      <4>2. CASE f = "parallel"
        <5>1. v = 2 /\ 2 \in Nat /\ local' = [command.ov EXCEPT !["parallel"] = v]
          BY <1>4, <3>1, <4>2
        <5>2. PICK o \in Settings : o = command.ov
          BY <1>0
        <5>3. local' = [o EXCEPT !.parallel = 2]
          BY <5>1, <5>2
        <5> QED
          BY <5>1, <5>2, <5>3 DEF Settings
      <4> QED
        BY <1>4, <4>1, <4>2
    <3>4. last' \in Settings
      <4>1. CASE f = "memory"
        BY <1>0, <3>1, <3>2, <4>1 DEF Settings
      <4>2. CASE f = "parallel"
        <5>1. v = 2 /\ 2 \in Nat /\ last' = [last EXCEPT !["parallel"] = v]
          BY <1>4, <3>1, <4>2
        <5>2. PICK o \in Settings : o = last
          BY <1>0
        <5>3. last' = [o EXCEPT !.parallel = 2]
          BY <5>1, <5>2
        <5> QED
          BY <5>1, <5>2, <5>3 DEF Settings
      <4> QED
        BY <1>4, <4>1, <4>2
    <3>5. saves' \in 0 .. MaxSaves
      <4>1. PICK a \in Nat, b \in Nat : a = saves + 1 /\ b = MaxSaves
        <5>1. saves \in Nat /\ MaxSaves \in Nat
          BY ONLY <1>0, SetupAssumption
        <5> QED
          BY ONLY <5>1
      <4>2. saves' = IF a <= b THEN a ELSE b
        BY <3>1, <4>1, MinTwo
      <4> QED
        BY ONLY <4>1, <4>2
    <3>6. SetupTypeOK'
      BY <1>0, <2>1, <2>2, <3>1, <3>3, <3>4, <3>5 DEF SetupTypeOK
    <3>7. InvForwards'
      BY <1>0, <2>1, <2>2, <3>3, ForwardsKept
    <3>8. ASSUME InvSaved PROVE InvSaved'
      <4>1. command.loaded => command.ov = local
        BY <2>1, <3>8 DEF InvSaved
      <4>2. NoSettingLost'
        <5>1. intact' => command.ov = last
          BY <3>1, <3>8, <4>1 DEF InvSaved, NoSettingLost
        <5> QED
          BY <3>1, <5>1 DEF NoSettingLost
      <4>3. ShownIsSaved'
        <5>1. agree' => agree /\ f = "parallel" /\ command.ov = local
          BY <1>4, <3>1, <4>1
        <5>2. f = "parallel" => local'.memory = command.ov.memory
          BY <1>0, <3>1 DEF Settings
        <5>3. shown' = shown
          BY <2>1
        <5> QED
          BY <3>3, <3>8, <5>1, <5>2, <5>3 DEF InvSaved, ShownIsSaved
      <4> QED
        BY <2>2, <4>2, <4>3 DEF InvSaved
    <3> QED
      BY <3>6, <3>7, <3>8 DEF SetupKept
  <2> QED
    BY <2>3, <2>4
<1> QED
  BY <1>1, <1>2, <1>3, <1>4

LEMMA InitSetup == SetupInit => SetupKept /\ InvSaved
<1> SUFFICES ASSUME SetupInit PROVE SetupKept /\ InvSaved
  OBVIOUS
<1>1. /\ local = Empty /\ loads = TRUE /\ shown = Empty /\ setupField = "setup" /\ qemuCursor = 0 /\ editIdx = -1
      /\ command = NoCommand /\ saves = 0 /\ last = Empty /\ wanted = [g \in Guests |-> 0]
      /\ agree = TRUE /\ intact = TRUE
  BY DEF SetupInit
<1>2. command.ov = Empty /\ command.on = FALSE /\ command.loaded = TRUE
  BY <1>1 DEF NoCommand
<1>3. SetupTypeOK
  <2>1. 0 \in 0 .. MaxSaves
    BY SetupAssumption
  <2> QED
    BY <1>1, <1>2, <2>1, EmptySettings DEF SetupTypeOK
<1>4. InvForwards
  <2>1. \A p \in Known : p.host # 0 /\ wanted[p.guest] = 0
    BY <1>1 DEF Known, Forward
  <2>2. \A q : ~In(q, <<>>)
    BY DEF In
  <2>3. Stored(shown.ports) /\ Stored(local.ports) /\ Stored(command.ov.ports) /\ shown.ports = <<>>
    BY <1>1, <1>2, EmptyStored
  <2> QED
    BY <1>1, <2>1, <2>2, <2>3 DEF InvForwards
<1>5. InvSaved
  BY <1>1, <1>2 DEF InvSaved, ShownIsSaved, NoSettingLost
<1> QED
  BY <1>3, <1>4, <1>5 DEF SetupKept

LEMMA NextSetup ==
  ASSUME SetupKept, [SetupNext]_setupVars
  PROVE  SetupKept' /\ (~Overlap /\ InvSaved => InvSaved')
<1>1. CASE UNCHANGED setupVars
  <2>1. UNCHANGED <<local, loads, shown, command, saves, last, wanted, agree, intact, setupField, qemuCursor, editIdx>>
    BY <1>1 DEF setupVars
  <2> QED
    BY <2>1, MovesKept DEF SetupKept, SetupTypeOK, InvForwards, Pages
<1>2. CASE Back \/ QemuUp \/ QemuDown \/ QemuEdit \/ EditCancel \/ \E f \in {"machine", "serial", "qemu"} : Enter(f)
  BY <1>2, CursorKept
<1>3. CASE \/ CommandLoads \/ Restart \/ Typo
           \/ CommandWrites("memory", OffLadder) \/ CommandWrites("parallel", 2)
  BY <1>3, OutsideKept
<1>4. ASSUME NEW ok \in BOOLEAN,
             \/ \E n \in 1..2 : SetParallel(n, ok)
             \/ \E m \in DOMAIN Machines : PickMachine(m, ok)
             \/ \E a \in Adapters \union {0} : PickAdapter(a, ok)
      PROVE  SetupKept' /\ (~Overlap /\ InvSaved => InvSaved')
  BY <1>4, OtherPages
<1>5. ASSUME NEW ok \in BOOLEAN,
             \/ \E right \in BOOLEAN : QemuAdjust(right, ok)
             \/ \E e \in Entries : EditCommit(e, ok)
             \/ deleteEffectivePort(ok)
      PROVE  SetupKept' /\ (~Overlap /\ InvSaved => InvSaved')
  BY <1>5, AdjustKept, CommitSound, DeleteKept
<1> QED
  BY <1>1, <1>2, <1>3, <1>4, <1>5 DEF SetupNext

(* What the settings page shows is what local.star holds, and no setting    *)
(* made elsewhere is lost when either is saved, for any machines, forwards, *)
(* adapters and numbers of saves, when no command runs while the user       *)
(* interface saves and unless a save failed or found a file that does not   *)
(* load.                                                                    *)
THEOREM SettingsInvHolds ==
  ASSUME ~Overlap
  PROVE  SetupSpec => []SettingsInv
<1>1. SetupInit => SetupKept /\ InvSaved
  BY InitSetup
<1>2. SetupKept /\ InvSaved /\ [SetupNext]_setupVars => (SetupKept /\ InvSaved)'
  BY NextSetup
<1>3. SetupKept /\ InvSaved => SettingsInv
  BY DEF SetupKept, InvSaved, SettingsInv
<1> QED
  BY <1>1, <1>2, <1>3, PTL DEF SetupSpec

(* The forwards listed are those the user asked for, one of a guest port,   *)
(* and an entry that is committed is at the cursor, for any machines and    *)
(* entries, over edits, removals, changes of machine, restarts and commands *)
(* that run at any time.                                                    *)
THEOREM ForwardsSoundHolds == SetupSpec => ForwardsSound
<1> DEFINE Lands == \A e \in Entries, ok \in BOOLEAN : EditCommit(e, ok) => PortRow' /\ AtCursor' = e
<1>1. SetupInit => SetupKept
  BY InitSetup
<1>2. SetupKept /\ [SetupNext]_setupVars => SetupKept'
  BY NextSetup
<1>3. SetupKept => ForwardsAreWanted
  <2> SUFFICES ASSUME SetupKept PROVE ForwardsAreWanted
    OBVIOUS
  <2>0. /\ Stored(shown.ports) /\ shown.machine \in DOMAIN Machines /\ wanted \in [Guests -> Nat]
        /\ \A p \in Known : In(p, shown.ports) <=> wanted[p.guest] = p.host
    BY DEF SetupKept, SetupTypeOK, InvForwards, Settings
  <2>1. PICK m : m = machinePorts /\ Stored(m)
    BY <2>0, MachineStored DEF machinePorts
  <2>2. PICK t : t = effectivePorts
    OBVIOUS
  <2>3. /\ Stored(t) /\ t \in Seq(Known)
        /\ \A q : In(q, t) <=> In(q, shown.ports) \/ (In(q, m) /\ \A p : In(p, shown.ports) => p.guest # q.guest)
    BY <2>0, <2>1, <2>2, EffectiveSound DEF effectivePorts, machinePorts
  <2>4. Len(t) = Cardinality(Range(t))
    BY <2>3, ApartCount DEF Stored
  <2> DEFINE Asked == {[host |-> wanted[g], guest |-> g] : g \in {x \in Guests : wanted[x] # 0}}
             Rest == {p \in Range(m) : wanted[p.guest] = 0}
  <2>5. ASSUME NEW g \in Guests, wanted[g] # 0 PROVE In([host |-> wanted[g], guest |-> g], shown.ports)
    <3>1. PICK p : p = [host |-> wanted[g], guest |-> g]
      OBVIOUS
    <3>2. g \in Nat \ {0}
      <4>1. \A x \in Forward : x.guest \in Nat \ {0}
        BY DEF Forward
      <4>2. \A mm \in DOMAIN Machines : \A x \in Range(Machines[mm]) : x \in Forward
        <5> SUFFICES ASSUME NEW mm \in DOMAIN Machines, NEW x \in Range(Machines[mm]) PROVE x \in Forward
          OBVIOUS
        <5>1. Stored(Machines[mm])
          BY MachineStored
        <5> QED
          BY <5>1, RangeIn, StoredIn DEF Known
      <4>3. Entries \subseteq Forward
        BY SetupAssumption
      <4> QED
        BY <4>1, <4>2, <4>3 DEF Guests
    <3>3. p \in Known /\ p.guest = g /\ p.host = wanted[g]
      BY <2>0, <2>5, <3>1, <3>2 DEF Known, Forward
    <3> QED
      BY <2>0, <3>1, <3>3
  <2>6. ASSUME NEW q, In(q, shown.ports)
        PROVE  /\ q.guest \in Guests /\ wanted[q.guest] = q.host /\ q.host # 0
               /\ q = [host |-> wanted[q.guest], guest |-> q.guest]
    <3>1. q \in Known /\ q.guest \in Guests /\ q.host \in Nat \ {0}
      BY <2>0, <2>6, StoredIn
    <3>2. wanted[q.guest] = q.host
      BY <2>0, <2>6, <3>1
    <3>3. q = [host |-> q.host, guest |-> q.guest]
      BY <3>1 DEF Known, Forward
    <3> QED
      BY <3>1, <3>2, <3>3
  <2>7. \A q : In(q, shown.ports) <=> q \in Asked
    BY <2>5, <2>6
  <2>8. ASSUME NEW q, In(q, m)
        PROVE  (\A p : In(p, shown.ports) => p.guest # q.guest) <=> wanted[q.guest] = 0
    <3>1. q.guest \in Guests
      BY <2>1, <2>8, StoredIn
    <3>2. ASSUME wanted[q.guest] # 0 PROVE \E p : In(p, shown.ports) /\ p.guest = q.guest
      <4>1. PICK p : p = [host |-> wanted[q.guest], guest |-> q.guest]
        OBVIOUS
      <4>2. In(p, shown.ports) /\ p.guest = q.guest
        BY <2>5, <3>1, <3>2, <4>1
      <4> QED
        BY <4>2
    <3>3. ASSUME NEW p, In(p, shown.ports), p.guest = q.guest PROVE wanted[q.guest] # 0
      BY <2>6, <3>3
    <3> QED
      BY <3>2, <3>3
  <2>9. \A q : In(q, t) <=> q \in Asked \/ q \in Rest
    <3>1. \A q : q \in Range(m) <=> In(q, m)
      BY <2>1, RangeIn
    <3> HIDE DEF Asked
    <3> QED
      BY <2>3, <2>7, <2>8, <3>1
  <2>10. Range(t) = Asked \union Rest
    <3>1. \A q : q \in Range(t) <=> In(q, t)
      BY <2>3, RangeIn
    <3> HIDE DEF Asked, Rest
    <3> QED
      BY <2>9, <3>1
  <2> QED
    BY <2>1, <2>2, <2>4, <2>10 DEF ForwardsAreWanted
<1>4. SetupKept => [Lands]_setupVars
  BY CommitSound
<1> QED
  BY <1>1, <1>2, <1>3, <1>4, PTL DEF SetupSpec, ForwardsSound, CommitLandsOnRow
=============================================================================
