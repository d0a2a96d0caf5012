----------------------------- MODULE TuiSession -----------------------------
(* The terminal interface, internal/tui. Its model is changed only by       *)
(* Update, one message at a time; what runs beside it are the commands that *)
(* Update returns, here builds and source toggles. A command reports with   *)
(* messages. Send hands a message to the event loop and waits until it is   *)
(* taken, so the events of one worker arrive in order and the result of a   *)
(* build after all its events, and a step of a build together with the      *)
(* Update it causes is one action here. Two builds run beside each other    *)
(* without knowing of each other.                                           *)
EXTENDS Naturals, FiniteSets

CONSTANTS
    Units,         \* the rows of the list
    Deps,          \* what each unit is built after
    Images,        \* the units without a source tree to toggle
    LeftBuilding,  \* units whose build.json an earlier, killed process left at "building"
    MaxBuilds      \* bound: builds started in one session

Jobs == 1..MaxBuilds
NoTarget == "nothing"

ASSUME ConstantsAssumption ==
    /\ IsFiniteSet(Units)
    /\ Images \subseteq Units
    /\ LeftBuilding \subseteq Units
    /\ NoTarget \notin Units
    /\ Deps \in [Units -> SUBSET Units]
    /\ MaxBuilds \in Nat

VARIABLES
    view,      \* what gets the keys: the list with its tabs and unit pages, or a dialog
    confirm,   \* the pending yes/no question, <<what, unit>>
    statuses,  \* what the row of each unit shows
    building,  \* units with a build of their own that has not reported back
    cancels,   \* per unit the build its cancel function belongs to, 0 for none
    bar,       \* the progress bar: buildTotal, buildDone, buildPending
    jobs,      \* the goroutines of startBuild
    prompt,    \* the source prompt: kind and target
    op,        \* the source operation in flight: kind and target
    dev,       \* the units in a dev state
    quit       \* the program has ended

screen == <<view, confirm>>
build == <<statuses, building, cancels, bar, jobs>>
source == <<prompt, op, dev>>
vars == <<screen, build, source, quit>>

Views == {"units", "setup", "prompt", "progress"}
Statuses == {"none", "cached", "waiting", "building", "failed"}
Nothing == <<"none", NoTarget>>
Confirms == {"none", "cancel", "clean", "clean-all", "quit"} \X (Units \cup {NoTarget})

TypeOK ==
    /\ view \in Views /\ confirm \in Confirms
    /\ statuses \in [Units -> Statuses]
    /\ building \subseteq Units
    /\ cancels \in [Units -> 0..MaxBuilds]
    /\ bar \in [total : Nat, done : Nat, pending : SUBSET Units]
    /\ jobs \in [Jobs -> [target : Units \cup {NoTarget},
                          phase : {"unused", "load", "run", "over"},
                          at : [Units -> {"out", "reuse", "build", "cached", "queued",
                                          "going", "building", "served", "done", "failed"}],
                          cancelled : BOOLEAN,
                          err : {"none", "cancelled", "failed"}]]
    /\ prompt \in {"none", "scheme", "depth", "discard"} \X (Units \cup {NoTarget})
    /\ op \in {"none", "dev", "pin", "promote"} \X (Units \cup {NoTarget})
    /\ dev \subseteq Units
    /\ quit \in BOOLEAN

-----------------------------------------------------------------------------
(* What a row may show when the statuses are read from the disk: the last   *)
(* result, or "building" while a build of this session, or one that was     *)
(* killed before it could record its end, has build.json at that.           *)
scanStatuses(j, rows) ==
    {s \in [rows -> Statuses] : \A u \in rows :
        \/ s[u] \in {"none", "cached", "failed"}
        \/ s[u] = "building" /\ (u \in LeftBuilding \/ \E b \in Jobs : j[b].at[u] = "building")}

Idle == [target |-> NoTarget, phase |-> "unused", at |-> [u \in Units |-> "out"],
         cancelled |-> FALSE, err |-> "none"]

Init ==
    /\ view = "units" /\ confirm = Nothing
    /\ jobs = [b \in Jobs |-> Idle]
    /\ statuses \in scanStatuses(jobs, Units)
    /\ building = {}
    /\ cancels = [u \in Units |-> 0]
    /\ bar = [total |-> 0, done |-> 0, pending |-> {}]
    /\ prompt = Nothing /\ op = Nothing /\ dev \in SUBSET (Units \ Images)
    /\ quit = FALSE

-----------------------------------------------------------------------------
(* Keys. A pending question takes every key; otherwise the view does.       *)
On(v) == ~quit /\ confirm = Nothing /\ view = v

Live(b) == jobs[b].phase \in {"load", "run"}

(* startBuild: refused for a row that shows waiting or building; otherwise  *)
(* the row waits, and the build and its cancel function are entered under   *)
(* the name of the unit.                                                    *)
Startable(u) == statuses[u] \notin {"building", "waiting"}

startBuild(u, b) ==
    /\ Startable(u)
    /\ jobs[b].phase = "unused" /\ \A c \in 1..(b - 1) : jobs[c].phase # "unused"
    /\ statuses' = [statuses EXCEPT ![u] = "waiting"]
    /\ building' = building \cup {u}
    /\ cancels' = [cancels EXCEPT ![u] = b]
    /\ jobs' = [jobs EXCEPT ![b].target = u, ![b].phase = "load"]

KeyBuild(u) ==
    /\ On("units")
    /\ \E b \in Jobs : startBuild(u, b)
    /\ UNCHANGED <<screen, bar, source, quit>>

(* B starts a build of every row that is not waiting or building. *)
KeyBuildAll ==
    LET rows == {u \in Units : Startable(u)} IN
    /\ On("units") /\ rows # {}
    /\ \E f \in [rows -> {b \in Jobs : jobs[b].phase = "unused"}] :
        /\ \A u, w \in rows : f[u] = f[w] => u = w
        /\ \A c \in Jobs, u \in rows : c < f[u] => jobs[c].phase # "unused" \/ \E w \in rows : f[w] = c
        /\ statuses' = [u \in Units |-> IF u \in rows THEN "waiting" ELSE statuses[u]]
        /\ cancels' = [u \in Units |-> IF u \in rows THEN f[u] ELSE cancels[u]]
        /\ jobs' = [b \in Jobs |-> IF \E u \in rows : f[u] = b
                                   THEN [jobs[b] EXCEPT !.target = CHOOSE u \in rows : f[u] = b,
                                                        !.phase = "load"]
                                   ELSE jobs[b]]
    /\ building' = building \cup rows
    /\ UNCHANGED <<screen, bar, source, quit>>

(* x, c, C and q ask first; q only when there is a build to cancel. *)
KeyCancel(u) ==
    /\ On("units") /\ cancels[u] # 0
    /\ confirm' = <<"cancel", u>>
    /\ UNCHANGED <<view, build, source, quit>>

KeyClean(u) ==
    /\ On("units")
    /\ confirm' \in {<<"clean", u>>, <<"clean-all", NoTarget>>}
    /\ UNCHANGED <<view, build, source, quit>>

\* Mutant: quits without a look at the builds.
KeyQuitAtOnce ==
    /\ On("units") /\ confirm' = Nothing /\ quit' = TRUE
    /\ UNCHANGED <<view, build, source>>

KeyQuit ==
    /\ On("units")
    /\ IF \E u \in Units : cancels[u] # 0
       THEN confirm' = <<"quit", NoTarget>> /\ quit' = FALSE
       ELSE confirm' = Nothing /\ quit' = TRUE
    /\ UNCHANGED <<view, build, source>>

Cancelled(S) ==
    [b \in Jobs |-> IF \E u \in S : cancels[u] = b THEN [jobs[b] EXCEPT !.cancelled = TRUE] ELSE jobs[b]]

(* updateConfirm with y. *)
ConfirmCancel(u) ==
    /\ ~quit /\ confirm = <<"cancel", u>> /\ confirm' = Nothing
    /\ jobs' = Cancelled({u})
    /\ cancels' = [cancels EXCEPT ![u] = 0]
    /\ UNCHANGED <<view, statuses, building, bar, source, quit>>

ConfirmClean ==
    /\ ~quit /\ confirm[1] \in {"clean", "clean-all"} /\ confirm' = Nothing
    /\ \/ LET gone == {u \in Units : confirm[2] \in {u, NoTarget}} IN
          /\ statuses' = [u \in Units |-> IF u \in gone THEN "none" ELSE statuses[u]]
          /\ dev' = dev \ gone  \* build.json held the toggle
       \/ UNCHANGED <<statuses, dev>>  \* the directory could not be removed
    /\ UNCHANGED <<view, building, cancels, bar, jobs, prompt, op, quit>>

ConfirmQuit ==
    /\ ~quit /\ confirm[1] = "quit" /\ confirm' = Nothing
    /\ jobs' = Cancelled(Units)
    /\ cancels' = [u \in Units |-> 0]
    /\ quit' = TRUE
    /\ UNCHANGED <<view, statuses, building, bar, source>>

(* updateConfirm with any other key. *)
ConfirmNo ==
    /\ ~quit /\ confirm # Nothing /\ confirm' = Nothing
    /\ UNCHANGED <<view, build, source, quit>>

(* Moving between the pages. *)
KeySetup ==
    /\ On("units") /\ view' = "setup"
    /\ UNCHANGED <<confirm, build, source, quit>>

KeyLeave ==
    /\ On("setup") /\ view' = "units"
    /\ UNCHANGED <<confirm, build, source, quit>>

(* Choosing another machine or distro reloads the project and reads the     *)
(* statuses again, except those of units with a build of their own, and the *)
(* source states. The machine page returns to the list, the distro page     *)
(* stays in setup.                                                          *)
recomputeStatuses ==
    /\ \E fresh \in scanStatuses(jobs, Units \ building) :
        statuses' = [u \in Units |-> IF u \in building THEN statuses[u] ELSE fresh[u]]
    /\ dev' \in SUBSET (Units \ Images)

KeyChoose ==
    /\ On("setup") /\ view' \in {"units", "setup"}
    /\ recomputeStatuses
    /\ UNCHANGED <<confirm, building, cancels, bar, jobs, prompt, op, quit>>

-----------------------------------------------------------------------------
(* Source toggles, sourceprompt.go. An operation parks the interface in the *)
(* progress view, where every key is inert, until its result arrives.       *)
Start(kind, t) == op' = <<kind, t>> /\ view' = "progress"
Ask(kind, t) == prompt' = <<kind, t>> /\ view' = "prompt"

(* u: a pinned tree asks how to reach upstream, a clean dev tree is pinned  *)
(* at once, a modified one asks before it discards. Which of the two a dev  *)
(* tree is depends on the work the user did in it.                          *)
KeyToggle(u) ==
    /\ On("units") /\ u \notin Images
    /\ \/ u \notin dev /\ Ask("scheme", u) /\ UNCHANGED op
       \/ u \in dev /\ Start("pin", u) /\ UNCHANGED prompt
       \/ u \in dev /\ Ask("discard", u) /\ UNCHANGED op
    /\ UNCHANGED <<confirm, build, dev, quit>>

(* P on the page of a unit, in a dev state only. *)
KeyPromote(u) ==
    /\ On("units") /\ u \in dev
    /\ Start("promote", u)
    /\ UNCHANGED <<confirm, build, prompt, dev, quit>>

PromptCancel ==
    /\ On("prompt") /\ prompt' = Nothing /\ view' = "units"
    /\ UNCHANGED <<confirm, build, op, dev, quit>>

(* The way upstream takes two questions, discarding takes one. *)
PromptChoose ==
    /\ On("prompt")
    /\ IF prompt[1] = "scheme"
       THEN prompt' = [prompt EXCEPT ![1] = "depth"] /\ UNCHANGED <<view, op>>
       ELSE prompt' = Nothing /\ Start(IF prompt[1] = "depth" THEN "dev" ELSE "pin", prompt[2])
    /\ UNCHANGED <<confirm, build, dev, quit>>

(* clearStatus. *)
Cleared(u) == [statuses EXCEPT ![u] = "none"]

(* sourceOpDoneMsg: back to where the operation was started; after a        *)
(* success the row of a unit loses its build status.                        *)
OpDone ==
    /\ ~quit /\ op # Nothing
    /\ op' = Nothing /\ view' = "units"
    /\ dev' = IF op[1] = "dev" THEN dev \cup {op[2]} ELSE dev \ {op[2]}
    /\ statuses' = Cleared(op[2])
    /\ UNCHANGED <<confirm, building, cancels, bar, jobs, prompt, quit>>

\* Mutant: an error leaves the progress view up.
OpFailsStays ==
    /\ ~quit /\ op # Nothing /\ op' = Nothing
    /\ UNCHANGED <<view, confirm, build, prompt, dev, quit>>

OpFails ==
    /\ ~quit /\ op # Nothing
    /\ op' = Nothing /\ view' = "units"
    /\ UNCHANGED <<confirm, build, prompt, dev, quit>>

(* sourceStateChangedMsg: the watcher saw a tree change. It watches those   *)
(* in dev state, but a report may be under way when the unit is pinned or   *)
(* the machine changes, so any unit with sources can be reported, and with  *)
(* any state (a tree without .git counts as empty).                         *)
SourceStateChanged(u) ==
    /\ ~quit /\ u \notin Images
    /\ statuses' = Cleared(u) /\ dev' \in {dev \cup {u}, dev \ {u}}
    /\ UNCHANGED <<screen, building, cancels, bar, jobs, prompt, op, quit>>

-----------------------------------------------------------------------------
(* The goroutine of a build: it loads the project, BuildUnits announces its *)
(* plan, workers run, and the result is reported. What a worker does is     *)
(* BuildScheduler's subject; here only its events count. Of those, "cached" *)
(* and "waiting" come once for every unit before any work starts.           *)
Closure(u) ==
    {w \in Units : \A S \in SUBSET Units : (u \in S /\ \A v \in S : Deps[v] \subseteq S) => w \in S}

EventStatus(u, s) == statuses' = [statuses EXCEPT ![u] = s]
At(b, u, s) == jobs' = [jobs EXCEPT ![b].at[u] = s]

(* The target is forced, any other unit may be served from the cache. *)
PlanUnits(b) ==
    /\ ~quit /\ jobs[b].phase = "load"
    /\ \E reuse \in SUBSET (Closure(jobs[b].target) \ {jobs[b].target}) :
        jobs' = [jobs EXCEPT ![b].phase = "run",
                             ![b].at = [u \in Units |-> CASE u \in reuse -> "reuse"
                                                          [] u \in Closure(jobs[b].target) \ reuse -> "build"
                                                          [] OTHER -> "out"]]
    /\ UNCHANGED <<screen, statuses, building, cancels, bar, source, quit>>

(* Counts a unit once, however many builds announce it. *)
markBuildUnitWaiting(u) ==
    bar' = IF u \in bar.pending THEN bar ELSE [bar EXCEPT !.total = @ + 1, !.pending = @ \cup {u}]

(* The pre-scan: one event per unit, in build order. *)
Announce(b, u) ==
    /\ ~quit /\ jobs[b].at[u] \in {"reuse", "build"}
    /\ \A d \in Deps[u] : jobs[b].at[d] \notin {"reuse", "build"}
    /\ IF jobs[b].at[u] = "reuse"
       THEN At(b, u, "cached") /\ EventStatus(u, "cached") /\ UNCHANGED bar
       ELSE At(b, u, "queued") /\ EventStatus(u, "waiting") /\ markBuildUnitWaiting(u)
    /\ UNCHANGED <<screen, building, cancels, source, quit>>

Announced(b) == jobs[b].phase = "run" /\ \A u \in Units : jobs[b].at[u] \notin {"reuse", "build"}

(* A worker exists once the dependencies are finished; it goes on unless    *)
(* another one failed or the build was cancelled.                           *)
Ready(b, u) ==
    /\ ~quit /\ Announced(b)
    /\ jobs[b].at[u] \in {"cached", "queued"} /\ jobs[b].err = "none"
    /\ \A d \in Deps[u] : jobs[b].at[d] \in {"served", "done"}

CheckWorker(b, u) ==
    /\ Ready(b, u)
    /\ IF jobs[b].cancelled
       THEN jobs' = [jobs EXCEPT ![b].err = "cancelled"]
       ELSE At(b, u, IF jobs[b].at[u] = "cached" /\ \A d \in Deps[u] : jobs[b].at[d] # "done"
                     THEN "served" ELSE "going")
    /\ UNCHANGED <<screen, statuses, building, cancels, bar, source, quit>>

BuildingEvent(b, u) ==
    /\ ~quit /\ jobs[b].at[u] = "going"
    /\ At(b, u, "building") /\ EventStatus(u, "building")
    /\ UNCHANGED <<screen, building, cancels, bar, source, quit>>

\* Mutant: counts units that were never announced, or a second time.
markBuildUnitFinishedAlways(u) ==
    bar' = [bar EXCEPT !.done = @ + 1, !.pending = @ \ {u}]

(* markBuildUnitFinished counts only what was announced as waiting. *)
markBuildUnitFinished(u) ==
    bar' = IF u \in bar.pending THEN [bar EXCEPT !.done = @ + 1, !.pending = @ \ {u}] ELSE bar

DoneEvent(b, u) ==
    /\ ~quit /\ jobs[b].at[u] = "building"
    /\ At(b, u, "done") /\ EventStatus(u, "cached") /\ markBuildUnitFinished(u)
    /\ UNCHANGED <<screen, building, cancels, source, quit>>

\* Mutant: a failure moves the bar but not the row.
FailedEventBarOnly(b, u) ==
    /\ ~quit /\ jobs[b].at[u] = "building"
    /\ At(b, u, "failed") /\ UNCHANGED statuses /\ markBuildUnitFinished(u)
    /\ UNCHANGED <<screen, building, cancels, source, quit>>

FailedEvent(b, u) ==
    /\ ~quit /\ jobs[b].at[u] = "building"
    /\ At(b, u, "failed") /\ EventStatus(u, "failed") /\ markBuildUnitFinished(u)
    /\ UNCHANGED <<screen, building, cancels, source, quit>>

(* The failing worker stops the others only after its event. *)
RecordError(b) ==
    /\ ~quit /\ Live(b) /\ jobs[b].err = "none" /\ \E u \in Units : jobs[b].at[u] = "failed"
    /\ jobs' = [jobs EXCEPT ![b].err = "failed"]
    /\ UNCHANGED <<screen, statuses, building, cancels, bar, source, quit>>

(* resetBuildProgress, once no build is entered any more. *)
resetBuildProgress(left) ==
    bar' = IF left = {} THEN [total |-> 0, done |-> 0, pending |-> {}] ELSE bar

\* Mutant: the cancel function outlives its build.
BuildDoneKeepsCancel(b, result) ==
    /\ jobs' = [jobs EXCEPT ![b] = [Idle EXCEPT !.target = jobs[b].target, !.phase = "over"]]
    /\ building' = building \ {jobs[b].target}
    /\ EventStatus(jobs[b].target, result)
    /\ resetBuildProgress(building \ {jobs[b].target})
    /\ UNCHANGED <<screen, cancels, source, quit>>

(* buildDoneMsg. *)
BuildDone(b, result) ==
    LET u == jobs[b].target IN
    /\ jobs' = [jobs EXCEPT ![b] = [Idle EXCEPT !.target = u, !.phase = "over"]]
    /\ building' = building \ {u}
    /\ cancels' = [cancels EXCEPT ![u] = 0]
    /\ EventStatus(u, result)
    /\ resetBuildProgress(building \ {u})
    /\ UNCHANGED <<screen, source, quit>>

(* The load, the plan or the checks before it fail. *)
LoadFails(b) == ~quit /\ jobs[b].phase = "load" /\ BuildDone(b, "failed")

(* BuildUnits returns when no worker is left. An error that speaks of a     *)
(* killed process counts as a cancellation, whoever killed it; the last     *)
(* index refresh can still fail.                                            *)
JobEnds(b) ==
    /\ ~quit /\ Announced(b)
    /\ \A u \in Units : jobs[b].at[u] \notin {"going", "building"} /\ ~Ready(b, u)
    /\ (\E u \in Units : jobs[b].at[u] = "failed") => jobs[b].err # "none"
    /\ \E result \in CASE jobs[b].err = "none" -> {"cached", "failed"}
                       [] jobs[b].err = "cancelled" -> {"none"}
                       [] jobs[b].err = "failed" -> {"none", "failed"} :
        BuildDone(b, result)

JobStep(b) ==
    \/ PlanUnits(b) \/ LoadFails(b) \/ RecordError(b) \/ JobEnds(b)
    \/ \E u \in Units : \/ Announce(b, u) \/ CheckWorker(b, u) \/ BuildingEvent(b, u)
                        \/ DoneEvent(b, u) \/ FailedEvent(b, u)

-----------------------------------------------------------------------------
UserKey ==
    \/ KeyBuildAll \/ KeyQuit \/ KeySetup \/ KeyLeave \/ KeyChoose
    \/ ConfirmClean \/ ConfirmQuit \/ ConfirmNo
    \/ PromptCancel \/ PromptChoose
    \/ \E u \in Units : \/ KeyBuild(u) \/ KeyCancel(u) \/ KeyClean(u) \/ ConfirmCancel(u)
                        \/ KeyToggle(u) \/ KeyPromote(u)

Background ==
    \/ OpDone \/ OpFails
    \/ \E u \in Units : SourceStateChanged(u)
    \/ \E b \in Jobs : JobStep(b)

Next == UserKey \/ Background

Spec == Init /\ [][Next]_vars

-----------------------------------------------------------------------------
(* A cancel function is kept only as long as it can be of use: it is of     *)
(* a build that runs and was not cancelled, of that very unit; and a unit   *)
(* is entered as building only while a build of it runs (startBuild,        *)
(* updateConfirm, buildDoneMsg).                                            *)
HandlesAreLive ==
    \A u \in Units :
        /\ cancels[u] # 0 => LET j == jobs[cancels[u]] IN
                /\ Live(cancels[u]) /\ j.target = u /\ ~j.cancelled
        /\ u \in building => \E b \in Jobs : Live(b) /\ jobs[b].target = u

(* The progress bar goes away: it is shown only while some build runs, and  *)
(* never claims more than it was promised (markBuildUnitWaiting,            *)
(* markBuildUnitFinished, resetBuildProgress).                              *)
BarOnlyWhileBuilding ==
    /\ bar.total > 0 => \E b \in Jobs : Live(b)
    /\ bar.total = bar.done + Cardinality(bar.pending)

(* When all builds have reported back, no row is left at "building"         *)
(* (buildEventMsg, buildDoneMsg, recomputeStatuses).                        *)
NoRowLeftBuilding ==
    (\A b \in Jobs : ~Live(b)) => \A u \in Units \ LeftBuilding : statuses[u] # "building"

(* The result of what runs in the background finds its own dialog open:     *)
(* nothing the user does meanwhile, and no other message, can lead away     *)
(* from it (the inert keys of Update).                                      *)
ResultFindsItsDialog ==
    /\ (op # Nothing) <=> (view = "progress")
    /\ (prompt # Nothing) <=> (view = "prompt")
    /\ confirm # Nothing => view = "units"

(* Quitting stops every build: whatever still runs was cancelled, unless    *)
(* the same unit was started again beside it (updateUnits, updateConfirm).  *)
QuitCancels ==
    [][quit' => \A b \in Jobs : Live(b) =>
            \/ jobs'[b].cancelled
            \/ \E c \in Jobs \ {b} : jobs[c].target = jobs[b].target]_vars

(* The rows, the progress bar and the dialogs tell what the builds and the  *)
(* source operations behind them really do.                                 *)
RowsInv ==
    /\ TypeOK
    /\ NoRowLeftBuilding
    /\ BarOnlyWhileBuilding
    /\ ResultFindsItsDialog

=============================================================================
