# A TLA+ verification project for yoe

yoe builds embedded Linux distributions: it loads a project written in
Starlark, resolves units into a dependency graph, fetches and prepares sources,
builds units in containers on a pool of workers, publishes packages into a local
repository, assembles images, and then flashes, deploys to, and watches devices.
This directory holds specifications of the parts of that program whose
correctness depends on order, concurrency, failure and what earlier runs left on
disk; TLC configurations that check them on small instances; and proofs, checked
by TLAPS, of the results that hold for every instance.

Paths below are relative to `src/`. `PROJECT.json` maps every definition to the
lines it models and lists the hazards each property is aimed at.

## 1. Inventory

| Component | State | Operations | What is hard |
|---|---|---|---|
| Build scheduler, `internal/build/executor.go` | in-degree counters, `started`, `rebuilt`, `firstErr`, `stop` under one mutex; `build.json` per unit; the repository | `BuildUnits`, one goroutine per unit, semaphore, cancellation, index refresh | several workers count down the same unit; `rebuilt` is read under the lock and used after it; a failure or a cancellation while others run; two images refreshing one index |
| Build cache, `build/executor.go`, `build/meta.go`, `resolve/hash.go` | hash and status in `build.json`, destdirs, package pool | plan, reuse or build, record | edits and reverts between and during runs, partial runs, kills, packages that vanish |
| Dependency graph, `resolve/dag.go`, `resolve/container.go`, `resolve/runtime.go` | none (pure) | build the DAG, sort, closure | provided names, self edges, runtime cycles |
| Unit source trees, `source/workspace.go`, `source/state.go`, `dev.go` | working tree with `yoe/pin` tag, `SourceState` in `build.json` | `Prepare`, toggles, promote | user work in a tree the build owns; half-made clones; toggles during a build |
| Source fetch, `source/fetch.go`, `gitutil`, `httputil` | download cache, lock files, temporary clones | download with retries and mirrors, clone under a lock, clean | kills, stale entries, stalled transfers, debris that looks like someone's clone |
| Local apk repository, `repo/local.go`, `repo/index.go` | package files, one `APKINDEX` per directory | publish, remove, clean, generate indexes | deletes and index rewrites are separate steps; noarch packages are listed everywhere |
| Debian repository, `repo/deb_emitter.go` | pool, `Packages`, `Release`, `InRelease` | publish, generate | four files that must agree, written one by one |
| Modules, `module/`, `starlark/module_walk.go`, `starlark/cycle.go` | one clone per module, its dev state and anchor; the list of modules | sync, clone if missing, toggle, pull, expand dependencies | a kill while cloning in place; a pull past the user's commits; conflicts and cycles found on the way |
| Project loader, `starlark/` | catalogs of units, provided names, load cache, image closures, one view per distro | evaluate project and modules in phases, `load()`, resolve closures, materialise | closures resolved against a half-filled catalog, shadowing, map order, load cycles |
| Feeds, `feeds/`, `apkindex/`, `dpkg/` | checked-in indexes, lazy units | update, look up, materialise | provider choice, versions |
| Package formats and signing, `artifact/`, `deb/`, `gzipframe/` | none | write and sign packages | bytes, not control |
| Containers and sandbox, `container/`, `build/sandbox.go`, `build/starlark_exec.go` | running container | run, stop, assemble the sysroot | cancellation before the container exists |
| Devices, `device/` | a block device, a grown copy of an image, a QEMU process, the repositories file of a device | flash, run, boot test, deploy, `device repo` | devices that change between check and write; deadline against prompt and exit; scripts cut short |
| Serial console, `serial/` | transport, log, clients, socket | capture, fan out, attach, take over, close | six kinds of goroutine and one `Close`; processes contending for one path |
| Terminal interface, `tui/`, `tui/query` | table of units with query, cursor and scroll position; running builds; dialogs; the page of a unit; Setup and `local.star`; watcher | start, cancel, toggle, query, sort, search, settings, flash, deploy | messages that arrive late; two builds at once; indices into lists that change; a file several programs rewrite |
| Feed server, `feed/` | listener, announcement | start, stop, discover | a deploy that serves a feed of its own beside another |
| Command line and self-update, `cmd/yoe`, `update.go`, `init.go`, `clean.go`, `skills/` | files | sequential commands | little |

How they interact. `cmd/yoe` and the TUI load a project and call `BuildUnits`.
`BuildUnits` asks `resolve` for the DAG and the hashes and decides per unit
whether the cache serves it. For a unit it builds, `buildOne` calls
`source.Prepare`, runs the tasks in a container, packages the result, publishes
it into the repository and writes `build.json`; for an image it refreshes the
index first. The toggles of dev mode write the same `build.json`. The feed
server exposes the repository to devices. The serial session is independent of
builds; the TUI, `yoe serial` and the boot tooling attach to it.

What makes each part correct, in short: the scheduler builds dependencies first,
propagates rebuilds, and reports success only for a complete build; the cache never
serves anything but what a build from scratch would make; a pin build compiles the
declared sources and no build discards the user's work; an index lists what is in the
repository; a console log is complete, closing a session leaves nothing behind, and a
console has one owner; a load gives the build the units its images were resolved to,
whatever order maps have; a cached source was verified and is whole; no command loses
work in a module clone; a flash writes only the disk it was asked for, and all of the
image; a passing boot test saw its own guest; the table, the pages and `local.star`
agree with what happened behind them.

## 2. Modules

### BuildScheduler (with TopoBuild, MCBuildScheduler, BuildSchedulerProofs)

One call of `BuildUnits`. `pc[u]` is where the goroutine of unit `u` is; `indeg`,
`started`, `rebuilt`, `publishedPkg`, `imageRefreshed`, `firstErr` and `stop` are the
variables under `mu`; `depRebuilt[u]` is the local of that name. `meta`, `pool` and
`index` are `build.json`, the packages in the tree (absent, from an earlier build, from
this one) and the package each index entry describes. `Init` leaves all three open: an
index may lack a package that an earlier build published before it failed, and may list
one removed since. `Plan` and `Refuse` are the code before the first goroutine. A worker
goes through `Acquire` (semaphore), `CheckStop` or `CheckDeps` (first critical section),
`SeeCancel`, `ServeCached` or `StartBuild`, for images `RefreshScan`, `RefreshTruncate`,
`RefreshFill` (the refresh holds no lock, so its scan, the opening of the file and the
write are separate steps), `Publish`, `BuildReturns` or `BuildFails` at any stage,
`RecordFailure`, and `Finish` (second critical section: count down dependents and launch
the ready ones). `ReturnOk`, `ReturnError` and `ReturnRefreshError` are the code after
`wg.Wait()`. `Cancel` is the caller's context.

`TopoBuild` is the abstract specification: a loop that takes one unit at a time,
any whose dependencies are finished. `ImplementsTopo` maps the finished set to
the units whose goroutine is `done`.

### DependencyGraph and UnitCache (with MCUnitCache, MCStores, StoreProofs)

`DependencyGraph` holds the pure part: `DagDeps` (declared dependencies, provided
names, runtime dependencies of dependencies, containers), `TopologicalSort`
(Kahn, ties by name), `Reach`, `ComputeAllHashes`. `UnitCache` runs it over time:
`StartRun` loads the definitions, hashes them and plans; `ServeCached`,
`BuildUnit`, `BuildFails` and `Interrupt` deal with one unit; `Edit`,
`LosePackage` happen at any time. An artifact is recorded as the definition it
was made from and the artifacts it was made with, so "what a build from scratch
would give" is an equation. Runs are sequential here: that the pool behaves like
a sequential loop is what `ImplementsTopo` establishes. A hash is modelled as a
collision-free function of the very arguments the code hashes. These are not all of
a definition: `Seen` leaves out the units in `unread`, those built by a Starlark
function, of which the hash reads the name, or with patches outside the unit's own
files, of which it reads the path.

### UnitSource (with MCUnitSource, SourceProofs)

The tree of one unit. A commit is the sequence of changes that leads to it;
ancestry is prefix. `src` holds the checked-out commit, the `yoe/pin` tag, local
branch commits and whether there are edits. `BuildStart`, `PrepareKeeps`,
`PrepareFetches`, `FetchFails`, `PrepareRemoves`, `PrepareClones`, `PrepareTags`,
`PreparePatches`, `Compile` and `BuildEnds` are the stages of `buildOne`, between any
two of which the process can be killed (`Crash`) or a toggle can come; `DevToUpstream`,
`DevToPin` and `DevPromoteToPin` are the toggles; `EditStar`, `UserEdits`,
`UserCommits` and `Wipe` are the user. Two history variables are read by properties
only: `wish` is the mode the user last chose, and `toggle` says whether that choice
was made while a build ran (`during`) and then `overtaken` by the end of that build,
which writes back the decision it read at its start.

### PackageRepo (with MCPackageRepo, MCStores, StoreProofs)

The apk repository. `disk[f]` is the content of a package file (a publication
number, 0 for none), `index[d]` what the `APKINDEX` of a directory lists. One
command (`GenerateAllIndexes`, `Remove`, `Clean`) runs directory by directory,
can fail or be killed in between, while other processes `Publish`; a directory that
`Remove` or `Clean` cannot read is passed over in silence (`SkipUnreadable`). `base`, `op`
and `last` remember what the command saw and set out to do.

### SerialSession (with SerialProofs)

One captured console: the adapter loop (`Connect`, `SetConnected`, `Marker`,
`Read`, `LogWrite`, `Fanout`, `DropTransport`, `SetWaiting`, `Sleep`), the idle
timer of the log, the accept loop (`Accept`, `Subscribe`, `Count`,
`AcceptFails`), one goroutine per client (`Take`, `Deliver`, `StopServing`,
`Leave`) and `Close` in its six steps. Chunks are numbered as they are read.
Board, adapter and clients are the environment.

### SerialOwner (with MCSerial, SerialProofs)

Several processes and the one path of a console's socket. `Stat`, `Probe`,
`RemoveStale`, `Bind` and `Listen` are `listenUnix` one system call at a time,
`OpenRest` the log and the TCP listener, `TryAttach` and `AttachToWinner` the two
dials of `OpenOrAttach`, `Unlink`, `Hangup` and `RemoveSocket` what `Close` does to
the path and the connections, `TakeOver` the loop of `yoe serial`. A socket outlives
the process that is killed. `raced` remembers that two running processes were
changing the path at once. `MCSerial` runs it beside `SerialSession`, which starts
with a socket it owns.

### TuiSession (with MCTuiSession, TuiSessionProofs)

The terminal interface. Its model is changed only by `Update`, one message at a
time, so every action is one call of `Update`, together with the step of the
goroutine that sent the message (a sender waits until its message is taken).
`view` and `confirm` say who gets the next key, `statuses`, `building`, `cancels`
and `bar` are the fields of the model that builds change, `jobs` the goroutines
of `startBuild`. The `Key`, `Confirm` and `Prompt` actions are keys; `PlanUnits`
to `JobEnds` are what one `BuildUnits` reports, as far as the list can see it
(two may run at once, and neither knows of the other); `OpDone`, `OpFails` and
`SourceStateChanged` are the results of toggles and the reports of the watcher.
The statuses `scanStatuses` reads from the disk are a free choice among what a
build of this session, or an earlier one, can have left there.

### ProjectLoad (with MCProjectLoad, ProjectProofs)

`LoadProjectFromRoot`, phase by phase (`phase`): local overrides, machines, preflight of
the pins, units, provided names, images, the fixpoint over build dependencies, the
views. `stack` and `cache` are the files being executed and the load cache with its
reserved entries; `eng` holds the flat and the per-module catalog; `Register` is
`registerUnit` with shadowing; `Provide` collects virtual names; `Image`, `WalkStep` and
`ImageDone` are one closure walk, which may materialise packages of feeds;
`RegisterInert` is an image of a distro that the machine's kernel has no unit for
(`Bootable`), which is registered without a closure, and `Explicit` puts the distro's
kernel in place of its virtual name; `Materialize` is one round of the fixpoint;
`BuildViews` freezes one view per distro. Loading is sequential: what varies is the
project, and where Go ranges over a map the result must not depend on the order
(`NoTies`, `ProviderPriority`). A module is known by its priority, a feed by a negative
one.

### ModuleSync (with MCModuleSync, ProjectProofs)

The clones below `cache/modules`: `StartSync`, `SyncOne`, `SyncDone` are
`yoe module sync`; a load is `StartLoad`, then rounds: `SyncIfNeeded` clones what is
missing, `StartRound` and `ReadModule` read the `module_info` of each module of the
list, `Incorporate` takes its dependencies one by one (known, overridden by the
project, in conflict, or new), `RoundEnds` starts another round if something is new.
`VisitRoot`, `Visit` and `Visited` are the calls and returns of `visit` in
`DetectCycles`, with `search` its stack and the modules it is done with;
`CyclesFound` compares the search with the definition of a cycle. `ToUpstream`,
`ToPin` and `PullDev` are dev mode. A commit is a version of the declared ref and a
number of commits of the user on top of it. A kill while cloning leaves a clone
with or without a checkout. `MaxRounds` is 16, as in the code.

### SourceFetch (with SourceProofs)

The cache of sources. Each worker (a goroutine or another process) goes through
host and attempt of a download (`get`, `body`, `downloaded`) or lock, check,
clone and rename of a git source; `Send` and `Broken` are the hosts, `Tick` the
clock of the stall guard, `Kill` a killed worker, `StartClean` and `CleanEntry`
`yoe source clean`. Lock files have inodes, so a lock on an unlinked file
excludes nobody. `MCSources` runs it beside `UnitSource`.

### FlashDevice, BootTest, TargetFeed (with MCDevice, DeviceProofs)

`FlashDevice` has the block devices as nodes (disks, partitions, what is mapped
over them), the sticks plugged in, the image file with the builds that rewrite
it, one writer for `yoe flash` and one for the flash view, and the view's stages.
The checks, the question to the user, the open and the copy in aligned chunks
are separate steps between which sticks are swapped, partitions mounted and
images rebuilt. The mounts a system disk is known by are a constant
(`Critical`: `/`, `/boot`, `/boot/efi`, `/usr`). `BootTest` has three `yoe run`: merged
port forwards, the grown copy found again by size and age, start of QEMU, and the boot
test's select over prompt, exit and deadline, its SSH retries and its teardown. A copy
is dated by the last write to it, so `straddles` remembers that a build ended while it
was being written. The guest that answers a dial is any attached one that has the port
by then; those left in the background only hold ports. `TargetFeed` has the
feed server, deploys from command line and view, and `yoe device repo`: a script
is the sequence of its commands and the connection may be lost after any of them.

### TuiList, DetailView, TuiSetup (with MCTuiViews, TuiSessionProofs)

`TuiList` is the table: units, the rows a query selects, cursor, scroll offset,
sort order, the query bar, and what builds and reloads do to them. `visible`,
`cursor` and `listOffset` are updated exactly where the code does so
(`setStatus`, `refreshVisible`, `applyQuery`, `adjustListOffset`), not derived.
`DetailView` is the page of a unit: the text read at every tick, its scroll
position, following, search with its matches, and the list of files. `TuiSetup`
is `local.star` with its writers (Setup pages, `yoe config`, settings of
`yoe run`), the copy the interface keeps, and the editor of port forwards.

Two small modules hold what several components compute alike: `PortForwards`, the
merge of port forwards that `yoe run` binds (`BootTest`) and the Setup page shows
(`TuiSetup`), and `Positions`, filtering a list by position (`TargetFeed`, `TuiSetup`).

## 3. Runs

A run may check several named parts at once; the compound is their conjunction,
in the module of the parts.

| Run | Checks | On |
|---|---|---|
| `build` | DepsFirst, RebuildPropagates, SuccessIsComplete, SuccessIsReusable, ImageSeesItsClosure, IndexCurrentAtSuccess, Returns, ImplementsTopo | library, package without tasks, image of both, tool, an image the machine cannot boot (also as a dependency), an unknown name, a cyclic project; two workers; every initial cache, repository and index; failures and cancellation anywhere |
| `sources` | PinBuildIsDeclared, UserWorkSafe, SourceInv (types, ToggleKept); FetchEnds, FetchInv (types, VerifiedUse, UsedIsComplete, OwnCloneKept, DebrisSwept) | a unit with two tags and a branch, toggles and kills at every stage of a build; two workers and three cached sources, hosts that fail or fall silent, one kill, one clean |
| `stores` | DoneIsFresh, OrderInv (types, SortIsTopological, OrderIsClosed); RefreshListsAll, TouchedIndexSound, CleanExact | 7000 graphs sorted and closed; three runs with two edits on two of them, one with a unit the hash reads only the name of; two arch packages, a noarch one, two project states, two publications of each, directories that cannot be read |
| `serial` | CloseReturns, SessionInv (types, LogComplete, CountedSeesAll, CloseLeavesNothing); SoleOwner | one client, two chunks, an adapter that goes and comes back; the TUI, `yoe serial` and `yoe serial send`, five starts, one kill |
| `tui` | HandlesAreLive, QuitCancels, RowsInv (types, NoRowLeftBuilding, BarOnlyWhileBuilding, ResultFindsItsDialog) | a library and an image of it, two builds, toggles, cleaning, another machine and quitting in every order |
| `project` | ViewKeepsClosures, CatalogInv (types, TaggedNeverLost, NoTies, ProviderPriority, ImageChoice, NoNilEntry), ClosureInv (DepsMaterialised, ClosureOrdered); UserWorkKept, SyncRepairs, SyncInv (types, WorkIsSeen, LoadClosed, OneOfAName, CyclesFound) | 1,750 projects over a root, two modules and three feeds, with kernels for some distros only, names a module defines for two distros, and files that load each other; seven module lists, deep, conflicting, overriding and cyclic, with a kill, a moved ref, a commit of the user and four commands |
| `device` | FlashSafe (types, WritesAlone, NeverOffersSystem, IgnoredNeverWritten, FlashedWhole); TestEnds, BootInv (types, PassNeedsLogin, PassIsOwnGuest, NoGuestLeft), LaunchSound (BootsWholeCopy, CollidesOnOwnPorts); DeployInstalls, FeedInv (types, UserLinesKept, OneBlockEach) | a system disk under a mapped device and three sticks; `yoe run` in three terminals, one with a grown disk, two dialling one ssh port; an Alpine or a Debian device, two sessions and a lost connection |
| `tui_views` | TableSound (types, RowsMatchQuery, CursorOnRow, RowsInOrder, Drawable, CursorOnScreen); PageSound (types, MatchStaysOnScreen, FollowsToTheEnd); ForwardsSound (ForwardsAreWanted, CommitLandsOnRow), SettingsInv (types, ShownIsSaved, NoSettingLost) | three units on a screen of two rows, two projects, three queries; a page of two lines and its logs; two machines, three forwards, commands writing `local.star` |
| `build_two_images` | violation of ImageSeesItsClosure | finding 1 |
| `src_patch_retry` | violation of PinBuildIsDeclared | finding 2 |
| `tui_list_panic` | violation of DrawableAlways | finding 3 |
| `serial_open` | violation of OpenReturns | finding 4 |

`sources`, `stores`, `serial`, `project`, `device` and `tui_views` each hold components
that share no state in the model; a behaviour is chosen at its start to be of one of
them, so the state spaces add up and do not multiply.

Why the bounds are enough. *Scheduler:* five units give a chain of three, a unit with
two dependencies at different depths, and units outside the closure; two workers are the
least with interleaving, and a graph with three roots makes one of them wait for a slot.
`OneRecord` starts the second image without a record, since the machine cannot boot it
and no build ever reads one. The proofs remove the bound for safety. *Cache:* four units
and one virtual name; two definitions per unit, so an edit can be reverted; three runs
are a first build, one in which something goes wrong, and one that trusts what that
left. *Source:* two tags of which one extends the other, and a branch ahead of both; one
commit by the user, which can be promoted or lost, and edits after it. *Repository:* one
file per directory and a second in one of them, so a directory can become empty or stay
populated; content numbers up to two, so a file can be replaced while it is listed.
*Serial:* buffers of one chunk are full after one; two openings of the port are one
reconnect; three processes are an owner, a client and one that comes between them, and
five starts let two of them come again. *Interface:* two rows, one built after the
other, and two builds: of a unit and its image, which share rows and the progress bar,
or of the same unit twice. *Fetch:* two workers and three fetches, so that both want one
key and the third finds what they left; one kill while the other works; two attempts and
two hosts are the least with a retry that is not the last and a mirror. *Projects:*
three names give every runtime graph with cycles and a chain of two feed packages; two
modules and the root give a shadowed, a shadowing and a pinned unit; two distros, of
which the kernel has a unit for none, one or both. *Module clones:* four commands are a
sync, a toggle, a pull and a sync; one kill. *Flash:* the image is five units long,
sectors two and the buffer four, so the last chunk is partial and padded; three
candidate paths and a fourth stick to swap in. *Boot:* the image and one rebuild of it,
and two runs in three terminals: one makes the copy that the other may reuse, two want
one ssh port, and two never meet (`--port`). *Device feed:* two sessions, the second on
what the first, cut short, left. *Table:* three units and a screen of two rows scroll;
two events between keys change the rows twice. *Page:* two writes. *Settings:* three
saves: one by the interface, one by a command, one after it.

Deadlock is checked in `build`, `build_two_images` and `src_patch_retry`. In the others
a behaviour may end: the bounds on edits, runs, fetches, commands, starts or events are
used up (`stores`, `sources`, `project`, `device`, `tui_views`, `tui_list_panic`,
`serial_open`), nothing is left to do once a session is closed (`serial`), or quitting
ends the program (`tui`).

### Fairness

`BuildScheduler!FairSpec`: weak fairness of `BuildUnits` itself and of every worker. The
Go scheduler runs every runnable goroutine, a waiter on the semaphore channel is woken
when a slot is free, and a build step is assumed to end; a task that hangs for ever is
outside the model (the code has no timeout for it). Cancellation is not fair.
`SerialSession!SessionFairness`: weak fairness of the adapter loop except while it waits
in `Read` on a live port, of the accept loop, of each client's goroutine and of `Close`.
The board, the adapter and the reading side of a client promise nothing: the board may
stay silent for ever. `SerialOwner!OwnerFairSpec`: weak fairness of every process in the
middle of `Open` or `Close`; starts, ends and kills are the user's.
`SourceFetch!FetchFairness`: weak fairness of each worker, whose clock is one of its
steps: time passes, and the stall guard's timer fires. Hosts promise nothing.
`BootTest!BootFairness`: weak fairness, for each run, of the steps of its test or its
deadline (`TestStep(r) \/ Deadline(r)`): `Select`, the dial loop and the teardown are
one goroutine that is runnable or waits on a timer, and timers fire; the guest promises
nothing, and the health command over SSH, for which the code has no deadline, may hang
with it (`TestEnds` excepts that). The other modules check safety and need no fairness.

## 4. Findings and known weaknesses

Findings, each with a run that shows the counterexample:

1. *Two images refresh the index at once* (`build/executor.go:836`).
   `refreshRepoIndex` scans and rewrites without a lock, and the file is truncated in
   place: in the trace one image is being assembled when the refresh of the other has
   emptied the index and not yet filled it. The comment above says the refresh
   "always matches what is actually on disk".
2. *A failed patch is forgotten* (`source/workspace.go:74`). The pin tag is set
   before patches are applied, so the retry accepts the unpatched tree.
3. *The table's scroll offset can be beyond its rows* (`tui/app.go:1846`).
   `refreshVisible` keeps the offset while a build event removes rows of a status
   query; drawing then slices out of range. The comment says leaving the offset
   is safe while a build is running.
4. *`Open` of a serial session hangs when its TCP address is taken*
   (`serial/session.go:173`). It calls `Close`, which waits for `s.done`; only the
   end of `Open` starts the goroutine that closes it. `yoe serial --listen` on a busy
   port then ignores ctrl-c, and a TUI whose `local.star` sets `serial_listen` freezes.
   The next line returns an error that is never reached.

Weaknesses met while modelling. A definition in brackets states what fails;
replacing the properties of the run's configuration by it (with the constant
given, if any) gives the counterexample.

- *An index can lag the repository after a build that succeeds*
  (`build/executor.go:429-440`, against lines 825-834 and 434-437): a build that fails or
  is cancelled returns before the refresh; the next one finds its packages in the cache,
  publishes nothing, refreshes nothing and returns nil (`IndexNeverLags`). Likewise for a
  package published after the refresh of an image that does not contain it.
- *A toggle during a build is undone* (`build/executor.go:624`, against lines
  599-601): the deferred write puts back the `SourceState` read at the start
  (`DecisionKept`).
- *A toggle while the source is being fetched comes too late*
  (`source/workspace.go:91-106`): `Prepare` decided before the fetch to replace the
  tree, and removes it with what the user did to it meanwhile (`UserWorkAlwaysSafe`).
- *A deleted package stays listed* (`repo/local.go:308`, `repo/index.go:65`,
  against `local.go:257-259`): an empty directory keeps its index, other arches
  keep listing a deleted noarch package (`DeletedNotListed`).
- *A clean that succeeded may have cleaned nothing* (`repo/local.go:287-289`): a directory
  that cannot be read is passed over without a word (`NoStaleAfterClean`).
- *An image is served stale* (`resolve/hash.go:174`, against lines 44-45): its hash
  covers declared dependencies, not the artifacts in it (`AlwaysFresh` with
  `Declared <- ChainOnly` and `Deep <- ChainOnly`).
- *An edited task or patch is not built* (`resolve/hash.go:117-119`, `hash.go:78`, against
  lines 44-45): of a function that builds a unit the hash reads the name, of a
  patch outside the unit's files the path (`AlwaysFresh` again, in the project `Bare`).
- *The container that is built can be another than the one that is run*
  (`resolve/dag.go:125`, against lines 230-231): behind two providers in a chain the
  edge of a container is resolved twice, the executor's reference once
  (`OrderIsClosed` with `Declared <- ProviderOfProvider` and
  `Deep <- ProviderOfProvider`).
- *`Close` of a serial session can hang* (`serial/session.go:284`, against
  491-492): a port opened while `Close` runs is never closed
  (`CloseAlwaysReturns`).
- *Two processes can own a console* (`serial/session.go:194-204`, against
  `docs/hardware-in-loop.md:147-150`): two that find the same stale socket, one that
  dials between the other's bind and listen, or a successor whose socket the last
  `os.Remove` of the closing owner (`session.go:528`) takes away
  (`PathLeadsToOwner`). The adapter is opened exclusively, so the second owner waits
  and its clients see nothing. A process that loses the race to bind fails instead of
  attaching (`client.go:128-133` attaches only after `ErrSessionExists`), and
  `yoe serial send` exits without `Close` when the adapter does not connect
  (`cmd/yoe/serial.go:290`), leaving its socket.
- *A virtual name is resolved without its distro while images are evaluated*
  (`starlark/types.go:461`, against 453-454): the load fails where each distro has
  a provider (`UnresolvedIsMissing` with `Projects <- MCVirtuals`).
- *An image loses the order of a chain of providers* (`starlark/closure.go:117`, against
  48-50): a name resolved once is resolved again when its turn comes
  (`ClosureOrdered` with `Projects <- MCChain`: `a`, then the `q` it needs).
- *A cached archive is used without comparing it with the checksum declared now*
  (`source/fetch.go:214`, against `docs/security.md:267`): `VerifiedUse` with
  `Earlier = {"v2"}`.
- *A module switched back from dev mode is taken for one in dev mode by sync*
  (`module/fetch.go:119`, against line 117 and `docs/yoe-tool.md:603`):
  `PinOnRef` with `ModuleLists <- OneModule`.
- *`yoe source clean` during a build* unlinks lock files (`source/lock.go:26-28`
  says they stay): `OwnCloneKept` with `CleanDuring = TRUE`.
- *A half-copied disk is used again* (`device/qemu.go:393`, against 390-392): a copy still
  being written when a build of the image ends is newer than the image when it is done,
  though it began with a part of it (`NeverReusesPart`).
- *A boot test can pass for another guest* (`device/boottest.go:162-189`): once its guest
  showed the prompt nobody looks whether QEMU still runs, and another run that binds the
  same port meanwhile answers the health check (`PassIsOwnGuestAlways`).
- *A unit a module defines for two distros is lost to one of them*
  (`starlark/builtins.go:869-873` and `starlark/engine.go:121-136`, against
  `builtins.go:862-868`): the second definition is not taken for a collision and replaces
  the first in the module's catalog (`TaggedAlwaysKept`).
- *Two `yoe run` with a grown disk* truncate each other's copy: `BootsWholeCopy`
  with `Grow = {"a", "b"}`.
- *A stick swapped while the flash view is open* may be one marked do-not-use:
  `IgnoredNeverWritten` with `SwapWhileOpen = TRUE`.
- *`yoe device repo remove` leaves the block a deploy wrote*, whose name is
  another (`device/apkrepo.go:11-15`): `RemoveTearsDown`. A connection lost inside
  a block makes the next strip delete to the end of the file (`cut` excludes it
  from `UserLinesKept`).
- *Overlapping saves of `local.star`* lose settings: `NoSettingLost` with
  `Overlap = TRUE`; and a file that does not load is overwritten with the one
  field being saved (`tui/app.go:1905`, `cmd/yoe/main.go:744`; `intact` excludes it).
- *A load cycle dereferences the reserved nil entry* (`starlark/load.go:56-58`) instead of
  reporting the cycle: the run has such projects, and `NoNilEntry` says that no others
  panic.
- Not stated as properties: a clone killed during its checkout looks edited and is
  never repaired; a pull in a detached module clone always fails
  (`module/fetch.go:175-179`); rows of units a failed build never started stay at
  "waiting" (`tui/app.go:5125`), and so does the row of a `build.json` left at
  "building" by a killed process (`LeftBuilding`, empty in the run); rows sorted by
  status or size are not sorted again while builds run; search matches on a unit's
  page go stale when `executor.log` grows; with no matching row, keys act on the
  hidden unit under the cursor; an edited port forward whose guest port the machine
  declares leaves the machine's own in place; the boot test's SSH phase does not
  notice that QEMU exited; a package is absent from the device if `apk add` fails
  after `apk del`.

The runs that pass are restricted to where these do not apply, and say so: one image
(`build`), no patches (`sources`), decisions no build has overtaken, and for the work of
the user a toggle that did not come during a build (`ToggleKept`, `UserWorkSafe`,
`PinBuildIsDeclared`: `toggle`), units whose edges and text the hash covers
(`DoneIsFresh`), directories with a package left (`TouchedIndexSound`) or that could be
read (`CleanExact`), names a module defines once (`Once`, in what `CatalogInv` and
`ViewKeepsClosures` say of a unit), a copy that no build ended beside (`BootsWholeCopy`)
and a guest that still runs (`PassIsOwnGuest`), a transport that `Close` found
(`CloseReturns`), processes that do not change the socket at once (`SoleOwner`), clones
never in dev mode (`SyncRepairs`), queries without a status (`Drawable`). `QuitCancels`
makes one exception: a row can lose its status while its build runs (a source report, a
toggle or a clean empties it), the unit can then be started again, and as `cancels` is
keyed by name the first of the two builds is out of reach of cancel and quit.

## 5. Proofs

Seven modules hold the theorems and an eighth, `Induction`, the lemmas about numbers
and lists they share. Unless a hypothesis is named, a theorem holds for
every value of the constants that the `ASSUME` of the component's module admits:
any finite set of units, workers, clients or processes, any dependency graph and
any bound on the counters. Each inductive invariant was checked by TLC on the
instance of the component's run before it was proved.

**`BuildSchedulerProofs`**: `TypeCorrect`, `DepsFirstHolds`,
`RebuildPropagatesHolds`, `SuccessIsCompleteHolds`, `BoundedWorkHolds`,
`NoLaunchAfterStopHolds`, `Refinement` (`Spec => Topo!TSpec`),
`SuccessIsReusableHolds`, `IndexCurrentHolds` and `ImageSeesItsClosureHolds`. The
types, the bound on workers and the rule that a stopping build launches nothing
are left to the proofs; no run repeats them.
None of the invariants is inductive alone. The counters are plain numbers, so
`DepsFirst` needs `InvIndeg`: while the build runs, `indeg[u]` is the number of
dependencies of `u` in the order that are not done. That in turn needs
`InvStarted` (a goroutine exists only for started units of the order, and a unit
is released once) and finiteness of the sets being counted. `InvLaunched` says
that whatever is ready was started unless the build is stopping, and `InvStop`
that a stop is always backed by an error; together with acyclicity, which
`InvPhase` keeps from planning, they give `DrainedComplete`: when all goroutines
returned and there is no error, a minimal unit that is not done would have been
ready, so there is none. `InvDecision` carries the decision taken under the lock
(`depRebuilt`) to the moment it is used and gives `RebuildPropagates`. `IInv` is
the conjunction. The steps that only move a worker along (`Quiet`) are handled
by one lemma; `Plan`, `Finish` and the returns by one each. `JInv` goes on from
there to what the build leaves: what was planned for reuse stays valid
(`InvReuse`), what was rebuilt is recorded and published (`InvBuilt`), and the flags say
which (`InvFlags`). `KInv` is about the index, whatever it was at the start: what a refresh
has scanned of an image's dependencies stays true, because they are done (`InvScan`), and
from its write on they are `Listed`. `IndexCurrentHolds` and `ImageSeesItsClosureHolds`
assume `OneImage`, one image with work
in the project; the run `build_two_images` shows what two do to each other.

**`StoreProofs`**, the repository: `RepoTypeCorrect`, `RefreshListsAllHolds`,
`CleanExactHolds`, `TouchedIndexSoundHolds`. `RInv` adds what a command has done so
far: content numbers only go up (`CountsUp`), directories already indexed list
what stayed (`RefreshSoFar`), directories already scanned hold only what is kept
(`CleanSoFar`), and a finished command's scan is complete (`Ended`).

**`SourceProofs`**, the tree of a unit: `SourceInvHolds` and `UserWorkIsSafe` without
hypothesis, toggles at any stage of a build included, and `PinBuildHolds` for a unit
without patches (`NoPatch`); that is needed: `src_patch_retry` is the counterexample.
`InvDecision` says that unless it was toggled meanwhile the build will write back the
decision it read, `InvFetching` that a tree about to be replaced is of a unit in pin
mode, `InvRemoved` that nothing is there once it was, `InvPinned` that in pin mode the
tag `yoe/pin` is where HEAD is, so that no tree counts as having commits of the user,
and `InvPrepared` that from the clone on the tree is at the tag the build started with.

**`SourceProofs`**, the caches: `FetchInvHolds` assumes that no `yoe source clean` runs
during a fetch and that the cache holds nothing from before checksums were
declared; `OneHolder` only the former. Both are the restrictions of the run, and
section 4 says what happens without them. The key is the inode: while nobody
removes the lock file, whoever is past `open` on a key has the same file, so
`flock` excludes (`InvMutex`), hence the holder may sweep the other temporary
clones (`InvClone`), and a rename replaces nothing.

**`SerialProofs`**, the socket: `SoleOwnerHolds`, `ClientsHaveOwners`. At most one
process is about to change the path and nobody serves meanwhile (`InvAlone`),
unless two raced; a client is described by the place of its peer (`InvClient`).

**`SerialProofs`**, the session: `SessionInvHolds`. What a client has got, what its
goroutine holds and what its channel holds are followed as one sequence (`Seen`)
which only the fan-out extends; past its wait `Close` is alone (`InvQuiet`) and
each goroutine had released what it held (`InvPort`, `InvGone`, `InvConns`).

**`TuiSessionProofs`**: `HandlesAreLiveHolds`, `RowsInvHolds`, `QuitCancelsHolds`.
A build's goroutine moves through `JobMoves`, whatever it reports; `InvRows` gives
every row at "building" a build that is at work on it, and `InvScreen` ties each
dialog to what waits for its answer. For the Setup pages: `ForwardsSoundHolds` without
hypothesis, although commands write `local.star` at any time, and `SettingsInvHolds`
when none runs while the interface saves (`~Overlap`, as in the run; section 4 has
what an overlap loses). `InvForwards` says that every list of overrides, in the file,
on the screen and in a command, has one forward of a guest port, that the list on the
screen has a forward exactly if the user asked for it, and that the row being edited
is there. What an edit does then follows from the operations it is made of: `DropSound`,
`SetSound` and `EffectiveSound` say which forwards a list has after each. `InvSaved`
adds to the two properties that a command has what the file has; this is what an
overlap breaks. `SetupAssumption` has what a machine must be for the list to make sense:
one forward of a guest port.

**`DeviceProofs`**, for the three modules about devices. Boot test: `BootTestSound` and
`BootInvHolds` without hypothesis, also for runs that share the host port for ssh: of
the guests that are up no two have a host port (`InvGuests`), so whoever answers is the
guest of the run while that lives (`SshPortBound`); `BootsWholeCopyHolds` when one run
grows the image (`OneGrower`), and `LaunchSoundHolds` when moreover the machine declares
one forward of a guest port: with two, `MergeQEMUPorts` replaces the first and the
second still collides. `PortsExpected` is the reason: what is bound is what survives the
merge. Deploy: `DeployInstallsHolds`; the invariant says how far the script is
(`Behind`) and that past the update the device knows what was built; `FeedInvHolds`, for
the repositories file, which every command of a script changes a little: `InvFile` says
which of the four commands that rewrite a block are behind, and that every block is
whole but the one being written. `StripFile` is what `sed` does to such a file: a line
of the user is never inside a block that is whole, and a block of another name stays in
one piece. A connection lost between the markers sets `cut`, which the invariant allows
for. Flash: `WritesAloneHolds` and `FlashedWholeHolds` without hypothesis,
`MarkedNeverWritten` when no stick is swapped while the view is open (`~SwapWhileOpen`,
as in the run): with a swap the view's list is out of date and the mark is looked up by
the old stick's key; and `FlashSafeHolds`, all of `FlashSafe`, when moreover the disks
are at the bottom of the graph of devices (`DisksAtBottom`). The last hypothesis is
needed for `NeverOffersSystem`: `underlyingDevices` follows the slaves of a mapped
device and then takes the disk of a partition, but does not look below that disk, so a
mount on a partition of an md array does not protect the array's members in
`ListCandidates`; `WritesAlone` still does at the write. With it, `BelowIsSystem`
compares two fixed points: the devices whose bottoms are all of a system disk include
the critical mounts and are closed under "rests on", so they include the least set that
is, `Below`. Neither needs the graph to be free of cycles (`StackUnfolds`,
`BelowLeast`). `InvBytes` is why the counts stay within the image and one sector: until
its last round a writer has put out exactly what it has read, since a full buffer is
whole sectors (`AlignUpBounds`).

**`StoreProofs`**, the build cache: `DoneIsFreshHolds` and `OrderInvHolds`, for every
project and every sequence of edits, partial runs, failures, kills and lost packages.
The lemmas about the graph come first. `ReachSound` and `RuntimeSound`: the closures of
`TransitiveDeps` and `appendRuntimeClosureOfDeps` stop at a fixed point, because each
round that is not one adds a unit and there are only so many. `SortSound`: what Kahn's
algorithm has sorted is a topological order, and it stops only when nothing that is left
is ready. `HashRecord` and `FreshRecord` give what the two passes over that order, the
hashes and a build from scratch, make of each unit. They meet in `SameHashSameArtifact`:
two sets of definitions that give a unit the same hash give it the same artifact, by the
least position in the order where they would not; this is where the edges must be
declared dependencies and the definitions read as a whole (`HashCovers`); `AlwaysFresh`,
without that condition, fails (section 4). `DoneIsFresh` is not inductive: a unit served
from the cache was built by a run long past. `InvRecord` bridges it: a complete
`build.json` always names, by its hash, some definitions from which a build from scratch
would make what lies in the directory. With it, reuse is fresh by
`SameHashSameArtifact`, and a rebuild is fresh because a run has dealt with everything
below a unit before its turn (`InvRun`). `OrderInvHolds` assumes that provided names
lead to units (`ProvidersAreUnits`) and that a container's provider is not itself
provided by another unit (`ContainersSettled`). The second came out of the proof:
`appendContainerDeps` adds a container that is already resolved, and `resolveDeps`
resolves it once more, so behind a chain of two providers the edge leads to the second
unit while the executor, which resolves once (`ResolveContainer`), runs in the first. A
provider tagged for the distro resolves to itself; only an untagged provider whose name
a tagged unit provides in turn makes such a chain. The instances of the run have none
(section 4).

**`Induction`**. The prover's induction theorems take an operator and cannot be
applied, but induction can be done with sets: every non-empty set of numbers has a
least member (`LeastExists`), so a set that holds 0 and with each `n < N` also `n + 1`
holds `0..N` (`StepByStep`), and a recursive function over `0..N` exists and has the
values its equation gives (`Recursion`). The models write their loops as such
functions, not as RECURSIVE operators. `DeviceProofs` uses it for the loop of
`ListCandidates` (`SelectableDisks`). `KeepAtPicks` says what a filter by position
(`KeepAt` of module `Positions`) leaves of a sequence: the elements at these positions,
all of them and in order. `MergeSound` says what `MergeQEMUPorts` leaves: of a guest
port the last forward that was given for it, else the machine's.

**`ProjectProofs`**, the modules: `UserWorkKeptHolds` and `SyncRepairsHolds` without
hypothesis, `SyncInvHolds` for fewer modules than `MaxRounds` and for modules whose
files give them the name the project uses. For the clones, `InvClones` says what could
make a reset lose work: edits and commits of the user are only in clones in dev mode, a
clone in dev mode has an anchor, and the anchor is never a commit of the user. From it,
whatever `moduleState` calls clean is clean (`StatesSeen`), and every action on a clone
keeps what is there (`CloneStep`). `InvRepaired` follows a sync over the modules it has
handled, which needs that no two modules of a project share a directory. For the walk,
`WalkList` says that the list has each module once and one of a name, and `WalkGraph`
that a module that was read has its edges in the graph and its dependencies in the list
or about to be looked at, while an edge already recorded stays true when more is cloned
(`DepsGrow`). The bound on rounds is met by counting: every round but the first has
added a module (`WalkRound`). The code does not report that the bound was reached, so
with as many modules in a chain as rounds the list may be incomplete: hence the
hypothesis. For the search, `InvSearch` says that consecutive modules of the stack are
edges, that the modules done with are closed under dependencies, and that no set of them
supports itself; a module met again on the stack gives a set that does (`StackCycle`),
and one whose dependencies are done adds none (`GroundedGrows`). The second hypothesis
is about `depGraph`: it has modules under `module_info(name)` and dependencies under the
base name of their URL, and a cycle through a module with two names is not found.

**`ProjectProofs`**, the evaluation: `LoadInvHolds`, `NoTiesHolds`, `CatalogInvHolds` and
`ClosureInvHolds`, for any modules, feeds, machines, pins and files. `NoTies` needs no
hypothesis: `registerUnit` refuses a second unit of one priority, whatever the project.
`CatalogInv` needs a project that is `WellFormed`, which says what the code leaves to the
authors of modules: a loaded file and one of `classes/` define no unit, since it would be
registered for the module of the file that loaded it first; `images/` has only images; and
an image's name is only an image's, which provides nothing and is in no feed, since a flat
entry shadowed by a unit of another class can leave an image without the closure its name
promises. Load cycles, names that a module defines twice and images the machine cannot
boot are not excluded. The invariant `LoadInv` has `InvShape`, the types; `InvWalk`, what a
walk is of; `InvStack`, that the files being run are a chain of loads and every reserved
entry of the cache is one of them, hence only a load cycle meets one (`NoNilEntry`); and
`InvBoot`, that closures are only walked for distros the machine boots; these hold for
every project. For the well-formed ones it has `InvFiles`: `InvTodo` and
`InvServed`, that each file that was evaluated has left its unit, or one that
outranks it and that its distro sees, and that each unit of the catalog comes from such a
file; `InvProvides`, that the claims of the names dealt with are settled, so a later claim
only ever raises the provider. `TaggedNeverLost` and `ImageChoice` follow when every file
has been evaluated, because `BuildViews` picks the highest variant.

`ClosureInv` has another invariant, `InvClosed`: the graph of a walk is complete up to
its queue (`WalkClosed`), hence complete when the queue is empty. `TopoSound` is what
`topoOrder` does with any graph: it lists every name once, the names of its waves come
after what they need, and of those left each needs another that is left. In a complete
graph the latter have a cycle behind them (`CycleBehind`), which gives `TopoInOrder`.
`InvMet` says that views are built only when no pass has anything left to materialise,
and `ClosureFollows` makes of it that a view has whatever a feed offers of what its
units depend on. Both assume `Unchained`: no provider's name, and no kernel's, is itself
a virtual name that another unit provides. The hypothesis came out of the proof.
`closure` puts the names it resolved on its queue and resolves them again when their
turn comes: of a name `v` that `p` provides, and `p` that `q` provides, it records an
edge to `p`, visits `q`, and `topoOrder` ignores the edge since `p` is not in the
closure, so `q` may come after what needs `v` (section 4). It is the chain that
`ContainersSettled` excludes for the build graph. The instances of the run have none.

Model-checked only:

- liveness: `Returns`, `CloseReturns`, `FetchEnds`, `TestEnds`;
- `ViewKeepsClosures` (section 7);
- `TableSound`, `PageSound`: arithmetic over lists that queries select.

## 6. What is not modelled

Package formats, signatures, text formats and drawing are functions from bytes
to bytes without control of their own. Initialisation, skills and self-update
are short sequential paths. Starlark, git, docker, the kernel's file system and
QEMU are external; where they appear (a clone, a rename, an unplugged adapter)
they are actions of the environment or single steps. Of the feeds, the lookup
and materialisation of packages are in `ProjectLoad`; updating the checked-in
indexes, verifying them and comparing versions are not. The Debian repository's
four files, rewritten one after the other, follow the pattern of
`RefreshTruncate` and `RefreshFill` and have no model of their own. Line subscribers,
client input and the escape stripping of a console's log are left out, and so are the
chords of an interactive console. Inside modelled parts: a unit's tree is read
once per run in `UnitCache`; staging a sysroot always succeeds; `build.json` is
written in one step. Of the terminal interface, the watcher's own loop, the
Modules and Diagnostics tabs and the serial tab are left out; they touch neither
builds nor the settings.

## 7. Plan

1. A proof of `ViewKeepsClosures`: that a lookup during a walk and the view give one
   unit needs the order of the files' modules in `Order` and what no closure took.
2. A session inside each owner of a console, with the adapter's exclusive open
   between them.
3. `DebRepo`, refining the same abstract repository as `PackageRepo` ("an index
   lists what is published").
4. The watcher's loop with arming and disarming, and the serial tab after a change
   of machine.
