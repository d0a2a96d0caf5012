----------------------------- MODULE ProjectLoad -----------------------------
(***************************************************************************)
(* Loading a project (internal/starlark): the .star files of the project   *)
(* root and of its modules are evaluated phase by phase, each unit() is     *)
(* registered in a flat and in a per-module catalog, the virtual names are  *)
(* collected, every image() resolves its runtime closure against what is    *)
(* registered so far and materialises packages of the feeds on the way,     *)
(* the remaining dependencies are materialised to a fixpoint, and the       *)
(* catalog is frozen into one view per distro.                              *)
(*                                                                          *)
(* Loading is sequential; what varies is the project, and the order in      *)
(* which Go ranges over its maps.  A module is known by its priority:       *)
(* 1 .. N as declared, N + 1 the project root; feed i is module -i.         *)
(***************************************************************************)
EXTENDS Integers, FiniteSets, FiniteSetsExt, Sequences, SequencesExt, Positions

CONSTANTS
    NameOrder,      \* unit and virtual names, in string order
    Distros,
    N,              \* declared modules
    Feeds,          \* synthetic modules in registration order: [distro, offers]
    Projects        \* the projects to load, with the options of the load: [files, pins,
                    \* machines, machine, image, distro, allowDuplicates, local, opts]

NoName == ""
Blank == "(empty)"      \* a virtual name whose entry in ctx.provides is the empty string
Names == Range(NameOrder)
NoUnit == [name |-> NoName]
DistroTags == Distros \union {NoName}
Classes == {"unit", "container", "image", "feed"}
Dirs == {"containers", "units", "images", "classes"}

(* Units: the module and its priority are set when one is registered.       *)
Units(mods, idxs) ==
    [name : Names, distro : DistroTags, class : Classes, tasks : BOOLEAN, container : BOOLEAN,
     mod : mods, idx : idxs, deps : Seq(Names), distroDeps : [Distros -> Seq(Names)],
     rdeps : Seq(Names), distroRdeps : [Distros -> Seq(Names)], provides : SUBSET Names]

IsProject(p) ==
    /\ p.files \in Seq([mod : 1 .. N + 1, dir : Dirs, loads : Seq(Nat), unit : Units({0}, {0}) \union {NoUnit}])
    /\ \A f \in DOMAIN p.files : Range(p.files[f].loads) \subseteq DOMAIN p.files
    /\ p.pins \in [Distros -> [Names -> Int]]
    /\ \A m \in DOMAIN p.machines :
          LET kernel == p.machines[m]
          IN  /\ {kernel.provides, kernel.unit} \subseteq Names \union {NoName}
              /\ kernel.distroUnit \in UNION {[S -> Names] : S \in SUBSET Distros}
              /\ kernel.unit = NoName \/ DOMAIN kernel.distroUnit = {}
    /\ {p.distro, p.local.distro, p.opts.distro} \subseteq DistroTags

ASSUME LoadAssumption ==
    /\ N \in Nat /\ NameOrder \in Seq(STRING \ {NoName, Blank}) /\ NameOrder # <<>> /\ NoName \notin Distros
    /\ \A i, j \in DOMAIN NameOrder : NameOrder[i] = NameOrder[j] => i = j
    /\ DOMAIN Feeds = 1 .. Len(Feeds) /\ Len(Feeds) \in Nat
    /\ \A i \in DOMAIN Feeds :
          /\ Feeds[i].distro \in Distros /\ DOMAIN Feeds[i].offers \subseteq Names
          /\ \A n \in DOMAIN Feeds[i].offers : Feeds[i].offers[n] \in Seq(Names)

ASSUME ProjectsAssumption == \A p \in Projects : IsProject(p)

VARIABLES
    proj,           \* the project being loaded
    defaults,       \* its machine, image and distro once overrides are applied
    phase,          \* where LoadProjectFromRoot is
    todo,           \* files, or names, the phase has still to go through
    stack, cache,   \* files being executed, outermost first; the load cache
    eng,            \* the engine's catalogs: flat by name, cat per module
    provides,       \* ctx.provides and its mirror proj.Provides
    walk,           \* the closure walk of the image being evaluated
    closures,       \* the walks that ended: what each image was resolved to
    view,           \* DistroViews
    why             \* what a failed load reports

loadVars == <<proj, defaults, phase, todo, stack, cache, eng, provides, walk, closures, view, why>>

NoWalk == [distro |-> NoName]
Sorted(S) == KeepAt(NameOrder, {i \in DOMAIN NameOrder : NameOrder[i] \in S})

(* proj.UnitsByModule is nil until the image phase is over. *)
Attached == phase \in {"fixpoint", "views", "loaded"}

(* evalDir, and evalPhase: the project root first, then the modules. *)
DirFiles(m, dir) ==
    KeepAt([f \in DOMAIN proj.files |-> f],
           {f \in DOMAIN proj.files : proj.files[f].mod = m /\ proj.files[f].dir = dir})
Order(dir) ==
    LET upto[m \in 0 .. N] == IF m = 0 THEN DirFiles(N + 1, dir) ELSE upto[m - 1] \o DirFiles(m, dir)
    IN  upto[N]

LoadInit ==
    /\ proj \in Projects
    /\ defaults = [machine |-> proj.machine, image |-> proj.image, distro |-> proj.distro]
    /\ phase = "project" /\ todo = <<>> /\ stack = <<>>
    /\ cache = [f \in DOMAIN proj.files |-> "none"]
    /\ eng = [flat |-> [n \in Names |-> NoUnit], cat |-> {}]
    /\ provides = [n \in Names |-> NoName]
    /\ walk = NoWalk /\ closures = {}
    /\ view = [d \in Distros |-> [n \in Names |-> NoUnit]]
    /\ why = <<>>

Fail(reason) ==
    /\ phase' = "failed" /\ why' = reason
    /\ UNCHANGED <<proj, defaults, todo, stack, cache, eng, provides, walk, closures, view>>

Override(first, second) == IF first # NoName THEN first ELSE second

(* local.star overrides the project's distro, and --distro both. *)
ApplyLocal ==
    /\ phase = "project"
    /\ defaults' = [defaults EXCEPT !.distro = Override(proj.opts.distro, Override(proj.local.distro, @))]
    /\ phase' = "machines"
    /\ UNCHANGED <<proj, todo, stack, cache, eng, provides, walk, closures, view, why>>

(* The machine of the load, and its kernel: one unit, or one per distro.    *)
Machine == Override(proj.opts.machine, proj.machine)
Kernel == IF Machine \in DOMAIN proj.machines THEN proj.machines[Machine]
          ELSE [provides |-> NoName, unit |-> NoName, distroUnit |-> <<>>]

(* The distros the machine's kernel has a unit for.                         *)
Bootable(d) == DOMAIN Kernel.distroUnit = {} \/ d \in DOMAIN Kernel.distroUnit

Machines ==
    /\ phase = "machines"
    /\ IF proj.opts.machine # NoName /\ proj.opts.machine \notin DOMAIN proj.machines
       THEN Fail(<<"machine">>)
       ELSE /\ defaults' = [defaults EXCEPT !.machine = Machine]
            /\ phase' = IF proj.opts.machinesOnly THEN "machinesOnly" ELSE "preflight"
            /\ provides' = [n \in Names |-> IF n # Kernel.provides THEN NoName
                                           ELSE IF Kernel.unit = NoName THEN Blank ELSE Kernel.unit]
            /\ UNCHANGED <<proj, todo, stack, cache, eng, walk, closures, view, why>>

(* preflightPreferModules: every pin names a module or a feed. *)
PinsKnown ==
    \A d \in Distros, n \in Names :
        proj.pins[d][n] \in {0} \union (1 .. N) \union {-i : i \in DOMAIN Feeds}

Preflight ==
    /\ phase = "preflight"
    /\ IF ~PinsKnown THEN Fail(<<"pin">>)
       ELSE /\ phase' = "units"
            /\ todo' = Order("containers") \o Order("units")
            /\ UNCHANGED <<proj, defaults, stack, cache, eng, provides, walk, closures, view, why>>

-----------------------------------------------------------------------------
(* Evaluating files. *)

(* ExecFile runs a file whatever the cache says of it. *)
ExecFile ==
    /\ phase \in {"units", "images"} /\ stack = <<>> /\ todo # <<>>
    /\ stack' = <<[file |-> Head(todo), at |-> 1]>>
    /\ todo' = Tail(todo)
    /\ UNCHANGED <<proj, defaults, phase, cache, eng, provides, walk, closures, view, why>>

Top == Last(stack)
File == proj.files[Top.file]
AtLoad == stack # <<>> /\ Top.at <= Len(File.loads)
AtBody == stack # <<>> /\ Top.at > Len(File.loads) /\ walk = NoWalk /\ phase \in {"units", "images"}

(* load(): a cached file is not run again; a new one is reserved and run; a *)
(* reserved one is the nil result that is dereferenced.                     *)
Load ==
    /\ phase \in {"units", "images"} /\ AtLoad
    /\ LET f == File.loads[Top.at]
       IN  \/ /\ cache[f] = "done"
              /\ stack' = [stack EXCEPT ![Len(stack)].at = @ + 1]
              /\ UNCHANGED <<cache, phase>>
           \/ /\ cache[f] = "none"
              /\ cache' = [cache EXCEPT ![f] = "reserved"]
              /\ stack' = Append(stack, [file |-> f, at |-> 1])
              /\ UNCHANGED phase
           \/ /\ cache[f] = "reserved"
              /\ phase' = "panic"
              /\ UNCHANGED <<stack, cache>>
    /\ UNCHANGED <<proj, defaults, todo, eng, provides, walk, closures, view, why>>

\* Mutant: only ExecFile fills the cache, the reserved entry stays.
ReturnUncached ==
    /\ cache' = [cache EXCEPT ![Top.file] = IF Len(stack) = 1 THEN "done" ELSE @]
    /\ stack' = IF Len(stack) = 1 THEN <<>>
                ELSE [Front(stack) EXCEPT ![Len(stack) - 1].at = @ + 1]

(* The file ends: its globals are cached. *)
Return ==
    /\ cache' = [cache EXCEPT ![Top.file] = "done"]
    /\ stack' = Front(stack)

(* Registrations belong to the module whose directory is being evaluated.   *)
Owned(u) == [u EXCEPT !.mod = proj.files[stack[1].file].mod, !.idx = proj.files[stack[1].file].mod]

(* storeByModule *)
Stored(e, u) ==
    [e EXCEPT !.cat = {w \in @ : w.mod # u.mod \/ w.name # u.name} \union {u}]

\* Mutant: units of different distros shadow each other.
NeverCross(u, w) == FALSE

CrossDistro(u, w) == u.distro # NoName /\ w.distro # NoName /\ u.distro # w.distro

\* Mutant: names are listed alphabetically.
AlphabeticalOrder(deps) == Sorted(DOMAIN deps)

(* topoOrder: waves of names whose dependencies are out, then the cycles. *)
NextWave(deps, b) ==
    LET ready == {n \in DOMAIN deps \ b.out : (deps[n] \cap DOMAIN deps) \ {n} \subseteq b.out}
    IN  [out |-> b.out \union ready, order |-> b.order \o Sorted(ready)]
TopoOrder(deps) ==
    LET wave[k \in 0 .. Cardinality(DOMAIN deps)] ==
            IF k = 0 THEN [out |-> {}, order |-> <<>>] ELSE NextWave(deps, wave[k - 1])
        end == wave[Cardinality(DOMAIN deps)]
    IN  end.order \o Sorted(DOMAIN deps \ end.out)

(* registerUnit, which ends the file: a second definition of the same       *)
(* priority is an error, a lower one is dropped from both catalogs.         *)
Register(u) ==
    LET old == eng.flat[u.name]
        meets == old # NoUnit /\ ~CrossDistro(u, old)
    IN  \/ /\ meets /\ u.idx = old.idx
           /\ Fail(<<"duplicate", u.name>>)
        \/ /\ \/ meets /\ u.idx < old.idx /\ UNCHANGED eng
              \/ /\ meets => u.idx > old.idx
                 /\ eng' = Stored([eng EXCEPT !.flat[u.name] = IF old # NoUnit /\ ~meets THEN @ ELSE u], u)
           /\ Return
           /\ walk' = NoWalk
           /\ closures' = IF walk = NoWalk THEN closures ELSE closures \union {[walk EXCEPT !.order = TopoOrder(walk.deps)]}
           /\ UNCHANGED <<proj, defaults, phase, todo, provides, view, why>>

(* A unit file; a class file registers nothing. *)
Unit == AtBody /\ File.unit # NoUnit /\ File.unit.class # "image" /\ Register(Owned(File.unit))

Class ==
    /\ AtBody /\ File.unit = NoUnit
    /\ Return
    /\ UNCHANGED <<proj, defaults, phase, todo, eng, provides, walk, closures, view, why>>

(* The units are in: their virtual names are next. *)
UnitsDone ==
    /\ phase = "units" /\ stack = <<>> /\ todo = <<>>
    /\ phase' = "provides"
    /\ todo' = Sorted({n \in Names : eng.flat[n] # NoUnit})
    /\ UNCHANGED <<proj, defaults, stack, cache, eng, provides, walk, closures, view, why>>

Claimed(v) == eng.flat[provides[v]]
Unclaimed(v) == provides[v] \notin Names \/ eng.flat[provides[v]] = NoUnit

\* Mutant: the last claimant in name order wins.
LastTakes(u, v) == TRUE

(* u becomes the provider of v. *)
Takes(u, v) ==
    \/ provides[v] = NoName
    \/ ~Unclaimed(v) /\ ~CrossDistro(u, Claimed(v)) /\ u.idx > Claimed(v).idx

Clashes(u, v) ==
    /\ provides[v] # NoName
    /\ Unclaimed(v) \/ (~CrossDistro(u, Claimed(v)) /\ u.idx = Claimed(v).idx)

(* The next unit, in name order, claims its virtual names. *)
Provide ==
    /\ phase = "provides" /\ todo # <<>>
    /\ LET u == eng.flat[Head(todo)]
       IN  IF ~proj.allowDuplicates /\ \E v \in u.provides : Clashes(u, v)
           THEN Fail(<<"provides", u.name>>)
           ELSE /\ provides' = [v \in Names |-> IF v \in u.provides /\ Takes(u, v) THEN u.name ELSE provides[v]]
                /\ todo' = Tail(todo)
                /\ UNCHANGED <<proj, defaults, phase, stack, cache, eng, walk, closures, view, why>>

ProvidesDone ==
    /\ phase = "provides" /\ todo = <<>>
    /\ phase' = "images" /\ todo' = Order("images")
    /\ UNCHANGED <<proj, defaults, stack, cache, eng, provides, walk, closures, view, why>>

-----------------------------------------------------------------------------
(* Resolving a name for a distro. *)

VisibleTo(u, d) == u.distro = NoName \/ u.distro = d
Highest(S) == {u \in S : \A w \in S : w.idx <= u.idx}
Variants(e, n, d) == {u \in e.cat : u.name = n /\ VisibleTo(u, d)}

(* findVisibleByName, and resolveForDistro without a pin. *)
FindVisible(e, n, d) ==
    IF Variants(e, n, d) = {} THEN NoUnit ELSE CHOOSE u \in Highest(Variants(e, n, d)) : TRUE

\* Mutant: feeds are numbered from 1, as modules are.
FeedAsModule(i, n) ==
    [name |-> n, distro |-> Feeds[i].distro, class |-> "feed", tasks |-> FALSE, container |-> FALSE, mod |-> -i, idx |-> i,
     deps |-> <<>>, distroDeps |-> [d \in Distros |-> <<>>],
     rdeps |-> Feeds[i].offers[n], distroRdeps |-> [d \in Distros |-> <<>>], provides |-> {}]

(* sm.Lookup; priorities are assigned after the image phase. *)
FeedUnit(i, n) ==
    [name |-> n, distro |-> Feeds[i].distro, class |-> "feed", tasks |-> FALSE, container |-> FALSE, mod |-> -i,
     idx |-> IF Attached THEN 1 - i ELSE 0,
     deps |-> <<>>, distroDeps |-> [d \in Distros |-> <<>>],
     rdeps |-> Feeds[i].offers[n], distroRdeps |-> [d \in Distros |-> <<>>], provides |-> {}]

Offering(n, d) == {i \in DOMAIN Feeds : n \in DOMAIN Feeds[i].offers /\ Feeds[i].distro = d}

DepsFor(u, d) == u.deps \o u.distroDeps[d]
RuntimeDepsFor(u, d) == u.rdeps \o u.distroRdeps[d]

(* lookupInModule: a pin names a feed or a module. *)
InModule(e, n, m, d) ==
    IF m < 0 THEN IF -m \in Offering(n, d) THEN FeedUnit(-m, n) ELSE NoUnit
    ELSE IF \E u \in Variants(e, n, d) : u.mod = m
         THEN CHOOSE u \in Variants(e, n, d) : u.mod = m ELSE NoUnit

\* Mutant: the pin is not looked at.
LookupUnpinned(e, n, d) ==
    LET offering == Offering(n, d)
        fresh == FeedUnit(Min(offering), n)
    IN  CASE e.flat[n] # NoUnit /\ VisibleTo(e.flat[n], d) -> [unit |-> e.flat[n], eng |-> e]
          [] e.flat[n] # NoUnit /\ ~VisibleTo(e.flat[n], d) /\ Variants(e, n, d) # {} ->
                [unit |-> FindVisible(e, n, d), eng |-> e]
          [] (e.flat[n] = NoUnit \/ Variants(e, n, d) = {}) /\ offering # {} ->
                [unit |-> fresh, eng |-> Stored([e EXCEPT !.flat[n] = IF @ = NoUnit THEN fresh ELSE @], fresh)]
          [] OTHER -> [unit |-> NoUnit, eng |-> e]

(* lookupOrMaterialize, once the provider is resolved: the pin, the flat    *)
(* catalog, another variant, the first feed that offers it.                 *)
Lookup(e, n, d) ==
    LET pin == proj.pins[d][n]
        pinned == IF pin = 0 THEN NoUnit ELSE InModule(e, n, pin, d)
        offering == Offering(n, d)
        fresh == FeedUnit(Min(offering), n)
    IN  CASE pinned # NoUnit -> [unit |-> pinned, eng |-> IF pin < 0 THEN Stored(e, pinned) ELSE e]
          [] pinned = NoUnit /\ e.flat[n] # NoUnit /\ VisibleTo(e.flat[n], d) -> [unit |-> e.flat[n], eng |-> e]
          [] pinned = NoUnit /\ e.flat[n] # NoUnit /\ ~VisibleTo(e.flat[n], d) /\ Variants(e, n, d) # {} ->
                [unit |-> FindVisible(e, n, d), eng |-> e]
          [] pinned = NoUnit /\ (e.flat[n] = NoUnit \/ Variants(e, n, d) = {}) /\ offering # {} ->
                [unit |-> fresh, eng |-> Stored([e EXCEPT !.flat[n] = IF @ = NoUnit THEN fresh ELSE @], fresh)]
          [] OTHER -> [unit |-> NoUnit, eng |-> e]

(* The global provides table; an empty entry says nothing. *)
Mapped(n) == IF provides[n] \in Names THEN provides[n] ELSE n

(* resolveProvidesForDistro: before the catalog is attached only the global *)
(* table answers; after, AnyUnit and the scan depend on the map order.      *)
Providers(e, n, d) ==
    LET any == Highest({u \in e.cat : u.name = n})
        tagged == {u \in e.cat : u.distro = d /\ n \in u.provides}
        scanned == IF tagged # {} THEN {u.name : u \in tagged} ELSE {Mapped(n)}
    IN  IF ~Attached THEN {Mapped(n)}
        ELSE (IF \E u \in any : u.distro = d THEN {n} ELSE {})
             \union (IF any = {} \/ \E u \in any : u.distro # d THEN scanned ELSE {})

-----------------------------------------------------------------------------
(* Images. *)

(* resolve_closure(roots, distro) *)
StartWalk(image, d, roots) ==
    walk' = [distro |-> d, image |-> image, queue |-> roots, deps |-> <<>>, took |-> {}, order |-> <<>>]

(* What image() registers: the artifacts are those of its distro.           *)
Resolved(u, d, artifacts) ==
    [u EXCEPT !.distro = d, !.rdeps = artifacts, !.distroRdeps = [x \in Distros |-> <<>>]]
Inert(u, d) == [Resolved(u, d, <<>>) EXCEPT !.deps = <<>>, !.tasks = FALSE, !.container = FALSE]

(* An artifact as the image lists it: the machine's kernel for the distro,  *)
(* or what ctx.provides has.                                                *)
Explicit(a, d) ==
    IF a = Kernel.provides /\ d \in DOMAIN Kernel.distroUnit THEN Kernel.distroUnit[d]
    ELSE IF provides[a] # NoName THEN provides[a] ELSE a

(* image(): its distro, or the project's.                                   *)
AtImage == phase = "images" /\ AtBody /\ File.unit # NoUnit /\ File.unit.class = "image"
ImageDistro == Override(File.unit.distro, defaults.distro)

(* An image of a distro the machine has no kernel for is not resolved.      *)
RegisterInert ==
    /\ AtImage /\ ImageDistro # NoName /\ ~Bootable(ImageDistro)
    /\ Register(Owned(Inert(File.unit, ImageDistro)))

Image ==
    /\ AtImage
    /\ LET d == ImageDistro
           artifacts == RuntimeDepsFor(File.unit, d)
           roots == [i \in DOMAIN artifacts |-> Explicit(artifacts[i], d)]
       IN  \/ /\ d = NoName \/ Machine \notin DOMAIN proj.machines
              /\ Fail(<<"image", File.unit.name>>)
           \/ /\ d # NoName /\ Machine \in DOMAIN proj.machines /\ Bootable(d)
              /\ IF \E i \in DOMAIN roots : roots[i] = Blank THEN Fail(<<"unresolved", NoName, d>>)
                 ELSE /\ StartWalk(File.unit.name, d, roots)
                      /\ UNCHANGED <<proj, defaults, phase, todo, stack, cache, eng, provides, closures, view, why>>

(* A name is resolved and looked up, and the next, until one is missing.    *)
ResolveNext(acc, n, d) ==
    LET next == Lookup(acc.eng, Mapped(n), d)
    IN  IF acc.missing # NoName THEN acc
        ELSE IF next.unit = NoUnit THEN [acc EXCEPT !.missing = n]
        ELSE [acc EXCEPT !.eng = next.eng, !.units = Append(@, next.unit)]
ResolveAll(e, names, d) ==
    LET acc[i \in 0 .. Len(names)] ==
            IF i = 0 THEN [eng |-> e, units |-> <<>>, missing |-> NoName] ELSE ResolveNext(acc[i - 1], names[i], d)
    IN  acc[Len(names)]

(* closure takes the next name and resolves the names it depends on. *)
WalkStep ==
    /\ phase = "images" /\ walk # NoWalk /\ walk.queue # <<>>
    /\ LET d == walk.distro
           found == Lookup(eng, Mapped(Head(walk.queue)), d)
           u == found.unit
           all == ResolveAll(found.eng, RuntimeDepsFor(u, d), d)
           names == [i \in DOMAIN all.units |-> all.units[i].name]
       IN  IF u = NoUnit THEN Fail(<<"unresolved", Head(walk.queue), d>>)
           ELSE IF u.name \in DOMAIN walk.deps
           THEN /\ walk' = [walk EXCEPT !.queue = Tail(@)] /\ eng' = found.eng
                /\ UNCHANGED <<proj, defaults, phase, todo, stack, cache, provides, closures, view, why>>
           ELSE IF all.missing # NoName THEN Fail(<<"unresolved", all.missing, d>>)
           ELSE /\ walk' = [walk EXCEPT !.queue = Tail(@) \o names,
                                        !.deps = [n \in DOMAIN @ \union {u.name} |->
                                                     IF n = u.name THEN Range(names) ELSE @[n]],
                                        !.took = @ \union {u} \union Range(all.units)]
                /\ eng' = all.eng
                /\ UNCHANGED <<proj, defaults, phase, todo, stack, cache, provides, closures, view, why>>

(* The closure is the image's artifact list, and the image registers itself. *)
ImageDone ==
    /\ phase = "images" /\ walk # NoWalk /\ walk.queue = <<>>
    /\ Register(Owned(Resolved(File.unit, walk.distro, TopoOrder(walk.deps))))

(* A unit with tasks needs a container; the catalog is attached. *)
ImagesDone ==
    /\ phase = "images" /\ stack = <<>> /\ todo = <<>>
    /\ IF \E u \in eng.cat : u.class # "container" /\ u.tasks /\ ~u.container
       THEN Fail(<<"container">>)
       ELSE /\ phase' = "fixpoint"
            /\ UNCHANGED <<proj, defaults, todo, stack, cache, eng, provides, walk, closures, view, why>>

-----------------------------------------------------------------------------
(* What images did not reach, and the views. *)

Targets == ({proj.distro, defaults.distro} \ {NoName}) \union {u.distro : u \in {w \in eng.cat : w.class = "image"}}

(* Edges the fixpoint would still materialise: it goes over the names of    *)
(* the flat catalog and takes the variant each distro sees.                 *)
Unmet ==
    UNION {LET u == FindVisible(eng, n, d)
               deps == IF u = NoUnit THEN {} ELSE Range(DepsFor(u, d) \o RuntimeDepsFor(u, d))
               wanted == UNION {Providers(eng, dep, d) : dep \in deps}
           IN  {[d |-> d, r |-> r] : r \in {m \in wanted : FindVisible(eng, m, d) = NoUnit}} :
           d \in Targets, n \in {m \in Names : eng.flat[m] # NoUnit}}

Resolvable(x) == {r \in Providers(eng, x.r, x.d) : Lookup(eng, r, x.d).unit # NoUnit}
Pending == {x \in Unmet : Resolvable(x) # {}}

\* Mutant: one pass over the catalog as the images left it.
OnePass ==
    /\ phase = "fixpoint"
    /\ LET one(e, x) == Lookup(e, x.r, x.d).eng
       IN  eng' = FoldLeft(one, eng, SetToSeq(Pending))
    /\ phase' = "views"
    /\ UNCHANGED <<proj, defaults, todo, stack, cache, provides, walk, closures, view, why>>

Materialize ==
    /\ phase = "fixpoint"
    /\ \/ \E x \in Pending : \E r \in Resolvable(x) :
            eng' = Lookup(eng, r, x.d).eng /\ UNCHANGED phase
       \/ Pending = {} /\ phase' = "views" /\ UNCHANGED eng
    /\ UNCHANGED <<proj, defaults, todo, stack, cache, provides, walk, closures, view, why>>

\* Mutant: the flat catalog's unit, if the distro can see it.
ResolveFlat(d, n) == IF eng.flat[n] # NoUnit /\ VisibleTo(eng.flat[n], d) THEN eng.flat[n] ELSE NoUnit

(* resolveForDistro: the pinned module if it has a visible unit, else the   *)
(* highest priority.                                                        *)
ResolveForDistro(d, n) ==
    LET pinned == {u \in Variants(eng, n, d) : u.mod = proj.pins[d][n]}
    IN  IF pinned # {} THEN CHOOSE u \in pinned : TRUE ELSE FindVisible(eng, n, d)

AnyUnit(n) == Highest({u \in eng.cat : u.name = n})

(* The views; local.star's image counts if a unit has the name. *)
BuildViews ==
    /\ phase = "views"
    /\ view' = [d \in Distros |-> [n \in Names |-> ResolveForDistro(d, n)]]
    /\ defaults' = [defaults EXCEPT !.image =
                        IF proj.local.image \in Names /\ AnyUnit(proj.local.image) # {} THEN proj.local.image ELSE @]
    /\ phase' = "loaded"
    /\ UNCHANGED <<proj, todo, stack, cache, eng, provides, walk, closures, why>>

\* Mutant: the module with the highest priority decides.
AnyDistros(n) == {u.distro : u \in AnyUnit(n)}

(* EffectiveDistroForImage: the variant the project's distro sees, or any.  *)
EffectiveDistros(n) ==
    LET seen == IF defaults.distro = NoName THEN NoUnit ELSE view[defaults.distro][n]
    IN  {u.distro : u \in IF seen # NoUnit THEN {seen} ELSE AnyUnit(n)}

(* LoadProjectFromRoot has returned, or panicked. *)
Ended == phase \in {"loaded", "machinesOnly", "failed", "panic"} /\ UNCHANGED loadVars

LoadNext ==
    \/ ApplyLocal \/ Machines \/ Preflight \/ ExecFile \/ Load \/ Class \/ Unit \/ UnitsDone
    \/ Provide \/ ProvidesDone
    \/ RegisterInert \/ Image \/ WalkStep \/ ImageDone \/ ImagesDone
    \/ Materialize \/ BuildViews \/ Ended

LoadSpec == LoadInit /\ [][LoadNext]_loadVars

-----------------------------------------------------------------------------
(* Types of the catalogs and of the walk. *)
LoadTypeOK ==
    /\ phase \in {"project", "machines", "machinesOnly", "preflight", "units", "provides", "images",
                  "fixpoint", "views", "loaded", "failed", "panic"}
    /\ \A n \in Names : eng.flat[n] # NoUnit => eng.flat[n].name = n /\ \E u \in eng.cat : u.name = n
    /\ \A u, w \in eng.cat : u.mod = w.mod /\ u.name = w.name => u = w
    /\ \A n \in Names : provides[n] \in Names \union {NoName, Blank}
    /\ \A i, j \in 2 .. Len(stack) : stack[i].file = stack[j].file => i = j

(* No module defines the name twice, as it may under two distro tags.       *)
Once(n) ==
    \A f, g \in {x \in DOMAIN proj.files : proj.files[x].unit # NoUnit /\ proj.files[x].unit.name = n} :
        proj.files[f].mod = proj.files[g].mod => f = g

(* Image closures are resolved during the load against the growing catalog, *)
(* the build resolves against the views: whatever pins, shadows and feeds   *)
(* are involved, both give the same unit.  (For names no module defines     *)
(* twice: the second definition replaces the first in the views only.)      *)
ViewKeepsClosures ==
    phase = "loaded" =>
        \A w \in closures : \A u \in w.took :
            Once(u.name) => view[w.distro][u.name] # NoUnit /\ view[w.distro][u.name].mod = u.mod

(* A unit tagged for a distro is never lost to that distro: its view has it *)
(* or a pinned or higher-priority unit of the name.  (Unless a module       *)
(* defines the name once more, for another distro: TaggedAlwaysKept.)       *)
TaggedNeverLost ==
    phase = "loaded" =>
        \A f \in DOMAIN proj.files :
            LET u == proj.files[f].unit
            IN  (u # NoUnit /\ u.distro # NoName /\ Once(u.name)) =>
                  /\ view[u.distro][u.name] # NoUnit
                  /\ \/ view[u.distro][u.name].idx >= proj.files[f].mod
                     \/ proj.pins[u.distro][u.name] = view[u.distro][u.name].mod

(* The views do not depend on the order in which maps are ranged over: no   *)
(* two candidates for a name have the same priority.                        *)
NoTies ==
    phase = "views" =>
        \A d \in Distros, n \in Names : Cardinality(Highest(Variants(eng, n, d))) <= 1

(* The provider of a virtual name never has a lower priority than a         *)
(* claimant that is visible everywhere, whatever the names sort like.       *)
ProviderPriority ==
    (phase \in {"images", "fixpoint", "views"}) =>
        \A n \in Names : \A v \in (IF eng.flat[n] = NoUnit THEN {} ELSE eng.flat[n].provides) :
            (eng.flat[n].distro = NoName /\ ~Unclaimed(v) /\ v \in Claimed(v).provides) => Claimed(v).idx >= eng.flat[n].idx

(* What the build needs is in the catalog: every dependency, direct or of a *)
(* package a dependency pulled in, that a feed offers to the distro is in   *)
(* its view.  (For units whose name is not pinned.)                         *)
DepsMaterialised ==
    phase = "loaded" =>
        \A d \in Targets, n \in Names :
            LET u == view[d][n]
            IN  (u # NoUnit /\ proj.pins[d][n] = 0) =>
                  \A dep \in Range(DepsFor(u, d) \o RuntimeDepsFor(u, d)) : \A r \in Providers(eng, dep, d) :
                      view[d][r] # NoUnit \/ Offering(r, d) = {}

(* What n needs, itself aside, and what that needs: what every set has that *)
(* has what n needs and is closed.                                          *)
Behind(deps, n) ==
    {m \in DOMAIN deps :
        \A S \in SUBSET DOMAIN deps :
            deps[n] \ {n} \subseteq S /\ (\A x \in S : deps[x] \ {x} \subseteq S) => m \in S}

(* An image's artifacts list every name of its closure once; what a name    *)
(* depends on is in the closure, and before it unless a cycle is behind it. *)
ClosureOrdered ==
    \A w \in closures :
        LET pos(n) == CHOOSE i \in DOMAIN w.order : w.order[i] = n
            cyclic(n) == \E m \in Behind(w.deps, n) \union {n} : m \in Behind(w.deps, m)
        IN  /\ Range(w.order) = DOMAIN w.deps /\ Len(w.order) = Cardinality(DOMAIN w.deps)
            /\ \A n \in DOMAIN w.deps : \A m \in w.deps[n] \ {n} :
                  m \in DOMAIN w.deps /\ (cyclic(n) \/ pos(m) < pos(n))

(* Only files that load() each other in a cycle make a load meet a reserved *)
(* entry of the load cache, whose nil result is dereferenced.               *)
NoNilEntry ==
    phase = "panic" =>
        \E C \in SUBSET DOMAIN proj.files :
            C # {} /\ \A f \in C : \E g \in C : g \in Range(proj.files[f].loads)

(* The image a name stands for is the project distro's own variant as soon  *)
(* as one is declared, whichever module ships another of the name with a    *)
(* higher priority; and if the machine can boot it, its closure was         *)
(* resolved, for its distro.  (A module defines the name once.)             *)
ImageChoice ==
    phase = "loaded" =>
        \A f \in DOMAIN proj.files :
            LET u == proj.files[f].unit
            IN  (u # NoUnit /\ u.class = "image" /\ Once(u.name)) =>
                  /\ Override(u.distro, defaults.distro) = defaults.distro => EffectiveDistros(u.name) = {defaults.distro}
                  /\ \A d \in EffectiveDistros(u.name) :
                        Bootable(d) <=> \E w \in closures : w.image = u.name /\ w.distro = d

(* "Skipping the shadow machinery matters for more than the report": a unit *)
(* tagged for a distro is in that distro's view, even if its own module     *)
(* defines the name for another distro too.                                 *)
TaggedAlwaysKept ==
    phase = "loaded" =>
        \A f \in DOMAIN proj.files :
            LET u == proj.files[f].unit
            IN  (u # NoUnit /\ u.distro # NoName) => view[u.distro][u.name] # NoUnit

(* "Missing names (no real unit, no provides match, no synthetic provider,  *)
(* or filtered out by distro) error": a name an image cannot resolve has no *)
(* provider for its distro in the catalog.                                  *)
UnresolvedIsMissing ==
    (phase = "failed" /\ why[1] = "unresolved") =>
        ~\E u \in eng.cat : VisibleTo(u, why[3]) /\ why[2] \in u.provides

(* What a load registers does not depend on the order the files, modules,   *)
(* feeds and maps were walked in, and no unit another distro needs is lost  *)
(* on the way.                                                              *)
CatalogInv ==
    /\ LoadTypeOK
    /\ TaggedNeverLost
    /\ NoTies
    /\ ProviderPriority
    /\ ImageChoice
    /\ NoNilEntry

(* Closures are complete, build dependencies that only feeds satisfy        *)
(* included, and list every unit after what it needs, the cycles aside.     *)
ClosureInv ==
    /\ DepsMaterialised
    /\ ClosureOrdered

=============================================================================
