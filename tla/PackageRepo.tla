---------------------------- MODULE PackageRepo -----------------------------
(***************************************************************************)
(* The project's local apk repository (internal/repo/local.go, index.go):   *)
(* Publish, GenerateIndex and GenerateAllIndexes, and the `yoe repo remove` *)
(* and `yoe repo clean` commands, which delete packages directory by        *)
(* directory and then rebuild the indexes of the directories they touched.  *)
(*                                                                          *)
(* One command at a time works on the repository, while builds of other     *)
(* processes may publish into it.  A file stands for its base name; its     *)
(* content is the number of times it was published.                         *)
(***************************************************************************)
EXTENDS Naturals, FiniteSets

CONSTANTS
    Files,          \* names of .apk files
    Dirs,           \* arch subdirectories, noarch among them
    NoArch,
    Home,           \* the directory each file is published to
    Names,          \* arguments of `yoe repo remove`
    Matching,       \* the files whose name starts with the argument
    Projects,       \* the sets of files the project's units may produce
    MaxBuilds       \* bound on the builds of one file

ASSUME RepoAssumption ==
    /\ NoArch \in Dirs
    /\ Home \in [Files -> Dirs]
    /\ Matching \in [Names -> SUBSET Files]
    /\ Projects \in SUBSET (SUBSET Files) /\ Projects # {}
    /\ MaxBuilds \in Nat

VARIABLES
    keep,           \* the files the project's units produce now
    disk,           \* content of each file, 0 when it is not there
    built,          \* how many times each file was published
    dirs,           \* the directories that exist
    index,          \* per directory, the content its APKINDEX lists for each file
    op,             \* the running command, or the last one: what it set out to do
    base,           \* disk when the command started
    last            \* how the last command ended

vars == <<keep, disk, built, dirs, index, op, base, last>>

Absent == [f \in Files |-> 0]
NoOp == [kind |-> "none", kept |-> {}, seen |-> {}, victims |-> {}, scan |-> {},
         dirty |-> {}, touched |-> {}]

Init ==
    /\ keep \in Projects
    /\ disk = Absent /\ built = Absent /\ base = Absent
    /\ dirs = {}
    /\ index = [d \in Dirs |-> Absent]
    /\ op = NoOp
    /\ last = "none"

(* The project's units change: one is added, removed or bumped. *)
EditProject ==
    /\ keep' \in Projects \ {keep}
    /\ UNCHANGED <<disk, built, dirs, index, op, base, last>>

(* Publish copies the file into its directory, atomically, and leaves the   *)
(* index alone.                                                             *)
Publish(f) ==
    /\ f \in keep
    /\ built[f] < MaxBuilds
    /\ built' = [built EXCEPT ![f] = @ + 1]
    /\ disk' = [disk EXCEPT ![f] = built'[f]]
    /\ dirs' = dirs \union {Home[f]}
    /\ UNCHANGED <<keep, index, op, base, last>>

-----------------------------------------------------------------------------
\* Mutant: the index of an arch leaves the shared noarch packages out.
ListsOwnOnly(d) == [f \in Files |-> IF Home[f] = d THEN disk[f] ELSE 0]

(* What GenerateIndex collects for a directory: its own files and those of  *)
(* the sibling noarch.                                                      *)
Listing(d) == [f \in Files |-> IF Home[f] \in {d, NoArch} THEN disk[f] ELSE 0]

(* The index GenerateIndex leaves: with no file to list it returns before   *)
(* it writes anything.                                                      *)
GenerateIndex(d) == IF Listing(d) = Absent THEN index[d] ELSE Listing(d)

Start(kind, victims, scan, dirty) ==
    /\ op.kind = "none"
    /\ op' = [kind |-> kind, kept |-> keep, seen |-> dirs, victims |-> victims,
              scan |-> scan, dirty |-> dirty, touched |-> {}]
    /\ base' = disk
    /\ last' = "none"
    /\ UNCHANGED <<keep, disk, built, dirs, index>>

\* Mutant: only the arch directories are indexed, noarch is skipped.
RefreshesArches == Start("refresh", {}, {}, dirs \ {NoArch})

GenerateAllIndexes == Start("refresh", {}, {}, dirs)
RemovePackages(n) == Start("remove", Matching[n], dirs, {})

\* Mutant: what is removed is what the project produces.
CleansCurrent == Start("clean", keep, dirs, {})

Clean == Start("clean", Files \ keep, dirs, {})

Victims(d) == {f \in op.victims : Home[f] = d /\ disk[f] # 0}
Without(S) == [f \in Files |-> IF f \in S THEN 0 ELSE disk[f]]

\* Mutant: the directory is not noted as one to index again.
DeletesOnly(d) ==
    /\ d \in op.scan
    /\ disk' = Without(Victims(d))
    /\ op' = [op EXCEPT !.scan = @ \ {d}, !.touched = @ \union {d}]
    /\ UNCHANGED <<keep, built, dirs, index, base, last>>

(* Remove and Clean delete the victims of one directory. *)
DeleteIn(d) ==
    /\ d \in op.scan
    /\ disk' = Without(Victims(d))
    /\ LET hit == IF Victims(d) = {} THEN {} ELSE {d}
       IN  op' = [op EXCEPT !.scan = @ \ {d}, !.dirty = @ \union hit, !.touched = @ \union hit]
    /\ UNCHANGED <<keep, built, dirs, index, base, last>>

(* A directory that cannot be read is passed over, and nobody is told.      *)
SkipUnreadable(d) ==
    /\ d \in op.scan
    /\ op' = [op EXCEPT !.scan = @ \ {d}, !.seen = @ \ {d}]
    /\ UNCHANGED <<keep, disk, built, dirs, index, base, last>>

(* A file that cannot be removed ends the command. *)
DeleteFails(d) ==
    /\ d \in op.scan
    /\ \E S \in SUBSET Victims(d) : S # Victims(d) /\ disk' = Without(S)
    /\ op' = NoOp /\ last' = "error"
    /\ UNCHANGED <<keep, built, dirs, index, base>>

(* `yoe repo remove` of a name that matches nothing. *)
NotFound ==
    /\ op.kind = "remove" /\ op.scan = {} /\ op.touched = {}
    /\ op' = NoOp /\ last' = "error"
    /\ UNCHANGED <<keep, disk, built, dirs, index, base>>

IndexDir(d) ==
    /\ op.scan = {} /\ d \in op.dirty
    /\ index' = [index EXCEPT ![d] = GenerateIndex(d)]
    /\ op' = [op EXCEPT !.dirty = @ \ {d}]
    /\ UNCHANGED <<keep, disk, built, dirs, base, last>>

(* The command is killed, or an index cannot be written. *)
Abort ==
    /\ op.kind # "none"
    /\ op' = NoOp /\ last' = "error"
    /\ UNCHANGED <<keep, disk, built, dirs, index, base>>

Done ==
    /\ op.kind # "none" /\ op.scan = {} /\ op.dirty = {}
    /\ op.kind = "remove" => op.touched # {}
    /\ last' = op.kind
    /\ op' = [op EXCEPT !.kind = "none"]
    /\ UNCHANGED <<keep, disk, built, dirs, index, base>>

Next ==
    \/ EditProject \/ GenerateAllIndexes \/ Clean \/ NotFound \/ Abort \/ Done
    \/ \E f \in Files : Publish(f)
    \/ \E n \in Names : RemovePackages(n)
    \/ \E d \in Dirs : DeleteIn(d) \/ SkipUnreadable(d) \/ DeleteFails(d) \/ IndexDir(d)

Spec == Init /\ [][Next]_vars

-----------------------------------------------------------------------------
Contents == [Files -> 0 .. MaxBuilds]
Kinds == {"none", "refresh", "remove", "clean"}

(* The types; what a directory lists was published, and only into a         *)
(* directory Publish created.                                               *)
TypeOK ==
    /\ keep \in Projects
    /\ disk \in Contents /\ built \in Contents /\ base \in Contents
    /\ dirs \in SUBSET Dirs
    /\ \A f \in Files : disk[f] # 0 => Home[f] \in dirs
    /\ index \in [Dirs -> Contents]
    /\ op \in [kind : Kinds, kept : SUBSET Files, seen : SUBSET Dirs, victims : SUBSET Files,
               scan : SUBSET Dirs, dirty : SUBSET Dirs, touched : SUBSET Dirs]
    /\ last \in Kinds \union {"error"}

(* Every package that was in the repository when GenerateAllIndexes started *)
(* and that no build replaced meanwhile is listed with its content, when it *)
(* is done, in the index of every directory an apk of its arch reads that   *)
(* was there at the start, whatever was deleted or published before.        *)
RefreshListsAll ==
    last = "refresh" =>
        \A f \in Files : disk[f] # 0 /\ disk[f] = base[f] =>
            \A d \in op.seen : Home[f] \in {d, NoArch} => index[d][f] = disk[f]

(* When Remove or Clean succeeded, the index of a directory it deleted from *)
(* lists no deleted file, as long as a package that was there before is     *)
(* left to list.                                                            *)
TouchedIndexSound ==
    last \in {"remove", "clean"} =>
        \A d \in op.touched :
            (\E f \in Files : Listing(d)[f] # 0 /\ disk[f] = base[f]) =>
                \A f \in Files : index[d][f] # 0 => disk[f] # 0

(* A Clean that succeeded left the packages of the units there were when it *)
(* started, and no others in the directories it could read, besides what    *)
(* builds published while it ran.                                           *)
CleanExact ==
    last = "clean" =>
        \A f \in Files : base[f] # 0 /\ disk[f] \in {0, base[f]} =>
            /\ f \in op.kept => disk[f] # 0
            /\ disk[f] # 0 /\ Home[f] \in op.seen => f \in op.kept

(* It does not say so when there was a directory it could not read: then    *)
(* the stale packages are all still there after a clean that succeeded.     *)
NoStaleAfterClean ==
    last = "clean" =>
        \A f \in Files : base[f] # 0 /\ disk[f] = base[f] => f \in op.kept

(* After a successful Remove or Clean no index references a deleted file:   *)
(* apk resolves only what is on disk.                                       *)
DeletedNotListed ==
    last \in {"remove", "clean"} =>
        \A d \in dirs, f \in Files : index[d][f] # 0 => disk[f] # 0

=============================================================================
