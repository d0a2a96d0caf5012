---------------------------- MODULE FlashDevice -----------------------------
(***************************************************************************)
(* Writing an image to a block device: `yoe flash` (internal/device/       *)
(* flash.go, flash_write.go, flash_mount.go, flash_list.go) and the flash  *)
(* view of the terminal user interface (internal/tui/app.go).              *)
(*                                                                         *)
(* The block devices are nodes: whole disks, partitions, and mapped        *)
(* devices that rest on others (dm-crypt, LVM, md).  The environment       *)
(* mounts and unmounts, swaps one stick for another under the same path,   *)
(* and rebuilds the image, at any time; the checks the code makes are      *)
(* separated from the write by questions to the user.                      *)
(***************************************************************************)
EXTENDS Naturals, Sequences, FiniteSets, SequencesExt

CONSTANTS
    Parent,         \* partition -> its whole disk
    Slaves,         \* every node -> the nodes it rests on (/sys/class/block/<n>/slaves)
    Candidate,      \* the disks whose bus, size and name make them candidates, in order
    Sticks,         \* what can be plugged in at the candidates' paths
    Plugged,        \* path -> the stick that is there at first
    Id,             \* stick -> its stable identity, or NoId
    NoId,
    Critical,       \* the nodes mounted at "/", "/boot", "/boot/efi" and "/usr"
    Length, Short,  \* length of the image, and of one that is still being built
    Sector, Buf,    \* blockSize and bufSize
    MaxBuilds, MaxEvents, MaxFlashes,   \* bounds
    SwapWhileOpen   \* a stick may be swapped while the flash view is open

Nodes == DOMAIN Slaves
Paths == Range(Candidate)
Whole == Nodes \ DOMAIN Parent
Builds == 1..MaxBuilds

ASSUME FlashAssumption ==
    /\ IsFiniteSet(Nodes) /\ IsFiniteSet(Sticks) /\ DOMAIN Id = Sticks
    /\ \A p \in DOMAIN Parent : p \in Nodes /\ Parent[p] \in Whole
    /\ \A n \in Nodes : Slaves[n] \subseteq Nodes
    /\ Candidate \in Seq(Whole) /\ Cardinality(Paths) = Len(Candidate)
    /\ Plugged \in [Paths -> Sticks] /\ \A p, q \in Paths : p # q => Plugged[p] # Plugged[q]
    /\ Nodes # {} /\ Critical \subseteq Nodes /\ Length \in Nat \ {0} /\ Short \in 1..(Length - 1)
    /\ Sector \in Nat \ {0} /\ Buf \in Nat \ {0} /\ Buf % Sector = 0
    /\ MaxBuilds \in Nat \ {0} /\ MaxEvents \in Nat /\ MaxFlashes \in Nat
    /\ SwapWhileOpen \in BOOLEAN

VARIABLES
    mounted,        \* nodes that are mounted, apart from the critical ones
    at,             \* path -> the stick it names now
    denied,         \* nodes the user may not write
    img,            \* [cur, size]: the image file now, and how long each build has become
    w,              \* writer -> what it does; see Writing
    ui,             \* the flash view; see View
    saved,          \* local.star: [ignored, last]
    events, flashes

flashVars == <<mounted, at, denied, img, w, ui, saved, events, flashes>>

Writers == {"cli", "tui"}       \* `yoe flash`, and flashWriteCmd's goroutine
WriteSteps == {"idle", "confirm", "open", "denied", "write", "done", "failed"}
Stages == {"closed", "select", "confirm", "writing", "perm", "done", "error"}
Nowhere == CHOOSE n \in Nodes : TRUE       \* what an idle writer is given
NoWrite == [pc |-> "idle", dev |-> Nowhere, on |-> Nowhere, ver |-> 1, n |-> 0, out |-> 0, again |-> FALSE]
Shut == [stage |-> "closed", cursor |-> 1, cands |-> <<>>, ignored |-> {}, chown |-> FALSE]

(* What a node is physically: the stick a path names, or the node itself.   *)
Medium(n) == IF n \in Paths THEN at[n] ELSE n
Media == Sticks \union Nodes
MarkKeys == {Id[s] : s \in Sticks} \union Paths
Listing == [path : Paths, key : MarkKeys]

FlashInit ==
    /\ mounted = {}
    /\ at = Plugged
    /\ denied \in SUBSET Paths
    /\ img = [cur |-> 1, size |-> [v \in Builds |-> IF v = 1 THEN Length ELSE 0]]
    /\ w = [x \in Writers |-> NoWrite]
    /\ ui = Shut
    /\ saved = [ignored |-> {}, last |-> NoId]
    /\ events = 0 /\ flashes = 0

-----------------------------------------------------------------------------
(* What the code looks at *)

(* A partition's disk; any other node is its own.                           *)
parentDisk(n) == IF n \in DOMAIN Parent THEN Parent[n] ELSE n

(* The nodes at the bottom of a stack of mapped devices.                    *)
underlyingDevices[n \in Nodes] ==
    IF Slaves[n] = {} THEN {n} ELSE UNION {underlyingDevices[s] : s \in Slaves[n]}

\* Mutant: the stack under a mapped device is not followed.
OnlyTheTop == {parentDisk(n) : n \in Critical}

(* The disks that the critical mount points rest on.                        *)
systemDisks == {parentDisk(b) : b \in UNION {underlyingDevices[n] : n \in Critical}}

validateDevice(n) == parentDisk(n) \notin systemDisks

(* Mounts whose source is, by name, the disk or a partition of it; a mapped *)
(* device is mounted under its /dev/mapper name, which matches neither.     *)
MountedPartitionsFor(d) == {s \in mounted \union Critical : parentDisk(s) = d /\ Slaves[s] = {}}

(* A do-not-use mark follows the physical disk; without identity, the path. *)
IgnoreKey(p) == IF Id[at[p]] # NoId THEN Id[at[p]] ELSE p

(* The loop over the block devices, which skips the system's disks.         *)
selectable[n \in 0..Len(Candidate)] ==
    IF n = 0 THEN <<>>
    ELSE IF Candidate[n] \in systemDisks THEN selectable[n - 1]
    ELSE Append(selectable[n - 1], Candidate[n])

ListCandidates ==
    LET free == selectable[Len(Candidate)]
    IN  [i \in 1..Len(free) |-> [path |-> free[i], key |-> IgnoreKey(free[i])]]

(* The first candidate that is not marked, else the first.                  *)
firstSelectableFlash(cands, ignored) ==
    LET free == {i \in DOMAIN cands : cands[i].key \notin ignored}
    IN  IF free = {} THEN 1 ELSE Min(free)

(* The image file exists; while a build writes it, it is short.             *)
findImage == img.size[img.cur] > 0

alignDown(n) == (n \div Sector) * Sector

alignUp(n) == ((n + Sector - 1) \div Sector) * Sector

(* The kernel's exclusive claims (external).  A mount, a mapped device and  *)
(* an O_EXCL opener each claim the node they use; a disk cannot be claimed  *)
(* while one of its partitions is, nor the other way round.                 *)
Family(n) == {m \in Nodes : m = n \/ parentDisk(m) = n \/ m = parentDisk(n)}
InUse(n) == n \in mounted \union Critical \/ \E m \in Nodes : n \in Slaves[m]
Opened(n) == \E x \in Writers : w[x].pc = "write" /\ w[x].dev = n

\* Mutant: the device is opened without O_EXCL.
AnyOpener(n) == TRUE

Claimable(n) == \A m \in Family(n) : ~InUse(m) /\ ~Opened(m)

-----------------------------------------------------------------------------
(* `yoe flash` *)

(* Flash up to its question: there is an image, and the device is neither a *)
(* system disk nor has it anything mounted.  With --yes there is no question.*)
Flash(n, assumeYes) ==
    /\ flashes < MaxFlashes
    /\ w["cli"].pc = "idle"
    /\ findImage
    /\ validateDevice(n)
    /\ MountedPartitionsFor(parentDisk(n)) = {}
    /\ w' = [w EXCEPT !["cli"].pc = IF assumeYes THEN "open" ELSE "confirm", !["cli"].dev = n]
    /\ flashes' = flashes + 1
    /\ UNCHANGED <<mounted, at, denied, img, ui, saved, events>>

Answer(yes) ==
    /\ w["cli"].pc = "confirm"
    /\ w' = [w EXCEPT !["cli"] = IF yes THEN [@ EXCEPT !.pc = "open"] ELSE NoWrite]
    /\ UNCHANGED <<mounted, at, denied, img, ui, saved, events, flashes>>

(* offerChown, then Write once more; sudo may fail.                         *)
offerChown(yes) ==
    /\ w["cli"].pc = "denied" /\ ~w["cli"].again
    /\ IF yes
       THEN /\ denied' = denied \ {w["cli"].dev}
            /\ w' = [w EXCEPT !["cli"].pc = "open", !["cli"].again = TRUE]
       ELSE /\ denied' = denied
            /\ w' = [w EXCEPT !["cli"] = NoWrite]
    /\ UNCHANGED <<mounted, at, img, ui, saved, events, flashes>>

(* `yoe flash` ends and reports what Write returned.                        *)
Report ==
    /\ w["cli"].pc \in {"done", "failed"} \/ (w["cli"].pc = "denied" /\ w["cli"].again)
    /\ w' = [w EXCEPT !["cli"] = NoWrite]
    /\ UNCHANGED <<mounted, at, denied, img, ui, saved, events, flashes>>

-----------------------------------------------------------------------------
(* device.Write, for both *)

(* The image is opened first, so a later build does not change what is read.*)
WriteOpen(x) ==
    /\ w[x].pc = "open"
    /\ w' = [w EXCEPT ![x] =
          IF ~findImage THEN [@ EXCEPT !.pc = "failed"]
          ELSE IF @.dev \in denied THEN [@ EXCEPT !.pc = "denied"]
          ELSE IF ~Claimable(@.dev) THEN [@ EXCEPT !.pc = "failed"]
          ELSE [@ EXCEPT !.pc = "write", !.on = Medium(w[x].dev), !.ver = img.cur, !.n = 0, !.out = 0]]
    /\ UNCHANGED <<mounted, at, denied, img, ui, saved, events, flashes>>

(* One round of copyAlignedWithProgress: a full buffer, or what is left     *)
(* padded to whole sectors.  A read that finds less than a buffer ends it.  *)
Chunk(x) ==
    LET rest == img.size[w[x].ver] - w[x].n
        k == Min({Buf, rest})
    IN  /\ w[x].pc = "write"
        /\ w' = [w EXCEPT ![x].n = @ + k, ![x].out = @ + alignUp(k), ![x].pc = IF k < Buf THEN "done" ELSE @]
        /\ UNCHANGED <<mounted, at, denied, img, ui, saved, events, flashes>>

\* Mutant: an error of a write is taken for the end of the image.
WriteErrorIgnored(x) ==
    /\ w[x].pc = "write"
    /\ w' = [w EXCEPT ![x].pc = "done"]
    /\ UNCHANGED <<mounted, at, denied, img, ui, saved, events, flashes>>

(* A write or the final Sync fails.                                         *)
WriteFails(x) ==
    /\ w[x].pc = "write"
    /\ w' = [w EXCEPT ![x].pc = "failed"]
    /\ UNCHANGED <<mounted, at, denied, img, ui, saved, events, flashes>>

-----------------------------------------------------------------------------
(* The flash view *)

Cand == ui.cands[ui.cursor]
KeyPressed == ~ui.chown      \* the terminal is sudo's while it runs
FlashEvent == events < MaxEvents /\ events' = events + 1     \* a bound
ViewOnly == UNCHANGED <<mounted, at, denied, img, events>>

(* `f` on an image whose row says it is built; the row may be out of date.  *)
OpenView ==
    /\ ui.stage = "closed" /\ KeyPressed /\ flashes < MaxFlashes
    /\ LET cands == ListCandidates
           last == {i \in DOMAIN cands : cands[i].path = saved.last
                                          /\ cands[i].key \notin saved.ignored}
       IN  ui' = [ui EXCEPT !.stage = "select", !.cands = cands, !.ignored = saved.ignored,
                            !.cursor = IF last # {} THEN Min(last)
                                       ELSE firstSelectableFlash(cands, saved.ignored)]
    /\ flashes' = flashes + 1
    /\ UNCHANGED <<w, saved>> /\ ViewOnly

Move(i) ==
    /\ ui.stage = "select" /\ KeyPressed
    /\ i \in DOMAIN ui.cands /\ i \in {ui.cursor - 1, ui.cursor + 1}
    /\ ui' = [ui EXCEPT !.cursor = i]
    /\ UNCHANGED <<w, saved, flashes>> /\ ViewOnly

(* `i`: the mark is kept in memory whether or not local.star can be written.*)
Toggle(written) ==
    /\ ui.stage = "select" /\ KeyPressed /\ ui.cands # <<>> /\ FlashEvent
    /\ LET marks == IF Cand.key \in ui.ignored THEN ui.ignored \ {Cand.key}
                                               ELSE ui.ignored \union {Cand.key}
       IN  /\ ui' = [ui EXCEPT !.ignored = marks]
           /\ saved' = IF ~written THEN saved
                       ELSE [ignored |-> marks,
                             last |-> IF Cand.key \in marks /\ saved.last = Cand.path
                                      THEN NoId ELSE saved.last]
    /\ UNCHANGED <<mounted, at, denied, img, w, flashes>>

\* Mutant: only the saved list of marked disks is consulted.
EnterSaved ==
    /\ ui.stage = "select" /\ KeyPressed /\ ui.cands # <<>>
    /\ Cand.key \notin saved.ignored
    /\ ui' = [ui EXCEPT !.stage = "confirm"]
    /\ UNCHANGED <<w, saved, flashes>> /\ ViewOnly

Enter ==
    /\ ui.stage = "select" /\ KeyPressed /\ ui.cands # <<>>
    /\ Cand.key \notin ui.ignored
    /\ ui' = [ui EXCEPT !.stage = "confirm"]
    /\ UNCHANGED <<w, saved, flashes>> /\ ViewOnly

(* flashWriteCmd on the candidate under the cursor.                         *)
Start == w' = [w EXCEPT !["tui"] = [NoWrite EXCEPT !.pc = "open", !.dev = Cand.path]]

(* `y`: the image is looked up again and the device remembered.             *)
Yes ==
    /\ ui.stage = "confirm" /\ KeyPressed /\ w["tui"].pc = "idle"
    /\ IF findImage
       THEN /\ Start /\ ui' = [ui EXCEPT !.stage = "writing"]
            /\ saved' \in {saved, [saved EXCEPT !.last = Cand.path]}
       ELSE /\ ui' = [ui EXCEPT !.stage = "error"] /\ UNCHANGED <<w, saved>>
    /\ UNCHANGED flashes /\ ViewOnly

No ==
    /\ ui.stage \in {"confirm", "perm"} /\ KeyPressed
    /\ ui' = [ui EXCEPT !.stage = IF @ = "confirm" THEN "select" ELSE "error"]
    /\ UNCHANGED <<w, saved, flashes>> /\ ViewOnly

(* flashDoneMsg.                                                            *)
FlashDone ==
    /\ w["tui"].pc \in {"done", "failed", "denied"}
    /\ ui' = [ui EXCEPT !.stage = CASE w["tui"].pc = "done" -> "done"
                                    [] w["tui"].pc = "failed" -> "error"
                                    [] w["tui"].pc = "denied" -> "perm"]
    /\ w' = [w EXCEPT !["tui"] = NoWrite]
    /\ UNCHANGED <<saved, flashes>> /\ ViewOnly

(* `y` at the permission prompt starts sudo chown.                          *)
AskChown ==
    /\ ui.stage = "perm" /\ KeyPressed /\ ~ui.chown
    /\ ui' = [ui EXCEPT !.chown = TRUE]
    /\ UNCHANGED <<w, saved, flashes>> /\ ViewOnly

(* flashChownDoneMsg: the write starts over.                                *)
ChownDone(ok) ==
    /\ ui.chown /\ w["tui"].pc = "idle"
    /\ IF ok
       THEN /\ Start /\ denied' = denied \ {Cand.path}
            /\ ui' = [ui EXCEPT !.stage = "writing", !.chown = FALSE]
       ELSE /\ ui' = [ui EXCEPT !.stage = "error", !.chown = FALSE] /\ UNCHANGED <<w, denied>>
    /\ UNCHANGED <<mounted, at, img, saved, events, flashes>>

Leave ==
    /\ ui.stage \in {"select", "done", "error"} /\ KeyPressed
    /\ ui' = [Shut EXCEPT !.chown = ui.chown]
    /\ UNCHANGED <<w, saved, flashes>> /\ ViewOnly

-----------------------------------------------------------------------------
(* The environment *)

(* A partition is mounted, or unmounted.                                    *)
Mount(n) ==
    /\ FlashEvent
    /\ Claimable(n) /\ n \notin Critical
    /\ mounted' = mounted \union {n}
    /\ UNCHANGED <<at, denied, img, w, ui, saved, flashes>>

Unmount(n) ==
    /\ n \in mounted
    /\ mounted' = mounted \ {n}
    /\ UNCHANGED <<at, denied, img, w, ui, saved, events, flashes>>

(* Another stick takes a path; a writer that had the old one open fails.    *)
Swap(p, s) ==
    /\ FlashEvent
    /\ SwapWhileOpen \/ ui.stage = "closed"
    /\ Critical \cap Family(p) = {} /\ \A m \in Nodes : Slaves[m] \cap Family(p) = {}
    /\ \A q \in Paths : at[q] # s
    /\ at' = [at EXCEPT ![p] = s]
    /\ mounted' = mounted \ Family(p)
    /\ w' = [x \in Writers |-> IF w[x].pc = "write" /\ w[x].dev \in Family(p)
                               THEN [w[x] EXCEPT !.pc = "failed"] ELSE w[x]]
    /\ UNCHANGED <<denied, img, ui, saved, flashes>>

(* A build of the image removes the file and writes it anew, part by part.  *)
BuildStart ==
    /\ FlashEvent
    /\ img.cur < MaxBuilds
    /\ img' = [img EXCEPT !.cur = @ + 1]
    /\ UNCHANGED <<mounted, at, denied, w, ui, saved, flashes>>

BuildMore(k) ==
    /\ img.size[img.cur] < k
    /\ img' = [img EXCEPT !.size[img.cur] = k]
    /\ UNCHANGED <<mounted, at, denied, w, ui, saved, events, flashes>>

FlashNext ==
    \/ \E n \in Nodes, yes \in BOOLEAN : Flash(n, yes)
    \/ \E yes \in BOOLEAN : Answer(yes) \/ offerChown(yes) \/ ChownDone(yes) \/ Toggle(yes)
    \/ Report
    \/ \E x \in Writers : WriteOpen(x) \/ Chunk(x) \/ WriteFails(x)
    \/ OpenView \/ Enter \/ Yes \/ No \/ FlashDone \/ AskChown \/ Leave
    \/ \E i \in 1..Len(Candidate) : Move(i)
    \/ \E n \in Nodes : Mount(n) \/ Unmount(n)
    \/ \E p \in Paths, s \in Sticks : Swap(p, s)
    \/ BuildStart \/ \E k \in {Short, Length} : BuildMore(k)

FlashSpec == FlashInit /\ [][FlashNext]_flashVars

-----------------------------------------------------------------------------
(* Properties *)

FlashTypeOK ==
    /\ mounted \subseteq Nodes /\ at \in [Paths -> Sticks] /\ denied \subseteq Paths
    /\ img \in [cur : Builds, size : [Builds -> 0..Length]]
    /\ w \in [Writers -> [pc : WriteSteps, dev : Nodes, on : Media, ver : Builds,
                          n : 0..Length, out : 0..(Length + Sector), again : BOOLEAN]]
    /\ ui \in [stage : Stages, cursor : Nat, cands : Seq(Listing),
               ignored : SUBSET MarkKeys, chown : BOOLEAN]
    /\ ui.cursor \in {1} \union DOMAIN ui.cands
    /\ saved \in [ignored : SUBSET MarkKeys, last : Paths \union {NoId}]
    /\ events \in 0..MaxEvents /\ flashes \in 0..MaxFlashes

(* Whatever happened since the checks were made, nothing is mounted on,     *)
(* mapped over or being flashed to the disk a writer has open, nor does the *)
(* running system rest on it, for Write claims it exclusively.              *)
WritesAlone ==
    \A x \in Writers : w[x].pc = "write" =>
        /\ \A m \in Family(w[x].dev) : ~InUse(m)
        /\ \A y \in Writers \ {x} : w[y].pc = "write" => w[y].dev \notin Family(w[x].dev)

(* The least set with the critical mounts that holds what its members rest  *)
(* on.                                                                      *)
Below == CHOOSE r \in SUBSET Nodes :
    /\ Critical \subseteq r /\ \A n \in r : Slaves[n] \union {parentDisk(n)} \subseteq r
    /\ \A q \in SUBSET r :
          Critical \subseteq q /\ (\A n \in q : Slaves[n] \union {parentDisk(n)} \subseteq q) => q = r

(* The user is never asked to erase, and the view never offers, a disk that *)
(* the running system rests on through however many mapped devices.  (The   *)
(* mapped device itself, named on the command line, is not refused here; it *)
(* is WritesAlone that protects it.)                                        *)
NeverOffersSystem ==
    /\ w["cli"].pc # "idle" /\ Slaves[w["cli"].dev] = {} => w["cli"].dev \notin Below
    /\ \A i \in DOMAIN ui.cands : ui.cands[i].path \notin Below

(* A write that reports success has put the whole image on the medium, from *)
(* one build only, even if the image was rebuilt meanwhile: every sector of *)
(* a file that was complete when it was opened, the last one padded.        *)
FlashedWhole ==
    [][\A x \in Writers :
         w[x].pc = "write" /\ w'[x].pc = "done" /\ img.size[w[x].ver] = Length =>
            w'[x].out >= Length]_flashVars

(* A stick the user marked do-not-use is not written from the view, at      *)
(* whatever path it turns up later.                                         *)
IgnoredNeverWritten ==
    w["tui"].pc = "write" /\ w["tui"].on \in Sticks
        => Id[w["tui"].on] = NoId \/ Id[w["tui"].on] \notin ui.ignored

(* Neither way to flash offers a disk of the running system, or writes one  *)
(* that somebody else holds or the user marked, and a flash that reports    *)
(* success has written all of the image.                                    *)
FlashSafe ==
    /\ [](FlashTypeOK /\ WritesAlone /\ NeverOffersSystem /\ IgnoredNeverWritten)
    /\ FlashedWhole

=============================================================================
