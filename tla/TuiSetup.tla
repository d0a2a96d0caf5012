------------------------------- MODULE TuiSetup -------------------------------
(***************************************************************************)
(* A developer's own settings: local.star (internal/starlark/local.go), the *)
(* Setup pages of the terminal user interface that edit it                  *)
(* (internal/tui/app.go) and the commands that do (cmd/yoe/main.go).        *)
(*                                                                          *)
(* Every writer loads the whole file, changes its own fields and writes the *)
(* whole file.  The user interface reads the QEMU settings once, when it    *)
(* starts, and edits its copy: a list of port forwards that is laid over    *)
(* the forwards the machine declares.                                       *)
(***************************************************************************)
EXTENDS Naturals, Integers, Sequences, FiniteSets, SequencesExt, Positions, PortForwards

CONSTANTS
    Machines,       \* machine -> the forwards it declares
    Entries,        \* forwards that can be typed, [host, guest]
    Ladder,         \* memory sizes of the ladder, 1..Ladder; 0 is the machine's own
    Adapters,       \* serial adapters; 0 is none
    Overlap,        \* a command may run while the user interface saves
    MaxSaves        \* a bound on saves and restarts

(* What validatePortMapping accepts, in its two parts, both from 1.          *)
Forward == [host : Nat \ {0}, guest : Nat \ {0}]

ASSUME SetupAssumption ==
    /\ DOMAIN Machines # {}
    /\ \A m \in DOMAIN Machines :
          /\ Machines[m] \in Seq(Forward)
          /\ \A i, j \in DOMAIN Machines[m] : Machines[m][i].guest = Machines[m][j].guest => i = j
    /\ Entries \subseteq Forward /\ {Ladder, MaxSaves} \subseteq Nat \ {0}
    /\ Adapters \subseteq Nat \ {0} /\ Overlap \in BOOLEAN

OffLadder == Ladder + 1              \* a size typed on the command line
Settings == [memory : 0..OffLadder, display : 0..2, ports : Seq(Forward),
             machine : DOMAIN Machines, parallel : Nat, serial : [DOMAIN Machines -> Adapters \union {0}]]

VARIABLES
    local,          \* local.star
    loads,          \* it loads; if not, a reader takes it for empty
    shown,          \* the copy in the user interface: Settings, serial unused
    setupField,     \* "setup", "machine", "serial", "qemu", "edit" (a port)
    qemuCursor,     \* counts from 0: memory, display, the forwards, "add port"
    editIdx,        \* the forward edited, -1 for a new one
    command,        \* a command that runs now and what it has loaded
    saves,
    last,           \* history: each field as its last writer meant it
    wanted,         \* history: guest -> the host the user asked for, 0 when not
    agree,          \* history: the QEMU settings were saved since another wrote or a save failed
    intact          \* history: nothing was saved over a file that does not load

setupVars == <<local, loads, shown, setupField, qemuCursor, editIdx, command, saves, last, wanted, agree, intact>>

FirstMachine == CHOOSE m \in DOMAIN Machines : TRUE
Empty == [memory |-> 0, display |-> 0, ports |-> <<>>, machine |-> FirstMachine,
          parallel |-> 0, serial |-> [m \in DOMAIN Machines |-> 0]]
NoCommand == [on |-> FALSE, ov |-> Empty, loaded |-> TRUE]
Guests == {e.guest : e \in Entries} \union UNION {{p.guest : p \in Range(Machines[m])} : m \in DOMAIN Machines}

LoadLocalOverrides == IF loads THEN local ELSE Empty

-----------------------------------------------------------------------------
(* Forwards *)

machinePorts == Machines[shown.machine]
effectivePorts == MergeQEMUPorts(machinePorts, shown.ports)
numFixedQEMURows == 2
qemuRowCount == numFixedQEMURows + Len(effectivePorts) + 1
PortRow == qemuCursor >= numFixedQEMURows /\ qemuCursor < qemuRowCount - 1
AtCursor == effectivePorts[qemuCursor - numFixedQEMURows + 1]

dropOverrideByGuest(ports, g) == KeepAt(ports, {i \in DOMAIN ports : ports[i].guest # g})

\* Mutant: the entry is stored beside an earlier override of the same guest port.
SetBeside(ports, e) ==
    IF e \in Range(machinePorts) THEN ports ELSE <<e>> \o ports

(* An entry that the machine declares itself is not stored.                 *)
setEffectivePort(ports, e) ==
    LET rest == dropOverrideByGuest(ports, e.guest)
    IN  IF e \in Range(machinePorts) THEN rest ELSE Append(rest, e)

SetupInit ==
    /\ local = Empty /\ loads = TRUE /\ shown = Empty
    /\ setupField = "setup" /\ qemuCursor = 0 /\ editIdx = -1
    /\ command = NoCommand /\ saves = 0
    /\ last = Empty /\ wanted = [g \in Guests |-> 0] /\ agree = TRUE /\ intact = TRUE

-----------------------------------------------------------------------------
(* Saving *)

\* Mutant: the settings are written without loading the file first.
SaveUnread(s, fields, ok) ==
    /\ saves < MaxSaves /\ saves' = saves + 1 /\ (command.on => Overlap)
    /\ IF ok
       THEN /\ local' = [f \in DOMAIN Empty |-> IF f \in fields THEN s[f] ELSE Empty[f]]
            /\ loads' = TRUE
            /\ last' = [f \in DOMAIN Empty |-> IF f \in fields THEN s[f] ELSE last[f]]
            /\ intact' = (intact /\ loads)
       ELSE UNCHANGED <<local, loads, last, intact>>

(* mutateOverrides: load, change the fields, write, which may fail.         *)
mutateOverrides(s, fields, ok) ==
    /\ saves < MaxSaves /\ saves' = saves + 1 /\ (command.on => Overlap)    \* a bound
    /\ IF ok
       THEN /\ local' = [f \in DOMAIN Empty |-> IF f \in fields THEN s[f] ELSE LoadLocalOverrides[f]]
            /\ loads' = TRUE
            /\ last' = [f \in DOMAIN Empty |-> IF f \in fields THEN s[f] ELSE last[f]]
            /\ intact' = (intact /\ loads)
       ELSE UNCHANGED <<local, loads, last, intact>>

\* Mutant: the forwards are left out of the save.
SaveNoPorts(s, ok) ==
    /\ mutateOverrides(s, {"memory", "display"}, ok)
    /\ shown' = s /\ agree' = ok

saveQEMUSettings(s, ok) ==
    /\ mutateOverrides(s, {"memory", "display", "ports"}, ok)
    /\ shown' = s /\ agree' = ok

OtherSave(ok) == agree' = (agree /\ (ok => loads))

-----------------------------------------------------------------------------
(* The Setup page and its pickers *)

SetParallel(n, ok) ==
    LET s == [shown EXCEPT !.parallel = n]
    IN  /\ setupField = "setup" /\ n # shown.parallel
        /\ mutateOverrides(s, {"parallel"}, ok) /\ shown' = s /\ OtherSave(ok)
        /\ UNCHANGED <<setupField, qemuCursor, editIdx, command, wanted>>

Enter(field) ==
    /\ setupField = "setup" /\ setupField' = field
    /\ qemuCursor' = 0 /\ editIdx' = -1
    /\ UNCHANGED <<local, loads, shown, command, saves, last, wanted, agree, intact>>

Back ==
    /\ setupField \in {"machine", "serial", "qemu"} /\ setupField' = "setup"
    /\ UNCHANGED <<local, loads, shown, qemuCursor, editIdx, command, saves, last, wanted, agree, intact>>

(* The overrides stay when the machine changes.                             *)
PickMachine(m, ok) ==
    LET s == [shown EXCEPT !.machine = m]
    IN  /\ setupField = "machine" /\ setupField' = "setup"
        /\ mutateOverrides(s, {"machine"}, ok) /\ shown' = s /\ OtherSave(ok)
        /\ UNCHANGED <<qemuCursor, editIdx, command, wanted>>

(* The adapter of this machine is read from local.star whenever it is       *)
(* needed; a is 0 to clear it, which stays on the page.                     *)
PickAdapter(a, ok) ==
    LET now == LoadLocalOverrides.serial
        s == [LoadLocalOverrides EXCEPT !.serial = [now EXCEPT ![shown.machine] = a]]
    IN  /\ setupField = "serial" /\ (a = 0 => now[shown.machine] # 0)
        /\ setupField' = IF a = 0 THEN "serial" ELSE "setup"
        /\ mutateOverrides(s, {"serial"}, ok) /\ OtherSave(ok)
        /\ UNCHANGED <<shown, qemuCursor, editIdx, command, wanted>>

-----------------------------------------------------------------------------
(* QEMU settings *)

QemuMove(c) ==
    /\ setupField = "qemu" /\ qemuCursor' = c
    /\ UNCHANGED <<local, loads, shown, setupField, editIdx, command, saves, last, wanted, agree, intact>>

QemuUp == qemuCursor > 0 /\ QemuMove(qemuCursor - 1)
QemuDown == qemuCursor < qemuRowCount - 1 /\ QemuMove(qemuCursor + 1)

(* Left and right on memory: off the ladder counts as below it.             *)
StepMemory(v, right) ==
    LET idx == IF v = OffLadder THEN 0 ELSE v
    IN  IF right THEN Min({idx + 1, Ladder}) ELSE Max({0, idx - 1})
StepDisplay(v, right) == IF right THEN Min({v + 1, 2}) ELSE Max({0, v - 1})

QemuAdjust(right, ok) ==
    /\ setupField = "qemu"
    /\ \/ qemuCursor = 0 /\ saveQEMUSettings([shown EXCEPT !.memory = StepMemory(@, right)], ok)
       \/ qemuCursor = 1 /\ saveQEMUSettings([shown EXCEPT !.display = StepDisplay(@, right)], ok)
    /\ UNCHANGED <<setupField, qemuCursor, editIdx, command, wanted>>

(* Enter on a forward edits it, on the last row adds one; so does `a`.      *)
QemuEdit ==
    /\ setupField = "qemu" /\ setupField' = "edit"
    /\ \/ PortRow /\ editIdx' = qemuCursor - numFixedQEMURows /\ UNCHANGED qemuCursor
       \/ editIdx' = -1 /\ qemuCursor' = qemuRowCount - 1
    /\ UNCHANGED <<local, loads, shown, command, saves, last, wanted, agree, intact>>

(* `d`: an override is removed; a forward of the machine cannot be.         *)
deleteEffectivePort(ok) ==
    LET g == AtCursor.guest
        s == [shown EXCEPT !.ports = dropOverrideByGuest(@, g)]
    IN  /\ setupField = "qemu" /\ PortRow
        /\ \E p \in Range(shown.ports) : p.guest = g
        /\ saveQEMUSettings(s, ok)
        /\ qemuCursor' = Min({qemuCursor, numFixedQEMURows + Len(MergeQEMUPorts(machinePorts, s.ports))})
        /\ wanted' = [wanted EXCEPT ![g] = 0]
        /\ UNCHANGED <<setupField, editIdx, command>>

(* Esc, or Enter on an empty field.                                         *)
EditCancel ==
    /\ setupField = "edit" /\ setupField' = "qemu" /\ editIdx' = -1
    /\ UNCHANGED <<local, loads, shown, qemuCursor, command, saves, last, wanted, agree, intact>>

\* Mutant: the cursor stays on the row that was edited.
CommitStays(e, ok) ==
    LET old == IF editIdx >= 0 THEN effectivePorts[editIdx + 1].guest ELSE e.guest
        ports == setEffectivePort(IF old = e.guest THEN shown.ports
                                  ELSE dropOverrideByGuest(shown.ports, old), e)
    IN  /\ setupField = "edit" /\ setupField' = "qemu" /\ editIdx' = -1
        /\ saveQEMUSettings([shown EXCEPT !.ports = ports], ok)
        /\ wanted' = [wanted EXCEPT ![old] = 0,
                                    ![e.guest] = IF e \in Range(machinePorts) THEN 0 ELSE e.host]
        /\ UNCHANGED <<qemuCursor, command>>

(* Enter on an entry that is a forward: it takes effect, an override of the *)
(* guest port that was edited before goes, and the cursor goes to its row.  *)
EditCommit(e, ok) ==
    LET old == IF editIdx >= 0 THEN effectivePorts[editIdx + 1].guest ELSE e.guest
        ports == setEffectivePort(IF old = e.guest THEN shown.ports
                                  ELSE dropOverrideByGuest(shown.ports, old), e)
        eff == MergeQEMUPorts(machinePorts, ports)
        row == CHOOSE i \in DOMAIN eff : eff[i].guest = e.guest
    IN  /\ setupField = "edit" /\ setupField' = "qemu" /\ editIdx' = -1
        /\ saveQEMUSettings([shown EXCEPT !.ports = ports], ok)
        /\ qemuCursor' = numFixedQEMURows + row - 1
        /\ wanted' = [wanted EXCEPT ![old] = 0,
                                    ![e.guest] = IF e \in Range(machinePorts) THEN 0 ELSE e.host]
        /\ UNCHANGED command

-----------------------------------------------------------------------------
(* Outside the user interface *)

(* `yoe config set`, `yoe run --memory`, `yoe build -j`: mutateOverrides of *)
(* the command line, here in two steps.                                     *)
CommandLoads ==
    /\ ~command.on /\ saves < MaxSaves
    /\ command' = [on |-> TRUE, ov |-> LoadLocalOverrides, loaded |-> loads]
    /\ UNCHANGED <<local, loads, shown, setupField, qemuCursor, editIdx, saves, last, wanted, agree, intact>>

CommandWrites(f, v) ==
    /\ command.on /\ command' = NoCommand
    /\ IF command.ov[f] = v THEN UNCHANGED <<local, loads, last, saves, agree, intact>>
       ELSE /\ local' = [command.ov EXCEPT ![f] = v] /\ loads' = TRUE
            /\ last' = [last EXCEPT ![f] = v]
            /\ saves' = Min({saves + 1, MaxSaves})
            /\ agree' = (agree /\ command.loaded /\ f # "memory")
            /\ intact' = (intact /\ command.loaded)
    /\ UNCHANGED <<shown, setupField, qemuCursor, editIdx, wanted>>

(* The user interface ends and starts again: it reads what was saved.       *)
Restart ==
    /\ saves < MaxSaves /\ saves' = saves + 1 /\ setupField = "setup"
    /\ shown' = [LoadLocalOverrides EXCEPT !.serial = Empty.serial]
    /\ qemuCursor' = 0 /\ editIdx' = -1 /\ agree' = loads
    /\ wanted' = [g \in Guests |->
                    IF \E p \in Range(LoadLocalOverrides.ports) : p.guest = g
                    THEN (CHOOSE p \in Range(LoadLocalOverrides.ports) : p.guest = g).host ELSE 0]
    /\ UNCHANGED <<local, loads, setupField, command, last, intact>>

(* Edited by hand into what does not load.                                  *)
Typo ==
    /\ saves < MaxSaves /\ loads /\ loads' = FALSE
    /\ UNCHANGED <<local, shown, setupField, qemuCursor, editIdx, command, saves, last, wanted, agree, intact>>

SetupNext ==
    \/ Back \/ QemuUp \/ QemuDown \/ QemuEdit \/ EditCancel
    \/ CommandLoads \/ Restart \/ Typo
    \/ \E f \in {"machine", "serial", "qemu"} : Enter(f)
    \/ \E ok \in BOOLEAN :
         \/ \E n \in 1..2 : SetParallel(n, ok)
         \/ \E m \in DOMAIN Machines : PickMachine(m, ok)
         \/ \E a \in Adapters \union {0} : PickAdapter(a, ok)
         \/ \E right \in BOOLEAN : QemuAdjust(right, ok)
         \/ \E e \in Entries : EditCommit(e, ok)
         \/ deleteEffectivePort(ok)
    \/ CommandWrites("memory", OffLadder) \/ CommandWrites("parallel", 2)

SetupSpec == SetupInit /\ [][SetupNext]_setupVars

-----------------------------------------------------------------------------
(* Properties *)

SetupTypeOK ==
    /\ local \in Settings /\ shown \in Settings /\ last \in Settings /\ command.ov \in Settings
    /\ {loads, agree, intact, command.on, command.loaded} \subseteq BOOLEAN
    /\ setupField \in {"setup", "machine", "serial", "qemu", "edit"}
    /\ qemuCursor \in Nat /\ editIdx \in Nat \union {-1} /\ saves \in 0..MaxSaves
    /\ wanted \in [Guests -> Nat]

(* The forwards listed, which `yoe run` will bind, are what the user asked  *)
(* for: for each guest port exactly one forward, to the host port committed *)
(* last, else to the machine's own, and none when neither has one.  Holds   *)
(* over edits of forwards the machine declares, edits that change the guest *)
(* port, removals, changes of machine and restarts.                         *)
ForwardsAreWanted ==
    /\ Len(effectivePorts) = Cardinality(Range(effectivePorts))
    /\ Range(effectivePorts) =
         {[host |-> wanted[g], guest |-> g] : g \in {x \in Guests : wanted[x] # 0}} \union
         {p \in Range(machinePorts) : wanted[p.guest] = 0}

(* After an entry is committed the cursor is on its row, so that the next   *)
(* key acts on what was just typed.                                         *)
CommitLandsOnRow ==
    [][\A e \in Entries, ok \in BOOLEAN :
         EditCommit(e, ok) => PortRow' /\ AtCursor' = e]_setupVars

(* What the QEMU page shows is what local.star has, unless a command wrote  *)
(* local.star since, a save was reported as failed, or another field was    *)
(* saved while the file did not load, which drops the rest: picking a       *)
(* machine or an adapter, or the parallel builds, does not undo it.         *)
ShownIsSaved ==
    agree => /\ local.memory = shown.memory /\ local.display = shown.display
             /\ local.ports = shown.ports

(* A save changes the fields it is about and loses none of the others, by   *)
(* whichever program they were set, as long as saves do not overlap and     *)
(* none is made over a file that does not load.                             *)
NoSettingLost == intact => local = last

(* The forwards listed are those the user asked for, one of a guest port,   *)
(* and an edit lands on the row it shows.                                   *)
ForwardsSound ==
    /\ []ForwardsAreWanted
    /\ CommitLandsOnRow

(* What the settings page shows is what local.star holds, and no setting    *)
(* made elsewhere is lost when either is saved.                             *)
SettingsInv ==
    /\ SetupTypeOK
    /\ ShownIsSaved
    /\ NoSettingLost

=============================================================================
