---------------------------- MODULE PortForwards -----------------------------
(***************************************************************************)
(* Forwards of host ports to guest ports, [host, guest], and how the ones   *)
(* of a user are laid over a machine's (internal/device/qemu.go), for       *)
(* `yoe run` and for the Setup page that shows what it will use.            *)
(***************************************************************************)
EXTENDS Naturals, Sequences, FiniteSetsExt

\* Mutant: a forward given with --port is added to the machine's.
AppendPorts(machine, extra) == machine \o extra

(* A forward takes the place of the first one to the same guest port, or    *)
(* goes to the end.                                                         *)
MergeOne(merged, p) ==
    LET same == {i \in DOMAIN merged : merged[i].guest = p.guest}
    IN  IF same = {} THEN Append(merged, p) ELSE [merged EXCEPT ![Min(same)] = p]

MergeQEMUPorts(machine, extra) ==
    LET merged[k \in 0..Len(extra)] ==
            IF k = 0 THEN machine ELSE MergeOne(merged[k - 1], extra[k])
    IN  merged[Len(extra)]
=============================================================================
