------------------------------ MODULE MCDevice -------------------------------
(* The tools for devices side by side: flashing (a system disk under a      *)
(* mapped device, another with the boot partition, two slots for three      *)
(* sticks, one of them without identity), `yoe run` in three terminals of   *)
(* which the second dials the same ssh port as the first and the third      *)
(* moves its ports, and deploying to an Alpine or a Debian device.  They    *)
(* share no state, so a behaviour is of one of them.                        *)
EXTENDS FlashDevice, BootTest, TargetFeed

VARIABLE tool

MCParent == [sda1 |-> "sda", sdb1 |-> "sdb", nvme1 |-> "nvme"]
MCSlaves == [sda |-> {}, sda1 |-> {}, dm0 |-> {"sda1"}, sdb |-> {}, sdb1 |-> {}, sdc |-> {}, nvme |-> {}, nvme1 |-> {}]
MCPlugged == [sda |-> "s0", sdb |-> "s1", sdc |-> "s2"]
MCId == [s0 |-> "id0", s1 |-> "id1", s2 |-> "id2", s3 |-> NoId]
MCCandidate == <<"sda", "sdb", "sdc">>
MCSavedPorts == <<[host |-> 8081, guest |-> 80]>>
MCMachinePorts == <<[host |-> 2222, guest |-> 22], [host |-> 8080, guest |-> 80]>>
MCMoved == <<[host |-> 3333, guest |-> 22], [host |-> 9090, guest |-> 80]>>
MCExtra == [a |-> <<>>, b |-> <<>>, c |-> MCMoved]

Init ==
    /\ FlashInit /\ BootInit /\ TargetInit
    /\ tool \in {"flash", "run", "feed"}
    /\ denied = IF tool = "flash" THEN Paths ELSE {}
    /\ tool # "feed" => key /\ distro = "alpine"

Next ==
    /\ UNCHANGED tool
    /\ \/ tool = "flash" /\ FlashNext /\ UNCHANGED <<bootVars, targetVars>>
       \/ tool = "run" /\ BootNext /\ UNCHANGED <<flashVars, targetVars>>
       \/ tool = "feed" /\ TargetNext /\ UNCHANGED <<flashVars, bootVars>>

Spec == Init /\ [][Next]_<<tool, flashVars, bootVars, targetVars>> /\ BootFairness
=============================================================================
