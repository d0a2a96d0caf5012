------------------------------ MODULE BootTest ------------------------------
(***************************************************************************)
(* `yoe run` (internal/device/qemu.go) and its boot test (boottest.go): the *)
(* check of the host ports, the grown copy of the image, the guest, and the *)
(* race of login prompt, early exit and deadline that decides a test.       *)
(*                                                                          *)
(* A run is one `yoe run` at a time; several may be under way.  Guests boot,*)
(* print their prompt, start sshd and die when they like.                   *)
(***************************************************************************)
EXTENDS Naturals, Sequences, FiniteSets, SequencesExt, PortForwards

CONSTANTS
    Runs,           \* the terminals `yoe run` is started from
    MachinePorts,   \* the machine's forwards: a sequence of [host, guest]
    SavedPorts,     \* the forwards saved in local.star
    Extra,          \* run -> the forwards given with --port
    Grow,           \* the runs that ask for a larger disk (--disk-size)
    SshPort,        \* guest port 22
    MaxRuns, MaxGens      \* bounds

Forwards == [host : Nat, guest : Nat]

ASSUME BootAssumption ==
    /\ IsFiniteSet(Runs) /\ Grow \subseteq Runs /\ SshPort \in Nat
    /\ MachinePorts \in Seq(Forwards) /\ SavedPorts \in Seq(Forwards)
    /\ \A r \in Runs : Extra[r] \in Seq(Forwards)
    /\ MaxRuns \in Nat /\ MaxGens \in Nat \ {0}

VARIABLES
    src,            \* the built image: [gen, whole]
    copy,           \* its grown copy; see NoCopy
    run,            \* run -> see Running
    left,           \* the runs whose guest was left in the background
    runs

bootVars == <<src, copy, run, left, runs>>

RunSteps == {"idle", "grow", "copy", "launch", "attached", "boot", "ssh", "health", "kill", "reap"}
Guests == {"none", "up", "dead"}
Asleep == [pc |-> "idle", test |-> FALSE, guest |-> "none", sshd |-> FALSE, seen |-> FALSE,
           late |-> FALSE, hung |-> FALSE, peer |-> "none", slow |-> FALSE, verdict |-> "none"]

(* The copy: who writes it, whether all of the image has been copied, of    *)
(* which build, whether that was complete when the copy began, whether it   *)
(* was still being copied when the build ended, and whether it is newer.    *)
NoCopy == [st |-> "none", by |-> "none", full |-> FALSE, gen |-> 1, whole |-> FALSE,
           straddles |-> FALSE, newer |-> FALSE]

BootInit ==
    /\ src = [gen |-> 1, whole |-> TRUE]
    /\ copy = NoCopy
    /\ run = [r \in Runs |-> Asleep]
    /\ left = {}
    /\ runs = 0

-----------------------------------------------------------------------------
(* Ports *)

(* `yoe run` puts the saved forwards first, so that --port beats them.      *)
Wanted(r) == SavedPorts \o Extra[r]

Ports == [r \in Runs |-> MergeQEMUPorts(MachinePorts, Wanted(r))]
HostPorts == [r \in Runs |-> {f.host : f \in Range(Ports[r])}]

(* The host port of the first forward to guest port 22.                     *)
HasSshPort(r) == \E f \in Range(Ports[r]) : f.guest = SshPort

\* Mutant: the machine's forward, whatever --port says.
MachineSshPort(r) == MachinePorts[Min({i \in DOMAIN MachinePorts : MachinePorts[i].guest = SshPort})].host

sshHostPort(r) == Ports[r][Min({i \in DOMAIN Ports[r] : Ports[r][i].guest = SshPort})].host

(* The host ports bound by the guests there are.                            *)
Bound(r) == IF run[r].guest = "up" THEN HostPorts[r] ELSE {}
Held == (UNION {HostPorts[r] : r \in left}) \union UNION {Bound(r) : r \in Runs}

\* Mutant: the ports of guests that are attached to a terminal are not seen.
FreeOfBackground(r) == \A q \in left : HostPorts[r] \cap HostPorts[q] = {}

checkQEMUPortsFree(r) == HostPorts[r] \cap Held = {}

-----------------------------------------------------------------------------
(* RunQEMU *)

RunQEMU(r, test) ==
    /\ runs < MaxRuns /\ runs' = runs + 1
    /\ run[r].pc = "idle"
    /\ checkQEMUPortsFree(r)
    /\ run' = [run EXCEPT ![r] = [Asleep EXCEPT !.pc = IF r \in Grow THEN "grow" ELSE "launch",
                                                !.test = test]]
    /\ UNCHANGED <<src, copy, left>>

\* Mutant: a copy that is large enough is used whatever its age.
ReuseAnyAge == copy.st = "grown"

(* ensureGrownQEMUImage keeps a copy that has the size and is newer than    *)
(* the image.  A copy that was cut short has not been grown yet.            *)
Reusable == copy.st = "grown" /\ copy.newer

ensureGrownQEMUImage(r) ==
    /\ run[r].pc = "grow"
    /\ IF Reusable
       THEN run' = [run EXCEPT ![r].pc = "launch"] /\ copy' = copy
       ELSE /\ run' = [run EXCEPT ![r].pc = "copy"]
            /\ copy' = [st |-> "partial", by |-> r, full |-> FALSE, gen |-> src.gen,
                        whole |-> src.whole, straddles |-> FALSE, newer |-> TRUE]
    /\ UNCHANGED <<src, left, runs>>

(* copySparse has ended; Truncate grows the file that has the name now, if  *)
(* there is one.  That, and what was copied last, is what dates a copy.     *)
CopyDone(r) ==
    /\ run[r].pc = "copy"
    /\ IF copy.st = "none"
       THEN run' = [run EXCEPT ![r] = Asleep] /\ copy' = copy
       ELSE /\ run' = [run EXCEPT ![r].pc = "launch"]
            /\ copy' = [copy EXCEPT !.st = "grown", !.full = @ \/ copy.by = r,
                                    !.newer = @ \/ copy.st = "partial" \/ copy.by = r]
    /\ UNCHANGED <<src, left, runs>>

(* Killed while copying.                                                    *)
CopyKilled(r) ==
    /\ run[r].pc = "copy"
    /\ run' = [run EXCEPT ![r] = Asleep]
    /\ UNCHANGED <<src, copy, left, runs>>

(* QEMU starts; it exits at once if a port is taken or its disk is gone.    *)
Starts(r) == checkQEMUPortsFree(r) /\ (r \in Grow => copy.st = "grown")
Boot(r) == IF Starts(r) THEN "up" ELSE "dead"

(* A boot test needs a forward to guest port 22.                            *)
Launch(r) ==
    /\ run[r].pc = "launch"
    /\ run[r].test => HasSshPort(r)
    /\ run' = [run EXCEPT ![r].pc = IF run[r].test THEN "boot" ELSE "attached", ![r].guest = Boot(r)]
    /\ UNCHANGED <<src, copy, left, runs>>

(* --daemon: the guest outlives the command.                                *)
LaunchDaemon(r) ==
    /\ run[r].pc = "launch" /\ ~run[r].test
    /\ left' = IF Starts(r) THEN left \union {r} ELSE left
    /\ run' = [run EXCEPT ![r] = Asleep]
    /\ UNCHANGED <<src, copy, runs>>

(* Without QEMU on the host it runs in a container, where the host's ports  *)
(* are not forwarded; a boot test is refused, as is one without SSH.        *)
LaunchInContainer(r) ==
    /\ run[r].pc = "launch"
    /\ run' = [run EXCEPT ![r] = Asleep]
    /\ UNCHANGED <<src, copy, left, runs>>

(* The attached command ends with its guest.                                *)
Detach(r) ==
    /\ run[r].pc = "attached" /\ run[r].guest = "dead"
    /\ run' = [run EXCEPT ![r] = Asleep]
    /\ UNCHANGED <<src, copy, left, runs>>

-----------------------------------------------------------------------------
(* runBootTest *)

Fail(r) == [run EXCEPT ![r].pc = "kill", ![r].verdict = "fail"]

\* Mutant: the test goes on when QEMU answers, with or without the prompt.
SelectUp(r) ==
    /\ run[r].pc = "boot"
    /\ \/ run' = [run EXCEPT ![r].pc = "ssh"]
       \/ run[r].guest = "dead" /\ run' = Fail(r)
       \/ run[r].late /\ run' = Fail(r)
    /\ UNCHANGED <<src, copy, left, runs>>

(* The select over prompt, exit and deadline takes any that is ready.       *)
Select(r) ==
    /\ run[r].pc = "boot"
    /\ \/ run[r].seen /\ run' = [run EXCEPT ![r].pc = "ssh"]
       \/ run[r].guest = "dead" /\ run' = Fail(r)
       \/ run[r].late /\ run' = Fail(r)
    /\ UNCHANGED <<src, copy, left, runs>>

(* The guests whose own sshd is behind the host port that r dials.          *)
Answerers(r) == {q \in Runs : \E f \in Range(Ports[q]) : f.host = sshHostPort(r) /\ f.guest = SshPort}

(* Whoever listens there answers the dial.                                  *)
Answering(r) == {q \in Answerers(r) : run[q].guest = "up" /\ run[q].sshd}

(* sshHealthCheck: dial until the deadline.  The loop looks at the clock    *)
(* before a dial, so one that has begun may still succeed after it.         *)
Dial(r) ==
    /\ run[r].pc = "ssh"
    /\ \E q \in Answering(r) : run' = [run EXCEPT ![r].pc = "health", ![r].peer = q]
    /\ UNCHANGED <<src, copy, left, runs>>

\* Mutant: the dial is repeated past the deadline.
DialAgain(r) ==
    /\ run[r].pc = "ssh" /\ run[r].late
    /\ UNCHANGED <<run, src, copy, left, runs>>

GiveUp(r) ==
    /\ run[r].pc = "ssh" /\ run[r].late
    /\ run' = Fail(r)
    /\ UNCHANGED <<src, copy, left, runs>>

(* The health command has no deadline: it ends when the guest answers or    *)
(* the connection breaks.                                                   *)
Health(r) ==
    /\ run[r].pc = "health"
    /\ LET q == run[r].peer IN
       \/ run[q].guest = "up" /\ ~run[q].hung
          /\ run' = [run EXCEPT ![r].pc = "kill", ![r].verdict = "pass"]
       \/ ~(run[q].guest = "up" /\ run[q].hung) /\ run' = Fail(r)
    /\ UNCHANGED <<src, copy, left, runs>>

\* Mutant: the test returns without waiting for QEMU to end.
CancelOnly(r) ==
    /\ run[r].pc = "kill"
    /\ run' = [run EXCEPT ![r].pc = "idle"]
    /\ UNCHANGED <<src, copy, left, runs>>

(* The deferred teardown: cancel kills QEMU, then the test waits for it.    *)
Teardown(r) ==
    /\ run[r].pc = "kill"
    /\ run' = [run EXCEPT ![r].pc = "reap"]
    /\ UNCHANGED <<src, copy, left, runs>>

Reaped(r) ==
    /\ run[r].pc = "reap"
    /\ \/ run[r].guest = "dead" /\ run' = [run EXCEPT ![r] = Asleep]
       \/ run[r].guest = "up"      \* ten seconds have passed
          /\ run' = [run EXCEPT ![r] = [Asleep EXCEPT !.guest = "up", !.slow = TRUE]]
    /\ UNCHANGED <<src, copy, left, runs>>

-----------------------------------------------------------------------------
(* The environment (external) *)

(* The guest of a test prints its prompt (markerScanner sees it, even in    *)
(* two pieces), a guest starts sshd, stops answering, exits or is killed.   *)
GuestLogin(r) ==
    /\ run[r].test /\ run[r].guest = "up" /\ ~run[r].seen /\ ~run[r].hung
    /\ run' = [run EXCEPT ![r].seen = TRUE]
    /\ UNCHANGED <<src, copy, left, runs>>

GuestSshd(r) ==
    /\ run[r].guest = "up" /\ ~run[r].sshd /\ ~run[r].hung
    /\ run' = [run EXCEPT ![r].sshd = TRUE]
    /\ UNCHANGED <<src, copy, left, runs>>

GuestHangs(r) ==
    /\ run[r].guest = "up" /\ run[r].sshd /\ ~run[r].hung
    /\ run' = [run EXCEPT ![r].hung = TRUE]
    /\ UNCHANGED <<src, copy, left, runs>>

GuestDies(r) ==
    /\ run[r].guest = "up"
    /\ run' = [run EXCEPT ![r].guest = "dead"]
    /\ UNCHANGED <<src, copy, left, runs>>

BackgroundDies(r) ==
    /\ r \in left
    /\ left' = left \ {r}
    /\ UNCHANGED <<src, copy, run, runs>>

Deadline(r) ==
    /\ run[r].pc \in {"boot", "ssh", "health"} /\ ~run[r].late
    /\ run' = [run EXCEPT ![r].late = TRUE]
    /\ UNCHANGED <<src, copy, left, runs>>

(* A build of the image removes destdir with all that is in it, and writes  *)
(* the image anew; until it is done a copy of it is of a part.              *)
Rebuild ==
    /\ src.gen < MaxGens
    /\ src' = [gen |-> src.gen + 1, whole |-> FALSE]
    /\ copy' = NoCopy
    /\ UNCHANGED <<run, left, runs>>

BuildDone ==
    /\ ~src.whole
    /\ src' = [src EXCEPT !.whole = TRUE]
    /\ copy' = [copy EXCEPT !.newer = FALSE, !.straddles = @ \/ copy.st = "partial"]
    /\ UNCHANGED <<run, left, runs>>

TestStep(r) ==
    \/ Launch(r) \/ Select(r) \/ Dial(r) \/ GiveUp(r) \/ Health(r) \/ Teardown(r) \/ Reaped(r)

BootNext ==
    \/ \E r \in Runs :
         \/ \E test \in BOOLEAN : RunQEMU(r, test)
         \/ ensureGrownQEMUImage(r) \/ CopyDone(r) \/ CopyKilled(r)
         \/ LaunchDaemon(r) \/ LaunchInContainer(r) \/ Detach(r)
         \/ TestStep(r)
         \/ GuestLogin(r) \/ GuestSshd(r) \/ GuestHangs(r) \/ GuestDies(r) \/ Deadline(r)
         \/ BackgroundDies(r)
    \/ Rebuild \/ BuildDone

(* The steps of a test are taken, and its deadline comes: a test that can   *)
(* go on, or whose time is running, does not stay where it is for ever.     *)
BootFairness == \A r \in Runs : WF_bootVars(TestStep(r) \/ Deadline(r))
BootSpec == BootInit /\ [][BootNext]_bootVars /\ BootFairness

-----------------------------------------------------------------------------
(* Properties *)

BootTypeOK ==
    /\ src \in [gen : 1..MaxGens, whole : BOOLEAN]
    /\ copy \in [st : {"none", "partial", "grown"}, by : Runs \union {"none"}, full : BOOLEAN,
                  gen : 1..MaxGens, whole : BOOLEAN, straddles : BOOLEAN, newer : BOOLEAN]
    /\ run \in [Runs -> [pc : RunSteps, test : BOOLEAN, guest : Guests, sshd : BOOLEAN,
                         seen : BOOLEAN, late : BOOLEAN, hung : BOOLEAN, slow : BOOLEAN,
                         peer : Runs \union {"none"}, verdict : {"none", "pass", "fail"}]]
    /\ left \subseteq Runs
    /\ runs \in 0..MaxRuns

(* The forwards a user may expect: those of --port, those saved for other   *)
(* guest ports, and the machine's for the rest.                             *)
Unless(fs, gs) == {f \in Range(fs) : \A g \in gs : g.guest # f.guest}
Expected(r) ==
    LET own == Range(Extra[r]) \union Unless(SavedPorts, Range(Extra[r]))
    IN  own \union Unless(MachinePorts, own)

(* A guest whose start fails finds a port taken that its user may expect it *)
(* to use: a forward that was moved by --port or by a saved setting (QEMU   *)
(* in QEMU) does not collide where it was before.                           *)
CollidesOnOwnPorts ==
    [][\A r \in Runs : run[r].pc = "launch" /\ run'[r].guest = "dead" =>
         \/ r \in Grow /\ copy.st # "grown"
         \/ \E f \in Expected(r) : f.host \in Held]_bootVars

(* A guest never starts from a copy that was cut short or is of an earlier  *)
(* build, nor is a copy used again that was finished while the image was    *)
(* being built, although the copy is written in place and found by its      *)
(* size.                                                                    *)
BootsWholeCopy ==
    [][\A r \in Grow : run[r].pc \in {"grow", "copy"} /\ run'[r].pc = "launch" =>
         /\ copy'.full /\ copy'.gen = src.gen
         /\ run[r].pc = "grow" /\ src.whole => copy'.whole \/ copy'.straddles]_bootVars

(* What the comment at ensureGrownQEMUImage says, a rebuild invalidates the *)
(* copy, does not hold of one that was still being copied when the build    *)
(* ended: it began with a part of the image and ends newer than all of it.  *)
NeverReusesPart ==
    [][\A r \in Grow : run[r].pc = "grow" /\ run'[r].pc = "launch" /\ src.whole => copy'.whole]_bootVars

(* A test passes only if its console has shown the login prompt and the     *)
(* health command was answered over SSH.                                    *)
PassNeedsLogin ==
    \A r \in Runs : run[r].verdict = "pass" => run[r].seen /\ run[r].peer \in Runs

(* When a test has returned its guest is gone and its ports are free,       *)
(* unless QEMU outlived its SIGKILL for ten seconds.                        *)
NoGuestLeft ==
    \A r \in Runs : run[r].pc = "idle" /\ run[r].guest = "up" => run[r].slow

(* The answer over SSH is the guest's own, unless that has died since it    *)
(* showed its prompt: the health check dials a host port, which another     *)
(* guest may have by then, and does not look whether QEMU still runs.       *)
PassIsOwnGuest ==
    \A r \in Runs : run[r].verdict = "pass" /\ run[r].peer # r => run[r].guest = "dead"

(* So this does not hold: a test whose guest has exited passes for another. *)
PassIsOwnGuestAlways == \A r \in Runs : run[r].verdict = "pass" => run[r].peer = r

(* Every test that is under way ends: the timeout ends it however QEMU, its *)
(* prompt and its sshd behave, unless the guest stops answering once SSH    *)
(* has connected, for the health command has no deadline.                   *)
UnderWay(r) == run[r].pc \in {"boot", "ssh", "health", "kill", "reap"}
TestEnds ==
    \A r \in Runs : []<>(~UnderWay(r) \/ (run[r].pc = "health" /\ run[run[r].peer].hung))

(* A boot test passes for a login of its own guest only, and leaves no QEMU *)
(* behind.                                                                  *)
BootInv ==
    /\ BootTypeOK
    /\ PassNeedsLogin
    /\ PassIsOwnGuest
    /\ NoGuestLeft

(* Every QEMU starts on a whole, current copy of the image, and fails to    *)
(* bind only ports it was asked for that another process holds.             *)
LaunchSound ==
    /\ BootsWholeCopy
    /\ CollidesOnOwnPorts

=============================================================================
