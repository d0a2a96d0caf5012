---------------------------- MODULE DeviceProofs ----------------------------
(***************************************************************************)
(* Proofs about the tools for devices: `yoe run` and its boot test, for any *)
(* runs and port forwards; `yoe deploy`, for any number of sessions, builds *)
(* and lost connections; and flashing, for any devices, sticks, sizes and   *)
(* rebuilds of the image.                                                   *)
(***************************************************************************)
EXTENDS FlashDevice, BootTest, TargetFeed, Induction, FiniteSetTheorems, SequenceTheorems, TLAPS

-----------------------------------------------------------------------------
(* Boot tests *)

RunStates == [pc : RunSteps, test : BOOLEAN, guest : Guests, sshd : BOOLEAN,
              seen : BOOLEAN, late : BOOLEAN, hung : BOOLEAN, slow : BOOLEAN,
              peer : Runs \union {"none"}, verdict : {"none", "pass", "fail"}]

(* How far a test has come: past the prompt its console has shown it, its   *)
(* ssh was answered where it checks the health of its peer, and a verdict   *)
(* is only there between the check and the end.                             *)
TestSound(r, x) ==
    /\ x.pc \in {"boot", "ssh", "health", "kill", "reap"} => HasSshPort(r) /\ x.guest # "none"
    /\ x.pc \in {"ssh", "health"} => x.seen
    /\ x.pc = "health" => x.peer \in Answerers(r)
    /\ x.verdict # "none" => x.pc \in {"kill", "reap"}
    /\ x.verdict = "pass" => x.seen /\ x.peer \in Answerers(r)
    /\ x.pc = "idle" /\ x.guest = "up" => x.slow

InvRuns == run \in [Runs -> RunStates] /\ \A r \in Runs : TestSound(r, run[r])

(* A step of one run, or of its guest. *)
RunStep(r) ==
    \/ \E test \in BOOLEAN : RunQEMU(r, test)
    \/ ensureGrownQEMUImage(r) \/ CopyDone(r) \/ CopyKilled(r)
    \/ LaunchDaemon(r) \/ LaunchInContainer(r) \/ Detach(r)
    \/ TestStep(r)
    \/ GuestLogin(r) \/ GuestSshd(r) \/ GuestHangs(r) \/ GuestDies(r) \/ Deadline(r)

(* A run at rest is sound. *)
LEMMA AsleepSound ==
  ASSUME NEW r \in Runs
  PROVE  /\ Asleep \in RunStates /\ TestSound(r, Asleep)
         /\ \A t \in BOOLEAN, p \in {"grow", "launch"} :
              /\ [Asleep EXCEPT !.pc = p, !.test = t] \in RunStates
              /\ TestSound(r, [Asleep EXCEPT !.pc = p, !.test = t])
         /\ [Asleep EXCEPT !.guest = "up", !.slow = TRUE] \in RunStates
         /\ TestSound(r, [Asleep EXCEPT !.guest = "up", !.slow = TRUE])
<1>1. Asleep \in RunStates /\ TestSound(r, Asleep) /\ Asleep.verdict = "none" /\ Asleep.guest = "none"
  BY DEF Asleep, RunStates, RunSteps, Guests, TestSound
<1>2. ASSUME NEW t \in BOOLEAN, NEW p \in {"grow", "launch"}
      PROVE  /\ [Asleep EXCEPT !.pc = p, !.test = t] \in RunStates
             /\ TestSound(r, [Asleep EXCEPT !.pc = p, !.test = t])
  BY <1>1 DEF RunStates, RunSteps, TestSound
<1>3. /\ [Asleep EXCEPT !.guest = "up", !.slow = TRUE] \in RunStates
      /\ TestSound(r, [Asleep EXCEPT !.guest = "up", !.slow = TRUE])
  BY DEF Asleep, RunStates, RunSteps, Guests, TestSound
<1> QED
  BY <1>1, <1>2, <1>3

(* Every step of a run takes it from a sound state to a sound one. *)
LEMMA RunStepSound ==
  ASSUME InvRuns, NEW r \in Runs, RunStep(r)
  PROVE  \E x \in RunStates : TestSound(r, x) /\ run' = [run EXCEPT ![r] = x]
<1>0. run[r] \in RunStates /\ TestSound(r, run[r])
  BY DEF InvRuns
<1>1. ASSUME NEW t \in BOOLEAN, RunQEMU(r, t)
      PROVE  \E x \in RunStates : TestSound(r, x) /\ run' = [run EXCEPT ![r] = x]
  <2>1. PICK p \in {"grow", "launch"} : run' = [run EXCEPT ![r] = [Asleep EXCEPT !.pc = p, !.test = t]]
    BY <1>1 DEF RunQEMU
  <2> QED
    BY <2>1, AsleepSound
<1>2. CASE run' = [run EXCEPT ![r] = Asleep]
  BY <1>2, AsleepSound
<1>3. ASSUME NEW p \in {"launch", "copy"}, run[r].pc \in {"grow", "copy"}, run' = [run EXCEPT ![r].pc = p]
      PROVE  \E x \in RunStates : TestSound(r, x) /\ run' = [run EXCEPT ![r] = x]
  <2> DEFINE x == [run[r] EXCEPT !.pc = p]
  <2>1. x \in RunStates /\ TestSound(r, x)
    BY <1>0, <1>3 DEF RunStates, RunSteps, TestSound
  <2> QED
    BY <1>3, <2>1
<1>4. CASE Launch(r)
  <2> DEFINE p == IF run[r].test THEN "boot" ELSE "attached"
             x == [run[r] EXCEPT !.pc = p, !.guest = Boot(r)]
  <2>1. /\ run[r].pc = "launch" /\ (run[r].test => HasSshPort(r))
        /\ run' = [run EXCEPT ![r] = x]
    BY <1>4 DEF Launch
  <2>2. p \in {"boot", "attached"} /\ (p = "boot" => HasSshPort(r)) /\ Boot(r) \in {"up", "dead"}
    BY <1>0, <2>1 DEF Boot, RunStates
  <2>3. x \in RunStates
    BY <1>0, <2>2 DEF RunStates, RunSteps, Guests
  <2>4. /\ x.pc \in {"boot", "attached"} /\ (x.pc = "boot" => HasSshPort(r))
        /\ x.verdict = run[r].verdict /\ x.guest # "none"
    BY <1>0, <2>2 DEF RunStates
  <2>5. run[r].verdict = "none"
    BY <1>0, <2>1 DEF TestSound
  <2>6. TestSound(r, x)
    BY <2>4, <2>5 DEF TestSound
  <2> QED
    BY <2>1, <2>3, <2>6
<1>5. CASE Select(r)
  <2>1. CASE run[r].seen /\ run' = [run EXCEPT ![r].pc = "ssh"]
    <3> DEFINE x == [run[r] EXCEPT !.pc = "ssh"]
    <3>1. x \in RunStates /\ TestSound(r, x)
      BY <1>0, <1>5, <2>1 DEF Select, RunStates, RunSteps, TestSound
    <3> QED
      BY <2>1, <3>1
  <2>2. CASE run' = Fail(r)
    <3> DEFINE x == [run[r] EXCEPT !.pc = "kill", !.verdict = "fail"]
    <3>1. x \in RunStates /\ TestSound(r, x)
      BY <1>0, <1>5 DEF Select, RunStates, RunSteps, TestSound
    <3>2. run' = [run EXCEPT ![r] = x]
      BY <2>2 DEF Fail
    <3> QED
      BY <3>1, <3>2
  <2> QED
    BY <1>5, <2>1, <2>2 DEF Select
<1>6. CASE Dial(r)
  <2>1. PICK q \in Answering(r) : run' = [run EXCEPT ![r].pc = "health", ![r].peer = q]
    BY <1>6 DEF Dial
  <2>2. q \in Runs /\ q \in Answerers(r) /\ run[r].pc = "ssh"
    BY <1>6 DEF Answering, Answerers, Dial
  <2> DEFINE x == [run[r] EXCEPT !.pc = "health", !.peer = q]
  <2>3. x \in RunStates /\ TestSound(r, x)
    BY <1>0, <2>2 DEF RunStates, RunSteps, TestSound
  <2>4. run' = [run EXCEPT ![r] = x]
    BY <2>1
  <2> QED
    BY <2>3, <2>4
<1>7. CASE GiveUp(r)
  <2> DEFINE x == [run[r] EXCEPT !.pc = "kill", !.verdict = "fail"]
  <2>1. x \in RunStates /\ TestSound(r, x)
    BY <1>0, <1>7 DEF GiveUp, RunStates, RunSteps, TestSound
  <2>2. run' = [run EXCEPT ![r] = x]
    BY <1>7 DEF GiveUp, Fail
  <2> QED
    BY <2>1, <2>2
<1>8. CASE Health(r)
  <2>1. PICK v \in {"pass", "fail"} : run' = [run EXCEPT ![r].pc = "kill", ![r].verdict = v]
    BY <1>8 DEF Health, Fail
  <2> DEFINE x == [run[r] EXCEPT !.pc = "kill", !.verdict = v]
  <2>2. x \in RunStates /\ TestSound(r, x)
    BY <1>0, <1>8 DEF Health, RunStates, RunSteps, TestSound
  <2>3. run' = [run EXCEPT ![r] = x]
    BY <2>1
  <2> QED
    BY <2>2, <2>3
<1>9. CASE Teardown(r)
  <2> DEFINE x == [run[r] EXCEPT !.pc = "reap"]
  <2>1. x \in RunStates /\ TestSound(r, x)
    BY <1>0, <1>9 DEF Teardown, RunStates, RunSteps, TestSound
  <2> QED
    BY <1>9, <2>1 DEF Teardown
<1>10. CASE run' = [run EXCEPT ![r] = [Asleep EXCEPT !.guest = "up", !.slow = TRUE]]
  BY <1>10, AsleepSound
<1>11. CASE GuestLogin(r)
  <2> DEFINE x == [run[r] EXCEPT !.seen = TRUE]
  <2>1. x \in RunStates /\ TestSound(r, x)
    BY <1>0 DEF RunStates, TestSound
  <2> QED
    BY <1>11, <2>1 DEF GuestLogin
<1>12. CASE GuestSshd(r)
  <2> DEFINE x == [run[r] EXCEPT !.sshd = TRUE]
  <2>1. x \in RunStates /\ TestSound(r, x)
    BY <1>0 DEF RunStates, TestSound
  <2> QED
    BY <1>12, <2>1 DEF GuestSshd
<1>13. CASE GuestHangs(r)
  <2> DEFINE x == [run[r] EXCEPT !.hung = TRUE]
  <2>1. x \in RunStates /\ TestSound(r, x)
    BY <1>0 DEF RunStates, TestSound
  <2> QED
    BY <1>13, <2>1 DEF GuestHangs
<1>14. CASE GuestDies(r)
  <2> DEFINE x == [run[r] EXCEPT !.guest = "dead"]
  <2>1. x \in RunStates /\ TestSound(r, x)
    BY <1>0 DEF RunStates, Guests, TestSound
  <2> QED
    BY <1>14, <2>1 DEF GuestDies
<1>15. CASE Deadline(r)
  <2> DEFINE x == [run[r] EXCEPT !.late = TRUE]
  <2>1. x \in RunStates /\ TestSound(r, x)
    BY <1>0 DEF RunStates, TestSound
  <2> QED
    BY <1>15, <2>1 DEF Deadline
<1>16. CASE ensureGrownQEMUImage(r)
  BY <1>3, <1>16 DEF ensureGrownQEMUImage
<1>17. CASE CopyDone(r)
  BY <1>2, <1>3, <1>17 DEF CopyDone
<1>18. CASE CopyKilled(r) \/ LaunchDaemon(r) \/ LaunchInContainer(r) \/ Detach(r)
  BY <1>2, <1>18 DEF CopyKilled, LaunchDaemon, LaunchInContainer, Detach
<1>19. CASE Reaped(r)
  BY <1>2, <1>10, <1>19 DEF Reaped
<1> QED
  BY <1>1, <1>4, <1>5, <1>6, <1>7, <1>8, <1>9, <1>11, <1>12, <1>13, <1>14, <1>15, <1>16, <1>17,
     <1>18, <1>19 DEF RunStep, TestStep

(* The types of the image, its copy and the ports. *)
CopyStates == [st : {"none", "partial", "grown"}, by : Runs \union {"none"}, full : BOOLEAN,
               gen : 1..MaxGens, whole : BOOLEAN, straddles : BOOLEAN, newer : BOOLEAN]
InvImage ==
    /\ src \in [gen : 1..MaxGens, whole : BOOLEAN]
    /\ copy \in CopyStates
    /\ left \subseteq Runs
    /\ runs \in 0..MaxRuns

(* At most one run grows the image: two of them write the same copy, and    *)
(* either may then start on what the other has only begun to write.         *)
OneGrower == \A r, q \in Grow : r = q

(* Only a run that asked for a larger disk makes a copy; the copy there is  *)
(* is of the last build, whole if it is grown, and newer than a complete    *)
(* image only if that was complete when it was copied or the copy was still *)
(* being written when it became so.  Who copies has not grown it yet.       *)
InvGrow == \A r \in Runs : run[r].pc \in {"grow", "copy"} => r \in Grow
InvCopy ==
    /\ copy.st # "none" => copy.by \in Grow /\ copy.gen = src.gen
    /\ copy.st = "grown" => copy.full
    /\ copy.st # "none" /\ (copy.newer \/ copy.st = "partial") /\ src.whole =>
         copy.whole \/ copy.straddles
    /\ \A r \in Grow : run[r].pc = "copy" => copy.st # "grown"

(* The runs are kept sound. *)
LEMMA NextRuns == InvRuns /\ [BootNext]_bootVars => InvRuns'
<1> SUFFICES ASSUME InvRuns, [BootNext]_bootVars PROVE InvRuns'
  OBVIOUS
<1>1. ASSUME NEW r \in Runs, RunStep(r) PROVE InvRuns'
  <2>1. PICK x \in RunStates : TestSound(r, x) /\ run' = [run EXCEPT ![r] = x]
    BY <1>1, RunStepSound
  <2> QED
    BY <2>1 DEF InvRuns
<1>2. CASE run' = run
  BY <1>2 DEF InvRuns
<1> QED
  BY <1>1, <1>2 DEF BootNext, RunStep, BackgroundDies, Rebuild, BuildDone, bootVars

(* The image, its copy and the ports keep their types. *)
LEMMA NextImage == InvImage /\ [BootNext]_bootVars => InvImage'
<1> SUFFICES ASSUME InvImage, [BootNext]_bootVars PROVE InvImage'
  OBVIOUS
<1>1. ASSUME NEW r \in Runs, NEW test \in BOOLEAN, RunQEMU(r, test) PROVE InvImage'
  <2>1. runs \in 0..MaxRuns /\ runs < MaxRuns /\ runs' = runs + 1 /\ MaxRuns \in Nat
    BY <1>1, BootAssumption DEF RunQEMU, InvImage
  <2>2. runs' \in 0..MaxRuns
    BY ONLY <2>1
  <2> QED
    BY <1>1, <2>2 DEF RunQEMU, InvImage
<1>2. ASSUME NEW r \in Runs, ensureGrownQEMUImage(r) PROVE InvImage'
  <2>1. copy' \in CopyStates
    <3>1. src.gen \in 1..MaxGens /\ src.whole \in BOOLEAN /\ copy \in CopyStates
      BY DEF InvImage
    <3>2. CASE copy' = copy
      BY <3>1, <3>2
    <3>3. CASE copy' = [st |-> "partial", by |-> r, full |-> FALSE, gen |-> src.gen,
                        whole |-> src.whole, straddles |-> FALSE, newer |-> TRUE]
      BY <3>1, <3>3 DEF CopyStates
    <3> QED
      BY <1>2, <3>2, <3>3 DEF ensureGrownQEMUImage
  <2> QED
    BY <1>2, <2>1 DEF ensureGrownQEMUImage, InvImage
<1>3. ASSUME NEW r \in Runs, CopyDone(r) PROVE InvImage'
  <2>1. copy' \in CopyStates
    BY <1>3 DEF CopyDone, InvImage, CopyStates
  <2> QED
    BY <1>3, <2>1 DEF CopyDone, InvImage
<1>4. ASSUME NEW r \in Runs, LaunchDaemon(r) PROVE InvImage'
  BY <1>4 DEF LaunchDaemon, InvImage
<1>5. ASSUME NEW r \in Runs,
             CopyKilled(r) \/ LaunchInContainer(r) \/ Detach(r) \/ TestStep(r) \/ GuestLogin(r)
               \/ GuestSshd(r) \/ GuestHangs(r) \/ GuestDies(r) \/ Deadline(r)
      PROVE  InvImage'
  <2>1. UNCHANGED <<src, copy, left, runs>>
    BY <1>5 DEF CopyKilled, LaunchInContainer, Detach, TestStep, Launch, Select, Dial, GiveUp, Health,
       Teardown, Reaped, GuestLogin, GuestSshd, GuestHangs, GuestDies, Deadline
  <2> QED
    BY <2>1 DEF InvImage
<1>6. ASSUME NEW p, BackgroundDies(p) PROVE InvImage'
  BY <1>6 DEF BackgroundDies, InvImage
<1>7. CASE Rebuild
  <2>1. src.gen \in 1..MaxGens /\ src.gen < MaxGens /\ MaxGens \in Nat \ {0}
    BY <1>7, BootAssumption DEF Rebuild, InvImage
  <2>2. src.gen + 1 \in 1..MaxGens /\ 1 \in 1..MaxGens
    BY ONLY <2>1
  <2>3. NoCopy \in CopyStates
    BY <2>2 DEF NoCopy, CopyStates
  <2> QED
    BY <1>7, <2>2, <2>3 DEF Rebuild, InvImage
<1>8. CASE BuildDone
  <2>1. copy' \in CopyStates /\ src' \in [gen : 1..MaxGens, whole : BOOLEAN]
    BY <1>8 DEF BuildDone, InvImage, CopyStates
  <2> QED
    BY <1>8, <2>1 DEF BuildDone, InvImage
<1>9. CASE UNCHANGED bootVars
  BY <1>9 DEF bootVars, InvImage
<1> QED
  BY <1>1, <1>2, <1>3, <1>4, <1>5, <1>6, <1>7, <1>8, <1>9 DEF BootNext

LEMMA InitBoot == BootInit => InvRuns /\ InvImage /\ InvGrow /\ InvCopy
<1> SUFFICES ASSUME BootInit PROVE InvRuns /\ InvImage /\ InvGrow /\ InvCopy
  OBVIOUS
<1>1. 1 \in 1..MaxGens /\ 0 \in 0..MaxRuns
  BY BootAssumption
<1>2. InvRuns
  BY AsleepSound DEF BootInit, InvRuns
<1>3. InvImage
  BY <1>1 DEF BootInit, InvImage, CopyStates, NoCopy
<1> QED
  BY <1>2, <1>3 DEF BootInit, InvGrow, InvCopy, NoCopy, Asleep

(* Types, that a test which passes has seen the login prompt and got its    *)
(* answer over ssh, and that it leaves no QEMU behind, for any runs and any *)
(* port forwards.                                                           *)
THEOREM BootTestSound == BootSpec => [](BootTypeOK /\ PassNeedsLogin /\ NoGuestLeft)
<1>1. InvRuns /\ InvImage => BootTypeOK /\ PassNeedsLogin /\ NoGuestLeft
  <2> SUFFICES ASSUME InvRuns, InvImage PROVE BootTypeOK /\ PassNeedsLogin /\ NoGuestLeft
    OBVIOUS
  <2>1. BootTypeOK
    BY DEF InvRuns, RunStates, InvImage, CopyStates, BootTypeOK
  <2>2. PassNeedsLogin /\ NoGuestLeft
    BY DEF InvRuns, TestSound, Answerers, PassNeedsLogin, NoGuestLeft
  <2> QED
    BY <2>1, <2>2
<1> QED
  BY <1>1, InitBoot, NextRuns, NextImage, PTL DEF BootSpec

LEMMA MinExists == ASSUME NEW S \in SUBSET Nat, S # {} PROVE Min(S) \in S /\ \A y \in S : Min(S) <= y
BY LeastExists DEF Min

(* The host port a test dials is one its own guest has. *)
LEMMA SshPortBound ==
  ASSUME NEW r \in Runs, HasSshPort(r)
  PROVE  sshHostPort(r) \in HostPorts[r]
<1>1. PICK own \in Seq(Forwards) : own = Wanted(r)
  <2>1. SavedPorts \o Extra[r] \in Seq(Forwards)
    BY BootAssumption, ConcatProperties
  <2> QED
    BY ONLY <2>1 DEF Wanted
<1>2. PICK t : t = Ports[r]
  OBVIOUS
<1>3. t \in Seq(Forwards)
  BY <1>1, <1>2, BootAssumption, MergeSeq DEF Ports
<1> DEFINE S == {i \in DOMAIN t : t[i].guest = SshPort}
<1>4. S \in SUBSET Nat /\ S # {}
  <2>1. DOMAIN t = 1 .. Len(t) /\ Len(t) \in Nat
    BY <1>3
  <2>2. PICK f \in Range(t) : f.guest = SshPort
    BY <1>2 DEF HasSshPort
  <2> QED
    BY <2>1, <2>2 DEF Range
<1>5. Min(S) \in DOMAIN t
  <2> HIDE DEF S
  <2>1. Min(S) \in S
    BY <1>4, MinExists
  <2> QED
    BY <2>1 DEF S
<1>6. sshHostPort(r) = t[Min(S)].host
  BY <1>2 DEF sshHostPort
<1>7. t[Min(S)] \in Range(t)
  <2> HIDE DEF S
  <2> QED
    BY <1>5 DEF Range
<1> HIDE DEF S
<1> QED
  BY <1>2, <1>6, <1>7 DEF HostPorts

(* Two guests that run have no host port in common, and a test whose answer *)
(* is another guest's has none of its own any more.                         *)
Answered(x) == x.pc = "health" \/ x.verdict = "pass"
InvGuests ==
    /\ \A r, q \in Runs : r # q /\ run[r].guest = "up" /\ run[q].guest = "up" =>
         HostPorts[r] \cap HostPorts[q] = {}
    /\ \A r \in Runs : Answered(run[r]) /\ run[r].peer # r => run[r].guest = "dead"

(* A guest starts where all its ports are free, and only a dial finds the   *)
(* guest that answers.                                                      *)
LEMMA GuestStep ==
  ASSUME InvRuns, NEW r \in Runs, RunStep(r)
  PROVE  /\ run'[r].guest = "up" => run[r].guest = "up" \/ checkQEMUPortsFree(r)
         /\ \/ ~Answered(run'[r])
            \/ Dial(r)
            \/ /\ Answered(run[r]) /\ run'[r].peer = run[r].peer
               /\ run'[r].guest \in {run[r].guest, "dead"}
<1> DEFINE Goal == /\ run'[r].guest = "up" => run[r].guest = "up" \/ checkQEMUPortsFree(r)
                   /\ \/ ~Answered(run'[r])
                      \/ Dial(r)
                      \/ /\ Answered(run[r]) /\ run'[r].peer = run[r].peer
                         /\ run'[r].guest \in {run[r].guest, "dead"}
<1>0. run \in [Runs -> RunStates] /\ run[r] \in RunStates
  BY DEF InvRuns
<1>1. ASSUME NEW t \in BOOLEAN, RunQEMU(r, t) PROVE Goal
  BY <1>0, <1>1 DEF RunQEMU, Asleep, Answered
<1>2. CASE ensureGrownQEMUImage(r)
  BY <1>0, <1>2 DEF ensureGrownQEMUImage, RunStates, Answered
<1>3. CASE CopyDone(r) \/ CopyKilled(r)
  BY <1>0, <1>3 DEF CopyDone, CopyKilled, RunStates, Asleep, Answered
<1>4. CASE LaunchDaemon(r) \/ LaunchInContainer(r) \/ Detach(r)
  BY <1>0, <1>4 DEF LaunchDaemon, LaunchInContainer, Detach, Asleep, Answered
<1>5. CASE Reaped(r)
  <2>1. /\ Asleep.pc = "idle" /\ Asleep.guest = "none" /\ Asleep.verdict = "none"
        /\ [Asleep EXCEPT !.guest = "up", !.slow = TRUE].pc = "idle"
        /\ [Asleep EXCEPT !.guest = "up", !.slow = TRUE].verdict = "none"
    BY DEF Asleep
  <2>2. \/ run'[r] = Asleep
        \/ run[r].guest = "up" /\ run'[r] = [Asleep EXCEPT !.guest = "up", !.slow = TRUE]
    BY <1>0, <1>5 DEF Reaped
  <2> QED
    BY <2>1, <2>2 DEF Answered
<1>6. CASE Launch(r)
  <2>1. run'[r].guest = Boot(r) /\ run'[r].pc \in {"boot", "attached"} /\ run'[r].verdict = run[r].verdict
    BY <1>0, <1>6 DEF Launch, RunStates
  <2>2. run[r].verdict = "none"
    BY <1>6 DEF InvRuns, TestSound, Launch
  <2> QED
    BY <2>1, <2>2 DEF Answered, Boot, Starts
<1>7. CASE Select(r) \/ GiveUp(r) \/ Health(r) \/ Teardown(r)
  BY <1>0, <1>7 DEF Select, GiveUp, Health, Teardown, Fail, RunStates, Answered
<1>8. CASE Dial(r)
  BY <1>0, <1>8 DEF Dial, RunStates
<1>9. CASE GuestLogin(r) \/ GuestSshd(r) \/ GuestHangs(r) \/ GuestDies(r) \/ Deadline(r)
  BY <1>0, <1>9 DEF GuestLogin, GuestSshd, GuestHangs, GuestDies, Deadline, RunStates, Answered
<1> QED
  BY <1>1, <1>2, <1>3, <1>4, <1>5, <1>6, <1>7, <1>8, <1>9 DEF RunStep, TestStep

LEMMA NextGuests == InvRuns /\ InvGuests /\ [BootNext]_bootVars => InvGuests'
<1> SUFFICES ASSUME InvRuns, InvGuests, [BootNext]_bootVars PROVE InvGuests'
  OBVIOUS
<1>1. ASSUME NEW r \in Runs, RunStep(r) PROVE InvGuests'
  <2>0. run \in [Runs -> RunStates] /\ run[r] \in RunStates
    BY DEF InvRuns
  <2>1. PICK x \in RunStates : run' = [run EXCEPT ![r] = x]
    BY <1>1, RunStepSound
  <2>2. run'[r] = x /\ \A q \in Runs : q # r => run'[q] = run[q]
    BY <2>0, <2>1
  <2>3. ASSUME NEW q \in Runs, q # r, run'[r].guest = "up", run'[q].guest = "up"
        PROVE  HostPorts[r] \cap HostPorts[q] = {}
    <3>1. run[q].guest = "up"
      BY <2>2, <2>3
    <3>2. CASE run[r].guest = "up"
      BY <2>3, <3>1, <3>2 DEF InvGuests
    <3>3. CASE checkQEMUPortsFree(r)
      <4>1. HostPorts[q] = Bound(q)
        BY <3>1 DEF Bound
      <4>2. HostPorts[q] \subseteq Held
        BY <4>1 DEF Held
      <4> QED
        BY <3>3, <4>2 DEF checkQEMUPortsFree
    <3> QED
      BY <1>1, <2>3, <3>2, <3>3, GuestStep
  <2>4. ASSUME Answered(run'[r]), run'[r].peer # r PROVE run'[r].guest = "dead"
    <3>1. CASE Dial(r)
      <4>1. PICK q \in Answering(r) : run' = [run EXCEPT ![r].pc = "health", ![r].peer = q]
        BY <3>1 DEF Dial
      <4>2. q # r /\ run'[r].guest = run[r].guest
        BY <2>0, <2>4, <4>1 DEF RunStates
      <4>3. q \in Runs /\ run[q].guest = "up" /\ sshHostPort(r) \in HostPorts[q]
        BY DEF Answering, Answerers, HostPorts
      <4>4. run[r].guest # "none" /\ HasSshPort(r)
        BY <3>1 DEF InvRuns, TestSound, Dial
      <4>5. run[r].guest # "up"
        BY <4>2, <4>3, <4>4, SshPortBound DEF InvGuests
      <4> QED
        BY <2>0, <4>2, <4>4, <4>5 DEF RunStates, Guests
    <3>2. CASE /\ Answered(run[r]) /\ run'[r].peer = run[r].peer
               /\ run'[r].guest \in {run[r].guest, "dead"}
      BY <2>4, <3>2 DEF InvGuests
    <3> QED
      BY <1>1, <2>4, <3>1, <3>2, GuestStep
  <2> QED
    BY <2>2, <2>3, <2>4 DEF InvGuests
<1>2. CASE run' = run
  BY <1>2 DEF InvGuests
<1> QED
  BY <1>1, <1>2 DEF BootNext, RunStep, BackgroundDies, Rebuild, BuildDone, bootVars

(* The same, and that the answer is the guest's own as long as it has one,  *)
(* for any runs and any port forwards, the same ones included: the ports    *)
(* that are asked for are free when a guest starts, so no other is behind   *)
(* them before it dies.                                                     *)
THEOREM BootInvHolds == BootSpec => []BootInv
<1>1. InvRuns /\ InvGuests => PassIsOwnGuest
  <2> SUFFICES ASSUME InvRuns, InvGuests, NEW r \in Runs, run[r].verdict = "pass", run[r].peer # r
               PROVE  run[r].guest = "dead"
    BY DEF PassIsOwnGuest
  <2> QED
    BY DEF InvGuests, Answered
<1>2. BootTypeOK /\ PassNeedsLogin /\ NoGuestLeft /\ PassIsOwnGuest => BootInv
  BY DEF BootInv
<1>3. BootInit => InvGuests
  BY DEF BootInit, InvGuests, Answered, Asleep
<1>4. BootSpec => [](InvRuns /\ InvGuests)
  BY <1>3, InitBoot, NextRuns, NextGuests, PTL DEF BootSpec
<1> QED
  BY <1>1, <1>2, <1>4, BootTestSound, PTL

(* The copy and who makes it. *)
LEMMA NextCopy ==
  ASSUME OneGrower, InvRuns, InvImage, InvGrow, InvCopy, [BootNext]_bootVars
  PROVE  InvGrow' /\ InvCopy'
<1>1. InvGrow'
  <2>1. ASSUME NEW r \in Runs, RunStep(r), NEW q \in Runs, run'[q].pc \in {"grow", "copy"}
        PROVE  q \in Grow
    <3>1. PICK x \in RunStates : run' = [run EXCEPT ![r] = x]
      BY <2>1, RunStepSound
    <3>2. CASE q # r
      BY <2>1, <3>1, <3>2 DEF InvRuns, InvGrow
    <3>3. CASE q = r
      <4>1. run[r] \in RunStates /\ run \in [Runs -> RunStates]
        BY DEF InvRuns
      <4>2. \/ run'[r].pc = run[r].pc \/ run[r].pc \in {"grow", "copy"}
            \/ r \in Grow \/ run'[r].pc \notin {"grow", "copy"}
        <5>1. ASSUME NEW t \in BOOLEAN, RunQEMU(r, t) PROVE r \in Grow \/ run'[r].pc \notin {"grow", "copy"}
          BY <4>1, <5>1 DEF RunQEMU, Asleep
        <5>2. CASE ensureGrownQEMUImage(r) \/ CopyDone(r) \/ CopyKilled(r)
          BY <5>2 DEF ensureGrownQEMUImage, CopyDone, CopyKilled
        <5>3. CASE LaunchDaemon(r) \/ LaunchInContainer(r) \/ Detach(r)
          BY <4>1, <5>3 DEF LaunchDaemon, LaunchInContainer, Detach, Asleep
        <5>8. CASE Reaped(r)
          <6>1. Asleep.pc = "idle" /\ [Asleep EXCEPT !.guest = "up", !.slow = TRUE].pc = "idle"
            BY DEF Asleep
          <6> QED
            BY <4>1, <5>8, <6>1 DEF Reaped
        <5>4. CASE Launch(r)
          BY <4>1, <5>4 DEF Launch, RunStates
        <5>5. CASE Select(r) \/ GiveUp(r) \/ Health(r) \/ Teardown(r)
          BY <4>1, <5>5 DEF Select, GiveUp, Health, Teardown, Fail, RunStates
        <5>7. CASE Dial(r)
          BY <4>1, <5>7 DEF Dial, RunStates
        <5>6. CASE GuestLogin(r) \/ GuestSshd(r) \/ GuestHangs(r) \/ GuestDies(r) \/ Deadline(r)
          BY <4>1, <5>6 DEF GuestLogin, GuestSshd, GuestHangs, GuestDies, Deadline, RunStates
        <5> QED
          BY <2>1, <5>1, <5>2, <5>3, <5>4, <5>5, <5>6, <5>7, <5>8 DEF RunStep, TestStep
      <4> QED
        BY <2>1, <3>3, <4>2 DEF InvGrow
    <3> QED
      BY <3>2, <3>3
  <2>2. CASE run' = run
    BY <2>2 DEF InvGrow
  <2> QED
    BY <2>1, <2>2 DEF InvGrow, BootNext, RunStep, BackgroundDies, Rebuild, BuildDone, bootVars
<1>2. InvCopy'
  <2>0. copy \in CopyStates /\ src \in [gen : 1..MaxGens, whole : BOOLEAN] /\ run \in [Runs -> RunStates]
    BY DEF InvImage, InvRuns
  <2>1. ASSUME NEW r \in Runs, ensureGrownQEMUImage(r) PROVE InvCopy'
    <3>1. r \in Grow /\ src' = src
      BY <2>1 DEF InvGrow, ensureGrownQEMUImage
    <3>2. \A q \in Grow : q = r
      BY <3>1 DEF OneGrower
    <3>3. CASE Reusable
      <4>1. copy' = copy /\ run'[r].pc = "launch"
        BY <2>0, <2>1, <3>3 DEF ensureGrownQEMUImage, RunStates
      <4> QED
        BY <3>1, <3>2, <4>1 DEF InvCopy
    <3>4. CASE ~Reusable
      <4>1. copy' = [st |-> "partial", by |-> r, full |-> FALSE, gen |-> src.gen,
                     whole |-> src.whole, straddles |-> FALSE, newer |-> TRUE]
        BY <2>1, <3>4 DEF ensureGrownQEMUImage
      <4> QED
        BY <3>1, <4>1 DEF InvCopy
    <3> QED
      BY <3>3, <3>4
  <2>2. ASSUME NEW r \in Runs, CopyDone(r) PROVE InvCopy'
    <3>1. r \in Grow /\ src' = src
      BY <2>2 DEF InvGrow, CopyDone
    <3>2. \A q \in Grow : q = r
      BY <3>1 DEF OneGrower
    <3>3. run'[r].pc # "copy"
      <4>1. CASE copy.st = "none"
        BY <2>0, <2>2, <4>1 DEF CopyDone, Asleep
      <4>2. CASE copy.st # "none"
        <5>1. run' = [run EXCEPT ![r] = [run[r] EXCEPT !.pc = "launch"]] /\ run[r] \in RunStates
          BY <2>0, <2>2, <4>2 DEF CopyDone
        <5> QED
          BY <2>0, <5>1 DEF RunStates
      <4> QED
        BY <4>1, <4>2
    <3>4. CASE copy.st = "none"
      BY <2>2, <3>1, <3>2, <3>3, <3>4 DEF CopyDone, InvCopy
    <3>5. CASE copy.st # "none"
      <4>1. copy.by = r /\ copy.st = "partial"
        BY <2>0, <2>2, <3>1, <3>2, <3>5 DEF InvCopy, CopyDone, CopyStates
      <4>2. copy' = [copy EXCEPT !.st = "grown", !.full = copy.full \/ copy.by = r,
                                 !.newer = copy.newer \/ copy.st = "partial" \/ copy.by = r]
        BY <2>2, <3>5 DEF CopyDone
      <4>3. /\ copy'.st = "grown" /\ copy'.by = copy.by /\ copy'.gen = copy.gen
            /\ copy'.whole = copy.whole /\ copy'.straddles = copy.straddles /\ copy'.full
        BY <2>0, <4>1, <4>2 DEF CopyStates
      <4>4. /\ copy.by \in Grow /\ copy.gen = src.gen
            /\ src.whole => copy.whole \/ copy.straddles
        BY <4>1 DEF InvCopy
      <4>5. (copy.by \in Grow /\ copy.gen = src.gen)'
        BY <3>1, <4>3, <4>4
      <4>6. (src.whole => copy.whole \/ copy.straddles)'
        BY <3>1, <4>3, <4>4
      <4>7. (\A q \in Grow : run[q].pc # "copy")'
        BY <3>2, <3>3
      <4> QED
        BY <4>3, <4>5, <4>6, <4>7 DEF InvCopy
    <3> QED
      BY <3>4, <3>5
  <2>3. CASE Rebuild
    BY <2>3 DEF Rebuild, NoCopy, InvCopy
  <2>4. CASE BuildDone
    <3>1. /\ copy'.st = copy.st /\ copy'.by = copy.by /\ copy'.gen = copy.gen /\ copy'.full = copy.full
          /\ ~copy'.newer /\ src'.gen = src.gen /\ run' = run
          /\ copy.st = "partial" => copy'.straddles
      BY <2>0, <2>4 DEF BuildDone, CopyStates
    <3> QED
      BY <3>1 DEF InvCopy
  <2>5. ASSUME NEW r \in Runs, UNCHANGED <<src, copy>>, run'[r].pc # "copy" \/ run[r].pc = "copy",
               \A q \in Runs : q # r => run'[q] = run[q]
        PROVE  InvCopy'
    BY <2>5, BootAssumption DEF InvCopy
  <2>6. CASE UNCHANGED <<src, copy, run>>
    BY <2>6 DEF InvCopy
  <2>7. ASSUME NEW r \in Runs, RunStep(r), ~ensureGrownQEMUImage(r), ~CopyDone(r) PROVE InvCopy'
    <3>1. PICK x \in RunStates : run' = [run EXCEPT ![r] = x]
      BY <2>7, RunStepSound
    <3>2. \A q \in Runs : q # r => run'[q] = run[q]
      BY <2>0, <3>1
    <3>3. UNCHANGED <<src, copy>>
      BY <2>7 DEF RunStep, RunQEMU, CopyKilled, LaunchDaemon, LaunchInContainer, Detach, TestStep,
         Launch, Select, Dial, GiveUp, Health, Teardown, Reaped, GuestLogin, GuestSshd, GuestHangs,
         GuestDies, Deadline
    <3>4. run'[r].pc # "copy" \/ run[r].pc = "copy"
      <4>1. ASSUME NEW t \in BOOLEAN, RunQEMU(r, t) PROVE run'[r].pc # "copy"
        BY <2>0, <4>1 DEF RunQEMU, Asleep
      <4>2. CASE CopyKilled(r) \/ LaunchDaemon(r) \/ LaunchInContainer(r) \/ Detach(r)
        BY <2>0, <4>2 DEF CopyKilled, LaunchDaemon, LaunchInContainer, Detach, Asleep
      <4>3. CASE Reaped(r)
        <5>1. Asleep.pc = "idle" /\ [Asleep EXCEPT !.guest = "up", !.slow = TRUE].pc = "idle"
          BY DEF Asleep
        <5> QED
          BY <2>0, <4>3, <5>1 DEF Reaped
      <4>4. CASE Launch(r)
        BY <2>0, <4>4 DEF Launch, RunStates
      <4>5. CASE Select(r) \/ GiveUp(r) \/ Health(r) \/ Teardown(r)
        BY <2>0, <4>5 DEF Select, GiveUp, Health, Teardown, Fail, RunStates
      <4>6. CASE Dial(r)
        BY <2>0, <4>6 DEF Dial, RunStates
      <4>7. CASE GuestLogin(r) \/ GuestSshd(r) \/ GuestHangs(r) \/ GuestDies(r) \/ Deadline(r)
        BY <2>0, <4>7 DEF GuestLogin, GuestSshd, GuestHangs, GuestDies, Deadline, RunStates
      <4> QED
        BY <2>7, <4>1, <4>2, <4>3, <4>4, <4>5, <4>6, <4>7 DEF RunStep, TestStep
    <3> QED
      BY <2>5, <3>2, <3>3, <3>4
  <2> QED
    BY <2>1, <2>2, <2>3, <2>4, <2>6, <2>7 DEF BootNext, RunStep, BackgroundDies, bootVars
<1> QED
  BY <1>1, <1>2

(* With one run that grows the image, a guest never starts on a copy that   *)
(* was cut short or is of an earlier build, and no copy of an incomplete    *)
(* image is used again once the image is complete, although the copy is     *)
(* written in place, may be left half written by a killed run, and is       *)
(* recognised by its size and date.                                         *)
THEOREM BootsWholeCopyHolds ==
  ASSUME OneGrower
  PROVE  BootSpec => BootsWholeCopy
<1> DEFINE Inv == InvRuns /\ InvImage /\ InvGrow /\ InvCopy
           Step == \A r \in Grow : run[r].pc \in {"grow", "copy"} /\ run'[r].pc = "launch" =>
                      /\ copy'.full /\ copy'.gen = src.gen
                      /\ run[r].pc = "grow" /\ src.whole => copy'.whole \/ copy'.straddles
<1>1. BootInit => Inv
  BY InitBoot
<1>2. Inv /\ [BootNext]_bootVars => Inv'
  BY NextRuns, NextImage, NextCopy
<1>3. Inv /\ [BootNext]_bootVars => [Step]_bootVars
  <2> SUFFICES ASSUME Inv, BootNext, NEW r \in Grow, run[r].pc \in {"grow", "copy"}, run'[r].pc = "launch"
               PROVE  /\ copy'.full /\ copy'.gen = src.gen
                      /\ run[r].pc = "grow" /\ src.whole => copy'.whole \/ copy'.straddles
    OBVIOUS
  <2>0. r \in Runs /\ run \in [Runs -> RunStates] /\ run[r] \in RunStates /\ run[r].pc # "launch"
    BY BootAssumption DEF InvRuns
  <2>1. PICK q \in Runs : RunStep(q)
    <3>1. run' # run
      BY <2>0
    <3> QED
      BY <3>1 DEF BootNext, RunStep, BackgroundDies, Rebuild, BuildDone
  <2>2. PICK x \in RunStates : run' = [run EXCEPT ![q] = x]
    BY <2>1, RunStepSound
  <2>3. q = r
    BY <2>0, <2>2
  <2>4. ensureGrownQEMUImage(r) \/ CopyDone(r)
    <3>1. ~RunQEMU(r, TRUE) /\ ~RunQEMU(r, FALSE)
      BY DEF RunQEMU
    <3>2. ~CopyKilled(r)
      BY <2>0 DEF CopyKilled, Asleep
    <3>3. ~LaunchDaemon(r) /\ ~LaunchInContainer(r) /\ ~Detach(r) /\ ~TestStep(r)
      BY DEF LaunchDaemon, LaunchInContainer, Detach, TestStep, Launch, Select, Dial, GiveUp, Health,
         Teardown, Reaped
    <3>4. ~GuestLogin(r) /\ ~GuestSshd(r) /\ ~GuestHangs(r) /\ ~GuestDies(r) /\ ~Deadline(r)
      BY <2>0 DEF GuestLogin, GuestSshd, GuestHangs, GuestDies, Deadline, RunStates
    <3> QED
      BY <2>1, <2>3, <3>1, <3>2, <3>3, <3>4 DEF RunStep
  <2>5. CASE ensureGrownQEMUImage(r)
    <3>1. Reusable /\ copy' = copy
      BY <2>0, <2>5 DEF ensureGrownQEMUImage, RunStates
    <3> QED
      BY <3>1 DEF Reusable, InvCopy
  <2>6. CASE CopyDone(r)
    <3>1. copy.st # "none"
      BY <2>0, <2>6 DEF CopyDone, Asleep
    <3>2. /\ run[r].pc = "copy"
          /\ copy' = [copy EXCEPT !.st = "grown", !.full = copy.full \/ copy.by = r,
                                  !.newer = copy.newer \/ copy.st = "partial" \/ copy.by = r]
      BY <2>6, <3>1 DEF CopyDone
    <3>3. copy.by = r /\ copy.gen = src.gen
      BY <3>1 DEF InvCopy, OneGrower
    <3>4. copy'.full /\ copy'.gen = copy.gen
      BY <3>2, <3>3 DEF InvImage, CopyStates
    <3> QED
      BY <3>2, <3>3, <3>4
  <2> QED
    BY <2>4, <2>5, <2>6
<1> QED
  BY <1>1, <1>2, <1>3, PTL DEF BootSpec, BootsWholeCopy

(* The forwards of a run are among those its user may expect, if the        *)
(* machine declares one of a guest port.                                    *)
LEMMA PortsExpected ==
  ASSUME ForwardsApart(MachinePorts), NEW r \in Runs, NEW f \in Range(Ports[r])
  PROVE  f \in Expected(r)
<1>1. MachinePorts \in Seq(Forwards) /\ SavedPorts \in Seq(Forwards) /\ Extra[r] \in Seq(Forwards)
  BY BootAssumption
<1>2. PICK kept \in Seq(Forwards) : kept = SavedPorts
  BY <1>1
<1>3. PICK extra \in Seq(Forwards) : extra = Extra[r]
  BY <1>1
<1>4. PICK own \in Seq(Forwards) : own = kept \o extra
  <2>1. kept \o extra \in Seq(Forwards)
    BY ConcatProperties
  <2> QED
    BY ONLY <2>1
<1>5. PICK t : t = MergeQEMUPorts(MachinePorts, own) /\ t = Ports[r]
  BY <1>2, <1>3, <1>4 DEF Ports, Wanted
<1>6. t \in Seq(Forwards) /\ \A q : In(q, t) <=> Survives(q, MachinePorts, own, Len(own))
  BY <1>1, <1>4, <1>5, MergeSound
<1>n. PICK m \in Nat, n \in Nat : /\ m = Len(kept) /\ n = Len(extra) /\ Len(own) = m + n
                                  /\ DOMAIN kept = 1 .. m /\ DOMAIN extra = 1 .. n
  BY <1>4
<1>7. /\ \A i \in 1 .. m : i \in 1 .. (m + n) /\ own[i] = kept[i]
      /\ \A i \in 1 .. n : m + i \in 1 .. (m + n) /\ own[m + i] = extra[i]
  BY <1>4, <1>n
<1>8. Survives(f, MachinePorts, own, m + n)
  <2>1. In(f, t)
    BY <1>5, <1>6 DEF Range, In
  <2> QED
    BY <1>6, <1>n, <2>1
<1>9. Range(kept) = {kept[i] : i \in 1 .. m} /\ Range(extra) = {extra[i] : i \in 1 .. n}
  BY <1>n DEF Range
<1>10. CASE \E j \in 1 .. (m + n) : own[j] = f /\ \A i \in (j + 1) .. (m + n) : own[i].guest # f.guest
  <2>1. PICK j \in 1 .. (m + n) : own[j] = f /\ \A i \in (j + 1) .. (m + n) : own[i].guest # f.guest
    BY <1>10
  <2>2. CASE j \in 1 .. m
    <3>1. \A i \in 1 .. n : m + i \in (j + 1) .. (m + n)
      BY <2>2
    <3>2. \A i \in 1 .. n : extra[i].guest # f.guest
      BY <1>7, <2>1, <3>1
    <3>3. f \in Range(kept)
      BY <1>7, <1>9, <2>1, <2>2
    <3>4. f \in Unless(SavedPorts, Range(Extra[r]))
      BY <1>2, <1>3, <1>9, <3>2, <3>3 DEF Unless
    <3> QED
      BY <3>4 DEF Expected
  <2>3. CASE j \notin 1 .. m
    <3>1. PICK i \in 1 .. n : j = m + i
      <4>1. j - m \in 1 .. n /\ j = m + (j - m)
        BY <2>3
      <4> QED
        BY <4>1
    <3>2. f \in Range(Extra[r])
      BY <1>3, <1>7, <1>9, <2>1, <3>1
    <3> QED
      BY <3>2 DEF Expected
  <2> QED
    BY <2>2, <2>3
<1>11. CASE In(f, MachinePorts) /\ \A i \in 1 .. (m + n) : own[i].guest # f.guest
  <2>1. (\A g \in Range(kept) : g.guest # f.guest) /\ \A g \in Range(extra) : g.guest # f.guest
    BY <1>7, <1>9, <1>11
  <2>2. f \in Range(MachinePorts)
    BY <1>1, <1>11 DEF In, Range
  <2>3. f \in Unless(MachinePorts, Range(Extra[r]) \union Unless(SavedPorts, Range(Extra[r])))
    BY <1>2, <1>3, <2>1, <2>2 DEF Unless
  <2> QED
    BY <2>3 DEF Expected
<1> QED
  BY <1>8, <1>10, <1>11 DEF Survives

(* A run has no guest before it starts one. *)
InvUnstarted == \A r \in Runs : run[r].pc \in {"grow", "copy", "launch"} => run[r].guest = "none"

LEMMA NextUnstarted == InvRuns /\ InvUnstarted /\ [BootNext]_bootVars => InvUnstarted'
<1> SUFFICES ASSUME InvRuns, InvUnstarted, [BootNext]_bootVars PROVE InvUnstarted'
  OBVIOUS
<1>1. ASSUME NEW r \in Runs, RunStep(r) PROVE InvUnstarted'
  <2>0. run \in [Runs -> RunStates] /\ run[r] \in RunStates
    BY DEF InvRuns
  <2>1. PICK x \in RunStates : run' = [run EXCEPT ![r] = x]
    BY <1>1, RunStepSound
  <2>2. x = run'[r]
    BY <2>0, <2>1
  <2>3. x.pc \in {"grow", "copy", "launch"} => x.guest = "none"
    <3>1. ASSUME NEW t \in BOOLEAN, RunQEMU(r, t) PROVE x.guest = "none"
      BY <2>0, <2>2, <3>1 DEF RunQEMU, Asleep
    <3>2. CASE ensureGrownQEMUImage(r)
      BY <2>0, <2>2, <3>2 DEF ensureGrownQEMUImage, RunStates, InvUnstarted
    <3>3. CASE CopyDone(r) \/ CopyKilled(r)
      BY <2>0, <2>2, <3>3 DEF CopyDone, CopyKilled, RunStates, InvUnstarted, Asleep
    <3>4. CASE LaunchDaemon(r) \/ LaunchInContainer(r) \/ Detach(r)
      BY <2>0, <2>2, <3>4 DEF LaunchDaemon, LaunchInContainer, Detach, Asleep
    <3>5. CASE Reaped(r)
      <4>1. Asleep.pc = "idle" /\ [Asleep EXCEPT !.guest = "up", !.slow = TRUE].pc = "idle"
        BY DEF Asleep
      <4> QED
        BY <2>0, <2>2, <3>5, <4>1 DEF Reaped
    <3>6. CASE Launch(r)
      BY <2>0, <2>2, <3>6 DEF Launch, RunStates
    <3>7. CASE Select(r) \/ GiveUp(r) \/ Health(r) \/ Teardown(r)
      BY <2>0, <2>2, <3>7 DEF Select, GiveUp, Health, Teardown, Fail, RunStates
    <3>8. CASE Dial(r)
      BY <2>0, <2>2, <3>8 DEF Dial, RunStates
    <3>9. CASE GuestLogin(r) \/ GuestSshd(r) \/ GuestHangs(r) \/ GuestDies(r) \/ Deadline(r)
      BY <2>0, <2>2, <3>9 DEF GuestLogin, GuestSshd, GuestHangs, GuestDies, Deadline, RunStates, InvUnstarted
    <3> QED
      BY <1>1, <3>1, <3>2, <3>3, <3>4, <3>5, <3>6, <3>7, <3>8, <3>9 DEF RunStep, TestStep
  <2> QED
    BY <2>0, <2>1, <2>3 DEF InvUnstarted
<1>2. CASE run' = run
  BY <1>2 DEF InvUnstarted
<1> QED
  BY <1>1, <1>2 DEF BootNext, RunStep, BackgroundDies, Rebuild, BuildDone, bootVars

(* Every QEMU starts on a whole, current copy of the image, and one that    *)
(* cannot bind a port finds a forward taken that its user may expect: a     *)
(* forward of the machine that was moved by a saved setting or by --port    *)
(* does not collide where it was, whatever the forwards are.  With one run  *)
(* that grows the image and a machine that declares one forward of a guest  *)
(* port.                                                                    *)
THEOREM LaunchSoundHolds ==
  ASSUME OneGrower, ForwardsApart(MachinePorts)
  PROVE  BootSpec => LaunchSound
<1> DEFINE Step == \A r \in Runs : run[r].pc = "launch" /\ run'[r].guest = "dead" =>
                      \/ r \in Grow /\ copy.st # "grown"
                      \/ \E f \in Expected(r) : f.host \in Held
           Inv == InvRuns /\ InvUnstarted
<1>1. BootInit => Inv
  BY InitBoot DEF BootInit, InvUnstarted, Asleep
<1>2. Inv /\ [BootNext]_bootVars => Inv'
  BY NextRuns, NextUnstarted
<1>3. Inv /\ [BootNext]_bootVars => [Step]_bootVars
  <2> SUFFICES ASSUME Inv, BootNext, NEW r \in Runs, run[r].pc = "launch", run'[r].guest = "dead"
               PROVE  (r \in Grow /\ copy.st # "grown") \/ \E f \in Expected(r) : f.host \in Held
    OBVIOUS
  <2>0. run \in [Runs -> RunStates] /\ run[r] \in RunStates /\ run[r].guest = "none"
    BY DEF InvRuns, InvUnstarted
  <2>1. PICK q \in Runs : RunStep(q)
    <3>1. run' # run
      BY <2>0
    <3> QED
      BY <3>1 DEF BootNext, RunStep, BackgroundDies, Rebuild, BuildDone
  <2>2. PICK x \in RunStates : run' = [run EXCEPT ![q] = x]
    BY <2>1, RunStepSound
  <2>3. q = r
    BY <2>0, <2>2
  <2>4. Launch(r)
    <3>1. ~RunQEMU(r, TRUE) /\ ~RunQEMU(r, FALSE)
      BY DEF RunQEMU
    <3>2. ~CopyDone(r) /\ ~CopyKilled(r) /\ ~ensureGrownQEMUImage(r)
      BY DEF CopyDone, CopyKilled, ensureGrownQEMUImage
    <3>3. ~LaunchDaemon(r) /\ ~LaunchInContainer(r)
      BY <2>0 DEF LaunchDaemon, LaunchInContainer, Asleep
    <3>4. ~Detach(r) /\ ~Select(r) /\ ~Dial(r) /\ ~GiveUp(r) /\ ~Health(r) /\ ~Teardown(r) /\ ~Reaped(r)
      BY DEF Detach, Select, Dial, GiveUp, Health, Teardown, Reaped
    <3>5. ~GuestLogin(r) /\ ~GuestSshd(r) /\ ~GuestHangs(r) /\ ~GuestDies(r)
      BY <2>0 DEF GuestLogin, GuestSshd, GuestHangs, GuestDies
    <3>6. ~Deadline(r)
      BY <2>0 DEF Deadline, RunStates
    <3> QED
      BY <2>1, <2>3, <3>1, <3>2, <3>3, <3>4, <3>5, <3>6 DEF RunStep, TestStep
  <2>5. Boot(r) = "dead"
    BY <2>0, <2>4 DEF Launch, RunStates
  <2>6. ~checkQEMUPortsFree(r) \/ (r \in Grow /\ copy.st # "grown")
    BY <2>5 DEF Boot, Starts
  <2>7. ASSUME ~checkQEMUPortsFree(r) PROVE \E f \in Expected(r) : f.host \in Held
    <3>1. PICK h : h \in HostPorts[r] /\ h \in Held
      BY <2>7 DEF checkQEMUPortsFree
    <3>2. PICK f \in Range(Ports[r]) : f.host = h
      BY <3>1 DEF HostPorts
    <3> QED
      BY <3>1, <3>2, PortsExpected
  <2> QED
    BY <2>6, <2>7
<1>4. BootSpec => CollidesOnOwnPorts
  BY <1>1, <1>2, <1>3, PTL DEF BootSpec, CollidesOnOwnPorts
<1> QED
  BY <1>4, BootsWholeCopyHolds DEF LaunchSound

-----------------------------------------------------------------------------
(* Deploying *)

(* The commands of the script, by what they do. *)
AlpineSteps == <<"strip", "line", "line", "line", "update", "del", "add">>
DebianSteps == <<"list", "pin", "update", "install">>
Deeds == {"strip", "line", "update", "del", "add", "list", "pin", "install"}
ScriptCommands == [do : Deeds, arg : BlockNames \union {"none"} \union Lines]
Sessions == [op : Ops \union {"none"}, st : {"idle", "build", "feed", "run", "ok", "failed"},
             name : BlockNames \union {"none"}, url : Urls \union {"none"},
             script : Seq(ScriptCommands), want : Nat]

(* The script has k commands behind it. *)
Behind(steps, k) ==
    /\ Len(ses.script) = Len(steps) - k
    /\ \A i \in 1 .. Len(ses.script) : ses.script[i].do = steps[i + k]

InvVersions ==
    /\ ses \in Sessions
    /\ built \in [file : Nat, idx : Nat] /\ built.idx <= built.file
    /\ fetched \in Nat /\ pkg \in Nat

Deploying == ses.op \in {"deploy", "view"}

(* The repository's index has what the deploy built; past the update the    *)
(* device knows it; on Alpine the package is gone before it is added.       *)
InvDeploy ==
    Deploying =>
        /\ ses.st \in {"feed", "run"} => ses.want <= built.idx
        /\ ses.st = "run" /\ distro = "alpine" =>
             \E k \in 0 .. 6 : /\ Behind(AlpineSteps, k)
                               /\ k >= 5 => fetched >= ses.want
                               /\ k = 6 => pkg = 0
        /\ ses.st = "run" /\ distro # "alpine" =>
             \E k \in 0 .. 3 : Behind(DebianSteps, k) /\ (k = 3 => fetched >= ses.want)
        /\ ses.st = "ok" => pkg >= ses.want

DeployInv == InvVersions /\ InvDeploy

(* One command more at the end of a script. *)
LEMMA SnocProperties ==
  ASSUME NEW S, NEW s \in Seq(S), NEW e \in S, NEW t, t = s \o <<e>>
  PROVE  /\ t \in Seq(S) /\ Len(t) = Len(s) + 1
         /\ \A i \in 1 .. Len(s) : t[i] = s[i]
         /\ t[Len(t)] = e
<1>1. t = Append(s, e)
  BY AppendIsConcat
<1> QED
  BY <1>1, AppendProperties

(* The scripts are made of these commands. *)
LEMMA AlpineScript ==
    /\ alpineDeployScript \in Seq(ScriptCommands) /\ Len(alpineDeployScript) = 7
    /\ \A i \in 1 .. 7 : alpineDeployScript[i].do = AlpineSteps[i]
<1> DEFINE s == [do |-> "strip", arg |-> "dev"]
           b == [do |-> "line", arg |-> begin("dev")]
           e == [do |-> "line", arg |-> entry("distro")]
           f == [do |-> "line", arg |-> end("dev")]
           u == [do |-> "update", arg |-> "none"]
           d == [do |-> "del", arg |-> "none"]
           a == [do |-> "add", arg |-> "none"]
<1>1. /\ s \in ScriptCommands /\ b \in ScriptCommands /\ e \in ScriptCommands /\ f \in ScriptCommands
      /\ u \in ScriptCommands /\ d \in ScriptCommands /\ a \in ScriptCommands
  BY DEF ScriptCommands, Deeds, BlockNames, Urls, Lines, begin, entry, end
<1>2. /\ s.do = "strip" /\ b.do = "line" /\ e.do = "line" /\ f.do = "line"
      /\ u.do = "update" /\ d.do = "del" /\ a.do = "add"
  OBVIOUS
<1>3. alpineDeployScript = (((<<s>> \o <<b, e, f>>) \o <<u>>) \o <<d>>) \o <<a>>
  BY DEF alpineDeployScript, apkRepoWriteBlock, apkRepoStripBlock, Do
<1> HIDE DEF s, b, e, f, u, d, a
<1>4. PICK x : x = <<s>> \o <<b, e, f>>
  OBVIOUS
<1>5. /\ x \in Seq(ScriptCommands) /\ Len(x) = 4
      /\ x[1].do = "strip" /\ x[2].do = "line" /\ x[3].do = "line" /\ x[4].do = "line"
  <2>1. /\ <<s>> \in Seq(ScriptCommands) /\ Len(<<s>>) = 1 /\ <<b, e, f>> \in Seq(ScriptCommands)
        /\ Len(<<b, e, f>>) = 3 /\ <<s>>[1] = s
        /\ <<b, e, f>>[1] = b /\ <<b, e, f>>[2] = e /\ <<b, e, f>>[3] = f
    BY <1>1
  <2>2. /\ x \in Seq(ScriptCommands) /\ Len(x) = 4
        /\ \A i \in 1 .. 4 : x[i] = IF i <= 1 THEN <<s>>[i] ELSE <<b, e, f>>[i - 1]
    BY <1>4, <2>1, ConcatProperties
  <2>3. x[1] = s /\ x[2] = b /\ x[3] = e /\ x[4] = f
    BY <2>1, <2>2
  <2> QED
    BY <1>2, <2>2, <2>3
<1>6. PICK y : y = x \o <<u>>
  OBVIOUS
<1>7. PICK z : z = y \o <<d>>
  OBVIOUS
<1>8. /\ y \in Seq(ScriptCommands) /\ Len(y) = 5
      /\ \A i \in 1 .. 4 : y[i] = x[i]
      /\ y[5] = u
  <2>0. x \in Seq(ScriptCommands) /\ u \in ScriptCommands
    BY <1>1, <1>5, <1>6
  <2>1. /\ y \in Seq(ScriptCommands) /\ Len(y) = Len(x) + 1
        /\ \A i \in 1 .. Len(x) : y[i] = x[i]
        /\ y[Len(y)] = u
    BY ONLY <2>0, <1>6, SnocProperties
  <2> QED
    BY <1>1, <1>5, <1>6, <2>1
<1>9. /\ z \in Seq(ScriptCommands) /\ Len(z) = 6
      /\ \A i \in 1 .. 5 : z[i] = y[i]
      /\ z[6] = d
  <2>0. y \in Seq(ScriptCommands) /\ d \in ScriptCommands
    BY <1>1, <1>7, <1>8
  <2>1. /\ z \in Seq(ScriptCommands) /\ Len(z) = Len(y) + 1
        /\ \A i \in 1 .. Len(y) : z[i] = y[i]
        /\ z[Len(z)] = d
    BY ONLY <2>0, <1>7, SnocProperties
  <2> QED
    BY <1>1, <1>7, <1>8, <2>1
<1>10. alpineDeployScript = z \o <<a>>
  BY <1>3, <1>4, <1>6, <1>7
<1>11. /\ alpineDeployScript \in Seq(ScriptCommands) /\ Len(alpineDeployScript) = 7
       /\ \A i \in 1 .. 6 : alpineDeployScript[i] = z[i]
       /\ alpineDeployScript[7] = a
  <2>0. z \in Seq(ScriptCommands) /\ a \in ScriptCommands
    BY <1>1, <1>9, <1>10
  <2>1. /\ alpineDeployScript \in Seq(ScriptCommands) /\ Len(alpineDeployScript) = Len(z) + 1
        /\ \A i \in 1 .. Len(z) : alpineDeployScript[i] = z[i]
        /\ alpineDeployScript[Len(alpineDeployScript)] = a
    BY ONLY <2>0, <1>10, SnocProperties
  <2> QED
    BY <1>1, <1>9, <1>10, <2>1
<1> QED
  BY <1>2, <1>5, <1>8, <1>9, <1>11 DEF AlpineSteps

LEMMA DebianScript ==
    /\ debianDeployScript \in Seq(ScriptCommands) /\ Len(debianDeployScript) = 4
    /\ \A i \in 1 .. 4 : debianDeployScript[i].do = DebianSteps[i]
<1> DEFINE l == [do |-> "list", arg |-> "none"]
           p == [do |-> "pin", arg |-> "none"]
           u == [do |-> "update", arg |-> "none"]
           n == [do |-> "install", arg |-> "none"]
<1>1. l \in ScriptCommands /\ p \in ScriptCommands /\ u \in ScriptCommands /\ n \in ScriptCommands
  BY DEF ScriptCommands, Deeds
<1>2. l.do = "list" /\ p.do = "pin" /\ u.do = "update" /\ n.do = "install"
  OBVIOUS
<1>3. debianDeployScript = ((<<l>> \o <<p>>) \o <<u>>) \o <<n>>
  BY DEF debianDeployScript, Do
<1> HIDE DEF l, p, u, n
<1>4. PICK y : y = <<l>> \o <<p>>
  OBVIOUS
<1>5. PICK z : z = y \o <<u>>
  OBVIOUS
<1>6. <<l>> \in Seq(ScriptCommands) /\ Len(<<l>>) = 1 /\ <<l>>[1] = l
  BY <1>1
<1>7. /\ y \in Seq(ScriptCommands) /\ Len(y) = 2
      /\ \A i \in 1 .. 1 : y[i] = <<l>>[i]
      /\ y[2] = p
  <2>1. /\ y \in Seq(ScriptCommands) /\ Len(y) = Len(<<l>>) + 1
        /\ \A i \in 1 .. Len(<<l>>) : y[i] = <<l>>[i]
        /\ y[Len(y)] = p
    BY <1>1, <1>4, <1>6, SnocProperties
  <2> QED
    BY <1>1, <1>4, <1>6, <2>1
<1>8. /\ z \in Seq(ScriptCommands) /\ Len(z) = 3
      /\ \A i \in 1 .. 2 : z[i] = y[i]
      /\ z[3] = u
  <2>0. y \in Seq(ScriptCommands) /\ u \in ScriptCommands
    BY <1>1, <1>5, <1>7
  <2>1. /\ z \in Seq(ScriptCommands) /\ Len(z) = Len(y) + 1
        /\ \A i \in 1 .. Len(y) : z[i] = y[i]
        /\ z[Len(z)] = u
    BY ONLY <2>0, <1>5, SnocProperties
  <2> QED
    BY <1>1, <1>5, <1>7, <2>1
<1>9. debianDeployScript = z \o <<n>>
  BY <1>3, <1>4, <1>5
<1>10. /\ debianDeployScript \in Seq(ScriptCommands) /\ Len(debianDeployScript) = 4
       /\ \A i \in 1 .. 3 : debianDeployScript[i] = z[i]
       /\ debianDeployScript[4] = n
  <2>0. z \in Seq(ScriptCommands) /\ n \in ScriptCommands
    BY <1>1, <1>8, <1>9
  <2>1. /\ debianDeployScript \in Seq(ScriptCommands) /\ Len(debianDeployScript) = Len(z) + 1
        /\ \A i \in 1 .. Len(z) : debianDeployScript[i] = z[i]
        /\ debianDeployScript[Len(debianDeployScript)] = n
    BY ONLY <2>0, <1>9, SnocProperties
  <2> QED
    BY <1>1, <1>8, <1>9, <2>1
<1> QED
  BY <1>2, <1>6, <1>7, <1>8, <1>10 DEF DebianSteps

(* The scripts of `yoe device repo` have the type of a script. *)
LEMMA RepoScripts ==
  ASSUME NEW n \in BlockNames, NEW url \in Urls
  PROVE  /\ apkRepoStripBlock(n) \in Seq(ScriptCommands)
         /\ apkRepoWriteBlock(n, url) \o Do("update") \in Seq(ScriptCommands)
<1> DEFINE s == [do |-> "strip", arg |-> n]
           b == [do |-> "line", arg |-> begin(n)]
           e == [do |-> "line", arg |-> entry(url)]
           f == [do |-> "line", arg |-> end(n)]
           u == [do |-> "update", arg |-> "none"]
<1>1. /\ s \in ScriptCommands /\ b \in ScriptCommands /\ e \in ScriptCommands /\ f \in ScriptCommands
      /\ u \in ScriptCommands
  BY DEF ScriptCommands, Deeds, Lines, begin, entry, end
<1>2. /\ apkRepoStripBlock(n) = <<s>>
      /\ apkRepoWriteBlock(n, url) \o Do("update") = (<<s>> \o <<b, e, f>>) \o <<u>>
  BY DEF apkRepoWriteBlock, apkRepoStripBlock, Do
<1> HIDE DEF s, b, e, f, u
<1>3. <<s>> \in Seq(ScriptCommands) /\ <<b, e, f>> \in Seq(ScriptCommands) /\ <<u>> \in Seq(ScriptCommands)
  BY <1>1
<1>4. <<s>> \o <<b, e, f>> \in Seq(ScriptCommands)
  BY <1>3, ConcatProperties
<1>5. (<<s>> \o <<b, e, f>>) \o <<u>> \in Seq(ScriptCommands)
  BY <1>3, <1>4, ConcatProperties
<1> QED
  BY <1>2, <1>3, <1>5

(* A script in progress takes its commands in order. *)
LEMMA ScriptAdvances ==
  ASSUME ses \in Sessions, ses.script # <<>>, ses' \in Sessions, ses'.script = Tail(ses.script),
         NEW steps \in Seq(Deeds), NEW k \in Nat, Behind(steps, k)
  PROVE  /\ Head(ses.script).do = steps[k + 1]
         /\ Behind(steps, k + 1)'
<1>1. ses.script \in Seq(ScriptCommands)
  BY DEF Sessions
<1>2. /\ Len(Tail(ses.script)) = Len(ses.script) - 1 /\ Len(ses.script) \in Nat \ {0}
      /\ \A i \in 1 .. Len(Tail(ses.script)) : Tail(ses.script)[i] = ses.script[i + 1]
  BY <1>1, HeadTailProperties, EmptySeq
<1>3. Head(ses.script) = ses.script[1] /\ 1 \in 1 .. Len(ses.script)
  BY <1>1, <1>2
<1>4. Head(ses.script).do = steps[k + 1]
  BY <1>3 DEF Behind
<1>5. Len(steps) \in Nat
  BY LenProperties
<1>6. Len(ses'.script) = Len(steps) - (k + 1)
  BY <1>2, <1>5 DEF Behind
<1>7. ASSUME NEW i \in 1 .. Len(ses'.script) PROVE ses'.script[i].do = steps[i + (k + 1)]
  <2>1. i \in Nat /\ i + 1 \in 1 .. Len(ses.script) /\ (i + 1) + k = i + (k + 1)
    BY <1>2
  <2>2. ses.script[i + 1].do = steps[(i + 1) + k]
    BY <2>1 DEF Behind
  <2> QED
    BY <1>2, <2>1, <2>2
<1> QED
  BY <1>4, <1>6, <1>7 DEF Behind

LEMMA StepsType ==
    /\ AlpineSteps \in Seq(Deeds) /\ Len(AlpineSteps) = 7
    /\ AlpineSteps[1] = "strip" /\ AlpineSteps[2] = "line" /\ AlpineSteps[3] = "line"
    /\ AlpineSteps[4] = "line" /\ AlpineSteps[5] = "update" /\ AlpineSteps[6] = "del" /\ AlpineSteps[7] = "add"
    /\ DebianSteps \in Seq(Deeds) /\ Len(DebianSteps) = 4
    /\ DebianSteps[1] = "list" /\ DebianSteps[2] = "pin" /\ DebianSteps[3] = "update"
    /\ DebianSteps[4] = "install"
  BY DEF AlpineSteps, DebianSteps, Deeds

(* One command of a deploy. *)
LEMMA CommandDeploys == DeployInv /\ Command => DeployInv'
<1> SUFFICES ASSUME InvVersions, InvDeploy, Command PROVE DeployInv'
  BY DEF DeployInv
<1> DEFINE c == Head(ses.script).do
<1>0. /\ ses \in Sessions /\ ses.script \in Seq(ScriptCommands) /\ ses.script # <<>> /\ ses.st = "run"
      /\ built \in [file : Nat, idx : Nat] /\ fetched \in Nat /\ pkg \in Nat /\ ses.want \in Nat
  BY DEF InvVersions, Sessions, Command
<1>1. /\ ses' = [ses EXCEPT !.script = Tail(ses.script), !.st = IF Len(ses.script) = 1 THEN "ok" ELSE "run"]
      /\ fetched' = (IF c = "update" THEN built.idx ELSE fetched)
      /\ pkg' = CASE c = "del" -> 0
                  [] c = "add" -> IF pkg > 0 THEN pkg ELSE fetched
                  [] c = "install" -> fetched
                  [] OTHER -> pkg
      /\ built' = built /\ distro' = distro
  BY <1>0 DEF Command
<1>2. /\ Tail(ses.script) \in Seq(ScriptCommands) /\ Len(ses.script) \in Nat \ {0}
      /\ Len(Tail(ses.script)) = Len(ses.script) - 1
  BY <1>0, HeadTailProperties, EmptySeq
<1>3. /\ ses' \in Sessions /\ ses'.script = Tail(ses.script) /\ ses'.op = ses.op /\ ses'.want = ses.want
      /\ ses'.st = IF Len(ses.script) = 1 THEN "ok" ELSE "run"
  BY <1>0, <1>1, <1>2 DEF Sessions
<1>4. fetched' \in Nat /\ pkg' \in Nat
  BY <1>0, <1>1
<1>5. InvVersions'
  BY <1>1, <1>3, <1>4 DEF InvVersions
<1>6. CASE ~Deploying
  BY <1>3, <1>5, <1>6 DEF DeployInv, InvDeploy, Deploying
<1>7. CASE Deploying /\ distro = "alpine"
  <2>1. PICK k \in 0 .. 6 : Behind(AlpineSteps, k) /\ (k >= 5 => fetched >= ses.want) /\ (k = 6 => pkg = 0)
    BY <1>0, <1>7 DEF InvDeploy
  <2>2. c = AlpineSteps[k + 1] /\ Behind(AlpineSteps, k + 1)'
    BY <1>0, <1>3, <2>1, StepsType, ScriptAdvances
  <2>3. Len(ses.script) = 7 - k /\ ses.want <= built.idx
    BY <1>0, <1>7, <2>1, StepsType DEF Behind, InvDeploy
  <2>4. CASE k = 6
    <3>1. c = "add" /\ ses'.st = "ok" /\ fetched >= ses.want /\ pkg = 0
      BY <1>3, <2>1, <2>2, <2>3, <2>4, StepsType
    <3>2. pkg' = fetched
      BY <1>0, <1>1, <3>1
    <3> QED
      BY <1>3, <1>5, <3>1, <3>2 DEF DeployInv, InvDeploy
  <2>5. CASE k # 6
    <3>1. ses'.st = "run" /\ k + 1 \in 0 .. 6
      BY <1>3, <2>3, <2>5
    <3>2. k + 1 >= 5 => fetched' >= ses.want
      <4>1. CASE k = 4
        BY <1>0, <1>1, <2>2, <2>3, <4>1, StepsType
      <4>2. CASE k = 5
        <5>1. c = "del" /\ fetched >= ses.want
          BY <2>1, <2>2, <4>2, StepsType
        <5> QED
          BY <1>1, <5>1
      <4> QED
        BY <2>5, <4>1, <4>2
    <3>3. k + 1 = 6 => pkg' = 0
      <4> SUFFICES ASSUME k = 5 PROVE pkg' = 0
        OBVIOUS
      <4>1. c = "del"
        BY <2>2, StepsType
      <4> QED
        BY <1>1, <4>1
    <3>4. ses'.want <= built'.idx
      BY <1>1, <1>3, <2>3
    <3>5. /\ \E j \in 0 .. 6 : /\ Behind(AlpineSteps, j)' /\ (j >= 5 => fetched' >= ses'.want)
                              /\ (j = 6 => pkg' = 0)
      BY <1>3, <2>2, <3>1, <3>2, <3>3
    <3>6. distro' = "alpine"
      BY <1>1, <1>7
    <3> QED
      BY <1>5, <3>1, <3>4, <3>5, <3>6 DEF DeployInv, InvDeploy
  <2> QED
    BY <2>4, <2>5
<1>8. CASE Deploying /\ distro # "alpine"
  <2>1. PICK k \in 0 .. 3 : Behind(DebianSteps, k) /\ (k = 3 => fetched >= ses.want)
    BY <1>0, <1>8 DEF InvDeploy
  <2>2. c = DebianSteps[k + 1] /\ Behind(DebianSteps, k + 1)'
    BY <1>0, <1>3, <2>1, StepsType, ScriptAdvances
  <2>3. Len(ses.script) = 4 - k /\ ses.want <= built.idx
    BY <1>0, <1>8, <2>1, StepsType DEF Behind, InvDeploy
  <2>4. CASE k = 3
    <3>1. c = "install" /\ ses'.st = "ok" /\ fetched >= ses.want
      BY <1>3, <2>1, <2>2, <2>3, <2>4, StepsType
    <3>2. pkg' = fetched
      BY <1>1, <3>1
    <3> QED
      BY <1>3, <1>5, <3>1, <3>2 DEF DeployInv, InvDeploy
  <2>5. CASE k # 3
    <3>1. ses'.st = "run" /\ k + 1 \in 0 .. 3
      BY <1>3, <2>3, <2>5
    <3>2. k + 1 = 3 => fetched' >= ses.want
      <4> SUFFICES ASSUME k = 2 PROVE fetched' >= ses.want
        OBVIOUS
      <4> QED
        BY <1>0, <1>1, <2>2, <2>3, StepsType
    <3>3. ses'.want <= built'.idx
      BY <1>1, <1>3, <2>3
    <3>4. \E j \in 0 .. 3 : Behind(DebianSteps, j)' /\ (j = 3 => fetched' >= ses'.want)
      BY <1>3, <2>2, <3>1, <3>2
    <3>5. distro' # "alpine"
      BY <1>1, <1>8
    <3> QED
      BY <1>5, <3>1, <3>3, <3>4, <3>5 DEF DeployInv, InvDeploy
  <2> QED
    BY <2>4, <2>5
<1> QED
  BY <1>6, <1>7, <1>8

(* What the servers, the other builds and the user of the device do does    *)
(* not touch a script, and no build takes a version back.                   *)
LEMMA OthersDeploy ==
  ASSUME DeployInv,
         \/ \E mdns \in BOOLEAN : StartServer(mdns)
         \/ StopServer
         \/ OtherBuild
         \/ \E l \in UserLines : UserAdds(l)
         \/ UNCHANGED targetVars
  PROVE  DeployInv'
<1>1. ses' = ses /\ distro' = distro /\ fetched' = fetched /\ pkg' = pkg
  BY DEF StartServer, StopServer, OtherBuild, UserAdds, targetVars, device
<1>2. built' \in [file : Nat, idx : Nat] /\ built'.idx <= built'.file /\ built.idx <= built'.idx
  <2>1. built \in [file : Nat, idx : Nat] /\ built.idx <= built.file
    BY DEF DeployInv, InvVersions
  <2>2. CASE OtherBuild
    BY <2>1, <2>2 DEF OtherBuild
  <2>3. CASE ~OtherBuild
    <3>1. built' = built
      BY <2>3 DEF StartServer, StopServer, UserAdds, targetVars
    <3> QED
      BY <2>1, <3>1
  <2> QED
    BY <2>2, <2>3
<1>3. InvVersions'
  BY <1>1, <1>2 DEF DeployInv, InvVersions
<1>4. ses.want \in Nat /\ built.idx \in Nat /\ built'.idx \in Nat
  BY <1>2 DEF DeployInv, InvVersions, Sessions
<1>5. ASSUME NEW steps, NEW k PROVE Behind(steps, k)' <=> Behind(steps, k)
  BY <1>1 DEF Behind
<1>6. InvDeploy'
  <2> SUFFICES ASSUME Deploying PROVE InvDeploy'
    BY <1>1 DEF InvDeploy, Deploying
  <2>1. ses.st \in {"feed", "run"} => ses.want <= built'.idx
    BY <1>2, <1>4 DEF DeployInv, InvDeploy
  <2> QED
    BY <1>1, <1>5, <2>1 DEF DeployInv, InvDeploy
<1> QED
  BY <1>3, <1>6 DEF DeployInv

(* A session that fails, ends or begins promises nothing yet. *)
LEMMA SessionsDeploy ==
  ASSUME DeployInv, CommandFails \/ Drop \/ SessionEnds \/ cmdDeploy \/ updateDeploy \/ Repo
  PROVE  DeployInv'
<1>0. ses \in Sessions
  BY DEF DeployInv, InvVersions
<1>1. NoSession \in Sessions
  <2>1. <<>> \in Seq(ScriptCommands)
    OBVIOUS
  <2> QED
    BY <2>1 DEF NoSession, Sessions
<1>2. built' = built /\ fetched' = fetched /\ pkg' = pkg
  BY DEF CommandFails, Drop, SessionEnds, cmdDeploy, updateDeploy, Repo, RepoAdd, RepoRemove, device
<1>3. ses' \in Sessions /\ (ses'.op \in {"deploy", "view"} => ses'.st \in {"failed", "build"})
  <2>1. CASE CommandFails \/ Drop
    <3>1. ses' = [ses EXCEPT !.st = "failed"]
      BY <2>1 DEF CommandFails, Drop
    <3> QED
      BY <1>0, <3>1 DEF Sessions
  <2>2. CASE SessionEnds
    <3>1. ses' = NoSession
      BY <2>2 DEF SessionEnds
    <3> QED
      BY <1>1, <3>1 DEF NoSession
  <2>3. CASE cmdDeploy
    <3>1. ses' = [NoSession EXCEPT !.op = "deploy", !.st = "build"]
      BY <2>3 DEF cmdDeploy, Begin
    <3> QED
      BY <1>1, <3>1 DEF Sessions, Ops
  <2>4. CASE updateDeploy
    <3>1. ses' = [NoSession EXCEPT !.op = "view", !.st = "build"]
      BY <2>4 DEF updateDeploy, Begin
    <3> QED
      BY <1>1, <3>1 DEF Sessions, Ops
  <2>5. ASSUME NEW n \in BlockNames, RepoRemove(n) PROVE ses' \in Sessions /\ ses'.op \notin {"deploy", "view"}
    <3>1. PICK s \in Seq(ScriptCommands) : s = apkRepoStripBlock(n)
      <4>1. "distro" \in Urls
        BY DEF Urls
      <4> QED
        BY <4>1, RepoScripts
    <3>2. ses' = [NoSession EXCEPT !.op = "remove", !.st = "run", !.name = n, !.script = s]
      BY <2>5, <3>1 DEF RepoRemove, Begin
    <3> QED
      BY <1>1, <3>2 DEF Sessions, Ops
  <2>6. ASSUME NEW n \in BlockNames, NEW e \in BOOLEAN, NEW p \in BOOLEAN, RepoAdd(n, e, p)
        PROVE ses' \in Sessions /\ ses'.op \notin {"deploy", "view"}
    <3>1. PICK url \in Urls : url = IF e THEN "distro" ELSE "root"
      BY DEF Urls
    <3>2. PICK s \in Seq(ScriptCommands) : s = apkRepoWriteBlock(n, url) \o Do("update")
      BY RepoScripts
    <3>3. ses' = [NoSession EXCEPT !.op = "add", !.st = "run", !.name = n, !.url = url, !.script = s]
      BY <2>6, <3>1, <3>2 DEF RepoAdd, Begin
    <3> QED
      BY <1>1, <3>3 DEF Sessions, Ops
  <2> QED
    BY <2>1, <2>2, <2>3, <2>4, <2>5, <2>6 DEF Repo
<1>4. InvVersions'
  BY <1>2, <1>3 DEF DeployInv, InvVersions
<1>5. InvDeploy'
  BY <1>3 DEF InvDeploy, Deploying
<1> QED
  BY <1>4, <1>5 DEF DeployInv

(* The build, and the script sent once there is a feed. *)
LEMMA SendDeploys ==
  ASSUME DeployInv, buildUnitForDeploy \/ resolveOrStartFeed \/ startDeployCmd
  PROVE  DeployInv'
<1>0. /\ ses \in Sessions /\ built \in [file : Nat, idx : Nat] /\ built.idx <= built.file
      /\ fetched \in Nat /\ pkg \in Nat /\ MaxBuild \in Nat
  BY TargetAssumption DEF DeployInv, InvVersions
<1>1. fetched' = fetched /\ pkg' = pkg /\ distro' = distro
  BY DEF buildUnitForDeploy, resolveOrStartFeed, startDeployCmd, device
<1>2. CASE built' = built /\ ses' = [ses EXCEPT !.st = "failed"]
  <2>1. ses' \in Sessions /\ ses'.st = "failed"
    BY <1>0, <1>2 DEF Sessions
  <2> QED
    BY <1>0, <1>1, <1>2, <2>1 DEF DeployInv, InvVersions, InvDeploy
<1>3. CASE buildUnitForDeploy /\ ses' # [ses EXCEPT !.st = "failed"]
  <2>1. PICK v \in {built.file, built.file + 1} \cap (1 .. MaxBuild) :
             built' = [file |-> v, idx |-> v] /\ ses' = [ses EXCEPT !.st = "feed", !.want = v]
    BY <1>3 DEF buildUnitForDeploy
  <2>2. v \in Nat
    BY <1>0
  <2>3. ses' \in Sessions /\ ses'.st = "feed" /\ ses'.want = v
    BY <1>0, <2>1, <2>2 DEF Sessions
  <2>4. built' \in [file : Nat, idx : Nat] /\ built'.idx = v /\ built'.file = v
    BY <2>1, <2>2
  <2> QED
    BY <1>0, <1>1, <2>2, <2>3, <2>4 DEF DeployInv, InvVersions, InvDeploy
<1>4. CASE ses' = Script /\ built' = built /\ Deploying /\ ses.st = "feed"
  <2>1. PICK s \in Seq(ScriptCommands) : s = IF distro = "alpine" THEN alpineDeployScript ELSE debianDeployScript
    BY AlpineScript, DebianScript
  <2>2. ses' = [ses EXCEPT !.st = "run", !.url = "distro", !.script = s]
    BY <1>4, <2>1 DEF Script
  <2>3. ses' \in Sessions /\ ses'.st = "run" /\ ses'.script = s /\ ses'.want = ses.want
    BY <1>0, <2>2 DEF Sessions, Urls
  <2>4. distro = "alpine" => Behind(AlpineSteps, 0)'
    <3> SUFFICES ASSUME distro = "alpine" PROVE Behind(AlpineSteps, 0)'
      OBVIOUS
    <3>1. ses'.script = alpineDeployScript /\ Len(ses'.script) = 7 /\ Len(AlpineSteps) = 7
      BY <2>1, <2>3, AlpineScript, StepsType
    <3>2. \A i \in 1 .. 7 : ses'.script[i].do = AlpineSteps[i] /\ i + 0 = i
      BY <3>1, AlpineScript
    <3> QED
      BY <3>1, <3>2 DEF Behind
  <2>5. distro # "alpine" => Behind(DebianSteps, 0)'
    <3> SUFFICES ASSUME distro # "alpine" PROVE Behind(DebianSteps, 0)'
      OBVIOUS
    <3>1. ses'.script = debianDeployScript /\ Len(ses'.script) = 4 /\ Len(DebianSteps) = 4
      BY <2>1, <2>3, DebianScript, StepsType
    <3>2. \A i \in 1 .. 4 : ses'.script[i].do = DebianSteps[i] /\ i + 0 = i
      BY <3>1, DebianScript
    <3> QED
      BY <3>1, <3>2 DEF Behind
  <2>6. ses.want <= built.idx
    BY <1>4 DEF DeployInv, InvDeploy
  <2>7. 0 \in 0 .. 6 /\ 0 \in 0 .. 3 /\ ~(0 >= 5)
    OBVIOUS
  <2>8. InvDeploy'
    BY <1>1, <1>4, <2>3, <2>4, <2>5, <2>6, <2>7 DEF InvDeploy
  <2> QED
    BY <1>0, <1>1, <1>4, <2>3, <2>8 DEF DeployInv, InvVersions
<1>5. \/ built' = built /\ ses' = [ses EXCEPT !.st = "failed"]
      \/ buildUnitForDeploy /\ ses' # [ses EXCEPT !.st = "failed"]
      \/ ses' = Script /\ built' = built /\ Deploying /\ ses.st = "feed"
  <2>1. CASE buildUnitForDeploy
    <3>1. CASE ses' = [ses EXCEPT !.st = "failed"]
      <4>1. (\E v \in {built.file, built.file + 1} \cap (1 .. MaxBuild) :
               ses' = [ses EXCEPT !.st = "feed", !.want = v]) => ses'.st = "feed"
        BY <1>0 DEF Sessions
      <4>2. ses'.st = "failed"
        BY <1>0, <3>1 DEF Sessions
      <4> QED
        BY <2>1, <4>1, <4>2 DEF buildUnitForDeploy
    <3> QED
      BY <2>1, <3>1
  <2>2. CASE resolveOrStartFeed \/ startDeployCmd
    BY <2>2 DEF resolveOrStartFeed, startDeployCmd, Deploying
  <2> QED
    BY <2>1, <2>2
<1> QED
  BY <1>2, <1>3, <1>4, <1>5

(* A deploy that reports success has installed what it built or a later     *)
(* build of it, on either distribution and for any number of sessions,      *)
(* builds of others and lost connections (alpineDeployScript and            *)
(* debianDeployScript of deploy.go).                                        *)
THEOREM DeployInstallsHolds == TargetSpec => []DeployInstalls
<1>1. TargetInit => DeployInv
  <2> SUFFICES ASSUME TargetInit PROVE DeployInv
    OBVIOUS
  <2>1. <<>> \in Seq(ScriptCommands)
    OBVIOUS
  <2>2. ses \in Sessions /\ ses.op = "none"
    BY <2>1 DEF TargetInit, NoSession, Sessions
  <2>3. InvVersions
    BY <2>2 DEF TargetInit, InvVersions
  <2> QED
    BY <2>2, <2>3 DEF DeployInv, InvDeploy, Deploying
<1>2. DeployInv /\ [TargetNext]_targetVars => DeployInv'
  BY OthersDeploy, SessionsDeploy, SendDeploys, CommandDeploys DEF TargetNext
<1>3. DeployInv => DeployInstalls
  BY DEF DeployInv, InvDeploy, Deploying, DeployInstalls
<1> QED
  BY <1>1, <1>2, <1>3, PTL DEF TargetSpec

-----------------------------------------------------------------------------
(* Flashing *)

(* What a writer has done of the image; which device it was given, and what *)
(* that is, does not matter here.                                           *)
WriterStates(d, o) ==
    [pc : WriteSteps, dev : {d}, on : {o}, ver : Builds, n : Nat, out : Nat, again : BOOLEAN]

(* A writer is never ahead of the image it reads, which only grows, and has *)
(* put at least what it has read on the device.                             *)
InvWriters ==
    /\ img \in [cur : Builds, size : [Builds -> Nat]]
    /\ w = [x \in Writers |-> w[x]]
    /\ \A x \in Writers : \E d, o : w[x] \in WriterStates(d, o)
    /\ \A x \in Writers : w[x].pc = "write" => w[x].n <= img.size[w[x].ver] /\ w[x].n <= w[x].out

InvAlone == InvWriters /\ WritesAlone

DevicesKnown == \A x \in Writers : w[x].dev \in Nodes

LEMMA NowhereKnown == Nowhere \in Nodes
BY FlashAssumption DEF Nowhere

(* Padding to whole sectors only adds. *)
LEMMA AlignUpAdds == ASSUME NEW k \in Nat PROVE alignUp(k) \in Nat /\ alignUp(k) >= k
<1>1. Sector \in Nat /\ Sector > 0
  BY FlashAssumption
<1>2. PICK a \in Nat : a = k + Sector - 1
  BY <1>1
<1>3. PICK q : q = a \div Sector
  OBVIOUS
<1>4. q \in Nat /\ q * Sector <= a /\ a < q * Sector + Sector /\ q * Sector \in Nat
  BY <1>1, <1>2, <1>3
<1>5. alignUp(k) = q * Sector
  BY <1>2, <1>3 DEF alignUp
<1> QED
  BY <1>1, <1>2, <1>4, <1>5

LEMMA MinOfTwo == ASSUME NEW a \in Nat, NEW b \in Nat
                  PROVE  Min({a, b}) \in Nat /\ Min({a, b}) = IF a <= b THEN a ELSE b
<1>1. \E x \in {a, b} : \A y \in {a, b} : x <= y
  OBVIOUS
<1>2. PICK m : m = Min({a, b})
  OBVIOUS
<1>3. m \in {a, b} /\ \A y \in {a, b} : m <= y
  BY <1>1, <1>2 DEF Min
<1> QED
  BY <1>2, <1>3

(* Two devices are of one family in both directions. *)
LEMMA FamilySymmetric == ASSUME NEW a \in Nodes, NEW b \in Nodes PROVE a \in Family(b) <=> b \in Family(a)
  BY DEF Family

(* A writer that opens the device has claimed it. *)
LEMMA OpenAlone == ASSUME InvAlone, DevicesKnown, NEW x \in Writers, WriteOpen(x) PROVE InvAlone'
<1>0. /\ img \in [cur : Builds, size : [Builds -> Nat]] /\ w = [y \in Writers |-> w[y]]
      /\ img' = img /\ mounted' = mounted
  BY DEF InvAlone, InvWriters, WriteOpen
<1>1. PICK d, o : w[x] \in WriterStates(d, o)
  BY DEF InvAlone, InvWriters
<1>2. PICK v : v = w'[x]
  OBVIOUS
<1>3. /\ w' = [w EXCEPT ![x] = v] /\ \A y \in Writers \ {x} : w'[y] = w[y]
      /\ w' = [y \in Writers |-> w'[y]]
  <2>1. w' = [w EXCEPT ![x] = w'[x]]
    BY <1>0 DEF WriteOpen
  <2> QED
    BY <1>0, <1>2, <2>1
<1>4. CASE \E s \in {"failed", "denied"} : v = [w[x] EXCEPT !.pc = s]
  <2>1. v \in WriterStates(d, o) /\ v.pc # "write"
    BY <1>1, <1>4 DEF WriterStates, WriteSteps
  <2>2. InvWriters'
    BY <1>0, <1>2, <1>3, <2>1 DEF InvAlone, InvWriters
  <2>3. WritesAlone'
    BY <1>0, <1>2, <1>3, <2>1 DEF InvAlone, WritesAlone, InUse
  <2> QED
    BY <2>2, <2>3 DEF InvAlone
<1>5. CASE /\ v = [w[x] EXCEPT !.pc = "write", !.on = Medium(w[x].dev), !.ver = img.cur, !.n = 0, !.out = 0]
           /\ Claimable(w[x].dev)
  <2>1. /\ v \in WriterStates(d, Medium(w[x].dev)) /\ v.pc = "write" /\ v.dev = w[x].dev
        /\ v.n = 0 /\ v.out = 0 /\ v.ver = img.cur
    BY <1>0, <1>1, <1>5 DEF WriterStates, WriteSteps
  <2>2. InvWriters'
    <3>1. img.size[img.cur] \in Nat
      BY <1>0
    <3> QED
      BY <1>0, <1>2, <1>3, <2>1, <3>1 DEF InvAlone, InvWriters
  <2>3. \A m \in Family(v.dev) : ~InUse(m) /\ ~Opened(m)
    BY <1>5, <2>1 DEF Claimable
  <2>4. ASSUME NEW y \in Writers \ {x}, w[y].pc = "write"
        PROVE  w[y].dev \notin Family(v.dev) /\ v.dev \notin Family(w[y].dev)
    <3>1. w[y].dev \notin Family(v.dev)
      BY <2>3, <2>4 DEF Opened
    <3> QED
      BY <2>1, <3>1, FamilySymmetric DEF DevicesKnown
  <2>5. WritesAlone'
    BY <1>0, <1>2, <1>3, <2>1, <2>3, <2>4 DEF InvAlone, WritesAlone, InUse
  <2> QED
    BY <2>2, <2>5 DEF InvAlone
<1>6. v = IF ~findImage THEN [w[x] EXCEPT !.pc = "failed"]
          ELSE IF w[x].dev \in denied THEN [w[x] EXCEPT !.pc = "denied"]
          ELSE IF ~Claimable(w[x].dev) THEN [w[x] EXCEPT !.pc = "failed"]
          ELSE [w[x] EXCEPT !.pc = "write", !.on = Medium(w[x].dev), !.ver = img.cur, !.n = 0, !.out = 0]
  BY <1>0, <1>2 DEF WriteOpen
<1> QED
  BY <1>4, <1>5, <1>6

(* One round of the copy. *)
LEMMA ChunkCopies ==
  ASSUME InvAlone, NEW x \in Writers, Chunk(x)
  PROVE  /\ InvAlone'
         /\ w'[x].pc = "done" => w'[x].out >= img.size[w[x].ver]
<1>0. /\ img \in [cur : Builds, size : [Builds -> Nat]] /\ w = [y \in Writers |-> w[y]]
      /\ img' = img /\ mounted' = mounted /\ Buf \in Nat /\ w[x].pc = "write"
  BY FlashAssumption DEF InvAlone, InvWriters, Chunk
<1>1. PICK d, o : w[x] \in WriterStates(d, o)
  BY DEF InvAlone, InvWriters
<1>2. PICK r \in Nat : r = img.size[w[x].ver] /\ w[x].n <= r /\ w[x].n <= w[x].out /\ w[x].n \in Nat /\ w[x].out \in Nat
  BY <1>0, <1>1 DEF InvAlone, InvWriters, WriterStates
<1>3. PICK k \in Nat : k = Min({Buf, r - w[x].n}) /\ k <= r - w[x].n /\ (k < Buf => k = r - w[x].n)
  <2>1. r - w[x].n \in Nat
    BY <1>2
  <2> QED
    BY <1>0, <2>1, MinOfTwo
<1>4. PICK a \in Nat : a = alignUp(k) /\ a >= k
  BY AlignUpAdds
<1>5. PICK v : v = [w[x] EXCEPT !.n = w[x].n + k, !.out = w[x].out + a, !.pc = IF k < Buf THEN "done" ELSE "write"]
  OBVIOUS
<1>6. w' = [w EXCEPT ![x] = v]
  BY <1>0, <1>2, <1>3, <1>4, <1>5 DEF Chunk
<1>7. /\ v \in WriterStates(d, o) /\ v.dev = w[x].dev /\ v.ver = w[x].ver /\ v.n = w[x].n + k
      /\ v.out = w[x].out + a /\ v.pc = IF k < Buf THEN "done" ELSE "write"
  <2>1. w[x].n + k \in Nat /\ w[x].out + a \in Nat
    BY <1>2
  <2> QED
    BY <1>1, <1>5, <2>1 DEF WriterStates, WriteSteps
<1>8. w'[x] = v /\ w' = [y \in Writers |-> w'[y]] /\ \A y \in Writers \ {x} : w'[y] = w[y]
  BY <1>0, <1>6
<1>9. v.n <= r /\ v.n <= v.out /\ (v.pc = "done" => v.n = r)
  BY <1>0, <1>2, <1>3, <1>4, <1>7
<1>10. InvWriters'
  BY <1>0, <1>2, <1>7, <1>8, <1>9 DEF InvAlone, InvWriters
<1>11. WritesAlone'
  BY <1>0, <1>7, <1>8 DEF InvAlone, WritesAlone, InUse
<1>12. w'[x].pc = "done" => w'[x].out >= img.size[w[x].ver]
  BY <1>2, <1>7, <1>8, <1>9
<1> QED
  BY <1>10, <1>11, <1>12 DEF InvAlone

(* What happens to one writer elsewhere never makes it write, nor succeed. *)
Stops(x) ==
    \E v, d, o : /\ v \in WriterStates(d, o) /\ v.pc \notin {"write", "done"}
                 /\ w' = [w EXCEPT ![x] = v]

LEMMA StopsAlone ==
  ASSUME InvAlone, NEW x \in Writers, Stops(x), img' = img, mounted' = mounted
  PROVE  InvAlone' /\ \A y \in Writers : w'[y].pc # "done" \/ w'[y] = w[y]
<1>0. img \in [cur : Builds, size : [Builds -> Nat]] /\ w = [y \in Writers |-> w[y]]
  BY DEF InvAlone, InvWriters
<1>1. PICK v, d, o : /\ v \in WriterStates(d, o) /\ v.pc \notin {"write", "done"}
                     /\ w' = [w EXCEPT ![x] = v]
  BY DEF Stops
<1>2. w'[x] = v /\ w' = [y \in Writers |-> w'[y]] /\ \A y \in Writers \ {x} : w'[y] = w[y]
  BY <1>0, <1>1
<1>3. InvWriters'
  BY <1>0, <1>1, <1>2 DEF InvAlone, InvWriters
<1>4. WritesAlone'
  BY <1>1, <1>2 DEF InvAlone, WritesAlone, InUse
<1> QED
  BY <1>1, <1>2, <1>3, <1>4 DEF InvAlone

LEMMA FreshWriter ==
  ASSUME NEW d
  PROVE  /\ NoWrite \in WriterStates(Nowhere, Nowhere) /\ NoWrite.pc = "idle"
         /\ [NoWrite EXCEPT !.pc = "open", !.dev = d] \in WriterStates(d, Nowhere)
         /\ [NoWrite EXCEPT !.pc = "open", !.dev = d].pc = "open"
<1>1. 1 \in Builds
  BY FlashAssumption DEF Builds
<1> QED
  BY <1>1 DEF NoWrite, WriterStates, WriteSteps

(* The view and `yoe flash` around the write. *)
LEMMA AroundStops ==
  ASSUME InvAlone,
         \/ \E n \in Nodes, yes \in BOOLEAN : Flash(n, yes)
         \/ \E yes \in BOOLEAN : Answer(yes) \/ offerChown(yes) \/ ChownDone(yes)
         \/ Report \/ Yes \/ FlashDone
         \/ \E x \in Writers : WriteFails(x)
  PROVE  /\ img' = img /\ mounted' = mounted
         /\ w' = w \/ \E x \in Writers : Stops(x)
<1>0. w = [y \in Writers |-> w[y]] /\ Writers = {"cli", "tui"}
  BY DEF InvAlone, InvWriters, Writers
<1>1. img' = img /\ mounted' = mounted
  BY DEF Flash, Answer, offerChown, ChownDone, Report, Yes, FlashDone, WriteFails, ViewOnly
<1>3. ASSUME NEW x \in Writers, w' = [w EXCEPT ![x] = NoWrite] PROVE Stops(x)
  BY <1>3, FreshWriter DEF Stops
<1>4. ASSUME NEW d, w' = [w EXCEPT !["tui"] = [NoWrite EXCEPT !.pc = "open", !.dev = d]] PROVE \E x \in Writers : Stops(x)
  <2>1. PICK v : v = [NoWrite EXCEPT !.pc = "open", !.dev = d]
    OBVIOUS
  <2>2. v \in WriterStates(d, Nowhere) /\ v.pc \notin {"write", "done"}
    BY <2>1, FreshWriter
  <2>3. w' = [w EXCEPT !["tui"] = v]
    BY <1>4, <2>1
  <2> QED
    BY <1>0, <2>2, <2>3 DEF Stops
<1>5. ASSUME NEW x \in Writers, NEW s \in WriteSteps \ {"write", "done"}, w' = [w EXCEPT ![x].pc = s] PROVE Stops(x)
  <2>1. PICK d, o : w[x] \in WriterStates(d, o)
    BY DEF InvAlone, InvWriters
  <2>2. PICK v : v = [w[x] EXCEPT !.pc = s]
    OBVIOUS
  <2>3. v \in WriterStates(d, o) /\ v.pc \notin {"write", "done"}
    BY <2>1, <2>2 DEF WriterStates
  <2>4. w' = [w EXCEPT ![x] = v]
    BY <1>0, <1>5, <2>2
  <2> QED
    BY <2>3, <2>4 DEF Stops
<1>6. ASSUME NEW n \in Nodes, NEW yes \in BOOLEAN, Flash(n, yes) PROVE \E x \in Writers : Stops(x)
  <2>1. PICK d, o : w["cli"] \in WriterStates(d, o)
    BY <1>0 DEF InvAlone, InvWriters
  <2>2. PICK s \in WriteSteps \ {"write", "done"} : s = IF yes THEN "open" ELSE "confirm"
    BY DEF WriteSteps
  <2>3. PICK v : v = [w["cli"] EXCEPT !.pc = s, !.dev = n]
    OBVIOUS
  <2>4. v \in WriterStates(n, o) /\ v.pc \notin {"write", "done"}
    BY <2>1, <2>3 DEF WriterStates
  <2>5. w' = [w EXCEPT !["cli"] = v]
    BY <1>0, <1>6, <2>2, <2>3 DEF Flash
  <2> QED
    BY <1>0, <2>4, <2>5 DEF Stops
<1>7. ASSUME NEW yes \in BOOLEAN, Answer(yes) PROVE \E x \in Writers : Stops(x)
  <2>1. CASE yes
    <3>1. w' = [w EXCEPT !["cli"].pc = "open"]
      BY <1>0, <1>7, <2>1 DEF Answer
    <3> QED
      BY <1>0, <1>5, <3>1 DEF WriteSteps
  <2>2. CASE ~yes
    BY <1>0, <1>3, <1>7, <2>2 DEF Answer
  <2> QED
    BY <2>1, <2>2
<1>8. ASSUME NEW yes \in BOOLEAN, offerChown(yes) PROVE \E x \in Writers : Stops(x)
  <2>1. CASE yes
    <3>1. PICK d, o : w["cli"] \in WriterStates(d, o)
      BY <1>0 DEF InvAlone, InvWriters
    <3>2. PICK v : v = [w["cli"] EXCEPT !.pc = "open", !.again = TRUE]
      OBVIOUS
    <3>3. v \in WriterStates(d, o) /\ v.pc \notin {"write", "done"}
      BY <3>1, <3>2 DEF WriterStates, WriteSteps
    <3>4. w' = [w EXCEPT !["cli"] = v]
      BY <1>0, <1>8, <2>1, <3>2 DEF offerChown
    <3> QED
      BY <1>0, <3>3, <3>4 DEF Stops
  <2>2. CASE ~yes
    BY <1>0, <1>3, <1>8, <2>2 DEF offerChown
  <2> QED
    BY <2>1, <2>2
<1>9. CASE Report \/ FlashDone
  BY <1>0, <1>1, <1>3, <1>9 DEF Report, FlashDone
<1>10. CASE Yes
  BY <1>0, <1>1, <1>4, <1>10 DEF Yes, Start
<1>11. ASSUME NEW ok \in BOOLEAN, ChownDone(ok) PROVE w' = w \/ \E x \in Writers : Stops(x)
  BY <1>4, <1>11 DEF ChownDone, Start
<1>12. ASSUME NEW x \in Writers, WriteFails(x) PROVE Stops(x)
  BY <1>5, <1>12 DEF WriteFails, WriteSteps
<1> QED
  BY <1>1, <1>6, <1>7, <1>8, <1>9, <1>10, <1>11, <1>12

(* Mounts, other sticks and builds of the image. *)
LEMMA EnvironmentAlone ==
  ASSUME InvAlone, DevicesKnown,
         \/ \E n \in Nodes : Mount(n) \/ Unmount(n)
         \/ \E p \in Paths, s \in Sticks : Swap(p, s)
         \/ BuildStart
         \/ \E k \in {Short, Length} : BuildMore(k)
  PROVE  InvAlone'
<1>0. img \in [cur : Builds, size : [Builds -> Nat]] /\ w = [y \in Writers |-> w[y]]
  BY DEF InvAlone, InvWriters
<1>1. ASSUME NEW n \in Nodes, Mount(n) PROVE InvAlone'
  <2>1. /\ \A m \in Family(n) : ~Opened(m)
        /\ mounted' = mounted \union {n} /\ UNCHANGED <<w, img>>
    BY <1>1 DEF Mount, Claimable
  <2>2. ASSUME NEW x \in Writers, w[x].pc = "write" PROVE n \notin Family(w[x].dev)
    <3>1. w[x].dev \notin Family(n)
      BY <2>1, <2>2 DEF Opened
    <3> QED
      BY <3>1, FamilySymmetric DEF DevicesKnown
  <2>3. WritesAlone'
    BY <2>1, <2>2 DEF InvAlone, WritesAlone, InUse
  <2> QED
    BY <2>1, <2>3 DEF InvAlone, InvWriters
<1>2. ASSUME NEW n \in Nodes, Unmount(n) PROVE InvAlone'
  BY <1>2 DEF Unmount, InvAlone, InvWriters, WritesAlone, InUse
<1>3. ASSUME NEW p \in Paths, NEW s \in Sticks, Swap(p, s) PROVE InvAlone'
  <2>1. /\ mounted' \subseteq mounted /\ img' = img
        /\ w' = [x \in Writers |-> IF w[x].pc = "write" /\ w[x].dev \in Family(p)
                                   THEN [w[x] EXCEPT !.pc = "failed"] ELSE w[x]]
    BY <1>3 DEF Swap
  <2>2. ASSUME NEW x \in Writers
        PROVE  (\E d, o : w'[x] \in WriterStates(d, o)) /\ (w'[x].pc = "write" => w'[x] = w[x])
    <3>1. PICK d, o : w[x] \in WriterStates(d, o)
      BY DEF InvAlone, InvWriters
    <3>2. [w[x] EXCEPT !.pc = "failed"] \in WriterStates(d, o) /\ [w[x] EXCEPT !.pc = "failed"].pc = "failed"
      BY <3>1 DEF WriterStates, WriteSteps
    <3> QED
      BY <2>1, <3>1, <3>2
  <2>3. w' = [x \in Writers |-> w'[x]]
    BY <2>1
  <2>4. InvWriters'
    BY <1>0, <2>1, <2>2, <2>3 DEF InvAlone, InvWriters
  <2>5. WritesAlone'
    BY <2>1, <2>2 DEF InvAlone, WritesAlone, InUse
  <2> QED
    BY <2>4, <2>5 DEF InvAlone
<1>4. ASSUME img' \in [cur : Builds, size : [Builds -> Nat]], \A v \in Builds : img.size[v] <= img'.size[v],
             UNCHANGED <<w, mounted>>
      PROVE  InvAlone'
  <2>1. ASSUME NEW x \in Writers, w[x].pc = "write" PROVE w[x].n <= img'.size[w[x].ver]
    <3>1. w[x].ver \in Builds /\ w[x].n \in Nat
      BY DEF InvAlone, InvWriters, WriterStates
    <3>2. w[x].n <= img.size[w[x].ver] /\ img.size[w[x].ver] \in Nat /\ img'.size[w[x].ver] \in Nat
      BY <1>0, <1>4, <2>1, <3>1 DEF InvAlone, InvWriters
    <3> QED
      BY <1>4, <3>1, <3>2
  <2> QED
    BY <1>4, <2>1 DEF InvAlone, InvWriters, WritesAlone, InUse
<1>5. CASE BuildStart
  <2>1. img' = [img EXCEPT !.cur = @ + 1] /\ img.cur < MaxBuilds /\ UNCHANGED <<w, mounted>>
    BY <1>5 DEF BuildStart
  <2>2. img.cur + 1 \in Builds
    <3>1. img.cur \in Builds /\ MaxBuilds \in Nat
      BY <1>0, FlashAssumption
    <3> QED
      BY ONLY <2>1, <3>1 DEF Builds
  <2>3. img' \in [cur : Builds, size : [Builds -> Nat]] /\ img'.size = img.size
    BY <1>0, <2>1, <2>2
  <2>4. \A v \in Builds : img.size[v] \in Nat
    BY <1>0
  <2> QED
    BY <1>4, <2>1, <2>3, <2>4
<1>6. ASSUME NEW k \in {Short, Length}, BuildMore(k) PROVE InvAlone'
  <2>1. k \in Nat
    <3>1. Short \in Nat /\ Length \in Nat
      BY FlashAssumption
    <3> QED
      BY <3>1
  <2>2. img' = [img EXCEPT !.size[img.cur] = k] /\ img.size[img.cur] < k /\ UNCHANGED <<w, mounted>>
    BY <1>6 DEF BuildMore
  <2>3. PICK z \in [Builds -> Nat] : z = [img.size EXCEPT ![img.cur] = k]
    BY <1>0, <2>1
  <2>4. img' \in [cur : Builds, size : [Builds -> Nat]] /\ img'.size = z
    BY <1>0, <2>2, <2>3
  <2>5. \A v \in Builds : img.size[v] <= z[v]
    BY <1>0, <2>1, <2>2, <2>3
  <2> QED
    BY <1>4, <2>2, <2>4, <2>5
<1> QED
  BY <1>1, <1>2, <1>3, <1>5, <1>6

(* The image a write reports as done is on the device. *)
LEMMA NextAlone ==
  ASSUME InvAlone, DevicesKnown, [FlashNext]_flashVars
  PROVE  /\ InvAlone'
         /\ \A x \in Writers : w[x].pc = "write" /\ w'[x].pc = "done" => w'[x].out >= img.size[w[x].ver]
<1>0. w = [y \in Writers |-> w[y]]
  BY DEF InvAlone, InvWriters
<1>1. ASSUME UNCHANGED <<w, img, mounted>> PROVE InvAlone'
  BY <1>1 DEF InvAlone, InvWriters, WritesAlone, InUse
<1>2. CASE \/ OpenView \/ Enter \/ No \/ AskChown \/ Leave
           \/ \E yes \in BOOLEAN : Toggle(yes)
           \/ \E i \in 1 .. Len(Candidate) : Move(i)
           \/ UNCHANGED flashVars
  <2>1. UNCHANGED <<w, img, mounted>>
    BY <1>2 DEF OpenView, Enter, No, AskChown, Leave, Toggle, Move, ViewOnly, flashVars
  <2> QED
    BY <1>1, <2>1
<1>3. CASE \/ \E n \in Nodes, yes \in BOOLEAN : Flash(n, yes)
           \/ \E yes \in BOOLEAN : Answer(yes) \/ offerChown(yes) \/ ChownDone(yes)
           \/ Report \/ Yes \/ FlashDone
           \/ \E x \in Writers : WriteFails(x)
  <2>1. img' = img /\ mounted' = mounted /\ (w' = w \/ \E x \in Writers : Stops(x))
    BY <1>3, AroundStops
  <2>2. CASE w' = w
    BY <1>1, <2>1, <2>2
  <2>3. CASE \E x \in Writers : Stops(x)
    <3>1. InvAlone' /\ \A y \in Writers : w'[y].pc # "done" \/ w'[y] = w[y]
      BY <2>1, <2>3, StopsAlone
    <3> QED
      BY <3>1
  <2> QED
    BY <2>1, <2>2, <2>3
<1>4. CASE \/ \E n \in Nodes : Mount(n) \/ Unmount(n)
           \/ \E p \in Paths, s \in Sticks : Swap(p, s)
           \/ BuildStart
           \/ \E k \in {Short, Length} : BuildMore(k)
  <2>1. InvAlone'
    BY <1>4, EnvironmentAlone
  <2>2. ASSUME NEW x \in Writers, w[x].pc = "write" PROVE w'[x].pc # "done"
    <3>1. CASE w' = w
      BY <2>2, <3>1
    <3>2. ASSUME NEW p, NEW s, Swap(p, s) PROVE w'[x].pc # "done"
      <4>1. PICK d, o : w[x] \in WriterStates(d, o)
        BY DEF InvAlone, InvWriters
      <4>2. [w[x] EXCEPT !.pc = "failed"].pc = "failed"
        BY <4>1 DEF WriterStates
      <4>3. w'[x] = IF w[x].pc = "write" /\ w[x].dev \in Family(p) THEN [w[x] EXCEPT !.pc = "failed"] ELSE w[x]
        BY <3>2 DEF Swap
      <4> QED
        BY <2>2, <4>2, <4>3
    <3> QED
      BY <1>4, <3>1, <3>2 DEF Mount, Unmount, BuildStart, BuildMore
  <2> QED
    BY <2>1, <2>2
<1>5. ASSUME NEW x \in Writers, Chunk(x)
      PROVE  InvAlone' /\ \A y \in Writers : w[y].pc = "write" /\ w'[y].pc = "done" => w'[y].out >= img.size[w[y].ver]
  <2>1. InvAlone' /\ (w'[x].pc = "done" => w'[x].out >= img.size[w[x].ver])
    BY <1>5, ChunkCopies
  <2>2. \A y \in Writers : y # x => w'[y] = w[y]
    BY <1>0, <1>5 DEF Chunk
  <2> QED
    BY <2>1, <2>2
<1>6. ASSUME NEW x \in Writers, WriteOpen(x)
      PROVE  InvAlone' /\ \A y \in Writers : w[y].pc # "write" \/ w'[y] = w[y]
  <2>1. InvAlone' /\ w[x].pc # "write"
    BY <1>6, OpenAlone DEF WriteOpen
  <2>2. \A y \in Writers : y # x => w'[y] = w[y]
    BY <1>0, <1>6 DEF WriteOpen
  <2> QED
    BY <2>1, <2>2
<1> QED
  BY <1>2, <1>3, <1>4, <1>5, <1>6 DEF FlashNext

ViewStates == [stage : Stages, cursor : Nat, cands : Seq(Listing), ignored : SUBSET MarkKeys, chown : BOOLEAN]

(* The cursor is on a candidate whenever there is one, a device is only     *)
(* asked for or written when there is, and the writer of the view runs only *)
(* while the view shows its progress.                                       *)
InvView ==
    /\ at \in [Paths -> Sticks] /\ saved.ignored \in SUBSET MarkKeys
    /\ ui \in ViewStates
    /\ ui.stage # "closed" /\ ui.cands # <<>> => ui.cursor \in 1 .. Len(ui.cands)
    /\ ui.stage \in {"confirm", "writing", "perm"} => ui.cands # <<>>
    /\ ui.chown => ui.stage = "perm"
    /\ w["tui"].pc # "idle" => ui.stage = "writing"

(* The loop of ListCandidates yields candidates only, none of them a disk   *)
(* of the system.                                                           *)
LEMMA SelectableDisks ==
  /\ selectable[Len(Candidate)] \in Seq(Paths)
  /\ \A i \in 1 .. Len(selectable[Len(Candidate)]) : selectable[Len(Candidate)][i] \notin systemDisks
<1>n. PICK N \in Nat : N = Len(Candidate)
  BY FlashAssumption
<1> DEFINE V == {s \in Seq(Paths) : \A i \in 1 .. Len(s) : s[i] \notin systemDisks}
           Next1(s, n) == IF n \notin 1 .. N \/ Candidate[n] \in systemDisks THEN s ELSE Append(s, Candidate[n])
<1>0. N \in Nat /\ \A n \in 1 .. N : Candidate[n] \in Paths
  BY <1>n, FlashAssumption DEF Paths, Range
<1>1. <<>> \in V
  OBVIOUS
<1>2. ASSUME NEW s \in V, NEW n \in Nat PROVE Next1(s, n) \in V
  <2>1. CASE n \notin 1 .. N \/ Candidate[n] \in systemDisks
    BY <2>1
  <2>2. CASE n \in 1 .. N /\ Candidate[n] \notin systemDisks
    <3>1. PICK c \in Paths : c = Candidate[n]
      BY <1>0, <2>2
    <3>2. Append(s, c) \in Seq(Paths) /\ \A i \in 1 .. Len(Append(s, c)) : Append(s, c)[i] \notin systemDisks
      BY <2>2, <3>1
    <3>3. Append(s, c) \in V
      BY <3>2
    <3> QED
      BY <2>2, <3>1, <3>3
  <2> QED
    BY <2>1, <2>2
<1>3. PICK D \in [V \X Nat -> V] : \A s \in V, n \in Nat : D[<<s, n>>] = Next1(s, n)
  <2>1. PICK D : D = [p \in V \X Nat |-> Next1(p[1], p[2])]
    OBVIOUS
  <2> HIDE DEF V, Next1
  <2> QED
    BY <1>2, <2>1
<1> HIDE DEF V
<1>4. PICK f : Unrolls(f, V, <<>>, D, N)
  BY <1>0, <1>1, Recursion
<1>5. f \in [0 .. N -> V] /\ \A n \in 0 .. N : f[n] = IF n = 0 THEN <<>> ELSE D[<<f[n - 1], n>>]
  BY <1>4 DEF Unrolls
<1>6. ASSUME NEW g, g = [n \in 0 .. N |-> IF n = 0 THEN <<>>
                                        ELSE IF Candidate[n] \in systemDisks THEN g[n - 1]
                                        ELSE Append(g[n - 1], Candidate[n])]
      PROVE  \A n \in 0 .. N : g[n] = f[n]
  <2> DEFINE Bad == {n \in 0 .. N : g[n] # f[n]}
  <2>1. SUFFICES ASSUME Bad # {} PROVE FALSE
    OBVIOUS
  <2>2. PICK m \in Bad : \A n \in Bad : m <= n
    <3>1. 0 .. N \subseteq Nat /\ Bad \subseteq 0 .. N
      OBVIOUS
    <3>2. PICK S \in SUBSET Nat : S = Bad
      BY <3>1
    <3> QED
      BY <2>1, <3>2, MinExists
  <2>3. m \in Nat /\ m \in 0 .. N /\ m # 0
    <3>1. 0 \in 0 .. N /\ m \in 0 .. N /\ g[m] # f[m]
      BY <2>2
    <3>2. g[0] = <<>>
      BY <1>6, <3>1
    <3>3. f[0] = <<>>
      BY <1>5, <3>1
    <3> QED
      BY <3>1, <3>2, <3>3
  <2>4. m - 1 \in 0 .. N /\ m - 1 \notin Bad /\ m \in 1 .. N
    BY <1>0, <2>2, <2>3
  <2>5. g[m - 1] = f[m - 1] /\ f[m - 1] \in V
    BY <1>5, <2>4
  <2>6. f[m] = Next1(f[m - 1], m)
    BY <1>3, <1>5, <2>3, <2>5
  <2>7. g[m] = Next1(g[m - 1], m)
    BY <1>6, <2>3, <2>4
  <2> QED
    BY <2>2, <2>5, <2>6, <2>7
<1>7. f = [n \in 0 .. N |-> IF n = 0 THEN <<>>
                            ELSE IF Candidate[n] \in systemDisks THEN f[n - 1]
                            ELSE Append(f[n - 1], Candidate[n])]
  <2>1. ASSUME NEW n \in 0 .. N
        PROVE  f[n] = IF n = 0 THEN <<>> ELSE IF Candidate[n] \in systemDisks THEN f[n - 1]
                                          ELSE Append(f[n - 1], Candidate[n])
    <3>1. CASE n = 0
      BY <1>5, <3>1
    <3>2. CASE n # 0
      <4>1. n \in Nat /\ n \in 1 .. N /\ n - 1 \in 0 .. N
        BY <1>0, <3>2
      <4>2. f[n] = Next1(f[n - 1], n)
        BY <1>3, <1>5, <3>2, <4>1
      <4> QED
        BY <3>2, <4>1, <4>2
    <3> QED
      BY <3>1, <3>2
  <2> QED
    BY <1>5, <2>1
<1>8. selectable = [n \in 0 .. N |-> IF n = 0 THEN <<>>
                                     ELSE IF Candidate[n] \in systemDisks THEN selectable[n - 1]
                                     ELSE Append(selectable[n - 1], Candidate[n])]
  BY <1>n, <1>7 DEF selectable
<1>9. selectable[N] = f[N] /\ f[N] \in V
  <2>1. \A n \in 0 .. N : selectable[n] = f[n]
    BY <1>6, <1>8
  <2>2. N \in 0 .. N
    OBVIOUS
  <2> QED
    BY <1>5, <2>1, <2>2
<1> QED
  BY <1>n, <1>9 DEF V

LEMMA ListingType ==
  ASSUME at \in [Paths -> Sticks]
  PROVE  /\ ListCandidates \in Seq(Listing)
         /\ \A i \in 1 .. Len(ListCandidates) : ListCandidates[i].key = IgnoreKey(ListCandidates[i].path)
<1>1. PICK free \in Seq(Paths) : free = selectable[Len(Candidate)]
  BY SelectableDisks
<1>2. ListCandidates = [i \in 1 .. Len(free) |-> [path |-> free[i], key |-> IgnoreKey(free[i])]]
  BY <1>1 DEF ListCandidates
<1>3. Len(free) \in Nat /\ \A i \in 1 .. Len(free) : free[i] \in Paths
  OBVIOUS
<1>4. ASSUME NEW p \in Paths PROVE [path |-> p, key |-> IgnoreKey(p)] \in Listing
  <2>1. IgnoreKey(p) \in MarkKeys
    BY DEF IgnoreKey, MarkKeys
  <2> QED
    BY <2>1 DEF Listing
<1>5. ListCandidates \in [1 .. Len(free) -> Listing]
  BY <1>2, <1>3, <1>4
<1>6. ListCandidates \in Seq(Listing) /\ Len(ListCandidates) = Len(free)
  BY <1>3, <1>5
<1> QED
  BY <1>2, <1>6

LEMMA CursorPlaced ==
  ASSUME NEW cands \in Seq(Listing), NEW S \in SUBSET (1 .. Len(cands)), NEW g
  PROVE  /\ S # {} => Min(S) \in 1 .. Len(cands)
         /\ firstSelectableFlash(cands, g) \in Nat
         /\ cands # <<>> => firstSelectableFlash(cands, g) \in 1 .. Len(cands)
<1>1. Len(cands) \in Nat /\ DOMAIN cands = 1 .. Len(cands) /\ (cands # <<>> => Len(cands) > 0)
  BY EmptySeq
<1>2. 1 .. Len(cands) \in SUBSET Nat
  BY ONLY <1>1
<1>3. ASSUME NEW T \in SUBSET (1 .. Len(cands)), T # {} PROVE Min(T) \in 1 .. Len(cands) /\ Min(T) \in Nat
  BY <1>2, <1>3, MinExists
<1>4. PICK T \in SUBSET (1 .. Len(cands)) : firstSelectableFlash(cands, g) = IF T = {} THEN 1 ELSE Min(T)
  BY <1>1 DEF firstSelectableFlash
<1>5. cands # <<>> => 1 \in 1 .. Len(cands)
  BY ONLY <1>1
<1> QED
  BY <1>3, <1>4, <1>5

(* The candidate under the cursor is a disk that was listed. *)
LEMMA CandKnown ==
  ASSUME InvView, ui.stage # "closed", ui.cands # <<>>
  PROVE  Cand.path \in Paths /\ Cand.path \in Nodes /\ Cand.key \in MarkKeys
<1>1. ui.cands \in Seq(Listing) /\ ui.cursor \in 1 .. Len(ui.cands)
  BY DEF InvView, ViewStates
<1>2. ui.cands[ui.cursor] \in Listing
  BY <1>1
<1>3. Paths \subseteq Nodes
  BY FlashAssumption DEF Whole, Paths, Range
<1> QED
  BY <1>2, <1>3 DEF Cand, Listing

(* No stick changes place while the view is open: every candidate is still  *)
(* what it was listed as, the one that was asked for is not marked, and it  *)
(* is the one that is written.                                              *)
InvMarks ==
    /\ ui.stage # "closed" => \A i \in 1 .. Len(ui.cands) : ui.cands[i].key = IgnoreKey(ui.cands[i].path)
    /\ ui.stage \in {"confirm", "writing", "perm"} => Cand.key \notin ui.ignored
    /\ w["tui"].pc # "idle" => w["tui"].dev = Cand.path
    /\ w["tui"].pc = "write" => w["tui"].on = at[w["tui"].dev]

ViewInv == InvView /\ DevicesKnown /\ (SwapWhileOpen \/ InvMarks)

(* What leaves the view alone. *)
LEMMA ViewUntouched ==
  ASSUME ViewInv, ui' = ui, at' = at, saved' = saved, DevicesKnown',
         w'["tui"].pc # "idle" => w["tui"].pc # "idle" /\ w'["tui"].dev = w["tui"].dev,
         w'["tui"].pc = "write" => \/ w["tui"].pc = "write" /\ w'["tui"].on = w["tui"].on
                                   \/ w'["tui"].on = Medium(w["tui"].dev)
  PROVE  ViewInv'
<1>1. InvView'
  BY DEF ViewInv, InvView
<1>2. CASE ~SwapWhileOpen
  <2>1. InvMarks
    BY <1>2 DEF ViewInv
  <2>2. ASSUME w'["tui"].pc = "write" PROVE w'["tui"].on = at[w'["tui"].dev]
    <3>1. w["tui"].pc # "idle" /\ w'["tui"].dev = w["tui"].dev /\ w["tui"].dev = Cand.path
      BY <2>1, <2>2 DEF InvMarks
    <3>2. Cand.path \in Paths
      BY <3>1, CandKnown DEF ViewInv, InvView
    <3> QED
      BY <2>1, <2>2, <3>1, <3>2 DEF InvMarks, Medium
  <2>3. InvMarks'
    BY <2>1, <2>2 DEF InvMarks, IgnoreKey, Cand
  <2> QED
    BY <1>1, <2>3 DEF ViewInv
<1> QED
  BY <1>1, <1>2 DEF ViewInv

(* The writers and `yoe flash`. *)
LEMMA WritersView ==
  ASSUME InvWriters, ViewInv,
         \/ \E n \in Nodes, yes \in BOOLEAN : Flash(n, yes)
         \/ \E yes \in BOOLEAN : Answer(yes) \/ offerChown(yes)
         \/ Report
         \/ \E x \in Writers : WriteOpen(x) \/ Chunk(x) \/ WriteFails(x)
         \/ \E n \in Nodes : Mount(n) \/ Unmount(n)
         \/ BuildStart
         \/ \E k \in {Short, Length} : BuildMore(k)
         \/ UNCHANGED flashVars
  PROVE  ViewInv'
<1>0. w = [y \in Writers |-> w[y]] /\ Writers = {"cli", "tui"} /\ DevicesKnown /\ Nowhere \in Nodes
  BY NowhereKnown, FlashAssumption DEF InvWriters, Writers, ViewInv
<1>1. ui' = ui /\ at' = at /\ saved' = saved
  BY DEF Flash, Answer, offerChown, Report, WriteOpen, Chunk, WriteFails, Mount, Unmount, BuildStart, BuildMore, flashVars
<1>2. CASE w' = w
  BY <1>1, <1>2, ViewUntouched DEF ViewInv, DevicesKnown
<1>3. PICK d1, o1 : w["cli"] \in WriterStates(d1, o1)
  BY <1>0 DEF InvWriters
<1>4. CASE w'["tui"] = w["tui"] /\ w'["cli"].dev \in Nodes
  BY <1>0, <1>1, <1>4, ViewUntouched DEF ViewInv, DevicesKnown
<1>5. CASE \/ \E n \in Nodes, yes \in BOOLEAN : Flash(n, yes)
           \/ \E yes \in BOOLEAN : Answer(yes) \/ offerChown(yes)
           \/ Report
  <2>1. w'["tui"] = w["tui"]
    BY <1>0, <1>5 DEF Flash, Answer, offerChown, Report
  <2>2. NoWrite.dev = Nowhere
    BY DEF NoWrite
  <2>3. w'["cli"].dev \in Nodes
    <3>1. ASSUME NEW n \in Nodes, NEW yes \in BOOLEAN, Flash(n, yes) PROVE w'["cli"].dev = n
      BY <1>0, <1>3, <3>1 DEF Flash, WriterStates
    <3>2. ASSUME NEW yes \in BOOLEAN, Answer(yes) PROVE w'["cli"].dev \in {w["cli"].dev, Nowhere}
      BY <1>0, <1>3, <2>2, <3>2 DEF Answer, WriterStates
    <3>3. ASSUME NEW yes \in BOOLEAN, offerChown(yes) PROVE w'["cli"].dev \in {w["cli"].dev, Nowhere}
      BY <1>0, <1>3, <2>2, <3>3 DEF offerChown, WriterStates
    <3>4. CASE Report
      BY <1>0, <2>2, <3>4 DEF Report
    <3> QED
      BY <1>0, <1>5, <3>1, <3>2, <3>3, <3>4 DEF DevicesKnown
  <2> QED
    BY <1>4, <2>1, <2>3
<1>6. ASSUME NEW x \in Writers, WriteOpen(x) \/ Chunk(x) \/ WriteFails(x)
      PROVE  ViewInv'
  <2>1. PICK d, o : w[x] \in WriterStates(d, o)
    BY DEF InvWriters
  <2>2. \A y \in Writers \ {x} : w'[y] = w[y]
    BY <1>0, <1>6 DEF WriteOpen, Chunk, WriteFails
  <2>3. w'[x].dev = w[x].dev /\ w[x].pc # "idle"
    <3>1. CASE WriteOpen(x)
      BY <1>0, <2>1, <3>1 DEF WriteOpen, WriterStates
    <3>2. CASE Chunk(x)
      BY <1>0, <2>1, <3>2 DEF Chunk, WriterStates
    <3>3. CASE WriteFails(x)
      BY <1>0, <2>1, <3>3 DEF WriteFails, WriterStates
    <3> QED
      BY <1>6, <3>1, <3>2, <3>3
  <2>4. w'[x].pc = "write" => (w[x].pc = "write" /\ w'[x].on = w[x].on) \/ w'[x].on = Medium(w[x].dev)
    <3>1. CASE WriteOpen(x)
      BY <1>0, <2>1, <3>1 DEF WriteOpen, WriterStates
    <3>2. CASE Chunk(x)
      BY <1>0, <2>1, <3>2 DEF Chunk, WriterStates
    <3>3. CASE WriteFails(x)
      BY <1>0, <2>1, <3>3 DEF WriteFails, WriterStates
    <3> QED
      BY <1>6, <3>1, <3>2, <3>3
  <2>5. DevicesKnown'
    BY <1>0, <2>2, <2>3 DEF DevicesKnown
  <2> QED
    BY <1>0, <1>1, <2>2, <2>3, <2>4, <2>5, ViewUntouched
<1> QED
  BY <1>2, <1>5, <1>6 DEF Mount, Unmount, BuildStart, BuildMore, flashVars

(* Another stick at a path: nothing that is listed changes, unless the view *)
(* may be open.                                                             *)
LEMMA SwapView ==
  ASSUME InvWriters, ViewInv, NEW p \in Paths, NEW s \in Sticks, Swap(p, s)
  PROVE  ViewInv'
<1>0. Writers = {"cli", "tui"}
  BY DEF Writers
<1>1. /\ ui' = ui /\ saved' = saved /\ at' = [at EXCEPT ![p] = s] /\ (SwapWhileOpen \/ ui.stage = "closed")
      /\ w' = [x \in Writers |-> IF w[x].pc = "write" /\ w[x].dev \in Family(p)
                                 THEN [w[x] EXCEPT !.pc = "failed"] ELSE w[x]]
  BY DEF Swap
<1>2. ASSUME NEW x \in Writers PROVE w'[x].dev = w[x].dev /\ (w'[x].pc # "idle" => w[x].pc # "idle")
  <2>1. PICK d, o : w[x] \in WriterStates(d, o)
    BY DEF InvWriters
  <2>2. [w[x] EXCEPT !.pc = "failed"].dev = w[x].dev
    BY <2>1 DEF WriterStates
  <2>3. w'[x] = w[x] \/ (w'[x] = [w[x] EXCEPT !.pc = "failed"] /\ w[x].pc = "write")
    BY <1>1
  <2> QED
    BY <2>2, <2>3
<1>3. DevicesKnown'
  BY <1>2 DEF ViewInv, DevicesKnown
<1>4. at' \in [Paths -> Sticks]
  BY <1>1 DEF ViewInv, InvView
<1>5. InvView'
  BY <1>0, <1>1, <1>2, <1>4 DEF ViewInv, InvView
<1>6. CASE ~SwapWhileOpen
  <2>1. ui.stage = "closed" /\ w["tui"].pc = "idle" /\ w'["tui"].pc = "idle"
    BY <1>0, <1>1, <1>2, <1>6 DEF ViewInv, InvView
  <2> QED
    BY <1>1, <1>3, <1>5, <2>1 DEF ViewInv, InvMarks
<1> QED
  BY <1>3, <1>5, <1>6 DEF ViewInv

(* The keys of the view. *)
LEMMA KeysView ==
  ASSUME InvWriters, ViewInv,
         \/ OpenView \/ Enter \/ No \/ AskChown \/ Leave
         \/ \E yes \in BOOLEAN : Toggle(yes)
         \/ \E i \in 1 .. Len(Candidate) : Move(i)
  PROVE  ViewInv'
<1>0. /\ at \in [Paths -> Sticks] /\ ui \in ViewStates /\ saved.ignored \in SUBSET MarkKeys
      /\ ui.cands \in Seq(Listing) /\ ui.cursor \in Nat /\ ui.chown \in BOOLEAN /\ ui.ignored \in SUBSET MarkKeys
  BY DEF ViewInv, InvView, ViewStates
<1>1. at' = at /\ w' = w
  BY DEF OpenView, Enter, No, AskChown, Leave, Toggle, Move, ViewOnly
<1>2. DevicesKnown'
  BY <1>1 DEF ViewInv, DevicesKnown
<1>3. w["tui"].pc # "idle" => ui.stage = "writing"
  BY DEF ViewInv, InvView
<1>4. CASE OpenView
  <2>1. PICK c \in Seq(Listing) : c = ListCandidates
    BY <1>0, ListingType
  <2>2. PICK S \in SUBSET (1 .. Len(c)) : S = {i \in DOMAIN c : c[i].path = saved.last /\ c[i].key \notin saved.ignored}
    <3>1. DOMAIN c = 1 .. Len(c)
      OBVIOUS
    <3> QED
      BY <3>1
  <2>3. PICK k : k = IF S # {} THEN Min(S) ELSE firstSelectableFlash(c, saved.ignored)
    OBVIOUS
  <2>4. k \in Nat /\ (c # <<>> => k \in 1 .. Len(c))
    <3>1. 1 .. Len(c) \subseteq Nat
      OBVIOUS
    <3> QED
      BY <2>3, <3>1, CursorPlaced
  <2>5. ui' = [ui EXCEPT !.stage = "select", !.cands = c, !.ignored = saved.ignored, !.cursor = k]
    BY <1>4, <2>1, <2>2, <2>3 DEF OpenView
  <2>6. /\ ui' \in ViewStates /\ ui'.stage = "select" /\ ui'.cands = c /\ ui'.cursor = k /\ ui'.chown = FALSE
        /\ saved' = saved /\ w["tui"].pc = "idle"
    <3>1. ui.chown = FALSE /\ ui.stage = "closed" /\ saved' = saved
      BY <1>4, <1>0 DEF OpenView, KeyPressed
    <3> QED
      BY <1>0, <1>3, <2>4, <2>5, <3>1 DEF ViewStates, Stages
  <2>7. InvView'
    BY <1>0, <1>1, <2>4, <2>6 DEF InvView
  <2>8. \A i \in 1 .. Len(c) : c[i].key = IgnoreKey(c[i].path)
    BY <1>0, <2>1, ListingType
  <2>9. InvMarks'
    BY <1>1, <2>6, <2>8 DEF InvMarks, IgnoreKey
  <2> QED
    BY <1>2, <2>7, <2>9 DEF ViewInv
<1>5. ASSUME NEW i \in 1 .. Len(Candidate), Move(i) PROVE ViewInv'
  <2>1. /\ ui' = [ui EXCEPT !.cursor = i] /\ i \in DOMAIN ui.cands /\ ui.stage = "select" /\ saved' = saved
        /\ DOMAIN ui.cands = 1 .. Len(ui.cands)
    BY <1>0, <1>5 DEF Move
  <2>2. i \in Nat
    OBVIOUS
  <2>3. /\ ui' \in ViewStates /\ ui'.stage = "select" /\ ui'.cands = ui.cands /\ ui'.cursor = i /\ ui'.chown = ui.chown
    BY <1>0, <2>1, <2>2 DEF ViewStates
  <2>4. InvView'
    BY <1>0, <1>1, <1>3, <2>1, <2>3 DEF InvView, ViewInv
  <2>5. CASE InvMarks
    <3>1. w["tui"].pc = "idle"
      BY <1>3, <2>1
    <3>2. InvMarks'
      BY <1>1, <2>1, <2>3, <2>5, <3>1 DEF InvMarks, IgnoreKey
    <3> QED
      BY <1>2, <2>4, <3>2 DEF ViewInv
  <2> QED
    BY <1>2, <2>4, <2>5 DEF ViewInv
<1>6. ASSUME NEW yes \in BOOLEAN, Toggle(yes) PROVE ViewInv'
  <2>1. ui.stage = "select" /\ ui.cands # <<>>
    BY <1>6 DEF Toggle
  <2>2. Cand.key \in MarkKeys
    BY <2>1, CandKnown DEF ViewInv
  <2>3. PICK m \in SUBSET MarkKeys : m = IF Cand.key \in ui.ignored THEN ui.ignored \ {Cand.key}
                                         ELSE ui.ignored \union {Cand.key}
    BY <1>0, <2>2
  <2>4. ui' = [ui EXCEPT !.ignored = m] /\ saved'.ignored \in {saved.ignored, m}
    BY <1>6, <2>3 DEF Toggle
  <2>5. /\ ui' \in ViewStates /\ ui'.stage = ui.stage /\ ui'.cands = ui.cands /\ ui'.cursor = ui.cursor
        /\ ui'.chown = ui.chown
    BY <1>0, <2>4 DEF ViewStates
  <2>6. InvView'
    BY <1>0, <1>1, <2>4, <2>5 DEF InvView, ViewInv
  <2>7. CASE InvMarks
    BY <1>1, <1>2, <1>3, <2>1, <2>5, <2>6, <2>7 DEF InvMarks, IgnoreKey, ViewInv
  <2> QED
    BY <1>2, <2>6, <2>7 DEF ViewInv
<1>7. CASE Enter
  <2>1. /\ ui' = [ui EXCEPT !.stage = "confirm"] /\ ui.stage = "select" /\ ui.cands # <<>> /\ saved' = saved
        /\ Cand.key \notin ui.ignored /\ ui.chown = FALSE
    BY <1>0, <1>7 DEF Enter, KeyPressed
  <2>2. /\ ui' \in ViewStates /\ ui'.stage = "confirm" /\ ui'.cands = ui.cands /\ ui'.cursor = ui.cursor
        /\ ui'.ignored = ui.ignored /\ ui'.chown = FALSE
    BY <1>0, <2>1 DEF ViewStates, Stages
  <2>3. InvView'
    BY <1>0, <1>1, <1>3, <2>1, <2>2 DEF InvView, ViewInv
  <2>4. CASE InvMarks
    <3>1. w["tui"].pc = "idle"
      BY <1>3, <2>1
    <3>2. Cand' = Cand
      BY <2>2 DEF Cand
    <3>3. InvMarks'
      BY <1>1, <2>1, <2>2, <2>4, <3>1, <3>2 DEF InvMarks, IgnoreKey
    <3> QED
      BY <1>2, <2>3, <3>3 DEF ViewInv
  <2> QED
    BY <1>2, <2>3, <2>4 DEF ViewInv
<1>8. CASE No
  <2>1. PICK t \in {"select", "error"} : ui' = [ui EXCEPT !.stage = t]
    BY <1>8 DEF No
  <2>2. ui.stage \in {"confirm", "perm"} /\ saved' = saved /\ ui.chown = FALSE
    BY <1>0, <1>8 DEF No, KeyPressed
  <2>3. /\ ui' \in ViewStates /\ ui'.stage = t /\ ui'.cands = ui.cands /\ ui'.cursor = ui.cursor
        /\ ui'.ignored = ui.ignored /\ ui'.chown = FALSE
    BY <1>0, <2>1, <2>2 DEF ViewStates, Stages
  <2>4. InvView'
    BY <1>0, <1>1, <1>3, <2>2, <2>3 DEF InvView, ViewInv
  <2>5. CASE InvMarks
    BY <1>1, <1>2, <1>3, <2>2, <2>3, <2>4, <2>5 DEF InvMarks, IgnoreKey, ViewInv
  <2> QED
    BY <1>2, <2>4, <2>5 DEF ViewInv
<1>9. CASE AskChown
  <2>1. ui' = [ui EXCEPT !.chown = TRUE] /\ ui.stage = "perm" /\ saved' = saved
    BY <1>9 DEF AskChown
  <2>2. /\ ui' \in ViewStates /\ ui'.stage = ui.stage /\ ui'.cands = ui.cands /\ ui'.cursor = ui.cursor
        /\ ui'.ignored = ui.ignored
    BY <1>0, <2>1 DEF ViewStates
  <2>3. InvView'
    BY <1>0, <1>1, <2>1, <2>2 DEF InvView, ViewInv
  <2>4. CASE InvMarks
    <3>1. Cand' = Cand
      BY <2>2 DEF Cand
    <3>2. InvMarks'
      BY <1>1, <2>1, <2>2, <2>4, <3>1 DEF InvMarks, IgnoreKey
    <3> QED
      BY <1>2, <2>3, <3>2 DEF ViewInv
  <2> QED
    BY <1>2, <2>3, <2>4 DEF ViewInv
<1>10. CASE Leave
  <2>1. ui.chown = FALSE /\ ui.stage \in {"select", "done", "error"} /\ ui' = [Shut EXCEPT !.chown = FALSE] /\ saved' = saved
    BY <1>0, <1>10 DEF Leave, KeyPressed
  <2>2. ui' = Shut
    BY <2>1 DEF Shut
  <2>3. Shut \in ViewStates /\ Shut.stage = "closed" /\ Shut.chown = FALSE
    <3>1. <<>> \in Seq(Listing) /\ {} \in SUBSET MarkKeys
      OBVIOUS
    <3> QED
      BY <3>1 DEF Shut, ViewStates, Stages
  <2>4. w["tui"].pc = "idle"
    BY <1>3, <2>1
  <2> QED
    BY <1>0, <1>1, <1>2, <2>1, <2>2, <2>3, <2>4 DEF ViewInv, InvView, InvMarks
<1> QED
  BY <1>4, <1>5, <1>6, <1>7, <1>8, <1>9, <1>10

(* The view starts its writer on the candidate it asked for, and ends with  *)
(* it.                                                                      *)
LEMMA StartsView ==
  ASSUME InvWriters, ViewInv, Yes \/ FlashDone \/ \E ok \in BOOLEAN : ChownDone(ok)
  PROVE  ViewInv'
<1>0. /\ at \in [Paths -> Sticks] /\ ui \in ViewStates /\ saved.ignored \in SUBSET MarkKeys
      /\ w = [y \in Writers |-> w[y]] /\ Writers = {"cli", "tui"} /\ Nowhere \in Nodes
      /\ w["tui"].pc # "idle" => ui.stage = "writing"
  BY NowhereKnown, FlashAssumption DEF ViewInv, InvView, InvWriters, Writers
<1>1. at' = at
  BY DEF Yes, FlashDone, ChownDone, ViewOnly
<1>2. saved'.ignored = saved.ignored
  <2>1. [saved EXCEPT !.last = Cand.path].ignored = saved.ignored
    OBVIOUS
  <2> QED
    BY <2>1 DEF Yes, FlashDone, ChownDone
<1>3. ASSUME NEW t \in {"done", "error", "perm"}, NEW c \in {ui.chown, FALSE}, ui.stage \in {"confirm", "writing", "perm"},
             ui' = [ui EXCEPT !.stage = t, !.chown = c], c => t = "perm",
             w'["tui"].pc = "idle", w'["tui"].dev \in Nodes, w'["cli"] = w["cli"]
      PROVE  ViewInv'
  <2>1. /\ ui' \in ViewStates /\ ui'.stage = t /\ ui'.chown = c /\ ui'.cands = ui.cands /\ ui'.cursor = ui.cursor
        /\ ui'.ignored = ui.ignored
    BY <1>0, <1>3 DEF ViewStates, Stages
  <2>2. InvView'
    BY <1>0, <1>1, <1>2, <1>3, <2>1 DEF ViewInv, InvView
  <2>3. DevicesKnown'
    BY <1>0, <1>3 DEF ViewInv, DevicesKnown
  <2>4. CASE InvMarks
    <3>1. Cand' = Cand /\ Cand.key \notin ui.ignored
      BY <1>3, <2>1, <2>4 DEF InvMarks, Cand
    <3>2. \A i \in 1 .. Len(ui'.cands) : ui'.cands[i].key = IgnoreKey(ui.cands[i].path)'
      BY <1>1, <1>3, <2>1, <2>4 DEF InvMarks, IgnoreKey
    <3>3. InvMarks'
      BY <1>3, <2>1, <3>1, <3>2 DEF InvMarks
    <3> QED
      BY <2>2, <2>3, <3>3 DEF ViewInv
  <2> QED
    BY <2>2, <2>3, <2>4 DEF ViewInv
<1>4. ASSUME Start, ui.stage \in {"confirm", "perm"}, ui' = [ui EXCEPT !.stage = "writing", !.chown = FALSE]
      PROVE  ViewInv'
  <2>1. Cand.path \in Nodes
    BY <1>4, CandKnown DEF ViewInv, InvView
  <2>2. [NoWrite EXCEPT !.pc = "open", !.dev = Cand.path].dev = Cand.path
    BY DEF NoWrite
  <2>3. w'["tui"].pc = "open" /\ w'["tui"].dev = Cand.path /\ w'["cli"] = w["cli"]
    <3>1. w'["tui"] = [NoWrite EXCEPT !.pc = "open", !.dev = Cand.path] /\ w'["cli"] = w["cli"]
      BY <1>0, <1>4 DEF Start
    <3> QED
      BY <2>2, <3>1, FreshWriter
  <2>4. /\ ui' \in ViewStates /\ ui'.stage = "writing" /\ ui'.chown = FALSE /\ ui'.cands = ui.cands
        /\ ui'.cursor = ui.cursor /\ ui'.ignored = ui.ignored
    BY <1>0, <1>4 DEF ViewStates, Stages
  <2>5. InvView'
    BY <1>0, <1>1, <1>2, <1>4, <2>3, <2>4 DEF ViewInv, InvView
  <2>6. DevicesKnown'
    BY <1>0, <2>1, <2>3 DEF ViewInv, DevicesKnown
  <2>7. CASE InvMarks
    <3>1. Cand' = Cand /\ Cand.key \notin ui.ignored
      BY <1>4, <2>4, <2>7 DEF InvMarks, Cand
    <3>2. \A i \in 1 .. Len(ui'.cands) : ui'.cands[i].key = IgnoreKey(ui.cands[i].path)'
      BY <1>1, <1>4, <2>4, <2>7 DEF InvMarks, IgnoreKey
    <3>3. InvMarks'
      BY <2>3, <2>4, <3>1, <3>2 DEF InvMarks
    <3> QED
      BY <2>5, <2>6, <3>3 DEF ViewInv
  <2> QED
    BY <2>5, <2>6, <2>7 DEF ViewInv
<1>5. CASE Yes
  <2>0. w["tui"].pc = "idle" /\ ui.stage = "confirm" /\ ui.chown = FALSE
    BY <1>0, <1>5 DEF Yes, KeyPressed, ViewStates
  <2>1. CASE findImage
    <3>1. Start /\ ui' = [ui EXCEPT !.stage = "writing"]
      BY <1>5, <2>1 DEF Yes
    <3>2. ui' = [ui EXCEPT !.stage = "writing", !.chown = FALSE]
      BY <1>0, <2>0, <3>1 DEF ViewStates
    <3> QED
      BY <1>4, <2>0, <3>1, <3>2
  <2>2. CASE ~findImage
    <3>1. w' = w /\ ui' = [ui EXCEPT !.stage = "error"]
      BY <1>5, <2>2 DEF Yes
    <3>2. ui' = [ui EXCEPT !.stage = "error", !.chown = FALSE]
      BY <1>0, <2>0, <3>1 DEF ViewStates
    <3> QED
      BY <1>0, <1>3, <2>0, <3>1, <3>2 DEF ViewInv, DevicesKnown
  <2> QED
    BY <2>1, <2>2
<1>6. CASE FlashDone
  <2>1. w["tui"].pc # "idle" /\ w' = [w EXCEPT !["tui"] = NoWrite]
    BY <1>6 DEF FlashDone
  <2>2. ui.stage = "writing" /\ ui.chown = FALSE
    BY <1>0, <2>1 DEF ViewInv, InvView, ViewStates
  <2>3. PICK t \in {"done", "error", "perm"} : ui' = [ui EXCEPT !.stage = t]
    BY <1>6 DEF FlashDone
  <2>4. ui' = [ui EXCEPT !.stage = t, !.chown = FALSE]
    BY <1>0, <2>2, <2>3 DEF ViewStates
  <2>5. NoWrite.pc = "idle" /\ NoWrite.dev = Nowhere
    BY DEF NoWrite
  <2>6. w'["tui"] = NoWrite /\ w'["cli"] = w["cli"]
    BY <1>0, <2>1
  <2> QED
    BY <1>0, <1>3, <2>2, <2>4, <2>5, <2>6
<1>7. ASSUME NEW ok \in BOOLEAN, ChownDone(ok) PROVE ViewInv'
  <2>1. ui.chown /\ ui.stage = "perm" /\ w["tui"].pc = "idle"
    BY <1>7 DEF ChownDone, ViewInv, InvView
  <2>2. CASE ok
    <3>1. Start /\ ui' = [ui EXCEPT !.stage = "writing", !.chown = FALSE]
      BY <1>7, <2>2 DEF ChownDone
    <3> QED
      BY <1>4, <2>1, <3>1
  <2>3. CASE ~ok
    <3>1. w' = w /\ ui' = [ui EXCEPT !.stage = "error", !.chown = FALSE]
      BY <1>7, <2>3 DEF ChownDone
    <3> QED
      BY <1>0, <1>3, <2>1, <3>1 DEF ViewInv, DevicesKnown
  <2> QED
    BY <2>2, <2>3
<1> QED
  BY <1>5, <1>6, <1>7

LEMMA InitFlash == FlashInit => InvAlone /\ ViewInv
<1> SUFFICES ASSUME FlashInit PROVE InvAlone /\ ViewInv
  OBVIOUS
<1>1. \A x \in Writers : w[x] = NoWrite
  BY DEF FlashInit
<1>2. NoWrite \in WriterStates(Nowhere, Nowhere) /\ NoWrite.pc = "idle" /\ NoWrite.dev = Nowhere
  BY FreshWriter DEF NoWrite
<1>3. img \in [cur : Builds, size : [Builds -> Nat]]
  <2>1. 1 \in Builds /\ Length \in Nat
    BY FlashAssumption DEF Builds
  <2>2. [v \in Builds |-> IF v = 1 THEN Length ELSE 0] \in [Builds -> Nat]
    BY <2>1
  <2> QED
    BY <2>1, <2>2 DEF FlashInit
<1>4. InvWriters
  <2>1. w = [x \in Writers |-> w[x]]
    BY DEF FlashInit
  <2>2. \A x \in Writers : \E d, o : w[x] \in WriterStates(d, o)
    BY <1>1, <1>2
  <2> QED
    BY <1>1, <1>2, <1>3, <2>1, <2>2 DEF InvWriters
<1>5. WritesAlone
  BY <1>1, <1>2 DEF WritesAlone
<1>6. DevicesKnown
  BY NowhereKnown, <1>1, <1>2, FlashAssumption DEF DevicesKnown
<1>7. Shut \in ViewStates /\ Shut.stage = "closed" /\ Shut.chown = FALSE
  <2>1. <<>> \in Seq(Listing) /\ {} \in SUBSET MarkKeys
    OBVIOUS
  <2> QED
    BY <2>1 DEF Shut, ViewStates, Stages
<1>8. at \in [Paths -> Sticks] /\ saved.ignored = {} /\ ui = Shut /\ w["tui"].pc = "idle"
  BY <1>1, <1>2, FlashAssumption DEF FlashInit, Writers
<1>9. InvView /\ InvMarks
  BY <1>7, <1>8 DEF InvView, InvMarks
<1> QED
  BY <1>4, <1>5, <1>6, <1>9 DEF InvAlone, ViewInv

LEMMA NextFlash ==
  ASSUME InvAlone, ViewInv, [FlashNext]_flashVars
  PROVE  InvAlone' /\ ViewInv'
<1>1. InvAlone'
  BY NextAlone DEF ViewInv
<1>2. InvWriters
  BY DEF InvAlone
<1> QED
  BY <1>1, <1>2, WritersView, SwapView, KeysView, StartsView DEF FlashNext

(* However a mount, another flash or a build comes between the checks of    *)
(* device.Flash or the flash view and the write, nobody else uses the disk  *)
(* that device.Write has open: part of FlashSafe.                           *)
THEOREM WritesAloneHolds == FlashSpec => []WritesAlone
<1>1. InvAlone /\ ViewInv => WritesAlone
  BY DEF InvAlone
<1> QED
  BY <1>1, InitFlash, NextFlash, PTL DEF FlashSpec

(* A write that device.Write reports as done has put all of the image it    *)
(* opened on the device, whatever is built meanwhile: part of FlashSafe.    *)
THEOREM FlashedWholeHolds == FlashSpec => FlashedWhole
<1>1. ASSUME InvAlone, ViewInv, [FlashNext]_flashVars
      PROVE  [\A x \in Writers :
                w[x].pc = "write" /\ w'[x].pc = "done" /\ img.size[w[x].ver] = Length => w'[x].out >= Length]_flashVars
  <2>1. \A x \in Writers : w[x].pc = "write" /\ w'[x].pc = "done" => w'[x].out >= img.size[w[x].ver]
    BY <1>1, NextAlone DEF ViewInv
  <2> QED
    BY <2>1
<1> QED
  BY <1>1, InitFlash, NextFlash, PTL DEF FlashSpec, FlashedWhole

(* A stick with an identity that the user marked is not written from the    *)
(* flash view, while no stick is swapped under the open view, whose list    *)
(* would then be out of date: part of FlashSafe.                            *)
THEOREM MarkedNeverWritten ==
  ASSUME ~SwapWhileOpen
  PROVE  FlashSpec => []IgnoredNeverWritten
<1>1. ASSUME InvAlone, ViewInv PROVE IgnoredNeverWritten
  <2>1. SUFFICES ASSUME w["tui"].pc = "write", Id[w["tui"].on] # NoId
                 PROVE  Id[w["tui"].on] \notin ui.ignored
    BY DEF IgnoredNeverWritten
  <2>2. InvMarks /\ InvView /\ ui.stage = "writing" /\ ui.cands # <<>> /\ ui.cursor \in 1 .. Len(ui.cands)
    BY <1>1, <2>1 DEF ViewInv, InvView
  <2>3. Cand.key = IgnoreKey(Cand.path) /\ Cand.key \notin ui.ignored /\ w["tui"].on = at[Cand.path]
    BY <2>1, <2>2 DEF InvMarks, Cand
  <2> QED
    BY <2>1, <2>3 DEF IgnoreKey
<1> QED
  BY <1>1, InitFlash, NextFlash, PTL DEF FlashSpec


-----------------------------------------------------------------------------
(* What may be flashed *)

(* Partitions and the disks that have them rest on nothing, nor does any    *)
(* candidate: ListCandidates skips mapped devices and arrays by name, and   *)
(* what is left out is a mapped device that itself has partitions.          *)
DisksAtBottom ==
    /\ \A p \in DOMAIN Parent : Slaves[p] = {} /\ Slaves[Parent[p]] = {}
    /\ \A p \in Paths : Slaves[p] = {}

SlavesWithin(c) == \A n \in c : Slaves[n] \subseteq c
RestsWithin(c) == \A n \in c : Slaves[n] \union {parentDisk(n)} \subseteq c

(* What a node rests on, itself included. *)
Stack(n) == {m \in Nodes : \A c \in SUBSET Nodes : n \in c /\ SlavesWithin(c) => m \in c}
Bottoms(n) == {b \in Stack(n) : Slaves[b] = {}}

(* The stack of a node is the node and the stacks of its slaves. *)
LEMMA StackUnfolds ==
  ASSUME NEW n \in Nodes
  PROVE  Stack(n) = {n} \union UNION {Stack(s) : s \in Slaves[n]}
<1>0. \A m \in Nodes : Slaves[m] \subseteq Nodes
  BY FlashAssumption
<1>1. ASSUME NEW m \in Nodes PROVE m \in Stack(m) /\ SlavesWithin(Stack(m)) /\ Stack(m) \subseteq Nodes
  BY <1>0 DEF Stack, SlavesWithin
<1>2. ASSUME NEW s \in Slaves[n] PROVE Stack(s) \subseteq Stack(n)
  BY <1>0 DEF Stack, SlavesWithin
<1>3. PICK c : c = {n} \union UNION {Stack(s) : s \in Slaves[n]}
  OBVIOUS
<1>4. c \in SUBSET Nodes /\ n \in c
  BY <1>0, <1>1, <1>3
<1>5. SlavesWithin(c)
  <2>1. ASSUME NEW m \in c, NEW t \in Slaves[m] PROVE t \in c
    <3>1. CASE m = n
      <4>1. t \in Nodes /\ t \in Stack(t) /\ t \in Slaves[n]
        BY <1>0, <1>1, <2>1, <3>1
      <4> QED
        BY <1>3, <4>1
    <3>2. ASSUME NEW s \in Slaves[n], m \in Stack(s) PROVE t \in c
      <4>1. t \in Stack(s)
        BY <1>0, <1>1, <2>1, <3>2 DEF SlavesWithin
      <4> QED
        BY <1>3, <4>1
    <3> QED
      BY <1>3, <2>1, <3>1, <3>2
  <2> QED
    BY <2>1 DEF SlavesWithin
<1>6. Stack(n) \subseteq c
  BY <1>4, <1>5 DEF Stack
<1>7. c \subseteq Stack(n)
  BY <1>1, <1>2, <1>3
<1> QED
  BY <1>3, <1>6, <1>7

LEMMA UnderlyingUnfolds ==
  \A n \in Nodes : underlyingDevices[n] =
      IF Slaves[n] = {} THEN {n} ELSE UNION {underlyingDevices[s] : s \in Slaves[n]}
<1>0. \A m \in Nodes : Slaves[m] \subseteq Nodes
  BY FlashAssumption
<1>1. PICK f : f = [n \in Nodes |-> Bottoms(n)]
  OBVIOUS
<1>2. ASSUME NEW n \in Nodes PROVE f[n] = IF Slaves[n] = {} THEN {n} ELSE UNION {f[s] : s \in Slaves[n]}
  <2>1. Stack(n) = {n} \union UNION {Stack(s) : s \in Slaves[n]}
    BY StackUnfolds
  <2>2. CASE Slaves[n] = {}
    BY <1>1, <2>1, <2>2 DEF Bottoms
  <2>3. CASE Slaves[n] # {}
    <3>1. \A s \in Slaves[n] : f[s] = Bottoms(s)
      BY <1>0, <1>1
    <3>2. Bottoms(n) = UNION {Bottoms(s) : s \in Slaves[n]}
      BY <2>1, <2>3 DEF Bottoms
    <3> QED
      BY <1>1, <2>3, <3>1, <3>2
  <2> QED
    BY <2>2, <2>3
<1>3. f = [n \in Nodes |-> IF Slaves[n] = {} THEN {n} ELSE UNION {f[s] : s \in Slaves[n]}]
  BY <1>1, <1>2
<1>4. underlyingDevices = [n \in Nodes |-> IF Slaves[n] = {} THEN {n} ELSE UNION {underlyingDevices[s] : s \in Slaves[n]}]
  BY <1>3 DEF underlyingDevices
<1> QED
  BY <1>4

(* There is a least set of devices that the system rests on. *)
LEMMA BelowLeast ==
  /\ Below \in SUBSET Nodes /\ Critical \subseteq Below /\ RestsWithin(Below)
  /\ \A q \in SUBSET Nodes : Critical \subseteq q /\ RestsWithin(q) => Below \subseteq q
<1>0. (\A m \in Nodes : Slaves[m] \subseteq Nodes /\ parentDisk(m) \in Nodes) /\ Critical \subseteq Nodes
  BY FlashAssumption DEF parentDisk, Whole
<1>1. PICK r : r = {m \in Nodes : \A c \in SUBSET Nodes : Critical \subseteq c /\ RestsWithin(c) => m \in c}
  OBVIOUS
<1>2. r \in SUBSET Nodes /\ Critical \subseteq r
  BY <1>0, <1>1
<1>3. RestsWithin(r)
  <2>1. ASSUME NEW n \in r, NEW t \in Slaves[n] \union {parentDisk(n)} PROVE t \in r
    <3>1. t \in Nodes
      BY <1>0, <1>1, <2>1
    <3>2. ASSUME NEW c \in SUBSET Nodes, Critical \subseteq c, RestsWithin(c) PROVE t \in c
      <4>1. n \in c
        BY <1>1, <3>2
      <4> QED
        BY <2>1, <3>2, <4>1 DEF RestsWithin
    <3> QED
      BY <1>1, <3>1, <3>2
  <2> QED
    BY <2>1 DEF RestsWithin
<1>4. \A q \in SUBSET Nodes : Critical \subseteq q /\ RestsWithin(q) => r \subseteq q
  BY <1>1
<1>5. \A q \in SUBSET r : Critical \subseteq q /\ RestsWithin(q) => q = r
  BY <1>2, <1>4
<1>6. Below = CHOOSE b \in SUBSET Nodes : /\ Critical \subseteq b /\ RestsWithin(b)
                                          /\ \A q \in SUBSET b : Critical \subseteq q /\ RestsWithin(q) => q = b
  BY DEF Below, RestsWithin
<1>7. /\ Below \in SUBSET Nodes /\ Critical \subseteq Below /\ RestsWithin(Below)
      /\ \A q \in SUBSET Below : Critical \subseteq q /\ RestsWithin(q) => q = Below
  BY <1>2, <1>3, <1>5, <1>6
<1>8. r \subseteq Below /\ r = Below
  BY <1>2, <1>3, <1>4, <1>7
<1> QED
  BY <1>2, <1>3, <1>4, <1>8

(* Every disk and partition that the system rests on is of a system disk.   *)
LEMMA BelowIsSystem ==
  ASSUME DisksAtBottom, NEW n \in Below, Slaves[n] = {}
  PROVE  n \in Nodes /\ parentDisk(n) \in systemDisks
<1>0. /\ \A m \in Nodes : Slaves[m] \subseteq Nodes /\ parentDisk(m) \in Nodes
      /\ Critical \subseteq Nodes /\ \A p \in DOMAIN Parent : p \in Nodes /\ Parent[p] \in Nodes \ DOMAIN Parent
  BY FlashAssumption DEF parentDisk, Whole
<1>1. PICK q : q = {m \in Nodes : \A b \in underlyingDevices[m] : parentDisk(b) \in systemDisks}
  OBVIOUS
<1>2. ASSUME NEW m \in Nodes, Slaves[m] = {} PROVE m \in q <=> parentDisk(m) \in systemDisks
  <2>1. underlyingDevices[m] = {m}
    BY <1>2, UnderlyingUnfolds
  <2> QED
    BY <1>1, <2>1
<1>3. Critical \subseteq q
  BY <1>0, <1>1 DEF systemDisks
<1>4. ASSUME NEW m \in q, NEW s \in Slaves[m] PROVE s \in q
  <2>1. underlyingDevices[m] = UNION {underlyingDevices[t] : t \in Slaves[m]}
    BY <1>1, <1>4, UnderlyingUnfolds
  <2>2. underlyingDevices[s] \subseteq underlyingDevices[m]
    BY <2>1
  <2> QED
    BY <1>0, <1>1, <2>2
<1>5. ASSUME NEW m \in q PROVE parentDisk(m) \in q
  <2>1. CASE m \notin DOMAIN Parent
    BY <2>1 DEF parentDisk
  <2>2. CASE m \in DOMAIN Parent
    <3>1. Slaves[m] = {} /\ Slaves[Parent[m]] = {} /\ parentDisk(m) = Parent[m] /\ parentDisk(Parent[m]) = Parent[m]
      BY <1>0, <2>2 DEF DisksAtBottom, parentDisk
    <3>2. Parent[m] \in systemDisks
      BY <1>0, <1>2, <2>2, <3>1
    <3> QED
      BY <1>0, <1>2, <2>2, <3>1, <3>2
  <2> QED
    BY <2>1, <2>2
<1>6. RestsWithin(q) /\ q \in SUBSET Nodes
  BY <1>1, <1>4, <1>5 DEF RestsWithin
<1>7. n \in q /\ n \in Nodes
  BY <1>3, <1>6, BelowLeast
<1> QED
  BY <1>2, <1>7

(* What a writer holds, and that until its last round it has put exactly    *)
(* what it has read on the device: a full buffer is whole sectors.          *)
Working == [pc : WriteSteps, dev : Nodes, on : Media, ver : Builds,
            n : 0..Length, out : 0..(Length + Sector), again : BOOLEAN]
WriterSound(v) == v \in Working /\ (v.pc = "write" => v.out = v.n)
InvBytes ==
    /\ img.size \in [Builds -> 0..Length]
    /\ \A x \in Writers : WriterSound(w[x])

(* Only what device.Flash and the list let through is ever offered. *)
InvOffered ==
    /\ w["cli"].pc # "idle" => validateDevice(w["cli"].dev)
    /\ \A i \in DOMAIN ui.cands : ui.cands[i].path \notin systemDisks

(* The rest of the types. *)
InvRest ==
    /\ mounted \subseteq Nodes /\ denied \subseteq Paths
    /\ ui.cursor \in {1} \union DOMAIN ui.cands
    /\ saved \in [ignored : SUBSET MarkKeys, last : Paths \union {NoId}]
    /\ events \in 0..MaxEvents /\ flashes \in 0..MaxFlashes

LEMMA AlignUpBounds ==
  ASSUME NEW k \in Nat
  PROVE  alignUp(k) < k + Sector /\ alignUp(Buf) = Buf
<1>1. Sector \in Nat /\ Sector > 0 /\ Buf \in Nat /\ Buf % Sector = 0
  BY FlashAssumption
<1>2. ASSUME NEW m \in Nat
      PROVE  \E q \in Nat : /\ alignUp(m) = q * Sector /\ q * Sector \in Nat
                            /\ q * Sector <= m + Sector - 1 /\ m + Sector - 1 < q * Sector + Sector
  <2>1. PICK a \in Nat : a = m + Sector - 1
    BY <1>1
  <2>2. PICK q : q = a \div Sector
    OBVIOUS
  <2>3. q \in Nat /\ q * Sector <= a /\ a < q * Sector + Sector /\ q * Sector \in Nat
    BY <1>1, <2>1, <2>2
  <2>4. alignUp(m) = q * Sector
    BY <2>1, <2>2 DEF alignUp
  <2> QED
    BY <2>1, <2>3, <2>4
<1>3. alignUp(k) < k + Sector
  BY <1>1, <1>2
<1>4. alignUp(Buf) = Buf
  <2>1. PICK b \in Nat : b = Buf \div Sector
    BY <1>1
  <2>2. Buf = b * Sector
    BY <1>1, <2>1
  <2>3. PICK q \in Nat : /\ alignUp(Buf) = q * Sector /\ q * Sector <= Buf + Sector - 1
                         /\ Buf + Sector - 1 < q * Sector + Sector
    BY <1>1, <1>2
  <2>4. q * Sector < (b + 1) * Sector /\ b * Sector <= q * Sector
    <3>1. (b + 1) * Sector = b * Sector + Sector
      BY <1>1
    <3>2. PICK u \in Nat, v \in Nat : u = q * Sector /\ v = b * Sector
      BY <1>1
    <3> QED
      BY <1>1, <2>2, <2>3, <3>1, <3>2
  <2>5. q < b + 1 /\ b <= q
    <3>1. ASSUME NEW i \in Nat, NEW j \in Nat, i < j PROVE i * Sector < j * Sector
      <4>1. PICK d \in Nat : j = i + d /\ d >= 1
        BY <3>1
      <4>2. j * Sector = i * Sector + d * Sector
        BY <1>1, <4>1
      <4>3. d * Sector >= Sector
        BY <1>1, <4>1
      <4>4. i * Sector \in Nat /\ d * Sector \in Nat
        BY <1>1
      <4> QED
        BY <1>1, <4>2, <4>3, <4>4
    <3>2. q * Sector \in Nat /\ b * Sector \in Nat /\ (b + 1) * Sector \in Nat
      BY <1>1
    <3>3. q < b + 1
      <4>1. SUFFICES ASSUME b + 1 <= q PROVE FALSE
        OBVIOUS
      <4>2. (b + 1) * Sector <= q * Sector
        BY <3>1, <3>2, <4>1
      <4> QED
        BY <2>4, <3>2, <4>2
    <3>4. b <= q
      <4>1. SUFFICES ASSUME q < b PROVE FALSE
        OBVIOUS
      <4>2. q * Sector < b * Sector
        BY <3>1, <4>1
      <4> QED
        BY <2>4, <3>2, <4>2
    <3> QED
      BY <3>3, <3>4
  <2>6. q = b
    BY ONLY <2>5, q \in Nat, b \in Nat
  <2> QED
    BY <2>2, <2>3, <2>6
<1> QED
  BY <1>3, <1>4

(* A writer that is only stopped, or started anew, keeps to its bounds. *)
LEMMA WriterKept ==
  ASSUME NEW v, WriterSound(v), NEW s \in WriteSteps \ {"write"}, NEW g \in BOOLEAN, NEW d \in Nodes
  PROVE  /\ WriterSound([v EXCEPT !.pc = s]) /\ WriterSound([v EXCEPT !.pc = s, !.dev = d])
         /\ WriterSound([v EXCEPT !.pc = s, !.again = g])
<1>1. /\ [v EXCEPT !.pc = s] \in Working /\ [v EXCEPT !.pc = s].pc = s
      /\ [v EXCEPT !.pc = s, !.dev = d] \in Working /\ [v EXCEPT !.pc = s, !.dev = d].pc = s
      /\ [v EXCEPT !.pc = s, !.again = g] \in Working /\ [v EXCEPT !.pc = s, !.again = g].pc = s
  BY DEF WriterSound, Working
<1> QED
  BY <1>1 DEF WriterSound

LEMMA WriterFresh ==
  ASSUME NEW d \in Nodes
  PROVE  WriterSound(NoWrite) /\ WriterSound([NoWrite EXCEPT !.pc = "open", !.dev = d])
<1>1. 0 \in 0 .. Length /\ 0 \in 0 .. (Length + Sector) /\ 1 \in Builds /\ Nowhere \in Nodes /\ Nowhere \in Media
  <2>1. Length \in Nat /\ Sector \in Nat /\ MaxBuilds \in Nat /\ MaxBuilds # 0 /\ Nowhere \in Nodes
    BY NowhereKnown, FlashAssumption
  <2> QED
    BY <2>1 DEF Builds, Media
<1>2. NoWrite \in Working /\ NoWrite.pc = "idle"
  BY <1>1 DEF NoWrite, Working, WriteSteps
<1>3. [NoWrite EXCEPT !.pc = "open", !.dev = d] \in Working /\ [NoWrite EXCEPT !.pc = "open", !.dev = d].pc = "open"
  BY <1>2 DEF Working, WriteSteps
<1> QED
  BY <1>2, <1>3 DEF WriterSound

(* One round of the copy stays within the image and its last sector. *)
LEMMA ChunkBytes ==
  ASSUME InvAlone, InvBytes, NEW x \in Writers, Chunk(x)
  PROVE  InvBytes'
<1>0. /\ w = [y \in Writers |-> w[y]] /\ img' = img /\ w[x].pc = "write" /\ w[x] \in Working /\ w[x].out = w[x].n
      /\ Buf \in Nat /\ Length \in Nat /\ Sector \in Nat
  BY FlashAssumption DEF InvAlone, InvWriters, Chunk, InvBytes, WriterSound
<1>1. PICK r \in Nat : r = img.size[w[x].ver] /\ r <= Length /\ w[x].n <= r
  <2>1. img.size[w[x].ver] \in 0 .. Length /\ w[x].n <= img.size[w[x].ver]
    BY <1>0 DEF InvBytes, InvAlone, InvWriters, Working
  <2> QED
    BY <1>0, <2>1
<1>2. PICK m \in Nat : m = w[x].n /\ m = w[x].out /\ m <= r
  <2>1. w[x].n \in 0 .. Length
    BY <1>0 DEF Working
  <2> QED
    BY <1>0, <1>1, <2>1
<1>3. PICK k \in Nat : k = Min({Buf, r - m}) /\ k <= r - m /\ (k < Buf \/ k = Buf)
  <2>1. r - m \in Nat
    BY <1>1, <1>2
  <2> QED
    BY <1>0, <2>1, MinOfTwo
<1>4. PICK a \in Nat : a = alignUp(k) /\ a < k + Sector /\ (k = Buf => a = k)
  BY <1>0, AlignUpAdds, AlignUpBounds
<1>5. PICK v : v = [w[x] EXCEPT !.n = m + k, !.out = m + a, !.pc = IF k < Buf THEN "done" ELSE "write"]
  OBVIOUS
<1>6. w' = [w EXCEPT ![x] = v]
  BY <1>0, <1>1, <1>2, <1>3, <1>4, <1>5 DEF Chunk
<1>7. m + k \in 0 .. Length /\ m + a \in 0 .. (Length + Sector)
  BY ONLY <1>0, <1>1, <1>2, <1>3, <1>4, Length \in Nat, Sector \in Nat
<1>8. v \in Working /\ v.n = m + k /\ v.out = m + a /\ v.pc = IF k < Buf THEN "done" ELSE "write"
  BY <1>0, <1>5, <1>7 DEF Working, WriteSteps
<1>9. v.pc = "write" => v.out = v.n
  BY <1>3, <1>4, <1>8
<1>10. WriterSound(v)
  BY <1>8, <1>9 DEF WriterSound
<1>11. w'[x] = v /\ \A y \in Writers \ {x} : w'[y] = w[y]
  BY <1>0, <1>6
<1> QED
  BY <1>0, <1>10, <1>11 DEF InvBytes

(* Opening the device starts at its first byte. *)
LEMMA OpenBytes ==
  ASSUME InvAlone, InvBytes, InvView, NEW x \in Writers, WriteOpen(x)
  PROVE  InvBytes'
<1>0. w = [y \in Writers |-> w[y]] /\ img' = img /\ w[x] \in Working /\ WriterSound(w[x]) /\ img.cur \in Builds
  BY DEF InvAlone, InvWriters, WriteOpen, InvBytes, WriterSound
<1>1. PICK v : v = w'[x]
  OBVIOUS
<1>2. v \in {[w[x] EXCEPT !.pc = "failed"], [w[x] EXCEPT !.pc = "denied"],
             [w[x] EXCEPT !.pc = "write", !.on = Medium(w[x].dev), !.ver = img.cur, !.n = 0, !.out = 0]}
  BY <1>0, <1>1 DEF WriteOpen
<1>3. \A y \in Writers \ {x} : w'[y] = w[y]
  BY <1>0 DEF WriteOpen
<1>4. Medium(w[x].dev) \in Media
  BY <1>0 DEF Medium, Media, InvView, Working
<1>5. 0 \in 0 .. Length /\ 0 \in 0 .. (Length + Sector)
  <2>1. Length \in Nat /\ Sector \in Nat
    BY FlashAssumption
  <2> QED
    BY <2>1
<1>6. CASE v = [w[x] EXCEPT !.pc = "write", !.on = Medium(w[x].dev), !.ver = img.cur, !.n = 0, !.out = 0]
  <2>1. v \in Working /\ v.out = 0 /\ v.n = 0
    BY <1>0, <1>4, <1>5, <1>6 DEF Working, WriteSteps
  <2> QED
    BY <1>0, <1>1, <1>3, <2>1 DEF InvBytes, WriterSound
<1>7. CASE \E s \in {"failed", "denied"} : v = [w[x] EXCEPT !.pc = s]
  <2>1. PICK s \in WriteSteps \ {"write"} : v = [w[x] EXCEPT !.pc = s]
    BY <1>7 DEF WriteSteps
  <2>2. WriterSound(v)
    BY <1>0, <2>1, WriterKept, FlashAssumption
  <2> QED
    BY <1>0, <1>1, <1>3, <2>2 DEF InvBytes
<1> QED
  BY <1>2, <1>6, <1>7

(* Around the write: whoever is not writing on is stopped or started anew.  *)
LEMMA AroundBytes ==
  ASSUME InvAlone, InvBytes, ViewInv,
         \/ \E n \in Nodes, yes \in BOOLEAN : Flash(n, yes)
         \/ \E yes \in BOOLEAN : Answer(yes) \/ offerChown(yes) \/ ChownDone(yes)
         \/ Report \/ Yes \/ FlashDone
         \/ \E x \in Writers : WriteFails(x)
         \/ \E p \in Paths, s \in Sticks : Swap(p, s)
  PROVE  InvBytes'
<1>0. w = [y \in Writers |-> w[y]] /\ Writers = {"cli", "tui"} /\ Nowhere \in Nodes
  BY NowhereKnown, FlashAssumption DEF InvAlone, InvWriters, Writers
<1>1. img' = img
  BY DEF Flash, Answer, offerChown, ChownDone, Report, Yes, FlashDone, WriteFails, Swap, ViewOnly
<1>2. \A x \in Writers : WriterSound(w[x])
  BY DEF InvBytes
<1>3. ASSUME NEW x \in Writers, NEW v, w' = [w EXCEPT ![x] = v], WriterSound(v) PROVE InvBytes'
  <2>1. w'[x] = v /\ \A y \in Writers \ {x} : w'[y] = w[y]
    BY <1>0, <1>3
  <2> QED
    BY <1>1, <1>3, <2>1 DEF InvBytes
<1>4. CASE w' = w
  BY <1>1, <1>4 DEF InvBytes
<1>5. ASSUME NEW x \in Writers, w' = [w EXCEPT ![x] = NoWrite] PROVE InvBytes'
  <2>1. WriterSound(NoWrite)
    BY <1>0, WriterFresh
  <2> QED
    BY <1>3, <1>5, <2>1
<1>6. ASSUME Start, ui.stage \in {"confirm", "perm"} PROVE InvBytes'
  <2>1. Cand.path \in Nodes
    BY <1>6, CandKnown DEF ViewInv, InvView
  <2>2. PICK v : v = [NoWrite EXCEPT !.pc = "open", !.dev = Cand.path]
    OBVIOUS
  <2>3. WriterSound(v)
    BY <2>1, <2>2, WriterFresh
  <2>4. w' = [w EXCEPT !["tui"] = v]
    BY <1>6, <2>2 DEF Start
  <2> QED
    BY <1>0, <1>3, <2>3, <2>4
<1>7. ASSUME NEW x \in Writers, NEW s \in WriteSteps \ {"write"}, w' = [w EXCEPT ![x].pc = s] PROVE InvBytes'
  <2>1. PICK v : v = [w[x] EXCEPT !.pc = s]
    OBVIOUS
  <2>2. WriterSound(v)
    BY <1>0, <1>2, <2>1, WriterKept
  <2>3. w' = [w EXCEPT ![x] = v]
    BY <1>0, <1>7, <2>1
  <2> QED
    BY <1>3, <2>2, <2>3
<1>8. ASSUME NEW n \in Nodes, NEW yes \in BOOLEAN, Flash(n, yes) PROVE InvBytes'
  <2>1. PICK s \in WriteSteps \ {"write"} : s = IF yes THEN "open" ELSE "confirm"
    BY DEF WriteSteps
  <2>2. PICK v : v = [w["cli"] EXCEPT !.pc = s, !.dev = n]
    OBVIOUS
  <2>3. WriterSound(v)
    BY <1>0, <1>2, <2>2, WriterKept
  <2>4. w' = [w EXCEPT !["cli"] = v]
    BY <1>0, <1>8, <2>1, <2>2 DEF Flash
  <2> QED
    BY <1>0, <1>3, <2>3, <2>4
<1>9. ASSUME NEW yes \in BOOLEAN, Answer(yes) PROVE InvBytes'
  <2>1. CASE yes
    <3>1. w' = [w EXCEPT !["cli"].pc = "open"]
      BY <1>0, <1>9, <2>1 DEF Answer
    <3> QED
      BY <1>0, <1>7, <3>1 DEF WriteSteps
  <2>2. CASE ~yes
    BY <1>0, <1>5, <1>9, <2>2 DEF Answer
  <2> QED
    BY <2>1, <2>2
<1>10. ASSUME NEW yes \in BOOLEAN, offerChown(yes) PROVE InvBytes'
  <2>1. CASE yes
    <3>1. PICK v : v = [w["cli"] EXCEPT !.pc = "open", !.again = TRUE]
      OBVIOUS
    <3>2. WriterSound(v)
      BY <1>0, <1>2, <3>1, WriterKept DEF WriteSteps
    <3>3. w' = [w EXCEPT !["cli"] = v]
      BY <1>0, <1>10, <2>1, <3>1 DEF offerChown
    <3> QED
      BY <1>0, <1>3, <3>2, <3>3
  <2>2. CASE ~yes
    BY <1>0, <1>5, <1>10, <2>2 DEF offerChown
  <2> QED
    BY <2>1, <2>2
<1>11. CASE Report \/ FlashDone
  BY <1>0, <1>5, <1>11 DEF Report, FlashDone
<1>12. CASE Yes
  BY <1>4, <1>6, <1>12 DEF Yes
<1>13. ASSUME NEW ok \in BOOLEAN, ChownDone(ok) PROVE InvBytes'
  BY <1>4, <1>6, <1>13 DEF ChownDone, ViewInv, InvView
<1>14. ASSUME NEW x \in Writers, WriteFails(x) PROVE InvBytes'
  BY <1>7, <1>14 DEF WriteFails, WriteSteps
<1>15. ASSUME NEW p \in Paths, NEW s \in Sticks, Swap(p, s) PROVE InvBytes'
  <2>1. w' = [x \in Writers |-> IF w[x].pc = "write" /\ w[x].dev \in Family(p)
                                THEN [w[x] EXCEPT !.pc = "failed"] ELSE w[x]]
    BY <1>15 DEF Swap
  <2>2. ASSUME NEW x \in Writers PROVE WriterSound(w'[x])
    <3>1. WriterSound([w[x] EXCEPT !.pc = "failed"])
      BY <1>0, <1>2, WriterKept DEF WriteSteps
    <3> QED
      BY <1>2, <2>1, <3>1
  <2> QED
    BY <1>1, <2>2 DEF InvBytes
<1> QED
  BY <1>8, <1>9, <1>10, <1>11, <1>12, <1>13, <1>14, <1>15

LEMMA NextBytes ==
  ASSUME InvAlone, InvBytes, ViewInv, [FlashNext]_flashVars
  PROVE  InvBytes'
<1>1. CASE UNCHANGED <<w, img>>
  BY <1>1 DEF InvBytes
<1>2. CASE \/ OpenView \/ Enter \/ No \/ AskChown \/ Leave
           \/ \E yes \in BOOLEAN : Toggle(yes)
           \/ \E i \in 1 .. Len(Candidate) : Move(i)
           \/ \E n \in Nodes : Mount(n) \/ Unmount(n)
           \/ UNCHANGED flashVars
  <2>1. UNCHANGED <<w, img>>
    BY <1>2 DEF OpenView, Enter, No, AskChown, Leave, Toggle, Move, Mount, Unmount, ViewOnly, flashVars
  <2> QED
    BY <1>1, <2>1
<1>3. CASE BuildStart
  <2>1. w' = w /\ img'.size = img.size
    BY <1>3 DEF BuildStart, InvAlone, InvWriters
  <2> QED
    BY <2>1 DEF InvBytes
<1>4. ASSUME NEW k \in {Short, Length}, BuildMore(k) PROVE InvBytes'
  <2>1. k \in 0 .. Length
    <3>1. Length \in Nat /\ Short \in 1 .. (Length - 1)
      BY FlashAssumption
    <3> QED
      BY <3>1
  <2>2. w' = w /\ img'.size = [img.size EXCEPT ![img.cur] = k]
    BY <1>4 DEF BuildMore, InvAlone, InvWriters
  <2>3. img'.size \in [Builds -> 0 .. Length]
    BY <2>1, <2>2 DEF InvBytes
  <2> QED
    BY <2>2, <2>3 DEF InvBytes
<1> QED
  BY <1>2, <1>3, <1>4, OpenBytes, ChunkBytes, AroundBytes DEF FlashNext, ViewInv

(* `yoe flash` keeps the device it has checked. *)
LEMMA CliOffered ==
  ASSUME InvAlone, InvBytes, w["cli"].pc # "idle" => validateDevice(w["cli"].dev), [FlashNext]_flashVars
  PROVE  w'["cli"].pc # "idle" => validateDevice(w'["cli"].dev)
<1>0. w = [y \in Writers |-> w[y]] /\ Writers = {"cli", "tui"} /\ \A x \in Writers : w[x] \in Working
  BY DEF InvAlone, InvWriters, Writers, InvBytes, WriterSound
<1>1. CASE w'["cli"] = w["cli"]
  BY <1>1
<1>2. CASE w["cli"].pc # "idle" /\ w'["cli"].dev = w["cli"].dev
  BY <1>2
<1>3. CASE w'["cli"] = NoWrite
  BY <1>3 DEF NoWrite
<1>4. ASSUME NEW n \in Nodes, NEW yes \in BOOLEAN, Flash(n, yes) PROVE validateDevice(w'["cli"].dev)
  <2>1. w'["cli"].dev = n
    BY <1>0, <1>4 DEF Flash, Working
  <2> QED
    BY <1>4, <2>1 DEF Flash
<1>5. ASSUME NEW yes \in BOOLEAN, Answer(yes) \/ offerChown(yes)
      PROVE  w'["cli"] = NoWrite \/ (w["cli"].pc # "idle" /\ w'["cli"].dev = w["cli"].dev)
  <2>1. CASE Answer(yes)
    BY <1>0, <2>1 DEF Answer, Working
  <2>2. CASE offerChown(yes)
    BY <1>0, <2>2 DEF offerChown, Working
  <2> QED
    BY <1>5, <2>1, <2>2
<1>6. CASE Report
  BY <1>0, <1>3, <1>6 DEF Report
<1>7. ASSUME NEW x \in Writers, WriteOpen(x) \/ Chunk(x) \/ WriteFails(x)
      PROVE  w'["cli"] = w["cli"] \/ (w["cli"].pc # "idle" /\ w'["cli"].dev = w["cli"].dev)
  <2>1. CASE x = "tui"
    BY <1>0, <1>7, <2>1 DEF WriteOpen, Chunk, WriteFails
  <2>2. CASE x = "cli"
    <3>1. CASE WriteOpen(x)
      BY <1>0, <2>2, <3>1 DEF WriteOpen, Working
    <3>2. CASE Chunk(x)
      BY <1>0, <2>2, <3>2 DEF Chunk, Working
    <3>3. CASE WriteFails(x)
      BY <1>0, <2>2, <3>3 DEF WriteFails, Working
    <3> QED
      BY <1>7, <3>1, <3>2, <3>3
  <2> QED
    BY <1>0, <2>1, <2>2
<1>8. ASSUME NEW p \in Paths, NEW s \in Sticks, Swap(p, s)
      PROVE  w'["cli"] = w["cli"] \/ (w["cli"].pc # "idle" /\ w'["cli"].dev = w["cli"].dev)
  <2>1. w'["cli"] = w["cli"] \/ (w["cli"].pc = "write" /\ w'["cli"] = [w["cli"] EXCEPT !.pc = "failed"])
    BY <1>0, <1>8 DEF Swap
  <2>2. [w["cli"] EXCEPT !.pc = "failed"].dev = w["cli"].dev
    BY <1>0 DEF Working
  <2> QED
    BY <2>1, <2>2
<1>9. CASE Yes \/ FlashDone \/ \E ok \in BOOLEAN : ChownDone(ok)
  <2>1. w'["cli"] = w["cli"]
    BY <1>0, <1>9 DEF Yes, FlashDone, ChownDone, Start
  <2> QED
    BY <1>1, <2>1
<1>10. CASE \/ OpenView \/ Enter \/ No \/ AskChown \/ Leave
            \/ \E yes \in BOOLEAN : Toggle(yes)
            \/ \E i \in 1 .. Len(Candidate) : Move(i)
            \/ \E n \in Nodes : Mount(n) \/ Unmount(n)
            \/ BuildStart \/ \E k \in {Short, Length} : BuildMore(k)
            \/ UNCHANGED flashVars
  <2>1. w' = w
    BY <1>10 DEF OpenView, Enter, No, AskChown, Leave, Toggle, Move, Mount, Unmount, BuildStart, BuildMore, flashVars
  <2> QED
    BY <1>1, <2>1
<1> QED
  BY <1>1, <1>2, <1>3, <1>4, <1>5, <1>6, <1>7, <1>8, <1>9, <1>10 DEF FlashNext

(* The list of the view, and the cursor in it. *)
LEMMA ViewOffered ==
  ASSUME ViewInv, \A i \in DOMAIN ui.cands : ui.cands[i].path \notin systemDisks,
         ui.cursor \in {1} \union DOMAIN ui.cands, [FlashNext]_flashVars
  PROVE  /\ \A i \in DOMAIN ui'.cands : ui'.cands[i].path \notin systemDisks
         /\ ui'.cursor \in {1} \union DOMAIN ui'.cands
<1>0. at \in [Paths -> Sticks] /\ ui \in ViewStates
  BY DEF ViewInv, InvView
<1>1. CASE ui'.cands = ui.cands /\ ui'.cursor = ui.cursor
  BY <1>1
<1>2. CASE OpenView
  <2>1. PICK c \in Seq(Listing) : c = ListCandidates
    BY <1>0, ListingType
  <2>2. DOMAIN c = 1 .. Len(c) /\ 1 .. Len(c) \subseteq Nat
    OBVIOUS
  <2>3. PICK S \in SUBSET DOMAIN c : S = {i \in DOMAIN c : c[i].path = saved.last /\ c[i].key \notin saved.ignored}
    OBVIOUS
  <2>4. PICK T \in SUBSET DOMAIN c : firstSelectableFlash(c, saved.ignored) = IF T = {} THEN 1 ELSE Min(T)
    BY DEF firstSelectableFlash
  <2>5. PICK k : k = IF S # {} THEN Min(S) ELSE firstSelectableFlash(c, saved.ignored)
    OBVIOUS
  <2>6. k \in {1} \union DOMAIN c
    <3>1. \A U \in SUBSET DOMAIN c : U # {} => Min(U) \in U
      BY <2>2, MinExists
    <3> QED
      BY <2>4, <2>5, <3>1
  <2>7. ui' = [ui EXCEPT !.stage = "select", !.cands = c, !.ignored = saved.ignored, !.cursor = k]
    BY <1>2, <2>1, <2>3, <2>5 DEF OpenView
  <2>8. ui'.cands = c /\ ui'.cursor = k
    BY <1>0, <2>7 DEF ViewStates
  <2>9. \A i \in DOMAIN c : c[i].path \notin systemDisks
    <3>1. PICK free \in Seq(Paths) : free = selectable[Len(Candidate)]
      BY SelectableDisks
    <3>2. \A i \in 1 .. Len(free) : free[i] \notin systemDisks
      BY <3>1, SelectableDisks
    <3>3. c = [i \in 1 .. Len(free) |-> [path |-> free[i], key |-> IgnoreKey(free[i])]]
      BY <2>1, <3>1 DEF ListCandidates
    <3> QED
      BY <3>2, <3>3
  <2> QED
    BY <2>6, <2>8, <2>9
<1>3. ASSUME NEW i \in 1 .. Len(Candidate), Move(i)
      PROVE  ui'.cands = ui.cands /\ ui'.cursor \in DOMAIN ui.cands
  BY <1>0, <1>3 DEF Move, ViewStates
<1>4. CASE Leave
  <2>1. PICK b : ui' = [Shut EXCEPT !.chown = b]
    BY <1>4 DEF Leave
  <2>2. ui'.cands = <<>> /\ ui'.cursor = 1
    BY <2>1 DEF Shut
  <2> QED
    BY <2>2
<1>5. CASE \/ \E yes \in BOOLEAN : ChownDone(yes) \/ Toggle(yes)
           \/ Enter \/ Yes \/ No \/ FlashDone \/ AskChown
  <2>1. \/ \E t : ui' = [ui EXCEPT !.stage = t]
        \/ \E t, b : ui' = [ui EXCEPT !.stage = t, !.chown = b]
        \/ \E b : ui' = [ui EXCEPT !.chown = b]
        \/ \E m : ui' = [ui EXCEPT !.ignored = m]
    BY <1>5, Zenon DEF ChownDone, Toggle, Enter, Yes, No, FlashDone, AskChown
  <2>2. ui'.cands = ui.cands /\ ui'.cursor = ui.cursor
    BY <1>0, <2>1 DEF ViewStates
  <2> QED
    BY <1>1, <2>2
<1>6. CASE \/ \E n \in Nodes, yes \in BOOLEAN : Flash(n, yes)
           \/ \E yes \in BOOLEAN : Answer(yes) \/ offerChown(yes)
           \/ Report
           \/ \E x \in Writers : WriteOpen(x) \/ Chunk(x) \/ WriteFails(x)
           \/ \E n \in Nodes : Mount(n) \/ Unmount(n)
           \/ \E p \in Paths, s \in Sticks : Swap(p, s)
           \/ BuildStart \/ \E k \in {Short, Length} : BuildMore(k)
           \/ UNCHANGED flashVars
  <2>1. ui' = ui
    BY <1>6 DEF Flash, Answer, offerChown, Report, WriteOpen, Chunk, WriteFails, Mount, Unmount, Swap,
                BuildStart, BuildMore, flashVars
  <2> QED
    BY <1>1, <2>1
<1> QED
  BY <1>2, <1>3, <1>4, <1>5, <1>6 DEF FlashNext

(* Mounts, permissions, the saved settings and the bounds. *)
LEMMA RestKept ==
  ASSUME ViewInv, InvRest, [FlashNext]_flashVars
  PROVE  /\ mounted' \subseteq Nodes /\ denied' \subseteq Paths
         /\ saved' \in [ignored : SUBSET MarkKeys, last : Paths \union {NoId}]
         /\ events' \in 0 .. MaxEvents /\ flashes' \in 0 .. MaxFlashes
<1>0. MaxEvents \in Nat /\ MaxFlashes \in Nat
  BY FlashAssumption
<1>1. mounted' \subseteq Nodes
  BY DEF InvRest, FlashNext, flashVars, ViewOnly, Flash, Answer, offerChown, ChownDone, Toggle, Report, WriteOpen,
         Chunk, WriteFails, OpenView, Enter, Yes, No, FlashDone, AskChown, Leave, Move, Mount, Unmount, Swap,
         BuildStart, BuildMore
<1>2. denied' \subseteq denied
  BY DEF InvRest, FlashNext, flashVars, ViewOnly, Flash, Answer, offerChown, ChownDone, Toggle, Report, WriteOpen,
         Chunk, WriteFails, OpenView, Enter, Yes, No, FlashDone, AskChown, Leave, Move, Mount, Unmount, Swap,
         BuildStart, BuildMore
<1>3. events' = events \/ (events < MaxEvents /\ events' = events + 1)
  BY DEF FlashNext, flashVars, ViewOnly, Flash, Answer, offerChown, ChownDone, Toggle, Report, WriteOpen,
         Chunk, WriteFails, OpenView, Enter, Yes, No, FlashDone, AskChown, Leave, Move, Mount, Unmount, Swap,
         BuildStart, BuildMore, FlashEvent
<1>4. flashes' = flashes \/ (flashes < MaxFlashes /\ flashes' = flashes + 1)
  BY DEF FlashNext, flashVars, ViewOnly, Flash, Answer, offerChown, ChownDone, Toggle, Report, WriteOpen,
         Chunk, WriteFails, OpenView, Enter, Yes, No, FlashDone, AskChown, Leave, Move, Mount, Unmount, Swap,
         BuildStart, BuildMore
<1>5. events' \in 0 .. MaxEvents /\ flashes' \in 0 .. MaxFlashes
  <2>1. events \in 0 .. MaxEvents /\ flashes \in 0 .. MaxFlashes
    BY DEF InvRest
  <2> QED
    BY ONLY <1>0, <1>3, <1>4, <2>1
<1>6. saved' \in [ignored : SUBSET MarkKeys, last : Paths \union {NoId}]
  <2>0. saved \in [ignored : SUBSET MarkKeys, last : Paths \union {NoId}]
    BY DEF InvRest
  <2>1. CASE saved' = saved
    BY <2>0, <2>1
  <2>2. ASSUME NEW yes \in BOOLEAN, Toggle(yes) PROVE saved' = saved \/ saved' \in [ignored : SUBSET MarkKeys, last : Paths \union {NoId}]
    <3>1. ui.stage = "select" /\ ui.cands # <<>>
      BY <2>2 DEF Toggle
    <3>2. Cand.key \in MarkKeys /\ ui.ignored \in SUBSET MarkKeys
      BY <3>1, CandKnown DEF ViewInv, InvView, ViewStates
    <3>3. PICK m \in SUBSET MarkKeys : m = IF Cand.key \in ui.ignored THEN ui.ignored \ {Cand.key}
                                           ELSE ui.ignored \union {Cand.key}
      BY <3>2
    <3>4. PICK p \in Paths \union {NoId} : p = IF Cand.key \in m /\ saved.last = Cand.path THEN NoId ELSE saved.last
      BY <2>0
    <3>5. saved' = saved \/ saved' = [ignored |-> m, last |-> p]
      BY <2>2, <3>3, <3>4 DEF Toggle
    <3> QED
      BY <3>5
  <2>3. ASSUME Yes PROVE saved' \in [ignored : SUBSET MarkKeys, last : Paths \union {NoId}]
    <3>1. Cand.path \in Paths
      BY <2>3, CandKnown DEF Yes, ViewInv, InvView
    <3>2. saved' = saved \/ saved' = [saved EXCEPT !.last = Cand.path]
      BY <2>3 DEF Yes
    <3> QED
      BY <2>0, <3>1, <3>2
  <2>4. saved' = saved \/ Yes \/ \E yes \in BOOLEAN : Toggle(yes)
    BY DEF FlashNext, flashVars, Flash, Answer, offerChown, ChownDone, Report, WriteOpen, Chunk, WriteFails,
           OpenView, Enter, No, FlashDone, AskChown, Leave, Move, Mount, Unmount, Swap, BuildStart, BuildMore
  <2> QED
    BY <2>1, <2>2, <2>3, <2>4
<1> QED
  BY <1>1, <1>2, <1>5, <1>6 DEF InvRest

FlashInv == InvAlone /\ ViewInv /\ InvBytes /\ InvOffered /\ InvRest

LEMMA InitSafe == FlashInit => FlashInv
<1> SUFFICES ASSUME FlashInit PROVE FlashInv
  OBVIOUS
<1>1. \A x \in Writers : w[x] = NoWrite
  BY DEF FlashInit
<1>2. NoWrite.pc = "idle" /\ WriterSound(NoWrite)
  BY WriterFresh, FlashAssumption DEF NoWrite
<1>3. InvBytes
  <2>1. Length \in Nat
    BY FlashAssumption
  <2>2. [v \in Builds |-> IF v = 1 THEN Length ELSE 0] \in [Builds -> 0 .. Length]
    <3>1. Length \in 0 .. Length /\ 0 \in 0 .. Length
      BY <2>1
    <3> QED
      BY <3>1
  <2> QED
    BY <1>1, <1>2, <2>2 DEF FlashInit, InvBytes
<1>4. ui.cands = <<>> /\ ui.cursor = 1
  BY DEF FlashInit, Shut
<1>5. InvOffered
  BY <1>1, <1>2, <1>4 DEF InvOffered, Writers
<1>6. InvRest
  <2>1. MaxEvents \in Nat /\ MaxFlashes \in Nat
    BY FlashAssumption
  <2>2. 0 \in 0 .. MaxEvents /\ 0 \in 0 .. MaxFlashes
    BY <2>1
  <2> QED
    BY <1>4, <2>2 DEF FlashInit, InvRest
<1> QED
  BY <1>3, <1>5, <1>6, InitFlash DEF FlashInv

LEMMA NextSafe == FlashInv /\ [FlashNext]_flashVars => FlashInv'
<1> SUFFICES ASSUME FlashInv, [FlashNext]_flashVars PROVE FlashInv'
  OBVIOUS
<1>1. InvAlone /\ ViewInv /\ InvBytes /\ InvOffered /\ InvRest
  BY DEF FlashInv
<1>2. InvAlone' /\ ViewInv'
  BY <1>1, NextFlash
<1>3. InvBytes'
  BY <1>1, NextBytes
<1>4. w'["cli"].pc # "idle" => validateDevice(w'["cli"].dev)
  BY <1>1, CliOffered DEF InvOffered
<1>5. /\ \A i \in DOMAIN ui'.cands : ui'.cands[i].path \notin systemDisks
      /\ ui'.cursor \in {1} \union DOMAIN ui'.cands
  BY <1>1, ViewOffered DEF InvOffered, InvRest
<1>6. InvOffered'
  BY <1>4, <1>5 DEF InvOffered
<1>7. InvRest'
  BY <1>1, <1>5, RestKept DEF InvRest
<1> QED
  BY <1>2, <1>3, <1>6, <1>7 DEF FlashInv

LEMMA FlashTyped == FlashInv => FlashTypeOK
<1> SUFFICES ASSUME FlashInv PROVE FlashTypeOK
  OBVIOUS
<1>1. w \in [Writers -> Working]
  <2>1. w = [x \in Writers |-> w[x]] /\ \A x \in Writers : w[x] \in Working
    BY DEF FlashInv, InvAlone, InvWriters, InvBytes, WriterSound
  <2> QED
    BY <2>1
<1>2. img \in [cur : Builds, size : [Builds -> 0 .. Length]]
  BY DEF FlashInv, InvAlone, InvWriters, InvBytes
<1>3. ui \in ViewStates /\ at \in [Paths -> Sticks]
  BY DEF FlashInv, ViewInv, InvView
<1>4. InvRest
  BY DEF FlashInv
<1> QED
  BY <1>1, <1>2, <1>3, <1>4 DEF FlashTypeOK, Working, ViewStates, InvRest

(* The checks of device.Flash and of ListCandidates keep every disk of the  *)
(* running system out, however many mapped devices are between, in any      *)
(* graph of devices whose disks are at the bottom.                          *)
LEMMA SystemNotOffered ==
  ASSUME DisksAtBottom, FlashInv
  PROVE  NeverOffersSystem
<1>1. ASSUME w["cli"].pc # "idle", Slaves[w["cli"].dev] = {} PROVE w["cli"].dev \notin Below
  <2>1. parentDisk(w["cli"].dev) \notin systemDisks
    BY <1>1 DEF FlashInv, InvOffered, validateDevice
  <2> QED
    BY <1>1, <2>1, BelowIsSystem
<1>2. ASSUME NEW i \in DOMAIN ui.cands PROVE ui.cands[i].path \notin Below
  <2>1. ui.cands \in Seq(Listing) /\ ui.cands[i].path \notin systemDisks
    BY DEF FlashInv, ViewInv, InvView, ViewStates, InvOffered
  <2>2. ui.cands[i] \in Listing
    BY <2>1
  <2>3. PICK p \in Paths : p = ui.cands[i].path
    BY <2>2 DEF Listing
  <2>4. Slaves[p] = {} /\ parentDisk(p) = p
    <3>1. p \in Whole
      BY FlashAssumption DEF Paths, Range
    <3> QED
      BY <3>1 DEF DisksAtBottom, parentDisk, Whole
  <2> QED
    BY <2>1, <2>3, <2>4, BelowIsSystem
<1> QED
  BY <1>1, <1>2 DEF NeverOffersSystem

(* All of FlashSafe: the flash view and `yoe flash` offer no disk the       *)
(* system rests on, device.Write writes a disk nobody else uses and that    *)
(* was not marked, and what it reports as done is whole, for any devices,   *)
(* sticks and sizes, while no stick is swapped under the open view.         *)
THEOREM FlashSafeHolds ==
  ASSUME DisksAtBottom, ~SwapWhileOpen
  PROVE  FlashSpec => FlashSafe
<1>1. FlashInv => FlashTypeOK /\ WritesAlone /\ NeverOffersSystem
  BY FlashTyped, SystemNotOffered DEF FlashInv, InvAlone
<1>2. FlashSpec => []FlashInv
  BY InitSafe, NextSafe, PTL DEF FlashSpec
<1>3. FlashSpec => []IgnoredNeverWritten
  BY MarkedNeverWritten
<1> QED
  BY <1>1, <1>2, <1>3, FlashedWholeHolds, PTL DEF FlashSafe

-----------------------------------------------------------------------------
(* The repositories file of the device *)

(* The script edits the block n of the file: k of its four commands on the  *)
(* file are behind it, and the rest leaves the file alone.                  *)
EditCommand(n, u, j) ==
    IF j = 1 THEN [do |-> "strip", arg |-> n]
    ELSE [do |-> "line", arg |-> IF j = 2 THEN begin(n) ELSE IF j = 3 THEN entry(u) ELSE end(n)]

Editing(n, u, k) ==
    /\ Len(ses.script) >= 4 - k
    /\ \A i \in 1 .. Len(ses.script) :
          IF i + k <= 4 THEN ses.script[i] = EditCommand(n, u, i + k)
          ELSE ses.script[i].do \notin {"strip", "line"}

Removing(n) == Len(ses.script) = 1 /\ ses.script[1] = [do |-> "strip", arg |-> n]

(* A block is whole, unless it is the one being written.                    *)
WholeAt(n, i) == i + 2 <= Len(lines) /\ lines[i + 1].mark = "url" /\ lines[i + 2] = end(n)
WrittenAt(i, k) ==
    \/ k = 2 /\ i = Len(lines)
    \/ k = 3 /\ i + 1 = Len(lines) /\ lines[i + 1].mark = "url"
BlocksWhole(n, k) ==
    \A m \in BlockNames, i \in 1 .. Len(lines) :
        lines[i] = begin(m) => WholeAt(m, i) \/ (m = n /\ WrittenAt(i, k))

InvFile ==
    \E n \in BlockNames, u \in Urls, k \in 0 .. 4 :
        /\ ses.st = "run" => Editing(n, u, k) \/ (k = 0 /\ Removing(n))
        /\ ses.st # "run" => k = 4
        /\ k = 1 => \A i \in 1 .. Len(lines) : lines[i] # begin(n)
        /\ ~cut => BlocksWhole(n, k)

(* A name begins one block at most.                                         *)
InvSingle ==
    \A n \in BlockNames : \A i, j \in 1 .. Len(lines) : lines[i] = begin(n) /\ lines[j] = begin(n) => i = j

(* A line that begins no block is deleted only with the line before it.     *)
LEMMA InsideBack ==
  ASSUME NEW n \in BlockNames, NEW p \in Nat, p > 0, lines[p + 1] # begin(n), Inside(n, p + 1)
  PROVE  Inside(n, p)
<1>1. PICK b \in 1 .. (p + 1) : lines[b] = begin(n) /\ \A j \in b .. ((p + 1) - 1) : lines[j] # end(n)
  BY DEF Inside
<1>2. b \in Nat /\ b # p + 1 /\ b \in 1 .. p
  BY <1>1
<1>3. \A j \in b .. (p - 1) : j \in b .. ((p + 1) - 1)
  BY <1>2
<1> QED
  BY <1>1, <1>2, <1>3 DEF Inside

(* What sed leaves of the file: no begin of the block, the lines that are   *)
(* in no block, and the other blocks whole.                                 *)
LEMMA StripFile ==
  ASSUME lines \in Seq(Lines), NEW n \in BlockNames, lines' = Strip(n)
  PROVE  /\ lines' \in Seq(Lines)
         /\ \A i \in 1 .. Len(lines') : lines'[i] # begin(n)
         /\ InvSingle => InvSingle'
         /\ BlocksWhole(n, 0) =>
              /\ \A m \in BlockNames, i \in 1 .. Len(lines') : lines'[i] = begin(m) => WholeAt(m, i)'
              /\ \A l : (\E i \in 1 .. Len(lines) : lines[i] = user(l))
                          => \E i \in 1 .. Len(lines') : lines'[i] = user(l)
<1>n. PICK N \in Nat : N = Len(lines)
  OBVIOUS
<1>0. DOMAIN lines = 1 .. N
  BY <1>n
<1>1. PICK K \in SUBSET (1 .. N) : K = {i \in 1 .. N : ~Inside(n, i)}
  OBVIOUS
<1>2. PICK t : t = lines' /\ t = KeepAt(lines, K)
  BY <1>0, <1>1 DEF Strip
<1>3. t \in Seq(Lines)
  BY <1>n, <1>2, KeepAtPicks
<1>4. PICK f : Picks(f, t, lines, K)
  BY <1>n, <1>2, KeepAtPicks
<1>5. PICK M \in Nat : M = Len(t)
  BY <1>3
<1>6. K \in SUBSET Nat /\ Len(t) \in Nat
  BY <1>3, <1>n
<1>7. /\ \A i \in 1 .. M : f[i] \in K /\ f[i] \in 1 .. N /\ f[i] \in Nat /\ t[i] = lines[f[i]]
  <2>1. \A i \in 1 .. M : f[i] \in K /\ t[i] = lines[f[i]]
    BY <1>4, <1>5 DEF Picks
  <2>2. \A p \in K : p \in 1 .. N /\ p \in Nat
    BY <1>6
  <2> QED
    BY ONLY <2>1, <2>2
<1>8. \A p \in K : ~Inside(n, p)
  BY <1>1
<1>9. \A p \in 1 .. N : ~Inside(n, p) => p \in K
  BY <1>1
<1>10. ASSUME NEW p \in 1 .. N, lines[p] = begin(n) PROVE Inside(n, p)
  <2>1. p \in Nat /\ p \in 1 .. p /\ \A j \in p .. (p - 1) : FALSE
    BY <1>n
  <2> QED
    BY <1>10, <2>1 DEF Inside
<1>11. \A i \in 1 .. M : t[i] # begin(n)
  BY <1>7, <1>8, <1>10
<1>12. ASSUME InvSingle, NEW m \in BlockNames, NEW i \in 1 .. M, NEW j \in 1 .. M, t[i] = begin(m), t[j] = begin(m)
       PROVE  i = j
  <2>1. f[i] = f[j]
    BY <1>n, <1>7, <1>12 DEF InvSingle
  <2> QED
    BY <1>4, <1>5, <1>6, <2>1, PicksApart
<1>13. InvSingle => InvSingle'
  BY <1>2, <1>5, <1>12 DEF InvSingle
<1>14. ASSUME BlocksWhole(n, 0), NEW m \in BlockNames, NEW p \in 1 .. N, lines[p] = begin(m)
       PROVE  p + 2 <= N /\ lines[p + 1].mark = "url" /\ lines[p + 2] = end(m)
  BY <1>n, <1>14 DEF BlocksWhole, WholeAt, WrittenAt
<1>15. ASSUME BlocksWhole(n, 0), NEW m \in BlockNames, NEW i \in 1 .. M, t[i] = begin(m)
       PROVE  i + 2 <= M /\ t[i + 1].mark = "url" /\ t[i + 2] = end(m)
  <2>1. PICK p \in Nat : p = f[i]
    BY <1>7
  <2>2. p \in 1 .. N /\ p \in K /\ lines[p] = begin(m)
    BY <1>7, <1>15, <2>1
  <2>3. p + 2 <= N /\ lines[p + 1].mark = "url" /\ lines[p + 2] = end(m)
    BY <1>14, <1>15, <2>2
  <2>4. p > 0 /\ p + 1 \in Nat /\ p + 1 > 0 /\ p + 1 \in 1 .. N /\ p + 2 \in 1 .. N /\ (p + 1) + 1 = p + 2
    BY ONLY <2>1, <2>2, <2>3, <1>n
  <2>5. lines[p + 1] # begin(n) /\ lines[p + 2] # begin(n)
    BY <2>3 DEF begin, end
  <2>6. ~Inside(n, p)
    BY <1>8, <2>2
  <2>7. ~Inside(n, p + 1)
    BY <2>1, <2>4, <2>5, <2>6, InsideBack
  <2>8. ~Inside(n, p + 2)
    BY <2>4, <2>5, <2>7, InsideBack
  <2>9. p + 1 \in K /\ p + 2 \in K
    BY <1>9, <2>4, <2>7, <2>8
  <2>10. i + 1 \in 1 .. M /\ f[i + 1] = p + 1
    BY <1>4, <1>5, <1>6, <2>1, <2>9, PicksNext
  <2>11. (i + 1) + 1 \in 1 .. M /\ f[(i + 1) + 1] = (p + 1) + 1
    BY <1>4, <1>5, <1>6, <2>4, <2>9, <2>10, PicksNext
  <2>12. i \in Nat /\ (i + 1) + 1 = i + 2 /\ i + 2 \in 1 .. M /\ i + 2 <= M
    BY ONLY <1>5, <2>11, i \in 1 .. M
  <2>13. t[i + 1] = lines[p + 1] /\ t[i + 2] = lines[p + 2]
    BY <1>7, <2>4, <2>10, <2>11, <2>12
  <2> QED
    BY <2>3, <2>12, <2>13
<1>16. ASSUME BlocksWhole(n, 0), NEW l, NEW i \in 1 .. N, lines[i] = user(l)
       PROVE  \E j \in 1 .. M : t[j] = user(l)
  <2>1. ~Inside(n, i)
    <3> SUFFICES ASSUME Inside(n, i) PROVE FALSE
      OBVIOUS
    <3>1. PICK b \in 1 .. i : lines[b] = begin(n) /\ \A j \in b .. (i - 1) : lines[j] # end(n)
      BY DEF Inside
    <3>2. i \in Nat /\ b \in Nat /\ b <= i /\ b \in 1 .. N
      BY <1>n
    <3>3. b + 2 <= N /\ lines[b + 1].mark = "url" /\ lines[b + 2] = end(n)
      BY <1>14, <1>16, <3>1, <3>2
    <3>4. lines[i].mark = "user" /\ lines[b].mark = "begin" /\ lines[b + 2].mark = "end"
      BY <1>16, <3>1, <3>3 DEF user, begin, end
    <3>5. i # b /\ i # b + 1 /\ i # b + 2
      BY <3>3, <3>4
    <3>6. b + 2 \in b .. (i - 1)
      BY ONLY <3>2, <3>5
    <3> QED
      BY <3>1, <3>3, <3>6
  <2>2. PICK j \in 1 .. M : f[j] = i
    BY <1>4, <1>5, <1>9, <2>1 DEF Picks
  <2> QED
    BY <1>7, <1>16, <2>2
<1>17. ASSUME BlocksWhole(n, 0)
       PROVE  \A m \in BlockNames, i \in 1 .. Len(lines') : lines'[i] = begin(m) => WholeAt(m, i)'
  BY <1>2, <1>5, <1>15, <1>17 DEF WholeAt
<1>18. ASSUME BlocksWhole(n, 0)
       PROVE  \A l : (\E i \in 1 .. Len(lines) : lines[i] = user(l)) => \E i \in 1 .. Len(lines') : lines'[i] = user(l)
  BY <1>n, <1>2, <1>5, <1>16, <1>18
<1>19. lines' \in Seq(Lines) /\ \A i \in 1 .. Len(lines') : lines'[i] # begin(n)
  BY <1>2, <1>3, <1>5, <1>11
<1> QED
  BY <1>13, <1>17, <1>18, <1>19

(* A line at the end of the file leaves what was there as it was.           *)
LEMMA AppendFile ==
  ASSUME lines \in Seq(Lines), NEW x \in Lines, lines' = Append(lines, x)
  PROVE  /\ lines' \in Seq(Lines) /\ Len(lines) \in Nat /\ Len(lines') = Len(lines) + 1
         /\ \A i \in 1 .. Len(lines) : lines'[i] = lines[i]
         /\ lines'[Len(lines) + 1] = x
         /\ \A m, i : i \in 1 .. Len(lines) /\ WholeAt(m, i) => WholeAt(m, i)'
         /\ \A l : (\E i \in 1 .. Len(lines) : lines[i] = user(l)) => \E i \in 1 .. Len(lines') : lines'[i] = user(l)
         /\ \A i \in 1 .. Len(lines') : i \in 1 .. Len(lines) \/ i = Len(lines) + 1
<1>n. PICK N \in Nat : N = Len(lines)
  OBVIOUS
<1>1. /\ lines' \in Seq(Lines) /\ Len(lines') = N + 1
      /\ \A i \in 1 .. N : lines'[i] = lines[i]
      /\ lines'[N + 1] = x
  BY <1>n, AppendProperties
<1>2. \A i \in 1 .. N : i \in 1 .. (N + 1)
  BY <1>n
<1>3. ASSUME NEW m, NEW i \in 1 .. N, WholeAt(m, i) PROVE WholeAt(m, i)'
  <2>1. i + 2 <= N /\ lines[i + 1].mark = "url" /\ lines[i + 2] = end(m)
    BY <1>n, <1>3 DEF WholeAt
  <2>2. i + 1 \in 1 .. N /\ i + 2 \in 1 .. N /\ i + 2 <= N + 1
    BY ONLY <1>n, <2>1, i \in 1 .. N
  <2>3. lines'[i + 1] = lines[i + 1] /\ lines'[i + 2] = lines[i + 2]
    BY <1>1, <2>2
  <2> QED
    BY <1>1, <2>1, <2>2, <2>3 DEF WholeAt
<1>4. \A i \in 1 .. (N + 1) : i \in 1 .. N \/ i = N + 1
  BY <1>n
<1>5. \A l : (\E i \in 1 .. N : lines[i] = user(l)) => \E i \in 1 .. (N + 1) : lines'[i] = user(l)
  BY <1>1, <1>2
<1> QED
  BY <1>n, <1>1, <1>3, <1>4, <1>5

(* One command of the script is behind. *)
LEMMA EditAdvances ==
  ASSUME ses \in Sessions, ses.script # <<>>, ses'.script = Tail(ses.script),
         NEW n, NEW u, NEW k \in 0 .. 4, Editing(n, u, k)
  PROVE  /\ k < 4 => Head(ses.script) = EditCommand(n, u, k + 1) /\ Editing(n, u, k + 1)'
         /\ k = 4 => Head(ses.script).do \notin {"strip", "line"} /\ Editing(n, u, 4)'
<1>1. ses.script \in Seq(ScriptCommands)
  BY DEF Sessions
<1>2. PICK L \in Nat : L = Len(ses.script) /\ L > 0
  BY <1>1, EmptySeq
<1>3. /\ Len(ses'.script) = L - 1 /\ Head(ses.script) = ses.script[1]
      /\ \A i \in 1 .. (L - 1) : ses'.script[i] = ses.script[i + 1]
  BY <1>1, <1>2, HeadTailProperties
<1>4. /\ L >= 4 - k
      /\ \A i \in 1 .. L : IF i + k <= 4 THEN ses.script[i] = EditCommand(n, u, i + k)
                           ELSE ses.script[i].do \notin {"strip", "line"}
  BY <1>2 DEF Editing
<1>5. CASE k < 4
  <2>1. 1 \in 1 .. L /\ 1 + k <= 4 /\ 1 + k = k + 1
    BY <1>2, <1>5
  <2>2. Head(ses.script) = EditCommand(n, u, k + 1)
    BY <1>3, <1>4, <2>1
  <2>3. ASSUME NEW i \in 1 .. (L - 1)
        PROVE  IF i + (k + 1) <= 4 THEN ses'.script[i] = EditCommand(n, u, i + (k + 1))
               ELSE ses'.script[i].do \notin {"strip", "line"}
    <3>1. i + 1 \in 1 .. L /\ (i + 1) + k = i + (k + 1)
      BY <1>2
    <3> QED
      BY <1>3, <1>4, <3>1
  <2>4. L - 1 >= 4 - (k + 1)
    BY <1>2, <1>4
  <2>5. Editing(n, u, k + 1)'
    BY <1>3, <2>3, <2>4 DEF Editing
  <2> QED
    BY <1>5, <2>2, <2>5
<1>6. CASE k = 4
  <2>1. 1 \in 1 .. L /\ ~(1 + k <= 4)
    BY <1>2, <1>6
  <2>2. Head(ses.script).do \notin {"strip", "line"}
    BY <1>3, <1>4, <2>1
  <2>3. ASSUME NEW i \in 1 .. (L - 1)
        PROVE  ~(i + 4 <= 4) /\ ses'.script[i].do \notin {"strip", "line"}
    <3>1. i + 1 \in 1 .. L /\ ~((i + 1) + k <= 4) /\ ~(i + 4 <= 4)
      BY <1>2, <1>6
    <3> QED
      BY <1>3, <1>4, <3>1
  <2>4. L - 1 >= 4 - 4
    BY <1>2
  <2>5. Editing(n, u, 4)'
    BY <1>3, <2>3, <2>4 DEF Editing
  <2> QED
    BY <1>6, <2>2, <2>5
<1> QED
  BY <1>5, <1>6

(* The file and the session, as far as the file is concerned.               *)
Filed(n, u, k) ==
    /\ ses.st = "run" => Editing(n, u, k) \/ (k = 0 /\ Removing(n))
    /\ ses.st # "run" => k = 4
    /\ k = 1 => \A i \in 1 .. Len(lines) : lines[i] # begin(n)
    /\ ~cut => BlocksWhole(n, k)

FileInv == lines \in Seq(Lines) /\ InvSingle /\ InvFile /\ UserLinesKept

LEMMA FiledIs == InvFile <=> \E n \in BlockNames, u \in Urls, k \in 0 .. 4 : Filed(n, u, k)
  BY DEF InvFile, Filed

LEMMA CommandFile ==
  ASSUME ses \in Sessions, FileInv, Command
  PROVE  FileInv'
<1>1. PICK n \in BlockNames, u \in Urls, k \in 0 .. 4 : Filed(n, u, k)
  BY FiledIs DEF FileInv
<1>2. /\ ses.st = "run" /\ ses.script # <<>> /\ cut' = cut /\ typed' = typed
      /\ ses' = [ses EXCEPT !.script = Tail(@), !.st = IF Len(ses.script) = 1 THEN "ok" ELSE @]
  BY DEF Command
<1>3. /\ ses'.script = Tail(ses.script)
      /\ ses'.st = IF Len(ses.script) = 1 THEN "ok" ELSE "run"
  BY <1>2 DEF Sessions
<1>4. lines \in Seq(Lines) /\ InvSingle /\ UserLinesKept
  BY DEF FileInv
<1>5. PICK c \in ScriptCommands : c = Head(ses.script)
  <2>1. ses.script \in Seq(ScriptCommands)
    BY DEF Sessions
  <2> QED
    BY <1>2, <2>1, HeadTailProperties
<1>6. /\ c.do = "strip" => lines' = Strip(c.arg)
      /\ c.do = "line" => lines' = Append(lines, c.arg)
      /\ c.do \notin {"strip", "line"} => lines' = lines
  BY <1>5 DEF Command
<1>7. (~cut => BlocksWhole(n, k)) /\ (k = 1 => \A i \in 1 .. Len(lines) : lines[i] # begin(n))
  BY <1>1 DEF Filed
<1>8. DOMAIN lines = 1 .. Len(lines)
  BY <1>4
<1>9. Editing(n, u, k) \/ (k = 0 /\ Removing(n))
  BY <1>1, <1>2 DEF Filed
<1>10. Editing(n, u, k) => Len(ses.script) >= 4 - k
  BY DEF Editing
<1>L. PICK L \in Nat : L = Len(ses.script) /\ L > 0
  <2>1. ses.script \in Seq(ScriptCommands)
    BY DEF Sessions
  <2> QED
    BY <1>2, <2>1, EmptySeq
<1>u. ASSUME lines' \in Seq(Lines),
             \A l : (\E i \in 1 .. Len(lines) : lines[i] = user(l)) => \E i \in 1 .. Len(lines') : lines'[i] = user(l)
      PROVE  UserLinesKept'
  <2>1. DOMAIN lines' = 1 .. Len(lines')
    BY <1>u
  <2> QED
    BY <1>2, <1>4, <1>8, <1>u, <2>1 DEF UserLinesKept
<1>11. CASE k = 0
  <2>1. c.do = "strip" /\ c.arg = n
    <3>1. CASE Editing(n, u, k)
      <4>1. c = EditCommand(n, u, 0 + 1)
        BY <1>2, <1>3, <1>5, <1>11, <3>1, EditAdvances
      <4> QED
        BY <4>1 DEF EditCommand
    <3>2. CASE Removing(n)
      <4>1. c = ses.script[1]
        <5>1. ses.script \in Seq(ScriptCommands)
          BY DEF Sessions
        <5> QED
          BY <1>2, <1>5, <5>1, HeadTailProperties
      <4> QED
        BY <3>2, <4>1 DEF Removing
    <3> QED
      BY <1>9, <3>1, <3>2
  <2>2. lines' = Strip(n)
    BY <1>6, <2>1
  <2>3. /\ lines' \in Seq(Lines)
        /\ \A i \in 1 .. Len(lines') : lines'[i] # begin(n)
        /\ InvSingle'
        /\ BlocksWhole(n, 0) =>
              /\ \A m \in BlockNames, i \in 1 .. Len(lines') : lines'[i] = begin(m) => WholeAt(m, i)'
              /\ \A l : (\E i \in 1 .. Len(lines) : lines[i] = user(l))
                          => \E i \in 1 .. Len(lines') : lines'[i] = user(l)
    BY <1>4, <2>2, StripFile
  <2>4. ASSUME NEW j PROVE ~cut' => BlocksWhole(n, j)'
    BY <1>2, <1>7, <1>11, <2>3 DEF BlocksWhole
  <2>5. UserLinesKept'
    <3>1. CASE cut
      BY <1>2, <3>1 DEF UserLinesKept
    <3>2. CASE ~cut
      BY <1>7, <1>11, <1>u, <2>3, <3>2
    <3> QED
      BY <3>1, <3>2
  <2>6. \E j \in 0 .. 4 : Filed(n, u, j)'
    <3>1. CASE Editing(n, u, k)
      <4>1. Editing(n, u, 1)' /\ ses'.st = "run"
        <5>1. Editing(n, u, 0 + 1)'
          BY <1>2, <1>3, <1>5, <1>11, <3>1, EditAdvances
        <5>2. L # 1
          <6>1. L >= 4 - 0
            BY <1>10, <1>11, <1>L, <3>1
          <6> QED
            BY ONLY <6>1
        <5> QED
          BY <1>3, <1>L, <5>1, <5>2
      <4>2. Filed(n, u, 1)'
        BY <2>3, <2>4, <4>1 DEF Filed
      <4>3. 1 \in 0 .. 4
        OBVIOUS
      <4> QED
        BY <4>2, <4>3
    <3>2. CASE Removing(n)
      <4>1. ses'.st = "ok"
        BY <1>3, <3>2 DEF Removing
      <4>2. Filed(n, u, 4)'
        BY <2>4, <4>1 DEF Filed
      <4>3. 4 \in 0 .. 4
        OBVIOUS
      <4> QED
        BY <4>2, <4>3
    <3> QED
      BY <1>9, <3>1, <3>2
  <2>7. InvFile'
    BY <2>6 DEF InvFile, Filed
  <2> QED
    BY <2>3, <2>5, <2>7 DEF FileInv
<1>12. CASE k = 4
  <2>1. c.do \notin {"strip", "line"} /\ Editing(n, u, 4)'
    BY <1>2, <1>3, <1>5, <1>9, <1>12, EditAdvances
  <2>2. lines' = lines
    BY <1>6, <2>1
  <2>3. Filed(n, u, 4)'
    BY <1>2, <1>7, <1>12, <2>1, <2>2 DEF Filed, BlocksWhole, WholeAt, WrittenAt
  <2>4. InvFile'
    BY <1>12, <2>3 DEF InvFile, Filed
  <2>5. UserLinesKept' /\ InvSingle'
    BY <1>2, <1>4, <2>2 DEF UserLinesKept, InvSingle
  <2> QED
    BY <1>4, <2>2, <2>4, <2>5 DEF FileInv
<1>13. CASE k \in 1 .. 3
  <2>1. c = EditCommand(n, u, k + 1) /\ Editing(n, u, k + 1)'
    BY <1>2, <1>3, <1>5, <1>9, <1>13, EditAdvances
  <2>2. PICK x : x = IF k = 1 THEN begin(n) ELSE IF k = 2 THEN entry(u) ELSE end(n)
    OBVIOUS
  <2>3. c.do = "line" /\ c.arg = x
    BY <1>13, <2>1, <2>2 DEF EditCommand
  <2>4. x \in Lines
    BY <2>2 DEF Lines, begin, entry, end
  <2>5. lines' = Append(lines, x)
    BY <1>6, <2>3
  <2>6. PICK N \in Nat : N = Len(lines)
    BY <1>4
  <2>7. /\ lines' \in Seq(Lines) /\ Len(lines') = N + 1
        /\ \A i \in 1 .. N : lines'[i] = lines[i]
        /\ lines'[N + 1] = x
        /\ \A m, i : i \in 1 .. N /\ WholeAt(m, i) => WholeAt(m, i)'
        /\ \A l : (\E i \in 1 .. Len(lines) : lines[i] = user(l)) => \E i \in 1 .. Len(lines') : lines'[i] = user(l)
        /\ \A i \in 1 .. (N + 1) : i \in 1 .. N \/ i = N + 1
    BY <1>4, <2>4, <2>5, <2>6, AppendFile
  <2>8. UserLinesKept'
    BY <1>u, <2>7
  <2>9. InvSingle'
    <3> SUFFICES ASSUME NEW m \in BlockNames, NEW i \in 1 .. (N + 1), NEW j \in 1 .. (N + 1),
                        lines'[i] = begin(m), lines'[j] = begin(m)
                 PROVE  i = j
      BY <2>7 DEF InvSingle
    <3>1. CASE i \in 1 .. N /\ j \in 1 .. N
      BY <1>4, <2>6, <2>7, <3>1 DEF InvSingle
    <3>2. CASE i = N + 1 /\ j = N + 1
      BY <3>2
    <3>3. ASSUME NEW a \in 1 .. N, lines'[a] = begin(m), lines'[N + 1] = begin(m) PROVE FALSE
      <4>1. x = begin(m) /\ lines[a] = begin(m)
        BY <2>7, <3>3
      <4>2. k = 1 /\ m = n
        BY <1>13, <2>2, <4>1 DEF begin, entry, end
      <4> QED
        BY <1>7, <2>6, <4>1, <4>2
    <3> QED
      BY <2>7, <3>1, <3>2, <3>3
  <2>10. ASSUME ~cut PROVE BlocksWhole(n, k + 1)'
    <3> SUFFICES ASSUME NEW m \in BlockNames, NEW i \in 1 .. (N + 1), lines'[i] = begin(m)
                 PROVE  WholeAt(m, i)' \/ (m = n /\ WrittenAt(i, k + 1)')
      BY <2>7 DEF BlocksWhole
    <3>1. CASE i \in 1 .. N
      <4>1. WholeAt(m, i) \/ (m = n /\ WrittenAt(i, k))
        BY <1>7, <2>6, <2>7, <2>10, <3>1 DEF BlocksWhole
      <4>2. CASE WholeAt(m, i)
        BY <2>7, <3>1, <4>2
      <4>3. CASE m = n /\ k = 2 /\ i = N
        <5>1. x = entry(u) /\ x.mark = "url" /\ k + 1 = 3
          BY <2>2, <4>3 DEF entry
        <5> QED
          BY <2>7, <4>3, <5>1 DEF WrittenAt
      <4>4. CASE m = n /\ k = 3 /\ i + 1 = N /\ lines[i + 1].mark = "url"
        <5>1. x = end(n)
          BY <2>2, <4>4
        <5>2. i + 2 = N + 1 /\ i + 1 \in 1 .. N
          BY ONLY <2>6, <3>1, <4>4
        <5>3. lines'[i + 1] = lines[i + 1] /\ lines'[i + 2] = end(m) /\ i + 2 <= N + 1
          BY <2>7, <4>4, <5>1, <5>2
        <5> QED
          BY <2>7, <4>4, <5>3 DEF WholeAt
      <4> QED
        BY <2>6, <4>1, <4>2, <4>3, <4>4 DEF WrittenAt
    <3>2. CASE i = N + 1
      <4>1. x = begin(m)
        BY <2>7, <3>2
      <4>2. k = 1 /\ m = n
        BY <1>13, <2>2, <4>1 DEF begin, entry, end
      <4> QED
        BY <2>7, <3>2, <4>2 DEF WrittenAt
    <3> QED
      BY <2>7, <3>1, <3>2
  <2>11. k + 1 \in 0 .. 4 /\ k + 1 # 1
    BY <1>13
  <2>12. ses'.st # "run" => k + 1 = 4
    <3>1. Editing(n, u, k) /\ k # 0 /\ k \in Nat /\ k <= 3
      BY <1>9, <1>13
    <3>2. L >= 4 - k /\ (ses'.st # "run" => L = 1)
      BY <1>3, <1>10, <1>L, <3>1
    <3> QED
      BY ONLY <3>1, <3>2
  <2>13. Filed(n, u, k + 1)'
    BY <1>2, <2>1, <2>10, <2>11, <2>12 DEF Filed
  <2>14. InvFile'
    BY <2>11, <2>13 DEF InvFile, Filed
  <2> QED
    BY <2>7, <2>8, <2>9, <2>14 DEF FileInv
<1> QED
  BY <1>11, <1>12, <1>13

(* A script that writes the block and then leaves the file alone.           *)
WritesBlock(q, n, u) ==
    /\ q \in Seq(ScriptCommands) /\ Len(q) >= 4
    /\ \A i \in 1 .. Len(q) : IF i <= 4 THEN q[i] = EditCommand(n, u, i) ELSE q[i].do \notin {"strip", "line"}

LEMMA WriteBlockWrites ==
  ASSUME NEW n \in BlockNames, NEW u \in Urls
  PROVE  WritesBlock(apkRepoWriteBlock(n, u), n, u)
<1> DEFINE s == [do |-> "strip", arg |-> n]
           b == [do |-> "line", arg |-> begin(n)]
           e == [do |-> "line", arg |-> entry(u)]
           f == [do |-> "line", arg |-> end(n)]
<1>1. s \in ScriptCommands /\ b \in ScriptCommands /\ e \in ScriptCommands /\ f \in ScriptCommands
  BY DEF ScriptCommands, Deeds, Lines, begin, entry, end
<1>2. PICK x : x = <<s>> \o <<b, e, f>>
  OBVIOUS
<1>3. apkRepoWriteBlock(n, u) = x
  BY <1>2 DEF apkRepoWriteBlock, apkRepoStripBlock
<1>4. s = EditCommand(n, u, 1) /\ b = EditCommand(n, u, 2) /\ e = EditCommand(n, u, 3) /\ f = EditCommand(n, u, 4)
  BY DEF EditCommand
<1> HIDE DEF s, b, e, f
<1>5. /\ <<s>> \in Seq(ScriptCommands) /\ Len(<<s>>) = 1 /\ <<b, e, f>> \in Seq(ScriptCommands)
      /\ Len(<<b, e, f>>) = 3 /\ <<s>>[1] = s
      /\ <<b, e, f>>[1] = b /\ <<b, e, f>>[2] = e /\ <<b, e, f>>[3] = f
  BY <1>1
<1>6. /\ x \in Seq(ScriptCommands) /\ Len(x) = 4
      /\ \A i \in 1 .. 4 : x[i] = IF i <= 1 THEN <<s>>[i] ELSE <<b, e, f>>[i - 1]
  BY <1>2, <1>5, ConcatProperties
<1>7. x[1] = s /\ x[2] = b /\ x[3] = e /\ x[4] = f
  BY <1>5, <1>6
<1>8. \A i \in 1 .. 4 : x[i] = EditCommand(n, u, i) /\ i <= 4
  BY <1>4, <1>7
<1> QED
  BY <1>3, <1>6, <1>8 DEF WritesBlock

LEMMA WritesOn ==
  ASSUME NEW n, NEW u, NEW q, WritesBlock(q, n, u), NEW d \in {"update", "del", "add"}
  PROVE  WritesBlock(q \o Do(d), n, u)
<1>1. PICK c : c = [do |-> d, arg |-> "none"]
  OBVIOUS
<1>2. c \in ScriptCommands /\ c.do \notin {"strip", "line"} /\ Do(d) = <<c>>
  BY <1>1 DEF ScriptCommands, Deeds, Do
<1>3. PICK t : t = q \o <<c>>
  OBVIOUS
<1>4. q \in Seq(ScriptCommands)
  BY DEF WritesBlock
<1>5. /\ t \in Seq(ScriptCommands) /\ Len(t) = Len(q) + 1
      /\ \A i \in 1 .. Len(q) : t[i] = q[i]
      /\ t[Len(t)] = c
  BY ONLY <1>2, <1>3, <1>4, SnocProperties
<1>6. PICK N \in Nat : N = Len(q) /\ N >= 4
  BY <1>4 DEF WritesBlock
<1>7. ASSUME NEW i \in 1 .. (N + 1)
      PROVE  IF i <= 4 THEN t[i] = EditCommand(n, u, i) ELSE t[i].do \notin {"strip", "line"}
  <2>1. CASE i \in 1 .. N
    BY <1>5, <1>6, <2>1 DEF WritesBlock
  <2>2. CASE i = N + 1
    BY <1>2, <1>5, <1>6, <2>2
  <2> QED
    BY <1>6, <2>1, <2>2
<1>8. N + 1 >= 4
  BY <1>6
<1> QED
  BY <1>2, <1>3, <1>5, <1>6, <1>7, <1>8 DEF WritesBlock

LEMMA AlpineWrites == WritesBlock(alpineDeployScript, "dev", "distro")
<1>1. "dev" \in BlockNames /\ "distro" \in Urls
  BY DEF BlockNames, Urls
<1>2. PICK a : a = apkRepoWriteBlock("dev", "distro") /\ WritesBlock(a, "dev", "distro")
  BY <1>1, WriteBlockWrites
<1>3. PICK b : b = a \o Do("update") /\ WritesBlock(b, "dev", "distro")
  BY <1>2, WritesOn
<1>4. PICK c : c = b \o Do("del") /\ WritesBlock(c, "dev", "distro")
  BY <1>3, WritesOn
<1>5. WritesBlock(c \o Do("add"), "dev", "distro")
  BY <1>4, WritesOn
<1> QED
  BY <1>2, <1>3, <1>4, <1>5 DEF alpineDeployScript

LEMMA SameBlocks ==
  ASSUME lines' = lines, NEW n, NEW k
  PROVE  BlocksWhole(n, k)' <=> BlocksWhole(n, k)
  BY DEF BlocksWhole, WholeAt, WrittenAt

(* A script sent to a device whose file is in order.                        *)
LEMMA ScriptFiled ==
  ASSUME NEW n \in BlockNames, NEW u \in Urls, ses'.st = "run", lines' = lines, cut' = cut,
         ~cut => BlocksWhole(n, 0), WritesBlock(ses'.script, n, u)
  PROVE  Filed(n, u, 0)'
<1>1. /\ Len(ses'.script) >= 4 - 0 /\ Len(ses'.script) \in Nat
      /\ \A i \in 1 .. Len(ses'.script) : i + 0 = i
  BY DEF WritesBlock
<1>2. Editing(n, u, 0)'
  BY <1>1 DEF Editing, WritesBlock
<1> QED
  BY <1>2 DEF Filed, BlocksWhole, WholeAt, WrittenAt

(* Between scripts every block is whole.                                    *)
LEMMA WholeBetween ==
  ASSUME InvFile, ses.st # "run"
  PROVE  ~cut => \A n, k : BlocksWhole(n, k)
<1>1. PICK n \in BlockNames : ~cut => BlocksWhole(n, 4)
  BY DEF InvFile
<1>2. \A i : ~WrittenAt(i, 4)
  BY DEF WrittenAt
<1> QED
  BY <1>1, <1>2 DEF BlocksWhole

LEMMA OthersFile ==
  ASSUME ses \in Sessions, FileInv,
         \/ \E mdns \in BOOLEAN : StartServer(mdns)
         \/ StopServer \/ OtherBuild \/ UNCHANGED targetVars
         \/ \E l \in UserLines : UserAdds(l)
  PROVE  FileInv'
<1>1. lines \in Seq(Lines) /\ InvSingle /\ InvFile /\ UserLinesKept
  BY DEF FileInv
<1>2. ses' = ses /\ cut' = cut
  BY DEF StartServer, StopServer, OtherBuild, UserAdds, targetVars, device
<1>3. CASE lines' = lines /\ typed' = typed
  <2>1. PICK n \in BlockNames, u \in Urls, k \in 0 .. 4 : Filed(n, u, k)
    BY <1>1, FiledIs
  <2>2. BlocksWhole(n, k)' <=> BlocksWhole(n, k)
    BY <1>3, SameBlocks
  <2>3. Filed(n, u, k)'
    BY <1>2, <1>3, <2>1, <2>2 DEF Filed, Editing, Removing
  <2>4. InvFile'
    BY <2>3 DEF InvFile, Filed
  <2>5. InvSingle' /\ UserLinesKept'
    BY <1>1, <1>2, <1>3 DEF InvSingle, UserLinesKept
  <2> QED
    BY <1>1, <1>3, <2>4, <2>5 DEF FileInv
<1>4. ASSUME NEW l \in UserLines, UserAdds(l) PROVE FileInv'
  <2>1. lines' = Append(lines, user(l)) /\ typed' = typed \union {l} /\ ses.st # "run"
    BY <1>4 DEF UserAdds
  <2>2. user(l) \in Lines /\ \A m : user(l) # begin(m)
    BY DEF Lines, user, begin
  <2>3. PICK N \in Nat : N = Len(lines)
    BY <1>1
  <2>4. /\ lines' \in Seq(Lines) /\ Len(lines') = N + 1
        /\ \A i \in 1 .. N : lines'[i] = lines[i]
        /\ lines'[N + 1] = user(l)
        /\ \A m, i : i \in 1 .. N /\ WholeAt(m, i) => WholeAt(m, i)'
        /\ \A x : (\E i \in 1 .. N : lines[i] = user(x)) => \E i \in 1 .. (N + 1) : lines'[i] = user(x)
        /\ \A i \in 1 .. (N + 1) : i \in 1 .. N \/ i = N + 1
    BY <1>1, <2>1, <2>2, <2>3, AppendFile
  <2>5. DOMAIN lines = 1 .. N /\ DOMAIN lines' = 1 .. (N + 1) /\ N + 1 \in 1 .. (N + 1)
    BY <1>1, <2>3, <2>4
  <2>6. UserLinesKept'
    <3>1. CASE cut
      BY <1>2, <3>1 DEF UserLinesKept
    <3>2. CASE ~cut
      BY <1>1, <1>2, <2>1, <2>4, <2>5, <3>2 DEF UserLinesKept
    <3> QED
      BY <3>1, <3>2
  <2>7. InvSingle'
    BY <1>1, <2>2, <2>3, <2>4 DEF InvSingle
  <2>8. PICK n \in BlockNames, u \in Urls : ~cut => BlocksWhole(n, 4)
    BY <1>1, <2>1 DEF InvFile
  <2>9. ~cut => BlocksWhole(n, 4)'
    <3> SUFFICES ASSUME ~cut, NEW m \in BlockNames, NEW i \in 1 .. (N + 1), lines'[i] = begin(m)
                 PROVE  WholeAt(m, i)'
      BY <2>4 DEF BlocksWhole
    <3>1. i \in 1 .. N /\ lines[i] = begin(m)
      BY <2>2, <2>4
    <3>2. WholeAt(m, i)
      BY <2>3, <2>8, <3>1 DEF BlocksWhole, WrittenAt
    <3> QED
      BY <2>4, <3>1, <3>2
  <2>10. Filed(n, u, 4)' /\ 4 \in 0 .. 4
    BY <1>2, <2>1, <2>9 DEF Filed
  <2>11. InvFile'
    BY <2>10 DEF InvFile, Filed
  <2> QED
    BY <2>4, <2>6, <2>7, <2>11 DEF FileInv
<1> QED
  BY <1>3, <1>4 DEF StartServer, StopServer, OtherBuild, targetVars, device

(* The script ends, is lost, or another begins.                             *)
LEMMA SessionsFile ==
  ASSUME ses \in Sessions, FileInv,
         \/ CommandFails \/ Drop \/ SessionEnds \/ cmdDeploy \/ updateDeploy \/ Repo
         \/ buildUnitForDeploy \/ resolveOrStartFeed \/ startDeployCmd
  PROVE  FileInv'
<1>1. lines \in Seq(Lines) /\ InvSingle /\ InvFile /\ UserLinesKept
  BY DEF FileInv
<1>2. lines' = lines /\ typed' = typed /\ (cut => cut')
  <2>1. lines' = lines /\ typed' = typed
    BY DEF CommandFails, Drop, SessionEnds, cmdDeploy, updateDeploy, Repo, RepoAdd, RepoRemove,
           buildUnitForDeploy, resolveOrStartFeed, startDeployCmd, device
  <2>2. CASE Drop
    BY <2>1, <2>2 DEF Drop
  <2>3. CASE ~Drop
    <3>1. cut' = cut
      BY <2>3 DEF CommandFails, SessionEnds, cmdDeploy, updateDeploy, Repo, RepoAdd, RepoRemove,
             buildUnitForDeploy, resolveOrStartFeed, startDeployCmd, device
    <3> QED
      BY <2>1, <3>1
  <2> QED
    BY <2>2, <2>3
<1>3. InvSingle' /\ UserLinesKept'
  BY <1>1, <1>2 DEF InvSingle, UserLinesKept
<1>4. SUFFICES \E n \in BlockNames, u \in Urls, k \in 0 .. 4 : Filed(n, u, k)'
  BY <1>1, <1>2, <1>3 DEF FileInv, InvFile, Filed
<1>5. 4 \in 0 .. 4 /\ 0 \in 0 .. 4 /\ "dev" \in BlockNames /\ "distro" \in Urls
  BY DEF BlockNames, Urls
<1>6. ASSUME ses'.st # "run", cut' = cut, ~cut => \A n, k : BlocksWhole(n, k)
      PROVE  Filed("dev", "distro", 4)'
  <2>1. BlocksWhole("dev", 4)' <=> BlocksWhole("dev", 4)
    BY <1>2, SameBlocks
  <2>2. ~cut' => BlocksWhole("dev", 4)'
    BY <1>6, <2>1
  <2> QED
    BY <1>6, <2>2 DEF Filed
<1>7. CASE CommandFails \/ Drop
  <2>1. ses.st = "run" /\ ses'.st = "failed"
    BY <1>7 DEF CommandFails, Drop, Sessions
  <2>2. PICK n \in BlockNames, u \in Urls, k \in 0 .. 4 :
            /\ Editing(n, u, k) \/ (k = 0 /\ Removing(n))
            /\ ~cut => BlocksWhole(n, k)
    BY <1>1, <2>1 DEF InvFile
  <2>3. ses.script \in Seq(ScriptCommands)
    BY DEF Sessions
  <2>4. \A i : WrittenAt(i, k) => k \in {2, 3}
    BY DEF WrittenAt
  <2>5. CASE k \in {2, 3}
    <3>1. ses.script # <<>> /\ Head(ses.script) = EditCommand(n, u, 1 + k)
      <4>1. PICK L \in Nat : L = Len(ses.script)
        BY <2>3
      <4>2. L >= 4 - k /\ \A i \in 1 .. L : i + k <= 4 => ses.script[i] = EditCommand(n, u, i + k)
        BY <2>2, <2>5, <4>1 DEF Editing
      <4>3. 1 \in 1 .. L /\ 1 + k <= 4
        BY ONLY <2>5, <4>1, <4>2
      <4>4. ses.script[1] = EditCommand(n, u, 1 + k)
        BY <4>2, <4>3
      <4>5. ses.script # <<>>
        BY <4>1, <4>3
      <4> QED
        BY <2>3, <4>4, <4>5, HeadTailProperties
    <3>2. /\ Head(ses.script).do = "line"
          /\ Head(ses.script).arg = IF k = 2 THEN entry(u) ELSE end(n)
      <4>1. CASE k = 2
        BY <3>1, <4>1 DEF EditCommand
      <4>2. CASE k = 3
        BY <3>1, <4>2 DEF EditCommand
      <4> QED
        BY <2>5, <4>1, <4>2
    <3>3. Head(ses.script).arg.mark # "begin"
      BY <3>2 DEF entry, end
    <3>4. ~CommandFails
      BY <3>2 DEF CommandFails, Ready
    <3>5. cut'
      BY <1>7, <3>1, <3>2, <3>3, <3>4 DEF Drop
    <3>6. Filed("dev", "distro", 4)'
      BY <2>1, <3>5 DEF Filed
    <3> QED
      BY <1>5, <3>6
  <2>6. CASE k \notin {2, 3}
    <3>1. ~cut => \A m, j : BlocksWhole(m, j)
      BY <2>2, <2>4, <2>6 DEF BlocksWhole
    <3>2. ~cut' => ~cut
      BY <1>2
    <3>3. Filed("dev", "distro", 4)'
      <4>1. BlocksWhole("dev", 4)' <=> BlocksWhole("dev", 4)
        BY <1>2, SameBlocks
      <4> QED
        BY <2>1, <3>1, <3>2, <4>1 DEF Filed
    <3> QED
      BY <1>5, <3>3
  <2> QED
    BY <2>5, <2>6
<1>8. CASE ~(CommandFails \/ Drop)
  <2>1. ses.st # "run" /\ cut' = cut
    BY <1>8 DEF SessionEnds, cmdDeploy, updateDeploy, Repo, RepoAdd, RepoRemove, Begin,
         buildUnitForDeploy, resolveOrStartFeed, startDeployCmd
  <2>2. ~cut => \A n, k : BlocksWhole(n, k)
    BY <1>1, <2>1, WholeBetween
  <2>3. CASE ses'.st # "run"
    BY <1>5, <1>6, <2>1, <2>2, <2>3
  <2>4. CASE ses' = Script
    <3>1. PICK q : q = IF distro = "alpine" THEN alpineDeployScript ELSE debianDeployScript
      OBVIOUS
    <3>2. ses' = [ses EXCEPT !.st = "run", !.url = "distro", !.script = q]
      BY <2>4, <3>1 DEF Script
    <3>3. ses'.st = "run" /\ ses'.script = q
      BY <3>2 DEF Sessions
    <3>4. CASE distro = "alpine"
      <4>1. Filed("dev", "distro", 0)'
        BY <1>2, <1>5, <2>1, <2>2, <3>1, <3>3, <3>4, AlpineWrites, ScriptFiled
      <4> QED
        BY <1>5, <4>1
    <3>5. CASE distro # "alpine"
      <4>1. q \in Seq(ScriptCommands) /\ Len(q) = 4 /\ \A i \in 1 .. 4 : q[i].do = DebianSteps[i]
        BY <3>1, <3>5, DebianScript
      <4>2. \A i \in 1 .. 4 : DebianSteps[i] \notin {"strip", "line"} /\ ~(i + 4 <= 4)
        BY DEF DebianSteps
      <4>3. Editing("dev", "distro", 4)'
        BY <3>3, <4>1, <4>2 DEF Editing
      <4>4. Filed("dev", "distro", 4)'
        <5>1. BlocksWhole("dev", 4)' <=> BlocksWhole("dev", 4)
          BY <1>2, SameBlocks
        <5> QED
          BY <2>1, <2>2, <3>3, <4>3, <5>1 DEF Filed
      <4> QED
        BY <1>5, <4>4
    <3> QED
      BY <3>4, <3>5
  <2>5. ASSUME NEW n \in BlockNames, RepoRemove(n)
        PROVE  \E m \in BlockNames, u \in Urls, k \in 0 .. 4 : Filed(m, u, k)'
    <3>1. ses' = [NoSession EXCEPT !.op = "remove", !.st = "run", !.name = n, !.script = apkRepoStripBlock(n)]
      BY <2>5 DEF RepoRemove, Begin
    <3>2. ses'.st = "run" /\ ses'.script = <<[do |-> "strip", arg |-> n]>>
      BY <3>1 DEF NoSession, apkRepoStripBlock
    <3>3. Removing(n)'
      BY <3>2 DEF Removing
    <3>4. Filed(n, "distro", 0)'
      <4>1. BlocksWhole(n, 0)' <=> BlocksWhole(n, 0)
        BY <1>2, SameBlocks
      <4> QED
        BY <2>1, <2>2, <3>2, <3>3, <4>1 DEF Filed
    <3> QED
      BY <1>5, <3>4
  <2>6. ASSUME NEW n \in BlockNames, NEW e \in BOOLEAN, NEW p \in BOOLEAN, RepoAdd(n, e, p)
        PROVE  \E m \in BlockNames, u \in Urls, k \in 0 .. 4 : Filed(m, u, k)'
    <3>1. PICK u \in Urls : u = IF e THEN "distro" ELSE "root"
      BY DEF Urls
    <3>2. PICK q : q = apkRepoWriteBlock(n, u) \o Do("update")
      OBVIOUS
    <3>3. ses' = [NoSession EXCEPT !.op = "add", !.st = "run", !.name = n, !.url = u, !.script = q]
      BY <2>6, <3>1, <3>2 DEF RepoAdd, Begin
    <3>4. ses'.st = "run" /\ ses'.script = q
      BY <3>3 DEF NoSession
    <3>5. WritesBlock(q, n, u)
      BY <3>2, WriteBlockWrites, WritesOn
    <3>6. Filed(n, u, 0)'
      BY <1>2, <2>1, <2>2, <3>4, <3>5, ScriptFiled
    <3> QED
      BY <1>5, <3>6
  <2>7. CASE SessionEnds \/ cmdDeploy \/ updateDeploy
    <3>1. ses'.st # "run"
      <4>1. \/ ses' = NoSession
            \/ ses' = [NoSession EXCEPT !.op = "deploy", !.st = "build"]
            \/ ses' = [NoSession EXCEPT !.op = "view", !.st = "build"]
        BY <2>7 DEF SessionEnds, cmdDeploy, updateDeploy, Begin
      <4>2. NoSession.st = "idle"
        BY DEF NoSession
      <4>3. [NoSession EXCEPT !.op = "deploy", !.st = "build"].st = "build"
        BY DEF NoSession
      <4>4. [NoSession EXCEPT !.op = "view", !.st = "build"].st = "build"
        BY DEF NoSession
      <4> QED
        BY ONLY <4>1, <4>2, <4>3, <4>4
    <3> QED
      BY <2>3, <3>1
  <2>8. CASE buildUnitForDeploy
    <3>1. ses'.st # "run"
      BY <2>8 DEF buildUnitForDeploy, Sessions
    <3> QED
      BY <2>3, <3>1
  <2>9. CASE resolveOrStartFeed \/ startDeployCmd
    <3>1. ses' = Script \/ ses' = [ses EXCEPT !.st = "failed"]
      BY <2>9 DEF resolveOrStartFeed, startDeployCmd
    <3>2. ses' = [ses EXCEPT !.st = "failed"] => ses'.st # "run"
      BY DEF Sessions
    <3> QED
      BY <2>3, <2>4, <3>1, <3>2
  <2> QED
    BY <1>8, <2>5, <2>6, <2>7, <2>8, <2>9 DEF Repo
<1> QED
  BY <1>7, <1>8

(* The types of the feed and of the session.                                *)
LEMMA NextTargetType ==
  ASSUME DeployInv, DeployInv', TargetTypeOK, lines' \in Seq(Lines), [TargetNext]_targetVars
  PROVE  TargetTypeOK'
<1> USE TargetAssumption
<1>0. ses \in Sessions /\ ses' \in Sessions
  BY DEF DeployInv, InvVersions
<1>1. /\ ses'.op \in Ops \union {"none"} /\ ses'.st \in {"idle", "build", "feed", "run", "ok", "failed"}
      /\ ses'.name \in BlockNames \union {"none"} /\ ses'.url \in Urls \union {"none"}
  BY <1>0 DEF Sessions
<1>2. distro' \in Distros /\ key' \in BOOLEAN
  <2>1. CASE Repo
    BY <2>1 DEF TargetTypeOK, Repo, RepoAdd, RepoRemove, device
  <2>2. CASE ~Repo
    BY <2>2 DEF TargetTypeOK, TargetNext, targetVars, device, StartServer, StopServer, OtherBuild, cmdDeploy, updateDeploy,
         buildUnitForDeploy, resolveOrStartFeed, startDeployCmd, Command, CommandFails, Drop, SessionEnds, UserAdds
  <2> QED
    BY <2>1, <2>2
<1>3. server' \in {"down", "quiet", "up"} /\ eph' \in BOOLEAN
  <2>1. server' \in {"down", "quiet", "up"}
    BY DEF TargetTypeOK, TargetNext, targetVars, device, StartServer, StopServer, OtherBuild, cmdDeploy, updateDeploy,
         buildUnitForDeploy, resolveOrStartFeed, startDeployCmd, Command, CommandFails, Drop, SessionEnds, UserAdds,
         Repo, RepoAdd, RepoRemove
  <2>2. CASE resolveOrStartFeed
    BY <2>1, <2>2 DEF TargetTypeOK, resolveOrStartFeed
  <2>3. CASE ~resolveOrStartFeed
    <3>1. eph' = eph \/ eph' = FALSE
      BY <2>3 DEF TargetNext, targetVars, device, StartServer, StopServer, OtherBuild, cmdDeploy, updateDeploy,
         buildUnitForDeploy, startDeployCmd, Command, CommandFails, Drop, SessionEnds, UserAdds,
         Repo, RepoAdd, RepoRemove
    <3> QED
      BY <2>1, <3>1 DEF TargetTypeOK
  <2> QED
    BY <2>2, <2>3
<1>4. built' \in [file : PkgVersions, idx : PkgVersions] /\ ses'.want \in PkgVersions
  <2>0. built \in [file : 0 .. MaxBuild, idx : 0 .. MaxBuild] /\ ses.want \in 0 .. MaxBuild /\ 0 \in 0 .. MaxBuild
    BY DEF TargetTypeOK, PkgVersions
  <2>w. NoSession.want = 0
    BY DEF NoSession
  <2>1. CASE OtherBuild
    <3>1. built' \in [file : 0 .. MaxBuild, idx : 0 .. MaxBuild]
      BY <2>0, <2>1 DEF OtherBuild
    <3>2. ses' = ses
      BY <2>1 DEF OtherBuild
    <3> QED
      BY <2>0, <3>1, <3>2 DEF PkgVersions
  <2>2. CASE buildUnitForDeploy
    <3>1. CASE built' = built /\ ses' = [ses EXCEPT !.st = "failed"]
      BY <1>0, <2>0, <3>1 DEF PkgVersions, Sessions
    <3>2. ASSUME NEW v \in {built.file, built.file + 1} \cap (1 .. MaxBuild),
                 built' = [file |-> v, idx |-> v], ses' = [ses EXCEPT !.st = "feed", !.want = v]
          PROVE  built' \in [file : PkgVersions, idx : PkgVersions] /\ ses'.want \in PkgVersions
      <4>1. v \in 0 .. MaxBuild
        OBVIOUS
      <4>2. ses'.want = v
        BY <1>0, <3>2 DEF Sessions
      <4> QED
        BY <3>2, <4>1, <4>2 DEF PkgVersions
    <3> QED
      BY <2>2, <3>1, <3>2 DEF buildUnitForDeploy
  <2>3. CASE ~OtherBuild /\ ~buildUnitForDeploy
    <3>1. built' = built
      BY <2>3 DEF TargetNext, targetVars, device, StartServer, StopServer, cmdDeploy, updateDeploy,
         resolveOrStartFeed, startDeployCmd, Command, CommandFails, Drop, SessionEnds, UserAdds,
         Repo, RepoAdd, RepoRemove
    <3>2. CASE SessionEnds \/ cmdDeploy \/ updateDeploy \/ Repo
      <4>1. ses'.want = 0
        <5>1. CASE SessionEnds
          BY <2>w, <5>1 DEF SessionEnds
        <5>2. CASE cmdDeploy \/ updateDeploy
          BY <5>2 DEF cmdDeploy, updateDeploy, Begin, NoSession
        <5>3. ASSUME NEW n \in BlockNames, RepoRemove(n) PROVE ses'.want = 0
          BY <5>3 DEF RepoRemove, Begin, NoSession
        <5>4. ASSUME NEW n \in BlockNames, NEW e \in BOOLEAN, NEW p \in BOOLEAN, RepoAdd(n, e, p) PROVE ses'.want = 0
          BY <5>4 DEF RepoAdd, Begin, NoSession
        <5> QED
          BY <3>2, <5>1, <5>2, <5>3, <5>4 DEF Repo
      <4> QED
        BY <2>0, <3>1, <4>1 DEF PkgVersions
    <3>3. CASE ~(SessionEnds \/ cmdDeploy \/ updateDeploy \/ Repo)
      <4>1. ses'.want = ses.want
        <5>1. CASE Command
          <6>1. ses' = [ses EXCEPT !.script = Tail(@), !.st = IF Len(ses.script) = 1 THEN "ok" ELSE @]
            BY <5>1 DEF Command
          <6> QED
            BY <1>0, <6>1 DEF Sessions
        <5>2. CASE resolveOrStartFeed \/ startDeployCmd \/ CommandFails \/ Drop
          <6>1. ses' = Script \/ ses' = [ses EXCEPT !.st = "failed"]
            BY <5>2 DEF resolveOrStartFeed, startDeployCmd, CommandFails, Drop
          <6> QED
            BY <1>0, <6>1 DEF Sessions, Script
        <5>3. CASE ~(Command \/ resolveOrStartFeed \/ startDeployCmd \/ CommandFails \/ Drop)
          <6>1. ses' = ses
            BY <2>3, <3>3, <5>3 DEF TargetNext, targetVars, device, StartServer, StopServer, UserAdds
          <6> QED
            BY <6>1
        <5> QED
          BY <5>1, <5>2, <5>3
      <4> QED
        BY <2>0, <3>1, <4>1 DEF PkgVersions
    <3> QED
      BY <3>2, <3>3
  <2> QED
    BY <2>1, <2>2, <2>3
<1>5. fetched' \in PkgVersions /\ pkg' \in PkgVersions /\ aptList' \in Urls \union {"none"}
  <2>0. built.idx \in PkgVersions /\ fetched \in PkgVersions /\ pkg \in PkgVersions /\ 0 \in PkgVersions
        /\ ses.url \in Urls \union {"none"} /\ aptList \in Urls \union {"none"}
    BY DEF TargetTypeOK, PkgVersions
  <2>1. CASE Command
    <3>1. fetched' \in {built.idx, fetched} /\ pkg' \in {0, pkg, fetched} /\ aptList' \in {ses.url, aptList}
      BY <2>1 DEF Command
    <3> QED
      BY <2>0, <3>1
  <2>2. CASE ~Command
    <3>1. fetched' = fetched /\ pkg' = pkg /\ aptList' = aptList
      BY <2>2 DEF TargetNext, targetVars, device, StartServer, StopServer, OtherBuild, cmdDeploy, updateDeploy,
         buildUnitForDeploy, resolveOrStartFeed, startDeployCmd, CommandFails, Drop, SessionEnds, UserAdds,
         Repo, RepoAdd, RepoRemove
    <3> QED
      BY <2>0, <3>1
  <2> QED
    BY <2>1, <2>2
<1>6. typed' \subseteq UserLines
  BY DEF TargetTypeOK, TargetNext, targetVars, device, StartServer, StopServer, OtherBuild, cmdDeploy, updateDeploy,
         buildUnitForDeploy, resolveOrStartFeed, startDeployCmd, Command, CommandFails, Drop, SessionEnds, UserAdds,
         Repo, RepoAdd, RepoRemove
<1>7. cut' \in BOOLEAN
  <2>1. CASE Drop
    BY <2>1 DEF TargetTypeOK, Drop
  <2>2. CASE ~Drop
    BY <2>2 DEF TargetTypeOK, TargetNext, targetVars, device, StartServer, StopServer, OtherBuild, cmdDeploy, updateDeploy,
         buildUnitForDeploy, resolveOrStartFeed, startDeployCmd, Command, CommandFails, SessionEnds, UserAdds,
         Repo, RepoAdd, RepoRemove
  <2> QED
    BY <2>1, <2>2
<1>8. sessions' \in 0 .. MaxSessions /\ drops' \in 0 .. MaxDrops
  <2>0. sessions \in 0 .. MaxSessions /\ drops \in 0 .. MaxDrops /\ MaxSessions \in Nat /\ MaxDrops \in Nat
    BY DEF TargetTypeOK
  <2>1. (sessions' = sessions \/ (sessions < MaxSessions /\ sessions' = sessions + 1))
    BY DEF Begin, TargetNext, targetVars, device, StartServer, StopServer, OtherBuild, cmdDeploy, updateDeploy,
         buildUnitForDeploy, resolveOrStartFeed, startDeployCmd, Command, CommandFails, Drop, SessionEnds, UserAdds,
         Repo, RepoAdd, RepoRemove
  <2>2. (drops' = drops \/ (drops < MaxDrops /\ drops' = drops + 1))
    BY DEF TargetNext, targetVars, device, StartServer, StopServer, OtherBuild, cmdDeploy, updateDeploy,
         buildUnitForDeploy, resolveOrStartFeed, startDeployCmd, Command, CommandFails, Drop, SessionEnds, UserAdds,
         Repo, RepoAdd, RepoRemove
  <2> QED
    BY ONLY <2>0, <2>1, <2>2
<1> QED
  BY <1>1, <1>2, <1>3, <1>4, <1>5, <1>6, <1>7, <1>8 DEF TargetTypeOK

(* Whatever deploys, additions and removals run, however often and with     *)
(* whatever connections lost, /etc/apk/repositories keeps the lines its     *)
(* user added unless a connection was lost inside a block, and has one      *)
(* block of a name at most, whole once the script is through (apkrepo.go).  *)
THEOREM FeedInvHolds == TargetSpec => []FeedInv
<1> DEFINE IInv == DeployInv /\ TargetTypeOK /\ FileInv
<1>1. TargetInit => IInv
  <2> SUFFICES ASSUME TargetInit PROVE IInv
    OBVIOUS
  <2>1. <<>> \in Seq(ScriptCommands) /\ <<>> \in Seq(Lines) /\ lines = <<>> /\ Len(lines) = 0 /\ 1 .. 0 = {}
    BY DEF TargetInit
  <2>2. ses \in Sessions /\ ses.op = "none" /\ ses.st = "idle" /\ ses.name = "none" /\ ses.url = "none" /\ ses.want = 0
    BY <2>1 DEF TargetInit, NoSession, Sessions
  <2>3. DeployInv
    BY <2>2 DEF TargetInit, DeployInv, InvVersions, InvDeploy, Deploying
  <2>4. TargetTypeOK
    <3>1. 0 \in PkgVersions /\ 0 \in 0 .. MaxSessions /\ 0 \in 0 .. MaxDrops
      BY TargetAssumption DEF PkgVersions
    <3> QED
      BY <2>1, <2>2, <3>1 DEF TargetInit, TargetTypeOK
  <2>5. 4 \in 0 .. 4 /\ "dev" \in BlockNames /\ "distro" \in Urls
    BY DEF BlockNames, Urls
  <2>6. InvFile /\ InvSingle /\ UserLinesKept
    BY <2>1, <2>2, <2>5 DEF TargetInit, InvFile, InvSingle, UserLinesKept, BlocksWhole
  <2> QED
    BY <2>1, <2>3, <2>4, <2>6 DEF FileInv
<1>2. IInv /\ [TargetNext]_targetVars => IInv'
  <2> SUFFICES ASSUME IInv, [TargetNext]_targetVars PROVE IInv'
    OBVIOUS
  <2>1. DeployInv'
    BY OthersDeploy, SessionsDeploy, SendDeploys, CommandDeploys DEF TargetNext
  <2>2. ses \in Sessions
    BY DEF DeployInv, InvVersions
  <2>3. FileInv'
    BY <2>2, OthersFile, SessionsFile, CommandFile DEF TargetNext
  <2>4. lines' \in Seq(Lines)
    BY <2>3 DEF FileInv
  <2>5. TargetTypeOK'
    BY <2>1, <2>4, NextTargetType
  <2> QED
    BY <2>1, <2>3, <2>5
<1>3. IInv => FeedInv
  <2> SUFFICES ASSUME IInv PROVE FeedInv
    OBVIOUS
  <2>1. DOMAIN lines = 1 .. Len(lines)
    BY DEF FileInv
  <2>2. ASSUME NEW n \in BlockNames, NEW S, S = {i \in 1 .. Len(lines) : lines[i] = begin(n)}
        PROVE  Cardinality(S) <= 1
    <3>1. CASE S = {}
      BY <3>1, FS_EmptySet
    <3>2. CASE S # {}
      <4>1. PICK i : i \in S
        BY <3>2
      <4>2. S = {i}
        BY <2>2, <4>1 DEF FileInv, InvSingle
      <4> QED
        BY <4>2, FS_Singleton
    <3> QED
      BY <3>1, <3>2
  <2>3. ASSUME NEW n \in BlockNames, ~cut, ses.st # "run", NEW i \in 1 .. Len(lines), lines[i] = begin(n)
        PROVE  i + 2 <= Len(lines) /\ lines[i + 1].mark = "url" /\ lines[i + 2] = end(n)
    <3>1. BlocksWhole(n, 4)
      BY <2>3, WholeBetween DEF FileInv
    <3>2. ~WrittenAt(i, 4)
      BY DEF WrittenAt
    <3> QED
      BY <2>3, <3>1, <3>2 DEF BlocksWhole, WholeAt
  <2>4. OneBlockEach
    BY <2>1, <2>2, <2>3 DEF OneBlockEach
  <2> QED
    BY <2>4 DEF FeedInv, FileInv
<1> QED
  BY <1>1, <1>2, <1>3, PTL DEF TargetSpec

=============================================================================
