----------------------------- MODULE TargetFeed ------------------------------
(***************************************************************************)
(* The package feed and the device that installs from it: `yoe serve` and   *)
(* the feed of the user interface (internal/feed, internal/tui/feed.go),    *)
(* `yoe deploy` and the deploy view (internal/device/deploy.go,             *)
(* cmd/yoe/deploy.go, internal/tui/deploy.go), and `yoe device repo`        *)
(* (internal/device/repo.go, apkrepo.go, cmd/yoe/device.go).                *)
(*                                                                          *)
(* What yoe does on the device is a shell script sent over ssh.  A script   *)
(* is the sequence of its commands; the connection may be lost after any of *)
(* them.  /etc/apk/repositories is shared with the device's user, who adds  *)
(* lines of their own.                                                      *)
(***************************************************************************)
EXTENDS Naturals, Sequences, FiniteSets, SequencesExt, Positions

CONSTANTS
    Distros,        \* what the device may run: "alpine", "debian"
    UserLines,      \* lines the device's user may add
    MaxSessions, MaxBuild, MaxDrops     \* bounds

ASSUME TargetAssumption ==
    /\ Distros \subseteq {"alpine", "debian"} /\ IsFiniteSet(UserLines)
    /\ MaxSessions \in Nat /\ MaxBuild \in Nat \ {0} /\ MaxDrops \in Nat

VARIABLES
    distro,         \* the distribution of the device, which decides its package manager
    server,         \* "down", "quiet" (serving without mDNS) or "up"
    eph,            \* a deploy serves a feed of its own
    built,          \* [file, idx]: version of the package in the repository, and of its index
    lines,          \* /etc/apk/repositories on the device
    aptList,        \* the url in /etc/apt/sources.list.d/yoe-dev.list, or "none"
    key,            \* the device has the project's public key
    fetched,        \* version of the index the device fetched last
    pkg,            \* version installed on the device, 0 for none
    typed,          \* the lines the user has added
    cut,            \* a connection was lost between the markers of a block
    ses,              \* the session; see NoSession
    sessions, drops

targetVars == <<distro, server, eph, built, lines, aptList, key, fetched, pkg, typed, cut, ses, sessions, drops>>
device == <<distro, lines, aptList, key, fetched, pkg>>

(* A session: `yoe deploy`, the deploy view, `yoe device repo add|remove`.  *)
Ops == {"deploy", "view", "add", "remove"}
NoSession == [op |-> "none", st |-> "idle", name |-> "none", url |-> "none", script |-> <<>>, want |-> 0]
BlockNames == {"dev", "yoe-dev"}
Urls == {"root", "distro"}      \* <feed>/<project>, <feed>/<project>/<distro>
PkgVersions == 0..MaxBuild

begin(n) == [mark |-> "begin", val |-> n]
end(n) == [mark |-> "end", val |-> n]
entry(u) == [mark |-> "url", val |-> u]
user(l) == [mark |-> "user", val |-> l]

TargetInit ==
    /\ distro \in Distros
    /\ server = "down" /\ eph = FALSE
    /\ built = [file |-> 0, idx |-> 0]
    /\ lines = <<>> /\ aptList = "none" /\ key \in BOOLEAN
    /\ fetched = 0 /\ pkg = 0 /\ typed = {} /\ cut = FALSE
    /\ ses = NoSession /\ sessions = 0 /\ drops = 0

-----------------------------------------------------------------------------
(* The feed *)

(* `yoe serve`, or the user interface when it starts, unless it finds one.  *)
(* Its port is fixed, so a second feed on the host cannot start.            *)
StartServer(mdns) ==
    /\ server = "down" /\ ~eph
    /\ server' = IF mdns THEN "up" ELSE "quiet"
    /\ UNCHANGED <<eph, built, device, typed, cut, ses, sessions, drops>>

StopServer ==
    /\ server # "down"
    /\ server' = "down"
    /\ UNCHANGED <<eph, built, device, typed, cut, ses, sessions, drops>>

DiscoverForProject == server = "up"
Serving == server # "down" \/ eph

(* Other builds replace the package and then its index.                     *)
OtherBuild ==
    /\ \/ built.file = built.idx /\ built.file < MaxBuild /\ built' = [built EXCEPT !.file = @ + 1]
       \/ built.idx < built.file /\ built' = [built EXCEPT !.idx = built.file]
    /\ UNCHANGED <<server, eph, device, typed, cut, ses, sessions, drops>>

-----------------------------------------------------------------------------
(* Scripts *)

apkRepoStripBlock(n) == <<[do |-> "strip", arg |-> n]>>

\* Mutant: the block is appended without removing the one there is.
AppendBlock(n, u) == <<[do |-> "line", arg |-> begin(n)], [do |-> "line", arg |-> entry(u)],
                       [do |-> "line", arg |-> end(n)]>>

apkRepoWriteBlock(n, u) ==
    apkRepoStripBlock(n)
        \o <<[do |-> "line", arg |-> begin(n)], [do |-> "line", arg |-> entry(u)],
             [do |-> "line", arg |-> end(n)]>>

Do(c) == <<[do |-> c, arg |-> "none"]>>

\* Mutant: the package is upgraded in place, which skips a rebuild of the same version.
AlpineUpgrade == apkRepoWriteBlock("dev", "distro") \o Do("update") \o Do("add")

alpineDeployScript == apkRepoWriteBlock("dev", "distro") \o Do("update") \o Do("del") \o Do("add")
debianDeployScript == Do("list") \o Do("pin") \o Do("update") \o Do("install")

\* Mutant: sed deletes from the begin marker to the end of the file.
StripRest(n) == KeepAt(lines, {i \in DOMAIN lines : \A b \in 1..i : lines[b] # begin(n)})

(* sed deletes from every begin marker to the next end marker, or, when     *)
(* there is none, to the end of the file.                                   *)
Inside(n, i) == \E b \in 1..i : lines[b] = begin(n) /\ \A j \in b..(i - 1) : lines[j] # end(n)
Strip(n) == KeepAt(lines, {i \in DOMAIN lines : ~Inside(n, i)})

(* One command of the script on the device.  `set -e`: a command that fails *)
(* ends it.  apk refuses an index it cannot verify, and both package        *)
(* managers refuse a package that does not match the index they fetched.    *)
Fetches(u) == Serving /\ u = "distro"
Ready ==
    LET c == Head(ses.script).do IN
    CASE c = "update" -> Fetches(ses.url) /\ (distro = "debian" \/ key)
      [] c \in {"add", "install"} -> Serving /\ fetched > 0 /\ built.file = fetched
      [] OTHER -> TRUE

Command ==
    LET c == Head(ses.script) IN
    /\ ses.st = "run" /\ ses.script # <<>> /\ Ready
    /\ ses' = [ses EXCEPT !.script = Tail(@), !.st = IF Len(ses.script) = 1 THEN "ok" ELSE @]
    /\ lines' = CASE c.do = "strip" -> Strip(c.arg)
                  [] c.do = "line" -> Append(lines, c.arg)
                  [] OTHER -> lines
    /\ aptList' = IF c.do = "list" THEN ses.url ELSE aptList
    /\ fetched' = IF c.do = "update" THEN built.idx ELSE fetched
    /\ pkg' = CASE c.do = "del" -> 0
                [] c.do = "add" -> IF pkg > 0 THEN pkg ELSE fetched
                [] c.do = "install" -> fetched
                [] OTHER -> pkg
    /\ UNCHANGED <<distro, server, eph, built, key, typed, cut, sessions, drops>>

CommandFails ==
    /\ ses.st = "run" /\ ses.script # <<>> /\ ~Ready
    /\ ses' = [ses EXCEPT !.st = "failed"]
    /\ UNCHANGED <<server, eph, built, device, typed, cut, sessions, drops>>

(* The connection is lost and the script with it.                           *)
Drop ==
    /\ ses.st = "run" /\ drops < MaxDrops
    /\ drops' = drops + 1
    /\ ses' = [ses EXCEPT !.st = "failed"]
    /\ cut' = (cut \/ (ses.script # <<>> /\ Head(ses.script).do = "line" /\ Head(ses.script).arg.mark # "begin"))
    /\ UNCHANGED <<server, eph, built, device, typed, sessions>>

-----------------------------------------------------------------------------
(* Commands of the user *)

Begin(x) == sessions < MaxSessions /\ ses.st = "idle" /\ sessions' = sessions + 1 /\ ses' = x

(* `yoe deploy` and the deploy view build first; the build may find nothing *)
(* to do, or fail.  A view that runs takes no key, so it has one session.   *)
cmdDeploy ==
    /\ Begin([NoSession EXCEPT !.op = "deploy", !.st = "build"])
    /\ UNCHANGED <<server, eph, built, device, typed, cut, drops>>

updateDeploy ==
    /\ Begin([NoSession EXCEPT !.op = "view", !.st = "build"])
    /\ UNCHANGED <<server, eph, built, device, typed, cut, drops>>

buildUnitForDeploy ==
    /\ ses.st = "build"
    /\ \/ /\ ses' = [ses EXCEPT !.st = "failed"]
          /\ UNCHANGED built
       \/ \E v \in {built.file, built.file + 1} \cap (1..MaxBuild) :
             /\ built' = [file |-> v, idx |-> v]
             /\ ses' = [ses EXCEPT !.st = "feed", !.want = v]
    /\ UNCHANGED <<server, eph, device, typed, cut, sessions, drops>>

(* What device.Deploy sends to a device of this distribution.               *)
Script == [ses EXCEPT !.st = "run", !.url = "distro",
                    !.script = IF distro = "alpine" THEN alpineDeployScript ELSE debianDeployScript]

(* `yoe deploy` uses a feed that is advertised, else it starts its own, if  *)
(* the port is free.                                                        *)
resolveOrStartFeed ==
    /\ ses.op = "deploy" /\ ses.st = "feed"
    /\ ses' = IF DiscoverForProject \/ server = "down" THEN Script ELSE [ses EXCEPT !.st = "failed"]
    /\ eph' = (eph \/ (~DiscoverForProject /\ server = "down"))
    /\ UNCHANGED <<server, built, device, typed, cut, sessions, drops>>

(* The view starts none.                                                    *)
startDeployCmd ==
    /\ ses.op = "view" /\ ses.st = "feed"
    /\ ses' = IF DiscoverForProject THEN Script ELSE [ses EXCEPT !.st = "failed"]
    /\ UNCHANGED <<server, eph, built, device, typed, cut, sessions, drops>>

(* `yoe device repo add`, with the feed it discovers or an explicit one.    *)
(* --push-key copies the key first.                                         *)
RepoAdd(n, explicit, push) ==
    /\ distro = "alpine"
    /\ explicit \/ DiscoverForProject
    /\ LET url == IF explicit THEN "distro" ELSE "root"
       IN  Begin([NoSession EXCEPT !.op = "add", !.st = "run", !.name = n, !.url = url,
                                   !.script = apkRepoWriteBlock(n, url) \o Do("update")])
    /\ key' = (key \/ push)
    /\ UNCHANGED <<distro, server, eph, built, lines, aptList, fetched, pkg, typed, cut, drops>>

RepoRemove(n) ==
    /\ distro = "alpine"
    /\ Begin([NoSession EXCEPT !.op = "remove", !.st = "run", !.name = n, !.script = apkRepoStripBlock(n)])
    /\ UNCHANGED <<server, eph, built, device, typed, cut, drops>>

(* The command ends, and with it the feed it started.                       *)
SessionEnds ==
    /\ ses.st \in {"ok", "failed"}
    /\ ses' = NoSession /\ eph' = FALSE
    /\ UNCHANGED <<server, built, device, typed, cut, sessions, drops>>

(* The device's user adds a line of their own; not while a script runs,     *)
(* when it could fall between the markers.                                  *)
UserAdds(l) ==
    /\ distro = "alpine"
    /\ l \notin typed
    /\ typed' = typed \union {l}
    /\ lines' = Append(lines, user(l))
    /\ ses.st # "run"
    /\ UNCHANGED <<distro, server, eph, built, aptList, key, fetched, pkg, cut, ses, sessions, drops>>

Repo == \E n \in BlockNames : RepoRemove(n) \/ \E e, p \in BOOLEAN : RepoAdd(n, e, p)

TargetNext ==
    \/ \E mdns \in BOOLEAN : StartServer(mdns)
    \/ StopServer \/ OtherBuild
    \/ cmdDeploy \/ updateDeploy
    \/ buildUnitForDeploy \/ resolveOrStartFeed \/ startDeployCmd \/ Command \/ CommandFails \/ Drop \/ SessionEnds
    \/ Repo
    \/ \E l \in UserLines : UserAdds(l)

TargetSpec == TargetInit /\ [][TargetNext]_targetVars

-----------------------------------------------------------------------------
(* Properties *)

Lines == [mark : {"begin", "end"}, val : BlockNames] \union [mark : {"url"}, val : Urls]
            \union [mark : {"user"}, val : UserLines]

TargetTypeOK ==
    /\ distro \in Distros /\ server \in {"down", "quiet", "up"} /\ eph \in BOOLEAN
    /\ built \in [file : PkgVersions, idx : PkgVersions]
    /\ lines \in Seq(Lines) /\ aptList \in Urls \union {"none"} /\ key \in BOOLEAN
    /\ fetched \in PkgVersions /\ pkg \in PkgVersions /\ typed \subseteq UserLines /\ cut \in BOOLEAN
    /\ ses.op \in Ops \union {"none"} /\ ses.st \in {"idle", "build", "feed", "run", "ok", "failed"}
    /\ ses.name \in BlockNames \union {"none"} /\ ses.url \in Urls \union {"none"} /\ ses.want \in PkgVersions
    /\ sessions \in 0..MaxSessions /\ drops \in 0..MaxDrops

(* What the user put into the file stays there, whatever deploys, additions *)
(* and removals run, as long as no connection was lost inside a block.      *)
UserLinesKept == ~cut => \A l \in typed : \E i \in DOMAIN lines : lines[i] = user(l)

(* However often it is written, and whatever connections were lost, there   *)
(* is one block of a name at most, and a block that is complete holds       *)
(* exactly one entry.                                                       *)
OneBlockEach ==
    \A n \in BlockNames :
        LET starts == {i \in DOMAIN lines : lines[i] = begin(n)} IN
        /\ Cardinality(starts) <= 1
        /\ ~cut /\ ses.st # "run" => \A i \in starts : i + 2 <= Len(lines) /\ lines[i + 1].mark = "url"
                                                 /\ lines[i + 2] = end(n)

(* A deploy that reports success has installed the package it built, or a   *)
(* later one, although the version string of a rebuild does not change.     *)
DeployInstalls == ses.op \in {"deploy", "view"} /\ ses.st = "ok" => pkg >= ses.want

(* Removing the feed as `yoe device repo remove` does by default leaves no  *)
(* block that yoe has written.                                              *)
RemoveTearsDown ==
    ses.op = "remove" /\ ses.name = "yoe-dev" /\ ses.st = "ok" =>
        \A i \in DOMAIN lines : lines[i].mark = "user"

(* Editing the device's repositories over connections that are lost keeps   *)
(* the lines of its user and at most one whole block of each name.          *)
FeedInv ==
    /\ TargetTypeOK
    /\ UserLinesKept
    /\ OneBlockEach

=============================================================================
