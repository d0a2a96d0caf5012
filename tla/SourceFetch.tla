---------------------------- MODULE SourceFetch -----------------------------
(***************************************************************************)
(* The cache of unit sources and how it is filled (internal/source/fetch.go,*)
(* lock.go, commands.go; gitutil/retry.go, commit.go; httputil/client.go):  *)
(* archives downloaded from a list of hosts with retries and a stall guard, *)
(* git repositories cloned under a file lock, and `yoe source clean`.       *)
(*                                                                          *)
(* A worker is a build goroutine or another yoe process that shares the     *)
(* cache directory.  Servers answer as they like and may fall silent; a     *)
(* worker may be killed at any point, which releases its lock and leaves    *)
(* its temporary files behind.                                              *)
(***************************************************************************)
EXTENDS Naturals, FiniteSets

CONSTANTS
    Workers,
    Units,          \* unit -> [git, key, hosts, kind, want]; see FetchAssumption
    Contents,       \* what a host may serve for an archive
    Malformed,      \* an apk_checksum that does not decode
    NoFile,
    Earlier,        \* archives an earlier build may have cached, for what units declared then
    Retries,        \* downloadRetries and gitutil.Retries
    StallTimeout,   \* in ticks of the clock
    MaxPieces,      \* pieces an archive is delivered in
    MaxFetches, MaxKills, MaxCleans,   \* bounds
    CleanDuring     \* `yoe source clean` may run while workers fetch

Names == DOMAIN Units
Keys == {Units[u].key : u \in Names}

ASSUME FetchAssumption ==
    /\ IsFiniteSet(Workers) /\ IsFiniteSet(Names) /\ Names # {}
    /\ \A u \in Names : /\ Units[u].git \in BOOLEAN
                        /\ Units[u].hosts \in Nat \ {0}
                        /\ Units[u].kind \in {"none", "sha256", "apk"}
                        /\ Units[u].want \in Contents \union {Malformed}
    /\ \A u, v \in Names : Units[u].key = Units[v].key => Units[u].git = Units[v].git
    /\ Earlier \subseteq Contents /\ NoFile \notin Contents /\ Malformed \notin Contents
    /\ Retries \in Nat \ {0} /\ StallTimeout \in Nat \ {0} /\ MaxPieces \in Nat
    /\ MaxFetches \in Nat /\ MaxKills \in Nat /\ MaxCleans \in Nat
    /\ CleanDuring \in BOOLEAN

VARIABLES
    file,           \* archive key -> the content cached, or NoFile
    repo,           \* git key -> "none", "partial" or "complete"
    inode,          \* git key -> the inode its lock file has now
    w,              \* each worker; see Workings
    tmp,            \* temporary clones: <<key, owner>> -> "partial" or "complete"
    clean,          \* cache entries `yoe source clean` has still to remove
    fetches, kills, cleans

fetchVars == <<file, repo, inode, w, tmp, clean, fetches, kills, cleans>>

GitKeys == {Units[u].key : u \in {n \in Names : Units[n].git}}
ArchiveKeys == Keys \ GitKeys

(* A worker: the unit it fetches, the host and the attempt it is at, the    *)
(* lock file it opened, and the download: pieces sent by the host and read, *)
(* the clock of the stall guard, what the host serves.                      *)
Steps == {"idle", "get", "body", "downloaded", "lock", "check", "clone", "cloned", "done", "failed"}

Idle == [pc |-> "idle", unit |-> CHOOSE u \in Names : TRUE, host |-> 1, try |-> 1,
         lock |-> 0, sent |-> 0, read |-> 0, quiet |-> 0, content |-> NoFile]

FetchInit ==
    /\ file \in [ArchiveKeys -> Earlier \union {NoFile}]
    /\ repo \in [GitKeys -> {"none", "partial"}]
    /\ inode = [k \in GitKeys |-> 0]
    /\ w = [p \in Workers |-> Idle]
    /\ tmp = [o \in GitKeys \X Workers |-> "none"]
    /\ clean = {}
    /\ fetches = 0 /\ kills = 0 /\ cleans = 0

KeyOf(p) == Units[w[p].unit].key

(* The worker leaves Fetch with a path or an error; the lock goes with it. *)
Ended(p, how) == w' = [w EXCEPT ![p] = [Idle EXCEPT !.pc = how, !.unit = w[p].unit]]

-----------------------------------------------------------------------------
(* Fetch and fetchHTTP up to the first request.  A cached archive is        *)
(* returned as it is.                                                       *)
FetchArchive(p, u) ==
    LET job == [Idle EXCEPT !.unit = u] IN
    w' = [w EXCEPT ![p] = [job EXCEPT !.pc =
            IF file[Units[u].key] # NoFile THEN "done"
            ELSE IF Units[u].kind = "apk" /\ Units[u].want = Malformed THEN "failed"
            ELSE "get"]]

(* acquireCacheLock opens the lock file, whichever inode has the name now. *)
OpenLock(p, u) ==
    w' = [w EXCEPT ![p] = [Idle EXCEPT !.unit = u, !.pc = "lock", !.lock = inode[Units[u].key]]]

Fetch(p, u) ==
    /\ w[p].pc = "idle" /\ fetches < MaxFetches
    /\ fetches' = fetches + 1
    /\ IF Units[u].git THEN OpenLock(p, u) ELSE FetchArchive(p, u)
    /\ UNCHANGED <<file, repo, inode, tmp, clean, kills, cleans>>

(* fetchFromAny: the next host has attempts of its own; after the last one  *)
(* the fetch fails.                                                         *)
NextHost(p) ==
    IF w[p].host < Units[w[p].unit].hosts
    THEN w' = [w EXCEPT ![p] = [Idle EXCEPT !.pc = "get", !.unit = w[p].unit, !.host = w[p].host + 1]]
    ELSE Ended(p, "failed")

(* downloadWithRetry after a failed attempt: another one, unless the status *)
(* says the URL is wrong or the budget is spent.                            *)
AfterAttempt(p, retryable) ==
    IF retryable /\ w[p].try < Retries
    THEN w' = [w EXCEPT ![p] = [Idle EXCEPT !.pc = "get", !.unit = w[p].unit, !.host = w[p].host,
                                            !.try = w[p].try + 1]]
    ELSE NextHost(p)

(* No connection, no handshake or no header within the transport's bounds. *)
NoAnswer(p) == AfterAttempt(p, TRUE)

(* A 5xx, 408 or 429 may clear; any other status will not. *)
BadStatus(p) == \E transientStatus \in BOOLEAN : AfterAttempt(p, transientStatus)

(* RoundTrip puts the guard around the body. *)
Body(p) == \E c \in Contents : w' = [w EXCEPT ![p].pc = "body", ![p].content = c]

Get(p) ==
    /\ w[p].pc = "get"
    /\ NoAnswer(p) \/ BadStatus(p) \/ Body(p)
    /\ UNCHANGED <<file, repo, inode, tmp, clean, fetches, kills, cleans>>

(* The host sends a piece; the copy loop may be slow to read it. *)
Send(p) ==
    /\ w[p].pc = "body" /\ w[p].sent < MaxPieces
    /\ w' = [w EXCEPT ![p].sent = @ + 1]
    /\ UNCHANGED <<file, repo, inode, tmp, clean, fetches, kills, cleans>>

(* stallGuard.Read returned bytes: the timer starts again. *)
Read(p) ==
    /\ w[p].pc = "body" /\ w[p].read < w[p].sent
    /\ w' = [w EXCEPT ![p].read = @ + 1, ![p].quiet = 0]
    /\ UNCHANGED <<file, repo, inode, tmp, clean, fetches, kills, cleans>>

\* Mutant: a client without the guard.
NoGuard(p) ==
    /\ w[p].pc = "body" /\ w[p].quiet + 1 < StallTimeout
    /\ w' = [w EXCEPT ![p].quiet = @ + 1]
    /\ UNCHANGED <<file, repo, inode, tmp, clean, fetches, kills, cleans>>

(* Time passes.  When the guard's timer fires it cancels the request, the   *)
(* read under way fails, and the temporary file is removed.                 *)
Tick(p) ==
    /\ w[p].pc = "body"
    /\ IF w[p].quiet + 1 < StallTimeout
       THEN w' = [w EXCEPT ![p].quiet = @ + 1]
       ELSE AfterAttempt(p, TRUE)
    /\ UNCHANGED <<file, repo, inode, tmp, clean, fetches, kills, cleans>>

(* The connection breaks before the end of the body. *)
Broken(p) ==
    /\ w[p].pc = "body"
    /\ AfterAttempt(p, TRUE)
    /\ UNCHANGED <<file, repo, inode, tmp, clean, fetches, kills, cleans>>

(* io.Copy saw the end of the body. *)
Eof(p) ==
    /\ w[p].pc = "body" /\ w[p].read = MaxPieces
    /\ w' = [w EXCEPT ![p].pc = "downloaded"]
    /\ UNCHANGED <<file, repo, inode, tmp, clean, fetches, kills, cleans>>

\* Mutant: only the first host is held to the checksum.
MirrorTrusted(p) == w[p].host = 1 => w[p].content = Units[w[p].unit].want

(* The checks of fetchHTTP: the checksum the unit declares, if any, against *)
(* what was downloaded.                                                     *)
Acceptable(p) == Units[w[p].unit].kind # "none" => w[p].content = Units[w[p].unit].want

(* A file that passes them is renamed over whatever is cached by now. *)
Publish(p) ==
    /\ w[p].pc = "downloaded"
    /\ IF Acceptable(p)
       THEN Ended(p, "done") /\ file' = [file EXCEPT ![KeyOf(p)] = w[p].content]
       ELSE Ended(p, "failed") /\ UNCHANGED file
    /\ UNCHANGED <<repo, inode, tmp, clean, fetches, kills, cleans>>

-----------------------------------------------------------------------------
Holds(p) == w[p].pc \in {"check", "clone", "cloned"}

\* Mutant: a clone without the lock.
NoLock(p) ==
    /\ w[p].pc = "lock"
    /\ w' = [w EXCEPT ![p].pc = "check"]
    /\ UNCHANGED <<file, repo, inode, tmp, clean, fetches, kills, cleans>>

(* flock on the inode this worker opened. *)
Lock(p) ==
    /\ w[p].pc = "lock"
    /\ \A q \in Workers : ~(Holds(q) /\ KeyOf(q) = KeyOf(p) /\ w[q].lock = w[p].lock)
    /\ w' = [w EXCEPT ![p].pc = "check"]
    /\ UNCHANGED <<file, repo, inode, tmp, clean, fetches, kills, cleans>>

\* Mutant: an entry taken as complete because it exists.
Exists(k) == repo[k] # "none"

(* gitHasRef: the entry exists and carries the ref. *)
GitHasRef(k) == repo[k] = "complete"

\* Mutant: debris left where it is.
LeaveDebris(t, k) == t

(* Every temporary clone of the key is taken for debris. *)
Swept(t, k) == [o \in DOMAIN t |-> IF o[1] = k THEN "none" ELSE t[o]]

(* fetchGit under the lock: use the entry, or remove it with all temporary  *)
(* clones of its key and start one.                                         *)
Check(p) ==
    LET k == KeyOf(p) IN
    /\ w[p].pc = "check"
    /\ IF GitHasRef(k)
       THEN Ended(p, "done") /\ UNCHANGED <<repo, tmp>>
       ELSE /\ repo' = [repo EXCEPT ![k] = "none"]
            /\ tmp' = [Swept(tmp, k) EXCEPT ![<<k, p>>] = "partial"]
            /\ w' = [w EXCEPT ![p].pc = "clone", ![p].try = 1]
    /\ UNCHANGED <<file, inode, clean, fetches, kills, cleans>>

(* The clone succeeded and carries the ref. *)
Cloned(p) == w' = [w EXCEPT ![p].pc = "cloned"] /\ tmp' = [tmp EXCEPT ![<<KeyOf(p), p>>] = "complete"]

(* Retry: a failure that may clear, within the budget.  What the attempt    *)
(* left is removed before the next one.                                     *)
CloneAgain(p) ==
    /\ w[p].try < Retries
    /\ w' = [w EXCEPT ![p].try = @ + 1]
    /\ tmp' = [tmp EXCEPT ![<<KeyOf(p), p>>] = "partial"]

(* A failure git's message marks as permanent, the last attempt, or a clone *)
(* without the ref.                                                         *)
CloneFails(p) == Ended(p, "failed") /\ tmp' = [tmp EXCEPT ![<<KeyOf(p), p>>] = "none"]

(* gitutil.Clone of a branch or tag, cloneCommit of a commit: one attempt. *)
Clone(p) ==
    /\ w[p].pc = "clone"
    /\ Cloned(p) \/ CloneAgain(p) \/ CloneFails(p)
    /\ UNCHANGED <<file, repo, inode, clean, fetches, kills, cleans>>

(* The rename needs the clone to be there still and the entry not to be. *)
PublishGit(p) ==
    LET k == KeyOf(p) IN
    /\ w[p].pc = "cloned"
    /\ IF tmp[<<k, p>>] # "none" /\ repo[k] = "none"
       THEN Ended(p, "done") /\ repo' = [repo EXCEPT ![k] = tmp[<<k, p>>]]
       ELSE Ended(p, "failed") /\ UNCHANGED repo
    /\ tmp' = [tmp EXCEPT ![<<k, p>>] = "none"]
    /\ UNCHANGED <<file, inode, clean, fetches, kills, cleans>>

-----------------------------------------------------------------------------
(* Prepare has extracted or cloned what Fetch returned, or reported it. *)
Use(p) ==
    /\ w[p].pc \in {"done", "failed"}
    /\ w' = [w EXCEPT ![p] = Idle]
    /\ UNCHANGED <<file, repo, inode, tmp, clean, fetches, kills, cleans>>

(* The worker is killed. *)
Kill(p) ==
    /\ w[p].pc \notin {"idle", "done", "failed"} /\ kills < MaxKills
    /\ kills' = kills + 1
    /\ w' = [w EXCEPT ![p] = Idle]
    /\ UNCHANGED <<file, repo, inode, tmp, clean, fetches, cleans>>

Quiet == \A p \in Workers : w[p].pc = "idle"

(* CleanSources lists the directory, then removes what it listed entry by   *)
(* entry: archives, clones, temporary clones and lock files alike.          *)
StartClean ==
    /\ clean = {} /\ cleans < MaxCleans /\ (Quiet \/ CleanDuring)
    /\ clean' = GitKeys \union {k \in ArchiveKeys : file[k] # NoFile}
    /\ cleans' = cleans + 1
    /\ UNCHANGED <<file, repo, inode, w, tmp, fetches, kills>>

CleanEntry(k) ==
    /\ k \in clean /\ (Quiet \/ CleanDuring)
    /\ clean' = clean \ {k}
    /\ IF k \in GitKeys
       THEN /\ repo' = [repo EXCEPT ![k] = "none"]
            /\ inode' = [inode EXCEPT ![k] = @ + 1]
            /\ tmp' = Swept(tmp, k)
            /\ UNCHANGED file
       ELSE file' = [file EXCEPT ![k] = NoFile] /\ UNCHANGED <<repo, inode, tmp>>
    /\ UNCHANGED <<w, fetches, kills, cleans>>

Step(p) ==
    \/ Get(p) \/ Read(p) \/ Tick(p) \/ Eof(p) \/ Publish(p)
    \/ Lock(p) \/ Check(p) \/ Clone(p) \/ PublishGit(p) \/ Use(p)

FetchNext ==
    \/ \E p \in Workers : Step(p) \/ Send(p) \/ Broken(p) \/ Kill(p)
    \/ \E p \in Workers, u \in Names : Fetch(p, u)
    \/ StartClean
    \/ \E k \in Keys : CleanEntry(k)

(* A worker goes on and its clock runs; hosts owe it nothing. *)
FetchFairness == \A p \in Workers : WF_fetchVars(Step(p))

FetchSpec == FetchInit /\ [][FetchNext]_fetchVars /\ FetchFairness

-----------------------------------------------------------------------------
Workings == [pc : Steps, unit : Names, host : Nat, try : 1 .. Retries, lock : Nat,
             sent : 0 .. MaxPieces, read : 0 .. MaxPieces, quiet : 0 .. StallTimeout - 1,
             content : Contents \union {NoFile}]

(* Every variable has its type: attempts stay within the retry budget and   *)
(* hosts within the unit's list.                                            *)
FetchTypeOK ==
    /\ file \in [ArchiveKeys -> Contents \union {NoFile}]
    /\ repo \in [GitKeys -> {"none", "partial", "complete"}]
    /\ inode \in [GitKeys -> Nat]
    /\ w \in [Workers -> Workings]
    /\ \A p \in Workers : w[p].host \in 1 .. Units[w[p].unit].hosts
    /\ tmp \in [GitKeys \X Workers -> {"none", "partial", "complete"}]
    /\ clean \subseteq Keys
    /\ fetches \in 0 .. MaxFetches /\ kills \in 0 .. MaxKills /\ cleans \in 0 .. MaxCleans

(* The units that fetch the same archive declare the same checksum. *)
Agreed(u) ==
    \A v \in Names : Units[v].key = Units[u].key => Units[v].kind = Units[u].kind /\ Units[v].want = Units[u].want

(* What a worker unpacks for a unit that declares a checksum has that       *)
(* checksum, whichever host served it, whether it came from the cache, and  *)
(* though another worker may have renamed its own download over it in the   *)
(* meantime.                                                                *)
VerifiedUse ==
    \A p \in Workers :
        LET u == w[p].unit IN
        w[p].pc = "done" /\ ~Units[u].git /\ Units[u].kind # "none" /\ Agreed(u)
            => file[KeyOf(p)] = Units[u].want

(* A clone that Fetch returned carries the ref: no half-made clone, left by *)
(* a killed worker or being made by another one, is ever used, and nobody   *)
(* takes it away before its user is done.                                   *)
UsedIsComplete ==
    \A p \in Workers : w[p].pc = "done" /\ Units[w[p].unit].git => repo[KeyOf(p)] = "complete"

(* Clearing debris never removes the directory another worker is cloning    *)
(* into.                                                                    *)
OwnCloneKept ==
    \A p \in Workers : w[p].pc \in {"clone", "cloned"} => tmp[<<KeyOf(p), p>>] # "none"

(* Workers killed while they clone do not fill the disk: once a clone is    *)
(* complete no temporary one is left beside it.                             *)
DebrisSwept ==
    \A k \in GitKeys : repo[k] = "complete" => \A p \in Workers : tmp[<<k, p>>] = "none"

(* A fetch ends, with a path or an error, though hosts fall silent, answers *)
(* fail and another worker holds the lock.                                  *)
FetchEnds == \A p \in Workers : w[p].pc # "idle" ~> w[p].pc = "idle"

(* The shared cache is safe to use by workers that come and go: what is     *)
(* used was verified and is complete, nobody's clone is removed under it,   *)
(* and what the dead left behind goes away.                                 *)
FetchInv ==
    /\ FetchTypeOK
    /\ VerifiedUse
    /\ UsedIsComplete
    /\ OwnCloneKept
    /\ DebrisSwept

=============================================================================
