---------------------------- MODULE SourceProofs ----------------------------
(***************************************************************************)
(* Proofs about SourceFetch, for every set of workers and units and every   *)
(* retry budget, with `yoe source clean` only between fetches.              *)
(*                                                                          *)
(* The lock file is the heart of it: while nobody removes it, two workers   *)
(* on one key have the same inode open, so one at a time holds the key, and *)
(* then the holder may sweep the temporary clones of the key as debris.     *)
(*                                                                          *)
(* Proofs about UnitSource, for every set of changes, tags, branches and    *)
(* patch lists, with toggles only between the builds of the unit.           *)
(***************************************************************************)
EXTENDS SourceFetch, UnitSource, SequenceTheorems, TLAPS

(* The caches of downloads and clones *)

Archive(p) == ~Units[w[p].unit].git

(* Only archives are downloaded, only clones locked; the lock file of a key *)
(* a worker is at is the one it opened.                                     *)
InvJob ==
    \A p \in Workers :
        /\ w[p].pc \in {"get", "body", "downloaded"} => Archive(p)
        /\ w[p].pc \in {"body", "downloaded"} => w[p].content \in Contents
        /\ w[p].pc \in {"lock", "check", "clone", "cloned"} =>
             ~Archive(p) /\ w[p].lock = inode[KeyOf(p)]

(* One worker at a time holds a key.                                        *)
InvMutex ==
    \A p, q \in Workers : Holds(p) /\ Holds(q) /\ KeyOf(p) = KeyOf(q) => p = q

(* While a worker clones, its temporary clone is the only one of the key    *)
(* and the key has no entry.                                                *)
InvClone ==
    \A p \in Workers : w[p].pc \in {"clone", "cloned"} =>
        /\ repo[KeyOf(p)] = "none"
        /\ tmp[<<KeyOf(p), p>>] # "none"
        /\ w[p].pc = "cloned" => tmp[<<KeyOf(p), p>>] = "complete"
        /\ \A q \in Workers \ {p} : tmp[<<KeyOf(p), q>>] = "none"

(* What is cached under a key whose units agree on a checksum has it.       *)
InvFile ==
    /\ \A p \in Workers : w[p].pc = "done" /\ Archive(p) => file[KeyOf(p)] # NoFile
    /\ Earlier = {} =>
         \A u \in Names :
             ~Units[u].git /\ Units[u].kind # "none" /\ Agreed(u)
               => file[Units[u].key] \in {NoFile, Units[u].want}

CacheInv ==
    /\ FetchTypeOK /\ InvJob /\ InvMutex /\ InvClone /\ InvFile
    /\ UsedIsComplete /\ DebrisSwept

---------------------------------------------------------------------------
(* A unit's key belongs to one of the two caches, and a worker that waits   *)
(* for work is a worker.                                                    *)
LEMMA KeyFacts ==
    /\ \A u \in Names : Units[u].git => Units[u].key \in GitKeys
    /\ \A u \in Names : ~Units[u].git => Units[u].key \in ArchiveKeys
    /\ \A u \in Names : Units[u].key \in Keys /\ Units[u].hosts \in Nat \ {0}
    /\ Keys = GitKeys \cup ArchiveKeys
BY FetchAssumption DEF GitKeys, ArchiveKeys, Keys

LEMMA IdleFacts ==
    Idle \in Workings /\ Idle.pc = "idle" /\ Idle.host = 1 /\ Idle.try = 1
<1>1. (CHOOSE u \in Names : TRUE) \in Names
  BY FetchAssumption
<1>2. /\ 1 \in 1 .. Retries /\ 0 \in 0 .. MaxPieces /\ 0 \in 0 .. StallTimeout - 1
  BY FetchAssumption
<1> QED
  BY <1>1, <1>2 DEF Idle, Workings, Steps

(* A step of worker p that leaves it at r. *)
Becomes(p, r) == /\ r \in Workings /\ w' = [w EXCEPT ![p] = r]
                 /\ r.host \in 1 .. Units[r.unit].hosts

LEMMA EndedMeans ==
    ASSUME FetchTypeOK, NEW p \in Workers, NEW how \in Steps, Ended(p, how)
    PROVE  \E r : Becomes(p, r) /\ r.pc = how /\ r.unit = w[p].unit
<1> DEFINE r == [Idle EXCEPT !.pc = how, !.unit = w[p].unit]
<1>1. w[p].unit \in Names
  BY DEF FetchTypeOK, Workings
<1>2. r \in Workings /\ r.pc = how /\ r.unit = w[p].unit /\ r.host = 1
  BY <1>1, IdleFacts DEF Workings
<1>3. r.host \in 1 .. Units[r.unit].hosts
  BY <1>1, <1>2, KeyFacts
<1>4. w' = [w EXCEPT ![p] = r]
  BY DEF Ended
<1> QED
  BY <1>2, <1>3, <1>4 DEF Becomes

(* After a failed attempt a worker tries again, tries the next host, or has *)
(* failed; it never goes on with what it has.                               *)
LEMMA AttemptMeans ==
    ASSUME FetchTypeOK, NEW p \in Workers, NEW b \in BOOLEAN, AfterAttempt(p, b)
    PROVE  \E r : Becomes(p, r) /\ r.pc \in {"get", "failed"} /\ r.unit = w[p].unit
<1>1. w[p] \in Workings /\ w[p].unit \in Names /\ w[p].host \in 1 .. Units[w[p].unit].hosts
      /\ w[p].try \in 1 .. Retries
  BY DEF FetchTypeOK, Workings
<1>2. CASE b /\ w[p].try < Retries
  <2> DEFINE r == [Idle EXCEPT !.pc = "get", !.unit = w[p].unit, !.host = w[p].host,
                               !.try = w[p].try + 1]
  <2>1. w[p].try + 1 \in 1 .. Retries /\ w[p].host \in Nat /\ "get" \in Steps
    BY <1>1, <1>2, FetchAssumption, KeyFacts DEF Steps
  <2>2. r \in Workings /\ r.pc = "get" /\ r.unit = w[p].unit /\ r.host = w[p].host
    BY <1>1, <2>1, IdleFacts DEF Workings
  <2>3. w' = [w EXCEPT ![p] = r]
    BY <1>2 DEF AfterAttempt
  <2> QED
    BY <1>1, <2>2, <2>3 DEF Becomes
<1>3. CASE ~(b /\ w[p].try < Retries) /\ w[p].host < Units[w[p].unit].hosts
  <2> DEFINE r == [Idle EXCEPT !.pc = "get", !.unit = w[p].unit, !.host = w[p].host + 1]
  <2>1. w[p].host + 1 \in 1 .. Units[w[p].unit].hosts /\ w[p].host + 1 \in Nat /\ "get" \in Steps
    BY <1>1, <1>3, KeyFacts DEF Steps
  <2>2. r \in Workings /\ r.pc = "get" /\ r.unit = w[p].unit /\ r.host = w[p].host + 1
    BY <1>1, <2>1, IdleFacts DEF Workings
  <2>3. w' = [w EXCEPT ![p] = r]
    BY <1>3 DEF AfterAttempt, NextHost
  <2> QED
    BY <2>1, <2>2, <2>3 DEF Becomes
<1>4. CASE ~(b /\ w[p].try < Retries) /\ ~(w[p].host < Units[w[p].unit].hosts)
  <2>1. Ended(p, "failed")
    BY <1>4 DEF AfterAttempt, NextHost
  <2> QED
    BY <2>1, EndedMeans DEF Steps
<1> QED
  BY <1>2, <1>3, <1>4

Shared == <<file, repo, inode, tmp, clean, kills, cleans>>

(* A download touches nothing but its own state until it is published.      *)
LEMMA DownloadMeans ==
    ASSUME FetchTypeOK, InvJob, NEW p \in Workers,
           Get(p) \/ Send(p) \/ Read(p) \/ Tick(p) \/ Broken(p) \/ Eof(p)
    PROVE  /\ UNCHANGED <<Shared, fetches>> /\ w[p].pc \in {"get", "body"}
           /\ \E r : /\ Becomes(p, r) /\ r.unit = w[p].unit
                     /\ r.pc \in {"get", "body", "downloaded", "failed"}
                     /\ r.pc \in {"body", "downloaded"} => r.content \in Contents
<1>1. UNCHANGED <<Shared, fetches>> /\ w[p].pc \in {"get", "body"}
  BY DEF Get, Send, Read, Tick, Broken, Eof, Shared
<1>2. w[p] \in Workings /\ w[p].unit \in Names /\ w[p].host \in 1 .. Units[w[p].unit].hosts
  BY DEF FetchTypeOK, Workings
<1>3. CASE \E b \in BOOLEAN : AfterAttempt(p, b)
  BY <1>1, <1>3, AttemptMeans
<1>4. CASE Get(p) /\ Body(p)
  <2>1. PICK c \in Contents : w' = [w EXCEPT ![p] = [w[p] EXCEPT !.pc = "body", !.content = c]]
    BY <1>2, <1>4, ZenonT(40) DEF Body, Workings, FetchTypeOK
  <2> DEFINE r == [w[p] EXCEPT !.pc = "body", !.content = c]
  <2>2. r \in Workings /\ r.pc = "body" /\ r.unit = w[p].unit /\ r.host = w[p].host /\ r.content = c
    BY <1>2 DEF Workings, Steps
  <2> QED
    BY <1>1, <1>2, <2>1, <2>2 DEF Becomes
<1>5. CASE Send(p)
  <2> DEFINE r == [w[p] EXCEPT !.sent = w[p].sent + 1]
  <2>1. w[p].sent + 1 \in 0 .. MaxPieces
    BY <1>2, <1>5, FetchAssumption DEF Send, Workings
  <2>2. r \in Workings /\ r.pc = "body" /\ r.unit = w[p].unit /\ r.host = w[p].host
        /\ r.content = w[p].content
    BY <1>2, <1>5, <2>1 DEF Workings, Send
  <2>3. w' = [w EXCEPT ![p] = r]
    BY <1>5, <1>2 DEF Send
  <2> QED
    BY <1>1, <1>2, <1>5, <2>2, <2>3 DEF Becomes, InvJob, Send
<1>6. CASE Read(p)
  <2> DEFINE r == [w[p] EXCEPT !.read = w[p].read + 1, !.quiet = 0]
  <2>1. w[p].read + 1 \in 0 .. MaxPieces /\ 0 \in 0 .. StallTimeout - 1
    BY <1>2, <1>6, FetchAssumption DEF Read, Workings
  <2>2. r \in Workings /\ r.pc = "body" /\ r.unit = w[p].unit /\ r.host = w[p].host
        /\ r.content = w[p].content
    BY <1>2, <1>6, <2>1 DEF Workings, Read
  <2>3. w' = [w EXCEPT ![p] = r]
    BY <1>6, <1>2 DEF Read
  <2> QED
    BY <1>1, <1>2, <1>6, <2>2, <2>3 DEF Becomes, InvJob, Read
<1>7. CASE Tick(p) /\ w[p].quiet + 1 < StallTimeout
  <2> DEFINE r == [w[p] EXCEPT !.quiet = w[p].quiet + 1]
  <2>1. w[p].quiet + 1 \in 0 .. StallTimeout - 1
    BY <1>2, <1>7, FetchAssumption DEF Workings
  <2>2. r \in Workings /\ r.pc = "body" /\ r.unit = w[p].unit /\ r.host = w[p].host
        /\ r.content = w[p].content
    BY <1>2, <1>7, <2>1 DEF Workings, Tick
  <2>3. w' = [w EXCEPT ![p] = r]
    BY <1>7, <1>2 DEF Tick
  <2> QED
    BY <1>1, <1>2, <1>7, <2>2, <2>3 DEF Becomes, InvJob, Tick
<1>8. CASE Eof(p)
  <2> DEFINE r == [w[p] EXCEPT !.pc = "downloaded"]
  <2>1. r \in Workings /\ r.pc = "downloaded" /\ r.unit = w[p].unit /\ r.host = w[p].host
        /\ r.content = w[p].content
    BY <1>2 DEF Workings, Steps
  <2>2. w' = [w EXCEPT ![p] = r]
    BY <1>8, <1>2 DEF Eof
  <2> QED
    BY <1>1, <1>2, <1>8, <2>1, <2>2 DEF Becomes, InvJob, Eof
<1> QED
  BY <1>3, <1>4, <1>5, <1>6, <1>7, <1>8 DEF Get, NoAnswer, BadStatus, Tick, Broken

---------------------------------------------------------------------------
LEMMA InitCacheInv == FetchInit => CacheInv
<1> SUFFICES ASSUME FetchInit PROVE CacheInv
  OBVIOUS
<1> USE DEF FetchInit
<1>1. \A p \in Workers : w[p] = Idle
  OBVIOUS
<1>2. Idle.unit \in Names
  BY IdleFacts DEF Workings
<1>3. FetchTypeOK
  <2>1. w \in [Workers -> Workings] /\ \A p \in Workers : w[p].host \in 1 .. Units[w[p].unit].hosts
    BY <1>1, <1>2, IdleFacts, KeyFacts
  <2>2. file \in [ArchiveKeys -> Contents \cup {NoFile}]
    BY FetchAssumption
  <2>3. fetches \in 0 .. MaxFetches /\ kills \in 0 .. MaxKills /\ cleans \in 0 .. MaxCleans
    <3>1. fetches = 0 /\ kills = 0 /\ cleans = 0 /\ MaxFetches \in Nat /\ MaxKills \in Nat
          /\ MaxCleans \in Nat
      BY FetchAssumption
    <3> QED
      BY ONLY <3>1
  <2> QED
    BY <2>1, <2>2, <2>3 DEF FetchTypeOK
<1>4. InvJob /\ InvMutex /\ InvClone /\ UsedIsComplete /\ DebrisSwept
  BY <1>1, IdleFacts DEF InvJob, InvMutex, InvClone, UsedIsComplete, DebrisSwept, Holds
<1>5. InvFile
  BY <1>1, IdleFacts, KeyFacts DEF InvFile
<1> QED
  BY <1>3, <1>4, <1>5 DEF CacheInv

LEMMA BecomesMeans ==
    ASSUME FetchTypeOK, NEW p \in Workers, NEW r, Becomes(p, r)
    PROVE  /\ w'[p] = r /\ \A q \in Workers \ {p} : w'[q] = w[q]
           /\ w' \in [Workers -> Workings] /\ r.unit \in Names
           /\ \A q \in Workers : w'[q].host \in 1 .. Units[w'[q].unit].hosts
BY DEF FetchTypeOK, Becomes, Workings

Counted == fetches' \in 0 .. MaxFetches /\ kills' \in 0 .. MaxKills /\ cleans' \in 0 .. MaxCleans

(* The steps of one worker that leave the cache alone.                      *)
LEMMA AloneStep ==
    ASSUME CacheInv, NEW p \in Workers, NEW r, Becomes(p, r), Counted,
           UNCHANGED <<file, repo, inode, tmp, clean>>,
           r.pc \in {"idle", "failed", "get", "body", "downloaded", "done", "lock"},
           r.pc \in {"get", "body", "downloaded", "done"} => ~Units[r.unit].git,
           r.pc \in {"body", "downloaded"} => r.content \in Contents,
           r.pc = "done" => file[Units[r.unit].key] # NoFile,
           r.pc = "lock" => Units[r.unit].git /\ r.lock = inode[Units[r.unit].key]
    PROVE  CacheInv'
<1>1. /\ w'[p] = r /\ \A q \in Workers \ {p} : w'[q] = w[q]
      /\ w' \in [Workers -> Workings] /\ r.unit \in Names
      /\ \A q \in Workers : w'[q].host \in 1 .. Units[w'[q].unit].hosts
  BY BecomesMeans DEF CacheInv
<1>2. FetchTypeOK'
  BY <1>1 DEF CacheInv, FetchTypeOK, Counted
<1>3. InvJob'
  BY <1>1 DEF CacheInv, InvJob, Archive, KeyOf
<1>4. InvMutex'
  BY <1>1 DEF CacheInv, InvMutex, Holds, KeyOf
<1>5. InvClone'
  BY <1>1 DEF CacheInv, InvClone, KeyOf
<1>6. InvFile'
  BY <1>1 DEF CacheInv, InvFile, Archive, KeyOf
<1>7. UsedIsComplete' /\ DebrisSwept'
  BY <1>1 DEF CacheInv, UsedIsComplete, DebrisSwept, KeyOf
<1> QED
  BY <1>2, <1>3, <1>4, <1>5, <1>6, <1>7 DEF CacheInv

LEMMA DownloadStep ==
    ASSUME CacheInv, NEW p \in Workers,
           Get(p) \/ Send(p) \/ Read(p) \/ Tick(p) \/ Broken(p) \/ Eof(p)
    PROVE  CacheInv'
<1>1. FetchTypeOK /\ InvJob
  BY DEF CacheInv
<1>2. /\ UNCHANGED <<Shared, fetches>> /\ w[p].pc \in {"get", "body"}
      /\ \E r : /\ Becomes(p, r) /\ r.unit = w[p].unit
                /\ r.pc \in {"get", "body", "downloaded", "failed"}
                /\ r.pc \in {"body", "downloaded"} => r.content \in Contents
  BY <1>1, DownloadMeans
<1>3. Counted /\ UNCHANGED <<file, repo, inode, tmp, clean>>
  BY <1>1, <1>2 DEF Shared, Counted, FetchTypeOK
<1>4. ~Units[w[p].unit].git
  BY <1>1, <1>2 DEF InvJob, Archive
<1>5. PICK r : /\ Becomes(p, r) /\ r.unit = w[p].unit
               /\ r.pc \in {"get", "body", "downloaded", "failed"}
               /\ r.pc \in {"body", "downloaded"} => r.content \in Contents
  BY <1>2
<1> QED
  BY <1>3, <1>4, <1>5, AloneStep

LEMMA EndStep ==
    ASSUME CacheInv, NEW p \in Workers, Use(p) \/ Kill(p)
    PROVE  CacheInv'
<1>1. FetchTypeOK
  BY DEF CacheInv
<1>2. Counted
  <2>1. fetches' = fetches /\ cleans' = cleans
        /\ (kills' = kills \/ (kills' = kills + 1 /\ kills < MaxKills))
    BY DEF Use, Kill
  <2>2. fetches \in 0 .. MaxFetches /\ kills \in 0 .. MaxKills /\ cleans \in 0 .. MaxCleans
        /\ MaxKills \in Nat
    BY <1>1, FetchAssumption DEF FetchTypeOK
  <2> QED
    BY ONLY <2>1, <2>2 DEF Counted
<1>3. Becomes(p, Idle)
  BY IdleFacts, KeyFacts DEF Use, Kill, Becomes, Workings
<1> QED
  BY <1>2, <1>3, IdleFacts, AloneStep DEF Use, Kill

LEMMA FetchStep ==
    ASSUME CacheInv, NEW p \in Workers, NEW u \in Names, Fetch(p, u)
    PROVE  CacheInv'
<1>1. FetchTypeOK
  BY DEF CacheInv
<1>2. Counted
  <2>1. fetches' = fetches + 1 /\ fetches < MaxFetches /\ cleans' = cleans /\ kills' = kills
    BY DEF Fetch
  <2>2. fetches \in 0 .. MaxFetches /\ kills \in 0 .. MaxKills /\ cleans \in 0 .. MaxCleans
        /\ MaxFetches \in Nat
    BY <1>1, FetchAssumption DEF FetchTypeOK
  <2> QED
    BY ONLY <2>1, <2>2 DEF Counted
<1>3. CASE Units[u].git
  <2> DEFINE r == [Idle EXCEPT !.unit = u, !.pc = "lock", !.lock = inode[Units[u].key]]
  <2>1. inode[Units[u].key] \in Nat
    BY <1>1, <1>3, KeyFacts DEF FetchTypeOK
  <2>2. r \in Workings /\ r.unit = u /\ r.pc = "lock" /\ r.host = 1 /\ r.lock = inode[Units[u].key]
    BY <2>1, IdleFacts DEF Workings, Steps
  <2>3. w' = [w EXCEPT ![p] = r]
    BY <1>3 DEF Fetch, OpenLock
  <2>4. Becomes(p, r)
    BY <2>2, <2>3, KeyFacts DEF Becomes
  <2> QED
    BY <1>2, <1>3, <2>2, <2>4, AloneStep DEF Fetch
<1>4. CASE ~Units[u].git
  <2>1. PICK how \in {"done", "failed", "get"} :
          /\ w' = [w EXCEPT ![p] = [[Idle EXCEPT !.unit = u] EXCEPT !.pc = how]]
          /\ how = "done" => file[Units[u].key] # NoFile
    BY <1>4 DEF Fetch, FetchArchive
  <2> DEFINE r == [[Idle EXCEPT !.unit = u] EXCEPT !.pc = how]
  <2>2. r \in Workings /\ r.unit = u /\ r.pc = how /\ r.host = 1
    BY IdleFacts DEF Workings, Steps
  <2>3. Becomes(p, r)
    BY <2>1, <2>2, KeyFacts DEF Becomes
  <2> HIDE DEF r
  <2> QED
    BY <1>2, <1>4, <2>1, <2>2, <2>3, AloneStep DEF Fetch
<1> QED
  BY <1>3, <1>4

(* A download is published only if it passes the check of its unit, and so  *)
(* the check of every unit that agrees with it.                             *)
LEMMA PublishStep ==
    ASSUME CacheInv, NEW p \in Workers, Publish(p)
    PROVE  CacheInv'
<1>1. FetchTypeOK /\ InvJob
  BY DEF CacheInv
<1>2. w[p].unit \in Names /\ Archive(p) /\ w[p].content \in Contents
  BY <1>1 DEF Publish, InvJob, FetchTypeOK, Workings
<1>3. KeyOf(p) \in ArchiveKeys
  BY <1>2, KeyFacts DEF KeyOf, Archive
<1>4. Counted /\ UNCHANGED <<repo, inode, tmp, clean>>
  BY <1>1 DEF Publish, Counted, FetchTypeOK
<1>5. CASE ~Acceptable(p)
  <2>1. PICK r : Becomes(p, r) /\ r.pc = "failed" /\ r.unit = w[p].unit
    BY <1>1, <1>5, EndedMeans DEF Publish, Steps
  <2> QED
    BY <1>4, <1>5, <2>1, AloneStep DEF Publish
<1>6. CASE Acceptable(p)
  <2>1. PICK r : Becomes(p, r) /\ r.pc = "done" /\ r.unit = w[p].unit
    BY <1>1, <1>6, EndedMeans DEF Publish, Steps
  <2>2. /\ w'[p] = r /\ \A q \in Workers \ {p} : w'[q] = w[q]
        /\ w' \in [Workers -> Workings]
        /\ \A q \in Workers : w'[q].host \in 1 .. Units[w'[q].unit].hosts
    BY <1>1, <2>1, BecomesMeans
  <2>3. file' = [file EXCEPT ![KeyOf(p)] = w[p].content] /\ w[p].content # NoFile
    BY <1>2, <1>6, FetchAssumption DEF Publish
  <2>4. FetchTypeOK'
    BY <1>1, <1>2, <1>4, <2>2, <2>3 DEF FetchTypeOK, Counted
  <2>5. InvJob' /\ InvMutex' /\ InvClone'
    BY <1>4, <2>1, <2>2 DEF CacheInv, InvJob, InvMutex, InvClone, Archive, KeyOf, Holds
  <2>6. InvFile'
    <3>1. \A q \in Workers : w'[q].pc = "done" /\ Archive(q)' => file'[KeyOf(q)'] # NoFile
      <4> TAKE q \in Workers
      <4> HAVE w'[q].pc = "done" /\ Archive(q)'
      <4>1. KeyOf(q)' \in ArchiveKeys
        BY <2>2, KeyFacts DEF KeyOf, Archive, Workings
      <4>2. q # p => file[KeyOf(q)'] # NoFile
        BY <2>2 DEF CacheInv, InvFile, Archive, KeyOf
      <4>3. q = p => KeyOf(q)' = KeyOf(p)
        BY <2>1, <2>2 DEF KeyOf
      <4> QED
        BY <1>1, <2>3, <4>1, <4>2, <4>3 DEF FetchTypeOK
    <3>2. ASSUME Earlier = {}, NEW u \in Names, ~Units[u].git, Units[u].kind # "none", Agreed(u)
          PROVE  file'[Units[u].key] \in {NoFile, Units[u].want}
      <4>1. Units[u].key \in ArchiveKeys /\ file[Units[u].key] \in {NoFile, Units[u].want}
        BY <3>2, KeyFacts DEF CacheInv, InvFile
      <4>2. Units[u].key = KeyOf(p) => w[p].content = Units[u].want
        BY <1>2, <1>6, <3>2 DEF Agreed, Acceptable, KeyOf
      <4> QED
        BY <1>1, <2>3, <4>1, <4>2 DEF FetchTypeOK
    <3> QED
      BY <3>1, <3>2 DEF InvFile
  <2>7. UsedIsComplete' /\ DebrisSwept'
    BY <1>2, <1>4, <2>1, <2>2 DEF CacheInv, UsedIsComplete, DebrisSwept, KeyOf, Archive
  <2> QED
    BY <2>4, <2>5, <2>6, <2>7 DEF CacheInv
<1> QED
  BY <1>5, <1>6

(* Nobody else holds the key: they would have the same lock file open.      *)
LEMMA LockStep ==
    ASSUME CacheInv, NEW p \in Workers, Lock(p)
    PROVE  CacheInv'
<1>1. FetchTypeOK /\ InvJob
  BY DEF CacheInv
<1>2. w[p] \in Workings /\ ~Archive(p) /\ w[p].lock = inode[KeyOf(p)]
  BY <1>1 DEF Lock, InvJob, FetchTypeOK
<1> DEFINE r == [w[p] EXCEPT !.pc = "check"]
<1>3. r \in Workings /\ r.pc = "check" /\ r.unit = w[p].unit /\ r.lock = w[p].lock
      /\ r.host = w[p].host
  BY <1>2 DEF Workings, Steps
<1>4. Becomes(p, r)
  BY <1>1, <1>3 DEF Lock, Becomes, FetchTypeOK
<1> HIDE DEF r
<1>5. /\ w'[p] = r /\ \A q \in Workers \ {p} : w'[q] = w[q]
      /\ w' \in [Workers -> Workings]
      /\ \A q \in Workers : w'[q].host \in 1 .. Units[w'[q].unit].hosts
  BY <1>1, <1>4, BecomesMeans
<1>6. UNCHANGED <<file, repo, inode, tmp, clean, fetches, kills, cleans>>
  BY DEF Lock
<1>7. FetchTypeOK'
  BY <1>1, <1>5, <1>6 DEF FetchTypeOK
<1>8. InvJob'
  BY <1>1, <1>2, <1>3, <1>5, <1>6 DEF InvJob, Archive, KeyOf
<1>9. InvMutex'
  <2>1. \A q \in Workers : Holds(q) => KeyOf(q) # KeyOf(p)
    BY <1>1, <1>2 DEF Lock, InvJob, Holds
  <2> QED
    BY <1>3, <1>5, <2>1 DEF CacheInv, InvMutex, Holds, KeyOf
<1>10. InvClone' /\ InvFile' /\ UsedIsComplete' /\ DebrisSwept'
  BY <1>3, <1>5, <1>6
     DEF CacheInv, InvClone, InvFile, UsedIsComplete, DebrisSwept, KeyOf, Archive
<1> QED
  BY <1>7, <1>8, <1>9, <1>10 DEF CacheInv

LEMMA SweptMeans ==
    ASSUME FetchTypeOK, NEW k \in GitKeys
    PROVE  /\ Swept(tmp, k) \in [GitKeys \X Workers -> {"none", "partial", "complete"}]
           /\ \A j \in GitKeys, q \in Workers :
                Swept(tmp, k)[<<j, q>>] = IF j = k THEN "none" ELSE tmp[<<j, q>>]
BY DEF FetchTypeOK, Swept

Clones == [GitKeys \X Workers -> {"none", "partial", "complete"}]

(* Two places of the table of temporary clones.                             *)
LEMMA ClonePlaces ==
    \A j, k \in GitKeys, p, q \in Workers :
        /\ <<j, q>> \in GitKeys \X Workers
        /\ j # k \/ q # p => <<j, q>> # <<k, p>>
OBVIOUS

LEMMA CheckStep ==
    ASSUME CacheInv, NEW p \in Workers, Check(p)
    PROVE  CacheInv'
<1> DEFINE k == KeyOf(p)
<1>1. FetchTypeOK /\ InvJob
  BY DEF CacheInv
<1>2. w[p] \in Workings /\ Units[w[p].unit].git /\ w[p].lock = inode[k] /\ k \in GitKeys
  BY <1>1, KeyFacts DEF Check, InvJob, FetchTypeOK, Archive, KeyOf, Workings
<1>3. Counted /\ UNCHANGED <<file, inode, clean>>
  BY <1>1 DEF Check, Counted, FetchTypeOK
<1>4. CASE GitHasRef(k)
  <2>1. PICK r : Becomes(p, r) /\ r.pc = "done" /\ r.unit = w[p].unit
    BY <1>1, <1>4, EndedMeans DEF Check, Steps
  <2>2. /\ w'[p] = r /\ \A q \in Workers \ {p} : w'[q] = w[q]
        /\ w' \in [Workers -> Workings]
        /\ \A q \in Workers : w'[q].host \in 1 .. Units[w'[q].unit].hosts
    BY <1>1, <2>1, BecomesMeans
  <2>3. UNCHANGED <<repo, tmp>> /\ repo[k] = "complete"
    BY <1>4 DEF Check, GitHasRef
  <2>4. FetchTypeOK'
    BY <1>1, <1>3, <2>2, <2>3 DEF FetchTypeOK, Counted
  <2>5. InvJob' /\ InvMutex' /\ InvClone'
    BY <1>3, <2>1, <2>2, <2>3 DEF CacheInv, InvJob, InvMutex, InvClone, Archive, KeyOf, Holds
  <2>6. InvFile' /\ UsedIsComplete' /\ DebrisSwept'
    BY <1>2, <1>3, <2>1, <2>2, <2>3
       DEF CacheInv, InvFile, UsedIsComplete, DebrisSwept, KeyOf, Archive
  <2> QED
    BY <2>4, <2>5, <2>6 DEF CacheInv
<1>5. CASE ~GitHasRef(k)
  <2> DEFINE r == [w[p] EXCEPT !.pc = "clone", !.try = 1]
  <2>1. r \in Workings /\ r.pc = "clone" /\ r.unit = w[p].unit /\ r.lock = w[p].lock
        /\ r.host = w[p].host
    <3>1. 1 \in 1 .. Retries
      BY FetchAssumption
    <3> QED
      BY <1>2, <3>1 DEF Workings, Steps
  <2>2. w' = [w EXCEPT ![p] = r]
    BY <1>1, <1>5 DEF Check, FetchTypeOK
  <2>3. Becomes(p, r)
    BY <1>1, <2>1, <2>2 DEF Becomes, FetchTypeOK
  <2> HIDE DEF r
  <2>4. /\ w'[p] = r /\ \A q \in Workers \ {p} : w'[q] = w[q]
        /\ w' \in [Workers -> Workings]
        /\ \A q \in Workers : w'[q].host \in 1 .. Units[w'[q].unit].hosts
    BY <1>1, <2>3, BecomesMeans
  <2>5. repo' = [repo EXCEPT ![k] = "none"] /\ tmp' = [Swept(tmp, k) EXCEPT ![<<k, p>>] = "partial"]
    BY <1>5 DEF Check
  <2>6. /\ tmp' \in [GitKeys \X Workers -> {"none", "partial", "complete"}]
        /\ tmp'[<<k, p>>] = "partial"
        /\ \A q \in Workers \ {p} : tmp'[<<k, q>>] = "none"
        /\ \A j \in GitKeys \ {k}, q \in Workers : tmp'[<<j, q>>] = tmp[<<j, q>>]
    <3>1. /\ Swept(tmp, k) \in Clones
          /\ \A j \in GitKeys, q \in Workers :
               Swept(tmp, k)[<<j, q>>] = IF j = k THEN "none" ELSE tmp[<<j, q>>]
      BY <1>1, <1>2, SweptMeans DEF Clones
    <3>2. <<k, p>> \in GitKeys \X Workers
      BY <1>2
    <3>3. tmp' \in Clones /\ tmp'[<<k, p>>] = "partial"
      BY <2>5, <3>1, <3>2 DEF Clones
    <3>4. \A o \in GitKeys \X Workers : o # <<k, p>> => tmp'[o] = Swept(tmp, k)[o]
      BY <2>5, <3>1, <3>2 DEF Clones
    <3>5. \A j \in GitKeys, q \in Workers :
            j # k \/ q # p => tmp'[<<j, q>>] = Swept(tmp, k)[<<j, q>>]
      BY <1>2, <3>4, ClonePlaces
    <3> QED
      BY <1>2, <3>1, <3>3, <3>5 DEF Clones
  <2>7. /\ repo' \in [GitKeys -> {"none", "partial", "complete"}]
        /\ repo'[k] = "none" /\ repo[k] # "complete"
        /\ \A j \in GitKeys \ {k} : repo'[j] = repo[j]
    BY <1>1, <1>2, <1>5, <2>5 DEF FetchTypeOK, GitHasRef
  <2>8. \A q \in Workers \ {p} : Holds(q) => KeyOf(q) # k /\ KeyOf(q) \in GitKeys
    <3> TAKE q \in Workers \ {p}
    <3> HAVE Holds(q)
    <3>1. KeyOf(q) # k
      BY DEF CacheInv, InvMutex, Holds, Check
    <3>2. KeyOf(q) \in GitKeys
      BY <1>1, KeyFacts DEF InvJob, Holds, Archive, KeyOf, FetchTypeOK, Workings
    <3> QED
      BY <3>1, <3>2
  <2>9. FetchTypeOK'
    BY <1>1, <1>3, <2>4, <2>6, <2>7 DEF FetchTypeOK, Counted
  <2>10. InvJob' /\ InvMutex'
    <3>1. InvJob'
      BY <1>2, <1>3, <2>1, <2>4, <2>8 DEF CacheInv, InvJob, Archive, KeyOf, Holds
    <3>2. InvMutex'
      BY <1>2, <1>3, <2>1, <2>4, <2>8 DEF CacheInv, InvMutex, Archive, KeyOf, Holds
    <3> QED
      BY <3>1, <3>2
  <2>11. InvClone'
    <3> SUFFICES ASSUME NEW q \in Workers, w'[q].pc \in {"clone", "cloned"}
                 PROVE  /\ repo'[KeyOf(q)'] = "none"
                        /\ tmp'[<<KeyOf(q)', q>>] # "none"
                        /\ w'[q].pc = "cloned" => tmp'[<<KeyOf(q)', q>>] = "complete"
                        /\ \A s \in Workers \ {q} : tmp'[<<KeyOf(q)', s>>] = "none"
      BY DEF InvClone
    <3>1. CASE q = p
      <4>1. KeyOf(q)' = k
        BY <2>1, <2>4, <3>1 DEF KeyOf
      <4> QED
        BY <2>1, <2>4, <2>6, <2>7, <3>1, <4>1
    <3>2. CASE q # p
      <4>1. KeyOf(q)' = KeyOf(q) /\ w'[q] = w[q]
        BY <2>4, <3>2 DEF KeyOf
      <4>2. KeyOf(q) \in GitKeys \ {k}
        BY <2>8, <3>2, <4>1 DEF Holds
      <4> QED
        BY <2>6, <2>7, <4>1, <4>2 DEF CacheInv, InvClone
    <3> QED
      BY <3>1, <3>2
  <2>12. InvFile'
    BY <1>3, <2>1, <2>4 DEF CacheInv, InvFile, KeyOf, Archive
  <2>13. UsedIsComplete'
    <3> SUFFICES ASSUME NEW q \in Workers, w'[q].pc = "done", Units[w'[q].unit].git
                 PROVE  repo'[KeyOf(q)'] = "complete"
      BY DEF UsedIsComplete
    <3>1. w'[q] = w[q] /\ KeyOf(q)' = KeyOf(q)
      BY <2>1, <2>4 DEF KeyOf
    <3>2. repo[KeyOf(q)] = "complete" /\ KeyOf(q) \in GitKeys
      BY <1>1, <3>1, KeyFacts DEF CacheInv, UsedIsComplete, KeyOf, FetchTypeOK, Workings
    <3> QED
      BY <2>7, <3>1, <3>2
  <2>14. DebrisSwept'
    BY <2>6, <2>7 DEF CacheInv, DebrisSwept
  <2> QED
    BY <2>9, <2>10, <2>11, <2>12, <2>13, <2>14 DEF CacheInv
<1> QED
  BY <1>4, <1>5

(* The attempts of a clone and their end touch only the clone of its worker,*)
(* the entry only once there was none.                                      *)
OwnClone(p, k) ==
    /\ tmp' \in Clones
    /\ \A j \in GitKeys, q \in Workers : j # k \/ q # p => tmp'[<<j, q>>] = tmp[<<j, q>>]

LEMMA CloneStep ==
    ASSUME CacheInv, NEW p \in Workers, Clone(p)
    PROVE  CacheInv'
<1> DEFINE k == KeyOf(p)
<1>1. FetchTypeOK /\ InvJob
  BY DEF CacheInv
<1>2. w[p] \in Workings /\ Units[w[p].unit].git /\ w[p].lock = inode[k] /\ k \in GitKeys
      /\ w[p].host \in 1 .. Units[w[p].unit].hosts
  BY <1>1, KeyFacts DEF Clone, InvJob, FetchTypeOK, Archive, KeyOf, Workings
<1>3. Counted /\ UNCHANGED <<file, repo, inode, clean>>
  BY <1>1 DEF Clone, Counted, FetchTypeOK
<1>4. /\ OwnClone(p, k)
      /\ \E r : /\ Becomes(p, r) /\ r.unit = w[p].unit /\ r.pc \in {"clone", "cloned", "failed"}
                /\ r.pc # "failed" => r.lock = w[p].lock
                /\ r.pc = "clone" => tmp'[<<k, p>>] = "partial"
                /\ r.pc = "cloned" => tmp'[<<k, p>>] = "complete"
  <2>1. <<k, p>> \in GitKeys \X Workers
    BY <1>2
  <2>2. PICK v \in {"none", "partial", "complete"} : tmp' = [tmp EXCEPT ![<<k, p>>] = v]
    BY DEF Clone, Cloned, CloneAgain, CloneFails
  <2>3. tmp' \in Clones /\ tmp'[<<k, p>>] = v
    BY <1>1, <2>1, <2>2 DEF FetchTypeOK, Clones
  <2>4. \A o \in GitKeys \X Workers : o # <<k, p>> => tmp'[o] = tmp[o]
    BY <1>1, <2>1, <2>2 DEF FetchTypeOK
  <2>5. OwnClone(p, k)
    BY <1>2, <2>3, <2>4, ClonePlaces DEF OwnClone
  <2>6. CASE CloneFails(p)
    BY <1>1, <2>5, <2>6, EndedMeans DEF CloneFails, Steps
  <2>7. CASE Cloned(p)
    <3> DEFINE r == [w[p] EXCEPT !.pc = "cloned"]
    <3>1. r \in Workings /\ r.pc = "cloned" /\ r.unit = w[p].unit /\ r.lock = w[p].lock
          /\ r.host = w[p].host
      BY <1>2 DEF Workings, Steps
    <3>2. w' = [w EXCEPT ![p] = r] /\ tmp'[<<k, p>>] = "complete"
      BY <1>1, <2>1, <2>7 DEF Cloned, FetchTypeOK
    <3> QED
      BY <1>2, <2>5, <3>1, <3>2 DEF Becomes
  <2>8. CASE CloneAgain(p)
    <3> DEFINE r == [w[p] EXCEPT !.try = w[p].try + 1]
    <3>1. w[p].try + 1 \in 1 .. Retries
      BY <1>2, <2>8, FetchAssumption DEF CloneAgain, Workings
    <3>2. r \in Workings /\ r.pc = "clone" /\ r.unit = w[p].unit /\ r.lock = w[p].lock
          /\ r.host = w[p].host
      BY <1>2, <3>1 DEF Workings, Clone
    <3>3. w' = [w EXCEPT ![p] = r] /\ tmp'[<<k, p>>] = "partial"
      BY <1>1, <2>1, <2>8 DEF CloneAgain, FetchTypeOK
    <3> QED
      BY <1>2, <2>5, <3>2, <3>3 DEF Becomes
  <2> QED
    BY <2>6, <2>7, <2>8 DEF Clone
<1>5. PICK r : /\ Becomes(p, r) /\ r.unit = w[p].unit /\ r.pc \in {"clone", "cloned", "failed"}
               /\ r.pc # "failed" => r.lock = w[p].lock
               /\ r.pc = "clone" => tmp'[<<k, p>>] = "partial"
               /\ r.pc = "cloned" => tmp'[<<k, p>>] = "complete"
  BY <1>4
<1>6. /\ w'[p] = r /\ \A q \in Workers \ {p} : w'[q] = w[q]
      /\ w' \in [Workers -> Workings]
      /\ \A q \in Workers : w'[q].host \in 1 .. Units[w'[q].unit].hosts
  BY <1>1, <1>5, BecomesMeans
<1>7. repo[k] = "none" /\ \A q \in Workers \ {p} : tmp[<<k, q>>] = "none"
  BY DEF CacheInv, InvClone, Clone
<1>8. \A q \in Workers \ {p} : Holds(q) => KeyOf(q) # k /\ KeyOf(q) \in GitKeys
  <2> TAKE q \in Workers \ {p}
  <2> HAVE Holds(q)
  <2>1. KeyOf(q) # k
    BY DEF CacheInv, InvMutex, Holds, Clone
  <2>2. KeyOf(q) \in GitKeys
    BY <1>1, KeyFacts DEF InvJob, Holds, Archive, KeyOf, FetchTypeOK, Workings
  <2> QED
    BY <2>1, <2>2
<1>9. FetchTypeOK'
  BY <1>1, <1>3, <1>4, <1>6 DEF FetchTypeOK, Counted, OwnClone, Clones
<1>10. InvJob' /\ InvMutex'
  <2>1. InvJob'
    BY <1>2, <1>3, <1>5, <1>6, <1>8 DEF CacheInv, InvJob, Archive, KeyOf, Holds, Clone
  <2>2. InvMutex'
    BY <1>2, <1>3, <1>5, <1>6, <1>8 DEF CacheInv, InvMutex, Archive, KeyOf, Holds, Clone
  <2> QED
    BY <2>1, <2>2
<1>11. InvClone'
  <2> SUFFICES ASSUME NEW q \in Workers, w'[q].pc \in {"clone", "cloned"}
               PROVE  /\ repo'[KeyOf(q)'] = "none"
                      /\ tmp'[<<KeyOf(q)', q>>] # "none"
                      /\ w'[q].pc = "cloned" => tmp'[<<KeyOf(q)', q>>] = "complete"
                      /\ \A s \in Workers \ {q} : tmp'[<<KeyOf(q)', s>>] = "none"
    BY DEF InvClone
  <2>1. CASE q = p
    <3>1. KeyOf(q)' = k
      BY <1>5, <1>6, <2>1 DEF KeyOf
    <3>2. \A s \in Workers \ {p} : tmp'[<<k, s>>] = "none"
      BY <1>2, <1>4, <1>7 DEF OwnClone
    <3> QED
      BY <1>3, <1>5, <1>6, <1>7, <2>1, <3>1, <3>2
  <2>2. CASE q # p
    <3>1. KeyOf(q)' = KeyOf(q) /\ w'[q] = w[q]
      BY <1>6, <2>2 DEF KeyOf
    <3>2. KeyOf(q) \in GitKeys \ {k}
      BY <1>8, <2>2, <3>1 DEF Holds
    <3>3. \A s \in Workers : tmp'[<<KeyOf(q), s>>] = tmp[<<KeyOf(q), s>>]
      BY <1>4, <3>2 DEF OwnClone
    <3> QED
      BY <1>3, <3>1, <3>3 DEF CacheInv, InvClone
  <2> QED
    BY <2>1, <2>2
<1>12. InvFile' /\ UsedIsComplete'
  BY <1>3, <1>5, <1>6 DEF CacheInv, InvFile, UsedIsComplete, KeyOf, Archive
<1>13. DebrisSwept'
  <2> SUFFICES ASSUME NEW j \in GitKeys, repo'[j] = "complete", NEW q \in Workers
               PROVE  tmp'[<<j, q>>] = "none"
    BY DEF DebrisSwept
  <2>1. j # k
    BY <1>3, <1>7
  <2> QED
    BY <1>3, <1>4, <2>1 DEF CacheInv, DebrisSwept, OwnClone
<1> QED
  BY <1>9, <1>10, <1>11, <1>12, <1>13 DEF CacheInv

LEMMA PublishGitStep ==
    ASSUME CacheInv, NEW p \in Workers, PublishGit(p)
    PROVE  CacheInv'
<1> DEFINE k == KeyOf(p)
<1>1. FetchTypeOK /\ InvJob
  BY DEF CacheInv
<1>2. w[p] \in Workings /\ Units[w[p].unit].git /\ k \in GitKeys
  BY <1>1, KeyFacts DEF PublishGit, InvJob, FetchTypeOK, Archive, KeyOf, Workings
<1>3. Counted /\ UNCHANGED <<file, inode, clean>>
  BY <1>1 DEF PublishGit, Counted, FetchTypeOK
<1>4. /\ repo[k] = "none" /\ tmp[<<k, p>>] = "complete"
      /\ \A q \in Workers \ {p} : tmp[<<k, q>>] = "none"
  BY DEF CacheInv, InvClone, PublishGit
<1>5. Ended(p, "done") /\ repo' = [repo EXCEPT ![k] = "complete"]
      /\ tmp' = [tmp EXCEPT ![<<k, p>>] = "none"]
  BY <1>4 DEF PublishGit
<1>6. PICK r : Becomes(p, r) /\ r.pc = "done" /\ r.unit = w[p].unit
  BY <1>1, <1>5, EndedMeans DEF Steps
<1>7. /\ w'[p] = r /\ \A q \in Workers \ {p} : w'[q] = w[q]
      /\ w' \in [Workers -> Workings]
      /\ \A q \in Workers : w'[q].host \in 1 .. Units[w'[q].unit].hosts
  BY <1>1, <1>6, BecomesMeans
<1>8. OwnClone(p, k) /\ tmp'[<<k, p>>] = "none"
  <2>1. <<k, p>> \in GitKeys \X Workers
    BY <1>2
  <2>2. tmp' \in Clones /\ tmp'[<<k, p>>] = "none"
    BY <1>1, <1>5, <2>1 DEF FetchTypeOK, Clones
  <2>3. \A o \in GitKeys \X Workers : o # <<k, p>> => tmp'[o] = tmp[o]
    BY <1>1, <1>5, <2>1 DEF FetchTypeOK
  <2> QED
    BY <1>2, <2>2, <2>3, ClonePlaces DEF OwnClone
<1>9. /\ repo' \in [GitKeys -> {"none", "partial", "complete"}] /\ repo'[k] = "complete"
      /\ \A j \in GitKeys \ {k} : repo'[j] = repo[j]
  BY <1>1, <1>2, <1>5 DEF FetchTypeOK
<1>10. \A q \in Workers \ {p} : Holds(q) => KeyOf(q) # k /\ KeyOf(q) \in GitKeys
  <2> TAKE q \in Workers \ {p}
  <2> HAVE Holds(q)
  <2>1. KeyOf(q) # k
    BY DEF CacheInv, InvMutex, Holds, PublishGit
  <2>2. KeyOf(q) \in GitKeys
    BY <1>1, KeyFacts DEF InvJob, Holds, Archive, KeyOf, FetchTypeOK, Workings
  <2> QED
    BY <2>1, <2>2
<1>11. FetchTypeOK'
  BY <1>1, <1>3, <1>7, <1>8, <1>9 DEF FetchTypeOK, Counted, OwnClone, Clones
<1>12. InvJob' /\ InvMutex'
  BY <1>3, <1>6, <1>7 DEF CacheInv, InvJob, InvMutex, Archive, KeyOf, Holds
<1>13. InvClone'
  <2> SUFFICES ASSUME NEW q \in Workers, w'[q].pc \in {"clone", "cloned"}
               PROVE  /\ repo'[KeyOf(q)'] = "none"
                      /\ tmp'[<<KeyOf(q)', q>>] # "none"
                      /\ w'[q].pc = "cloned" => tmp'[<<KeyOf(q)', q>>] = "complete"
                      /\ \A s \in Workers \ {q} : tmp'[<<KeyOf(q)', s>>] = "none"
    BY DEF InvClone
  <2>1. q # p /\ KeyOf(q)' = KeyOf(q) /\ w'[q] = w[q]
    BY <1>6, <1>7 DEF KeyOf
  <2>2. KeyOf(q) \in GitKeys \ {k}
    BY <1>10, <2>1 DEF Holds
  <2>3. \A s \in Workers : tmp'[<<KeyOf(q), s>>] = tmp[<<KeyOf(q), s>>]
    BY <1>8, <2>2 DEF OwnClone
  <2> QED
    BY <1>9, <2>1, <2>2, <2>3 DEF CacheInv, InvClone
<1>14. InvFile'
  BY <1>2, <1>3, <1>6, <1>7 DEF CacheInv, InvFile, KeyOf, Archive
<1>15. UsedIsComplete'
  <2> SUFFICES ASSUME NEW q \in Workers, w'[q].pc = "done", Units[w'[q].unit].git
               PROVE  repo'[KeyOf(q)'] = "complete"
    BY DEF UsedIsComplete
  <2>1. CASE q = p
    BY <1>6, <1>7, <1>9, <2>1 DEF KeyOf
  <2>2. CASE q # p
    <3>1. w'[q] = w[q] /\ KeyOf(q)' = KeyOf(q)
      BY <1>7, <2>2 DEF KeyOf
    <3>2. repo[KeyOf(q)] = "complete" /\ KeyOf(q) \in GitKeys
      BY <1>1, <3>1, KeyFacts DEF CacheInv, UsedIsComplete, KeyOf, FetchTypeOK, Workings
    <3> QED
      BY <1>9, <3>1, <3>2
  <2> QED
    BY <2>1, <2>2
<1>16. DebrisSwept'
  BY <1>4, <1>8, <1>9 DEF CacheInv, DebrisSwept, OwnClone
<1> QED
  BY <1>11, <1>12, <1>13, <1>14, <1>15, <1>16 DEF CacheInv

(* Cleaning with no worker at work may remove anything.                     *)
LEMMA CleanStep ==
    ASSUME CacheInv, ~CleanDuring, StartClean \/ \E k \in Keys : CleanEntry(k)
    PROVE  CacheInv'
<1>1. FetchTypeOK /\ Quiet /\ w' = w
  BY DEF CacheInv, StartClean, CleanEntry
<1>2. Counted
  <2>1. fetches' = fetches /\ kills' = kills
        /\ (cleans' = cleans \/ (cleans' = cleans + 1 /\ cleans < MaxCleans))
    BY DEF StartClean, CleanEntry
  <2>2. fetches \in 0 .. MaxFetches /\ kills \in 0 .. MaxKills /\ cleans \in 0 .. MaxCleans
        /\ MaxCleans \in Nat
    BY <1>1, FetchAssumption DEF FetchTypeOK
  <2> QED
    BY ONLY <2>1, <2>2 DEF Counted
<1>3. \A p \in Workers : w'[p].pc = "idle"
  BY <1>1 DEF Quiet
<1>4. InvJob' /\ InvMutex' /\ InvClone' /\ UsedIsComplete'
  BY <1>3 DEF InvJob, InvMutex, InvClone, UsedIsComplete, Holds
<1>5. CASE StartClean
  <2>1. FetchTypeOK'
    BY <1>1, <1>2, <1>5, KeyFacts DEF FetchTypeOK, StartClean, Counted
  <2>2. InvFile' /\ DebrisSwept'
    BY <1>3, <1>5 DEF CacheInv, StartClean, InvFile, DebrisSwept
  <2> QED
    BY <1>4, <2>1, <2>2 DEF CacheInv
<1>6. ASSUME NEW k \in Keys, CleanEntry(k) PROVE CacheInv'
  <2>1. CASE k \in GitKeys
    <3>1. repo' = [repo EXCEPT ![k] = "none"] /\ inode' = [inode EXCEPT ![k] = @ + 1]
          /\ tmp' = Swept(tmp, k) /\ file' = file /\ clean' \subseteq clean
      BY <1>6, <2>1 DEF CleanEntry
    <3>2. FetchTypeOK'
      BY <1>1, <1>2, <2>1, <3>1, SweptMeans DEF FetchTypeOK, Counted
    <3>3. InvFile'
      BY <1>3, <3>1 DEF CacheInv, InvFile
    <3>4. DebrisSwept'
      BY <1>1, <2>1, <3>1, SweptMeans DEF CacheInv, DebrisSwept, FetchTypeOK
    <3> QED
      BY <1>4, <3>2, <3>3, <3>4 DEF CacheInv
  <2>2. CASE k \notin GitKeys
    <3>1. file' = [file EXCEPT ![k] = NoFile] /\ clean' \subseteq clean
          /\ UNCHANGED <<repo, inode, tmp>> /\ k \in ArchiveKeys
      BY <1>6, <2>2, KeyFacts DEF CleanEntry
    <3>2. FetchTypeOK'
      BY <1>1, <1>2, <3>1 DEF FetchTypeOK, Counted
    <3>3. InvFile'
      <4>1. \A j \in ArchiveKeys : file'[j] \in {NoFile, file[j]}
        BY <1>1, <3>1 DEF FetchTypeOK
      <4> QED
        BY <1>3, <4>1, KeyFacts DEF CacheInv, InvFile
    <3>4. DebrisSwept'
      BY <3>1 DEF CacheInv, DebrisSwept
    <3> QED
      BY <1>4, <3>2, <3>3, <3>4 DEF CacheInv
  <2> QED
    BY <2>1, <2>2
<1> QED
  BY <1>5, <1>6

LEMMA NextCacheInv == ~CleanDuring /\ CacheInv /\ [FetchNext]_fetchVars => CacheInv'
<1> SUFFICES ASSUME ~CleanDuring, CacheInv, [FetchNext]_fetchVars PROVE CacheInv'
  OBVIOUS
<1>1. CASE UNCHANGED fetchVars
  BY <1>1 DEF CacheInv, FetchTypeOK, InvJob, InvMutex, InvClone, InvFile, UsedIsComplete,
              DebrisSwept, Archive, KeyOf, Holds, fetchVars
<1>2. ASSUME NEW p \in Workers, Step(p) \/ Send(p) \/ Broken(p) \/ Kill(p) PROVE CacheInv'
  BY <1>2, DownloadStep, EndStep, PublishStep, LockStep, CheckStep, CloneStep, PublishGitStep
     DEF Step
<1>3. ASSUME NEW p \in Workers, NEW u \in Names, Fetch(p, u) PROVE CacheInv'
  BY <1>3, FetchStep
<1>4. CASE StartClean \/ \E k \in Keys : CleanEntry(k)
  BY <1>4, CleanStep
<1> QED
  BY <1>1, <1>2, <1>3, <1>4 DEF FetchNext

(* What a worker unpacks was verified: nothing was cached before the units  *)
(* declared what they declare, and since then only what passed the check.   *)
LEMMA CacheImpliesFetch == Earlier = {} /\ CacheInv => FetchInv
<1> SUFFICES ASSUME Earlier = {}, CacheInv PROVE FetchInv
  OBVIOUS
<1>1. VerifiedUse
  <2> SUFFICES ASSUME NEW p \in Workers, w[p].pc = "done", ~Units[w[p].unit].git,
                      Units[w[p].unit].kind # "none", Agreed(w[p].unit)
               PROVE  file[KeyOf(p)] = Units[w[p].unit].want
    BY DEF VerifiedUse
  <2>1. w[p].unit \in Names
    BY DEF CacheInv, FetchTypeOK, Workings
  <2>2. file[KeyOf(p)] # NoFile
    BY DEF CacheInv, InvFile, Archive
  <2> QED
    BY <2>1, <2>2 DEF CacheInv, InvFile, KeyOf
<1>2. OwnCloneKept
  BY DEF CacheInv, InvClone, OwnCloneKept
<1> QED
  BY <1>1, <1>2 DEF CacheInv, FetchInv

(* The cache is safe to share while nobody cleans it: what is unpacked was  *)
(* verified and is complete, no clone is removed under its worker, and what *)
(* killed workers left is swept.                                            *)
THEOREM FetchInvHolds ==
    ASSUME ~CleanDuring, Earlier = {}
    PROVE  FetchSpec => []FetchInv
<1>1. CacheInv /\ [FetchNext]_fetchVars => CacheInv'
  BY NextCacheInv
<1>2. CacheInv => FetchInv
  BY CacheImpliesFetch
<1> QED
  BY <1>1, <1>2, InitCacheInv, PTL DEF FetchSpec

(* Whatever was cached before: one worker at a time is between the lock of  *)
(* a key and the end of its fetch, so a temporary clone of that key that is *)
(* not its own is debris.                                                   *)
THEOREM OneHolder ==
    ASSUME ~CleanDuring
    PROVE  FetchSpec => [](InvMutex /\ InvClone /\ UsedIsComplete /\ DebrisSwept)
<1>1. CacheInv /\ [FetchNext]_fetchVars => CacheInv'
  BY NextCacheInv
<1>2. CacheInv => InvMutex /\ InvClone /\ UsedIsComplete /\ DebrisSwept
  BY DEF CacheInv
<1> QED
  BY <1>1, <1>2, InitCacheInv, PTL DEF FetchSpec

-----------------------------------------------------------------------------
(* The source tree of a unit *)

(* A unit without patches; src_patch_retry shows why the pin of one with    *)
(* patches is not as sure.                                                  *)
NoPatch == \A p \in PatchLists : p = NoCommit

(* While no toggle comes, the decision the build read is the one it will    *)
(* write back over; between builds a toggle is settled.                     *)
InvDecision ==
    /\ pc # "idle" /\ toggle = "kept" => (bmeta = "dev" <=> state = "dev")
    /\ pc = "idle" => toggle # "during"

(* Prepare made up its mind to replace the tree of a unit in dev mode only  *)
(* when there was none.                                                     *)
InvFetching == pc = "fetching" /\ toggle = "kept" /\ wish = "dev" => ~src.git

(* Prepare works on an empty directory once it removed the tree.            *)
InvRemoved == pc = "removed" => ~src.git

WorkInv == SourceTypeOK /\ ToggleKept /\ InvDecision /\ InvFetching /\ InvRemoved

(* A commit that is checked out, declared or tagged is a commit.            *)
InvCommits ==
    /\ star.tag # NoCommit /\ unit.tag # NoCommit
    /\ star.patches = NoCommit /\ unit.patches = NoCommit
    /\ src.git => src.head # NoCommit

(* In pin mode the tree has no edits, and yoe/pin, once it is set, is where *)
(* HEAD is: so no tree counts as having local commits.                      *)
InvPinned == wish = "pin" => src.dirt # "edits" /\ src.pin \in {NoCommit, src.head}

(* From the clone on, a pin-mode build works on the tag it was started with *)
(* if nobody toggles under it.                                              *)
InvPrepared ==
    toggle = "kept" /\ wish = "pin" /\ pc \in {"cloned", "tagged", "prepared", "compiled"} => src.head = unit.tag

PinInv == WorkInv /\ InvCommits /\ InvPinned /\ InvPrepared

---------------------------------------------------------------------------
(* What the proofs need to know of commits as sequences.                    *)
LEMMA CommitFacts ==
    /\ NoCommit \in Commits
    /\ \A c \in Commits : Append(c, Edit) \in Commits \ {NoCommit}
    /\ \A c, p \in Commits : \A k \in 0 .. Len(p) : c \o SubSeq(p, 1, k) \in Commits
<1>1. NoCommit \in Commits
  BY DEF NoCommit, Commits
<1>2. \A c \in Commits : Append(c, Edit) \in Commits \ {NoCommit}
  <2> TAKE c \in Commits
  <2>1. Edit \in Changes /\ c \in Seq(Changes)
    BY SourceAssumption DEF Commits
  <2>2. Append(c, Edit) \in Seq(Changes) /\ Append(c, Edit) # << >>
    BY <2>1, AppendProperties
  <2> QED
    BY <2>2 DEF Commits, NoCommit
<1>3. \A c, p \in Commits : \A k \in 0 .. Len(p) : c \o SubSeq(p, 1, k) \in Commits
  <2> TAKE c, p \in Commits
  <2> TAKE k \in 0 .. Len(p)
  <2>1. c \in Seq(Changes) /\ p \in Seq(Changes)
    BY DEF Commits
  <2>2. SubSeq(p, 1, k) \in Seq(Changes)
    BY <2>1, SubSeqProperties
  <2>3. c \o SubSeq(p, 1, k) \in Seq(Changes)
    BY <2>1, <2>2, ConcatProperties
  <2> QED
    BY <2>3 DEF Commits
<1> QED
  BY <1>1, <1>2, <1>3

(* Without patches nothing is appended.                                     *)
LEMMA EmptyPatch ==
    ASSUME NEW c \in Commits
    PROVE  /\ Len(NoCommit) = 0
           /\ c \o SubSeq(NoCommit, 1, 0) = c
           /\ c \o NoCommit = c
           /\ IsPrefix(c, c)
<1>1. c \in Seq(Changes) /\ Len(c) \in Nat
  BY DEF Commits
<1>2. NoCommit \in Seq(Changes) /\ Len(NoCommit) = 0
  BY DEF NoCommit
<1>3. SubSeq(NoCommit, 1, 0) = NoCommit
  BY SubSeqEmpty, <1>2 DEF NoCommit
<1>4. c \o NoCommit = c
  BY <1>1, ConcatEmptySeq DEF NoCommit
<1>5. IsPrefix(c, c)
  BY <1>1 DEF IsPrefix
<1> QED
  BY <1>2, <1>3, <1>4, <1>5

---------------------------------------------------------------------------
(* Types. *)

LEMMA DeclaredType == [tag : Tags, branch : Branches, patches : PatchLists] \subseteq Declarations
BY SourceAssumption DEF Declarations

LEMMA NoTreeType == NoTree \in Trees
BY CommitFacts DEF NoTree, Trees

LEMMA DetectsDev ==
    ASSUME DetectState \in {"dev", "dev-mod"}
    PROVE  src.git /\ src.dirt = "clean"
BY DEF DetectState

LEMMA UserType ==
    ASSUME SourceTypeOK,
           EditStar \/ UserEdits \/ UserCommits \/ Wipe \/ DevToUpstream \/ DevPromoteToPin
             \/ \E b \in BOOLEAN : DevToPin(b)
    PROVE  SourceTypeOK'
<1> USE DEF SourceTypeOK
<1>1. CASE EditStar
  BY <1>1, DeclaredType DEF EditStar
<1>2. CASE UserEdits
  BY <1>2 DEF UserEdits, Trees
<1>3. CASE UserCommits
  <2>1. Append(src.head, Edit) \in Commits
    BY CommitFacts DEF Trees
  <2>2. src' \in Trees
    BY <1>3, <2>1 DEF UserCommits, Trees
  <2>3. commits' \in 0 .. MaxCommits
    <3>1. commits' = commits + 1 /\ commits < MaxCommits
      BY <1>3 DEF UserCommits
    <3>2. commits \in 0 .. MaxCommits /\ MaxCommits \in Nat
      BY SourceAssumption
    <3> QED
      BY ONLY <3>1, <3>2
  <2> QED
    BY <1>3, <2>2, <2>3 DEF UserCommits
<1>4. CASE Wipe
  BY <1>4, NoTreeType DEF Wipe
<1>5. CASE DevToUpstream
  BY <1>5, ZenonT(40) DEF DevToUpstream, Toggled, Trees, Declarations
<1>6. CASE DevPromoteToPin
  BY <1>6 DEF DevPromoteToPin, Toggled, Trees, Declarations
<1>7. CASE \E b \in BOOLEAN : DevToPin(b)
  <2>1. PICK k \in 0 .. Len(star.patches) :
          /\ src' = [src EXCEPT !.head = star.tag \o SubSeq(star.patches, 1, k),
                                !.onLocal = FALSE,
                                !.dirt = IF @ = "edits" THEN "clean" ELSE @,
                                !.pin = IF k = Len(star.patches) THEN star.tag ELSE @]
          /\ state' \in {state, "pin"} /\ wish' \in {wish, "pin"}
          /\ toggle' \in {"kept", "during", toggle}
    BY <1>7 DEF DevToPin, Toggled, HalfToggled
  <2>2. star.tag \in Commits /\ star.patches \in Commits
    BY DEF Declarations
  <2>3. star.tag \o SubSeq(star.patches, 1, k) \in Commits
    BY <2>2, CommitFacts
  <2>4. src' \in Trees
    BY <2>1, <2>2, <2>3 DEF Trees
  <2> QED
    BY <1>7, <2>1, <2>4 DEF DevToPin
<1> QED
  BY <1>1, <1>2, <1>3, <1>4, <1>5, <1>6, <1>7

LEMMA BuildType ==
    ASSUME SourceTypeOK,
           (\E b \in BOOLEAN : BuildStart(b)) \/ PrepareKeeps \/ PrepareFetches \/ FetchFails \/ PrepareRemoves
             \/ PrepareClones \/ PrepareTags \/ PreparePatches \/ Compile \/ BuildEnds \/ Crash
    PROVE  SourceTypeOK'
<1> USE DEF SourceTypeOK, Stages
<1>1. CASE \E b \in BOOLEAN : BuildStart(b)
  BY <1>1, NoTreeType DEF BuildStart
<1>2. CASE PrepareKeeps \/ PrepareFetches \/ FetchFails \/ PrepareRemoves \/ Crash
  BY <1>2, NoTreeType DEF PrepareKeeps, PrepareFetches, FetchFails, PrepareRemoves, Crash
<1>3. CASE PrepareClones
  BY <1>3, CommitFacts DEF PrepareClones, CloneOf, NoTree, Trees, Declarations
<1>4. CASE PrepareTags
  BY <1>4 DEF PrepareTags, Trees
<1>5. CASE PreparePatches
  <2>1. PICK k \in 0 .. Len(unit.patches) :
          /\ src' = [src EXCEPT !.head = @ \o SubSeq(unit.patches, 1, k)]
          /\ pc' \in {"prepared", "failing"}
    BY <1>5 DEF PreparePatches
  <2>2. src.head \in Commits /\ unit.patches \in Commits
    BY DEF Declarations, Trees
  <2>3. src.head \o SubSeq(unit.patches, 1, k) \in Commits
    BY <2>2, CommitFacts
  <2>4. src' \in Trees
    BY <2>1, <2>3 DEF Trees
  <2> QED
    BY <1>5, <2>1, <2>4 DEF PreparePatches
<1>6. CASE Compile
  BY <1>6 DEF Compile, Trees
<1>7. CASE BuildEnds
  BY <1>7 DEF BuildEnds, FinalState
<1> QED
  BY <1>1, <1>2, <1>3, <1>4, <1>5, <1>6, <1>7

---------------------------------------------------------------------------
(* The decision in build.json and the tree Prepare works on. *)

LEMMA InitWorkInv == SourceInit => WorkInv
<1> SUFFICES ASSUME SourceInit PROVE WorkInv
  OBVIOUS
<1> USE DEF SourceInit
<1>1. SourceTypeOK
  <2>1. star \in Declarations /\ unit \in Declarations /\ src \in Trees
    BY DeclaredType, NoTreeType
  <2>2. commits \in 0 .. MaxCommits
    <3>1. commits = 0 /\ MaxCommits \in Nat
      BY SourceAssumption
    <3> QED
      BY ONLY <3>1
  <2> QED
    BY <2>1, <2>2 DEF SourceTypeOK, Stages
<1>2. ToggleKept /\ InvDecision /\ InvFetching /\ InvRemoved
  BY DEF ToggleKept, InvDecision, InvFetching, InvRemoved
<1> QED
  BY <1>1, <1>2 DEF WorkInv

LEMMA NextWorkInv == WorkInv /\ [SourceNext]_sourceVars => WorkInv'
<1> SUFFICES ASSUME WorkInv, [SourceNext]_sourceVars PROVE WorkInv'
  OBVIOUS
<1> USE DEF WorkInv, ToggleKept, InvDecision, InvFetching, InvRemoved
<1>1. CASE EditStar \/ UserEdits \/ UserCommits \/ Wipe
  BY <1>1, UserType DEF EditStar, UserEdits, UserCommits, Wipe, NoTree, SourceTypeOK, Trees
<1>2. CASE DevToUpstream \/ DevPromoteToPin
  <2>1. src.git
    BY <1>2, DetectsDev DEF DevToUpstream, DevPromoteToPin
  <2> QED
    BY <1>2, <2>1, UserType DEF DevToUpstream, DevPromoteToPin, Toggled, SourceTypeOK
<1>3. CASE \E b \in BOOLEAN : DevToPin(b)
  BY <1>3, UserType DEF DevToPin, Toggled, HalfToggled, SourceTypeOK
<1>4. CASE \E b \in BOOLEAN : BuildStart(b)
  BY <1>4, BuildType DEF BuildStart
<1>5. CASE PrepareKeeps \/ FetchFails \/ PrepareRemoves \/ PrepareClones \/ PrepareTags \/ Compile
  BY <1>5, BuildType
     DEF PrepareKeeps, FetchFails, PrepareRemoves, PrepareClones, PrepareTags, Compile, NoTree
<1>6. CASE PrepareFetches
  BY <1>6, BuildType DEF PrepareFetches, KeepsTree
<1>7. CASE PreparePatches
  BY <1>7, BuildType DEF PreparePatches
<1>8. CASE BuildEnds
  BY <1>8, BuildType DEF BuildEnds, FinalState, SourceTypeOK
<1>9. CASE Crash
  BY <1>9, BuildType DEF Crash, SourceTypeOK
<1>10. CASE UNCHANGED sourceVars
  BY <1>10 DEF sourceVars, SourceTypeOK
<1> QED
  BY <1>1, <1>2, <1>3, <1>4, <1>5, <1>6, <1>7, <1>8, <1>9, <1>10 DEF SourceNext

(* Prepare removes no tree of a unit in dev mode, since build.json said dev *)
(* as the user did when it looked, and DevToPin without force no tree with  *)
(* edits.                                                                   *)
LEMMA WorkStep ==
    ASSUME WorkInv, SourceNext, HasWork, toggle = "kept", Discards
    PROVE  AskedFor
<1>1. wish = "dev" /\ src.git /\ src \in Trees
  BY DEF WorkInv, HasWork, SourceTypeOK
<1>2. ~src'.git \/ (src.dirt = "edits" /\ src'.dirt # "edits")
  BY <1>1 DEF Discards
<1>3. ~EditStar /\ ~BuildStart(FALSE) /\ ~BuildEnds /\ ~Crash
  BY <1>1, <1>2 DEF EditStar, BuildStart, BuildEnds, Crash
<1>4. ~PrepareKeeps /\ ~PrepareFetches /\ ~FetchFails /\ ~PrepareRemoves
  BY <1>1, <1>2 DEF PrepareKeeps, PrepareFetches, FetchFails, PrepareRemoves, WorkInv, InvFetching
<1>5. ~PrepareClones
  BY <1>1 DEF PrepareClones, WorkInv, InvRemoved
<1>6. ~UserEdits /\ ~DevToUpstream /\ ~DevPromoteToPin
  BY <1>1, <1>2 DEF UserEdits, DevToUpstream, DevPromoteToPin, Trees
<1>7. ~PrepareTags /\ ~PreparePatches /\ ~Compile
  BY <1>1, <1>2 DEF PrepareTags, PreparePatches, Compile, Trees
<1>8. ~DevToPin(FALSE)
  <2>1. ASSUME DevToPin(FALSE) PROVE FALSE
    <3>1. src.dirt = "clean" /\ src'.git = src.git
      BY <2>1, <1>1 DEF DevToPin, RefusesLocalWork, DetectState, Trees
    <3> QED
      BY <3>1, <1>1, <1>2
  <2> QED
    BY <2>1
<1> QED
  BY <1>3, <1>4, <1>5, <1>6, <1>7, <1>8 DEF SourceNext, AskedFor

(* The decision of the user survives every build, failure and crash but the *)
(* end of a build it was made during: initBuildMeta and the deferred write  *)
(* of buildOne carry it over.                                               *)
THEOREM SourceInvHolds == SourceSpec => []SourceInv
<1>1. WorkInv => SourceInv
  BY DEF WorkInv, SourceInv
<1>2. WorkInv /\ [SourceNext]_sourceVars => WorkInv'
  BY NextWorkInv
<1> QED
  BY <1>1, <1>2, InitWorkInv, PTL DEF SourceSpec

(* Work of the user, done under a toggle that no running build can still    *)
(* undo, is discarded only where they asked for it by name (Prepare and the *)
(* toggles of dev.go).                                                      *)
THEOREM UserWorkIsSafe == SourceSpec => UserWorkSafe
<1>1. WorkInv /\ [SourceNext]_sourceVars =>
        [HasWork /\ toggle = "kept" /\ Discards => AskedFor]_sourceVars
  BY WorkStep
<1>2. WorkInv /\ [SourceNext]_sourceVars => WorkInv'
  BY NextWorkInv
<1> QED
  BY <1>1, <1>2, InitWorkInv, PTL DEF SourceSpec, UserWorkSafe

---------------------------------------------------------------------------
(* What a pin-mode build compiles. *)

LEMMA InitPinInv == NoPatch /\ SourceInit => PinInv
<1> SUFFICES ASSUME NoPatch, SourceInit PROVE PinInv
  OBVIOUS
<1>1. InvCommits
  BY SourceAssumption DEF SourceInit, InvCommits, NoPatch, NoTree
<1>2. InvPinned /\ InvPrepared
  BY DEF SourceInit, InvPinned, InvPrepared, NoTree
<1> QED
  BY <1>1, <1>2, InitWorkInv DEF PinInv

(* In pin mode only a build finds a tree other than the declared one; then  *)
(* it keeps it only if yoe/pin, and so HEAD, is the tag.                    *)
LEMMA KeptTreeIsTag ==
    ASSUME PinInv, wish = "pin", toggle = "kept", KeepsTree
    PROVE  src.head = unit.tag
<1>1. state # "dev" /\ src \in Trees
  BY DEF PinInv, WorkInv, ToggleKept, SourceTypeOK
<1>2. src.pin \in {NoCommit, src.head}
  BY DEF PinInv, InvPinned
<1>3. ~HasLocalCommits
  <2>1. src.pin # NoCommit => IsPrefix(src.head, src.pin)
    BY <1>1, <1>2, EmptyPatch DEF Trees
  <2> QED
    BY <2>1 DEF HasLocalCommits
<1>4. src.pin = unit.tag
  BY <1>1, <1>3 DEF KeepsTree, PinMatchesTag
<1> QED
  BY <1>2, <1>4 DEF PinInv, InvCommits

LEMMA UserPinInv ==
    ASSUME NoPatch, PinInv, SourceTypeOK',
           EditStar \/ UserEdits \/ UserCommits \/ Wipe \/ DevToUpstream \/ DevPromoteToPin
    PROVE  InvCommits' /\ InvPinned' /\ InvPrepared'
<1> USE DEF PinInv, WorkInv, InvCommits, InvPinned, InvPrepared
<1>0. src \in Trees /\ src' \in Trees /\ wish \in {"pin", "dev"}
  BY DEF SourceTypeOK
<1>1. CASE EditStar
  BY <1>1, SourceAssumption DEF EditStar, NoPatch
<1>2. CASE UserEdits
  BY <1>2, <1>0 DEF UserEdits, Trees
<1>3. CASE UserCommits
  <2>1. Append(src.head, Edit) # NoCommit
    BY <1>0, CommitFacts DEF Trees
  <2>2. src'.head # NoCommit
    BY <1>3, <1>0, <2>1 DEF UserCommits, Trees
  <2> QED
    BY <1>3, <2>2 DEF UserCommits
<1>4. CASE Wipe
  BY <1>4 DEF Wipe, NoTree
<1>5. CASE DevToUpstream
  <2>1. src'.git => src'.head # NoCommit
    BY <1>5, <1>0 DEF DevToUpstream, Trees
  <2> QED
    BY <1>5, <2>1 DEF DevToUpstream, Toggled
<1>6. CASE DevPromoteToPin
  <2>1. src.git /\ src.dirt = "clean" /\ src.head # NoCommit
    BY <1>6, DetectsDev DEF DevPromoteToPin
  <2>2. src'.head = src.head /\ src'.pin = src.head /\ src'.dirt = "clean" /\ star'.tag = src.head
        /\ star'.patches = star.patches
    BY <1>6, <1>0, <2>1 DEF DevPromoteToPin, Trees, SourceTypeOK, Declarations
  <2> QED
    BY <1>6, <2>1, <2>2 DEF DevPromoteToPin, Toggled
<1> QED
  BY <1>1, <1>2, <1>3, <1>4, <1>5, <1>6

LEMMA TogglePinInv ==
    ASSUME PinInv, NEW b \in BOOLEAN, DevToPin(b)
    PROVE  InvCommits' /\ InvPinned' /\ InvPrepared'
<1> USE DEF PinInv, WorkInv, InvCommits, InvPinned, InvPrepared
<1>0. src \in Trees /\ star.tag \in Commits
  BY DEF SourceTypeOK, Declarations
<1>1. Len(star.patches) = 0 /\ star.tag \o SubSeq(star.patches, 1, 0) = star.tag
  BY <1>0, EmptyPatch
<1>2. \A k \in 0 .. 0 : k = 0
  OBVIOUS
<1>3. src' = [src EXCEPT !.head = star.tag, !.onLocal = FALSE,
                         !.dirt = IF @ = "edits" THEN "clean" ELSE @, !.pin = star.tag]
  BY <1>1, <1>2 DEF DevToPin
<1>4. src'.head = star.tag /\ src'.pin = star.tag /\ src'.dirt # "edits"
  BY <1>0, <1>3 DEF Trees
<1>5. pc' = pc /\ (toggle' = "kept" => pc = "idle")
  BY <1>1, <1>2 DEF DevToPin, Toggled
<1> QED
  BY <1>4, <1>5 DEF DevToPin

LEMMA BuildPinInv ==
    ASSUME PinInv, SourceTypeOK',
           (\E b \in BOOLEAN : BuildStart(b)) \/ PrepareKeeps \/ PrepareFetches \/ FetchFails \/ PrepareRemoves
             \/ PrepareClones \/ PrepareTags \/ PreparePatches \/ Compile \/ BuildEnds \/ Crash
    PROVE  InvCommits' /\ InvPinned' /\ InvPrepared'
<1> USE DEF PinInv, WorkInv, InvCommits, InvPinned, InvPrepared
<1>0. src \in Trees /\ unit.tag \in Commits
  BY DEF SourceTypeOK, Declarations
<1>1. CASE \E b \in BOOLEAN : BuildStart(b)
  BY <1>1 DEF BuildStart, NoTree
<1>2. CASE PrepareKeeps
  BY <1>2, KeptTreeIsTag DEF PrepareKeeps
<1>3. CASE PrepareFetches \/ FetchFails \/ PrepareRemoves \/ BuildEnds \/ Crash
  BY <1>3 DEF PrepareFetches, FetchFails, PrepareRemoves, BuildEnds, Crash, NoTree
<1>4. CASE PrepareClones
  BY <1>4 DEF PrepareClones, CloneOf, NoTree
<1>5. CASE PrepareTags
  BY <1>5, <1>0 DEF PrepareTags, Trees
<1>6. CASE PreparePatches
  <2>1. Len(unit.patches) = 0 /\ src.head \o SubSeq(unit.patches, 1, 0) = src.head
    BY <1>0, EmptyPatch DEF Trees
  <2>2. \A k \in 0 .. 0 : k = 0
    OBVIOUS
  <2>3. src' = [src EXCEPT !.head = @ \o SubSeq(unit.patches, 1, 0)] /\ pc' = "prepared"
    BY <1>6, <2>1, <2>2 DEF PreparePatches
  <2>4. src'.head = src.head /\ src'.git = src.git /\ src'.pin = src.pin /\ src'.dirt = src.dirt
    BY <1>0, <2>1, <2>3 DEF Trees
  <2> QED
    BY <1>6, <2>3, <2>4 DEF PreparePatches
<1>7. CASE Compile
  <2>1. src'.head = src.head /\ src'.git = src.git /\ src'.pin = src.pin
        /\ (src.dirt # "edits" => src'.dirt # "edits")
    BY <1>7, <1>0 DEF Compile, Trees
  <2> QED
    BY <1>7, <2>1 DEF Compile
<1> QED
  BY <1>1, <1>2, <1>3, <1>4, <1>5, <1>6, <1>7

(* A pin-mode build compiles the declared tag, through every order of       *)
(* toggles, wipes, edits of the .star, failed builds and crashes, for a     *)
(* unit without patches.                                                    *)
THEOREM PinBuildHolds ==
    ASSUME NoPatch
    PROVE  SourceSpec => []PinBuildIsDeclared
<1>1. SourceInit => PinInv
  BY InitPinInv
<1>2. PinInv /\ [SourceNext]_sourceVars => PinInv'
  <2> SUFFICES ASSUME PinInv, [SourceNext]_sourceVars PROVE PinInv'
    OBVIOUS
  <2>1. WorkInv' /\ SourceTypeOK'
    BY NextWorkInv DEF PinInv, WorkInv
  <2>2. CASE UNCHANGED sourceVars
    BY <2>1, <2>2 DEF PinInv, InvCommits, InvPinned, InvPrepared, sourceVars
  <2>3. CASE SourceNext
    BY <2>1, <2>3, UserPinInv, TogglePinInv, BuildPinInv DEF SourceNext, PinInv
  <2> QED
    BY <2>2, <2>3
<1>3. PinInv => PinBuildIsDeclared
  <2> SUFFICES ASSUME PinInv, pc = "compiled", wish = "pin", toggle = "kept"
               PROVE  src.head = unit.tag \o unit.patches /\ src.dirt # "edits"
    BY DEF PinBuildIsDeclared
  <2>1. unit.tag \in Commits
    BY DEF PinInv, WorkInv, SourceTypeOK, Declarations
  <2>2. unit.tag \o unit.patches = unit.tag
    BY <2>1, EmptyPatch DEF PinInv, InvCommits
  <2> QED
    BY <2>2 DEF PinInv, InvPinned, InvPrepared
<1> QED
  BY <1>1, <1>2, <1>3, PTL DEF SourceSpec

=============================================================================
