----------------------------- MODULE ProjectProofs -----------------------------
(***************************************************************************)
(* Proofs about the project: its module clones and the walk over the        *)
(* dependencies of modules, for any modules and remotes, any number of      *)
(* commands, of kills while cloning, and of commits of the user; and the    *)
(* loading of a project and the closures of its images, for any projects.   *)
(***************************************************************************)
EXTENDS ModuleSync, ProjectLoad, Induction, FiniteSetTheorems, SequenceTheorems, TLAPS

(* Clones *)

Infos == {Refs[r].info : r \in Ids}
Expansions == [combined : Seq(Ids), seen : SUBSET Ids, graph : SUBSET (Infos \X ModuleNames),
               round : 0 .. MaxRounds, new : Seq(Ids), deps : Seq(Ids)]
Searches == [stack : Seq(Infos), done : SUBSET Infos]

InvTypes ==
    /\ forced \in BOOLEAN /\ project \in ModuleLists /\ tip \in [Ids -> Nat \ {0}]
    /\ pc \in {"idle", "sync", "synced", "need", "read", "cycles", "loaded", "conflict", "cycle"}
    /\ pending \in Seq(Ids) /\ loaded \in Seq(Ids)
    /\ expansion \in Expansions /\ search \in Searches

(* What a clone under a name is: of a module with that name; work of the    *)
(* user is only in one in dev mode, which has a commit to anchor; and the   *)
(* anchor is never a commit of the user.                                    *)
CloneOK(n, c) ==
    /\ Refs[c.id].name = n
    /\ c.tag[2] = 0
    /\ c.is \in {"none", "fetching"} => c.mode = ""
    /\ c.is \in {"checkout", "whole"} => c.head[1] # 0
    /\ c.mode = "dev" => c.tag # NoCommit
    /\ c.dirty => c.mode = "dev"
    /\ c.head[2] > 0 => c.mode = "dev"

InvClones == dir \in [ModuleNames -> Clones] /\ \A n \in ModuleNames : CloneOK(n, dir[n])

(* What a step that leaves c where b was keeps of the user's work.          *)
KeepsWork(b, c) ==
    /\ c.head[2] >= b.head[2]
    /\ b.dirty => c.dirty \/ c.head[2] > b.head[2]

(* A step on one clone: the user's work is kept, or they confirmed.         *)
CloneStep(n) ==
    \E c \in Clones :
        /\ dir' = [dir EXCEPT ![n] = c] /\ CloneOK(n, c)
        /\ KeepsWork(dir[n], c) \/ (ToPin(n, TRUE) /\ forced')

(* The parts of a clone have their types. *)
LEMMA ClonesTyped ==
  ASSUME NEW c \in Clones
  PROVE  /\ c.is \in {"none", "fetching", "checkout", "whole"} /\ c.id \in Ids /\ c.head \in Nat \X Nat
         /\ c.branch \in BOOLEAN /\ c.dirty \in BOOLEAN /\ c.tag \in Nat \X Nat /\ c.mode \in {"", "dev"}
         /\ c.head[1] \in Nat /\ c.head[2] \in Nat /\ c.tag[1] \in Nat /\ c.tag[2] \in Nat
         /\ c.head = <<c.head[1], c.head[2]>> /\ c.tag = <<c.tag[1], c.tag[2]>>
<1>1. /\ c.is \in {"none", "fetching", "checkout", "whole"} /\ c.id \in Ids /\ c.head \in Nat \X Nat
      /\ c.branch \in BOOLEAN /\ c.dirty \in BOOLEAN /\ c.tag \in Nat \X Nat /\ c.mode \in {"", "dev"}
  BY DEF Clones
<1>2. \A p \in Nat \X Nat : p[1] \in Nat /\ p[2] \in Nat /\ p = <<p[1], p[2]>>
  OBVIOUS
<1> QED
  BY <1>1, <1>2

(* A clone that is not in dev mode holds no work of the user, and whatever  *)
(* takes its place keeps that.                                              *)
LEMMA NoWork ==
  ASSUME NEW n, NEW c \in Clones, CloneOK(n, c), c.mode # "dev"
  PROVE  c.head[2] = 0 /\ ~c.dirty
<1>1. c.head[2] \in Nat /\ c.dirty \in BOOLEAN
  BY ClonesTyped
<1>2. (c.dirty => c.mode = "dev") /\ (c.head[2] > 0 => c.mode = "dev")
  BY DEF CloneOK
<1>3. c.head[2] = 0
  BY <1>1, <1>2
<1>4. ~c.dirty
  BY <1>2
<1> QED
  BY <1>3, <1>4

LEMMA KeepsNothing ==
  ASSUME NEW b \in Clones, NEW c \in Clones, b.head[2] = 0, ~b.dirty
  PROVE  KeepsWork(b, c)
<1>1. c.head[2] \in Nat
  BY ClonesTyped
<1> QED
  BY <1>1 DEF KeepsWork

(* The commit of a ref. *)
LEMMA RefCommit ==
  ASSUME InvTypes, NEW r \in Ids
  PROVE  \E h \in Nat \X Nat : h = <<tip[r], 0>> /\ h[1] # 0 /\ h[2] = 0
<1>1. PICK v \in Nat \ {0} : v = tip[r]
  BY DEF InvTypes
<1>2. <<v, 0>> \in Nat \X Nat /\ <<v, 0>>[1] = v /\ <<v, 0>>[2] = 0
  OBVIOUS
<1> QED
  BY <1>1, <1>2

(* A clone made of the parts given. *)
Made(i, r, h, b, d, t, m) ==
    [is |-> i, id |-> r, head |-> h, branch |-> b, dirty |-> d, tag |-> t, mode |-> m]

LEMMA MadeOK ==
  ASSUME NEW i \in {"none", "fetching", "checkout", "whole"}, NEW r \in Ids, NEW h \in Nat \X Nat,
         NEW b \in BOOLEAN, NEW d \in BOOLEAN, NEW t \in Nat \X Nat, NEW m \in {"", "dev"},
         t[2] = 0, i \in {"none", "fetching"} => m = "", i \in {"checkout", "whole"} => h[1] # 0,
         m = "dev" => t # NoCommit, d => m = "dev", h[2] > 0 => m = "dev"
  PROVE  Made(i, r, h, b, d, t, m) \in Clones /\ CloneOK(Refs[r].name, Made(i, r, h, b, d, t, m))
<1>1. Made(i, r, h, b, d, t, m) \in Clones
  BY DEF Clones, Made
<1>2. PICK c \in Clones : c = Made(i, r, h, b, d, t, m)
  BY <1>1
<1>3. /\ c.is = i /\ c.id = r /\ c.head = h /\ c.branch = b /\ c.dirty = d /\ c.tag = t /\ c.mode = m
  BY <1>2 DEF Made
<1>4. CloneOK(Refs[r].name, c)
  BY <1>3 DEF CloneOK
<1> QED
  BY <1>2, <1>4

(* A clone after changes to some of its parts. *)
Reshape(c, i, h, b) == [c EXCEPT !.is = i, !.head = h, !.branch = b]

LEMMA Reshaped ==
  ASSUME NEW c \in Clones, NEW i, NEW h, NEW b
  PROVE  Reshape(c, i, h, b) = Made(i, c.id, h, b, c.dirty, c.tag, c.mode)
<1>1. PICK x : x = Reshape(c, i, h, b)
  OBVIOUS
<1>2. DOMAIN x = {"is", "id", "head", "branch", "dirty", "tag", "mode"}
  BY <1>1 DEF Clones, Reshape
<1>3. /\ x.is = i /\ x.id = c.id /\ x.head = h /\ x.branch = b
      /\ x.dirty = c.dirty /\ x.tag = c.tag /\ x.mode = c.mode
  BY <1>1 DEF Clones, Reshape
<1>4. x = [f \in DOMAIN x |-> x[f]]
  BY <1>1 DEF Reshape
<1> QED
  BY ONLY <1>1, <1>2, <1>3, <1>4 DEF Made

(* What cloneModule leaves of a module. *)
HalfClone(r, half) ==
    [NoClone(r) EXCEPT !.is = half,
                       !.head = IF half = "checkout" THEN <<tip[r], 0>> ELSE NoCommit,
                       !.branch = half = "checkout"]

LEMMA FreshClone ==
  ASSUME NEW r \in Ids, NEW n, n = Refs[r].name, InvTypes
  PROVE  /\ NoClone(r) \in Clones /\ CloneOK(n, NoClone(r))
         /\ Cloned(n, r) \in Clones /\ CloneOK(n, Cloned(n, r))
         /\ \A half \in {"fetching", "checkout"} : HalfClone(r, half) \in Clones /\ CloneOK(n, HalfClone(r, half))
<1>1. /\ tip[r] \in Nat \ {0} /\ NoCommit \in Nat \X Nat /\ <<tip[r], 0>> \in Nat \X Nat
      /\ NoCommit[1] = 0 /\ NoCommit[2] = 0 /\ <<tip[r], 0>>[1] # 0 /\ <<tip[r], 0>>[2] = 0
      /\ ~(0 > 0)
  BY DEF InvTypes, NoCommit
<1>2. PICK h \in Nat \X Nat : h = <<tip[r], 0>> /\ h[1] # 0 /\ h[2] = 0
  BY <1>1
<1>3. PICK z \in Nat \X Nat : z = NoCommit /\ z[1] = 0 /\ z[2] = 0
  BY <1>1
<1>4. NoClone(r) = Made("none", r, z, FALSE, FALSE, z, "")
  BY <1>3 DEF NoClone, Made
<1>5. ASSUME NEW i \in {"none", "fetching"}
      PROVE  LET c == Made(i, r, z, FALSE, FALSE, z, "") IN c \in Clones /\ CloneOK(n, c)
  <2>1. ~(z[2] > 0) /\ i \notin {"checkout", "whole"}
    BY <1>3
  <2> QED
    BY <1>3, <2>1, MadeOK
<1>6. ASSUME NEW i \in {"checkout", "whole"}
      PROVE  LET c == Made(i, r, h, TRUE, FALSE, z, "") IN c \in Clones /\ CloneOK(n, c)
  <2>1. ~(h[2] > 0) /\ i \notin {"none", "fetching"}
    BY <1>2
  <2> QED
    BY <1>2, <1>3, <2>1, MadeOK
<1>7. PICK x \in Clones : x = NoClone(r)
  BY <1>4, <1>5
<1>8. x.id = r /\ x.dirty = FALSE /\ x.tag = z /\ x.mode = ""
  BY <1>3, <1>7 DEF NoClone
<1>9. Cloned(n, r) = Made("whole", r, h, TRUE, FALSE, z, "")
  <2>1. Cloned(n, r) = Reshape(x, "whole", h, TRUE)
    BY <1>2, <1>7 DEF Cloned, Reshape
  <2> QED
    BY <1>8, <2>1, Reshaped
<1>10. HalfClone(r, "fetching") = Made("fetching", r, z, FALSE, FALSE, z, "")
  <2>1. HalfClone(r, "fetching") = Reshape(x, "fetching", z, FALSE)
    BY <1>3, <1>7 DEF HalfClone, Reshape
  <2> QED
    BY <1>8, <2>1, Reshaped
<1>11. HalfClone(r, "checkout") = Made("checkout", r, h, TRUE, FALSE, z, "")
  <2>1. HalfClone(r, "checkout") = Reshape(x, "checkout", h, TRUE)
    BY <1>2, <1>7 DEF HalfClone, Reshape
  <2> QED
    BY <1>8, <2>1, Reshaped
<1> QED
  BY <1>4, <1>5, <1>6, <1>9, <1>10, <1>11

(* Cloning where there was nothing loses nothing. *)
LEMMA CloneModuleSteps ==
  ASSUME NEW r \in Ids, InvTypes, InvClones, NEW then, ~HasGit(Refs[r].name), CloneModule(Refs[r].name, r, then)
  PROVE  CloneStep(Refs[r].name)
<1>1. PICK n \in ModuleNames : n = Refs[r].name
  BY DEF ModuleNames
<1>2. dir[n] \in Clones /\ CloneOK(n, dir[n]) /\ dir[n].is = "none"
  BY <1>1 DEF InvClones, HasGit
<1>3. dir[n].head[2] = 0 /\ ~dir[n].dirty
  <2>1. dir[n].head[2] \in Nat /\ dir[n].dirty \in BOOLEAN
    BY <1>2, ClonesTyped
  <2>2. dir[n].mode # "dev" /\ (dir[n].dirty => dir[n].mode = "dev") /\ (dir[n].head[2] > 0 => dir[n].mode = "dev")
    BY <1>2 DEF CloneOK
  <2>3. dir[n].head[2] = 0
    BY <2>1, <2>2
  <2>4. ~dir[n].dirty
    BY <2>2
  <2> QED
    BY <2>3, <2>4
<1>4. ASSUME NEW c \in Clones, CloneOK(n, c), dir' = [dir EXCEPT ![n] = c]
      PROVE  CloneStep(n)
  <2>1. c.head[2] \in Nat
    BY ClonesTyped
  <2>2. KeepsWork(dir[n], c)
    BY <1>3, <2>1 DEF KeepsWork
  <2> QED
    BY <1>4, <2>2 DEF CloneStep
<1>5. PICK c \in Clones : CloneOK(n, c) /\ dir' = [dir EXCEPT ![n] = c]
  <2>1. CASE dir' = [dir EXCEPT ![n] = Cloned(n, r)]
    BY <1>1, <2>1, FreshClone
  <2>2. CASE dir' = [dir EXCEPT ![n] = NoClone(r)]
    BY <1>1, <2>2, FreshClone
  <2>3. ASSUME NEW half \in {"fetching", "checkout"},
               dir' = [dir EXCEPT ![n] = HalfClone(r, half)]
        PROVE  \E c \in Clones : CloneOK(n, c) /\ dir' = [dir EXCEPT ![n] = c]
    BY <1>1, <2>3, FreshClone
  <2> QED
    BY <1>1, <2>1, <2>2, <2>3 DEF CloneModule, HalfClone
<1> QED
  BY <1>1, <1>4, <1>5

(* The state git and the state file give: "dev" only without commits of the *)
(* user, something else than dev mode only for a clone nobody claimed, and  *)
(* work of the user in a clone in dev mode shows.                           *)
LEMMA StatesSeen ==
  ASSUME InvClones, NEW n \in ModuleNames, HasGit(n)
  PROVE  /\ ModuleState(n) = "dev" => dir[n].head[2] = 0
         /\ ~IsDev(ModuleState(n)) => dir[n].mode = ""
         /\ dir[n].mode = "dev" /\ (dir[n].dirty \/ dir[n].head[2] > 0)
               => DetectState(n) \in {"dev-dirty", "dev-mod"}
         /\ dir[n].tag = NoCommit /\ dir[n].is # "checkout" => ~IsDev(ModuleState(n))
<1>1. PICK c \in Clones : c = dir[n] /\ CloneOK(n, c) /\ c.is # "none"
  BY DEF InvClones, HasGit
<1>2. /\ c.is \in {"none", "fetching", "checkout", "whole"} /\ c.mode \in {"", "dev"} /\ c.dirty \in BOOLEAN
      /\ c.head[2] \in Nat /\ c.tag[2] = 0
  BY <1>1, ClonesTyped DEF CloneOK
<1>3. CASE c.is = "fetching"
  <2>0. dir[n].is # "none" /\ dir[n].is = "fetching" /\ dir[n].is # "checkout" /\ c.mode = "" /\ ~c.dirty
    BY <1>1, <1>3 DEF CloneOK
  <2>1. DetectState(n) = "error"
    BY <2>0, <1>1 DEF DetectState, Ahead
  <2>2. ModuleState(n) = ""
    BY <1>1, <2>0, <2>1 DEF ModuleState, ReadState
  <2> QED
    BY <1>1, <2>0, <2>1, <2>2 DEF IsDev
<1>4. CASE c.is # "fetching" /\ (c.is = "checkout" \/ c.dirty)
  <2>0. dir[n].is # "none" /\ dir[n].is # "fetching" /\ (dir[n].is = "checkout" \/ dir[n].dirty)
    BY <1>1, <1>4
  <2>1. DetectState(n) = "dev-dirty"
    BY <2>0 DEF DetectState, Ahead
  <2>2. ModuleState(n) = "dev-dirty"
    BY <2>1 DEF ModuleState
  <2>3. c.dirty => c.tag # NoCommit
    BY <1>1 DEF CloneOK
  <2> QED
    BY <1>1, <1>4, <2>1, <2>2, <2>3 DEF IsDev
<1>5. CASE c.is # "fetching" /\ c.is # "checkout" /\ ~c.dirty /\ c.tag = NoCommit
  <2>0. /\ dir[n].is # "none" /\ dir[n].is # "fetching" /\ ~(dir[n].is = "checkout" \/ dir[n].dirty)
        /\ dir[n].tag = NoCommit
    BY <1>1, <1>5
  <2>1. DetectState(n) = "error"
    BY <2>0 DEF DetectState, Ahead
  <2>2. c.mode = ""
    BY <1>1, <1>2, <1>5 DEF CloneOK
  <2>3. ModuleState(n) = ""
    BY <1>1, <2>1, <2>2 DEF ModuleState, ReadState
  <2> QED
    BY <1>1, <2>2, <2>3 DEF IsDev
<1>6. CASE c.is # "fetching" /\ c.is # "checkout" /\ ~c.dirty /\ c.tag # NoCommit /\ c.head # c.tag
  <2>1. DetectState(n) = "dev-mod"
    BY <1>1, <1>6 DEF DetectState, Ahead
  <2>2. ModuleState(n) = "dev-mod"
    BY <2>1 DEF ModuleState
  <2> QED
    BY <1>1, <1>6, <2>1, <2>2 DEF IsDev
<1>7. CASE c.is # "fetching" /\ c.is # "checkout" /\ ~c.dirty /\ c.tag # NoCommit /\ c.head = c.tag
  <2>1. DetectState(n) = "dev"
    BY <1>1, <1>7 DEF DetectState, Ahead
  <2>2. ModuleState(n) = "dev"
    BY <2>1 DEF ModuleState
  <2>3. c.head[2] = 0
    BY <1>2, <1>7
  <2>4. ~(c.head[2] > 0)
    BY <2>3
  <2> QED
    BY <1>1, <1>7, <2>1, <2>2, <2>3, <2>4 DEF IsDev
<1> QED
  BY <1>1, <1>3, <1>4, <1>5, <1>6, <1>7

(* A pull keeps what it finds, and anchors a clone only where there are no  *)
(* commits of the user.                                                     *)
LEMMA PullSteps ==
  ASSUME InvTypes, InvClones, NEW n \in ModuleNames, HasGit(n), dir' = [dir EXCEPT ![n] = Pulled(n)]
  PROVE  CloneStep(n)
<1>1. PICK b \in Clones : b = dir[n] /\ CloneOK(n, b) /\ b.is # "none"
  BY DEF InvClones, HasGit
<1>2. PICK h \in Nat \X Nat : h = <<tip[b.id], b.head[2]>> /\ h[1] # 0 /\ h[2] = b.head[2] /\ b.head[2] \in Nat
  <2>1. b.id \in Ids /\ b.head[2] \in Nat
    BY ClonesTyped
  <2>2. tip[b.id] \in Nat \ {0}
    BY <2>1 DEF InvTypes
  <2>3. PICK v \in Nat \ {0}, k \in Nat : v = tip[b.id] /\ k = b.head[2]
    BY <2>1, <2>2
  <2>4. <<v, k>> \in Nat \X Nat /\ <<v, k>>[1] = v /\ <<v, k>>[2] = k
    OBVIOUS
  <2> QED
    BY <2>3, <2>4
<1>3. PICK t \in Nat \X Nat : t = Anchor(ModuleState(n), b, h) /\ t[2] = 0 /\ (b.mode = "dev" => t # NoCommit)
  <2>1. CASE ModuleState(n) = "dev"
    <3>1. h[2] = 0
      BY <1>1, <1>2, <2>1, StatesSeen
    <3>2. h # NoCommit
      BY <1>2 DEF NoCommit
    <3> QED
      BY <2>1, <3>1, <3>2 DEF Anchor
  <2>2. CASE ModuleState(n) # "dev"
    <3>1. b.tag \in Nat \X Nat
      BY ClonesTyped
    <3> QED
      BY <1>1, <2>2, <3>1 DEF Anchor, CloneOK
  <2> QED
    BY <2>1, <2>2
<1>4. PICK c : c = [b EXCEPT !.head = h, !.tag = t]
  OBVIOUS
<1>5. c \in Clones
  BY <1>4 DEF Clones
<1>6. /\ c.is = b.is /\ c.id = b.id /\ c.head = h /\ c.dirty = b.dirty /\ c.tag = t /\ c.mode = b.mode
  BY <1>4 DEF Clones
<1>7. c = Pulled(n)
  BY <1>1, <1>2, <1>3, <1>4 DEF Pulled
<1>8. CloneOK(n, c)
  BY <1>1, <1>2, <1>3, <1>6 DEF CloneOK
<1>9. KeepsWork(b, c)
  BY <1>2, <1>6 DEF KeepsWork
<1> QED
  BY <1>1, <1>5, <1>7, <1>8, <1>9 DEF CloneStep

(* A clone nobody claimed, put on the ref the project declares. *)
LEMMA ResetSteps ==
  ASSUME InvTypes, InvClones, NEW r \in Ids, NEW n \in ModuleNames, n = Refs[r].name, dir[n].mode = "",
         dir' = [dir EXCEPT ![n].is = "whole", ![n].id = r, ![n].head = <<tip[r], 0>>, ![n].branch = FALSE]
  PROVE  /\ CloneStep(n)
         /\ dir'[n].is = "whole" /\ dir'[n].id = r /\ dir'[n].head = <<tip[r], 0>>
         /\ \A m \in ModuleNames \ {n} : dir'[m] = dir[m]
<1>1. PICK b \in Clones : b = dir[n] /\ CloneOK(n, b) /\ dir \in [ModuleNames -> Clones]
  BY DEF InvClones
<1>2. PICK h \in Nat \X Nat : h = <<tip[r], 0>> /\ h[1] # 0 /\ h[2] = 0
  BY RefCommit
<1>3. b.head[2] = 0 /\ ~b.dirty
  BY <1>1, NoWork
<1>4. PICK c : c = [b EXCEPT !.is = "whole", !.id = r, !.head = h, !.branch = FALSE]
  OBVIOUS
<1>5. c \in Clones
  BY <1>4 DEF Clones
<1>6. /\ c.is = "whole" /\ c.id = r /\ c.head = h /\ c.dirty = b.dirty /\ c.tag = b.tag /\ c.mode = b.mode
  BY <1>4 DEF Clones
<1>7. dir' = [dir EXCEPT ![n] = c]
  BY <1>1, <1>2, <1>4
<1>8. CloneOK(n, c)
  BY <1>1, <1>2, <1>3, <1>6 DEF CloneOK
<1>9. KeepsWork(b, c)
  BY <1>3, <1>5, KeepsNothing
<1>10. dir'[n] = c /\ \A m \in ModuleNames \ {n} : dir'[m] = dir[m]
  BY <1>1, <1>7
<1> QED
  BY <1>1, <1>2, <1>5, <1>6, <1>7, <1>8, <1>9, <1>10 DEF CloneStep

(* `yoe module sync` of one module. *)
LEMMA SyncOneSteps ==
  ASSUME InvTypes, InvClones, SyncOne
  PROVE  LET n == Refs[Head(pending)].name IN
         n \in ModuleNames /\ (dir' = dir \/ CloneStep(n))
<1>1. PICK r \in Ids : r = Head(pending)
  <2>1. pending \in Seq(Ids) /\ pending # <<>>
    BY DEF InvTypes, SyncOne
  <2> QED
    BY <2>1
<1>2. PICK n \in ModuleNames : n = Refs[r].name
  BY DEF ModuleNames
<1>3. CASE Refs[r].local
  BY <1>1, <1>2, <1>3 DEF SyncOne
<1>4. CASE ~Refs[r].local /\ ~HasGit(n)
  BY <1>1, <1>2, <1>4, CloneModuleSteps DEF SyncOne
<1>5. CASE ~Refs[r].local /\ HasGit(n) /\ IsDev(ModuleState(n))
  <2>1. dir' = [dir EXCEPT ![n] = Pulled(n)] \/ dir' = dir
    BY <1>1, <1>2, <1>5 DEF SyncOne
  <2> QED
    BY <1>1, <1>2, <1>5, <2>1, PullSteps
<1>6. CASE ~Refs[r].local /\ HasGit(n) /\ ~IsDev(ModuleState(n))
  <2>1. \/ dir' = [dir EXCEPT ![n].is = "whole", ![n].id = r, ![n].head = <<tip[r], 0>>, ![n].branch = FALSE]
        \/ dir' = dir
    BY <1>1, <1>2, <1>6 DEF SyncOne
  <2>2. dir[n].mode = ""
    BY <1>6, StatesSeen
  <2> QED
    BY <1>1, <1>2, <2>1, <2>2, ResetSteps
<1> QED
  BY <1>1, <1>2, <1>3, <1>4, <1>5, <1>6

(* The clone-if-missing of a load. *)
LEMMA SyncIfNeededSteps ==
  ASSUME InvTypes, InvClones, SyncIfNeeded
  PROVE  LET n == Refs[Head(pending)].name IN
         n \in ModuleNames /\ (dir' = dir \/ (~HasGit(n) /\ CloneStep(n)))
<1>1. PICK r \in Ids : r = Head(pending)
  <2>1. pending \in Seq(Ids) /\ pending # <<>>
    BY DEF InvTypes, SyncIfNeeded
  <2> QED
    BY <2>1
<1>2. PICK n \in ModuleNames : n = Refs[r].name
  BY DEF ModuleNames
<1>3. CASE Refs[r].local \/ HasGit(n)
  BY <1>1, <1>2, <1>3 DEF SyncIfNeeded
<1>4. CASE ~(Refs[r].local \/ HasGit(n))
  BY <1>1, <1>2, <1>4, CloneModuleSteps DEF SyncIfNeeded
<1> QED
  BY <1>1, <1>2, <1>3, <1>4

(* Switching a module to dev mode anchors the commit it has. *)
LEMMA ToUpstreamSteps ==
  ASSUME InvTypes, InvClones, NEW n \in ModuleNames, ToUpstream(n)
  PROVE  dir' = dir \/ CloneStep(n)
<1>1. PICK b \in Clones : b = dir[n] /\ CloneOK(n, b)
  BY DEF InvClones
<1>2. CASE dir' = dir
  BY <1>2
<1>3. CASE /\ b.is # "fetching" /\ b.is # "none" /\ b.mode = ""
           /\ dir' = [dir EXCEPT ![n] = WriteState([@ EXCEPT !.tag = dir[n].head], "dev")]
  <2>1. /\ b.is \in {"checkout", "whole"} /\ b.head \in Nat \X Nat /\ b.head[2] \in Nat /\ b.head[1] \in Nat
        /\ b.mode # "dev"
    BY <1>1, <1>3, ClonesTyped
  <2>2. b.head[2] = 0 /\ b.head[1] # 0
    <3>1. b.head[1] # 0
      BY <1>1, <2>1 DEF CloneOK
    <3> QED
      BY <1>1, <2>1, <3>1, NoWork
  <2>3. b.head # NoCommit
    BY <2>2 DEF NoCommit
  <2>4. PICK x \in Clones : x = [b EXCEPT !.tag = b.head]
    BY <2>1 DEF Clones
  <2>5. PICK c \in Clones : c = [x EXCEPT !.mode = "dev"]
    BY DEF Clones
  <2>6. /\ c.is = b.is /\ c.id = b.id /\ c.head = b.head /\ c.dirty = b.dirty /\ c.tag = b.head /\ c.mode = "dev"
    BY <2>4, <2>5 DEF Clones
  <2>7. dir' = [dir EXCEPT ![n] = c]
    BY <1>1, <1>3, <2>4, <2>5 DEF WriteState, InvClones
  <2>8. CloneOK(n, c)
    BY <1>1, <2>1, <2>2, <2>3, <2>6 DEF CloneOK
  <2>9. KeepsWork(b, c)
    BY <2>1, <2>6 DEF KeepsWork
  <2> QED
    BY <1>1, <2>7, <2>8, <2>9 DEF CloneStep
<1> QED
  BY <1>1, <1>2, <1>3 DEF ToUpstream, HasGit, ReadState

(* Switching back drops work only when the user has confirmed it. *)
LEMMA ToPinSteps ==
  ASSUME InvTypes, InvClones, NEW n \in ModuleNames, NEW force \in BOOLEAN, ToPin(n, force)
  PROVE  dir' = dir \/ CloneStep(n)
<1>1. PICK b \in Clones : b = dir[n] /\ CloneOK(n, b) /\ b.is # "none" /\ b.mode = "dev"
  BY DEF InvClones, ToPin, HasGit, ReadState
<1>2. PICK r \in Ids : r = Declared(n) /\ Refs[r].name = n
  <2>1. \E r \in Range(loaded) : Refs[r].name = n
    BY DEF ToPin, Listed
  <2>2. Declared(n) \in Range(loaded) /\ Refs[Declared(n)].name = n
    BY <2>1 DEF Declared
  <2>3. Range(loaded) \subseteq Ids
    BY DEF InvTypes, Range
  <2> QED
    BY <2>2, <2>3
<1>3. PICK h \in Nat \X Nat : h = <<tip[r], 0>> /\ h[1] # 0 /\ h[2] = 0
  BY RefCommit
<1>4. CASE dir' = dir
  BY <1>4
<1>5. CASE dir' = [dir EXCEPT ![n] = WriteState([@ EXCEPT !.is = "whole", !.id = Declared(n),
                                        !.head = <<tip[Declared(n)], 0>>, !.dirty = FALSE,
                                        !.tag = <<tip[Declared(n)], 0>>], "")]
  <2>1. PICK x \in Clones : x = [b EXCEPT !.is = "whole", !.id = r, !.head = h, !.dirty = FALSE, !.tag = h]
    BY DEF Clones
  <2>2. PICK c \in Clones : c = [x EXCEPT !.mode = ""]
    BY DEF Clones
  <2>3. c.is = "whole" /\ c.id = r /\ c.head = h /\ c.dirty = FALSE /\ c.tag = h /\ c.mode = ""
    BY <2>1, <2>2 DEF Clones
  <2>4. dir' = [dir EXCEPT ![n] = c]
    BY <1>1, <1>2, <1>3, <1>5, <2>1, <2>2 DEF WriteState, InvClones
  <2>5. CloneOK(n, c)
    <3>1. ~(h[2] > 0)
      BY <1>3
    <3> QED
      BY <1>2, <1>3, <2>3, <3>1 DEF CloneOK
  <2>6. CASE force = TRUE
    BY <1>1, <2>4, <2>5, <2>6 DEF CloneStep, ToPin
  <2>7. CASE force = FALSE
    <3>1. DetectState(n) \notin {"dev-dirty", "dev-mod"}
      BY <2>7 DEF ToPin, RefusesWork
    <3>2. ~(b.dirty \/ b.head[2] > 0) /\ b.head[2] \in Nat
      BY <1>1, <3>1, StatesSeen, ClonesTyped DEF HasGit
    <3>3. b.head[2] = 0
      BY <3>2
    <3>4. KeepsWork(b, c)
      BY <3>2, <3>3, KeepsNothing
    <3> QED
      BY <1>1, <2>4, <2>5, <3>4 DEF CloneStep
  <2> QED
    BY <2>6, <2>7
<1> QED
  BY <1>1, <1>4, <1>5 DEF ToPin

(* The user works in a clone in dev mode. *)
LEMMA WorkSteps ==
  ASSUME InvTypes, InvClones, NEW n \in ModuleNames, Work(n)
  PROVE  CloneStep(n)
<1>1. PICK b \in Clones : b = dir[n] /\ CloneOK(n, b) /\ b.is = "whole" /\ b.mode = "dev"
  BY DEF InvClones, Work
<1>2. b.head \in Nat \X Nat /\ b.head[1] \in Nat /\ b.head[2] \in Nat /\ b.dirty \in BOOLEAN
  BY ClonesTyped
<1>3. CASE dir' = [dir EXCEPT ![n].dirty = TRUE]
  <2>1. PICK c \in Clones : c = [b EXCEPT !.dirty = TRUE]
    BY DEF Clones
  <2>2. c.is = b.is /\ c.id = b.id /\ c.head = b.head /\ c.dirty = TRUE /\ c.tag = b.tag /\ c.mode = b.mode
    BY <2>1 DEF Clones
  <2>3. dir' = [dir EXCEPT ![n] = c]
    BY <1>1, <1>3, <2>1 DEF InvClones
  <2>4. CloneOK(n, c) /\ KeepsWork(b, c)
    BY <1>1, <1>2, <2>2 DEF CloneOK, KeepsWork
  <2> QED
    BY <1>1, <2>3, <2>4 DEF CloneStep
<1>4. CASE dir' = [dir EXCEPT ![n].dirty = FALSE, ![n].head[2] = @ + 1]
  <2>1. PICK h \in Nat \X Nat : h = [b.head EXCEPT ![2] = @ + 1] /\ h[1] = b.head[1] /\ h[2] = b.head[2] + 1
    <3>1. PICK i \in Nat, k \in Nat : b.head = <<i, k>>
      BY <1>2
    <3>2. [<<i, k>> EXCEPT ![2] = @ + 1] = <<i, k + 1>> /\ k + 1 \in Nat
      OBVIOUS
    <3> QED
      BY <3>1, <3>2
  <2>2. PICK c \in Clones : c = [b EXCEPT !.dirty = FALSE, !.head = h]
    BY DEF Clones
  <2>3. c.is = b.is /\ c.id = b.id /\ c.head = h /\ c.dirty = FALSE /\ c.tag = b.tag /\ c.mode = b.mode
    BY <2>2 DEF Clones
  <2>4. dir' = [dir EXCEPT ![n] = c]
    BY <1>1, <1>4, <2>1, <2>2 DEF InvClones
  <2>5. h[2] >= b.head[2] /\ h[2] > b.head[2]
    BY <1>2, <2>1
  <2>6. CloneOK(n, c) /\ KeepsWork(b, c)
    BY <1>1, <1>2, <2>1, <2>3, <2>5 DEF CloneOK, KeepsWork
  <2> QED
    BY <1>1, <2>4, <2>6 DEF CloneStep
<1> QED
  BY <1>1, <1>3, <1>4 DEF Work

(* Every step leaves the clones alone or is a step on one of them. *)
LEMMA NextClones ==
  ASSUME InvTypes, InvClones, [SyncNext]_syncVars
  PROVE  dir' = dir \/ \E n \in ModuleNames : CloneStep(n)
<1>1. CASE StartSync \/ SyncDone \/ CommandEnds \/ StartLoad
  BY <1>1 DEF StartSync, SyncDone, CommandEnds, StartLoad
<1>2. CASE StartRound \/ ReadModule \/ Incorporate \/ RoundEnds
  BY <1>2 DEF StartRound, ReadModule, Incorporate, RoundEnds
<1>3. CASE DetectCycles
  BY <1>3 DEF DetectCycles, VisitRoot, Visit, Visited, LoadEnds
<1>4. CASE SyncOne
  BY <1>4, SyncOneSteps
<1>5. CASE SyncIfNeeded
  BY <1>5, SyncIfNeededSteps
<1>6. ASSUME NEW n \in ModuleNames, ToUpstream(n) PROVE dir' = dir \/ CloneStep(n)
  BY <1>6, ToUpstreamSteps
<1>7. ASSUME NEW n \in ModuleNames, PullDev(n) PROVE dir' = dir \/ CloneStep(n)
  BY <1>7, PullSteps DEF PullDev
<1>8. ASSUME NEW n \in ModuleNames, Work(n) PROVE dir' = dir \/ CloneStep(n)
  BY <1>8, WorkSteps
<1>9. ASSUME NEW r \in Ids, Push(r) PROVE dir' = dir
  BY <1>9 DEF Push
<1>10. ASSUME NEW n \in ModuleNames, NEW force \in BOOLEAN, ToPin(n, force) PROVE dir' = dir \/ CloneStep(n)
  BY <1>10, ToPinSteps
<1>11. CASE UNCHANGED syncVars
  BY <1>11 DEF syncVars
<1> QED
  BY <1>1, <1>2, <1>3, <1>4, <1>5, <1>6, <1>7, <1>8, <1>9, <1>10, <1>11 DEF SyncNext

LEMMA NextInvClones == InvTypes /\ InvClones /\ [SyncNext]_syncVars => InvClones'
<1> SUFFICES ASSUME InvTypes, InvClones, [SyncNext]_syncVars PROVE InvClones'
  OBVIOUS
<1>1. CASE dir' = dir
  BY <1>1 DEF InvClones
<1>2. ASSUME NEW n \in ModuleNames, CloneStep(n) PROVE InvClones'
  <2>1. PICK c \in Clones : dir' = [dir EXCEPT ![n] = c] /\ CloneOK(n, c)
    BY <1>2 DEF CloneStep
  <2> QED
    BY <2>1 DEF InvClones
<1> QED
  BY <1>1, <1>2, NextClones

(* Types *)

(* What a module's file declares. *)
LEMMA DepsTyped ==
  ASSUME InvClones, NEW r \in Ids
  PROVE  /\ OnDisk(r) \in Ids /\ Refs[OnDisk(r)].name = Refs[r].name
         /\ Deps(r) \in Seq(Ids) /\ Edges(r) \in SUBSET (Infos \X ModuleNames)
<1>1. OnDisk(r) \in Ids /\ Refs[OnDisk(r)].name = Refs[r].name
  <2>1. CASE Refs[r].local
    BY <2>1 DEF OnDisk
  <2>2. CASE ~Refs[r].local
    <3>1. PICK n \in ModuleNames : n = Refs[r].name
      BY DEF ModuleNames
    <3>2. dir[n] \in Clones /\ CloneOK(n, dir[n])
      BY DEF InvClones
    <3>3. dir[n].id \in Ids
      BY <3>2, ClonesTyped
    <3> QED
      BY <2>2, <3>1, <3>2, <3>3 DEF OnDisk, CloneOK
  <2> QED
    BY <2>1, <2>2
<1>2. Deps(r) \in Seq(Ids)
  <2>1. Refs[OnDisk(r)].deps \in Seq(Ids) /\ <<>> \in Seq(Ids)
    BY <1>1, ModuleAssumption
  <2> QED
    BY <2>1 DEF Deps
<1>3. ASSUME NEW e \in Edges(r) PROVE e \in Infos \X ModuleNames
  <2>1. PICK d \in Range(Deps(r)) : e = <<Refs[OnDisk(r)].info, Refs[d].name>>
    BY <1>3 DEF Edges
  <2>2. d \in Ids
    BY <1>2 DEF Range
  <2>3. Refs[OnDisk(r)].info \in Infos /\ Refs[d].name \in ModuleNames
    BY <1>1, <2>2 DEF Infos, ModuleNames
  <2> QED
    BY <2>1, <2>3
<1> QED
  BY <1>1, <1>2, <1>3

LEMMA ExpansionTyped ==
  ASSUME NEW x \in Expansions
  PROVE  /\ x.combined \in Seq(Ids) /\ x.seen \in SUBSET Ids /\ x.graph \in SUBSET (Infos \X ModuleNames)
         /\ x.round \in 0 .. MaxRounds /\ x.new \in Seq(Ids) /\ x.deps \in Seq(Ids)
         /\ DOMAIN x = {"combined", "seen", "graph", "round", "new", "deps"}
  BY DEF Expansions

LEMMA NothingTyped ==
  /\ NoExpansion \in Expansions /\ NoSearch \in Searches
<1>1. MaxRounds \in Nat
  BY ModuleAssumption
<1>2. 0 \in 0 .. MaxRounds
  BY ONLY <1>1
<1> QED
  BY <1>2 DEF NoExpansion, NoSearch, Expansions, Searches

(* The rest of a list of modules. *)
LEMMA TailTyped ==
  ASSUME NEW S, NEW s \in Seq(S), s # <<>>
  PROVE  /\ Head(s) \in S /\ Tail(s) \in Seq(S) /\ Range(s) = {Head(s)} \union Range(Tail(s))
         /\ Range(s) \subseteq S /\ Range(Tail(s)) \subseteq S
<1>1. Head(s) \in S /\ Tail(s) \in Seq(S) /\ Head(s) = s[1] /\ Len(s) \in Nat /\ Len(s) > 0 /\ Len(Tail(s)) = Len(s) - 1
  OBVIOUS
<1>2. \A i \in 1 .. Len(s) - 1 : Tail(s)[i] = s[i + 1]
  OBVIOUS
<1>3. ASSUME NEW v \in Range(s) PROVE v \in {Head(s)} \union Range(Tail(s))
  <2>1. PICK i \in 1 .. Len(s) : v = s[i]
    BY <1>3 DEF Range
  <2>2. CASE i = 1
    BY <1>1, <2>1, <2>2
  <2>3. CASE i # 1
    <3>1. i - 1 \in 1 .. Len(s) - 1 /\ (i - 1) + 1 = i
      BY <1>1, <2>3
    <3>2. Tail(s)[i - 1] = v /\ i - 1 \in DOMAIN Tail(s)
      BY <1>1, <1>2, <2>1, <3>1
    <3> QED
      BY <3>2 DEF Range
  <2> QED
    BY <2>2, <2>3
<1>4. ASSUME NEW v \in Range(Tail(s)) PROVE v \in Range(s)
  <2>1. PICK i \in 1 .. Len(s) - 1 : v = Tail(s)[i]
    BY <1>1, <1>4 DEF Range
  <2>2. i + 1 \in 1 .. Len(s) /\ v = s[i + 1]
    BY <1>1, <1>2, <2>1
  <2> QED
    BY <2>2 DEF Range
<1>5. Head(s) \in Range(s)
  BY <1>1 DEF Range
<1>6. Range(s) \subseteq S /\ Range(Tail(s)) \subseteq S
  BY <1>1 DEF Range
<1> QED
  BY <1>1, <1>3, <1>4, <1>5, <1>6

(* A list and another one behind it, and a module at its end. *)
LEMMA JoinTyped ==
  ASSUME NEW S, NEW s \in Seq(S), NEW t \in Seq(S)
  PROVE  /\ s \o t \in Seq(S) /\ Range(s \o t) = Range(s) \union Range(t)
<1>1. s \o t \in Seq(S) /\ Len(s \o t) = Len(s) + Len(t) /\ Len(s) \in Nat /\ Len(t) \in Nat
  OBVIOUS
<1>2. \A i \in 1 .. Len(s) + Len(t) : (s \o t)[i] = IF i <= Len(s) THEN s[i] ELSE t[i - Len(s)]
  OBVIOUS
<1>3. PICK u \in Seq(S) : u = s \o t
  BY <1>1
<1>4. ASSUME NEW v \in Range(u) PROVE v \in Range(s) \union Range(t)
  <2>1. PICK i \in 1 .. Len(s) + Len(t) : v = u[i]
    BY <1>1, <1>3, <1>4 DEF Range
  <2>2. CASE i <= Len(s)
    BY <1>1, <1>2, <1>3, <2>1, <2>2 DEF Range
  <2>3. CASE i > Len(s)
    <3>1. i - Len(s) \in 1 .. Len(t) /\ v = t[i - Len(s)]
      BY <1>1, <1>2, <1>3, <2>1, <2>3
    <3> QED
      BY <3>1 DEF Range
  <2> QED
    BY <1>1, <2>2, <2>3
<1>5. ASSUME NEW v \in Range(s) PROVE v \in Range(u)
  <2>1. PICK i \in 1 .. Len(s) : v = s[i]
    BY <1>5 DEF Range
  <2>2. i \in 1 .. Len(u) /\ u[i] = v
    BY <1>1, <1>2, <1>3, <2>1
  <2> QED
    BY <2>2 DEF Range
<1>6. ASSUME NEW v \in Range(t) PROVE v \in Range(u)
  <2>1. PICK i \in 1 .. Len(t) : v = t[i]
    BY <1>6 DEF Range
  <2>2. Len(s) + i \in 1 .. Len(u) /\ u[Len(s) + i] = v
    BY <1>1, <1>2, <1>3, <2>1
  <2> QED
    BY <2>2 DEF Range
<1> QED
  BY <1>1, <1>3, <1>4, <1>5, <1>6

LEMMA AppendTyped ==
  ASSUME NEW S, NEW s \in Seq(S), NEW d \in S
  PROVE  /\ Append(s, d) \in Seq(S) /\ Range(Append(s, d)) = Range(s) \union {d}
<1>1. PICK u \in Seq(S) : u = Append(s, d)
  BY AppendProperties
<1>2. Len(u) = Len(s) + 1 /\ Len(s) \in Nat /\ u[Len(s) + 1] = d /\ \A i \in 1 .. Len(s) : u[i] = s[i]
  BY <1>1
<1>3. ASSUME NEW v \in Range(u) PROVE v \in Range(s) \union {d}
  <2>1. PICK i \in 1 .. Len(s) + 1 : v = u[i]
    BY <1>2, <1>3 DEF Range
  <2>2. CASE i = Len(s) + 1
    BY <1>2, <2>1, <2>2
  <2>3. CASE i # Len(s) + 1
    <3>1. i \in 1 .. Len(s) /\ v = s[i]
      BY <1>2, <2>1, <2>3
    <3> QED
      BY <3>1 DEF Range
  <2> QED
    BY <2>2, <2>3
<1>4. ASSUME NEW v \in Range(s) PROVE v \in Range(u)
  <2>1. PICK i \in 1 .. Len(s) : v = s[i]
    BY <1>4 DEF Range
  <2>2. i \in 1 .. Len(u) /\ u[i] = v
    BY <1>2, <2>1
  <2> QED
    BY <2>2 DEF Range
<1>5. d \in Range(u)
  <2>1. Len(s) + 1 \in 1 .. Len(u)
    BY <1>2
  <2> QED
    BY <1>2, <2>1 DEF Range
<1> QED
  BY <1>1, <1>3, <1>4, <1>5

(* The fields of an expansion after the assignments of a step. *)
LEMMA ExpansionMade ==
  ASSUME NEW c \in Seq(Ids), NEW s \in SUBSET Ids, NEW g \in SUBSET (Infos \X ModuleNames),
         NEW r \in 0 .. MaxRounds, NEW n \in Seq(Ids), NEW d \in Seq(Ids)
  PROVE  [combined |-> c, seen |-> s, graph |-> g, round |-> r, new |-> n, deps |-> d] \in Expansions
  BY DEF Expansions

LEMMA StartLoadTyped ==
  ASSUME InvTypes, StartLoad
  PROVE  /\ expansion' \in Expansions
         /\ expansion'.combined = project /\ expansion'.seen = Range(project) /\ expansion'.graph = {}
         /\ expansion'.round = 1 /\ expansion'.new = <<>> /\ expansion'.deps = <<>>
<1>1. project \in Seq(Ids) /\ Range(project) \in SUBSET Ids
  BY ModuleAssumption DEF InvTypes, Range
<1>2. MaxRounds \in Nat \ {0}
  BY ModuleAssumption
<1>3. 1 \in 0 .. MaxRounds
  BY ONLY <1>2
<1>4. PICK x \in Expansions : x = NoExpansion
  BY NothingTyped
<1>5. expansion' = [x EXCEPT !.combined = project, !.seen = Range(project), !.round = 1]
  BY <1>4 DEF StartLoad
<1>6. x.graph = {} /\ x.new = <<>> /\ x.deps = <<>>
  BY <1>4 DEF NoExpansion
<1> QED
  BY <1>1, <1>3, <1>5, <1>6 DEF Expansions

LEMMA ReadModuleTyped ==
  ASSUME InvTypes, InvClones, ReadModule
  PROVE  LET r == Head(pending)
             x == expansion IN
         /\ r \in Ids /\ Tail(pending) \in Seq(Ids) /\ expansion' \in Expansions
         /\ expansion'.combined = x.combined /\ expansion'.seen = x.seen /\ expansion'.round = x.round
         /\ expansion'.new = x.new /\ expansion'.deps = Deps(r) /\ expansion'.graph = x.graph \union Edges(r)
<1>1. PICK r \in Ids : r = Head(pending) /\ Tail(pending) \in Seq(Ids)
  <2>1. pending \in Seq(Ids) /\ pending # <<>>
    BY DEF InvTypes, ReadModule
  <2> QED
    BY <2>1, TailTyped
<1>2. PICK x \in Expansions : x = expansion
  BY DEF InvTypes
<1>3. PICK d \in Seq(Ids) : d = Deps(r)
  BY DepsTyped
<1>4. PICK g \in SUBSET (Infos \X ModuleNames) : g = x.graph \union Edges(r)
  <2>1. x.graph \in SUBSET (Infos \X ModuleNames) /\ Edges(r) \in SUBSET (Infos \X ModuleNames)
    BY DepsTyped, ExpansionTyped
  <2> QED
    BY <2>1
<1>5. expansion' = [x EXCEPT !.deps = d, !.graph = g]
  BY <1>1, <1>2, <1>3, <1>4 DEF ReadModule
<1>6. /\ expansion' \in Expansions
      /\ expansion'.combined = x.combined /\ expansion'.seen = x.seen /\ expansion'.round = x.round
      /\ expansion'.new = x.new /\ expansion'.deps = d /\ expansion'.graph = g
  BY <1>5 DEF Expansions
<1> QED
  BY <1>1, <1>2, <1>3, <1>4, <1>6

(* The three outcomes of looking at a dependency. *)
Skips ==
    LET d == Head(expansion.deps) IN
    /\ d \in expansion.seen \/ Conflicts(expansion.seen, d) # {}
    /\ expansion' \in Expansions
    /\ expansion'.combined = expansion.combined /\ expansion'.seen = expansion.seen
    /\ expansion'.round = expansion.round /\ expansion'.graph = expansion.graph
    /\ expansion'.new = expansion.new /\ expansion'.deps = Tail(expansion.deps)
    /\ pc' = "read"

Adds ==
    LET d == Head(expansion.deps) IN
    /\ d \notin expansion.seen /\ Conflicts(expansion.seen, d) = {}
    /\ expansion' \in Expansions
    /\ expansion'.combined = expansion.combined /\ expansion'.seen = expansion.seen \union {d}
    /\ expansion'.round = expansion.round /\ expansion'.graph = expansion.graph
    /\ expansion'.new = Append(expansion.new, d) /\ expansion'.deps = Tail(expansion.deps)
    /\ pc' = "read"

LEMMA IncorporateTyped ==
  ASSUME InvTypes, Incorporate
  PROVE  /\ Head(expansion.deps) \in Ids /\ expansion.deps \in Seq(Ids) /\ expansion.deps # <<>>
         /\ Skips \/ Adds \/ (pc' = "conflict" /\ expansion' = expansion)
<1>1. PICK x \in Expansions : x = expansion
  BY DEF InvTypes
<1>2. /\ x.combined \in Seq(Ids) /\ x.seen \in SUBSET Ids /\ x.new \in Seq(Ids) /\ x.deps \in Seq(Ids)
      /\ x.deps # <<>> /\ pc = "read"
  BY <1>1, ExpansionTyped DEF Incorporate
<1>3. PICK d \in Ids, rest \in Seq(Ids) : d = Head(x.deps) /\ rest = Tail(x.deps)
  BY <1>2, TailTyped
<1>4. CASE /\ d \in x.seen \/ Conflicts(x.seen, d) \intersect Range(project) # {}
           /\ expansion' = [x EXCEPT !.deps = rest] /\ pc' = pc
  <2>1. d \in x.seen \/ Conflicts(x.seen, d) # {}
    BY <1>4
  <2>2. /\ expansion' \in Expansions
        /\ expansion'.combined = x.combined /\ expansion'.seen = x.seen
        /\ expansion'.round = x.round /\ expansion'.graph = x.graph
        /\ expansion'.new = x.new /\ expansion'.deps = rest
    BY <1>4 DEF Expansions
  <2>3. Skips
    BY <1>1, <1>2, <1>3, <1>4, <2>1, <2>2 DEF Skips
  <2> QED
    BY <1>1, <1>2, <1>3, <2>3
<1>5. CASE pc' = "conflict" /\ expansion' = expansion
  BY <1>1, <1>2, <1>3, <1>5
<1>6. CASE /\ d \notin x.seen /\ Conflicts(x.seen, d) = {} /\ pc' = pc
           /\ expansion' = [x EXCEPT !.deps = rest, !.seen = @ \union {d}, !.new = Append(@, d)]
  <2>1. PICK s \in SUBSET Ids, a \in Seq(Ids) : s = x.seen \union {d} /\ a = Append(x.new, d)
    BY <1>2, AppendTyped
  <2>2. expansion' = [x EXCEPT !.deps = rest, !.seen = s, !.new = a]
    BY <1>6, <2>1
  <2>3. /\ expansion' \in Expansions
        /\ expansion'.combined = x.combined /\ expansion'.seen = s
        /\ expansion'.round = x.round /\ expansion'.graph = x.graph
        /\ expansion'.new = a /\ expansion'.deps = rest
    BY <2>2 DEF Expansions
  <2>4. Adds
    BY <1>1, <1>2, <1>3, <1>6, <2>1, <2>3 DEF Adds
  <2> QED
    BY <1>1, <1>2, <1>3, <2>4
<1> QED
  BY <1>1, <1>3, <1>4, <1>5, <1>6 DEF Incorporate

LEMMA RoundEndsTyped ==
  ASSUME InvTypes, RoundEnds
  PROVE  /\ expansion' \in Expansions
         /\ expansion'.combined = expansion.combined \o expansion.new /\ expansion'.seen = expansion.seen
         /\ expansion'.graph = expansion.graph /\ expansion'.new = <<>> /\ expansion'.deps = <<>>
         /\ \/ /\ expansion.new # <<>> /\ expansion'.round = expansion.round + 1
               /\ pending' = expansion'.combined /\ pc' = "need"
            \/ /\ expansion.new = <<>> \/ expansion.round = MaxRounds
               /\ expansion'.round = expansion.round /\ pc' = "cycles" /\ pending' = <<>>
<1>1. PICK x \in Expansions : x = expansion
  BY DEF InvTypes
<1>2. PICK all \in Seq(Ids) : all = x.combined \o x.new
  <2>1. x.combined \in Seq(Ids) /\ x.new \in Seq(Ids)
    BY ExpansionTyped
  <2> QED
    BY <2>1, JoinTyped
<1>3. x.round \in 0 .. MaxRounds /\ MaxRounds \in Nat /\ x.deps = <<>>
  BY <1>1, ExpansionTyped, ModuleAssumption DEF RoundEnds
<1>0. PICK e \in Seq(Ids) : e = <<>>
  <2>1. <<>> \in Seq(Ids)
    OBVIOUS
  <2> QED
    BY <2>1
<1>4. CASE /\ x.new # <<>> /\ x.round < MaxRounds
           /\ expansion' = [x EXCEPT !.combined = all, !.new = <<>>, !.round = @ + 1]
           /\ pending' = all /\ pc' = "need"
  <2>1. PICK k \in 0 .. MaxRounds : k = x.round + 1
    BY ONLY <1>3, <1>4
  <2>2. expansion' = [x EXCEPT !.combined = all, !.new = e, !.round = k]
    BY <1>0, <1>4, <2>1
  <2>3. /\ expansion' \in Expansions /\ expansion'.combined = all /\ expansion'.seen = x.seen
        /\ expansion'.graph = x.graph /\ expansion'.new = e /\ expansion'.deps = x.deps /\ expansion'.round = k
    BY <2>2 DEF Expansions
  <2>4. /\ expansion.new # <<>> /\ expansion'.round = expansion.round + 1
        /\ pending' = expansion'.combined /\ pc' = "need"
    BY ONLY <1>1, <1>4, <2>1, <2>3
  <2>5. /\ expansion'.combined = expansion.combined \o expansion.new /\ expansion'.seen = expansion.seen
        /\ expansion'.graph = expansion.graph /\ expansion'.new = <<>> /\ expansion'.deps = <<>>
    BY ONLY <1>0, <1>1, <1>2, <1>3, <2>3
  <2> QED
    BY ONLY <2>3, <2>4, <2>5
<1>5. CASE /\ x.new = <<>> \/ x.round = MaxRounds
           /\ expansion' = [x EXCEPT !.combined = all, !.new = <<>>]
           /\ pc' = "cycles" /\ pending' = <<>>
  <2>0. expansion' = [x EXCEPT !.combined = all, !.new = e]
    BY <1>0, <1>5
  <2>1. /\ expansion' \in Expansions /\ expansion'.combined = all /\ expansion'.seen = x.seen
        /\ expansion'.graph = x.graph /\ expansion'.new = e /\ expansion'.deps = x.deps
        /\ expansion'.round = x.round
    BY <2>0 DEF Expansions
  <2>2. /\ expansion'.combined = expansion.combined \o expansion.new /\ expansion'.seen = expansion.seen
        /\ expansion'.graph = expansion.graph /\ expansion'.new = <<>> /\ expansion'.deps = <<>>
    BY ONLY <1>0, <1>1, <1>2, <1>3, <2>1
  <2>3. (expansion.new = <<>> \/ expansion.round = MaxRounds) /\ expansion'.round = expansion.round
    BY ONLY <1>1, <1>5, <2>1
  <2> QED
    BY ONLY <1>5, <2>1, <2>2, <2>3
<1> QED
  BY <1>1, <1>2, <1>4, <1>5 DEF RoundEnds

(* Where the search for cycles goes. *)
LEMMA RootsTyped ==
  ASSUME InvTypes
  PROVE  /\ Roots \in SUBSET Infos
         /\ \A n, d \in Infos : d \in DepsOf(n) <=> d \in Roots /\ <<n, d>> \in expansion.graph
         /\ \A n \in Infos : DepsOf(n) \in SUBSET Roots
         /\ \A e \in expansion.graph : e[1] \in Roots
         /\ search.stack \in Seq(Infos) /\ search.done \in SUBSET Infos
<1>1. expansion.graph \in SUBSET (Infos \X ModuleNames)
  BY ExpansionTyped DEF InvTypes
<1>2. ASSUME NEW v \in Roots PROVE v \in Infos
  <2>1. PICK e \in expansion.graph : v = e[1]
    BY <1>2 DEF Roots
  <2> QED
    BY <1>1, <2>1
<1>3. search.stack \in Seq(Infos) /\ search.done \in SUBSET Infos
  BY DEF InvTypes, Searches
<1> QED
  BY <1>2, <1>3 DEF Roots, DepsOf

LEMMA TopTyped ==
  ASSUME InvTypes, search.stack # <<>>
  PROVE  LET k == Len(search.stack)
             rest == SubSeq(search.stack, 1, k - 1) IN
         /\ k \in Nat \ {0} /\ OnTop = search.stack[k] /\ OnTop \in Infos
         /\ rest \in Seq(Infos) /\ Len(rest) = k - 1
         /\ \A i \in 1 .. k - 1 : rest[i] = search.stack[i]
<1>1. PICK s \in Seq(Infos) : s = search.stack
  BY RootsTyped
<1>2. Len(s) \in Nat \ {0} /\ \A i \in 1 .. Len(s) : s[i] \in Infos
  BY <1>1
<1>3. Len(s) - 1 \in Nat /\ Len(s) \in 1 .. Len(s) /\ 1 \in Int /\ Len(s) - 1 \in Int
  BY <1>2
<1>4. \A i \in 1 .. Len(s) - 1 : s[i] \in Infos
  BY <1>2
<1>5. /\ SubSeq(s, 1, Len(s) - 1) \in Seq(Infos)
      /\ Len(SubSeq(s, 1, Len(s) - 1)) = IF 1 <= Len(s) - 1 THEN (Len(s) - 1) - 1 + 1 ELSE 0
      /\ \A i \in 1 .. (Len(s) - 1) - 1 + 1 : SubSeq(s, 1, Len(s) - 1)[i] = s[1 + i - 1]
  BY <1>3, <1>4, SubSeqProperties
<1>6. Len(SubSeq(s, 1, Len(s) - 1)) = Len(s) - 1
  <2>1. PICK k \in Nat \ {0} : k = Len(s)
    BY <1>2
  <2>2. (IF 1 <= k - 1 THEN (k - 1) - 1 + 1 ELSE 0) = k - 1
    BY ONLY k \in Nat \ {0}
  <2> QED
    BY ONLY <1>5, <2>1, <2>2
<1>7. \A i \in 1 .. Len(s) - 1 : SubSeq(s, 1, Len(s) - 1)[i] = s[i]
  BY <1>3, <1>5
<1>8. OnTop = s[Len(s)] /\ s[Len(s)] \in Infos
  BY <1>1, <1>2, <1>3 DEF OnTop
<1>9. SubSeq(s, 1, Len(s) - 1) \in Seq(Infos)
  BY <1>5
<1> QED
  BY ONLY <1>1, <1>2, <1>6, <1>7, <1>8, <1>9

LEMMA SearchTyped ==
  ASSUME InvTypes, InvClones, DetectCycles
  PROVE  /\ search' \in Searches /\ pc = "cycles"
         /\ pc' \in {"cycles", "loaded", "cycle"}
         /\ loaded' = IF pc' = "loaded" THEN expansion.combined ELSE loaded
         /\ UNCHANGED <<project, forced, tip, dir, pending, expansion>>
<1> USE DEF Searches
<1>1. search \in Searches /\ search.stack \in Seq(Infos) /\ search.done \in SUBSET Infos /\ Roots \in SUBSET Infos
  BY RootsTyped DEF InvTypes
<1>2. ASSUME NEW r \in Starts, VisitRoot(r)
      PROVE  search' \in Searches /\ pc = "cycles" /\ pc' = "cycles" /\ loaded' = loaded
             /\ UNCHANGED <<project, forced, tip, dir, pending, expansion>>
  <2>1. r \in Infos
    BY <1>1 DEF Starts
  <2>2. <<r>> \in Seq(Infos)
    BY <2>1
  <2> QED
    BY <1>1, <1>2, <2>2 DEF VisitRoot
<1>3. ASSUME NEW d \in Roots, Visit(d)
      PROVE  search' \in Searches /\ pc = "cycles" /\ pc' \in {"cycles", "cycle"} /\ loaded' = loaded
             /\ UNCHANGED <<project, forced, tip, dir, pending, expansion>>
  <2>1. Append(search.stack, d) \in Seq(Infos)
    BY <1>1, AppendTyped
  <2> QED
    BY <1>1, <1>3, <2>1 DEF Visit
<1>4. CASE Visited
  <2>1. SubSeq(search.stack, 1, Len(search.stack) - 1) \in Seq(Infos) /\ OnTop \in Infos
    BY <1>4, TopTyped DEF Visited
  <2> QED
    BY <1>1, <1>4, <2>1 DEF Visited
<1>5. CASE LoadEnds
  BY <1>1, <1>5 DEF LoadEnds
<1> QED
  BY <1>2, <1>3, <1>4, <1>5 DEF DetectCycles

(* Types are preserved. *)
LEMMA NextTypes == InvTypes /\ InvClones /\ [SyncNext]_syncVars => InvTypes'
<1> SUFFICES ASSUME InvTypes, InvClones, [SyncNext]_syncVars PROVE InvTypes'
  OBVIOUS
<1>1. <<>> \in Seq(Ids) /\ NoExpansion \in Expansions /\ NoSearch \in Searches /\ project \in Seq(Ids)
  BY NothingTyped, ModuleAssumption DEF InvTypes
<1>2. CASE StartSync \/ SyncDone \/ CommandEnds
  BY <1>1, <1>2 DEF InvTypes, StartSync, SyncDone, CommandEnds
<1>3. CASE StartLoad
  BY <1>1, <1>3, StartLoadTyped DEF InvTypes, StartLoad
<1>4. CASE StartRound
  <2>1. ToRead \in Seq(Ids)
    BY ExpansionTyped DEF InvTypes, ToRead
  <2> QED
    BY <1>4, <2>1 DEF InvTypes, StartRound
<1>5. CASE ReadModule
  BY <1>5, ReadModuleTyped DEF InvTypes, ReadModule
<1>6. CASE Incorporate
  <2>1. expansion' \in Expansions /\ pc' \in {"read", "conflict"}
    BY <1>6, IncorporateTyped DEF InvTypes, Skips, Adds
  <2> QED
    BY <1>6, <2>1 DEF InvTypes, Incorporate
<1>7. CASE RoundEnds
  <2>1. expansion' \in Expansions /\ pending' \in {expansion'.combined, <<>>} /\ pc' \in {"need", "cycles"}
    BY <1>7, RoundEndsTyped
  <2>2. pending' \in Seq(Ids)
    BY <1>1, <2>1, ExpansionTyped
  <2> QED
    BY <1>7, <2>1, <2>2 DEF InvTypes, RoundEnds
<1>8. CASE DetectCycles
  <2>1. expansion.combined \in Seq(Ids)
    BY ExpansionTyped DEF InvTypes
  <2>2. loaded' \in Seq(Ids)
    BY <1>8, <2>1, SearchTyped DEF InvTypes
  <2> QED
    BY <1>8, <2>2, SearchTyped DEF InvTypes
<1>9. CASE SyncOne
  <2>1. pending \in Seq(Ids) /\ pending # <<>> /\ Tail(pending) \in Seq(Ids)
    BY <1>9, TailTyped DEF InvTypes, SyncOne
  <2>2. pending' \in {Tail(pending), <<>>} /\ pc' \in {"sync", "idle"} /\ expansion' \in {expansion, NoExpansion}
    BY <1>9 DEF SyncOne, CloneModule, Handled
  <2>3. pending' \in Seq(Ids) /\ expansion' \in Expansions
    BY <1>1, <2>1, <2>2 DEF InvTypes
  <2> QED
    BY <1>9, <2>2, <2>3 DEF InvTypes, SyncOne
<1>10. CASE SyncIfNeeded
  <2>1. pending \in Seq(Ids) /\ pending # <<>> /\ Tail(pending) \in Seq(Ids)
    BY <1>10, TailTyped DEF InvTypes, SyncIfNeeded
  <2>2. pending' \in {Tail(pending), <<>>} /\ pc' \in {"need", "idle"} /\ expansion' \in {expansion, NoExpansion}
    BY <1>10 DEF SyncIfNeeded, CloneModule, Present
  <2>3. pending' \in Seq(Ids) /\ expansion' \in Expansions
    BY <1>1, <2>1, <2>2 DEF InvTypes
  <2> QED
    BY <1>10, <2>2, <2>3 DEF InvTypes, SyncIfNeeded
<1>11. ASSUME NEW n \in ModuleNames, ToUpstream(n) \/ PullDev(n) \/ Work(n) PROVE InvTypes'
  BY <1>11 DEF InvTypes, ToUpstream, PullDev, Work
<1>12. ASSUME NEW r \in Ids, Push(r) PROVE InvTypes'
  <2>1. tip' \in [Ids -> Nat \ {0}]
    BY <1>12 DEF InvTypes, Push
  <2> QED
    BY <1>12, <2>1 DEF InvTypes, Push
<1>13. ASSUME NEW n \in ModuleNames, NEW force \in BOOLEAN, ToPin(n, force) PROVE InvTypes'
  BY <1>13 DEF InvTypes, ToPin
<1>14. CASE UNCHANGED syncVars
  BY <1>14 DEF InvTypes, syncVars
<1> QED
  BY <1>2, <1>3, <1>4, <1>5, <1>6, <1>7, <1>8, <1>9, <1>10, <1>11, <1>12, <1>13, <1>14 DEF SyncNext

LEMMA InitClones == SyncInit => InvTypes /\ InvClones
<1> SUFFICES ASSUME SyncInit PROVE InvTypes /\ InvClones
  OBVIOUS
<1>1. InvTypes
  <2>1. <<>> \in Seq(Ids)
    OBVIOUS
  <2>2. tip \in [Ids -> Nat \ {0}]
    BY DEF SyncInit
  <2>3. /\ forced \in BOOLEAN /\ project \in ModuleLists /\ pc = "idle" /\ pending = <<>> /\ loaded = <<>>
        /\ expansion = NoExpansion /\ search = NoSearch
    BY DEF SyncInit
  <2> QED
    BY <2>1, <2>2, <2>3, NothingTyped DEF InvTypes
<1>2. PICK f : f = [n \in ModuleNames |-> CHOOSE r \in Ids : Refs[r].name = n]
  OBVIOUS
<1>3. ASSUME NEW n \in ModuleNames
      PROVE  dir[n] \in Clones /\ CloneOK(n, dir[n])
  <2>1. f[n] \in Ids /\ Refs[f[n]].name = n
    BY <1>2 DEF ModuleNames
  <2>2. dir[n] = NoClone(f[n])
    BY <1>2 DEF SyncInit
  <2> QED
    BY <1>1, <2>1, <2>2, FreshClone
<1>4. InvClones
  <2>1. dir = [n \in ModuleNames |-> dir[n]]
    BY DEF SyncInit
  <2> QED
    BY <1>3, <2>1 DEF InvClones
<1> QED
  BY <1>1, <1>4

(* No command of yoe loses work of the user in a module clone, save a       *)
(* switch back to pin they confirmed, whatever modules there are and        *)
(* whatever is killed, pushed or fails: the reset of Sync and ModuleToPin   *)
(* only touch clones in which git or the state file shows no work, which    *)
(* takes that every piece of work shows.                                    *)
THEOREM UserWorkKeptHolds == SyncSpec => UserWorkKept
<1> DEFINE Kept(n) == \/ ToPin(n, TRUE) /\ forced'
                      \/ /\ dir'[n].head[2] >= dir[n].head[2]
                         /\ dir[n].dirty => dir'[n].dirty \/ dir'[n].head[2] > dir[n].head[2]
           Step == \A n \in ModuleNames : Kept(n)
<1>1. SyncInit => InvTypes /\ InvClones
  BY InitClones
<1>2. InvTypes /\ InvClones /\ [SyncNext]_syncVars => InvTypes' /\ InvClones'
  BY NextTypes, NextInvClones
<1>3. InvTypes /\ InvClones /\ [SyncNext]_syncVars => [Step]_syncVars
  <2> SUFFICES ASSUME InvTypes, InvClones, [SyncNext]_syncVars, NEW n \in ModuleNames PROVE Kept(n)
    OBVIOUS
  <2>1. dir[n] \in Clones /\ dir[n].head[2] \in Nat /\ dir \in [ModuleNames -> Clones]
    BY ClonesTyped DEF InvClones
  <2>2. CASE dir'[n] = dir[n]
    <3>1. dir'[n].head[2] >= dir[n].head[2] /\ (dir[n].dirty => dir'[n].dirty)
      BY <2>1, <2>2
    <3> QED
      BY <3>1
  <2>3. ASSUME NEW m \in ModuleNames, CloneStep(m) PROVE Kept(n)
    <3>1. PICK c \in Clones : /\ dir' = [dir EXCEPT ![m] = c]
                              /\ KeepsWork(dir[m], c) \/ (ToPin(m, TRUE) /\ forced')
      BY <2>3 DEF CloneStep
    <3>2. CASE m # n
      BY <2>1, <2>2, <3>1, <3>2
    <3>3. CASE m = n
      <4>1. dir'[n] = c
        BY <2>1, <3>1, <3>3
      <4> QED
        BY <3>1, <3>3, <4>1 DEF KeepsWork
    <3> QED
      BY <3>2, <3>3
  <2> QED
    BY <2>2, <2>3, NextClones
<1> QED
  BY <1>1, <1>2, <1>3, PTL DEF SyncSpec, UserWorkKept

(* Repairs *)

(* What a sync promises of a module of the project. *)
RepairedOne(r) ==
    LET c == dir[Refs[r].name] IN
    ~Refs[r].local /\ c.tag = NoCommit /\ c.is # "checkout" => OnRef(r)

(* A sync under way has kept its promise for every module it has handled.   *)
InvRepaired ==
    pc = "sync" => /\ Range(pending) \subseteq Range(project)
                   /\ \A r \in Range(project) : r \in Range(pending) \/ RepairedOne(r)

(* Two modules of a project never share a name. *)
LEMMA NamesApart ==
  ASSUME InvTypes, NEW r \in Range(project), NEW s \in Range(project), r # s
  PROVE  r \in Ids /\ s \in Ids /\ Refs[r].name # Refs[s].name
<1>1. /\ project \in Seq(Ids)
      /\ \A i, j \in DOMAIN project : i # j => Refs[project[i]].name # Refs[project[j]].name
  BY ModuleAssumption DEF InvTypes
<1>2. PICK i \in DOMAIN project, j \in DOMAIN project : r = project[i] /\ s = project[j]
  BY DEF Range
<1> QED
  BY <1>1, <1>2

(* What the handling of one module leaves, if the sync goes on. *)
LEMMA HandledRepairs ==
  ASSUME InvTypes, InvClones, SyncOne, pc' = "sync", NEW r \in Ids, r = Head(pending)
  PROVE  /\ pending' = Tail(pending) /\ RepairedOne(r)'
         /\ \A m \in ModuleNames : m # Refs[r].name => dir'[m] = dir[m]
<1>1. r = Head(pending)
  OBVIOUS
<1>2. PICK n \in ModuleNames : n = Refs[r].name
  BY DEF ModuleNames
<1>3. PICK b \in Clones : b = dir[n] /\ CloneOK(n, b) /\ dir \in [ModuleNames -> Clones]
  BY DEF InvClones
<1>4. pending' = Tail(pending) /\ UNCHANGED tip
  BY DEF SyncOne, CloneModule, Handled
<1>5. CASE Refs[r].local
  BY <1>1, <1>2, <1>4, <1>5 DEF SyncOne, RepairedOne
<1>6. CASE ~Refs[r].local /\ ~HasGit(n)
  <2>1. dir' = [dir EXCEPT ![n] = Cloned(n, r)]
    BY <1>1, <1>2, <1>6 DEF SyncOne, CloneModule
  <2>2. PICK c : c = Cloned(n, r)
    OBVIOUS
  <2>3. c.is = "whole" /\ c.id = r /\ c.head = <<tip[r], 0>>
    BY <2>2 DEF Cloned, NoClone
  <2>4. dir'[n] = c /\ \A m \in ModuleNames \ {n} : dir'[m] = dir[m]
    BY <1>3, <2>1, <2>2
  <2>5. OnRef(r)'
    BY <1>2, <1>4, <2>3, <2>4 DEF OnRef
  <2> QED
    BY <1>1, <1>2, <1>4, <2>4, <2>5 DEF RepairedOne
<1>7. CASE ~Refs[r].local /\ HasGit(n) /\ IsDev(ModuleState(n))
  <2>1. ~(b.tag = NoCommit /\ b.is # "checkout")
    BY <1>3, <1>7, StatesSeen
  <2>2. CASE dir' = dir
    BY <1>1, <1>2, <1>3, <1>4, <2>1, <2>2 DEF RepairedOne
  <2>3. CASE dir' = [dir EXCEPT ![n] = Pulled(n)]
    <3>1. PICK v \in Nat \ {0}, k \in Nat : v = tip[b.id] /\ k = b.head[2]
      <4>1. b.id \in Ids /\ b.head[2] \in Nat
        BY ClonesTyped
      <4> QED
        BY <4>1 DEF InvTypes
    <3>2. <<v, k>> # NoCommit
      BY DEF NoCommit
    <3>3. PICK t : t = Anchor(ModuleState(n), b, <<v, k>>) /\ t \in {<<v, k>>, b.tag}
      BY DEF Anchor
    <3>4. PICK c : c = [b EXCEPT !.head = <<v, k>>, !.tag = t]
      OBVIOUS
    <3>5. c.tag = t /\ c.is = b.is
      BY <3>4 DEF Clones
    <3>6. c = Pulled(n)
      BY <1>3, <3>1, <3>3, <3>4 DEF Pulled
    <3>7. dir'[n] = c /\ \A m \in ModuleNames \ {n} : dir'[m] = dir[m]
      BY <1>3, <2>3, <3>6
    <3> QED
      BY <1>1, <1>2, <1>4, <2>1, <3>2, <3>3, <3>5, <3>7 DEF RepairedOne
  <2> QED
    BY <1>1, <1>2, <1>7, <2>2, <2>3 DEF SyncOne
<1>8. CASE ~Refs[r].local /\ HasGit(n) /\ ~IsDev(ModuleState(n))
  <2>1. dir' = [dir EXCEPT ![n].is = "whole", ![n].id = r, ![n].head = <<tip[r], 0>>, ![n].branch = FALSE]
    <3>1. \/ dir' = [dir EXCEPT ![n].is = "whole", ![n].id = r, ![n].head = <<tip[r], 0>>, ![n].branch = FALSE]
          \/ pc' = "idle"
      BY <1>1, <1>2, <1>8 DEF SyncOne
    <3> QED
      BY <3>1
  <2>2. PICK c : c = [b EXCEPT !.is = "whole", !.id = r, !.head = <<tip[r], 0>>, !.branch = FALSE]
    OBVIOUS
  <2>3. /\ dir'[n].is = "whole" /\ dir'[n].id = r /\ dir'[n].head = <<tip[r], 0>>
        /\ \A m \in ModuleNames \ {n} : dir'[m] = dir[m]
    <3>1. c.is = "whole" /\ c.id = r /\ c.head = <<tip[r], 0>>
      BY <2>2 DEF Clones
    <3>2. dir' = [dir EXCEPT ![n] = c]
      BY <1>3, <2>1, <2>2
    <3> QED
      BY <1>3, <3>1, <3>2
  <2>4. OnRef(r)'
    BY <1>2, <1>4, <2>3 DEF OnRef
  <2> QED
    BY <1>1, <1>2, <1>4, <2>3, <2>4 DEF RepairedOne
<1> QED
  BY <1>5, <1>6, <1>7, <1>8

LEMMA NextRepaired == InvTypes /\ InvClones /\ InvRepaired /\ [SyncNext]_syncVars => InvRepaired'
<1> SUFFICES ASSUME InvTypes, InvClones, InvRepaired, [SyncNext]_syncVars, pc' = "sync"
             PROVE  InvRepaired'
  BY DEF InvRepaired
<1>1. CASE StartSync
  BY <1>1 DEF StartSync, InvRepaired
<1>2. CASE SyncOne
  <2>1. PICK r : r = Head(pending)
    OBVIOUS
  <2>2. pending \in Seq(Ids) /\ pending # <<>> /\ pc = "sync"
    BY <1>2 DEF InvTypes, SyncOne
  <2>3. r \in Ids /\ Range(pending) = {r} \union Range(Tail(pending))
    BY <2>1, <2>2, TailTyped
  <2>4. pending' = Tail(pending) /\ project' = project /\ tip' = tip
    BY <1>2, <2>1, <2>3, HandledRepairs DEF SyncOne
  <2>5. r \in Range(project) /\ Range(pending)' \subseteq Range(project)'
    BY <2>2, <2>3, <2>4 DEF InvRepaired
  <2>6. ASSUME NEW s \in Range(project) PROVE s \in Range(pending)' \/ RepairedOne(s)'
    <3>1. CASE s = r
      BY <1>2, <2>1, <2>3, <3>1, HandledRepairs
    <3>2. CASE s # r /\ s \in Range(pending)
      BY <2>3, <2>4, <3>2
    <3>3. CASE s # r /\ RepairedOne(s)
      <4>1. Refs[s].name # Refs[r].name /\ Refs[s].name \in ModuleNames
        BY <2>5, <3>3, NamesApart DEF ModuleNames
      <4>2. dir'[Refs[s].name] = dir[Refs[s].name]
        BY <1>2, <2>1, <2>3, <4>1, HandledRepairs
      <4> QED
        BY <2>4, <3>3, <4>2 DEF RepairedOne, OnRef
    <3> QED
      BY <2>2, <3>1, <3>2, <3>3 DEF InvRepaired
  <2> QED
    BY <2>4, <2>5, <2>6 DEF InvRepaired
<1>3. CASE SyncDone \/ CommandEnds \/ StartLoad \/ StartRound \/ RoundEnds
  BY <1>3 DEF SyncDone, CommandEnds, StartLoad, StartRound, RoundEnds
<1>4. CASE ReadModule \/ Incorporate
  BY <1>4 DEF ReadModule, Incorporate
<1>5. CASE SyncIfNeeded
  BY <1>5 DEF SyncIfNeeded, CloneModule, Present
<1>6. CASE DetectCycles
  BY <1>6, SearchTyped
<1>7. ASSUME NEW n \in ModuleNames, ToUpstream(n) \/ PullDev(n) \/ Work(n) PROVE FALSE
  BY <1>7 DEF ToUpstream, PullDev, Work
<1>8. ASSUME NEW r \in Ids, Push(r) PROVE FALSE
  BY <1>8 DEF Push
<1>9. ASSUME NEW n \in ModuleNames, NEW force \in BOOLEAN, ToPin(n, force) PROVE FALSE
  BY <1>9 DEF ToPin
<1>10. CASE UNCHANGED syncVars
  BY <1>10 DEF InvRepaired, RepairedOne, OnRef, syncVars
<1> QED
  BY <1>1, <1>2, <1>3, <1>4, <1>5, <1>6, <1>7, <1>8, <1>9, <1>10 DEF SyncNext

(* When `yoe module sync` ends without an error, every module of the        *)
(* project that was never in dev mode, and whose checkout was not cut       *)
(* short, is whole and on the declared ref, whatever an earlier command     *)
(* that failed or was killed while cloning left in its place.               *)
THEOREM SyncRepairsHolds == SyncSpec => SyncRepairs
<1> DEFINE Step == SyncDone => \A r \in Range(project) : RepairedOne(r)
<1>1. SyncInit => InvTypes /\ InvClones /\ InvRepaired
  BY InitClones DEF SyncInit, InvRepaired
<1>2. InvTypes /\ InvClones /\ InvRepaired /\ [SyncNext]_syncVars => (InvTypes /\ InvClones /\ InvRepaired)'
  BY NextTypes, NextInvClones, NextRepaired
<1>3. InvTypes /\ InvRepaired => [Step]_syncVars
  <2> SUFFICES ASSUME InvTypes, InvRepaired, SyncDone, NEW r \in Range(project) PROVE RepairedOne(r)
    OBVIOUS
  <2>1. Range(pending) = {}
    BY DEF SyncDone, Range
  <2> QED
    BY <2>1 DEF InvRepaired, SyncDone
<1>4. [Step]_syncVars <=> [SyncDone => \A r \in Range(project) :
            LET c == dir[Refs[r].name] IN
            ~Refs[r].local /\ c.tag = NoCommit /\ c.is # "checkout"
                => OnRef(r)]_syncVars
  BY DEF RepairedOne
<1> QED
  BY <1>1, <1>2, <1>3, <1>4, PTL DEF SyncSpec, SyncRepairs

(* The walk *)

Apart(s) == \A i, j \in DOMAIN s : i # j => s[i] # s[j]
Covered(d) == \E s \in expansion.seen : Refs[s].name = Refs[d].name

(* The list: what it has is seen, once, and one of a name; every round but  *)
(* the first added to it.                                                   *)
WalkList ==
    LET x == expansion IN
    /\ Range(x.combined) \union Range(x.new) = x.seen
    /\ \A r, s \in x.seen : r # s => Refs[r].name # Refs[s].name
    /\ Apart(x.combined) /\ Apart(x.new) /\ Range(x.combined) \intersect Range(x.new) = {}
    /\ pc \notin {"read", "conflict"} => x.new = <<>> /\ x.deps = <<>>
    /\ pc = "loaded" => loaded = x.combined
    /\ pc \in {"idle", "sync", "synced"} => x = NoExpansion

(* Every round but the first has added to the list. *)
WalkRound == IsFiniteSet(Ids) => Cardinality(Range(expansion.combined)) + 1 >= expansion.round

(* The graph has the edges some module of the list declares; those of a     *)
(* module read in this round; and its dependencies are in the list, or      *)
(* about to be looked at.                                                   *)
WalkGraph ==
    LET x == expansion IN
    /\ \A e \in x.graph : \E r \in x.seen : e \in Edges(r)
    /\ pc = "read" =>
         /\ Range(pending) \subseteq Range(x.combined)
         /\ \A r \in Range(x.combined) :
              \/ r \in Range(pending)
              \/ /\ Edges(r) \subseteq x.graph
                 /\ \A d \in Range(Deps(r)) : d \in Range(x.deps) \/ Covered(d)
    /\ pc \in {"cycles", "cycle", "loaded"} /\ IsFiniteSet(Ids) /\ Cardinality(Ids) < MaxRounds =>
         \A r \in x.seen : Edges(r) \subseteq x.graph /\ \A d \in Range(Deps(r)) : Covered(d)

(* The search *)

(* Modules that each depend on one of them; and modules of which no set     *)
(* does.                                                                    *)
Supported(S) == \A m \in S : \E n \in S : <<m, n>> \in expansion.graph
Grounded(D) == \A S \in SUBSET D : S # {} => ~Supported(S)

InvSearch ==
    /\ Range(search.stack) \subseteq Roots
    /\ \A i \in 1 .. Len(search.stack) : i + 1 \in 1 .. Len(search.stack)
            => <<search.stack[i], search.stack[i + 1]>> \in expansion.graph
    /\ search.done \subseteq Roots /\ \A m \in search.done : DepsOf(m) \subseteq search.done
    /\ Grounded(search.done)
    /\ pc = "loaded" => Roots \subseteq search.done
    /\ pc = "cycle" => \E S \in SUBSET Roots : S # {} /\ Supported(S)
    /\ pc \notin {"cycles", "cycle", "loaded"} => search = NoSearch

(* Lists without repetitions. *)
LEMMA ApartAppend ==
  ASSUME NEW S, NEW s \in Seq(S), NEW d \in S, Apart(s), d \notin Range(s)
  PROVE  Apart(Append(s, d))
<1>1. PICK u \in Seq(S) : u = Append(s, d)
  BY AppendProperties
<1>2. Len(u) = Len(s) + 1 /\ Len(s) \in Nat /\ u[Len(s) + 1] = d /\ \A i \in 1 .. Len(s) : u[i] = s[i]
  BY <1>1
<1>3. \A i \in 1 .. Len(s) : s[i] # d
  BY DEF Range
<1>4. \A i, j \in 1 .. Len(s) : i # j => s[i] # s[j]
  BY DEF Apart
<1>5. ASSUME NEW i \in 1 .. Len(s) + 1, NEW j \in 1 .. Len(s) + 1, i # j PROVE u[i] # u[j]
  <2>1. CASE i = Len(s) + 1
    <3>1. j \in 1 .. Len(s)
      BY <1>2, <1>5, <2>1
    <3> QED
      BY <1>2, <1>3, <2>1, <3>1
  <2>2. CASE j = Len(s) + 1
    <3>1. i \in 1 .. Len(s)
      BY <1>2, <1>5, <2>2
    <3> QED
      BY <1>2, <1>3, <2>2, <3>1
  <2>3. CASE i # Len(s) + 1 /\ j # Len(s) + 1
    <3>1. i \in 1 .. Len(s) /\ j \in 1 .. Len(s)
      BY <1>2, <2>3
    <3> QED
      BY <1>2, <1>4, <1>5, <3>1
  <2> QED
    BY <2>1, <2>2, <2>3
<1>6. DOMAIN u = 1 .. Len(s) + 1
  BY <1>2
<1> QED
  BY <1>1, <1>5, <1>6 DEF Apart

LEMMA ApartJoin ==
  ASSUME NEW S, NEW s \in Seq(S), NEW t \in Seq(S), Apart(s), Apart(t), Range(s) \intersect Range(t) = {}
  PROVE  Apart(s \o t)
<1>1. s \o t \in Seq(S) /\ Len(s \o t) = Len(s) + Len(t) /\ Len(s) \in Nat /\ Len(t) \in Nat
  OBVIOUS
<1>2. \A i \in 1 .. Len(s) + Len(t) : (s \o t)[i] = IF i <= Len(s) THEN s[i] ELSE t[i - Len(s)]
  OBVIOUS
<1>3. PICK u \in Seq(S) : u = s \o t
  BY <1>1
<1>4. /\ \A i, j \in 1 .. Len(s) : i # j => s[i] # s[j]
      /\ \A i, j \in 1 .. Len(t) : i # j => t[i] # t[j]
  BY DEF Apart
<1>5. \A i \in 1 .. Len(s), j \in 1 .. Len(t) : s[i] # t[j]
  BY DEF Range
<1>6. ASSUME NEW i \in 1 .. Len(u), NEW j \in 1 .. Len(u), i # j PROVE u[i] # u[j]
  <2>0. ASSUME NEW k \in 1 .. Len(u)
        PROVE  \/ k \in 1 .. Len(s) /\ u[k] = s[k]
               \/ k - Len(s) \in 1 .. Len(t) /\ u[k] = t[k - Len(s)]
    <3>1. CASE k <= Len(s)
      BY <1>1, <1>2, <1>3, <3>1
    <3>2. CASE k > Len(s)
      BY <1>1, <1>2, <1>3, <3>2
    <3> QED
      BY <1>1, <3>1, <3>2
  <2>1. CASE i \in 1 .. Len(s) /\ u[i] = s[i] /\ j \in 1 .. Len(s) /\ u[j] = s[j]
    BY <1>4, <1>6, <2>1
  <2>2. CASE i \in 1 .. Len(s) /\ u[i] = s[i] /\ j - Len(s) \in 1 .. Len(t) /\ u[j] = t[j - Len(s)]
    BY <1>5, <2>2
  <2>3. CASE i - Len(s) \in 1 .. Len(t) /\ u[i] = t[i - Len(s)] /\ j \in 1 .. Len(s) /\ u[j] = s[j]
    BY <1>5, <2>3
  <2>4. CASE i - Len(s) \in 1 .. Len(t) /\ u[i] = t[i - Len(s)] /\ j - Len(s) \in 1 .. Len(t) /\ u[j] = t[j - Len(s)]
    <3>1. i - Len(s) # j - Len(s)
      BY <1>1, <1>3, <1>6
    <3> QED
      BY <1>4, <2>4, <3>1
  <2> QED
    BY <2>0, <2>1, <2>2, <2>3, <2>4
<1> QED
  BY <1>3, <1>6 DEF Apart

Quiet == {"idle", "sync", "synced"}

(* Where the list can be after a step. *)
LEMMA NextWalk ==
  ASSUME InvTypes, InvClones, WalkList, [SyncNext]_syncVars
  PROVE  \/ expansion' = NoExpansion /\ pc' \in Quiet
         \/ StartLoad \/ StartRound \/ ReadModule \/ Incorporate \/ RoundEnds \/ DetectCycles
         \/ SyncIfNeeded /\ pc = "need" /\ pc' = "need" /\ expansion' = expansion /\ loaded' = loaded
         \/ UNCHANGED syncVars
<1>1. pc \in Quiet => expansion = NoExpansion
  BY DEF WalkList, Quiet
<1>2. CASE StartSync \/ SyncDone \/ CommandEnds
  BY <1>1, <1>2 DEF StartSync, SyncDone, CommandEnds, Quiet
<1>3. CASE SyncOne
  BY <1>1, <1>3 DEF SyncOne, CloneModule, Handled, Quiet
<1>4. CASE SyncIfNeeded
  BY <1>4 DEF SyncIfNeeded, CloneModule, Present, Quiet
<1>5. ASSUME NEW n \in ModuleNames, ToUpstream(n) \/ PullDev(n) \/ Work(n)
      PROVE  expansion' = NoExpansion /\ pc' \in Quiet
  BY <1>1, <1>5 DEF ToUpstream, PullDev, Work, Quiet
<1>6. ASSUME NEW r \in Ids, Push(r) PROVE expansion' = NoExpansion /\ pc' \in Quiet
  BY <1>1, <1>6 DEF Push, Quiet
<1>7. ASSUME NEW n \in ModuleNames, NEW force \in BOOLEAN, ToPin(n, force)
      PROVE  expansion' = NoExpansion /\ pc' \in Quiet
  BY <1>1, <1>7 DEF ToPin, Quiet
<1> QED
  BY <1>2, <1>3, <1>4, <1>5, <1>6, <1>7 DEF SyncNext

(* Between loads there is no list. *)
LEMMA NoWalkYet ==
  ASSUME expansion' = NoExpansion, pc' \in Quiet
  PROVE  WalkList' /\ WalkRound' /\ WalkGraph'
<1>1. PICK x : x = expansion'
  OBVIOUS
<1>2. /\ x.combined = <<>> /\ x.seen = {} /\ x.graph = {} /\ x.round = 0 /\ x.new = <<>> /\ x.deps = <<>>
  BY <1>1 DEF NoExpansion
<1>3. Range(<<>>) = {} /\ Apart(<<>>)
  BY DEF Range, Apart
<1>4. WalkList'
  BY <1>1, <1>2, <1>3 DEF WalkList, Quiet
<1>5. WalkRound'
  <2>1. Cardinality({}) = 0
    BY FS_EmptySet
  <2>2. Cardinality(Range(expansion'.combined)) = 0 /\ expansion'.round = 0
    BY <1>1, <1>2, <1>3, <2>1
  <2>3. 0 + 1 >= 0
    OBVIOUS
  <2> QED
    BY <2>2, <2>3 DEF WalkRound
<1>6. WalkGraph'
  BY <1>1, <1>2 DEF WalkGraph, Quiet
<1> QED
  BY <1>4, <1>5, <1>6

(* The list keeps its shape. *)
LEMMA NextWalkList == InvTypes /\ InvClones /\ WalkList /\ [SyncNext]_syncVars => WalkList'
<1> SUFFICES ASSUME InvTypes, InvClones, WalkList, [SyncNext]_syncVars PROVE WalkList'
  OBVIOUS
<1>1. PICK x \in Expansions : x = expansion
  BY DEF InvTypes
<1>2. /\ x.combined \in Seq(Ids) /\ x.seen \in SUBSET Ids /\ x.new \in Seq(Ids) /\ x.deps \in Seq(Ids)
  BY ExpansionTyped
<1>3. /\ Range(x.combined) \union Range(x.new) = x.seen
      /\ \A r, s \in x.seen : r # s => Refs[r].name # Refs[s].name
      /\ Apart(x.combined) /\ Apart(x.new) /\ Range(x.combined) \intersect Range(x.new) = {}
      /\ pc \notin {"read", "conflict"} => x.new = <<>> /\ x.deps = <<>>
  BY <1>1 DEF WalkList
<1>4. Range(<<>>) = {} /\ Apart(<<>>)
  BY DEF Range, Apart
<1>5. CASE expansion' = NoExpansion /\ pc' \in Quiet
  BY <1>5, NoWalkYet
<1>6. CASE StartLoad
  <2>1. /\ expansion'.combined = project /\ expansion'.seen = Range(project)
        /\ expansion'.new = <<>> /\ expansion'.deps = <<>> /\ pc' = "need"
    BY <1>6, StartLoadTyped DEF StartLoad
  <2>2. \A r, s \in Range(project) : r # s => Refs[r].name # Refs[s].name
    BY NamesApart
  <2>3. Apart(project)
    <3>1. \A i, j \in DOMAIN project : i # j => Refs[project[i]].name # Refs[project[j]].name
      BY ModuleAssumption DEF InvTypes
    <3> QED
      BY <3>1 DEF Apart
  <2> QED
    BY <1>4, <2>1, <2>2, <2>3 DEF WalkList
<1>7. CASE StartRound
  BY <1>7 DEF WalkList, StartRound
<1>8. CASE ReadModule
  <2>1. /\ expansion'.combined = expansion.combined /\ expansion'.seen = expansion.seen
        /\ expansion'.new = expansion.new /\ pc' = "read"
    BY <1>8, ReadModuleTyped DEF ReadModule
  <2> QED
    BY <2>1 DEF WalkList
<1>9. CASE Incorporate
  <2>1. Head(x.deps) \in Ids
    BY <1>1, <1>9, IncorporateTyped
  <2>2. CASE Skips
    BY <2>2 DEF Skips, WalkList
  <2>3. CASE Adds
    <3>1. PICK d \in Ids : d = Head(x.deps)
      BY <2>1
    <3>2. /\ d \notin x.seen /\ Conflicts(x.seen, d) = {}
          /\ expansion'.combined = x.combined /\ expansion'.seen = x.seen \union {d}
          /\ expansion'.new = Append(x.new, d) /\ pc' = "read"
      BY <1>1, <2>3, <3>1 DEF Adds
    <3>3. Range(Append(x.new, d)) = Range(x.new) \union {d}
      BY <1>2, AppendTyped
    <3>4. Apart(Append(x.new, d))
      BY <1>2, <1>3, <3>2, ApartAppend
    <3>5. \A s \in x.seen : Refs[s].name # Refs[d].name
      BY <3>2 DEF Conflicts
    <3>6. \A r, s \in x.seen \union {d} : r # s => Refs[r].name # Refs[s].name
      BY <1>3, <3>5
    <3>7. Range(x.combined) \union Range(Append(x.new, d)) = x.seen \union {d}
      BY <1>3, <3>3
    <3>8. Range(x.combined) \intersect Range(Append(x.new, d)) = {}
      BY <1>3, <3>2, <3>3
    <3> QED
      BY <1>3, <3>2, <3>4, <3>6, <3>7, <3>8 DEF WalkList
  <2>4. CASE pc' = "conflict" /\ expansion' = expansion
    BY <2>4 DEF WalkList
  <2> QED
    BY <1>9, <2>2, <2>3, <2>4, IncorporateTyped
<1>10. CASE RoundEnds
  <2>1. PICK all \in Seq(Ids) : all = x.combined \o x.new /\ Range(all) = Range(x.combined) \union Range(x.new)
    BY <1>2, JoinTyped
  <2>2. /\ expansion'.combined = all /\ expansion'.seen = x.seen
        /\ expansion'.new = <<>> /\ expansion'.deps = <<>> /\ pc' \in {"need", "cycles"}
    BY <1>1, <1>10, <2>1, RoundEndsTyped
  <2>3. Range(all) = x.seen
    BY <1>3, <2>1
  <2>4. Apart(all)
    BY <1>2, <1>3, <2>1, ApartJoin
  <2> QED
    BY <1>3, <1>4, <2>2, <2>3, <2>4 DEF WalkList
<1>11. CASE DetectCycles
  <2>1. /\ expansion' = expansion /\ pc = "cycles" /\ pc' \in {"cycles", "loaded", "cycle"}
        /\ pc' = "loaded" => loaded' = expansion.combined
    BY <1>11, SearchTyped
  <2> QED
    BY <2>1 DEF WalkList
<1>12. CASE SyncIfNeeded /\ pc = "need" /\ pc' = "need" /\ expansion' = expansion
  BY <1>12 DEF WalkList
<1>13. CASE UNCHANGED syncVars
  BY <1>13 DEF syncVars, WalkList
<1> QED
  BY <1>5, <1>6, <1>7, <1>8, <1>9, <1>10, <1>11, <1>12, <1>13, NextWalk

(* A round that adds to the list makes it longer. *)
LEMMA NextWalkRound ==
  InvTypes /\ InvClones /\ WalkList /\ WalkRound /\ [SyncNext]_syncVars => WalkRound'
<1> SUFFICES ASSUME InvTypes, InvClones, WalkList, WalkRound, [SyncNext]_syncVars, IsFiniteSet(Ids)
             PROVE  Cardinality(Range(expansion'.combined)) + 1 >= expansion'.round
  BY DEF WalkRound
<1>1. PICK x \in Expansions : x = expansion
  BY DEF InvTypes
<1>2. x.combined \in Seq(Ids) /\ x.new \in Seq(Ids) /\ x.round \in 0 .. MaxRounds /\ MaxRounds \in Nat
  BY ExpansionTyped, ModuleAssumption
<1>3. ASSUME NEW s \in Seq(Ids) PROVE IsFiniteSet(Range(s)) /\ Cardinality(Range(s)) \in Nat
  <2>1. Range(s) \subseteq Ids
    BY DEF Range
  <2> QED
    BY <2>1, FS_Subset, FS_CardinalityType
<1>4. Cardinality(Range(x.combined)) + 1 >= x.round
  BY <1>1 DEF WalkRound
<1>5. CASE expansion' = NoExpansion /\ pc' \in Quiet
  BY <1>5, NoWalkYet DEF WalkRound
<1>6. CASE StartLoad
  <2>1. expansion'.combined = project /\ expansion'.round = 1 /\ project \in Seq(Ids)
    BY <1>6, StartLoadTyped, ModuleAssumption DEF InvTypes
  <2>2. PICK k \in Nat : k = Cardinality(Range(project))
    BY <1>3, <2>1
  <2>3. k + 1 >= 1
    BY ONLY k \in Nat
  <2> QED
    BY <2>1, <2>2, <2>3
<1>7. CASE expansion'.combined = expansion.combined /\ expansion'.round = expansion.round
  BY <1>1, <1>4, <1>7
<1>8. CASE RoundEnds
  <2>1. PICK all \in Seq(Ids) : all = x.combined \o x.new /\ Range(all) = Range(x.combined) \union Range(x.new)
    BY <1>2, JoinTyped
  <2>2. expansion'.combined = all
    BY <1>1, <1>8, <2>1, RoundEndsTyped
  <2>3. PICK k \in Nat, l \in Nat : k = Cardinality(Range(x.combined)) /\ l = Cardinality(Range(all))
    BY <1>2, <1>3
  <2>4. CASE x.new # <<>> /\ expansion'.round = x.round + 1
    <3>1. PICK d \in Range(x.new) : TRUE
      <4>1. 1 \in DOMAIN x.new
        BY <1>2, <2>4
      <4> QED
        BY <4>1 DEF Range
    <3>2. d \notin Range(x.combined)
      BY <1>1 DEF WalkList
    <3>3. Cardinality(Range(x.combined) \union {d}) = k + 1
      BY <1>2, <1>3, <2>3, <3>2, FS_AddElement
    <3>4. Range(x.combined) \union {d} \subseteq Range(all)
      BY <2>1
    <3>5. Cardinality(Range(x.combined) \union {d}) <= l
      BY <1>3, <2>3, <3>4, FS_Subset
    <3>6. k + 1 <= l /\ k + 1 >= x.round
      BY <1>4, <2>3, <3>3, <3>5
    <3>7. l + 1 >= x.round + 1
      BY ONLY <1>2, <3>6, k \in Nat, l \in Nat
    <3> QED
      BY <2>2, <2>3, <2>4, <3>7
  <2>5. CASE expansion'.round = x.round
    <3>1. k <= l
      BY <1>3, <2>1, <2>3, FS_Subset
    <3>2. k + 1 >= x.round
      BY <1>4, <2>3
    <3>3. l + 1 >= x.round
      BY ONLY <1>2, <3>1, <3>2, k \in Nat, l \in Nat
    <3> QED
      BY <2>2, <2>3, <2>5, <3>3
  <2> QED
    BY <1>1, <1>8, <2>4, <2>5, RoundEndsTyped
<1>9. ReadModule => expansion'.combined = expansion.combined /\ expansion'.round = expansion.round
  BY ReadModuleTyped
<1>10. Incorporate => expansion'.combined = expansion.combined /\ expansion'.round = expansion.round
  BY IncorporateTyped DEF Skips, Adds
<1>11. DetectCycles => expansion' = expansion
  BY SearchTyped
<1> QED
  BY <1>5, <1>6, <1>7, <1>8, <1>9, <1>10, <1>11, NextWalk DEF StartRound, syncVars

(* What modules declare changes only where something is cloned, and a clone *)
(* only adds to it.                                                         *)
LEMMA SameDeps ==
  ASSUME dir' = dir, NEW r
  PROVE  Deps(r)' = Deps(r) /\ Edges(r)' = Edges(r)
<1>1. OnDisk(r)' = OnDisk(r) /\ (Readable(r)' <=> Readable(r))
  BY DEF OnDisk, Readable
<1>2. Deps(r)' = Deps(r)
  BY <1>1 DEF Deps
<1> QED
  BY <1>1, <1>2 DEF Edges

LEMMA DepsGrow ==
  ASSUME InvTypes, InvClones, SyncIfNeeded, NEW r \in Ids
  PROVE  Edges(r) \subseteq Edges(r)'
<1>1. PICK n \in ModuleNames : n = Refs[Head(pending)].name
  BY SyncIfNeededSteps
<1>2. CASE dir' = dir
  BY <1>2, SameDeps
<1>3. CASE ~HasGit(n) /\ CloneStep(n)
  <2>1. PICK c : dir' = [dir EXCEPT ![n] = c]
    BY <1>3 DEF CloneStep
  <2>2. CASE Refs[r].local
    <3>1. OnDisk(r)' = OnDisk(r) /\ Readable(r)' /\ Readable(r)
      BY <2>2 DEF OnDisk, Readable
    <3>2. Deps(r)' = Deps(r)
      BY <3>1 DEF Deps
    <3> QED
      BY <3>1, <3>2 DEF Edges
  <2>3. CASE ~Refs[r].local /\ Refs[r].name # n
    <3>1. dir'[Refs[r].name] = dir[Refs[r].name]
      <4>1. Refs[r].name \in ModuleNames /\ dir \in [ModuleNames -> Clones]
        BY DEF ModuleNames, InvClones
      <4> QED
        BY <2>1, <2>3, <4>1
    <3>2. OnDisk(r)' = OnDisk(r) /\ (Readable(r)' <=> Readable(r))
      BY <3>1 DEF OnDisk, Readable
    <3>3. Deps(r)' = Deps(r)
      BY <3>2 DEF Deps
    <3> QED
      BY <3>2, <3>3 DEF Edges
  <2>4. CASE ~Refs[r].local /\ Refs[r].name = n
    <3>1. ~Readable(r)
      BY <1>3, <2>4 DEF Readable, HasGit
    <3>2. Range(Deps(r)) = {}
      BY <3>1 DEF Deps, Range
    <3> QED
      BY <3>2 DEF Edges
  <2> QED
    BY <2>2, <2>3, <2>4
<1> QED
  BY <1>1, <1>2, <1>3, SyncIfNeededSteps

LEMMA NextWalkGraph ==
  InvTypes /\ InvClones /\ WalkList /\ WalkRound /\ WalkGraph /\ [SyncNext]_syncVars => WalkGraph'
<1> SUFFICES ASSUME InvTypes, InvClones, WalkList, WalkRound, WalkGraph, [SyncNext]_syncVars PROVE WalkGraph'
  OBVIOUS
<1>1. PICK x \in Expansions : x = expansion
  BY DEF InvTypes
<1>2. /\ x.combined \in Seq(Ids) /\ x.seen \in SUBSET Ids /\ x.new \in Seq(Ids) /\ x.deps \in Seq(Ids)
      /\ pending \in Seq(Ids) /\ x.round \in 0 .. MaxRounds /\ MaxRounds \in Nat
  BY ExpansionTyped, ModuleAssumption DEF InvTypes
<1>3. /\ Range(x.combined) \union Range(x.new) = x.seen
      /\ Range(x.combined) \intersect Range(x.new) = {} /\ Range(<<>>) = {}
  <2>1. Range(<<>>) = {}
    BY DEF Range
  <2>2. /\ Range(expansion.combined) \union Range(expansion.new) = expansion.seen
        /\ Range(expansion.combined) \intersect Range(expansion.new) = {}
    BY DEF WalkList
  <2> QED
    BY ONLY <1>1, <2>1, <2>2
<1>4. \A e \in x.graph : \E r \in x.seen : e \in Edges(r)
  BY <1>1 DEF WalkGraph
<1>5. CASE expansion' = NoExpansion /\ pc' \in Quiet
  BY <1>5, NoWalkYet
<1>6. CASE StartLoad
  <2>1. expansion'.graph = {} /\ pc' = "need"
    BY <1>6, StartLoadTyped DEF StartLoad
  <2> QED
    BY <2>1 DEF WalkGraph
<1>7. CASE StartRound
  <2>1. /\ pc' = "read" /\ expansion' = x /\ pending' = x.combined /\ dir' = dir
    BY <1>1, <1>7 DEF StartRound, ToRead
  <2>2. \A e \in x.graph : \E r \in x.seen : e \in Edges(r)'
    BY <1>4, <2>1, SameDeps
  <2> QED
    BY <2>1, <2>2 DEF WalkGraph
<1>8. CASE ReadModule
  <2>1. PICK r0 \in Ids : r0 = Head(pending)
    BY <1>8, ReadModuleTyped
  <2>2. /\ expansion'.combined = x.combined /\ expansion'.seen = x.seen
        /\ expansion'.deps = Deps(r0) /\ expansion'.graph = x.graph \union Edges(r0)
        /\ pending' = Tail(pending) /\ pc = "read" /\ pc' = "read" /\ dir' = dir /\ x.deps = <<>>
    <3>1. /\ pending' = Tail(pending) /\ pc = "read" /\ pc' = "read" /\ dir' = dir /\ x.deps = <<>>
      BY <1>1, <1>8 DEF ReadModule
    <3> QED
      BY <1>1, <1>8, <2>1, <3>1, ReadModuleTyped
  <2>3. Range(pending) = {r0} \union Range(Tail(pending))
    BY <1>2, <1>8, <2>1, TailTyped DEF ReadModule
  <2>4. /\ Range(pending) \subseteq Range(x.combined)
        /\ \A r \in Range(x.combined) :
              \/ r \in Range(pending)
              \/ /\ Edges(r) \subseteq x.graph
                 /\ \A d \in Range(Deps(r)) : Covered(d)
    BY <1>1, <1>3, <2>2 DEF WalkGraph
  <2>5. \A e \in expansion'.graph : \E r \in x.seen : e \in Edges(r)'
    <3>1. r0 \in x.seen
      BY <1>3, <2>3, <2>4
    <3>2. \A r : Edges(r)' = Edges(r)
      BY <2>2, SameDeps
    <3> QED
      BY <1>4, <2>2, <3>1, <3>2
  <2>6. ASSUME NEW r \in Range(x.combined)
        PROVE  \/ r \in Range(pending')
               \/ /\ Edges(r)' \subseteq expansion'.graph
                  /\ \A d \in Range(Deps(r)') : d \in Range(expansion'.deps) \/ Covered(d)'
    <3>1. Edges(r)' = Edges(r) /\ Deps(r)' = Deps(r)
      BY <2>2, SameDeps
    <3>2. \A d : Covered(d)' <=> Covered(d)
      BY <1>1, <2>2 DEF Covered
    <3>3. CASE r = r0
      BY <2>2, <3>1, <3>3
    <3>4. CASE r \in Range(Tail(pending))
      BY <2>2, <3>4
    <3>5. CASE Edges(r) \subseteq x.graph /\ \A d \in Range(Deps(r)) : Covered(d)
      BY <2>2, <3>1, <3>2, <3>5
    <3> QED
      BY <2>3, <2>4, <3>3, <3>4, <3>5
  <2>7. Range(pending') \subseteq Range(expansion'.combined)
    BY <2>2, <2>3, <2>4
  <2> QED
    BY <2>2, <2>5, <2>6, <2>7 DEF WalkGraph
<1>9. CASE Incorporate
  <2>1. PICK d0 \in Ids : d0 = Head(x.deps) /\ Range(x.deps) = {d0} \union Range(Tail(x.deps))
    BY <1>1, <1>2, <1>9, IncorporateTyped, TailTyped
  <2>2. pending' = pending /\ pc = "read" /\ dir' = dir
    BY <1>9 DEF Incorporate
  <2>3. /\ Range(pending) \subseteq Range(x.combined)
        /\ \A r \in Range(x.combined) :
              \/ r \in Range(pending)
              \/ /\ Edges(r) \subseteq x.graph
                 /\ \A d \in Range(Deps(r)) : d \in Range(x.deps) \/ Covered(d)
    BY <1>1, <2>2 DEF WalkGraph
  <2>4. \A r : Edges(r)' = Edges(r) /\ Deps(r)' = Deps(r)
    BY <2>2, SameDeps
  <2>5. CASE pc' = "conflict" /\ expansion' = expansion
    BY <1>1, <1>4, <2>4, <2>5 DEF WalkGraph
  <2>6. ASSUME /\ expansion'.combined = x.combined /\ expansion'.graph = x.graph
               /\ expansion'.deps = Tail(x.deps) /\ pc' = "read"
               /\ x.seen \subseteq expansion'.seen /\ Covered(d0)'
        PROVE  WalkGraph'
    <3>1. \A d : Covered(d) => Covered(d)'
      BY <1>1, <2>6 DEF Covered
    <3>2. \A e \in expansion'.graph : \E r \in expansion'.seen : e \in Edges(r)'
      BY <1>4, <2>4, <2>6
    <3>3. ASSUME NEW r \in Range(x.combined)
          PROVE  \/ r \in Range(pending')
                 \/ /\ Edges(r)' \subseteq expansion'.graph
                    /\ \A d \in Range(Deps(r)') : d \in Range(expansion'.deps) \/ Covered(d)'
      BY <2>1, <2>2, <2>3, <2>4, <2>6, <3>1
    <3> QED
      BY <2>2, <2>3, <2>6, <3>2, <3>3 DEF WalkGraph
  <2>7. CASE Skips
    <3>1. /\ expansion'.combined = x.combined /\ expansion'.graph = x.graph
          /\ expansion'.deps = Tail(x.deps) /\ pc' = "read" /\ expansion'.seen = x.seen
          /\ d0 \in x.seen \/ Conflicts(x.seen, d0) # {}
      BY <1>1, <2>1, <2>7 DEF Skips
    <3>2. Covered(d0)'
      BY <3>1 DEF Covered, Conflicts
    <3> QED
      BY <2>6, <3>1, <3>2
  <2>8. CASE Adds
    <3>1. /\ expansion'.combined = x.combined /\ expansion'.graph = x.graph
          /\ expansion'.deps = Tail(x.deps) /\ pc' = "read" /\ expansion'.seen = x.seen \union {d0}
      BY <1>1, <2>1, <2>8 DEF Adds
    <3>2. Covered(d0)'
      BY <3>1 DEF Covered
    <3> QED
      BY <2>6, <3>1, <3>2
  <2> QED
    BY <1>9, <2>5, <2>7, <2>8, IncorporateTyped
<1>10. CASE RoundEnds
  <2>1. /\ expansion'.combined = x.combined \o x.new /\ expansion'.seen = x.seen
        /\ expansion'.graph = x.graph
        /\ pc' = "need" \/ (pc' = "cycles" /\ (x.new = <<>> \/ x.round = MaxRounds))
    BY <1>1, <1>10, RoundEndsTyped
  <2>2. pc = "read" /\ pending = <<>> /\ x.deps = <<>> /\ dir' = dir
    BY <1>1, <1>10 DEF RoundEnds
  <2>3. \A r : Edges(r)' = Edges(r) /\ Deps(r)' = Deps(r)
    BY <2>2, SameDeps
  <2>4. \A d : Covered(d)' <=> Covered(d)
    BY <1>1, <2>1 DEF Covered
  <2>5. \A e \in expansion'.graph : \E r \in expansion'.seen : e \in Edges(r)'
    BY <1>4, <2>1, <2>3
  <2>6. ASSUME pc' = "cycles", IsFiniteSet(Ids), Cardinality(Ids) < MaxRounds
        PROVE  x.new = <<>>
    <3> SUFFICES ASSUME x.new # <<>> PROVE FALSE
      OBVIOUS
    <3>1. PICK d \in Range(x.new) : TRUE
      <4>1. 1 \in DOMAIN x.new
        BY <1>2
      <4> QED
        BY <4>1 DEF Range
    <3>2. d \notin Range(x.combined) /\ Range(x.combined) \union {d} \subseteq Ids /\ Range(x.combined) \subseteq Ids
      BY <1>2, <1>3 DEF Range
    <3>3. IsFiniteSet(Range(x.combined)) /\ Cardinality(Range(x.combined)) \in Nat /\ Cardinality(Ids) \in Nat
      BY <2>6, <3>2, FS_Subset, FS_CardinalityType
    <3>4. Cardinality(Range(x.combined) \union {d}) = Cardinality(Range(x.combined)) + 1
      BY <3>2, <3>3, FS_AddElement
    <3>5. Cardinality(Range(x.combined) \union {d}) <= Cardinality(Ids)
      BY <2>6, <3>2, FS_Subset
    <3>6. Cardinality(Range(x.combined)) + 1 >= MaxRounds
      BY <1>1, <2>1, <2>6 DEF WalkRound
    <3>7. PICK k \in Nat, l \in Nat : k = Cardinality(Range(x.combined)) /\ l = Cardinality(Ids)
      BY <3>3
    <3>8. k + 1 <= l /\ k + 1 >= MaxRounds /\ l < MaxRounds
      BY <2>6, <3>4, <3>5, <3>6, <3>7
    <3> QED
      BY ONLY <1>2, <3>8, k \in Nat, l \in Nat
  <2>7. ASSUME pc' = "cycles", IsFiniteSet(Ids), Cardinality(Ids) < MaxRounds, NEW r \in x.seen
        PROVE  Edges(r)' \subseteq expansion'.graph /\ \A d \in Range(Deps(r)') : Covered(d)'
    <3>1. r \in Range(x.combined)
      BY <1>3, <2>6, <2>7
    <3>2. Edges(r) \subseteq x.graph /\ \A d \in Range(Deps(r)) : Covered(d)
      BY <1>1, <1>3, <2>2, <3>1 DEF WalkGraph
    <3> QED
      BY <2>1, <2>3, <2>4, <3>2
  <2>8. pc' \in {"need", "cycles"}
    BY <2>1
  <2> QED
    BY <2>1, <2>5, <2>7, <2>8 DEF WalkGraph
<1>11. CASE DetectCycles
  <2>1. expansion' = expansion /\ dir' = dir /\ pc = "cycles" /\ pc' \in {"cycles", "loaded", "cycle"}
    BY <1>11, SearchTyped
  <2>2. \A r : Edges(r)' = Edges(r) /\ Deps(r)' = Deps(r)
    BY <2>1, SameDeps
  <2>3. \A d : Covered(d)' <=> Covered(d)
    BY <2>1 DEF Covered
  <2> QED
    BY <2>1, <2>2, <2>3 DEF WalkGraph
<1>12. CASE SyncIfNeeded /\ pc' = "need" /\ expansion' = expansion
  <2>1. \A e \in x.graph : \E r \in x.seen : e \in Edges(r)'
    BY <1>2, <1>4, <1>12, DepsGrow
  <2> QED
    BY <1>1, <1>12, <2>1 DEF WalkGraph
<1>13. CASE UNCHANGED syncVars
  <2>1. expansion' = expansion /\ dir' = dir /\ pc' = pc /\ pending' = pending
    BY <1>13 DEF syncVars
  <2>2. \A r : Edges(r)' = Edges(r) /\ Deps(r)' = Deps(r)
    BY <2>1, SameDeps
  <2>3. \A d : Covered(d)' <=> Covered(d)
    BY <2>1 DEF Covered
  <2> QED
    BY <2>1, <2>2, <2>3 DEF WalkGraph
<1> QED
  BY <1>5, <1>6, <1>7, <1>8, <1>9, <1>10, <1>11, <1>12, <1>13, NextWalk

(* A search that has not begun has found nothing. *)
LEMMA NoSearchYet ==
  ASSUME search' = NoSearch, pc' \notin {"cycle", "loaded"}
  PROVE  InvSearch'
<1>1. search'.stack = <<>> /\ search'.done = {} /\ Range(<<>>) = {} /\ Len(<<>>) = 0
  BY DEF NoSearch, Range
<1>2. Grounded({})'
  BY DEF Grounded
<1> QED
  BY <1>1, <1>2 DEF InvSearch

(* A module whose dependencies have all been searched adds no cycle. *)
LEMMA GroundedGrows ==
  ASSUME NEW D \in SUBSET Roots, \A m \in D : DepsOf(m) \subseteq D, Grounded(D), NEW t \in Roots, DepsOf(t) \subseteq D
  PROVE  Grounded(D \union {t})
<1>1. SUFFICES ASSUME NEW S \in SUBSET (D \union {t}), S # {}, Supported(S) PROVE FALSE
  BY DEF Grounded
<1>2. CASE t \in D
  BY <1>1, <1>2 DEF Grounded
<1>3. CASE t \notin D
  <2>1. \A m \in S \intersect D : \E n \in S \intersect D : <<m, n>> \in expansion.graph
    <3>1. SUFFICES ASSUME NEW m \in S \intersect D PROVE \E n \in S \intersect D : <<m, n>> \in expansion.graph
      OBVIOUS
    <3>2. PICK n \in S : <<m, n>> \in expansion.graph
      BY <1>1 DEF Supported
    <3>3. n \in DepsOf(m)
      BY <3>2 DEF DepsOf
    <3> QED
      BY <3>2, <3>3
  <2>2. S \intersect D # {}
    <3>1. CASE t \in S
      <4>1. PICK n \in S : <<t, n>> \in expansion.graph
        BY <1>1, <3>1 DEF Supported
      <4>2. n \in DepsOf(t)
        BY <4>1 DEF DepsOf
      <4> QED
        BY <4>1, <4>2
    <3>2. CASE t \notin S
      BY <1>1, <3>2
    <3> QED
      BY <3>1, <3>2
  <2> QED
    BY <2>1, <2>2 DEF Grounded, Supported
<1> QED
  BY <1>2, <1>3

(* A module met again on the stack closes a cycle. *)
LEMMA StackCycle ==
  ASSUME InvTypes, InvSearch, search.stack # <<>>, NEW d \in Range(search.stack), d \in DepsOf(OnTop)
  PROVE  \E S \in SUBSET Roots : S # {} /\ Supported(S)
<1>1. PICK s \in Seq(Infos) : s = search.stack /\ Range(s) \subseteq Roots
  BY RootsTyped DEF InvSearch
<1>2. PICK l \in Nat \ {0} : l = Len(s) /\ OnTop = s[l]
  BY <1>1, TopTyped
<1>3. PICK k \in 1 .. l : d = s[k]
  BY <1>1, <1>2 DEF Range
<1>4. \A i \in 1 .. l : i + 1 \in 1 .. l => <<s[i], s[i + 1]>> \in expansion.graph
  BY <1>1, <1>2 DEF InvSearch
<1>5. PICK S : S = {s[i] : i \in k .. l}
  OBVIOUS
<1>6. S \subseteq Roots /\ d \in S
  <2>1. \A i \in k .. l : i \in DOMAIN s
    BY <1>2, <1>3
  <2>2. k \in k .. l
    BY <1>2, <1>3
  <2> QED
    BY <1>1, <1>3, <1>5, <2>1, <2>2 DEF Range
<1>7. ASSUME NEW m \in S PROVE \E n \in S : <<m, n>> \in expansion.graph
  <2>1. PICK i \in k .. l : m = s[i]
    BY <1>5, <1>7
  <2>2. CASE i = l
    <3>1. <<s[l], d>> \in expansion.graph
      BY <1>2 DEF DepsOf
    <3> QED
      BY <1>6, <2>1, <2>2, <3>1
  <2>3. CASE i # l
    <3>1. i \in 1 .. l /\ i + 1 \in 1 .. l /\ i + 1 \in k .. l
      BY <1>2, <1>3, <2>1, <2>3
    <3>2. s[i + 1] \in S
      BY <1>5, <3>1
    <3> QED
      BY <1>4, <2>1, <3>1, <3>2
  <2> QED
    BY <2>2, <2>3
<1> QED
  BY <1>6, <1>7 DEF Supported

LEMMA NextSearch ==
  InvTypes /\ InvClones /\ WalkList /\ InvSearch /\ [SyncNext]_syncVars => InvSearch'
<1> SUFFICES ASSUME InvTypes, InvClones, WalkList, InvSearch, [SyncNext]_syncVars PROVE InvSearch'
  OBVIOUS
<1>1. CASE ~DetectCycles /\ ~UNCHANGED syncVars
  <2>1. pc \notin {"cycles", "cycle", "loaded"} => search = NoSearch
    BY DEF InvSearch
  <2>2. CASE StartSync \/ SyncDone \/ CommandEnds \/ StartLoad \/ StartRound \/ ReadModule \/ Incorporate \/ RoundEnds
    <3>1. search' = NoSearch /\ pc' \notin {"cycle", "loaded"}
      BY <2>1, <2>2 DEF StartSync, SyncDone, CommandEnds, StartLoad, StartRound, ReadModule, Incorporate, RoundEnds
    <3> QED
      BY <3>1, NoSearchYet
  <2>3. CASE SyncOne \/ SyncIfNeeded
    <3>1. search' = NoSearch /\ pc' \notin {"cycle", "loaded"}
      BY <2>1, <2>3 DEF SyncOne, SyncIfNeeded, CloneModule, Handled, Present
    <3> QED
      BY <3>1, NoSearchYet
  <2>4. ASSUME NEW n \in ModuleNames, ToUpstream(n) \/ PullDev(n) \/ Work(n) PROVE InvSearch'
    <3>1. search' = NoSearch /\ pc' \notin {"cycle", "loaded"}
      BY <2>1, <2>4 DEF ToUpstream, PullDev, Work
    <3> QED
      BY <3>1, NoSearchYet
  <2>5. ASSUME NEW r \in Ids, Push(r) PROVE InvSearch'
    BY <2>1, <2>5, NoSearchYet DEF Push
  <2>6. ASSUME NEW n \in ModuleNames, NEW force \in BOOLEAN, ToPin(n, force) PROVE InvSearch'
    BY <2>1, <2>6, NoSearchYet DEF ToPin
  <2> QED
    BY <1>1, <2>2, <2>3, <2>4, <2>5, <2>6 DEF SyncNext
<1>2. CASE UNCHANGED syncVars
  <2>1. search' = search /\ expansion' = expansion /\ pc' = pc
    BY <1>2 DEF syncVars
  <2>2. Roots' = Roots /\ (Grounded(search.done)' <=> Grounded(search.done)) /\ \A m : DepsOf(m)' = DepsOf(m)
    BY <2>1 DEF Roots, Grounded, Supported, DepsOf
  <2>3. \A S : Supported(S)' <=> Supported(S)
    BY <2>1 DEF Supported
  <2> QED
    BY <2>1, <2>2, <2>3 DEF InvSearch
<1>3. CASE DetectCycles
  <2>1. expansion' = expansion /\ pc = "cycles"
    BY <1>3, SearchTyped
  <2>2. PICK g : g = expansion.graph /\ g = expansion'.graph
    BY <2>1
  <2>3. PICK st \in Seq(Infos), D \in SUBSET Infos : st = search.stack /\ D = search.done
    BY RootsTyped
  <2>4. /\ Range(st) \subseteq Roots /\ D \subseteq Roots /\ \A m \in D : DepsOf(m) \subseteq D
        /\ \A i \in 1 .. Len(st) : i + 1 \in 1 .. Len(st) => <<st[i], st[i + 1]>> \in g
        /\ Grounded(D)
    BY <2>2, <2>3 DEF InvSearch
  <2>5. Roots' = Roots /\ (\A m : DepsOf(m)' = DepsOf(m)) /\ \A S : Supported(S)' <=> Supported(S)
    BY <2>1 DEF Roots, Supported, DepsOf
  <2>6. \A X : Grounded(X)' <=> Grounded(X)
    BY <2>5 DEF Grounded
  <2>7. ASSUME NEW r \in Starts, VisitRoot(r) PROVE InvSearch'
    <3>1. search'.stack = <<r>> /\ search'.done = D /\ pc' = "cycles"
      BY <2>3, <2>7 DEF VisitRoot, InvTypes, Searches
    <3>2. Range(<<r>>) = {r} /\ r \in Roots
      BY DEF Range, Starts
    <3>3. \A i \in 1 .. Len(<<r>>) : i + 1 \notin 1 .. Len(<<r>>)
      OBVIOUS
    <3> QED
      BY <2>4, <2>5, <2>6, <3>1, <3>2, <3>3 DEF InvSearch
  <2>8. ASSUME NEW d \in Roots, Visit(d), d \in Range(search.stack) PROVE InvSearch'
    <3>1. search' = search /\ pc' = "cycle"
      BY <2>8 DEF Visit
    <3>2. \E S \in SUBSET Roots : S # {} /\ Supported(S)
      BY <2>8, StackCycle DEF Visit
    <3> QED
      BY <2>2, <2>3, <2>4, <2>5, <2>6, <3>1, <3>2 DEF InvSearch
  <2>9. ASSUME NEW d \in Roots, Visit(d), d \notin Range(search.stack) PROVE InvSearch'
    <3>1. PICK u \in Seq(Infos) : u = Append(st, d) /\ Range(u) = Range(st) \union {d}
      <4>1. d \in Infos
        BY RootsTyped
      <4>2. Append(st, d) \in Seq(Infos) /\ Range(Append(st, d)) = Range(st) \union {d}
        BY ONLY <4>1, st \in Seq(Infos), AppendTyped
      <4> QED
        BY ONLY <4>2
    <3>2. search'.stack = u /\ search'.done = D /\ pc' = "cycles"
      BY <2>1, <2>3, <2>9, <3>1 DEF Visit, InvTypes, Searches
    <3>3. PICK l \in Nat \ {0} : l = Len(st) /\ OnTop = st[l] /\ <<st[l], d>> \in g
      BY <2>2, <2>3, <2>9, TopTyped DEF Visit, DepsOf
    <3>4. Len(u) = l + 1 /\ u[l + 1] = d /\ \A i \in 1 .. l : u[i] = st[i]
      BY <3>1, <3>3
    <3>5. ASSUME NEW i \in 1 .. Len(u), i + 1 \in 1 .. Len(u) PROVE <<u[i], u[i + 1]>> \in g
      <4>1. CASE i = l
        <5>1. l \in 1 .. l
          BY <3>3
        <5> QED
          BY <3>3, <3>4, <4>1, <5>1
      <4>2. CASE i # l
        <5>1. i \in 1 .. l /\ i + 1 \in 1 .. l
          BY <3>3, <3>4, <3>5, <4>2
        <5> QED
          BY <2>4, <3>3, <3>4, <5>1
      <4> QED
        BY <4>1, <4>2
    <3> QED
      BY <2>2, <2>4, <2>5, <2>6, <3>1, <3>2, <3>5 DEF InvSearch
  <2>10. CASE Visited
    <3>1. PICK u \in Seq(Infos), l \in Nat \ {0} :
            /\ l = Len(st) /\ OnTop = st[l] /\ Len(u) = l - 1 /\ \A i \in 1 .. l - 1 : u[i] = st[i]
            /\ u = SubSeq(st, 1, Len(st) - 1)
      BY <2>3, <2>10, TopTyped DEF Visited
    <3>2. PICK t \in Roots : t = OnTop /\ DepsOf(t) \subseteq D
      <4>1. l \in 1 .. Len(st)
        BY <3>1
      <4> QED
        BY <2>3, <2>4, <2>10, <3>1, <4>1 DEF Visited, Range
    <3>3. search'.stack = u /\ search'.done = D \union {t} /\ pc' = "cycles"
      BY <2>1, <2>3, <2>10, <3>1, <3>2 DEF Visited
    <3>4. Range(u) \subseteq Roots
      <4>1. \A i \in 1 .. l - 1 : u[i] \in Range(st)
        BY <3>1 DEF Range
      <4> QED
        BY <2>4, <3>1, <4>1 DEF Range
    <3>5. ASSUME NEW i \in 1 .. Len(u), i + 1 \in 1 .. Len(u) PROVE <<u[i], u[i + 1]>> \in g
      <4>1. i \in 1 .. Len(st) /\ i + 1 \in 1 .. Len(st) /\ i \in 1 .. l - 1 /\ i + 1 \in 1 .. l - 1
        BY <3>1, <3>5
      <4> QED
        BY <2>4, <3>1, <4>1
    <3>6. Grounded(D \union {t})
      BY <2>4, <3>2, GroundedGrows
    <3>7. D \union {t} \subseteq Roots /\ \A m \in D \union {t} : DepsOf(m) \subseteq D \union {t}
      BY <2>4, <3>2
    <3> QED
      BY <2>2, <2>5, <2>6, <3>3, <3>4, <3>5, <3>6, <3>7 DEF InvSearch
  <2>11. CASE LoadEnds
    <3>1. search' = search /\ pc' = "loaded" /\ Roots \subseteq D
      BY <2>3, <2>11 DEF LoadEnds, Starts
    <3> QED
      BY <2>2, <2>3, <2>4, <2>5, <2>6, <3>1 DEF InvSearch
  <2> QED
    BY <1>3, <2>7, <2>8, <2>9, <2>10, <2>11 DEF DetectCycles
<1> QED
  BY <1>1, <1>2, <1>3

(* Where the walk is over, the graph is what the modules declare, if their  *)
(* files name themselves as the project does.                               *)
LEMMA GraphDeclared ==
  ASSUME InvTypes, InvClones, WalkGraph, IsFiniteSet(Ids), Cardinality(Ids) < MaxRounds,
         \A r \in Ids : Refs[r].info = Refs[r].name, pc \in {"cycle", "loaded"}
  PROVE  Declares = expansion.graph
<1>1. expansion.seen \in SUBSET Ids
  BY ExpansionTyped DEF InvTypes
<1>2. ASSUME NEW r \in expansion.seen
      PROVE  Edges(r) = {<<Refs[r].name, Refs[d].name>> : d \in Range(Deps(r))}
  <2>1. Refs[OnDisk(r)].info = Refs[r].name
    BY <1>1, DepsTyped
  <2> QED
    BY <2>1 DEF Edges
<1>3. Declares = UNION {Edges(r) : r \in expansion.seen}
  BY <1>2 DEF Declares
<1>4. \A r \in expansion.seen : Edges(r) \subseteq expansion.graph
  BY DEF WalkGraph
<1>5. \A e \in expansion.graph : \E r \in expansion.seen : e \in Edges(r)
  BY DEF WalkGraph
<1> QED
  BY <1>3, <1>4, <1>5

LEMMA FoundCycles ==
  ASSUME InvTypes, InvClones, WalkGraph, InvSearch, IsFiniteSet(Ids), Cardinality(Ids) < MaxRounds,
         \A r \in Ids : Refs[r].info = Refs[r].name
  PROVE  CyclesFound
<1>1. CASE pc \in {"cycle", "loaded"}
  <2>1. Declares = expansion.graph /\ {e[1] : e \in Declares} = Roots
    BY <1>1, GraphDeclared DEF Roots
  <2>2. Cyclic <=> \E S \in (SUBSET Roots) \ {{}} : Supported(S)
    BY <2>1 DEF Cyclic, Supported
  <2>3. CASE pc = "cycle"
    BY <2>2, <2>3 DEF InvSearch, CyclesFound
  <2>4. CASE pc = "loaded"
    <3>1. ~Cyclic
      BY <2>2, <2>4 DEF InvSearch, Grounded
    <3> QED
      BY <2>4, <3>1 DEF CyclesFound
  <2> QED
    BY <1>1, <2>3, <2>4
<1>2. CASE pc \notin {"cycle", "loaded"}
  BY <1>2 DEF CyclesFound
<1> QED
  BY <1>1, <1>2

SyncIInv == InvTypes /\ InvClones /\ WalkList /\ WalkRound /\ WalkGraph /\ InvSearch

LEMMA InvEstablished ==
  ASSUME SyncIInv, IsFiniteSet(Ids), Cardinality(Ids) < MaxRounds, \A r \in Ids : Refs[r].info = Refs[r].name
  PROVE  SyncInv
<1> USE DEF SyncIInv
<1>1. SyncTypeOK
  <2>1. tip \in [Ids -> Nat]
    BY DEF InvTypes
  <2>2. Range(pending) \subseteq Ids /\ Range(loaded) \subseteq Ids
    BY DEF InvTypes, Range
  <2>3. expansion.round \in 0 .. MaxRounds
    BY ExpansionTyped DEF InvTypes
  <2>4. \A n \in ModuleNames : dir[n].mode = "dev" => dir[n].tag # NoCommit
    BY DEF InvClones, CloneOK
  <2> QED
    BY <2>1, <2>2, <2>3, <2>4 DEF SyncTypeOK, InvTypes, InvClones, WalkList
<1>2. WorkIsSeen
  <2> SUFFICES ASSUME NEW n \in ModuleNames, dir[n].mode = "dev", dir[n].dirty \/ dir[n].head[2] > 0
               PROVE  DetectState(n) \in {"dev-dirty", "dev-mod"}
    BY DEF WorkIsSeen
  <2>1. HasGit(n)
    BY DEF InvClones, CloneOK, HasGit
  <2> QED
    BY <2>1, StatesSeen
<1>3. pc = "loaded" => loaded = expansion.combined /\ Range(loaded) = expansion.seen
  BY DEF WalkList, Range
<1>4. LoadClosed
  BY <1>3 DEF LoadClosed, WalkGraph, Covered
<1>5. OneOfAName
  <2> SUFFICES ASSUME pc = "loaded", NEW i \in DOMAIN loaded, NEW j \in DOMAIN loaded, i # j
               PROVE  Refs[loaded[i]].name # Refs[loaded[j]].name
    BY DEF OneOfAName
  <2>1. loaded[i] # loaded[j]
    BY <1>3 DEF WalkList, Apart
  <2>2. loaded[i] \in expansion.seen /\ loaded[j] \in expansion.seen
    BY <1>3 DEF Range
  <2> QED
    BY <2>1, <2>2 DEF WalkList
<1>6. CyclesFound
  BY FoundCycles
<1> QED
  BY <1>1, <1>2, <1>4, <1>5, <1>6 DEF SyncInv

LEMMA InitSyncIInv == SyncInit => SyncIInv
<1> SUFFICES ASSUME SyncInit PROVE SyncIInv
  OBVIOUS
<1>1. expansion = NoExpansion /\ pc = "idle" /\ search = NoSearch
  BY DEF SyncInit
<1>2. /\ expansion.combined = <<>> /\ expansion.seen = {} /\ expansion.graph = {} /\ expansion.round = 0
      /\ expansion.new = <<>> /\ expansion.deps = <<>> /\ search.stack = <<>> /\ search.done = {}
  BY <1>1 DEF NoExpansion, NoSearch
<1>3. Range(<<>>) = {} /\ Apart(<<>>) /\ Len(<<>>) = 0 /\ Cardinality({}) = 0
  BY FS_EmptySet DEF Range, Apart
<1>4. WalkList
  BY <1>1, <1>2, <1>3 DEF WalkList
<1>5. WalkRound
  <2>1. Cardinality(Range(expansion.combined)) = 0 /\ expansion.round = 0
    BY <1>2, <1>3
  <2>2. 0 + 1 >= 0
    OBVIOUS
  <2> QED
    BY <2>1, <2>2 DEF WalkRound
<1>6. WalkGraph
  BY <1>1, <1>2 DEF WalkGraph
<1>7. InvSearch
  <2>1. Grounded({})
    BY DEF Grounded
  <2> QED
    BY <1>1, <1>2, <1>3, <2>1 DEF InvSearch
<1> QED
  BY <1>4, <1>5, <1>6, <1>7, InitClones DEF SyncIInv

(* A load that succeeds has one module of each name and one for every       *)
(* dependency, however deep, and the search of DetectCycles accepts a       *)
(* project exactly when no dependencies form a cycle, for any modules and   *)
(* whatever an earlier command left of their clones.  The bound on rounds   *)
(* must exceed the number of modules: the code goes on without a word when  *)
(* it does not.  The graph has modules under the names their files give     *)
(* them and dependencies under those the project uses; the two agree.       *)
THEOREM SyncInvHolds ==
  ASSUME IsFiniteSet(Ids), Cardinality(Ids) < MaxRounds, \A r \in Ids : Refs[r].info = Refs[r].name
  PROVE  SyncSpec => []SyncInv
<1>1. SyncInit => SyncIInv
  BY InitSyncIInv
<1>2. SyncIInv /\ [SyncNext]_syncVars => SyncIInv'
  BY NextTypes, NextInvClones, NextWalkList, NextWalkRound, NextWalkGraph, NextSearch DEF SyncIInv
<1>3. SyncIInv => SyncInv
  BY InvEstablished
<1> QED
  BY <1>1, <1>2, <1>3, PTL DEF SyncSpec

-----------------------------------------------------------------------------
(* Catalogs *)

AllUnits == Units((0 - Len(Feeds)) .. (N + 1), (0 - Len(Feeds)) .. (N + 1))
Engines == [flat : [Names -> AllUnits \union {NoUnit}], cat : SUBSET AllUnits]

(* The feed that a name comes from, if it comes from a feed. *)
ChosenFeed(pins, n, d) ==
    IF pins[d][n] < 0 /\ -pins[d][n] \in Offering(n, d) THEN -pins[d][n] ELSE Min(Offering(n, d))

FromFile(u) == u.mod \in 1 .. N + 1 /\ u.idx = u.mod
FromFeed(pins, u) ==
    /\ u.distro \in Distros /\ u.idx <= 0 /\ u.class = "feed" /\ u.provides = {}
    /\ ChosenFeed(pins, u.name, u.distro) \in Offering(u.name, u.distro)
    /\ u.mod = -ChosenFeed(pins, u.name, u.distro)

(* What a catalog is: one unit of a name and a module; a unit of a feed is  *)
(* of the feed that its name is always taken from; and a unit that is not   *)
(* in the flat catalog was pinned.                                          *)
CatalogOK(pins, e) ==
    /\ \A n \in Names : e.flat[n] # NoUnit =>
          /\ e.flat[n].name = n /\ \E u \in e.cat : u.name = n
          /\ FromFile(e.flat[n]) \/ FromFeed(pins, e.flat[n])
    /\ \A u, w \in e.cat : u.mod = w.mod /\ u.name = w.name => u = w
    /\ \A u \in e.cat : FromFile(u) \/ FromFeed(pins, u)
    /\ \A u \in e.cat : e.flat[u.name] # NoUnit \/ (FromFeed(pins, u) /\ pins[u.distro][u.name] # 0)

Catalogs(pins) == {e \in Engines : CatalogOK(pins, e)}

(* What looking names up adds: units of feeds. *)
Grows(pins, e, g) ==
    /\ \A u \in e.cat : FromFile(u) => u \in g.cat
    /\ \A u \in g.cat : u \in e.cat \/ FromFeed(pins, u)
    /\ \A n \in Names : g.flat[n] = e.flat[n] \/ (e.flat[n] = NoUnit /\ FromFeed(pins, g.flat[n]))

LEMMA FeedsAssumed ==
  /\ N \in Nat /\ Len(Feeds) \in Nat /\ DOMAIN Feeds = 1 .. Len(Feeds) /\ NoName \notin Distros /\ NoName \notin Names
  /\ \A i \in DOMAIN Feeds :
        /\ Feeds[i].distro \in Distros /\ DOMAIN Feeds[i].offers \subseteq Names
        /\ \A n \in DOMAIN Feeds[i].offers : Feeds[i].offers[n] \in Seq(Names)
<1>1. \A i \in DOMAIN NameOrder : NameOrder[i] # NoName
  BY LoadAssumption
<1>2. NoName \notin Names
  BY <1>1 DEF Names, Range
<1> QED
  BY <1>2, LoadAssumption

LEMMA PositiveMin == ASSUME NEW S \in SUBSET Nat, S # {} PROVE Min(S) \in S
BY LeastExists DEF Min

LEMMA OfferingType ==
  ASSUME NEW n, NEW d
  PROVE  /\ Offering(n, d) \subseteq 1 .. Len(Feeds) /\ Offering(n, d) \in SUBSET Nat
         /\ Offering(n, d) # {} => Min(Offering(n, d)) \in Offering(n, d)
         /\ \A i \in Offering(n, d) : n \in DOMAIN Feeds[i].offers /\ Feeds[i].distro = d /\ i >= 1
<1>1. Offering(n, d) \subseteq 1 .. Len(Feeds)
  BY FeedsAssumed DEF Offering
<1>2. 1 .. Len(Feeds) \subseteq Nat /\ \A i \in 1 .. Len(Feeds) : i >= 1
  BY FeedsAssumed
<1>3. Offering(n, d) # {} => Min(Offering(n, d)) \in Offering(n, d)
  BY <1>1, <1>2, PositiveMin
<1> QED
  BY <1>1, <1>2, <1>3 DEF Offering

LEMMA FeedUnitType ==
  ASSUME NEW n \in Names, NEW d \in Distros, NEW i \in Offering(n, d)
  PROVE  /\ FeedUnit(i, n) \in AllUnits /\ FeedUnit(i, n).name = n /\ FeedUnit(i, n).distro = d
         /\ FeedUnit(i, n).mod = -i /\ FeedUnit(i, n).idx <= 0 /\ FeedUnit(i, n).class = "feed"
         /\ FeedUnit(i, n).provides = {} /\ FeedUnit(i, n) # NoUnit
<1>1. i \in 1 .. Len(Feeds) /\ n \in DOMAIN Feeds[i].offers /\ Feeds[i].distro = d
  BY OfferingType
<1>2. PICK x : x = IF Attached THEN 1 - i ELSE 0
  OBVIOUS
<1>3. x \in (0 - Len(Feeds)) .. (N + 1) /\ -i \in (0 - Len(Feeds)) .. (N + 1) /\ x <= 0
  BY <1>1, <1>2, FeedsAssumed
<1>4. Feeds[i].offers[n] \in Seq(Names) /\ [e \in Distros |-> <<>>] \in [Distros -> Seq(Names)] /\ <<>> \in Seq(Names)
  BY <1>1, FeedsAssumed
<1>5. PICK q \in Seq(Names) : q = Feeds[i].offers[n]
  BY <1>4
<1>6. PICK z \in [Distros -> Seq(Names)] : z = [e \in Distros |-> <<>>]
  BY <1>4
<1>7. FeedUnit(i, n) = [name |-> n, distro |-> d, class |-> "feed", tasks |-> FALSE, container |-> FALSE, mod |-> -i,
                        idx |-> x, deps |-> <<>>, distroDeps |-> z, rdeps |-> q, distroRdeps |-> z, provides |-> {}]
  BY <1>1, <1>2, <1>5, <1>6 DEF FeedUnit
<1>8. FeedUnit(i, n) \in AllUnits
  <2>1. PICK I : I = (0 - Len(Feeds)) .. (N + 1)
    OBVIOUS
  <2>2. x \in I /\ -i \in I
    BY <1>3, <2>1
  <2>3. FeedUnit(i, n) \in Units(I, I)
    BY <1>4, <1>7, <2>2 DEF Units, DistroTags, Classes
  <2> QED
    BY <2>1, <2>3 DEF AllUnits
<1>9. FeedUnit(i, n).name # NoUnit.name
  BY <1>7, FeedsAssumed DEF NoUnit
<1> QED
  BY <1>3, <1>7, <1>8, <1>9

LEMMA UnitNamed == ASSUME NEW u \in AllUnits PROVE u # NoUnit /\ u.name \in Names /\ u.name # NoName
BY FeedsAssumed DEF AllUnits, Units, NoUnit

(* The highest priority among units is somebody's. *)
LEMMA HighestExists ==
  ASSUME NEW S \in SUBSET AllUnits, S # {}
  PROVE  Highest(S) # {} /\ Highest(S) \subseteq S
<1> DEFINE D == {(N + 1) - u.idx : u \in S}
<1>1. \A u \in S : u.idx \in Int /\ u.idx <= N + 1
  BY FeedsAssumed DEF AllUnits, Units
<1>2. D \in SUBSET Nat /\ D # {}
  BY <1>1, FeedsAssumed
<1>3. PICK x \in D : \A y \in D : x <= y
  BY <1>2, LeastExists
<1>4. PICK u \in S : x = (N + 1) - u.idx
  BY <1>3
<1>5. ASSUME NEW w \in S PROVE w.idx <= u.idx
  <2>1. (N + 1) - u.idx <= (N + 1) - w.idx
    BY <1>3, <1>4
  <2> QED
    BY <1>1, <2>1, FeedsAssumed
<1> QED
  BY <1>5 DEF Highest

LEMMA FoundVisible ==
  ASSUME NEW e \in Engines, NEW n, NEW d, Variants(e, n, d) # {}
  PROVE  /\ FindVisible(e, n, d) \in Highest(Variants(e, n, d)) /\ FindVisible(e, n, d) \in Variants(e, n, d)
<1>1. Variants(e, n, d) \in SUBSET AllUnits
  BY DEF Variants, Engines
<1>2. Highest(Variants(e, n, d)) # {} /\ Highest(Variants(e, n, d)) \subseteq Variants(e, n, d)
  BY <1>1, HighestExists
<1> QED
  BY <1>2 DEF FindVisible

(* Storing a unit under its name and module keeps the catalog in order.     *)
LEMMA StoredOK ==
  ASSUME NEW pins, NEW e \in Catalogs(pins), NEW u \in AllUnits, FromFile(u) \/ FromFeed(pins, u),
         NEW f \in [Names -> AllUnits \union {NoUnit}],
         \A n \in Names : f[n] = e.flat[n] \/ (n = u.name /\ f[n] = u),
         f[u.name] # NoUnit \/ (FromFeed(pins, u) /\ pins[u.distro][u.name] # 0)
  PROVE  Stored([e EXCEPT !.flat = f], u) \in Catalogs(pins)
<1>1. e \in Engines /\ CatalogOK(pins, e)
  BY DEF Catalogs
<1>2. PICK g : g = Stored([e EXCEPT !.flat = f], u)
  OBVIOUS
<1>3. g.flat = f /\ g.cat = {w \in e.cat : w.mod # u.mod \/ w.name # u.name} \union {u} /\ g \in Engines
  BY <1>1, <1>2 DEF Stored, Engines
<1>4. ASSUME NEW n \in Names, g.flat[n] # NoUnit
      PROVE  /\ g.flat[n].name = n /\ \E w \in g.cat : w.name = n
             /\ FromFile(g.flat[n]) \/ FromFeed(pins, g.flat[n])
  <2>1. CASE g.flat[n] = e.flat[n]
    <3>1. PICK w \in e.cat : w.name = n
      BY <1>1, <1>4, <2>1 DEF CatalogOK
    <3>2. w \in g.cat \/ u.name = n
      BY <1>3, <3>1
    <3> QED
      BY <1>1, <1>3, <1>4, <2>1, <3>1, <3>2 DEF CatalogOK
  <2>2. CASE n = u.name /\ g.flat[n] = u
    BY <1>3, <2>2
  <2> QED
    BY <1>3, <2>1, <2>2
<1>5. ASSUME NEW v \in g.cat, NEW w \in g.cat, v.mod = w.mod, v.name = w.name PROVE v = w
  BY <1>1, <1>3, <1>5 DEF CatalogOK
<1>6. ASSUME NEW v \in g.cat
      PROVE  /\ FromFile(v) \/ FromFeed(pins, v)
             /\ g.flat[v.name] # NoUnit \/ (FromFeed(pins, v) /\ pins[v.distro][v.name] # 0)
  <2>1. CASE v = u
    BY <1>3, <2>1
  <2>2. CASE v \in e.cat
    <3>1. v.name \in Names
      BY <1>1, <2>2, UnitNamed DEF Engines
    <3>2. u # NoUnit
      BY UnitNamed
    <3> QED
      BY <1>1, <1>3, <2>2, <3>1, <3>2 DEF CatalogOK
  <2> QED
    BY <1>3, <2>1, <2>2
<1>7. CatalogOK(pins, g)
  BY <1>4, <1>5, <1>6 DEF CatalogOK
<1> QED
  BY <1>2, <1>3, <1>7 DEF Catalogs

(* A name that is looked up is found under its name and visible, and the    *)
(* catalog stays in order; a unit of a file never gets lost.                *)
LEMMA LookupSound ==
  ASSUME proj.pins \in [Distros -> [Names -> Int]], NEW e \in Catalogs(proj.pins), NEW n \in Names, NEW d \in Distros,
         NEW r, r = Lookup(e, n, d)
  PROVE  /\ r.eng \in Catalogs(proj.pins) /\ Grows(proj.pins, e, r.eng)
         /\ r.unit = NoUnit \/ (r.unit \in AllUnits /\ r.unit.name = n /\ VisibleTo(r.unit, d))
<1> DEFINE pins == proj.pins
           pin == pins[d][n]
           pinned == IF pin = 0 THEN NoUnit ELSE InModule(e, n, pin, d)
           fresh == FeedUnit(Min(Offering(n, d)), n)
           stored == Stored([e EXCEPT !.flat[n] = IF @ = NoUnit THEN fresh ELSE @], fresh)
<1>0. e \in Engines /\ CatalogOK(pins, e) /\ pin \in Int /\ e.flat \in [Names -> AllUnits \union {NoUnit}] /\ e.cat \in SUBSET AllUnits
  BY DEF Catalogs, Engines
<1>1. Grows(pins, e, e)
  BY DEF Grows
<1>2. /\ Offering(n, d) # {} => Min(Offering(n, d)) \in Offering(n, d)
      /\ \A i \in Offering(n, d) : i \in 1 .. Len(Feeds) /\ i \in Nat /\ i >= 1
  BY OfferingType
<1>3. ASSUME NEW u \in AllUnits, FromFeed(pins, u), NEW f \in [Names -> AllUnits \union {NoUnit}],
             \A m \in Names : f[m] = e.flat[m] \/ (m = u.name /\ e.flat[m] = NoUnit /\ f[m] = u),
             f[u.name] # NoUnit \/ pins[u.distro][u.name] # 0
      PROVE  Stored([e EXCEPT !.flat = f], u) \in Catalogs(pins) /\ Grows(pins, e, Stored([e EXCEPT !.flat = f], u))
  <2>1. Stored([e EXCEPT !.flat = f], u) \in Catalogs(pins)
    BY <1>3, StoredOK
  <2>2. PICK g : g = Stored([e EXCEPT !.flat = f], u)
    OBVIOUS
  <2>3. g.flat = f /\ g.cat = {w \in e.cat : w.mod # u.mod \/ w.name # u.name} \union {u}
    BY <1>0, <2>2 DEF Stored, Engines
  <2>4. u.mod <= 0
    BY <1>3, OfferingType DEF FromFeed
  <2>5. \A w \in e.cat : FromFile(w) => w.mod # u.mod
    BY <2>4, FeedsAssumed DEF FromFile
  <2>6. Grows(pins, e, g)
    BY <1>3, <2>3, <2>5 DEF Grows
  <2> QED
    BY <2>1, <2>2, <2>6
<1>4. ASSUME NEW i \in Offering(n, d), i = ChosenFeed(pins, n, d)
      PROVE  /\ FeedUnit(i, n) \in AllUnits /\ FromFeed(pins, FeedUnit(i, n)) /\ FeedUnit(i, n).name = n
             /\ FeedUnit(i, n).distro = d /\ FeedUnit(i, n) # NoUnit
  BY <1>4, FeedUnitType DEF FromFeed
<1>5. pinned = NoUnit \/ (pinned \in AllUnits /\ pinned.name = n /\ VisibleTo(pinned, d) /\ pin # 0)
  <2>1. CASE pin < 0 /\ -pin \in Offering(n, d)
    <3>1. pinned = FeedUnit(-pin, n)
      BY <1>0, <2>1 DEF InModule
    <3> QED
      BY <1>0, <2>1, <3>1, FeedUnitType DEF VisibleTo
  <2>2. CASE pin > 0 /\ \E u \in Variants(e, n, d) : u.mod = pin
    <3>1. pinned = CHOOSE u \in Variants(e, n, d) : u.mod = pin
      BY <1>0, <2>2 DEF InModule
    <3>2. pinned \in Variants(e, n, d)
      BY <2>2, <3>1
    <3> QED
      BY <1>0, <2>2, <3>2 DEF Variants
  <2>3. CASE ~(pin < 0 /\ -pin \in Offering(n, d)) /\ ~(pin > 0 /\ \E u \in Variants(e, n, d) : u.mod = pin)
    BY <1>0, <2>3 DEF InModule
  <2> QED
    BY <2>1, <2>2, <2>3
<1>6. pin < 0 /\ pinned # NoUnit => -pin \in Offering(n, d) /\ pinned = FeedUnit(-pin, n)
  BY <1>0 DEF InModule
<1>7. pinned = NoUnit => ~(pin < 0 /\ -pin \in Offering(n, d))
  <2>1. ASSUME pin < 0, -pin \in Offering(n, d) PROVE pinned # NoUnit
    <3>1. pinned = FeedUnit(-pin, n)
      BY <1>0, <2>1 DEF InModule
    <3> QED
      BY <2>1, <3>1, FeedUnitType
  <2> QED
    BY <2>1
<1>8. CASE pinned # NoUnit /\ r = [unit |-> pinned, eng |-> IF pin < 0 THEN Stored(e, pinned) ELSE e]
  <2>1. CASE pin < 0
    <3>1. -pin \in Offering(n, d) /\ pinned = FeedUnit(-pin, n) /\ -pin = ChosenFeed(pins, n, d)
      BY <1>6, <1>8, <2>1 DEF ChosenFeed
    <3>2. FromFeed(pins, pinned) /\ pinned \in AllUnits /\ pinned.name = n /\ pinned.distro = d
      BY <1>4, <3>1
    <3>3. e = [e EXCEPT !.flat = e.flat]
      BY <1>0 DEF Engines
    <3>4. pins[pinned.distro][pinned.name] # 0
      BY <2>1, <3>2
    <3>5. Stored(e, pinned) \in Catalogs(pins) /\ Grows(pins, e, Stored(e, pinned))
      BY <1>0, <1>3, <3>2, <3>3, <3>4
    <3> QED
      BY <1>5, <1>8, <2>1, <3>5
  <2>2. CASE ~(pin < 0)
    BY <1>1, <1>5, <1>8, <2>2
  <2> QED
    BY <2>1, <2>2
<1>9. CASE pinned = NoUnit /\ e.flat[n] # NoUnit /\ VisibleTo(e.flat[n], d) /\ r = [unit |-> e.flat[n], eng |-> e]
  <2>1. e.flat[n] \in AllUnits /\ e.flat[n].name = n
    BY <1>0, <1>9 DEF CatalogOK
  <2> QED
    BY <1>1, <1>9, <2>1
<1>10. CASE Variants(e, n, d) # {} /\ r = [unit |-> FindVisible(e, n, d), eng |-> e]
  <2>1. FindVisible(e, n, d) \in Variants(e, n, d)
    BY <1>0, <1>10, FoundVisible
  <2> QED
    BY <1>0, <1>1, <1>10, <2>1 DEF Variants
<1>11. CASE pinned = NoUnit /\ Offering(n, d) # {} /\ r = [unit |-> fresh, eng |-> stored]
  <2>1. Min(Offering(n, d)) \in Offering(n, d) /\ Min(Offering(n, d)) = ChosenFeed(pins, n, d)
    BY <1>2, <1>7, <1>11 DEF ChosenFeed
  <2>2. fresh \in AllUnits /\ FromFeed(pins, fresh) /\ fresh.name = n /\ fresh.distro = d /\ fresh # NoUnit
    BY <1>4, <2>1
  <2> HIDE DEF fresh
  <2>3. PICK f : f = [e.flat EXCEPT ![n] = IF @ = NoUnit THEN fresh ELSE @]
    OBVIOUS
  <2>4. /\ f \in [Names -> AllUnits \union {NoUnit}] /\ f[n] # NoUnit
        /\ \A m \in Names : f[m] = e.flat[m] \/ (m = n /\ e.flat[m] = NoUnit /\ f[m] = fresh)
    BY <1>0, <2>2, <2>3
  <2>5. stored = Stored([e EXCEPT !.flat = f], fresh)
    BY <1>0, <2>3 DEF Engines
  <2>6. stored \in Catalogs(pins) /\ Grows(pins, e, stored)
    BY <1>3, <2>2, <2>4, <2>5
  <2> QED
    BY <1>11, <2>2, <2>6 DEF VisibleTo
<1>12. CASE r = [unit |-> NoUnit, eng |-> e]
  BY <1>1, <1>12
<1>13. \/ pinned # NoUnit /\ r = [unit |-> pinned, eng |-> IF pin < 0 THEN Stored(e, pinned) ELSE e]
       \/ pinned = NoUnit /\ e.flat[n] # NoUnit /\ VisibleTo(e.flat[n], d) /\ r = [unit |-> e.flat[n], eng |-> e]
       \/ Variants(e, n, d) # {} /\ r = [unit |-> FindVisible(e, n, d), eng |-> e]
       \/ pinned = NoUnit /\ Offering(n, d) # {} /\ r = [unit |-> fresh, eng |-> stored]
       \/ r = [unit |-> NoUnit, eng |-> e]
  BY DEF Lookup
<1> QED
  BY <1>8, <1>9, <1>10, <1>11, <1>12, <1>13

-----------------------------------------------------------------------------
(* Well-formed projects: a loaded file, or one of classes/, defines no      *)
(* unit; images/ has only images; and the name of an image is only an       *)
(* image's, which provides nothing and is in no feed.                       *)
WellFormed(p) ==
    /\ \A f \in DOMAIN p.files : \A g \in Range(p.files[f].loads) : p.files[g].unit = NoUnit
    /\ \A f \in DOMAIN p.files : p.files[f].dir = "classes" => p.files[f].unit = NoUnit
    /\ \A f \in DOMAIN p.files : p.files[f].dir = "images" => (p.files[f].unit = NoUnit \/ p.files[f].unit.class = "image")
    /\ \A f, g \in DOMAIN p.files :
          (p.files[f].unit # NoUnit /\ p.files[g].unit # NoUnit /\ p.files[f].unit.name = p.files[g].unit.name) =>
             (p.files[f].unit.class = "image" => p.files[g].unit.class = "image")
    /\ \A f \in DOMAIN p.files : (p.files[f].unit # NoUnit /\ p.files[f].unit.class = "image") =>
          /\ p.files[f].unit.provides = {}
          /\ \A i \in DOMAIN Feeds : p.files[f].unit.name \notin DOMAIN Feeds[i].offers

(* Types, and what a walk is of. *)
Frames == [file : DOMAIN proj.files, at : Nat \ {0}]
Walks == [distro : Distros, image : Names, queue : Seq(Names), deps : UNION {[S -> SUBSET Names] : S \in SUBSET Names},
          took : SUBSET AllUnits, order : {<<>>}]
DistroOf(f) == IF proj.files[f].unit.class = "image" THEN Override(proj.files[f].unit.distro, defaults.distro)
               ELSE proj.files[f].unit.distro

InvWalk ==
    /\ walk # NoWalk => walk \in Walks /\ phase \in {"images", "failed", "panic"}
    /\ (walk # NoWalk /\ phase = "images") =>
          /\ stack # <<>> /\ Top.at > Len(File.loads) /\ File.unit # NoUnit /\ File.unit.class = "image"
          /\ walk.image = File.unit.name /\ walk.distro = DistroOf(Top.file)

InvShape ==
    /\ proj \in Projects
    /\ phase \in {"project", "machines", "machinesOnly", "preflight", "units", "provides", "images",
                  "fixpoint", "views", "loaded", "failed", "panic"}
    /\ DOMAIN defaults = {"machine", "image", "distro"} /\ defaults.distro \in DistroTags
    /\ eng \in Catalogs(proj.pins) /\ \A u \in eng.cat : u.class = "image" => u.distro # NoName
    /\ provides \in [Names -> Names \union {NoName, Blank}]
    /\ stack \in Seq(Frames) /\ cache \in [DOMAIN proj.files -> {"none", "reserved", "done"}]
    /\ phase \in {"units", "images"} => todo \in Seq(DOMAIN proj.files)
    /\ phase = "provides" => todo \in Seq({n \in Names : eng.flat[n] # NoUnit})
    /\ phase \notin {"units", "images", "failed", "panic"} => stack = <<>>
    /\ phase = "loaded" => view = [d \in Distros |-> [n \in Names |-> ResolveForDistro(d, n)]]

(* The files being run, the first aside, are a chain of load()s without     *)
(* repetitions, and the reserved entries of the cache are theirs.           *)
InvStack ==
    /\ \A i \in 2 .. Len(stack) :
          stack[i].file \in Range(proj.files[stack[i - 1].file].loads) /\ cache[stack[i].file] = "reserved"
    /\ \A i, j \in 2 .. Len(stack) : stack[i].file = stack[j].file => i = j
    /\ \A f \in DOMAIN proj.files : cache[f] = "reserved" => \E i \in 2 .. Len(stack) : stack[i].file = f
    /\ NoNilEntry

(* Only images that the machine can boot are walked.                        *)
InvBoot ==
    /\ walk # NoWalk => Bootable(walk.distro)
    /\ \A c \in closures : Bootable(c.distro)

(* Files of the phase that have not ended, and the files that have.         *)
Bottom == IF stack = <<>> THEN {} ELSE {stack[1].file}
Left == Range(todo) \union Bottom
Evaluated ==
    {f \in DOMAIN proj.files :
        \/ /\ proj.files[f].dir \in {"containers", "units"}
           /\ phase \in {"provides", "images", "fixpoint", "views", "loaded"} \/ (phase = "units" /\ f \notin Left)
        \/ /\ proj.files[f].dir = "images"
           /\ phase \in {"fixpoint", "views", "loaded"} \/ (phase = "images" /\ f \notin Left)}

InvTodo ==
    phase \in {"units", "images"} =>
        /\ \A i, j \in DOMAIN todo : todo[i] = todo[j] => i = j
        /\ Bottom \cap Range(todo) = {}
        /\ \A f \in Left : proj.files[f].dir \in IF phase = "units" THEN {"containers", "units"} ELSE {"images"}

(* Whoever declared a unit has it, or one of the name with a higher         *)
(* priority that its distro sees.                                           *)
Served(f) ==
    LET u == proj.files[f].unit
        d == DistroOf(f)
    IN  /\ u.class = "image" => d # NoName
        /\ d # NoName => \E w \in eng.cat : FromFile(w) /\ w.name = u.name /\ VisibleTo(w, d) /\ w.idx >= proj.files[f].mod

(* f is the file that a unit of the catalog comes from. *)
Serves(f, w) ==
    /\ proj.files[f].unit # NoUnit /\ proj.files[f].mod = w.mod /\ proj.files[f].unit.name = w.name
    /\ proj.files[f].unit.class = "image" =>
          /\ w.class = "image" /\ w.distro # NoName
          /\ Bootable(w.distro) => \E c \in closures : c.image = w.name /\ c.distro = w.distro

InvServed ==
    phase \notin {"failed", "panic"} =>
        /\ \A f \in Evaluated : (proj.files[f].unit # NoUnit /\ Once(proj.files[f].unit.name)) => Served(f)
        /\ \A w \in eng.cat : (FromFile(w) /\ Once(w.name)) => \E f \in Evaluated : Serves(f, w)
        /\ \A n \in Names : (eng.flat[n] # NoUnit /\ FromFile(eng.flat[n]) /\ Once(n)) => eng.flat[n] \in eng.cat

(* The claims of n are settled: who provides what it claims is of no lower  *)
(* priority, if n is visible everywhere.                                    *)
Settled(n) ==
    \A v \in eng.flat[n].provides :
        /\ provides[v] # NoName
        /\ (eng.flat[n].distro = NoName /\ ~Unclaimed(v)) => Claimed(v).idx >= eng.flat[n].idx

InvProvides ==
    /\ phase = "provides" => \A n \in Names : (eng.flat[n] # NoUnit /\ n \notin Range(todo)) => Settled(n)
    /\ ProviderPriority

InvFiles == InvTodo /\ InvServed /\ InvProvides

LoadInv ==
    /\ InvShape /\ InvWalk /\ InvStack /\ InvBoot
    /\ WellFormed(proj) => InvFiles

-----------------------------------------------------------------------------
(* Lists of names and of files *)

(* What is kept of a list without repetitions.                              *)
LEMMA KeptApart ==
  ASSUME NEW S, NEW s \in Seq(S), Apart(s),
         NEW K \in SUBSET (1 .. Len(s)), NEW t, t = KeepAt(s, K)
  PROVE  /\ t \in Seq({s[k] : k \in K}) /\ Range(t) = {s[k] : k \in K} /\ Apart(t)
<1>1. PICK f : t \in Seq(S) /\ Picks(f, t, s, K)
  BY KeepAtPicks
<1>2. PICK M \in Nat : M = Len(t) /\ DOMAIN t = 1 .. M
  BY <1>1
<1>3. K \in SUBSET Nat
  OBVIOUS
<1>4. \A i \in 1 .. M : f[i] \in K /\ t[i] = s[f[i]]
  BY <1>1, <1>2 DEF Picks
<1>5. \A k \in K : \E i \in 1 .. M : f[i] = k
  BY <1>1, <1>2 DEF Picks
<1>6. \A i, j \in 1 .. M : t[i] = t[j] => i = j
  <2> TAKE i, j \in 1 .. M
  <2>1. ASSUME t[i] = t[j] PROVE i = j
    <3>0. PICK a \in 1 .. Len(s), b \in 1 .. Len(s) : a = f[i] /\ b = f[j]
      BY <1>4
    <3>1. f[i] = f[j]
      BY <1>4, <2>1, <3>0 DEF Apart
    <3>2. i \in 1 .. Len(t) /\ j \in 1 .. Len(t) /\ Len(t) \in Nat
      BY <1>2
    <3> QED
      BY <1>1, <1>3, <3>1, <3>2, PicksApart
  <2> QED
    BY <2>1
<1>7. \A i \in 1 .. M : t[i] \in {s[k] : k \in K}
  BY <1>4
<1>8. t \in Seq({s[k] : k \in K})
  <2>1. t \in [1 .. M -> {s[k] : k \in K}]
    <3>1. t = [i \in 1 .. M |-> t[i]]
      BY <1>1, <1>2
    <3> QED
      BY <1>7, <3>1
  <2> QED
    BY <2>1
<1>9. Range(t) = {s[k] : k \in K}
  <2>1. Range(t) = {t[i] : i \in 1 .. M}
    BY <1>2 DEF Range
  <2>2. ASSUME NEW x \in Range(t) PROVE x \in {s[k] : k \in K}
    BY <1>7, <2>1
  <2>3. ASSUME NEW k \in K PROVE s[k] \in Range(t)
    <3>1. PICK i \in 1 .. M : f[i] = k
      BY <1>5
    <3>2. t[i] = s[k]
      BY <1>4, <3>1
    <3> QED
      BY <2>1, <3>2
  <2> QED
    BY <2>2, <2>3
<1> QED
  BY <1>2, <1>6, <1>8, <1>9 DEF Apart

(* Names in order, each once.                                               *)
LEMMA SortedSound ==
  ASSUME NEW X, NEW t, t = Sorted(X)
  PROVE  t \in Seq(X \cap Names) /\ Range(t) = X \cap Names /\ Apart(t)
<1>1. PICK s : s = NameOrder
  OBVIOUS
<1>2. PICK M \in Nat : M = Len(s) /\ DOMAIN s = 1 .. M
  BY <1>1, LoadAssumption
<1>3. Names = {s[i] : i \in 1 .. M}
  BY <1>1, <1>2 DEF Names, Range
<1>4. s \in Seq(Names) /\ \A i, j \in 1 .. M : s[i] = s[j] => i = j
  <2>1. s = [i \in 1 .. M |-> s[i]]
    BY <1>1, <1>2, LoadAssumption
  <2>2. s \in [1 .. M -> Names]
    BY <1>3, <2>1
  <2> QED
    BY <1>1, <1>2, <2>2, LoadAssumption
<1>5. PICK K : K = {i \in 1 .. M : s[i] \in X}
  OBVIOUS
<1>6. K \in SUBSET (1 .. Len(s)) /\ t = KeepAt(s, K)
  BY <1>1, <1>2, <1>5 DEF Sorted
<1>7. {s[k] : k \in K} = X \cap Names
  BY <1>3, <1>5
<1>8. Apart(s)
  BY <1>2, <1>4 DEF Apart
<1>9. t \in Seq({s[k] : k \in K}) /\ Range(t) = {s[k] : k \in K} /\ Apart(t)
  BY <1>4, <1>6, <1>8, KeptApart
<1> QED
  BY <1>7, <1>9

LEMMA FileType ==
  ASSUME IsProject(proj), NEW f \in DOMAIN proj.files
  PROVE  /\ proj.files[f].mod \in 1 .. N + 1 /\ proj.files[f].dir \in Dirs
         /\ proj.files[f].loads \in Seq(DOMAIN proj.files)
         /\ proj.files[f].unit \in Units({0}, {0}) \union {NoUnit}
<1>1. PICK W, U, L : W = 1 .. N + 1 /\ U = Units({0}, {0}) \union {NoUnit} /\ L = Seq(Nat)
  OBVIOUS
<1>2. proj.files \in Seq([mod : W, dir : Dirs, loads : L, unit : U])
  BY <1>1 DEF IsProject
<1>3. PICK r : r = proj.files[f]
  OBVIOUS
<1>4. r \in [mod : W, dir : Dirs, loads : L, unit : U]
  <2>1. PICK T : T = [mod : W, dir : Dirs, loads : L, unit : U]
    OBVIOUS
  <2>2. proj.files \in Seq(T)
    BY <1>2, <2>1
  <2>3. proj.files[f] \in T
    BY <2>2
  <2> QED
    BY <1>3, <2>1, <2>3
<1>5. r.mod \in W /\ r.dir \in Dirs /\ r.loads \in L /\ r.unit \in U
  BY <1>4
<1>6. Range(r.loads) \subseteq DOMAIN proj.files
  BY <1>3 DEF IsProject
<1>7. r.loads \in Seq(DOMAIN proj.files)
  <2>1. PICK l, X : l = r.loads /\ X = DOMAIN proj.files
    OBVIOUS
  <2>2. l \in Seq(Nat) /\ Range(l) \subseteq X
    BY <1>1, <1>5, <1>6, <2>1
  <2>3. \A i \in 1 .. Len(l) : l[i] \in X
    BY <2>2 DEF Range
  <2>4. l \in [1 .. Len(l) -> X] /\ Len(l) \in Nat
    BY <2>2, <2>3
  <2>5. l \in Seq(X)
    BY <2>4
  <2> QED
    BY <2>1, <2>5
<1> QED
  BY <1>1, <1>3, <1>5, <1>7

(* r lists what s and t list. *)
Joins(r, S, s, t) ==
    /\ r \in Seq(S) /\ Range(r) = Range(s) \union Range(t)
    /\ (Apart(s) /\ Apart(t) /\ Range(s) \cap Range(t) = {}) => Apart(r)

(* What a list has is its head, or in its tail.                             *)
LEMMA HeadOrTail ==
  ASSUME NEW S, NEW s \in Seq(S), s # <<>>, NEW t, t = Tail(s)
  PROVE  Range(s) = Range(t) \union {Head(s)}
<1>1. PICK M \in Nat \ {0} : M = Len(s) /\ DOMAIN s = 1 .. M
  BY EmptySeq
<1>2. Head(s) = s[1] /\ DOMAIN t = 1 .. M - 1 /\ \A i \in 1 .. M - 1 : t[i] = s[i + 1]
  BY <1>1, HeadTailProperties
<1>3. /\ 1 \in 1 .. M /\ \A i \in 1 .. M - 1 : i + 1 \in 1 .. M
      /\ \A i \in 1 .. M : i = 1 \/ (i - 1 \in 1 .. M - 1 /\ (i - 1) + 1 = i)
  OBVIOUS
<1>4. Range(s) = {s[i] : i \in 1 .. M} /\ Range(t) = {t[i] : i \in 1 .. M - 1}
  BY <1>1, <1>2 DEF Range
<1>5. ASSUME NEW i \in 1 .. M PROVE s[i] = s[1] \/ \E j \in 1 .. M - 1 : s[i] = t[j]
  <2>1. i = 1 \/ (i - 1 \in 1 .. M - 1 /\ (i - 1) + 1 = i)
    BY <1>3
  <2>2. i - 1 \in 1 .. M - 1 => t[i - 1] = s[(i - 1) + 1]
    BY <1>2
  <2> QED
    BY ONLY <2>1, <2>2
<1>6. \A j \in 1 .. M - 1 : t[j] \in Range(s)
  BY <1>2, <1>3, <1>4
<1>7. Head(s) \in Range(s)
  BY <1>2, <1>3, <1>4
<1>8. Range(t) \subseteq Range(s)
  BY <1>4, <1>6
<1>9. \A x \in Range(s) : x = Head(s) \/ x \in Range(t)
  BY <1>2, <1>4, <1>5
<1> QED
  BY ONLY <1>7, <1>8, <1>9

LEMMA ConcatApart ==
  ASSUME NEW S, NEW s \in Seq(S), NEW t \in Seq(S), NEW r, r = s \o t
  PROVE  Joins(r, S, s, t)
<1>1. PICK M \in Nat, L \in Nat : M = Len(s) /\ DOMAIN s = 1 .. M /\ L = Len(t) /\ DOMAIN t = 1 .. L
  OBVIOUS
<1>2. /\ r \in Seq(S) /\ DOMAIN r = 1 .. (M + L)
      /\ \A i \in 1 .. (M + L) : r[i] = IF i <= M THEN s[i] ELSE t[i - M]
  BY <1>1, ConcatProperties
<1>3. ASSUME NEW i \in 1 .. (M + L)
      PROVE  (i \in 1 .. M /\ r[i] = s[i]) \/ (i > M /\ i - M \in 1 .. L /\ r[i] = t[i - M])
  BY <1>1, <1>2
<1>4. \A i \in 1 .. M : i \in 1 .. (M + L) /\ r[i] = s[i]
  BY <1>1, <1>2
<1>5. \A i \in 1 .. L : i + M \in 1 .. (M + L) /\ r[i + M] = t[i]
  <2> TAKE i \in 1 .. L
  <2>1. i + M \in 1 .. (M + L) /\ ~(i + M <= M) /\ (i + M) - M = i
    BY <1>1
  <2> QED
    BY <1>2, <2>1
<1>6. Range(r) = Range(s) \union Range(t)
  <2>1. Range(r) = {r[i] : i \in 1 .. (M + L)} /\ Range(s) = {s[i] : i \in 1 .. M} /\ Range(t) = {t[i] : i \in 1 .. L}
    BY <1>1, <1>2 DEF Range
  <2>2. ASSUME NEW x \in Range(r) PROVE x \in Range(s) \union Range(t)
    <3>1. PICK i \in 1 .. (M + L) : x = r[i]
      BY <2>1
    <3> QED
      BY <1>3, <2>1, <3>1
  <2>3. ASSUME NEW x \in Range(s) PROVE x \in Range(r)
    BY <1>4, <2>1
  <2>4. ASSUME NEW x \in Range(t) PROVE x \in Range(r)
    BY <1>5, <2>1
  <2> QED
    BY <2>2, <2>3, <2>4
<1>7. ASSUME Apart(s), Apart(t), Range(s) \cap Range(t) = {} PROVE Apart(r)
  <2>1. ASSUME NEW i \in 1 .. (M + L), NEW j \in 1 .. (M + L), r[i] = r[j] PROVE i = j
    <3>1. \A k \in 1 .. M : s[k] \in Range(s)
      BY <1>1 DEF Range
    <3>2. \A k \in 1 .. L : t[k] \in Range(t)
      BY <1>1 DEF Range
    <3>3. CASE i \in 1 .. M /\ r[i] = s[i]
      <4>1. r[j] \notin Range(t)
        BY <1>7, <2>1, <3>1, <3>3
      <4>2. j \in 1 .. M /\ r[j] = s[j]
        BY <1>3, <3>2, <4>1
      <4> QED
        BY <1>1, <1>7, <2>1, <3>3, <4>2 DEF Apart
    <3>4. CASE i > M /\ i - M \in 1 .. L /\ r[i] = t[i - M]
      <4>1. r[j] \notin Range(s)
        BY <1>7, <2>1, <3>2, <3>4
      <4>2. j > M /\ j - M \in 1 .. L /\ r[j] = t[j - M]
        BY <1>3, <3>1, <4>1
      <4>3. i - M = j - M
        BY <1>1, <1>7, <2>1, <3>4, <4>2 DEF Apart
      <4> QED
        BY <1>1, <4>3
    <3> QED
      BY <1>3, <3>3, <3>4
  <2> QED
    BY <1>2, <2>1 DEF Apart
<1> QED
  BY <1>2, <1>6, <1>7 DEF Joins

(* The files of a module in a directory. *)
LEMMA DirFilesSound ==
  ASSUME IsProject(proj), NEW m, NEW place, NEW t, t = DirFiles(m, place)
  PROVE  /\ t \in Seq(DOMAIN proj.files) /\ Apart(t)
         /\ Range(t) = {f \in DOMAIN proj.files : proj.files[f].mod = m /\ proj.files[f].dir = place}
<1>1. PICK M \in Nat : M = Len(proj.files) /\ DOMAIN proj.files = 1 .. M
  BY DEF IsProject
<1>2. PICK s : s = [f \in 1 .. M |-> f]
  OBVIOUS
<1>3. s \in Seq(1 .. M) /\ Len(s) = M /\ DOMAIN s = 1 .. M /\ Apart(s)
  <2>1. s \in [1 .. M -> 1 .. M]
    BY <1>2
  <2>2. s \in Seq(1 .. M) /\ Len(s) = M
    BY <2>1
  <2> QED
    BY <1>2, <2>2 DEF Apart
<1>4. PICK K \in SUBSET (1 .. M) : K = {f \in 1 .. M : proj.files[f].mod = m /\ proj.files[f].dir = place}
  OBVIOUS
<1>5. t = KeepAt(s, K)
  <2>1. PICK D : D = DOMAIN proj.files
    OBVIOUS
  <2>2. t = KeepAt([f \in D |-> f], {f \in D : proj.files[f].mod = m /\ proj.files[f].dir = place})
    BY <2>1 DEF DirFiles
  <2>3. D = 1 .. M
    BY <1>1, <2>1
  <2> QED
    BY ONLY <1>2, <1>4, <2>2, <2>3
<1>6. t \in Seq({s[k] : k \in K}) /\ Range(t) = {s[k] : k \in K} /\ Apart(t)
  <2>1. K \in SUBSET (1 .. Len(s))
    BY <1>3
  <2> QED
    BY <1>3, <1>5, <2>1, KeptApart
<1>7. {s[k] : k \in K} = K
  BY <1>2, <1>4
<1>8. t \in Seq(K) /\ Range(t) = K
  BY <1>6, <1>7
<1>9. t \in Seq(1 .. M)
  BY <1>4, <1>8, SeqMonotonic
<1> QED
  BY <1>1, <1>4, <1>6, <1>8, <1>9

(* Every file of a directory is evaluated once: the root's, then the        *)
(* modules' in their order.                                                 *)
LEMMA OrderSound ==
  ASSUME IsProject(proj), NEW place, NEW t, t = Order(place)
  PROVE  /\ t \in Seq(DOMAIN proj.files) /\ Apart(t)
         /\ Range(t) = {f \in DOMAIN proj.files : proj.files[f].dir = place}
<1> DEFINE V == Seq(DOMAIN proj.files)
           From(k) == {f \in DOMAIN proj.files : proj.files[f].dir = place /\ proj.files[f].mod \in {N + 1} \union (1 .. k)}
<1>1. \A m : DirFiles(m, place) \in V /\ Apart(DirFiles(m, place))
             /\ Range(DirFiles(m, place)) = {f \in DOMAIN proj.files : proj.files[f].mod = m /\ proj.files[f].dir = place}
  BY DirFilesSound
<1>2. \A s \in V, k \in Nat : s \o DirFiles(k, place) \in V
  BY <1>1
<1> HIDE DEF V
<1>3. PICK D \in [V \X Nat -> V] : \A s \in V, k \in Nat : D[<<s, k>>] = s \o DirFiles(k, place)
  <2> DEFINE Add(s, k) == s \o DirFiles(k, place)
  <2>0. \A s \in V, k \in Nat : Add(s, k) \in V
    BY <1>2
  <2> HIDE DEF Add
  <2>1. PICK D : D = [p \in V \X Nat |-> Add(p[1], p[2])]
    OBVIOUS
  <2>2. \A s \in V, k \in Nat : D[<<s, k>>] = Add(s, k)
    BY ONLY <2>1
  <2>3. \A p \in V \X Nat : D[p] \in V
    <3>1. \A p \in V \X Nat : p[1] \in V /\ p[2] \in Nat /\ p = <<p[1], p[2]>>
      OBVIOUS
    <3> QED
      BY ONLY <2>0, <2>2, <3>1
  <2>4. D \in [V \X Nat -> V]
    BY ONLY <2>1, <2>3
  <2> QED
    BY <2>2, <2>4 DEF Add
<1>4. PICK f : Unrolls(f, V, DirFiles(N + 1, place), D, N)
  BY <1>1, FeedsAssumed, Recursion
<1>5. f \in [0 .. N -> V] /\ f = [k \in 0 .. N |-> IF k = 0 THEN DirFiles(N + 1, place) ELSE D[<<f[k - 1], k>>]]
  BY <1>4 DEF Unrolls
<1> DEFINE F(g) == [k \in 0 .. N |-> IF k = 0 THEN DirFiles(N + 1, place) ELSE g[k - 1] \o DirFiles(k, place)]
<1>6. f = F(f)
  <2>1. ASSUME NEW k \in 0 .. N
        PROVE  f[k] = IF k = 0 THEN DirFiles(N + 1, place) ELSE f[k - 1] \o DirFiles(k, place)
    <3>1. k = 0 \/ (k # 0 /\ k \in Nat /\ k - 1 \in 0 .. N)
      BY FeedsAssumed
    <3> QED
      BY <1>3, <1>5, <3>1
  <2> QED
    BY <1>5, <2>1
<1>7. PICK g : g = F(g) /\ t = g[N]
  <2>1. PICK g : g = CHOOSE h : h = F(h)
    OBVIOUS
  <2>2. g = F(g)
    BY <1>6, <2>1
  <2>3. t = g[N]
    BY <2>1 DEF Order
  <2> QED
    BY <2>2, <2>3
<1> DEFINE P == {k \in Nat : k \in 0 .. N => g[k] \in V /\ Apart(g[k]) /\ Range(g[k]) = From(k)}
<1>8. 0 \in P
  <2>1. 0 \in 0 .. N /\ 1 .. 0 = {}
    BY FeedsAssumed
  <2>2. g[0] = DirFiles(N + 1, place)
    BY <1>7, <2>1
  <2> QED
    BY <1>1, <2>1, <2>2
<1>9. ASSUME NEW k \in Nat, k < N, k \in P PROVE k + 1 \in P
  <2>1. k + 1 \in 0 .. N /\ k \in 0 .. N /\ (k + 1) - 1 = k /\ k + 1 # 0 /\ k + 1 # N + 1
        /\ 1 .. (k + 1) = (1 .. k) \union {k + 1} /\ k + 1 \notin 1 .. k
    BY <1>9, FeedsAssumed
  <2>2. g[k + 1] = g[k] \o DirFiles(k + 1, place)
    BY <1>7, <2>1
  <2>3. g[k] \in V /\ Apart(g[k]) /\ Range(g[k]) = From(k)
    BY <1>9, <2>1
  <2>4. PICK d : d = DirFiles(k + 1, place) /\ d \in V /\ Apart(d)
                 /\ Range(d) = {f1 \in DOMAIN proj.files : proj.files[f1].mod = k + 1 /\ proj.files[f1].dir = place}
    BY <1>1
  <2>5. Range(g[k]) \cap Range(d) = {} /\ Range(g[k]) \union Range(d) = From(k + 1)
    BY <2>1, <2>3, <2>4
  <2>6. g[k + 1] \in V /\ Range(g[k + 1]) = Range(g[k]) \union Range(d)
        /\ (Apart(g[k]) /\ Apart(d) /\ Range(g[k]) \cap Range(d) = {} => Apart(g[k + 1]))
    <3>1. g[k] \in Seq(DOMAIN proj.files) /\ d \in Seq(DOMAIN proj.files)
      BY <2>3, <2>4 DEF V
    <3>2. g[k + 1] = g[k] \o d
      BY <2>2, <2>4
    <3>3. Joins(g[k + 1], DOMAIN proj.files, g[k], d)
      BY ONLY <3>1, <3>2, ConcatApart
    <3> QED
      BY <3>3 DEF V, Joins
  <2> QED
    BY <2>3, <2>4, <2>5, <2>6
<1> HIDE DEF P
<1>10. \A k \in 0 .. N : k \in P
  BY <1>8, <1>9, FeedsAssumed, StepByStep
<1>11. t \in V /\ Apart(t) /\ Range(t) = From(N)
  <2>1. N \in 0 .. N /\ N \in Nat
    BY FeedsAssumed
  <2> QED
    BY <1>7, <1>10, <2>1 DEF P
<1>12. \A f1 \in DOMAIN proj.files : proj.files[f1].mod \in {N + 1} \union (1 .. N)
  <2>1. PICK W : W = 1 .. N + 1
    OBVIOUS
  <2>2. \A f1 \in DOMAIN proj.files : proj.files[f1].mod \in W
    BY <2>1, FileType
  <2>3. \A m \in W : m \in {N + 1} \union (1 .. N)
    BY <2>1, FeedsAssumed
  <2> QED
    BY <2>2, <2>3
<1> QED
  BY <1>11, <1>12 DEF V

-----------------------------------------------------------------------------
(* topoOrder *)

LEMMA NamesFinite == IsFiniteSet(Names)
<1>1. PICK s : s = NameOrder
  OBVIOUS
<1>2. PICK M \in Nat : M = Len(s) /\ DOMAIN s = 1 .. M /\ s = [i \in 1 .. M |-> s[i]]
  BY <1>1, LoadAssumption
<1>3. Names = {s[i] : i \in 1 .. M}
  BY <1>1, <1>2 DEF Names, Range
<1>4. s \in Surjection(1 .. M, Names)
  <2>1. s \in [1 .. M -> Names]
    BY <1>2, <1>3
  <2>2. \A n \in Names : \E i \in 1 .. M : s[i] = n
    BY <1>3
  <2> QED
    BY <2>1, <2>2 DEF Surjection
<1>5. IsFiniteSet(1 .. M)
  BY FS_Interval
<1> QED
  BY <1>4, <1>5, FS_Surjection

(* What is ready once the names in out are listed; a list in which every    *)
(* name comes after what it needs; and what the waves make of one.          *)
Ready(deps, out) == {n \in DOMAIN deps \ out : (deps[n] \cap DOMAIN deps) \ {n} \subseteq out}
After(deps, s, i) == \A m \in (deps[s[i]] \cap DOMAIN deps) \ {s[i]} : \E j \in 1 .. Len(s) : j < i /\ s[j] = m
Waves(deps) ==
    {b \in [out : SUBSET DOMAIN deps, order : Seq(Names)] :
        Range(b.order) = b.out /\ Apart(b.order) /\ \A i \in 1 .. Len(b.order) : After(deps, b.order, i)}

LEMMA WaveSound ==
  ASSUME NEW S \in SUBSET Names, NEW deps \in [S -> SUBSET Names], NEW b \in Waves(deps), NEW r, r = NextWave(deps, b)
  PROVE  r \in Waves(deps) /\ r.out = b.out \union Ready(deps, b.out)
<1>1. PICK R : R = Ready(deps, b.out)
  OBVIOUS
<1>2. R \subseteq S \ b.out /\ \A n \in R : (deps[n] \cap DOMAIN deps) \ {n} \subseteq b.out
  BY <1>1 DEF Ready
<1>3. /\ b.out \subseteq S /\ b.order \in Seq(Names) /\ Range(b.order) = b.out /\ Apart(b.order)
      /\ \A i \in 1 .. Len(b.order) : After(deps, b.order, i)
  BY DEF Waves
<1>4. PICK s, t : s = b.order /\ t = Sorted(R)
  OBVIOUS
<1>5. r = [out |-> b.out \union R, order |-> s \o t]
  BY <1>1, <1>4 DEF NextWave, Ready
<1>6. t \in Seq(Names) /\ Range(t) = R /\ Apart(t)
  <2>1. t \in Seq(R \cap Names) /\ Range(t) = R \cap Names /\ Apart(t)
    BY <1>4, SortedSound
  <2>2. R \cap Names = R /\ R \subseteq Names
    BY <1>2
  <2> QED
    BY <2>1, <2>2, SeqMonotonic
<1>7. PICK q : q = s \o t
  OBVIOUS
<1>8. q \in Seq(Names) /\ Range(q) = b.out \union R /\ Apart(q)
  <2>1. s \in Seq(Names) /\ Range(s) = b.out /\ Apart(s)
    BY <1>3, <1>4
  <2>2. Range(s) \cap Range(t) = {}
    BY <1>2, <1>6, <2>1
  <2>3. t \in Seq(Names) /\ s \in Seq(Names)
    BY <1>6, <2>1
  <2>4. PICK Y : Y = Names
    OBVIOUS
  <2>5. q \in Seq(Y) /\ Range(q) = Range(s) \union Range(t)
        /\ ((Apart(s) /\ Apart(t) /\ Range(s) \cap Range(t) = {}) => Apart(q))
    <3>1. t \in Seq(Y) /\ s \in Seq(Y)
      BY <2>3, <2>4
    <3>2. Joins(q, Y, s, t)
      BY ONLY <1>7, <3>1, ConcatApart
    <3> QED
      BY <3>2 DEF Joins
  <2> QED
    BY <1>6, <2>1, <2>2, <2>4, <2>5
<1>9. PICK M \in Nat, L \in Nat : M = Len(s) /\ DOMAIN s = 1 .. M /\ L = Len(t) /\ DOMAIN t = 1 .. L
  BY <1>3, <1>4, <1>6
<1>10. /\ Len(q) = M + L
       /\ \A i \in 1 .. (M + L) : q[i] = IF i <= M THEN s[i] ELSE t[i - M]
  <2>1. s \in Seq(Names)
    BY <1>3, <1>4
  <2> QED
    BY <1>6, <1>7, <1>9, <2>1, ConcatProperties
<1>11. \A i \in 1 .. M : i \in 1 .. (M + L) /\ q[i] = s[i]
  BY <1>9, <1>10
<1>12. ASSUME NEW i \in 1 .. (M + L) PROVE After(deps, q, i)
  <2>1. CASE i \in 1 .. M
    <3>1. After(deps, s, i) /\ q[i] = s[i]
      BY <1>3, <1>4, <1>9, <1>11, <2>1
    <3>2. ASSUME NEW m \in (deps[q[i]] \cap DOMAIN deps) \ {q[i]} PROVE \E j \in 1 .. Len(q) : j < i /\ q[j] = m
      <4>1. PICK j \in 1 .. M : j < i /\ s[j] = m
        BY <1>9, <3>1, <3>2 DEF After
      <4> QED
        BY <1>10, <1>11, <4>1
    <3> QED
      BY <3>2 DEF After
  <2>2. CASE i \notin 1 .. M
    <3>1. i > M /\ i - M \in 1 .. L /\ q[i] = t[i - M]
      BY <1>9, <1>10, <2>2
    <3>2. q[i] \in R
      <4>1. PICK x \in 1 .. L : x = i - M
        BY <3>1
      <4>2. t[x] \in Range(t)
        BY <1>9, <4>1 DEF Range
      <4> QED
        BY <1>6, <3>1, <4>1, <4>2
    <3>3. ASSUME NEW m \in (deps[q[i]] \cap DOMAIN deps) \ {q[i]} PROVE \E j \in 1 .. Len(q) : j < i /\ q[j] = m
      <4>1. m \in Range(s)
        BY <1>2, <1>3, <1>4, <3>2, <3>3
      <4>2. PICK j \in 1 .. M : s[j] = m
        BY <1>9, <4>1 DEF Range
      <4>3. j < i /\ j \in 1 .. (M + L)
        BY <1>9, <1>11, <3>1, <4>2
      <4> QED
        BY <1>10, <1>11, <4>2, <4>3
    <3> QED
      BY <3>3 DEF After
  <2> QED
    BY <2>1, <2>2
<1>13. r.out = b.out \union R /\ r.order = q /\ r \in [out : SUBSET DOMAIN deps, order : Seq(Names)]
  BY <1>2, <1>3, <1>5, <1>7, <1>8
<1>14. r \in Waves(deps)
  BY <1>8, <1>10, <1>12, <1>13 DEF Waves
<1> QED
  BY <1>1, <1>13, <1>14

(* topoOrder lists every name once; the names that some wave lists come     *)
(* after what they need, and of the others each needs one of the others.    *)
LEMMA TopoSound ==
  ASSUME NEW S \in SUBSET Names, NEW deps \in [S -> SUBSET Names], NEW t, t = TopoOrder(deps)
  PROVE  /\ t \in Seq(Names) /\ Range(t) = S /\ Apart(t)
         /\ \E out \in SUBSET S : Ready(deps, out) = {} /\ \A i \in 1 .. Len(t) : t[i] \in out => After(deps, t, i)
<1> DEFINE V == Waves(deps)
           b0 == [out |-> {}, order |-> <<>>]
<1>1. PICK C \in Nat : C = Cardinality(S) /\ IsFiniteSet(S)
  BY NamesFinite, FS_Subset, FS_CardinalityType
<1>2. b0 \in V
  <2>1. <<>> \in Seq(Names) /\ Len(<<>>) = 0 /\ DOMAIN <<>> = {} /\ 1 .. 0 = {}
    OBVIOUS
  <2>2. Range(<<>>) = {} /\ Apart(<<>>)
    BY <2>1 DEF Range, Apart
  <2> QED
    BY <2>1, <2>2 DEF Waves
<1>3. \A b \in V : NextWave(deps, b) \in V /\ NextWave(deps, b).out = b.out \union Ready(deps, b.out)
  BY WaveSound
<1> HIDE DEF V, b0
<1>4. PICK D \in [V \X Nat -> V] : \A b \in V, k \in Nat : D[<<b, k>>] = NextWave(deps, b)
  <2>1. PICK D : D = [p \in V \X Nat |-> NextWave(deps, p[1])]
    OBVIOUS
  <2>2. \A b \in V, k \in Nat : D[<<b, k>>] = NextWave(deps, b)
    BY ONLY <2>1
  <2>3. \A p \in V \X Nat : D[p] \in V
    <3>1. \A p \in V \X Nat : p[1] \in V /\ p[2] \in Nat /\ p = <<p[1], p[2]>>
      OBVIOUS
    <3>2. \A b \in V : NextWave(deps, b) \in V
      BY <1>3
    <3> QED
      BY ONLY <3>2, <2>2, <3>1
  <2>4. D \in [V \X Nat -> V]
    BY ONLY <2>1, <2>3
  <2> QED
    BY ONLY <2>2, <2>4
<1>5. PICK f : Unrolls(f, V, b0, D, C)
  BY <1>2, Recursion
<1>6. f \in [0 .. C -> V] /\ f = [k \in 0 .. C |-> IF k = 0 THEN b0 ELSE D[<<f[k - 1], k>>]]
  BY <1>5 DEF Unrolls
<1> DEFINE F(g) == [k \in 0 .. C |-> IF k = 0 THEN b0 ELSE NextWave(deps, g[k - 1])]
<1>7. f = F(f)
  <2>1. ASSUME NEW k \in 0 .. C
        PROVE  f[k] = IF k = 0 THEN b0 ELSE NextWave(deps, f[k - 1])
    <3>1. k = 0 \/ (k # 0 /\ k \in Nat /\ k - 1 \in 0 .. C)
      OBVIOUS
    <3> QED
      BY <1>4, <1>6, <3>1
  <2> QED
    BY <1>6, <2>1
<1>8. PICK g : g = F(g) /\ t = g[C].order \o Sorted(S \ g[C].out)
  <2>1. PICK g : g = CHOOSE h : h = F(h)
    OBVIOUS
  <2>2. g = F(g)
    BY <1>7, <2>1
  <2>3. DOMAIN deps = S
    OBVIOUS
  <2>4. t = g[C].order \o Sorted(S \ g[C].out)
    BY <1>1, <2>1, <2>3 DEF TopoOrder, b0
  <2> QED
    BY <2>2, <2>4
<1> DEFINE P == {k \in Nat : k \in 0 .. C => g[k] \in V /\ (Ready(deps, g[k].out) = {} \/ Cardinality(g[k].out) >= k)}
<1>9. 0 \in P
  <2>1. 0 \in 0 .. C
    OBVIOUS
  <2>2. g[0] = b0
    BY <1>8, <2>1
  <2>3. Cardinality(b0.out) = 0
    BY FS_EmptySet DEF b0
  <2> QED
    BY <1>2, <2>2, <2>3
<1>10. ASSUME NEW k \in Nat, k < C, k \in P PROVE k + 1 \in P
  <2>1. k + 1 \in 0 .. C /\ k \in 0 .. C /\ (k + 1) - 1 = k /\ k + 1 # 0
    BY <1>10
  <2>2. g[k + 1] = NextWave(deps, g[k])
    BY <1>8, <2>1
  <2>3. g[k] \in V /\ (Ready(deps, g[k].out) = {} \/ Cardinality(g[k].out) >= k)
    BY <1>10, <2>1
  <2>4. PICK O, R : O = g[k].out /\ R = Ready(deps, O) /\ g[k + 1] \in V /\ g[k + 1].out = O \union R
    BY <1>3, <2>2, <2>3
  <2>5. O \subseteq S /\ R \subseteq S \ O
    BY <2>3, <2>4 DEF V, Waves, Ready
  <2>6. CASE R = {}
    BY <2>4, <2>6
  <2>7. CASE R # {}
    <3>1. PICK x \in R : x \in S /\ x \notin O
      BY <2>5, <2>7
    <3>2. IsFiniteSet(O) /\ IsFiniteSet(O \union R)
      BY <1>1, <2>5, FS_Subset
    <3>3. PICK c \in Nat, d \in Nat : c = Cardinality(O) /\ d = Cardinality(O \union R)
      BY <3>2, FS_CardinalityType
    <3>4. Cardinality(O \union {x}) = c + 1
      BY <3>1, <3>2, <3>3, FS_AddElement
    <3>5. O \union {x} \subseteq O \union R
      BY <3>1
    <3>6. c + 1 <= d
      BY <3>2, <3>3, <3>4, <3>5, FS_Subset
    <3>7. c >= k
      BY <2>3, <2>4, <2>7, <3>3
    <3>8. d >= k + 1
      BY <3>6, <3>7
    <3>9. k + 1 \in Nat /\ Cardinality(g[k + 1].out) >= k + 1 /\ g[k + 1] \in V
      BY <2>4, <3>3, <3>8
    <3> QED
      BY <3>9
  <2> QED
    BY <2>6, <2>7
<1> HIDE DEF P
<1>11. \A k \in 0 .. C : k \in P
  BY <1>9, <1>10, StepByStep
<1>12. PICK O, s : O = g[C].out /\ s = g[C].order
  OBVIOUS
<1>13. /\ O \subseteq S /\ s \in Seq(Names) /\ Range(s) = O /\ Apart(s)
       /\ \A i \in 1 .. Len(s) : After(deps, s, i)
  <2>1. g[C] \in V
    BY <1>11 DEF P
  <2> QED
    BY <1>12, <2>1 DEF V, Waves
<1>14. Ready(deps, O) = {}
  <2>1. Ready(deps, O) = {} \/ Cardinality(O) >= C
    BY <1>11, <1>12 DEF P
  <2>2. ASSUME Cardinality(O) >= C PROVE O = S
    <3>1. Cardinality(O) <= C /\ Cardinality(O) \in Nat
      BY <1>1, <1>13, FS_Subset, FS_CardinalityType
    <3>2. Cardinality(O) = C
      BY <2>2, <3>1
    <3> QED
      BY <1>1, <1>13, <3>2, FS_Subset
  <2> QED
    BY <2>1, <2>2 DEF Ready
<1>15. PICK r : r = Sorted(S \ O)
  OBVIOUS
<1>16. r \in Seq(Names) /\ Range(r) = S \ O /\ Apart(r)
  <2>1. r \in Seq((S \ O) \cap Names) /\ Range(r) = (S \ O) \cap Names /\ Apart(r)
    BY <1>15, SortedSound
  <2>2. (S \ O) \cap Names = S \ O /\ S \ O \subseteq Names
    OBVIOUS
  <2> QED
    BY <2>1, <2>2, SeqMonotonic
<1>17. t = s \o r
  BY <1>8, <1>12, <1>15
<1>18. t \in Seq(Names) /\ Range(t) = S /\ Apart(t)
  <2>1. s \in Seq(Names) /\ r \in Seq(Names)
    BY <1>13, <1>16
  <2>2. t \in Seq(Names) /\ Range(t) = Range(s) \union Range(r)
        /\ ((Apart(s) /\ Apart(r) /\ Range(s) \cap Range(r) = {}) => Apart(t))
    <3>1. PICK Y : Y = Names
      OBVIOUS
    <3>2. s \in Seq(Y) /\ r \in Seq(Y)
      BY <2>1, <3>1
    <3>3. t \in Seq(Y) /\ Range(t) = Range(s) \union Range(r)
          /\ ((Apart(s) /\ Apart(r) /\ Range(s) \cap Range(r) = {}) => Apart(t))
      <4>1. Joins(t, Y, s, r)
        BY ONLY <1>17, <3>2, ConcatApart
      <4> QED
        BY <4>1 DEF Joins
    <3> QED
      BY <3>1, <3>3
  <2>3. Range(s) \cap Range(r) = {} /\ Range(s) \union Range(r) = S
    BY <1>13, <1>16
  <2> QED
    BY <1>13, <1>16, <2>2, <2>3
<1>19. ASSUME NEW i \in 1 .. Len(t), t[i] \in O PROVE After(deps, t, i)
  <2>1. PICK M \in Nat, L \in Nat : M = Len(s) /\ DOMAIN s = 1 .. M /\ L = Len(r) /\ DOMAIN r = 1 .. L
    BY <1>13, <1>16
  <2>2. Len(t) = M + L /\ \A j \in 1 .. (M + L) : t[j] = IF j <= M THEN s[j] ELSE r[j - M]
    BY <1>13, <1>16, <1>17, <2>1, ConcatProperties
  <2>3. \A j \in 1 .. M : j \in 1 .. (M + L) /\ t[j] = s[j]
    BY <2>1, <2>2
  <2>4. i \in 1 .. M
    <3>1. CASE i > M
      <4>1. i - M \in 1 .. L /\ t[i] = r[i - M]
        BY <1>19, <2>1, <2>2, <3>1
      <4>2. PICK x \in 1 .. L : x = i - M
        BY <4>1
      <4>3. r[x] \in Range(r)
        BY <2>1, <4>2 DEF Range
      <4> QED
        BY <1>16, <1>19, <4>1, <4>2, <4>3
    <3> QED
      BY <1>19, <2>1, <2>2, <3>1
  <2>5. After(deps, s, i) /\ t[i] = s[i]
    BY <1>13, <2>1, <2>3, <2>4
  <2>6. ASSUME NEW m \in (deps[t[i]] \cap DOMAIN deps) \ {t[i]} PROVE \E j \in 1 .. Len(t) : j < i /\ t[j] = m
    <3>1. PICK j \in 1 .. M : j < i /\ s[j] = m
      BY <2>1, <2>5, <2>6 DEF After
    <3> QED
      BY <2>2, <2>3, <3>1
  <2> QED
    BY <2>6 DEF After
<1> QED
  BY <1>13, <1>14, <1>18, <1>19

-----------------------------------------------------------------------------
(* Resolving lists of names. *)

(* What has been resolved: a catalog that grew out of e, and visible units. *)
IsMapped(x) == \E m \in Names : x = Mapped(m)
Resolutions(pins, e, d) ==
    {a \in [eng : Catalogs(pins), units : Seq(AllUnits), missing : Names \union {NoName}] :
        Grows(pins, e, a.eng) /\ \A i \in 1 .. Len(a.units) : VisibleTo(a.units[i], d) /\ IsMapped(a.units[i].name)}

LEMMA GrowsOn ==
  ASSUME NEW pins, NEW e, NEW f, NEW g \in Catalogs(pins), Grows(pins, e, f), Grows(pins, f, g)
  PROVE  Grows(pins, e, g)
<1>1. \A u \in e.cat : FromFile(u) => u \in g.cat
  BY DEF Grows
<1>2. \A u \in g.cat : u \in e.cat \/ FromFeed(pins, u)
  BY DEF Grows
<1>3. \A n \in Names : g.flat[n] = e.flat[n] \/ (e.flat[n] = NoUnit /\ FromFeed(pins, g.flat[n]))
  BY DEF Grows
<1> QED
  BY <1>1, <1>2, <1>3 DEF Grows

LEMMA ResolveNextSound ==
  ASSUME proj.pins \in [Distros -> [Names -> Int]], provides \in [Names -> Names \union {NoName, Blank}],
         NEW e \in Catalogs(proj.pins), NEW d \in Distros, NEW a \in Resolutions(proj.pins, e, d), NEW n \in Names
  PROVE  ResolveNext(a, n, d) \in Resolutions(proj.pins, e, d)
<1>1. PICK m \in Names : m = Mapped(n) /\ IsMapped(m)
  BY DEF Mapped, IsMapped
<1>2. PICK r : r = Lookup(a.eng, m, d)
  OBVIOUS
<1>3. /\ a \in [eng : Catalogs(proj.pins), units : Seq(AllUnits), missing : Names \union {NoName}]
      /\ Grows(proj.pins, e, a.eng) /\ \A i \in 1 .. Len(a.units) : VisibleTo(a.units[i], d) /\ IsMapped(a.units[i].name)
  BY DEF Resolutions
<1>4. /\ r.eng \in Catalogs(proj.pins) /\ Grows(proj.pins, a.eng, r.eng)
      /\ r.unit = NoUnit \/ (r.unit \in AllUnits /\ r.unit.name = m /\ VisibleTo(r.unit, d))
  BY <1>2, <1>3, LookupSound
<1>5. PICK b : b = ResolveNext(a, n, d)
  OBVIOUS
<1>6. b = IF a.missing # NoName THEN a
          ELSE IF r.unit = NoUnit THEN [a EXCEPT !.missing = n]
          ELSE [a EXCEPT !.eng = r.eng, !.units = Append(@, r.unit)]
  BY <1>1, <1>2, <1>5 DEF ResolveNext
<1>7. CASE b = [a EXCEPT !.missing = n]
  <2>1. b \in [eng : Catalogs(proj.pins), units : Seq(AllUnits), missing : Names \union {NoName}]
        /\ b.eng = a.eng /\ b.units = a.units
    BY <1>3, <1>7
  <2> QED
    BY <1>3, <1>5, <2>1 DEF Resolutions
<1>8. CASE r.unit # NoUnit /\ b = [a EXCEPT !.eng = r.eng, !.units = Append(@, r.unit)]
  <2>1. PICK u \in AllUnits : u = r.unit /\ VisibleTo(u, d) /\ IsMapped(u.name)
    BY <1>1, <1>4, <1>8
  <2>2. PICK s \in Seq(AllUnits) : s = a.units
    BY <1>3
  <2>3. PICK t : t = Append(s, u)
    OBVIOUS
  <2>4. t \in Seq(AllUnits) /\ Len(t) = Len(s) + 1 /\ \A i \in 1 .. Len(t) : t[i] = u \/ (i \in 1 .. Len(s) /\ t[i] = s[i])
    BY <2>3, AppendProperties
  <2>5. b = [a EXCEPT !.eng = r.eng, !.units = t]
    BY <1>3, <1>8, <2>1, <2>2, <2>3
  <2>6. b \in [eng : Catalogs(proj.pins), units : Seq(AllUnits), missing : Names \union {NoName}]
        /\ b.eng = r.eng /\ b.units = t
    BY <1>3, <1>4, <2>4, <2>5
  <2>7. Grows(proj.pins, e, b.eng)
    BY <1>3, <1>4, <2>6, GrowsOn
  <2>8. \A i \in 1 .. Len(b.units) : VisibleTo(b.units[i], d) /\ IsMapped(b.units[i].name)
    BY <1>3, <2>1, <2>2, <2>4, <2>6
  <2> QED
    BY <1>5, <2>6, <2>7, <2>8 DEF Resolutions
<1> QED
  BY <1>5, <1>6, <1>7, <1>8

LEMMA ResolveAllSound ==
  ASSUME proj.pins \in [Distros -> [Names -> Int]], provides \in [Names -> Names \union {NoName, Blank}],
         NEW e \in Catalogs(proj.pins), NEW d \in Distros, NEW s \in Seq(Names), NEW r, r = ResolveAll(e, s, d)
  PROVE  r \in Resolutions(proj.pins, e, d)
<1> DEFINE V == Resolutions(proj.pins, e, d)
           a0 == [eng |-> e, units |-> <<>>, missing |-> NoName]
           Add(a, k) == IF k \in 1 .. Len(s) THEN ResolveNext(a, s[k], d) ELSE a
<1>n. PICK L \in Nat : L = Len(s) /\ \A k \in 1 .. L : s[k] \in Names
  OBVIOUS
<1>1. a0 \in V
  <2>1. Grows(proj.pins, e, e)
    BY DEF Grows
  <2>2. <<>> \in Seq(AllUnits) /\ Len(<<>>) = 0 /\ 1 .. 0 = {}
    OBVIOUS
  <2> QED
    BY <2>1, <2>2 DEF Resolutions
<1>2. \A a \in V, n \in Names : ResolveNext(a, n, d) \in V
  BY ResolveNextSound
<1> HIDE DEF V, a0
<1>3. ASSUME NEW a \in V, NEW k \in Nat PROVE Add(a, k) \in V
  BY <1>n, <1>2
<1> HIDE DEF Add
<1>4. PICK D \in [V \X Nat -> V] : \A a \in V, k \in Nat : D[<<a, k>>] = Add(a, k)
  <2>1. PICK D : D = [p \in V \X Nat |-> Add(p[1], p[2])]
    OBVIOUS
  <2>2. \A a \in V, k \in Nat : D[<<a, k>>] = Add(a, k)
    BY ONLY <2>1
  <2>3. \A p \in V \X Nat : D[p] \in V
    <3>1. \A p \in V \X Nat : p[1] \in V /\ p[2] \in Nat /\ p = <<p[1], p[2]>>
      OBVIOUS
    <3> QED
      BY ONLY <1>3, <2>2, <3>1
  <2>4. D \in [V \X Nat -> V]
    BY ONLY <2>1, <2>3
  <2> QED
    BY ONLY <2>2, <2>4
<1>5. PICK f : Unrolls(f, V, a0, D, L)
  BY <1>1, Recursion
<1>6. f \in [0 .. L -> V] /\ f = [k \in 0 .. L |-> IF k = 0 THEN a0 ELSE D[<<f[k - 1], k>>]]
  BY <1>5 DEF Unrolls
<1> DEFINE F(g) == [k \in 0 .. L |-> IF k = 0 THEN a0 ELSE ResolveNext(g[k - 1], s[k], d)]
<1>7. f = F(f)
  <2>1. ASSUME NEW k \in 0 .. L
        PROVE  f[k] = IF k = 0 THEN a0 ELSE ResolveNext(f[k - 1], s[k], d)
    <3>1. k = 0 \/ (k # 0 /\ k \in Nat /\ k - 1 \in 0 .. L /\ k \in 1 .. L)
      OBVIOUS
    <3> QED
      BY <1>n, <1>4, <1>6, <3>1 DEF Add
  <2> QED
    BY <1>6, <2>1
<1>8. PICK g : g = F(g) /\ r = g[L]
  <2>1. PICK g : g = CHOOSE h : h = F(h)
    OBVIOUS
  <2>2. g = F(g)
    BY <1>7, <2>1
  <2>3. r = g[L]
    BY <1>n, <2>1 DEF ResolveAll, a0
  <2> QED
    BY <2>2, <2>3
<1> DEFINE P == {k \in Nat : k \in 0 .. L => g[k] \in V}
<1>9. 0 \in P
  <2>1. 0 \in 0 .. L
    OBVIOUS
  <2>2. g[0] = a0
    BY ONLY <1>8, <2>1
  <2> QED
    BY <1>1, <2>2
<1>10. ASSUME NEW k \in Nat, k < L, k \in P PROVE k + 1 \in P
  <2>1. k + 1 \in 0 .. L /\ k \in 0 .. L /\ (k + 1) - 1 = k /\ k + 1 # 0 /\ k + 1 \in 1 .. L
    <3>1. k \in Nat /\ L \in Nat /\ k < L
      BY <1>10
    <3> QED
      BY ONLY <3>1
  <2>2. g[k + 1] = ResolveNext(g[k], s[k + 1], d)
    BY <1>8, <2>1
  <2> QED
    BY <1>n, <1>2, <1>10, <2>1, <2>2
<1> HIDE DEF P
<1>11. \A k \in 0 .. L : k \in P
  BY <1>9, <1>10, StepByStep
<1>12. L \in 0 .. L
  OBVIOUS
<1> QED
  BY <1>8, <1>11, <1>12 DEF P, V

-----------------------------------------------------------------------------
(* Shapes are kept. *)

LEMMA Assumed ==
  ASSUME InvShape
  PROVE  IsProject(proj) /\ proj.pins \in [Distros -> [Names -> Int]]
BY ProjectsAssumption DEF InvShape, IsProject

LEMMA FirstFrame == ASSUME NEW f \in DOMAIN proj.files PROVE [file |-> f, at |-> 1] \in Frames
<1>1. 1 \in Nat \ {0}
  OBVIOUS
<1>2. PICK X, Y : X = DOMAIN proj.files /\ Y = Nat \ {0}
  OBVIOUS
<1>3. [file |-> f, at |-> 1] \in [file : X, at : Y]
  BY <1>1, <1>2
<1> QED
  BY <1>2, <1>3 DEF Frames

LEMMA TopFrame ==
  ASSUME InvShape, stack # <<>>
  PROVE  /\ Len(stack) \in Nat \ {0} /\ Top = stack[Len(stack)]
         /\ \A i \in 1 .. Len(stack) : stack[i] \in Frames /\ stack[i].file \in DOMAIN proj.files
         /\ Top \in Frames /\ Top.file \in DOMAIN proj.files /\ Top.at \in Nat \ {0} /\ stack[1].file \in DOMAIN proj.files
         /\ Front(stack) \in Seq(Frames) /\ Len(Front(stack)) = Len(stack) - 1
         /\ \A i \in 1 .. Len(stack) - 1 : Front(stack)[i] = stack[i]
<1>1. stack \in Seq(Frames)
  BY DEF InvShape
<1>2. PICK M \in Nat \ {0} : M = Len(stack)
  BY <1>1, EmptySeq
<1>3. \A i \in 1 .. M : stack[i] \in Frames
  BY <1>1, <1>2
<1>4. \A i \in 1 .. M : stack[i].file \in DOMAIN proj.files /\ stack[i].at \in Nat \ {0}
  BY <1>3 DEF Frames
<1>5. Front(stack) = SubSeq(stack, 1, M - 1) /\ Top = stack[M]
  BY <1>2 DEF Front, Top, Last
<1>6. 1 \in 1 .. M /\ M \in 1 .. M /\ M - 1 \in Int /\ \A i \in 1 .. M - 1 : i \in 1 .. M
  BY <1>2
<1>7. \A i \in 1 .. M - 1 : stack[i] \in Frames
  BY <1>3, <1>6
<1>8. /\ SubSeq(stack, 1, M - 1) \in Seq(Frames)
      /\ Len(SubSeq(stack, 1, M - 1)) = IF 1 <= M - 1 THEN (M - 1) - 1 + 1 ELSE 0
      /\ \A i \in 1 .. (M - 1) - 1 + 1 : SubSeq(stack, 1, M - 1)[i] = stack[1 + i - 1]
  BY <1>6, <1>7, SubSeqProperties
<1>9. /\ (IF 1 <= M - 1 THEN (M - 1) - 1 + 1 ELSE 0) = M - 1 /\ (M - 1) - 1 + 1 = M - 1
      /\ \A i \in 1 .. M - 1 : 1 + i - 1 = i
  BY <1>2
<1> QED
  BY <1>2, <1>3, <1>4, <1>5, <1>6, <1>8, <1>9

LEMMA ViewStays ==
  ASSUME UNCHANGED <<proj, eng>>
  PROVE  \A d, n : ResolveForDistro(d, n)' = ResolveForDistro(d, n)
BY DEF ResolveForDistro

(* A unit that is registered is of the module being evaluated.              *)
LEMMA OwnedUnit ==
  ASSUME InvShape, stack # <<>>, NEW u \in Units({0}, {0}), NEW v, v = Owned(u)
  PROVE  /\ v \in AllUnits /\ FromFile(v) /\ v # NoUnit
         /\ v.mod = proj.files[stack[1].file].mod /\ v.idx = v.mod
         /\ v.name = u.name /\ v.distro = u.distro /\ v.class = u.class /\ v.provides = u.provides
<1>1. PICK m : m = proj.files[stack[1].file].mod
  OBVIOUS
<1>2. m \in 1 .. N + 1
  BY <1>1, TopFrame, Assumed, FileType
<1>3. PICK I : I = (0 - Len(Feeds)) .. (N + 1)
  OBVIOUS
<1>4. m \in I
  BY <1>2, <1>3, FeedsAssumed
<1>5. v = [u EXCEPT !.mod = m, !.idx = m]
  BY <1>1 DEF Owned
<1>6. /\ v \in Units(I, I) /\ v.mod = m /\ v.idx = m
      /\ v.name = u.name /\ v.distro = u.distro /\ v.class = u.class /\ v.provides = u.provides
  BY <1>4, <1>5 DEF Units
<1>7. v \in AllUnits
  BY <1>3, <1>6 DEF AllUnits
<1> QED
  BY <1>1, <1>2, <1>6, <1>7, UnitNamed DEF FromFile

(* What registering a unit leaves.                                          *)
LEMMA Registered ==
  ASSUME InvShape, stack # <<>>, NEW u \in AllUnits, FromFile(u),
         NEW old, old = eng.flat[u.name],
         eng' = Stored([eng EXCEPT !.flat[u.name] =
                           IF old # NoUnit /\ ~(old # NoUnit /\ ~CrossDistro(u, old)) THEN @ ELSE u], u)
  PROVE  /\ eng' \in Catalogs(proj.pins)
         /\ eng'.cat = {w \in eng.cat : w.mod # u.mod \/ w.name # u.name} \union {u}
         /\ \A n \in Names : n # u.name => eng'.flat[n] = eng.flat[n]
         /\ eng'.flat[u.name] = IF old # NoUnit /\ CrossDistro(u, old) THEN old ELSE u
<1>1. PICK x : x = IF old # NoUnit /\ CrossDistro(u, old) THEN old ELSE u
  OBVIOUS
<1>2. eng \in Catalogs(proj.pins) /\ eng \in Engines /\ u.name \in Names /\ u # NoUnit
  BY UnitNamed DEF InvShape, Catalogs
<1>3. PICK f : f = [eng.flat EXCEPT ![u.name] = x]
  OBVIOUS
<1>4. x \in AllUnits \union {NoUnit} /\ x # NoUnit
  BY <1>1, <1>2 DEF Engines
<1>5. /\ f \in [Names -> AllUnits \union {NoUnit}] /\ f[u.name] = x
      /\ \A n \in Names : n # u.name => f[n] = eng.flat[n]
  BY <1>2, <1>3, <1>4 DEF Engines
<1>6. eng' = Stored([eng EXCEPT !.flat = f], u)
  <2>1. [eng EXCEPT !.flat[u.name] = IF old # NoUnit /\ ~(old # NoUnit /\ ~CrossDistro(u, old)) THEN @ ELSE u]
        = [eng EXCEPT !.flat = f]
    BY <1>1, <1>2, <1>3 DEF Engines
  <2> QED
    BY <2>1
<1>7. \A n \in Names : f[n] = eng.flat[n] \/ (n = u.name /\ f[n] = u)
  BY <1>1, <1>5
<1>8. eng' \in Catalogs(proj.pins)
  BY <1>2, <1>4, <1>5, <1>6, <1>7, StoredOK
<1>9. eng'.flat = f /\ eng'.cat = {w \in eng.cat : w.mod # u.mod \/ w.name # u.name} \union {u}
  BY <1>2, <1>6 DEF Stored, Engines
<1> QED
  BY <1>1, <1>5, <1>8, <1>9

LEMMA ShapeFirst == LoadInit => InvShape /\ InvWalk
<1> SUFFICES ASSUME LoadInit PROVE InvShape /\ InvWalk
  OBVIOUS
<1>1. /\ proj \in Projects /\ phase = "project" /\ todo = <<>> /\ stack = <<>> /\ walk = NoWalk
      /\ defaults = [machine |-> proj.machine, image |-> proj.image, distro |-> proj.distro]
      /\ cache = [f \in DOMAIN proj.files |-> "none"] /\ provides = [n \in Names |-> NoName]
      /\ eng = [flat |-> [n \in Names |-> NoUnit], cat |-> {}]
  BY DEF LoadInit
<1>2. proj.distro \in DistroTags
  BY <1>1, ProjectsAssumption DEF IsProject
<1>3. eng \in Catalogs(proj.pins)
  <2>1. eng \in Engines
    BY <1>1 DEF Engines
  <2>2. CatalogOK(proj.pins, eng)
    BY <1>1 DEF CatalogOK
  <2> QED
    BY <2>1, <2>2 DEF Catalogs
<1>4. /\ DOMAIN defaults = {"machine", "image", "distro"} /\ defaults.distro \in DistroTags
      /\ provides \in [Names -> Names \union {NoName, Blank}]
      /\ cache \in [DOMAIN proj.files -> {"none", "reserved", "done"}] /\ stack \in Seq(Frames)
  BY <1>1, <1>2
<1>5. InvShape
  BY <1>1, <1>3, <1>4 DEF InvShape
<1> QED
  BY <1>1, <1>5 DEF InvWalk

LEMMA ShapeFail ==
  ASSUME InvShape, InvWalk, NEW reason, Fail(reason)
  PROVE  InvShape' /\ InvWalk'
<1>1. phase' = "failed" /\ UNCHANGED <<proj, defaults, todo, stack, cache, eng, provides, walk, closures, view>>
  BY DEF Fail
<1>2. Frames' = Frames /\ Walks' = Walks
  BY <1>1 DEF Frames, Walks
<1>3. InvShape'
  BY <1>1, <1>2 DEF InvShape
<1> QED
  BY <1>1, <1>2, <1>3 DEF InvWalk

LEMMA ShapeBefore ==
  ASSUME InvShape, InvWalk, ApplyLocal \/ Machines \/ Preflight
  PROVE  InvShape' /\ InvWalk'
<1>1. CASE ApplyLocal
  <2>1. /\ phase = "project" /\ phase' = "machines"
        /\ defaults' = [defaults EXCEPT !.distro = Override(proj.opts.distro, Override(proj.local.distro, @))]
        /\ UNCHANGED <<proj, todo, stack, cache, eng, provides, walk, closures, view, why>>
    BY <1>1 DEF ApplyLocal
  <2>2. proj.opts.distro \in DistroTags /\ proj.local.distro \in DistroTags
    BY Assumed DEF IsProject
  <2>3. DOMAIN defaults' = {"machine", "image", "distro"} /\ defaults'.distro \in DistroTags
    BY <2>1, <2>2 DEF InvShape, Override
  <2>4. Frames' = Frames
    BY <2>1 DEF Frames
  <2>5. InvShape'
    BY <2>1, <2>3, <2>4 DEF InvShape
  <2> QED
    BY <2>1, <2>5 DEF InvWalk
<1>2. CASE Machines
  <2>1. CASE proj.opts.machine # NoName /\ proj.opts.machine \notin DOMAIN proj.machines
    <3>1. Fail(<<"machine">>) /\ phase = "machines"
      BY <1>2, <2>1 DEF Machines
    <3> QED
      BY <3>1, ShapeFail
  <2>2. CASE ~(proj.opts.machine # NoName /\ proj.opts.machine \notin DOMAIN proj.machines)
    <3>1. /\ phase = "machines" /\ phase' \in {"machinesOnly", "preflight"}
          /\ defaults' = [defaults EXCEPT !.machine = Machine]
          /\ provides' = [n \in Names |-> IF n # Kernel.provides THEN NoName
                                         ELSE IF Kernel.unit = NoName THEN Blank ELSE Kernel.unit]
          /\ UNCHANGED <<proj, todo, stack, cache, eng, walk, closures, view, why>>
      BY <1>2, <2>2 DEF Machines
    <3>2. Kernel.unit \in Names \union {NoName}
      BY Assumed DEF IsProject, Kernel
    <3>3. DOMAIN defaults' = {"machine", "image", "distro"} /\ defaults'.distro \in DistroTags
      BY <3>1 DEF InvShape
    <3>4. Frames' = Frames /\ provides' \in [Names -> Names \union {NoName, Blank}]
      BY <3>1, <3>2 DEF Frames
    <3>5. InvShape'
      BY <3>1, <3>3, <3>4 DEF InvShape
    <3> QED
      BY <3>1, <3>5 DEF InvWalk
  <2> QED
    BY <2>1, <2>2
<1>3. CASE Preflight
  <2>1. CASE ~PinsKnown
    <3>1. Fail(<<"pin">>) /\ phase = "preflight"
      BY <1>3, <2>1 DEF Preflight
    <3> QED
      BY <3>1, ShapeFail
  <2>2. CASE PinsKnown
    <3>1. /\ phase = "preflight" /\ phase' = "units" /\ todo' = Order("containers") \o Order("units")
          /\ UNCHANGED <<proj, defaults, stack, cache, eng, provides, walk, closures, view, why>>
      BY <1>3, <2>2 DEF Preflight
    <3>2. todo' \in Seq(DOMAIN proj.files)
      <4>1. Order("containers") \in Seq(DOMAIN proj.files) /\ Order("units") \in Seq(DOMAIN proj.files)
        BY Assumed, OrderSound
      <4> QED
        BY <3>1, <4>1
    <3>3. Frames' = Frames
      BY <3>1 DEF Frames
    <3>4. InvShape'
      BY <3>1, <3>2, <3>3 DEF InvShape
    <3> QED
      BY <3>1, <3>4 DEF InvWalk
  <2> QED
    BY <2>1, <2>2
<1> QED
  BY <1>1, <1>2, <1>3

LEMMA ShapeFiles ==
  ASSUME InvShape, InvWalk, ExecFile \/ Load \/ Class
  PROVE  InvShape' /\ InvWalk'
<1>1. CASE ExecFile
  <2>1. /\ phase \in {"units", "images"} /\ stack = <<>> /\ todo # <<>>
        /\ stack' = <<[file |-> Head(todo), at |-> 1]>> /\ todo' = Tail(todo)
        /\ UNCHANGED <<proj, defaults, phase, cache, eng, provides, walk, closures, view, why>>
    BY <1>1 DEF ExecFile
  <2>2. todo \in Seq(DOMAIN proj.files)
    BY <2>1 DEF InvShape
  <2>3. Head(todo) \in DOMAIN proj.files /\ Tail(todo) \in Seq(DOMAIN proj.files)
    BY <2>1, <2>2, HeadTailProperties
  <2>4. PICK x \in Frames : x = [file |-> Head(todo), at |-> 1]
    BY <2>3, FirstFrame
  <2>5. stack' \in Seq(Frames) /\ Frames' = Frames
    BY <2>1, <2>4 DEF Frames
  <2>6. walk = NoWalk
    BY <2>1 DEF InvWalk
  <2>7. InvShape'
    BY <2>1, <2>3, <2>5 DEF InvShape
  <2> QED
    BY <2>1, <2>6, <2>7 DEF InvWalk
<1>2. CASE Load
  <2>1. /\ phase \in {"units", "images"} /\ stack # <<>> /\ Top.at <= Len(File.loads)
        /\ UNCHANGED <<proj, defaults, todo, eng, provides, walk, closures, view, why>>
    BY <1>2 DEF Load, AtLoad
  <2>2. PICK f : f = File.loads[Top.at]
    OBVIOUS
  <2>3. f \in DOMAIN proj.files
    <3>1. File.loads \in Seq(DOMAIN proj.files) /\ Top.at \in Nat \ {0}
      BY <2>1, TopFrame, Assumed, FileType DEF File
    <3>2. PICK l, i : l = File.loads /\ i = Top.at
      OBVIOUS
    <3>3. i \in 1 .. Len(l) /\ l \in Seq(DOMAIN proj.files)
      BY <2>1, <3>1, <3>2
    <3>4. l[i] \in DOMAIN proj.files
      BY <3>3
    <3> QED
      BY <2>2, <3>2, <3>4
  <2>4. walk = NoWalk
    <3>1. Top.at \in Nat /\ Len(File.loads) \in Nat
      <4>1. File.loads \in Seq(DOMAIN proj.files) /\ Top.at \in Nat \ {0}
        BY <2>1, TopFrame, Assumed, FileType DEF File
      <4> QED
        BY <4>1
    <3> QED
      BY <2>1, <3>1 DEF InvWalk
  <2>5. stack \in Seq(Frames) /\ Len(stack) \in Nat \ {0} /\ stack[Len(stack)] \in Frames
    BY <2>1, TopFrame DEF InvShape
  <2>6. Frames' = Frames
    BY <2>1 DEF Frames
  <2>7. CASE /\ stack' = [stack EXCEPT ![Len(stack)].at = @ + 1]
             /\ UNCHANGED <<cache, phase>>
    <3>1. PICK M \in Nat \ {0}, x \in Frames : M = Len(stack) /\ x = [stack[M] EXCEPT !.at = @ + 1]
      <4>1. [stack[Len(stack)] EXCEPT !.at = @ + 1] \in Frames
        BY <2>5 DEF Frames
      <4> QED
        BY <2>5, <4>1
    <3>2. stack' = [stack EXCEPT ![M] = x] /\ M \in 1 .. Len(stack)
      BY <2>5, <2>7, <3>1
    <3>3. stack' \in Seq(Frames)
      BY <2>5, <3>2, ExceptSeq
    <3>4. InvShape'
      BY <2>1, <2>6, <2>7, <3>3 DEF InvShape
    <3> QED
      BY <2>1, <2>4, <3>4 DEF InvWalk
  <2>8. CASE /\ cache' = [cache EXCEPT ![f] = "reserved"]
             /\ stack' = Append(stack, [file |-> f, at |-> 1])
             /\ UNCHANGED phase
    <3>1. PICK x \in Frames : x = [file |-> f, at |-> 1]
      BY <2>3, FirstFrame
    <3>2. stack' \in Seq(Frames)
      BY <2>5, <2>8, <3>1, AppendProperties
    <3>3. cache' \in [DOMAIN proj.files -> {"none", "reserved", "done"}]
      BY <2>3, <2>8 DEF InvShape
    <3>4. InvShape'
      BY <2>1, <2>6, <2>8, <3>2, <3>3 DEF InvShape
    <3> QED
      BY <2>1, <2>4, <3>4 DEF InvWalk
  <2>9. CASE phase' = "panic" /\ UNCHANGED <<stack, cache>>
    <3>1. InvShape'
      BY <2>1, <2>6, <2>9 DEF InvShape
    <3> QED
      BY <2>1, <2>4, <3>1 DEF InvWalk
  <2> QED
    BY <1>2, <2>2, <2>7, <2>8, <2>9 DEF Load
<1>3. CASE Class
  <2>1. /\ stack # <<>> /\ walk = NoWalk /\ phase \in {"units", "images"} /\ Return
        /\ UNCHANGED <<proj, defaults, phase, todo, eng, provides, walk, closures, view, why>>
    BY <1>3 DEF Class, AtBody
  <2>2. stack' \in Seq(Frames) /\ cache' \in [DOMAIN proj.files -> {"none", "reserved", "done"}]
    BY <2>1, TopFrame DEF Return, InvShape
  <2>3. Frames' = Frames
    BY <2>1 DEF Frames
  <2>4. InvShape'
    BY <2>1, <2>2, <2>3 DEF InvShape
  <2> QED
    BY <2>1, <2>4 DEF InvWalk
<1> QED
  BY <1>1, <1>2, <1>3

(* A file's unit, or the unit of an image that was walked.                  *)
LEMMA ShapeRegister ==
  ASSUME InvShape, InvWalk, phase \in {"units", "images"}, stack # <<>>, NEW u \in Units({0}, {0}), Register(Owned(u)),
         u.class = "image" => u.distro # NoName
  PROVE  InvShape' /\ InvWalk'
<1>1. PICK v : v = Owned(u)
  OBVIOUS
<1>2. v \in AllUnits /\ FromFile(v)
  BY <1>1, OwnedUnit
<1>i. v.class = "image" => v.distro # NoName
  BY <1>1, OwnedUnit
<1>3. CASE Fail(<<"duplicate", v.name>>)
  BY <1>3, ShapeFail
<1>4. CASE ~Fail(<<"duplicate", v.name>>)
  <2>1. PICK old : old = eng.flat[v.name]
    OBVIOUS
  <2>2. /\ Return /\ walk' = NoWalk /\ UNCHANGED <<proj, defaults, phase, todo, provides, view, why>>
        /\ \/ UNCHANGED eng
           \/ eng' = Stored([eng EXCEPT !.flat[v.name] =
                           IF old # NoUnit /\ ~(old # NoUnit /\ ~CrossDistro(v, old)) THEN @ ELSE v], v)
    BY <1>1, <1>4, <2>1 DEF Register
  <2>3. eng' \in Catalogs(proj.pins) /\ \A w \in eng'.cat : w.class = "image" => w.distro # NoName
    <3>1. CASE UNCHANGED eng
      BY <3>1 DEF InvShape
    <3>2. CASE ~UNCHANGED eng
      <4>1. eng' \in Catalogs(proj.pins) /\ eng'.cat = {w \in eng.cat : w.mod # v.mod \/ w.name # v.name} \union {v}
        BY <1>2, <2>1, <2>2, <3>2, Registered
      <4> QED
        BY <1>i, <4>1 DEF InvShape
    <3> QED
      BY <3>1, <3>2
  <2>4. stack' \in Seq(Frames) /\ cache' \in [DOMAIN proj.files -> {"none", "reserved", "done"}]
    BY <2>2, TopFrame DEF Return, InvShape
  <2>5. Frames' = Frames
    BY <2>2 DEF Frames
  <2>6. InvShape'
    BY <2>2, <2>3, <2>4, <2>5 DEF InvShape
  <2> QED
    BY <2>2, <2>6 DEF InvWalk
<1> QED
  BY <1>3, <1>4

LEMMA ShapeUnit ==
  ASSUME InvShape, InvWalk, Unit
  PROVE  InvShape' /\ InvWalk'
<1>1. phase \in {"units", "images"} /\ stack # <<>> /\ File.unit # NoUnit /\ File.unit.class # "image" /\ Register(Owned(File.unit))
  BY DEF Unit, AtBody
<1>2. File.unit \in Units({0}, {0})
  BY <1>1, TopFrame, Assumed, FileType DEF File
<1> QED
  BY <1>1, <1>2, ShapeRegister

LEMMA ShapeProvides ==
  ASSUME InvShape, InvWalk, UnitsDone \/ Provide \/ ProvidesDone
  PROVE  InvShape' /\ InvWalk'
<1>1. CASE UnitsDone
  <2>1. /\ phase = "units" /\ stack = <<>> /\ phase' = "provides"
        /\ todo' = Sorted({n \in Names : eng.flat[n] # NoUnit})
        /\ UNCHANGED <<proj, defaults, stack, cache, eng, provides, walk, closures, view, why>>
    BY <1>1 DEF UnitsDone
  <2>2. PICK X : X = {n \in Names : eng.flat[n] # NoUnit}
    OBVIOUS
  <2>3. todo' \in Seq(X)
    <3>1. todo' \in Seq(X \cap Names)
      BY <2>1, <2>2, SortedSound
    <3>2. X \cap Names = X
      BY <2>2
    <3> QED
      BY <3>1, <3>2
  <2>4. X = {n \in Names : eng'.flat[n] # NoUnit}
    BY <2>1, <2>2
  <2>5. todo' \in Seq({n \in Names : eng'.flat[n] # NoUnit}) /\ walk = NoWalk /\ Frames' = Frames
    BY <2>1, <2>3, <2>4 DEF InvWalk, Frames
  <2>6. InvShape'
    BY <2>1, <2>5 DEF InvShape
  <2> QED
    BY <2>1, <2>5, <2>6 DEF InvWalk
<1>2. CASE Provide
  <2>1. phase = "provides" /\ todo # <<>>
    BY <1>2 DEF Provide
  <2>2. PICK u : u = eng.flat[Head(todo)]
    OBVIOUS
  <2>3. PICK X : X = {n \in Names : eng.flat[n] # NoUnit}
    OBVIOUS
  <2>4. todo \in Seq(X)
    BY <2>1, <2>3 DEF InvShape
  <2>5. Head(todo) \in X /\ Tail(todo) \in Seq(X)
    BY <2>1, <2>4, HeadTailProperties
  <2>6. u \in AllUnits
    BY <2>2, <2>3, <2>5 DEF InvShape, Catalogs, Engines
  <2>7. CASE Fail(<<"provides", u.name>>)
    BY <2>7, ShapeFail
  <2>8. CASE /\ provides' = [v \in Names |-> IF v \in u.provides /\ Takes(u, v) THEN u.name ELSE provides[v]]
             /\ todo' = Tail(todo)
             /\ UNCHANGED <<proj, defaults, phase, stack, cache, eng, walk, closures, view, why>>
    <3>1. provides' \in [Names -> Names \union {NoName, Blank}]
      BY <2>6, <2>8, UnitNamed DEF InvShape
    <3>2. X = {n \in Names : eng'.flat[n] # NoUnit}
      BY <2>3, <2>8
    <3>3. todo' \in Seq({n \in Names : eng'.flat[n] # NoUnit})
      BY <2>5, <2>8, <3>2
    <3>4. Frames' = Frames /\ walk = NoWalk
      BY <2>1, <2>8 DEF Frames, InvWalk
    <3>5. InvShape'
      BY <2>1, <2>8, <3>1, <3>3, <3>4 DEF InvShape
    <3> QED
      BY <2>8, <3>4, <3>5 DEF InvWalk
  <2> QED
    BY <1>2, <2>2, <2>7, <2>8 DEF Provide
<1>3. CASE ProvidesDone
  <2>1. /\ phase = "provides" /\ phase' = "images" /\ todo' = Order("images")
        /\ UNCHANGED <<proj, defaults, stack, cache, eng, provides, walk, closures, view, why>>
    BY <1>3 DEF ProvidesDone
  <2>2. todo' \in Seq(DOMAIN proj.files) /\ Frames' = Frames /\ walk = NoWalk
    BY <2>1, Assumed, OrderSound DEF Frames, InvWalk
  <2>3. InvShape'
    BY <2>1, <2>2 DEF InvShape
  <2> QED
    BY <2>1, <2>2, <2>3 DEF InvWalk
<1> QED
  BY <1>1, <1>2, <1>3

LEMMA NeedsTyped ==
  ASSUME NEW u \in AllUnits, NEW d \in Distros
  PROVE  DepsFor(u, d) \in Seq(Names) /\ RuntimeDepsFor(u, d) \in Seq(Names)
<1>1. /\ u.deps \in Seq(Names) /\ u.rdeps \in Seq(Names)
      /\ u.distroDeps[d] \in Seq(Names) /\ u.distroRdeps[d] \in Seq(Names)
  BY DEF AllUnits, Units
<1> QED
  BY <1>1 DEF DepsFor, RuntimeDepsFor

LEMMA MappedTyped == ASSUME InvShape, NEW n \in Names PROVE Mapped(n) \in Names
BY DEF InvShape, Mapped

LEMMA ProvidersTyped ==
  ASSUME InvShape, NEW n \in Names, NEW d
  PROVE  Providers(eng, n, d) \subseteq Names
<1>1. \A u \in eng.cat : u.name \in Names
  BY UnitNamed DEF InvShape, Catalogs, Engines
<1> QED
  BY <1>1, MappedTyped DEF Providers

(* Edges that may be materialised are of names, for distros.                *)
LEMMA PendingTyped ==
  ASSUME InvShape, NEW x \in Pending, NEW r \in Resolvable(x)
  PROVE  x.d \in Distros /\ r \in Names
<1>1. Targets \subseteq Distros
  <2>1. proj.distro \in DistroTags /\ defaults.distro \in DistroTags
    BY Assumed DEF InvShape, IsProject
  <2>2. \A u \in eng.cat : u.class = "image" => u.distro \in DistroTags /\ u.distro # NoName
    BY DEF InvShape, Catalogs, Engines, AllUnits, Units
  <2> QED
    BY <2>1, <2>2 DEF Targets, DistroTags
<1>2. x \in Unmet /\ r \in Providers(eng, x.r, x.d)
  BY DEF Pending, Resolvable
<1>8. PICK d \in Targets, n \in Names : \E u, m :
        /\ u = FindVisible(eng, n, d) /\ x = [d |-> d, r |-> m]
        /\ m \in UNION {Providers(eng, dep, d) : dep \in IF u = NoUnit THEN {} ELSE Range(DepsFor(u, d) \o RuntimeDepsFor(u, d))}
  BY <1>2 DEF Unmet
<1>3. PICK u, m :
        /\ u = FindVisible(eng, n, d) /\ x = [d |-> d, r |-> m]
        /\ m \in UNION {Providers(eng, dep, d) : dep \in IF u = NoUnit THEN {} ELSE Range(DepsFor(u, d) \o RuntimeDepsFor(u, d))}
  BY <1>8
<1>4. u # NoUnit /\ u \in AllUnits /\ d \in Distros
  <2>1. u # NoUnit /\ d \in Distros
    BY <1>1, <1>3
  <2>2. eng \in Engines
    BY DEF InvShape, Catalogs
  <2>3. u \in Variants(eng, n, d)
    BY <1>3, <2>1, <2>2, FoundVisible DEF FindVisible
  <2> QED
    BY <2>1, <2>2, <2>3 DEF Variants, Engines
<1>5. PICK dep \in Range(DepsFor(u, d) \o RuntimeDepsFor(u, d)) : m \in Providers(eng, dep, d)
  BY <1>3, <1>4
<1>6. dep \in Names
  <2>1. DepsFor(u, d) \o RuntimeDepsFor(u, d) \in Seq(Names)
    BY <1>4, NeedsTyped
  <2> QED
    BY <1>5, <2>1 DEF Range
<1>7. m \in Names /\ x.d = d /\ x.r = m
  BY <1>3, <1>5, <1>6, ProvidersTyped
<1> QED
  BY <1>2, <1>4, <1>7, ProvidersTyped

LEMMA ShapeAttached ==
  ASSUME InvShape, InvWalk, ImagesDone \/ Materialize \/ BuildViews \/ Ended
  PROVE  InvShape' /\ InvWalk'
<1>1. CASE ImagesDone
  <2>1. phase = "images" /\ stack = <<>>
    BY <1>1 DEF ImagesDone
  <2>2. walk = NoWalk
    BY <2>1 DEF InvWalk
  <2>3. CASE Fail(<<"container">>)
    BY <2>3, ShapeFail
  <2>4. CASE phase' = "fixpoint" /\ UNCHANGED <<proj, defaults, todo, stack, cache, eng, provides, walk, closures, view, why>>
    <3>1. Frames' = Frames
      BY <2>4 DEF Frames
    <3>2. InvShape'
      BY <2>1, <2>4, <3>1 DEF InvShape
    <3> QED
      BY <2>2, <2>4, <3>2 DEF InvWalk
  <2> QED
    BY <1>1, <2>3, <2>4 DEF ImagesDone
<1>2. CASE Materialize
  <2>1. /\ phase = "fixpoint" /\ UNCHANGED <<proj, defaults, todo, stack, cache, provides, walk, closures, view, why>>
        /\ \/ \E x \in Pending : \E r \in Resolvable(x) : eng' = Lookup(eng, r, x.d).eng /\ UNCHANGED phase
           \/ phase' = "views" /\ UNCHANGED eng
    BY <1>2 DEF Materialize
  <2>2. /\ eng' \in Catalogs(proj.pins) /\ phase' \in {"fixpoint", "views"}
        /\ \A u \in eng'.cat : u.class = "image" => u.distro # NoName
    <3>1. CASE phase' = "views" /\ UNCHANGED eng
      BY <3>1 DEF InvShape
    <3>2. CASE \E x \in Pending : \E r \in Resolvable(x) : eng' = Lookup(eng, r, x.d).eng /\ UNCHANGED phase
      <4>0. PICK x \in Pending : \E r \in Resolvable(x) : eng' = Lookup(eng, r, x.d).eng /\ UNCHANGED phase
        BY <3>2
      <4>1. PICK r \in Resolvable(x) : eng' = Lookup(eng, r, x.d).eng /\ UNCHANGED phase
        BY <4>0
      <4>2. x.d \in Distros /\ r \in Names
        BY <4>1, PendingTyped
      <4>3. eng' \in Catalogs(proj.pins) /\ Grows(proj.pins, eng, eng')
        BY <4>1, <4>2, Assumed, LookupSound DEF InvShape
      <4>4. \A u \in eng'.cat : u.class = "image" => u \in eng.cat
        BY <4>3 DEF Grows, FromFeed
      <4> QED
        BY <2>1, <4>1, <4>3, <4>4 DEF InvShape
    <3> QED
      BY <2>1, <3>1, <3>2
  <2>3. Frames' = Frames /\ walk = NoWalk
    BY <2>1 DEF Frames, InvWalk
  <2>4. InvShape'
    BY <2>1, <2>2, <2>3 DEF InvShape
  <2> QED
    BY <2>1, <2>2, <2>3, <2>4 DEF InvWalk
<1>3. CASE BuildViews
  <2>1. /\ phase = "views" /\ phase' = "loaded"
        /\ view' = [d \in Distros |-> [n \in Names |-> ResolveForDistro(d, n)]]
        /\ \E i : defaults' = [defaults EXCEPT !.image = i]
        /\ UNCHANGED <<proj, todo, stack, cache, eng, provides, walk, closures, why>>
    BY <1>3 DEF BuildViews
  <2>2. view' = [d \in Distros |-> [n \in Names |-> ResolveForDistro(d, n)']]
    BY <2>1, ViewStays
  <2>3. DOMAIN defaults' = {"machine", "image", "distro"} /\ defaults'.distro \in DistroTags
    BY <2>1 DEF InvShape
  <2>4. Frames' = Frames /\ walk = NoWalk
    BY <2>1 DEF Frames, InvWalk
  <2>5. InvShape'
    BY <2>1, <2>2, <2>3, <2>4 DEF InvShape
  <2> QED
    BY <2>1, <2>4, <2>5 DEF InvWalk
<1>4. CASE Ended
  <2>1. UNCHANGED loadVars
    BY <1>4 DEF Ended
  <2>2. /\ Frames' = Frames /\ Walks' = Walks /\ \A d, n : ResolveForDistro(d, n)' = ResolveForDistro(d, n)
    BY <2>1, ViewStays DEF Frames, Walks, loadVars
  <2>3. InvShape'
    BY <2>1, <2>2 DEF InvShape, loadVars
  <2>4. phase # "images"
    BY <1>4 DEF Ended
  <2> QED
    BY <2>1, <2>2, <2>3, <2>4 DEF InvWalk, loadVars
<1> QED
  BY <1>1, <1>2, <1>3, <1>4

Graphs(S) == UNION {[X -> SUBSET S] : X \in SUBSET S}

LEMMA WalkTyped ==
  ASSUME NEW d, NEW n, NEW q, NEW g, NEW t, NEW w, w = [distro |-> d, image |-> n, queue |-> q, deps |-> g, took |-> t, order |-> <<>>],
         d \in Distros, n \in Names, q \in Seq(Names), g \in Graphs(Names), t \in SUBSET AllUnits
  PROVE  w \in Walks
<1>1. PICK G, U, Q, D, M : G = Graphs(Names) /\ U = SUBSET AllUnits /\ Q = Seq(Names) /\ D = Distros /\ M = Names
  OBVIOUS
<1>2. g \in G /\ t \in U /\ q \in Q /\ d \in D /\ n \in M
  BY <1>1
<1>3. w \in [distro : D, image : M, queue : Q, deps : G, took : U, order : {<<>>}]
  BY <1>2
<1> QED
  BY <1>1, <1>3 DEF Walks, Graphs

LEMMA WalkParts ==
  ASSUME NEW w \in Walks
  PROVE  /\ w = [distro |-> w.distro, image |-> w.image, queue |-> w.queue, deps |-> w.deps, took |-> w.took, order |-> <<>>]
         /\ w.distro \in Distros /\ w.image \in Names /\ w.queue \in Seq(Names) /\ w.deps \in Graphs(Names)
         /\ w.took \in SUBSET AllUnits /\ w # NoWalk
<1>1. PICK G, U, Q, D, M : G = Graphs(Names) /\ U = SUBSET AllUnits /\ Q = Seq(Names) /\ D = Distros /\ M = Names
  OBVIOUS
<1>2. w \in [distro : D, image : M, queue : Q, deps : G, took : U, order : {<<>>}]
  BY <1>1 DEF Walks, Graphs
<1>3. /\ w = [distro |-> w.distro, image |-> w.image, queue |-> w.queue, deps |-> w.deps, took |-> w.took, order |-> <<>>]
      /\ w.distro \in D /\ w.image \in M /\ w.queue \in Q /\ w.deps \in G /\ w.took \in U
  BY <1>2
<1>4. w # NoWalk
  <2>1. w.distro # NoWalk.distro
    BY <1>1, <1>3, FeedsAssumed DEF NoWalk
  <2> QED
    BY <2>1
<1> QED
  BY <1>1, <1>3, <1>4

(* A graph with the names of one more unit.                                 *)
LEMMA GraphGrows ==
  ASSUME NEW g \in Graphs(Names), NEW n \in Names, NEW R \in SUBSET Names,
         NEW h, h = [m \in DOMAIN g \union {n} |-> IF m = n THEN R ELSE g[m]]
  PROVE  h \in Graphs(Names)
<1>1. PICK X \in SUBSET Names : g \in [X -> SUBSET Names]
  BY DEF Graphs
<1>2. h \in [X \union {n} -> SUBSET Names] /\ X \union {n} \in SUBSET Names
  BY <1>1
<1> QED
  BY <1>2 DEF Graphs

IsKernel(x) == \E d \in DOMAIN Kernel.distroUnit : x = Kernel.distroUnit[d]
Started == phase' = "failed" \/ (walk'.deps = <<>> /\ \A x \in Range(walk'.queue) : IsMapped(x) \/ IsKernel(x))

LEMMA KernelTyped ==
  ASSUME InvShape
  PROVE  /\ {Kernel.provides, Kernel.unit} \subseteq Names \union {NoName}
         /\ \A d \in DOMAIN Kernel.distroUnit : Kernel.distroUnit[d] \in Names
<1>1. CASE Machine \in DOMAIN proj.machines
  <2>1. PICK k : k = proj.machines[Machine]
    OBVIOUS
  <2>2. Kernel = k
    BY <1>1, <2>1 DEF Kernel
  <2>3. {k.provides, k.unit} \subseteq Names \union {NoName} /\ k.distroUnit \in UNION {[S -> Names] : S \in SUBSET Distros}
    BY <1>1, <2>1, Assumed DEF IsProject
  <2> QED
    BY <2>2, <2>3
<1>2. CASE Machine \notin DOMAIN proj.machines
  <2>1. Kernel = [provides |-> NoName, unit |-> NoName, distroUnit |-> <<>>]
    BY <1>2 DEF Kernel
  <2> QED
    BY <2>1
<1> QED
  BY <1>1, <1>2

(* An artifact as the image lists it is a name that the walk takes as it    *)
(* is, or the empty string.                                                 *)
LEMMA ExplicitTyped ==
  ASSUME InvShape, NEW a \in Names, NEW d, NEW x, x = Explicit(a, d), x # Blank
  PROVE  x \in Names /\ (IsMapped(x) \/ IsKernel(x))
<1>1. CASE a = Kernel.provides /\ d \in DOMAIN Kernel.distroUnit
  BY <1>1, KernelTyped DEF Explicit, IsKernel
<1>2. CASE ~(a = Kernel.provides /\ d \in DOMAIN Kernel.distroUnit)
  <2>1. x = IF provides[a] # NoName THEN provides[a] ELSE a
    BY <1>2 DEF Explicit
  <2>2. provides[a] \in Names \union {NoName, Blank} /\ NoName \notin Names
    BY FeedsAssumed DEF InvShape
  <2>3. x = Mapped(a) /\ x \in Names
    BY <2>1, <2>2 DEF Mapped
  <2> QED
    BY <2>3 DEF IsMapped
<1> QED
  BY <1>1, <1>2

LEMMA ShapeImage ==
  ASSUME InvShape, InvWalk, Image
  PROVE  InvShape' /\ InvWalk' /\ Started
<1>1. phase = "images" /\ stack # <<>> /\ Top.at > Len(File.loads) /\ walk = NoWalk /\ File.unit # NoUnit /\ File.unit.class = "image"
  BY DEF Image, AtImage, AtBody
<1>2. PICK d, s, a : d = ImageDistro /\ s = RuntimeDepsFor(File.unit, d)
                     /\ a = [i \in DOMAIN s |-> Explicit(s[i], d)]
  OBVIOUS
<1>3. CASE Fail(<<"image", File.unit.name>>) \/ Fail(<<"unresolved", NoName, d>>)
  BY <1>3, ShapeFail DEF Started, Fail
<1>4. CASE /\ d # NoName /\ ~(\E i \in DOMAIN a : a[i] = Blank) /\ StartWalk(File.unit.name, d, a)
           /\ UNCHANGED <<proj, defaults, phase, todo, stack, cache, eng, provides, closures, view>>
  <2>1. File.unit \in Units({0}, {0})
    BY <1>1, TopFrame, Assumed, FileType DEF File
  <2>2. d \in Distros
    BY <1>2, <1>4, <2>1 DEF ImageDistro, Override, Units, DistroTags, InvShape
  <2>3. s \in Seq(Names)
    <3>1. PICK u : u = File.unit
      OBVIOUS
    <3>2. u.rdeps \in Seq(Names) /\ u.distroRdeps[d] \in Seq(Names)
      BY <2>1, <2>2, <3>1 DEF Units
    <3> QED
      BY <1>2, <3>1, <3>2 DEF RuntimeDepsFor
  <2>4. a \in Seq(Names) /\ \A x \in Range(a) : IsMapped(x) \/ IsKernel(x)
    <3>1. PICK L \in Nat : L = Len(s) /\ DOMAIN s = 1 .. L /\ \A i \in 1 .. L : s[i] \in Names
      BY <2>3
    <3>2. DOMAIN a = 1 .. L /\ \A i \in 1 .. L : a[i] = Explicit(s[i], d) /\ a[i] # Blank
      BY <1>2, <1>4, <3>1
    <3>3. \A i \in 1 .. L : a[i] \in Names /\ (IsMapped(a[i]) \/ IsKernel(a[i]))
      BY <3>1, <3>2, ExplicitTyped
    <3>4. a = [i \in 1 .. L |-> a[i]]
      BY <1>2, <3>2
    <3>5. a \in [1 .. L -> Names]
      BY <3>3, <3>4
    <3> QED
      BY <3>2, <3>3, <3>5 DEF Range
  <2>5. File.unit.name \in Names
    BY <2>1 DEF Units
  <2>6. <<>> \in Graphs(Names)
    <3>1. <<>> \in [{} -> SUBSET Names]
      OBVIOUS
    <3> QED
      BY <3>1 DEF Graphs
  <2>7. walk' = [distro |-> d, image |-> File.unit.name, queue |-> a, deps |-> <<>>, took |-> {}, order |-> <<>>]
    BY <1>4 DEF StartWalk
  <2>8. walk' \in Walks /\ Walks' = Walks /\ Frames' = Frames
    <3>1. PICK w : w = [distro |-> d, image |-> File.unit.name, queue |-> a, deps |-> <<>>, took |-> {}, order |-> <<>>]
      OBVIOUS
    <3>2. {} \in SUBSET AllUnits
      OBVIOUS
    <3>3. w \in Walks
      BY <2>2, <2>4, <2>5, <2>6, <3>1, <3>2, WalkTyped
    <3>4. Walks' = Walks /\ Frames' = Frames
      BY <1>4 DEF Walks, Frames
    <3> QED
      BY <2>7, <3>1, <3>3, <3>4
  <2>9. walk'.distro = d /\ walk'.image = File.unit.name
    BY <2>7
  <2>10. Top' = Top /\ File' = File
    BY <1>4 DEF Top, File
  <2>11. DistroOf(Top.file)' = d
    BY <1>1, <1>2, <1>4, <2>10 DEF DistroOf, ImageDistro, File
  <2>12. InvShape'
    BY <1>1, <1>4, <2>8 DEF InvShape
  <2>13. Started
    <3>1. walk'.deps = <<>> /\ walk'.queue = a
      BY <2>7
    <3> QED
      BY <2>4, <3>1 DEF Started
  <2> QED
    BY <1>1, <1>4, <2>8, <2>9, <2>10, <2>11, <2>12, <2>13 DEF InvWalk
<1>5. \/ Fail(<<"image", File.unit.name>>)
      \/ d # NoName /\ (\E i \in DOMAIN a : a[i] = Blank) /\ Fail(<<"unresolved", NoName, d>>)
      \/ /\ d # NoName /\ ~(\E i \in DOMAIN a : a[i] = Blank) /\ StartWalk(File.unit.name, d, a)
         /\ UNCHANGED <<proj, defaults, phase, todo, stack, cache, eng, provides, closures, view>>
  BY <1>2 DEF Image
<1> QED
  BY <1>3, <1>4, <1>5

(* A step of the walk adds packages of feeds, or the load fails.            *)
WalkGrows ==
    \/ phase' = "failed" /\ UNCHANGED <<proj, defaults, todo, stack, cache, eng, provides, walk, closures>>
    \/ /\ Grows(proj.pins, eng, eng') /\ walk'.distro = walk.distro
       /\ UNCHANGED <<proj, defaults, phase, todo, stack, cache, provides, closures>>

(* A name of the queue is passed, or what its unit needs is added.          *)
WalkPasses ==
    /\ Mapped(Head(walk.queue)) \in DOMAIN walk.deps
    /\ walk'.queue = Tail(walk.queue) /\ walk'.deps = walk.deps
WalkAdds(R) ==
    /\ Range(walk'.queue) = Range(Tail(walk.queue)) \union R
    /\ walk'.deps = [n \in DOMAIN walk.deps \union {Mapped(Head(walk.queue))} |->
                        IF n = Mapped(Head(walk.queue)) THEN R ELSE walk.deps[n]]
    /\ \A x \in R : IsMapped(x)
Walked == phase' = "failed" \/ WalkPasses \/ \E R \in SUBSET Names : WalkAdds(R)

LEMMA ShapeWalk ==
  ASSUME InvShape, InvWalk, WalkStep
  PROVE  InvShape' /\ InvWalk' /\ WalkGrows /\ Walked
<1> DEFINE found == Lookup(eng, Mapped(Head(walk.queue)), walk.distro)
           u == found.unit
           all == ResolveAll(found.eng, RuntimeDepsFor(u, walk.distro), walk.distro)
           names == [i \in DOMAIN all.units |-> all.units[i].name]
<1>13. \/ Fail(<<"unresolved", Head(walk.queue), walk.distro>>)
       \/ /\ walk' = [walk EXCEPT !.queue = Tail(@)] /\ eng' = found.eng
          /\ u # NoUnit /\ u.name \in DOMAIN walk.deps
          /\ UNCHANGED <<proj, defaults, phase, todo, stack, cache, provides, closures, view, why>>
       \/ Fail(<<"unresolved", all.missing, walk.distro>>)
       \/ /\ u # NoUnit
          /\ walk' = [walk EXCEPT !.queue = Tail(@) \o names,
                                  !.deps = [n \in DOMAIN @ \union {u.name} |->
                                               IF n = u.name THEN Range(names) ELSE @[n]],
                                  !.took = @ \union {u} \union Range(all.units)]
          /\ eng' = all.eng
          /\ UNCHANGED <<proj, defaults, phase, todo, stack, cache, provides, closures, view, why>>
  BY DEF WalkStep
<1>4. found = Lookup(eng, Mapped(Head(walk.queue)), walk.distro) /\ u = found.unit
      /\ all = ResolveAll(found.eng, RuntimeDepsFor(u, walk.distro), walk.distro)
  OBVIOUS
<1>7. names = [i \in DOMAIN all.units |-> all.units[i].name]
  OBVIOUS
<1> HIDE DEF found, u, all, names
<1>1. phase = "images" /\ walk \in Walks /\ walk # NoWalk /\ walk.queue # <<>>
  BY DEF WalkStep, InvWalk
<1>2. PICK d, q, g : d = walk.distro /\ q = walk.queue /\ g = walk.deps
                     /\ d \in Distros /\ q \in Seq(Names) /\ g \in Graphs(Names) /\ walk.took \in SUBSET AllUnits
  BY <1>1, WalkParts
<1>3. Head(q) \in Names /\ Tail(q) \in Seq(Names)
  BY <1>1, <1>2, HeadTailProperties
<1>8. /\ found.eng \in Catalogs(proj.pins) /\ Grows(proj.pins, eng, found.eng)
      /\ u = NoUnit \/ (u \in AllUnits /\ VisibleTo(u, d) /\ u.name = Mapped(Head(q)))
  BY <1>2, <1>3, <1>4, MappedTyped, Assumed, LookupSound DEF InvShape
<1>9. ASSUME NEW w, NEW e \in Catalogs(proj.pins), Grows(proj.pins, eng, e), w \in Walks, walk' = w,
             w.distro = walk.distro, w.image = walk.image, eng' = e, Walked,
             UNCHANGED <<proj, defaults, phase, todo, stack, cache, provides, closures, view, why>>
      PROVE  InvShape' /\ InvWalk' /\ WalkGrows /\ Walked
  <2>1. \A x \in eng'.cat : x.class = "image" => x.distro # NoName
    BY <1>9 DEF InvShape, Grows, FromFeed
  <2>2. Frames' = Frames /\ Walks' = Walks /\ Top' = Top /\ File' = File /\ DistroOf(Top.file)' = DistroOf(Top.file)
    BY <1>9 DEF Frames, Walks, Top, File, DistroOf
  <2>3. InvShape'
    BY <1>1, <1>9, <2>1, <2>2 DEF InvShape
  <2> QED
    BY <1>1, <1>9, <2>2, <2>3 DEF InvWalk, WalkGrows
<1>10. CASE Fail(<<"unresolved", Head(walk.queue), walk.distro>>) \/ Fail(<<"unresolved", all.missing, walk.distro>>)
  BY <1>10, ShapeFail DEF Fail, WalkGrows, Walked
<1>11. CASE /\ walk' = [walk EXCEPT !.queue = Tail(@)] /\ eng' = found.eng /\ u # NoUnit /\ u.name \in DOMAIN walk.deps
            /\ UNCHANGED <<proj, defaults, phase, todo, stack, cache, provides, closures, view, why>>
  <2>1. walk' = [walk EXCEPT !.queue = Tail(q)]
    BY <1>2, <1>11
  <2>3. /\ walk' \in Walks /\ walk'.distro = walk.distro /\ walk'.image = walk.image
        /\ walk'.queue = Tail(walk.queue) /\ walk'.deps = walk.deps
    <3>7. PICK e \in Distros, n \in Names : \E o, h, t :
             walk = [distro |-> e, image |-> n, queue |-> o, deps |-> h, took |-> t, order |-> <<>>]
      BY <1>1, WalkParts
    <3>1. PICK o, h, t : walk = [distro |-> e, image |-> n, queue |-> o, deps |-> h, took |-> t, order |-> <<>>]
      BY <3>7
    <3>2. PICK r \in Seq(Names) : r = Tail(q)
      BY <1>3
    <3>3. walk' = [distro |-> e, image |-> n, queue |-> r, deps |-> h, took |-> t, order |-> <<>>]
      BY ONLY <2>1, <3>1, <3>2
    <3>4. h \in Graphs(Names) /\ t \in SUBSET AllUnits
      BY <1>2, <3>1
    <3>5. PICK v : v = [distro |-> e, image |-> n, queue |-> r, deps |-> h, took |-> t, order |-> <<>>]
      OBVIOUS
    <3>6. v \in Walks
      BY <3>4, <3>5, WalkTyped
    <3> QED
      BY <1>2, <3>1, <3>2, <3>3, <3>5, <3>6
  <2>4. Walked
    BY <1>2, <1>8, <1>11, <2>3 DEF Walked, WalkPasses
  <2> QED
    BY <1>2, <1>8, <1>9, <1>11, <2>3, <2>4
<1>12. CASE /\ u # NoUnit
            /\ walk' = [walk EXCEPT !.queue = Tail(@) \o names,
                                    !.deps = [n \in DOMAIN @ \union {u.name} |->
                                                 IF n = u.name THEN Range(names) ELSE @[n]],
                                    !.took = @ \union {u} \union Range(all.units)]
            /\ eng' = all.eng
            /\ UNCHANGED <<proj, defaults, phase, todo, stack, cache, provides, closures, view, why>>
  <2>1. u \in AllUnits /\ u.name \in Names /\ u.name = Mapped(Head(walk.queue))
    BY <1>2, <1>8, <1>12, UnitNamed
  <2>2. all \in Resolutions(proj.pins, found.eng, d)
    BY <1>2, <1>4, <1>8, <2>1, NeedsTyped, Assumed, ResolveAllSound DEF InvShape
  <2>3. /\ all.eng \in Catalogs(proj.pins) /\ Grows(proj.pins, found.eng, all.eng) /\ all.units \in Seq(AllUnits)
        /\ \A i \in 1 .. Len(all.units) : IsMapped(all.units[i].name)
    BY <2>2 DEF Resolutions
  <2>4. Grows(proj.pins, eng, all.eng)
    BY <1>8, <2>3, GrowsOn
  <2>5. names \in Seq(Names) /\ Range(names) \in SUBSET Names /\ \A x \in Range(names) : IsMapped(x)
    <3>1. PICK s \in Seq(AllUnits), L \in Nat : s = all.units /\ L = Len(s) /\ DOMAIN s = 1 .. L
      BY <2>3
    <3>2. \A i \in 1 .. L : s[i].name \in Names /\ IsMapped(s[i].name)
      BY <2>3, <3>1, UnitNamed
    <3>3. names \in [1 .. L -> Names] /\ \A i \in 1 .. L : IsMapped(names[i])
      BY <1>7, <3>1, <3>2
    <3>4. names \in Seq(Names)
      BY <3>3
    <3> QED
      BY <3>3, <3>4 DEF Range
  <2>6. Range(all.units) \in SUBSET AllUnits
    <3>1. PICK s \in Seq(AllUnits) : s = all.units
      BY <2>3
    <3> QED
      BY <3>1 DEF Range
  <2>7. PICK h : h = [n \in DOMAIN g \union {u.name} |-> IF n = u.name THEN Range(names) ELSE g[n]]
    OBVIOUS
  <2>8. h \in Graphs(Names)
    BY <1>2, <2>1, <2>5, <2>7, GraphGrows
  <2>9. PICK t : t = walk.took \union {u} \union Range(all.units)
    OBVIOUS
  <2>10. t \in SUBSET AllUnits
    BY <1>2, <2>1, <2>6, <2>9
  <2>11. PICK p : p = Tail(q) \o names
    OBVIOUS
  <2>12. p \in Seq(Names)
    BY <1>3, <2>5, <2>11
  <2>19. PICK e \in Distros, n \in Names : \E o, f, x :
            walk = [distro |-> e, image |-> n, queue |-> o, deps |-> f, took |-> x, order |-> <<>>]
    BY <1>1, WalkParts
  <2>13. PICK o, f, x : walk = [distro |-> e, image |-> n, queue |-> o, deps |-> f, took |-> x, order |-> <<>>]
    BY <2>19
  <2>14. o = q /\ f = g /\ x = walk.took
    BY <1>2, <2>13
  <2>15. PICK v : v = [distro |-> e, image |-> n, queue |-> p, deps |-> h, took |-> t, order |-> <<>>]
    OBVIOUS
  <2>16. v \in Walks
    BY <2>8, <2>10, <2>12, <2>15, WalkTyped
  <2>17. walk' = v
    <3>1. walk' = [walk EXCEPT !.queue = Tail(@) \o names,
                                    !.deps = [m \in DOMAIN @ \union {u.name} |->
                                                 IF m = u.name THEN Range(names) ELSE @[m]],
                                    !.took = @ \union {u} \union Range(all.units)]
      BY <1>12
    <3>2. walk' = [distro |-> e, image |-> n, queue |-> Tail(o) \o names,
                   deps |-> [m \in DOMAIN f \union {u.name} |-> IF m = u.name THEN Range(names) ELSE f[m]],
                   took |-> x \union {u} \union Range(all.units), order |-> <<>>]
      BY ONLY <2>13, <3>1
    <3>3. walk' = [distro |-> e, image |-> n, queue |-> p, deps |-> h, took |-> t, order |-> <<>>]
      <4>1. Tail(o) \o names = p
        BY ONLY <2>11, <2>14
      <4>2. [m \in DOMAIN f \union {u.name} |-> IF m = u.name THEN Range(names) ELSE f[m]] = h
        BY ONLY <2>7, <2>14
      <4>3. x \union {u} \union Range(all.units) = t
        BY ONLY <2>9, <2>14
      <4> QED
        BY ONLY <3>2, <4>1, <4>2, <4>3
    <3> QED
      BY <2>15, <3>3
  <2>18. v.distro = walk.distro /\ v.image = walk.image
    BY <2>13, <2>15
  <2>20. Walked
    <3>1. walk'.queue = p /\ walk'.deps = h
      BY <2>15, <2>17
    <3>2. Range(p) = Range(Tail(q)) \union Range(names)
      <4>1. PICK y, z : y = Tail(q) /\ z = names /\ y \in Seq(Names) /\ z \in Seq(Names) /\ p = y \o z
        BY <1>3, <2>5, <2>11
      <4>2. Joins(p, Names, y, z)
        BY ONLY <4>1, ConcatApart
      <4> QED
        BY <4>1, <4>2 DEF Joins
    <3>3. WalkAdds(Range(names))
      BY <1>2, <2>1, <2>5, <2>7, <3>1, <3>2 DEF WalkAdds
    <3> QED
      BY <2>5, <3>3 DEF Walked
  <2> QED
    BY <1>9, <1>12, <2>3, <2>4, <2>16, <2>17, <2>18, <2>20
<1> QED
  BY <1>10, <1>11, <1>12, <1>13

(* What an image registers is a unit of its distro.                         *)
LEMMA ResolvedUnit ==
  ASSUME NEW u \in Units({0}, {0}), NEW d \in Distros, NEW t \in Seq(Names), NEW v, v \in {Resolved(u, d, t), Inert(u, d)}
  PROVE  /\ v \in Units({0}, {0}) /\ v.distro = d
         /\ v.name = u.name /\ v.class = u.class /\ v.provides = u.provides
<1>1. [x \in Distros |-> <<>>] \in [Distros -> Seq(Names)] /\ <<>> \in Seq(Names) /\ d \in DistroTags
  BY DEF DistroTags
<1>2. PICK z \in [Distros -> Seq(Names)] : z = [x \in Distros |-> <<>>]
  BY <1>1
<1>3. CASE v = Resolved(u, d, t)
  <2>1. v = [u EXCEPT !.distro = d, !.rdeps = t, !.distroRdeps = z]
    BY <1>2, <1>3 DEF Resolved
  <2> QED
    BY <1>1, <2>1 DEF Units
<1>4. CASE v = Inert(u, d)
  <2>1. PICK w : w = [u EXCEPT !.distro = d, !.rdeps = <<>>, !.distroRdeps = z]
    OBVIOUS
  <2>2. v = [w EXCEPT !.deps = <<>>, !.tasks = FALSE, !.container = FALSE]
    BY <1>2, <1>4, <2>1 DEF Resolved, Inert
  <2>3. w \in Units({0}, {0}) /\ w.distro = d /\ w.name = u.name /\ w.class = u.class /\ w.provides = u.provides
    BY <1>1, <2>1 DEF Units
  <2> QED
    BY <1>1, <2>2, <2>3 DEF Units
<1> QED
  BY <1>3, <1>4

(* Both ways an image ends register one: of the closure, or an inert one.   *)
LEMMA ImageRegisters ==
  ASSUME InvShape, InvWalk, RegisterInert \/ ImageDone
  PROVE  \E u \in Units({0}, {0}) :
            /\ phase = "images" /\ stack # <<>> /\ File.unit # NoUnit /\ File.unit.class = "image" /\ Register(Owned(u))
            /\ u.name = File.unit.name /\ u.class = File.unit.class /\ u.provides = File.unit.provides
            /\ u.distro = DistroOf(Top.file) /\ u.distro # NoName
            /\ \/ walk = NoWalk /\ ~Bootable(u.distro)
               \/ walk # NoWalk /\ walk \in Walks /\ walk.image = u.name /\ walk.distro = u.distro
<1>1. CASE RegisterInert
  <2>1. /\ phase = "images" /\ stack # <<>> /\ walk = NoWalk /\ File.unit # NoUnit /\ File.unit.class = "image"
        /\ ImageDistro # NoName /\ ~Bootable(ImageDistro) /\ Register(Owned(Inert(File.unit, ImageDistro)))
    BY <1>1 DEF RegisterInert, AtImage, AtBody
  <2>2. File.unit \in Units({0}, {0})
    BY <2>1, TopFrame, Assumed, FileType DEF File
  <2>3. PICK d \in Distros : d = ImageDistro
    BY <2>1, <2>2 DEF ImageDistro, Override, Units, DistroTags, InvShape
  <2>4. d = DistroOf(Top.file) /\ <<>> \in Seq(Names)
    BY <2>1, <2>3 DEF DistroOf, ImageDistro, File
  <2>5. PICK u : u = Inert(File.unit, d)
    OBVIOUS
  <2>6. /\ u \in Units({0}, {0}) /\ u.distro = d
        /\ u.name = File.unit.name /\ u.class = File.unit.class /\ u.provides = File.unit.provides
    BY <2>2, <2>4, <2>5, ResolvedUnit
  <2> QED
    BY <2>1, <2>3, <2>4, <2>5, <2>6
<1>2. CASE ImageDone
  <2>1. /\ phase = "images" /\ walk \in Walks /\ walk # NoWalk /\ stack # <<>> /\ File.unit # NoUnit /\ File.unit.class = "image"
        /\ walk.image = File.unit.name /\ walk.distro = DistroOf(Top.file)
        /\ Register(Owned(Resolved(File.unit, walk.distro, TopoOrder(walk.deps))))
    BY <1>2 DEF ImageDone, InvWalk
  <2>2. File.unit \in Units({0}, {0})
    BY <2>1, TopFrame, Assumed, FileType DEF File
  <2>3. PICK d \in Distros, g \in Graphs(Names) : d = walk.distro /\ g = walk.deps
    BY <2>1, WalkParts
  <2>4. PICK t \in Seq(Names) : t = TopoOrder(g)
    <3>1. PICK S \in SUBSET Names : g \in [S -> SUBSET Names]
      BY <2>3 DEF Graphs
    <3> QED
      BY <3>1, TopoSound
  <2>5. PICK u : u = Resolved(File.unit, d, t)
    OBVIOUS
  <2>6. /\ u \in Units({0}, {0}) /\ u.distro = d
        /\ u.name = File.unit.name /\ u.class = File.unit.class /\ u.provides = File.unit.provides
    BY <2>2, <2>5, ResolvedUnit
  <2>7. Register(Owned(u)) /\ u.distro # NoName
    BY <2>1, <2>3, <2>4, <2>5, <2>6, FeedsAssumed
  <2> QED
    BY <2>1, <2>3, <2>6, <2>7
<1> QED
  BY <1>1, <1>2

LEMMA ShapeImageDone ==
  ASSUME InvShape, InvWalk, RegisterInert \/ ImageDone
  PROVE  InvShape' /\ InvWalk'
<1>1. PICK u \in Units({0}, {0}) : phase = "images" /\ stack # <<>> /\ Register(Owned(u)) /\ u.distro # NoName
  BY ImageRegisters
<1> QED
  BY <1>1, ShapeRegister

LEMMA ShapeStep ==
  ASSUME InvShape, InvWalk, [LoadNext]_loadVars
  PROVE  InvShape' /\ InvWalk'
<1>1. CASE UNCHANGED loadVars
  <2>1. Ended \/ UNCHANGED loadVars
    BY <1>1
  <2>2. UNCHANGED <<proj, defaults, phase, todo, stack, cache, eng, provides, walk, closures, view, why>>
    BY <1>1 DEF loadVars
  <2>3. Frames' = Frames /\ Walks' = Walks /\ Top' = Top /\ File' = File /\ DistroOf(Top.file)' = DistroOf(Top.file)
    BY <2>2 DEF Frames, Walks, Top, File, DistroOf
  <2>4. \A d, n : ResolveForDistro(d, n)' = ResolveForDistro(d, n)
    BY <2>2, ViewStays
  <2>5. InvShape'
    BY <2>2, <2>3, <2>4 DEF InvShape
  <2> QED
    BY <2>2, <2>3, <2>5 DEF InvWalk
<1>2. CASE LoadNext
  BY <1>2, ShapeBefore, ShapeFiles, ShapeUnit, ShapeProvides, ShapeImage, ShapeWalk, ShapeImageDone, ShapeAttached DEF LoadNext
<1> QED
  BY <1>1, <1>2

-----------------------------------------------------------------------------
(* Files that load each other. *)

LEMMA StackStay ==
  ASSUME InvStack, UNCHANGED <<proj, stack, cache>>, phase' = "panic" => phase = "panic"
  PROVE  InvStack'
<1>1. NoNilEntry'
  BY DEF InvStack, NoNilEntry
<1> QED
  BY <1>1 DEF InvStack

LEMMA StackExec ==
  ASSUME InvShape, InvStack, ExecFile
  PROVE  InvStack'
<1>1. /\ phase \in {"units", "images"} /\ stack = <<>> /\ stack' = <<[file |-> Head(todo), at |-> 1]>>
      /\ UNCHANGED <<proj, phase, cache>>
  BY DEF ExecFile
<1>2. 2 .. Len(stack) = {} /\ 2 .. Len(stack') = {}
  BY <1>1
<1>3. NoNilEntry'
  BY <1>1 DEF NoNilEntry
<1> QED
  BY <1>1, <1>2, <1>3 DEF InvStack

(* load() runs a file whose entry it reserved; an entry that is reserved    *)
(* already is of a file being run, and the load()s lead back to it.         *)
LEMMA StackLoad ==
  ASSUME InvShape, InvStack, Load
  PROVE  InvStack'
<1>1. phase \in {"units", "images"} /\ stack # <<>> /\ Top.at <= Len(File.loads) /\ proj' = proj
  BY DEF Load, AtLoad
<1>2. PICK M \in Nat \ {0} : M = Len(stack)
  BY <1>1, TopFrame
<1>3. PICK t \in DOMAIN proj.files : t = Top.file /\ t = stack[M].file
  BY <1>1, <1>2, TopFrame
<1>4. PICK f : f = File.loads[Top.at]
  OBVIOUS
<1>5. f \in DOMAIN proj.files /\ f \in Range(proj.files[t].loads)
  <2>1. PICK l \in Seq(DOMAIN proj.files) : l = proj.files[t].loads
    BY Assumed, FileType
  <2>2. File.loads = l
    BY <1>3, <2>1 DEF File
  <2>3. Top.at \in Nat \ {0} /\ Top.at <= Len(l)
    BY <1>1, <2>2, TopFrame
  <2>4. Top.at \in 1 .. Len(l) /\ f = l[Top.at]
    BY <1>4, <2>1, <2>2, <2>3
  <2> QED
    BY <2>1, <2>4 DEF Range
<1>6. stack \in Seq(Frames)
  BY DEF InvShape
<1>7. /\ \A i \in 2 .. M : i \in 1 .. M /\ i - 1 \in 1 .. M
      /\ \A i \in 2 .. M + 1 : i = M + 1 \/ (i \in 2 .. M /\ i # M + 1)
      /\ \A i \in 2 .. M : i \in 2 .. M + 1
      /\ M + 1 \in 2 .. M + 1 /\ (M + 1) - 1 = M /\ M \in 1 .. M
  BY ONLY <1>2
<1>8. /\ \A i \in 2 .. M : stack[i].file \in Range(proj.files[stack[i - 1].file].loads) /\ cache[stack[i].file] = "reserved"
      /\ \A i, j \in 2 .. M : stack[i].file = stack[j].file => i = j
      /\ \A g \in DOMAIN proj.files : cache[g] = "reserved" => \E i \in 2 .. M : stack[i].file = g
  BY <1>2 DEF InvStack
<1>9. CASE cache[f] = "done" /\ stack' = [stack EXCEPT ![Len(stack)].at = @ + 1] /\ UNCHANGED <<cache, phase>>
  <2>1. Len(stack') = M /\ \A i \in 1 .. M : stack'[i].file = stack[i].file
    BY <1>1, <1>2, <1>6, <1>9, TopFrame DEF Frames
  <2>2. NoNilEntry'
    BY <1>1, <1>9 DEF NoNilEntry
  <2>3. /\ \A i \in 2 .. M : stack'[i].file = stack[i].file /\ stack'[i - 1].file = stack[i - 1].file
    BY <1>7, <2>1
  <2>4. /\ \A i \in 2 .. M : stack'[i].file \in Range(proj.files[stack'[i - 1].file].loads) /\ cache[stack'[i].file] = "reserved"
        /\ \A i, j \in 2 .. M : stack'[i].file = stack'[j].file => i = j
        /\ \A g \in DOMAIN proj.files : cache[g] = "reserved" => \E i \in 2 .. M : stack'[i].file = g
    BY <1>8, <2>3
  <2> QED
    BY <1>1, <1>9, <2>1, <2>2, <2>4 DEF InvStack
<1>10. CASE /\ cache[f] = "none" /\ cache' = [cache EXCEPT ![f] = "reserved"]
            /\ stack' = Append(stack, [file |-> f, at |-> 1]) /\ UNCHANGED phase
  <2>1. /\ Len(stack') = M + 1 /\ \A i \in 1 .. M : stack'[i] = stack[i]
        /\ stack'[M + 1].file = f
    BY <1>2, <1>6, <1>10
  <2>2. cache'[f] = "reserved" /\ \A g \in DOMAIN proj.files : g # f => cache'[g] = cache[g]
    BY <1>5, <1>10 DEF InvShape
  <2>3. \A i \in 2 .. M : /\ stack'[i].file = stack[i].file /\ stack'[i - 1].file = stack[i - 1].file
                          /\ stack[i].file \in DOMAIN proj.files /\ stack[i].file # f
    <3>1. \A i \in 1 .. M : stack[i].file \in DOMAIN proj.files
      BY <1>1, <1>2, TopFrame
    <3>2. ASSUME NEW i \in 2 .. M PROVE stack[i].file # f
      <4>1. cache[stack[i].file] = "reserved" /\ cache[f] = "none"
        BY <1>8, <1>10
      <4> QED
        BY ONLY <4>1
    <3>3. ASSUME NEW i \in 2 .. M PROVE stack'[i] = stack[i] /\ stack'[i - 1] = stack[i - 1] /\ i \in 1 .. M
      BY <1>7, <2>1
    <3> QED
      BY <3>1, <3>2, <3>3
  <2>4. \A i \in 2 .. M + 1 : stack'[i].file \in Range(proj.files[stack'[i - 1].file].loads) /\ cache'[stack'[i].file] = "reserved"
    <3>1. ASSUME NEW i \in 2 .. M
          PROVE  stack'[i].file \in Range(proj.files[stack'[i - 1].file].loads) /\ cache'[stack'[i].file] = "reserved"
      <4>1. stack'[i].file = stack[i].file /\ stack'[i - 1].file = stack[i - 1].file
        BY <2>3
      <4>2. cache'[stack[i].file] = cache[stack[i].file]
        BY <2>2, <2>3
      <4>3. stack[i].file \in Range(proj.files[stack[i - 1].file].loads) /\ cache[stack[i].file] = "reserved"
        BY <1>8
      <4> QED
        BY ONLY <4>1, <4>2, <4>3
    <3>2. stack'[M + 1].file = f /\ stack'[(M + 1) - 1].file = stack[M].file
      BY <1>7, <2>1
    <3>3. f \in Range(proj.files[stack[M].file].loads)
      BY <1>2, <1>3, <1>5
    <3>4. stack'[M + 1].file \in Range(proj.files[stack'[(M + 1) - 1].file].loads) /\ cache'[stack'[M + 1].file] = "reserved"
      BY ONLY <2>2, <3>2, <3>3
    <3>5. \A i \in 2 .. M + 1 : i \in 2 .. M \/ i = M + 1
      BY ONLY <1>2
    <3> QED
      BY ONLY <3>1, <3>4, <3>5
  <2>5. \A i, j \in 2 .. M + 1 : stack'[i].file = stack'[j].file => i = j
    BY <1>7, <1>8, <2>1, <2>3
  <2>6. ASSUME NEW g \in DOMAIN proj.files, cache'[g] = "reserved" PROVE \E i \in 2 .. M + 1 : stack'[i].file = g
    <3>1. CASE g = f
      BY ONLY <1>7, <2>1, <3>1
    <3>2. CASE g # f
      <4>1. cache[g] = "reserved"
        BY ONLY <2>2, <2>6, <3>2
      <4>2. PICK i \in 2 .. M : stack[i].file = g
        BY ONLY <1>8, <2>6, <4>1
      <4>3. i \in 2 .. M + 1
        BY ONLY <1>2, <4>2
      <4>4. stack'[i].file = g
        BY ONLY <2>3, <4>2
      <4> QED
        BY ONLY <4>3, <4>4
    <3> QED
      BY ONLY <3>1, <3>2
  <2>7. NoNilEntry'
    BY <1>1, <1>10 DEF NoNilEntry
  <2> QED
    BY <1>1, <2>1, <2>4, <2>5, <2>6, <2>7 DEF InvStack
<1>11. CASE cache[f] = "reserved" /\ phase' = "panic" /\ UNCHANGED <<stack, cache>>
  <2>1. PICK k \in 2 .. M : stack[k].file = f
    BY <1>5, <1>8, <1>11
  <2>2. PICK C : C = {stack[j].file : j \in k .. M}
    OBVIOUS
  <2>3. \A j \in k .. M : j \in 1 .. M /\ (j = M \/ (j + 1 \in k .. M /\ j + 1 \in 2 .. M /\ (j + 1) - 1 = j))
    BY ONLY <1>2, <2>1
  <2>4. f \in C
    <3>1. k \in k .. M
      BY ONLY <1>2, <2>1
    <3> QED
      BY <2>1, <2>2, <3>1
  <2>5. C \in SUBSET DOMAIN proj.files
    BY <1>1, <1>2, <2>2, <2>3, TopFrame
  <2>6. ASSUME NEW x \in C PROVE \E g \in C : g \in Range(proj.files[x].loads)
    <3>1. PICK j \in k .. M : x = stack[j].file
      BY <2>2
    <3>2. CASE j = M
      BY <1>3, <1>5, <2>4, <3>1, <3>2
    <3>3. CASE j # M
      <4>1. j + 1 \in k .. M /\ stack[j + 1].file \in Range(proj.files[stack[j].file].loads)
        BY <1>8, <2>3, <3>3
      <4> QED
        BY <2>2, <3>1, <4>1
    <3> QED
      BY <3>2, <3>3
  <2>7. NoNilEntry'
    BY <1>1, <2>4, <2>5, <2>6 DEF NoNilEntry
  <2> QED
    BY <1>1, <1>11, <2>7 DEF InvStack
<1> QED
  BY <1>4, <1>9, <1>10, <1>11 DEF Load

LEMMA StackReturn ==
  ASSUME InvShape, InvStack, stack # <<>>, Return, UNCHANGED proj, phase' # "panic"
  PROVE  InvStack'
<1>1. PICK M \in Nat \ {0} : M = Len(stack)
  BY TopFrame
<1>2. Top = stack[M] /\ Len(stack') = M - 1 /\ \A i \in 1 .. M - 1 : stack'[i] = stack[i]
  BY <1>1, TopFrame DEF Return
<1>3. cache' = [cache EXCEPT ![Top.file] = "done"]
  BY DEF Return
<1>4. /\ \A i \in 2 .. M - 1 : i \in 1 .. M - 1 /\ i - 1 \in 1 .. M - 1 /\ i \in 2 .. M /\ i # M /\ i \in 1 .. M
      /\ \A i \in 2 .. M : i = M \/ i \in 2 .. M - 1
      /\ M # 1 => M \in 2 .. M
  BY ONLY <1>1
<1>5. /\ \A i \in 2 .. M : stack[i].file \in Range(proj.files[stack[i - 1].file].loads) /\ cache[stack[i].file] = "reserved"
      /\ \A i, j \in 2 .. M : stack[i].file = stack[j].file => i = j
      /\ \A g \in DOMAIN proj.files : cache[g] = "reserved" => \E i \in 2 .. M : stack[i].file = g
  BY <1>1 DEF InvStack
<1>6. \A i \in 2 .. M - 1 : /\ stack'[i].file = stack[i].file /\ stack'[i - 1].file = stack[i - 1].file
                            /\ stack[i].file # Top.file /\ stack[i].file \in DOMAIN proj.files
  <2>1. \A i \in 1 .. M : stack[i].file \in DOMAIN proj.files
    BY <1>1, TopFrame
  <2>2. \A i \in 2 .. M - 1 : M \in 2 .. M
    BY ONLY <1>1
  <2> QED
    BY <1>2, <1>4, <1>5, <2>1, <2>2
<1>7. \A g \in DOMAIN proj.files : cache'[g] = IF g = Top.file THEN "done" ELSE cache[g]
  BY <1>3, TopFrame DEF InvShape
<1>8. \A i \in 2 .. M - 1 : stack'[i].file \in Range(proj.files[stack'[i - 1].file].loads) /\ cache'[stack'[i].file] = "reserved"
  BY <1>4, <1>5, <1>6, <1>7
<1>9. ASSUME NEW i \in 2 .. M - 1, NEW j \in 2 .. M - 1, stack'[i].file = stack'[j].file PROVE i = j
  <2>1. stack[i].file = stack[j].file
    BY ONLY <1>6, <1>9
  <2>2. i \in 2 .. M /\ j \in 2 .. M
    BY ONLY <1>4
  <2> QED
    BY ONLY <1>5, <2>1, <2>2
<1>10. ASSUME NEW g \in DOMAIN proj.files, cache'[g] = "reserved" PROVE \E i \in 2 .. M - 1 : stack'[i].file = g
  <2>1. g # Top.file /\ cache[g] = "reserved"
    BY <1>7, <1>10
  <2>2. PICK i \in 2 .. M : stack[i].file = g
    BY <1>5, <2>1
  <2>3. i \in 2 .. M - 1
    BY <1>2, <1>4, <2>1, <2>2
  <2> QED
    BY <1>6, <2>2, <2>3
<1>11. NoNilEntry'
  BY DEF NoNilEntry
<1> QED
  BY <1>2, <1>8, <1>9, <1>10, <1>11 DEF InvStack

LEMMA StackStep ==
  ASSUME InvShape, InvWalk, InvStack, [LoadNext]_loadVars
  PROVE  InvStack'
<1>1. CASE UNCHANGED loadVars
  BY <1>1, StackStay DEF loadVars
<1>2. CASE ExecFile \/ Load
  BY <1>2, StackExec, StackLoad
<1>3. CASE Class \/ Unit \/ RegisterInert \/ ImageDone
  <2>1. ASSUME NEW u, Register(u)
        PROVE  \/ phase' = "failed" /\ UNCHANGED <<proj, stack, cache>>
               \/ Return /\ UNCHANGED <<proj, phase>>
    BY <2>1 DEF Register, Fail
  <2>2. \/ phase' = "failed" /\ UNCHANGED <<proj, stack, cache>>
        \/ Return /\ UNCHANGED <<proj, phase>>
    <3>1. CASE Class
      BY <3>1 DEF Class
    <3>2. CASE Unit \/ RegisterInert \/ ImageDone
      BY <2>1, <3>2 DEF Unit, RegisterInert, ImageDone
    <3> QED
      BY <1>3, <3>1, <3>2
  <2>3. stack # <<>> /\ phase # "panic"
    <3>1. CASE ImageDone
      BY <3>1 DEF ImageDone, InvWalk
    <3>2. CASE Class \/ Unit \/ RegisterInert
      BY <3>2 DEF Class, Unit, RegisterInert, AtImage, AtBody
    <3> QED
      BY <1>3, <3>1, <3>2
  <2>4. CASE phase' = "failed" /\ UNCHANGED <<proj, stack, cache>>
    BY <2>4, StackStay
  <2>5. CASE Return /\ UNCHANGED <<proj, phase>>
    BY <2>3, <2>5, StackReturn
  <2> QED
    BY <2>2, <2>4, <2>5
<1>4. CASE Image \/ WalkStep
  <2>1. UNCHANGED <<proj, stack, cache>> /\ (phase' = phase \/ phase' = "failed")
    <3>1. CASE Image
      BY <3>1 DEF Image, Fail
    <3>2. CASE WalkStep
      BY <3>2 DEF WalkStep, Fail
    <3> QED
      BY <1>4, <3>1, <3>2
  <2> QED
    BY <2>1, StackStay
<1>5. CASE ApplyLocal \/ Machines \/ Preflight \/ UnitsDone \/ Provide \/ ProvidesDone \/ ImagesDone \/ Materialize
           \/ BuildViews \/ Ended
  <2>1. UNCHANGED <<proj, stack, cache>> /\ (phase' = "panic" => phase = "panic")
    BY <1>5 DEF ApplyLocal, Machines, Preflight, UnitsDone, Provide, ProvidesDone, ImagesDone, Materialize, BuildViews, Ended,
       Fail, loadVars
  <2> QED
    BY <2>1, StackStay
<1> QED
  BY <1>1, <1>2, <1>3, <1>4, <1>5 DEF LoadNext

-----------------------------------------------------------------------------
(* Walks are of images the machine can boot. *)

LEMMA ProjectStays == ASSUME [LoadNext]_loadVars PROVE proj' = proj
<1>1. CASE UNCHANGED loadVars
  BY <1>1 DEF loadVars
<1>2. CASE LoadNext
  <2>1. \A u : Register(u) => proj' = proj
    BY DEF Register, Fail
  <2>2. CASE Unit \/ RegisterInert \/ ImageDone
    BY <2>1, <2>2 DEF Unit, RegisterInert, ImageDone
  <2>3. CASE WalkStep
    BY <2>3 DEF WalkStep, Fail
  <2>5. CASE Image
    BY <2>5 DEF Image, Fail
  <2>4. CASE ~(Unit \/ RegisterInert \/ ImageDone \/ WalkStep \/ Image)
    BY <1>2, <2>4 DEF LoadNext, ApplyLocal, Machines, Preflight, ExecFile, Load, Class, UnitsDone, Provide, ProvidesDone,
       ImagesDone, Materialize, BuildViews, Ended, Fail, loadVars
  <2> QED
    BY <2>2, <2>3, <2>4, <2>5
<1> QED
  BY <1>1, <1>2

LEMMA MachineStays ==
  ASSUME proj' = proj
  PROVE  Kernel' = Kernel /\ \A d : Bootable(d)' = Bootable(d)
<1>1. Kernel' = Kernel
  BY DEF Kernel, Machine
<1> QED
  BY <1>1 DEF Bootable

LEMMA BootStay ==
  ASSUME InvBoot, UNCHANGED <<proj, closures>>, walk' = NoWalk \/ walk' = walk
  PROVE  InvBoot'
BY MachineStays DEF InvBoot

LEMMA BootStep ==
  ASSUME InvShape, InvWalk, InvBoot, [LoadNext]_loadVars
  PROVE  InvBoot'
<1>0. proj' = proj
  BY ProjectStays
<1>1. CASE UNCHANGED loadVars
  BY <1>1, BootStay DEF loadVars
<1>2. CASE Image
  <2>1. UNCHANGED closures
    BY <1>2 DEF Image, Fail
  <2>2. CASE walk' = walk
    BY <1>0, <2>1, <2>2, BootStay
  <2>3. CASE walk' # walk
    <3>1. \E q : StartWalk(File.unit.name, ImageDistro, q) /\ Bootable(ImageDistro)
      BY <1>2, <2>3 DEF Image, Fail
    <3>2. walk'.distro = ImageDistro
      BY <3>1 DEF StartWalk
    <3> QED
      BY <1>0, <2>1, <3>1, <3>2, MachineStays DEF InvBoot
  <2> QED
    BY <2>2, <2>3
<1>3. CASE WalkStep
  <2>1. walk # NoWalk /\ WalkGrows
    BY <1>3, ShapeWalk DEF WalkStep
  <2>2. UNCHANGED closures /\ walk'.distro = walk.distro
    BY <2>1 DEF WalkGrows
  <2> QED
    BY <1>0, <2>1, <2>2, MachineStays DEF InvBoot
<1>4. CASE Unit \/ RegisterInert \/ ImageDone
  <2>1. PICK u : Register(u)
    BY <1>4 DEF Unit, RegisterInert, ImageDone
  <2>2. PICK t : t = TopoOrder(walk.deps)
    OBVIOUS
  <2>3. \/ UNCHANGED <<walk, closures>>
        \/ walk' = NoWalk /\ closures' = IF walk = NoWalk THEN closures ELSE closures \union {[walk EXCEPT !.order = t]}
    BY <2>1, <2>2 DEF Register, Fail
  <2>4. CASE UNCHANGED closures /\ (walk' = walk \/ walk' = NoWalk)
    BY <1>0, <2>4, BootStay
  <2>5. CASE walk # NoWalk /\ walk' = NoWalk /\ closures' = closures \union {[walk EXCEPT !.order = t]}
    <3>1. walk \in Walks
      BY <2>5 DEF InvWalk
    <3>2. PICK e, n, o, h, x : walk = [distro |-> e, image |-> n, queue |-> o, deps |-> h, took |-> x, order |-> <<>>]
      BY <3>1, WalkParts
    <3>3. PICK c : c = [walk EXCEPT !.order = t]
      OBVIOUS
    <3>4. c.distro = walk.distro
      BY ONLY <3>2, <3>3
    <3> QED
      BY <1>0, <2>5, <3>3, <3>4, MachineStays DEF InvBoot
  <2> QED
    BY <2>3, <2>4, <2>5
<1>5. CASE LoadNext /\ ~(Image \/ WalkStep \/ Unit \/ RegisterInert \/ ImageDone)
  <2>1. UNCHANGED <<walk, closures>>
    BY <1>5 DEF LoadNext, ApplyLocal, Machines, Preflight, ExecFile, Load, Class, UnitsDone, Provide, ProvidesDone,
       ImagesDone, Materialize, BuildViews, Ended, Fail, loadVars
  <2> QED
    BY <1>0, <2>1, BootStay
<1> QED
  BY <1>1, <1>2, <1>3, <1>4, <1>5

-----------------------------------------------------------------------------
(* Files the phase goes through. *)

LEMMA BottomReturn ==
  ASSUME InvShape, stack # <<>>, Return
  PROVE  /\ Len(stack) = 1 => Bottom = {Top.file} /\ Bottom' = {} /\ stack' = <<>>
         /\ Len(stack) # 1 => Bottom' = Bottom /\ stack' # <<>>
<1>1. PICK M \in Nat \ {0} : M = Len(stack)
  BY TopFrame
<1>2. Top = stack[M] /\ Len(stack') = M - 1 /\ \A i \in 1 .. M - 1 : stack'[i] = stack[i]
  BY <1>1, TopFrame DEF Return
<1>3. stack' \in Seq(Frames)
  BY TopFrame DEF Return
<1>4. M = 1 => Bottom = {Top.file} /\ Bottom' = {} /\ stack' = <<>>
  <2>1. M = 1 => stack' = <<>>
    BY <1>2, <1>3, EmptySeq
  <2> QED
    BY <1>2, <2>1 DEF Bottom
<1>5. M # 1 => Bottom' = Bottom /\ stack' # <<>>
  <2>1. M # 1 => 1 \in 1 .. M - 1 /\ M - 1 # 0
    OBVIOUS
  <2>2. Len(<<>>) = 0
    OBVIOUS
  <2>3. M # 1 => stack' # <<>>
    BY <1>2, <2>1, <2>2
  <2> QED
    BY <1>2, <2>1, <2>3 DEF Bottom
<1> QED
  BY <1>1, <1>4, <1>5

LEMMA TodoStay ==
  ASSUME InvTodo, UNCHANGED <<proj, phase, todo>>, Bottom' \subseteq Bottom
  PROVE  InvTodo'
<1>1. Left' \subseteq Left
  BY DEF Left
<1> QED
  BY <1>1 DEF InvTodo

LEMMA EvaluatedStay ==
  ASSUME UNCHANGED <<proj, phase>>, Left' = Left
  PROVE  Evaluated' = Evaluated
BY DEF Evaluated

(* A file that has been run is one more.                                    *)
LEMMA EvaluatedReturn ==
  ASSUME InvTodo, phase \in {"units", "images"}, NEW f \in DOMAIN proj.files, Bottom = {f}, Bottom' = {},
         UNCHANGED <<proj, phase, todo>>
  PROVE  Evaluated' = Evaluated \union {f} /\ f \notin Evaluated
<1>1. Left = Range(todo) \union {f} /\ Left' = Range(todo) /\ f \notin Range(todo)
  BY DEF Left, InvTodo
<1>2. proj.files[f].dir \in IF phase = "units" THEN {"containers", "units"} ELSE {"images"}
  BY <1>1 DEF InvTodo
<1>3. f \notin Evaluated /\ f \in Evaluated'
  BY <1>1, <1>2 DEF Evaluated
<1>4. \A g \in DOMAIN proj.files : g # f => (g \in Left' <=> g \in Left)
  BY <1>1
<1>5. \A g \in DOMAIN proj.files : g # f => (g \in Evaluated' <=> g \in Evaluated)
  BY <1>4 DEF Evaluated
<1>6. Evaluated \subseteq DOMAIN proj.files /\ Evaluated' \subseteq DOMAIN proj.files
  BY DEF Evaluated
<1> QED
  BY <1>3, <1>5, <1>6

(* ExecFile takes the first of the files that are left.                     *)
LEMMA TodoExec ==
  ASSUME InvShape, InvTodo, ExecFile
  PROVE  InvTodo' /\ Left' = Left
<1>1. /\ phase \in {"units", "images"} /\ stack = <<>> /\ todo # <<>>
      /\ stack' = <<[file |-> Head(todo), at |-> 1]>> /\ todo' = Tail(todo)
      /\ UNCHANGED <<proj, phase>>
  BY DEF ExecFile
<1>2. PICK D, s : D = DOMAIN proj.files /\ s = todo /\ s \in Seq(D) /\ s # <<>>
  BY <1>1 DEF InvShape
<1>3. PICK M \in Nat \ {0} : M = Len(s) /\ DOMAIN s = 1 .. M
  BY <1>2, EmptySeq
<1>4. PICK t : t = Tail(s)
  OBVIOUS
<1>5. Head(s) = s[1] /\ DOMAIN t = 1 .. M - 1 /\ \A i \in 1 .. M - 1 : t[i] = s[i + 1]
  BY <1>2, <1>3, <1>4, HeadTailProperties
<1>6. \A i, j \in 1 .. M : s[i] = s[j] => i = j
  BY <1>1, <1>2, <1>3 DEF InvTodo
<1>7. \A i \in 1 .. M - 1 : i + 1 \in 1 .. M /\ i + 1 # 1
  OBVIOUS
<1>8. \A i, j \in 1 .. M - 1 : t[i] = t[j] => i = j
  BY <1>5, <1>6, <1>7
<1>9. s[1] \notin Range(t)
  BY <1>5, <1>6, <1>7 DEF Range
<1>10. Range(s) = Range(t) \union {s[1]}
  BY <1>2, <1>4, <1>5, HeadOrTail
<1>11. Bottom = {} /\ Bottom' = {s[1]}
  BY <1>1, <1>2, <1>5 DEF Bottom
<1>12. Left' = Left
  BY <1>1, <1>2, <1>4, <1>10, <1>11 DEF Left
<1>13. /\ \A i, j \in DOMAIN todo' : todo'[i] = todo'[j] => i = j
       /\ Bottom' \cap Range(todo') = {}
  BY <1>1, <1>2, <1>4, <1>5, <1>8, <1>9, <1>11
<1>14. \A f \in Left : proj.files[f].dir \in IF phase = "units" THEN {"containers", "units"} ELSE {"images"}
  BY <1>1 DEF InvTodo
<1>15. InvTodo'
  BY <1>1, <1>12, <1>13, <1>14 DEF InvTodo
<1> QED
  BY <1>12, <1>15

LEMMA TodoStarts ==
  ASSUME InvShape, (Preflight /\ phase' = "units") \/ ProvidesDone
  PROVE  InvTodo' /\ Evaluated' = Evaluated
<1>1. stack = <<>> /\ stack' = <<>> /\ proj' = proj /\ phase \in {"preflight", "provides"}
      /\ phase' = (IF phase = "preflight" THEN "units" ELSE "images")
  BY DEF Preflight, ProvidesDone, InvShape, Fail
<1>2. PICK D : D = DOMAIN proj.files
  OBVIOUS
<1>3. PICK X : X = {f \in D : proj.files[f].dir \in IF phase = "preflight" THEN {"containers", "units"} ELSE {"images"}}
  OBVIOUS
<1>4. Range(todo') = X /\ Apart(todo')
  <2>1. CASE ProvidesDone
    <3>1. todo' = Order("images") /\ phase = "provides"
      BY <2>1 DEF ProvidesDone
    <3> QED
      BY <1>2, <1>3, <3>1, Assumed, OrderSound
  <2>2. CASE Preflight /\ phase' = "units"
    <3>1. PICK s, t : s = Order("containers") /\ t = Order("units")
      OBVIOUS
    <3>2. todo' = s \o t /\ phase = "preflight"
      BY <2>2, <3>1 DEF Preflight, Fail
    <3>3. /\ s \in Seq(D) /\ Apart(s) /\ t \in Seq(D) /\ Apart(t)
          /\ Range(s) = {f \in D : proj.files[f].dir = "containers"} /\ Range(t) = {f \in D : proj.files[f].dir = "units"}
      BY <1>2, <3>1, Assumed, OrderSound
    <3>4. Joins(todo', D, s, t)
      BY <3>2, <3>3, ConcatApart
    <3>5. Range(s) \cap Range(t) = {}
      BY <3>3
    <3> QED
      BY <1>3, <3>2, <3>3, <3>4, <3>5 DEF Joins
  <2> QED
    BY <2>1, <2>2
<1>5. Bottom' = {} /\ Left' = X
  BY <1>1, <1>4 DEF Bottom, Left
<1>6. InvTodo'
  <2>1. \A f \in X : proj.files[f].dir \in IF phase' = "units" THEN {"containers", "units"} ELSE {"images"}
    BY <1>1, <1>3
  <2> QED
    BY <1>1, <1>4, <1>5, <2>1 DEF InvTodo, Apart
<1>7. Evaluated' = Evaluated
  <2>1. \A f \in D : f \in Evaluated' <=> f \in Evaluated
    BY <1>1, <1>2, <1>3, <1>5 DEF Evaluated
  <2>2. Evaluated \subseteq D /\ Evaluated' \subseteq D
    BY <1>1, <1>2 DEF Evaluated
  <2> QED
    BY <2>1, <2>2
<1> QED
  BY <1>6, <1>7

(* The phases that go through files end when none is left.                  *)
LEMMA EvaluatedEnds ==
  ASSUME UNCHANGED proj,
         \/ phase \in {"units", "images"} /\ stack = <<>> /\ todo = <<>> /\ phase' = (IF phase = "units" THEN "provides" ELSE "fixpoint")
         \/ phase \in {"fixpoint", "views", "loaded"} /\ phase' \in {"fixpoint", "views", "loaded"}
         \/ phase = "provides" /\ phase' = "provides"
         \/ phase \in {"project", "machines"} /\ phase' \in {"machines", "machinesOnly", "preflight"}
  PROVE  Evaluated' = Evaluated
<1>1. (stack = <<>> /\ todo = <<>>) => Left = {}
  BY DEF Left, Bottom, Range
<1>2. DOMAIN proj.files = DOMAIN proj.files'
  OBVIOUS
<1>3. \A f \in DOMAIN proj.files : f \in Evaluated' <=> f \in Evaluated
  BY <1>1 DEF Evaluated
<1>4. Evaluated \subseteq DOMAIN proj.files /\ Evaluated' \subseteq DOMAIN proj.files
  BY DEF Evaluated
<1> QED
  BY <1>3, <1>4

-----------------------------------------------------------------------------
(* Declared units are kept for their distros. *)

LEMMA FeedNotFile == ASSUME NEW pins, NEW u PROVE ~(FromFile(u) /\ FromFeed(pins, u))
BY FeedsAssumed DEF FromFile, FromFeed

LEMMA ServedStay ==
  ASSUME InvShape, InvServed, Evaluated' = Evaluated, UNCHANGED proj, defaults'.distro = defaults.distro,
         eng' = eng \/ Grows(proj.pins, eng, eng'), closures \subseteq closures', phase \notin {"failed", "panic"}
  PROVE  InvServed'
<1>1. /\ \A u \in eng.cat : FromFile(u) => u \in eng'.cat
      /\ \A u \in eng'.cat : FromFile(u) => u \in eng.cat
      /\ \A n \in Names : eng'.flat[n] = eng.flat[n] \/ ~FromFile(eng'.flat[n])
  BY FeedNotFile DEF Grows
<1>2. (\A f : DistroOf(f)' = DistroOf(f)) /\ (\A d : Bootable(d)' = Bootable(d)) /\ (\A n : Once(n)' = Once(n))
  BY MachineStays DEF DistroOf, Once
<1>3. ASSUME NEW f \in Evaluated, proj.files[f].unit # NoUnit, Once(proj.files[f].unit.name) PROVE Served(f)'
  <2>1. Served(f)
    BY <1>3 DEF InvServed
  <2> QED
    BY <1>1, <1>2, <2>1 DEF Served
<1>4. ASSUME NEW w \in eng'.cat, FromFile(w), Once(w.name) PROVE \E f \in Evaluated : Serves(f, w)'
  <2>1. PICK f \in Evaluated : Serves(f, w)
    BY <1>1, <1>4 DEF InvServed
  <2> QED
    BY <1>2, <2>1 DEF Serves
<1>5. \A n \in Names : (eng'.flat[n] # NoUnit /\ FromFile(eng'.flat[n]) /\ Once(n)) => eng'.flat[n] \in eng'.cat
  BY <1>1 DEF InvServed
<1> QED
  BY <1>2, <1>3, <1>4, <1>5 DEF InvServed

(* A file that declares a unit is not run by a load().                      *)
LEMMA Outermost ==
  ASSUME InvShape, WellFormed(proj), InvStack, stack # <<>>, File.unit # NoUnit
  PROVE  Len(stack) = 1 /\ Top = stack[1] /\ Bottom = {Top.file} /\ Top.file \in DOMAIN proj.files
<1>1. PICK M \in Nat \ {0} : M = Len(stack)
  BY TopFrame
<1>2. Top = stack[M] /\ Top.file \in DOMAIN proj.files
  BY <1>1, TopFrame
<1>3. M = 1 \/ M \in 2 .. M
  OBVIOUS
<1>4. M \notin 2 .. M
  <2>1. M \in 2 .. M => M - 1 \in 1 .. M
    OBVIOUS
  <2>2. ASSUME M \in 2 .. M PROVE FALSE
    <3>1. stack[M - 1].file \in DOMAIN proj.files /\ stack[M].file \in Range(proj.files[stack[M - 1].file].loads)
      BY <1>1, <2>1, <2>2, TopFrame DEF InvStack
    <3> QED
      BY <1>2, <3>1 DEF WellFormed, File
  <2> QED
    BY <2>2
<1> QED
  BY <1>1, <1>2, <1>3, <1>4 DEF Bottom

(* What registerUnit leaves in the catalogs, unless the unit is a           *)
(* duplicate.                                                               *)
RegisterLeaves(u) ==
    LET old == eng.flat[u.name]
    IN  \/ /\ UNCHANGED eng
           /\ old # NoUnit /\ ~CrossDistro(u, old) /\ u.idx < old.idx
        \/ /\ eng' \in Catalogs(proj.pins)
           /\ eng'.cat = {w \in eng.cat : w.mod # u.mod \/ w.name # u.name} \union {u}
           /\ \A n \in Names : n # u.name => eng'.flat[n] = eng.flat[n]
           /\ eng'.flat[u.name] = old \/ eng'.flat[u.name] = u

LEMMA RegisterSound ==
  ASSUME InvShape, stack # <<>>, NEW u \in AllUnits, FromFile(u), Register(u), phase \in {"units", "images"}
  PROVE  \/ phase' = "failed" /\ UNCHANGED <<proj, stack, cache>>
         \/ /\ RegisterLeaves(u) /\ Return /\ walk' = NoWalk
            /\ closures' = IF walk = NoWalk THEN closures ELSE closures \union {[walk EXCEPT !.order = TopoOrder(walk.deps)]}
            /\ UNCHANGED <<proj, defaults, phase, todo, provides, view, why>>
<1> DEFINE old == eng.flat[u.name]
           meets == old # NoUnit /\ ~CrossDistro(u, old)
<1>1. \/ Fail(<<"duplicate", u.name>>)
      \/ /\ \/ meets /\ u.idx < old.idx /\ UNCHANGED eng
            \/ eng' = Stored([eng EXCEPT !.flat[u.name] = IF old # NoUnit /\ ~meets THEN @ ELSE u], u)
         /\ Return /\ walk' = NoWalk
         /\ closures' = IF walk = NoWalk THEN closures ELSE closures \union {[walk EXCEPT !.order = TopoOrder(walk.deps)]}
         /\ UNCHANGED <<proj, defaults, phase, todo, provides, view, why>>
  BY DEF Register
<1>2. Fail(<<"duplicate", u.name>>) => phase' = "failed" /\ UNCHANGED <<proj, stack, cache>>
  BY DEF Fail
<1>3. (meets /\ u.idx < old.idx /\ UNCHANGED eng) => RegisterLeaves(u)
  BY DEF RegisterLeaves
<1>4. ASSUME eng' = Stored([eng EXCEPT !.flat[u.name] = IF old # NoUnit /\ ~meets THEN @ ELSE u], u)
      PROVE  RegisterLeaves(u)
  <2>1. PICK o : o = eng.flat[u.name]
    OBVIOUS
  <2>2. eng' = Stored([eng EXCEPT !.flat[u.name] =
                           IF o # NoUnit /\ ~(o # NoUnit /\ ~CrossDistro(u, o)) THEN @ ELSE u], u)
    BY <1>4, <2>1
  <2>3. /\ eng' \in Catalogs(proj.pins)
        /\ eng'.cat = {w \in eng.cat : w.mod # u.mod \/ w.name # u.name} \union {u}
        /\ \A n \in Names : n # u.name => eng'.flat[n] = eng.flat[n]
        /\ eng'.flat[u.name] = IF o # NoUnit /\ CrossDistro(u, o) THEN o ELSE u
    BY <2>1, <2>2, Registered
  <2> QED
    BY <2>1, <2>3 DEF RegisterLeaves
<1> QED
  BY <1>1, <1>2, <1>3, <1>4

LEMMA ServedRegister ==
  ASSUME InvShape, WellFormed(proj), InvServed, phase \in {"units", "images"}, NEW f \in DOMAIN proj.files,
         proj.files[f].unit # NoUnit, f \notin Evaluated, Evaluated' = Evaluated \union {f},
         NEW v \in AllUnits, FromFile(v), v.mod = proj.files[f].mod, v.name = proj.files[f].unit.name,
         v.class = proj.files[f].unit.class, v.distro = DistroOf(f),
         v.class = "image" => v.distro # NoName,
         v.class = "image" /\ Bootable(v.distro) => \E c \in closures' : c.image = v.name /\ c.distro = v.distro,
         RegisterLeaves(v), UNCHANGED <<proj, defaults>>, closures \subseteq closures'
  PROVE  InvServed'
<1>1. PICK old : old = eng.flat[v.name]
  OBVIOUS
<1>2. v.name \in Names /\ v.idx = v.mod /\ v.mod \in 1 .. N + 1 /\ v # NoUnit
  BY UnitNamed DEF FromFile
<1>3. \A w \in eng.cat : (FromFile(w) /\ Once(w.name)) => \E g \in Evaluated : Serves(g, w)
  BY DEF InvServed
<1>4. \A w \in eng.cat : (FromFile(w) /\ Once(w.name)) => w.mod # v.mod \/ w.name # v.name
  <2> TAKE w \in eng.cat
  <2>1. ASSUME FromFile(w), Once(w.name), w.mod = v.mod, w.name = v.name PROVE FALSE
    <3>1. PICK g \in Evaluated : Serves(g, w)
      BY <1>3, <2>1
    <3>2. g \in DOMAIN proj.files
      BY DEF Evaluated
    <3>3. proj.files[g].unit # NoUnit /\ proj.files[g].mod = w.mod /\ proj.files[g].unit.name = w.name
      BY <3>1 DEF Serves
    <3>4. g = f
      BY <2>1, <3>2, <3>3 DEF Once
    <3> QED
      BY <3>4
  <2> QED
    BY <2>1
<1>5. /\ \A w \in eng.cat : (FromFile(w) /\ Once(w.name)) => w \in eng'.cat
      /\ \A w \in eng'.cat : FromFile(w) => w = v \/ w \in eng.cat
      /\ \A n \in Names : (eng'.flat[n] # NoUnit /\ FromFile(eng'.flat[n]) /\ Once(n)) => eng'.flat[n] \in eng'.cat
  <2>1. \A n \in Names : (eng.flat[n] # NoUnit /\ FromFile(eng.flat[n]) /\ Once(n)) => eng.flat[n] \in eng.cat
    BY DEF InvServed
  <2>4. \A n \in Names : eng.flat[n] # NoUnit => eng.flat[n].name = n
    BY DEF InvShape, Catalogs, CatalogOK
  <2>2. CASE UNCHANGED eng
    BY <2>1, <2>2
  <2>3. CASE /\ eng'.cat = {w \in eng.cat : w.mod # v.mod \/ w.name # v.name} \union {v}
             /\ \A n \in Names : n # v.name => eng'.flat[n] = eng.flat[n]
             /\ eng'.flat[v.name] = old \/ eng'.flat[v.name] = v
    <3>1. \A w \in eng.cat : (FromFile(w) /\ Once(w.name)) => w \in eng'.cat
      BY <1>4, <2>3
    <3>2. \A w \in eng'.cat : w = v \/ w \in eng.cat
      BY <2>3
    <3>3. v \in eng'.cat
      BY <2>3
    <3>4. \A n \in Names : eng'.flat[n] = eng.flat[n] \/ eng'.flat[n] = v
      BY <1>1, <2>3
    <3>5. ASSUME NEW n \in Names, eng'.flat[n] # NoUnit, FromFile(eng'.flat[n]), Once(n) PROVE eng'.flat[n] \in eng'.cat
      <4>1. CASE eng'.flat[n] = v
        BY <3>3, <4>1
      <4>2. CASE eng'.flat[n] = eng.flat[n]
        <5>1. eng.flat[n] \in eng.cat /\ eng.flat[n].name = n /\ FromFile(eng.flat[n])
          BY <2>1, <2>4, <3>5, <4>2
        <5>2. eng.flat[n] \in eng'.cat
          BY <3>1, <3>5, <5>1
        <5> QED
          BY <4>2, <5>2
      <4> QED
        BY <3>4, <4>1, <4>2
    <3>6. \A n \in Names : (eng'.flat[n] # NoUnit /\ FromFile(eng'.flat[n]) /\ Once(n)) => eng'.flat[n] \in eng'.cat
      BY ONLY <3>5
    <3>7. \A w \in eng'.cat : FromFile(w) => w = v \/ w \in eng.cat
      BY ONLY <3>2
    <3> QED
      BY ONLY <3>1, <3>6, <3>7
  <2> QED
    BY <1>1, <2>2, <2>3 DEF RegisterLeaves
<1>6. (\A g : DistroOf(g)' = DistroOf(g)) /\ (\A d : Bootable(d)' = Bootable(d)) /\ (\A n : Once(n)' = Once(n))
  BY MachineStays DEF DistroOf, Once
<1>7. ASSUME NEW g \in Evaluated, proj.files[g].unit # NoUnit, Once(proj.files[g].unit.name) PROVE Served(g)'
  <2>1. Served(g)
    BY <1>7 DEF InvServed
  <2>2. PICK u, d : u = proj.files[g].unit /\ d = DistroOf(g)
    OBVIOUS
  <2>3. proj'.files[g].unit = u /\ DistroOf(g)' = d /\ proj'.files[g].mod = proj.files[g].mod
    BY <1>6, <2>2
  <2>4. u.class = "image" => d # NoName
    BY ONLY <2>1, <2>2 DEF Served
  <2>5. ASSUME d # NoName
        PROVE  \E w \in eng'.cat : FromFile(w) /\ w.name = u.name /\ VisibleTo(w, d) /\ w.idx >= proj.files[g].mod
    <3>1. PICK w \in eng.cat : FromFile(w) /\ w.name = u.name /\ VisibleTo(w, d) /\ w.idx >= proj.files[g].mod
      BY ONLY <2>1, <2>2, <2>5 DEF Served
    <3>2. w \in eng'.cat
      BY <1>5, <1>7, <2>2, <3>1
    <3> QED
      BY ONLY <3>1, <3>2
  <2> QED
    BY ONLY <2>3, <2>4, <2>5 DEF Served
<1>8. ASSUME Once(v.name) PROVE Served(f)'
  <2>1. PICK u, d : u = proj.files[f].unit /\ d = DistroOf(f)
    OBVIOUS
  <2>2. u.class = "image" => d # NoName
    BY <2>1
  <2>3. ASSUME d # NoName
        PROVE  \E w \in eng'.cat : FromFile(w) /\ w.name = u.name /\ VisibleTo(w, d) /\ w.idx >= proj.files[f].mod
    <3>1. CASE UNCHANGED eng /\ old # NoUnit /\ ~CrossDistro(v, old) /\ v.idx < old.idx
      <4>1. old.name = v.name /\ (FromFile(old) \/ FromFeed(proj.pins, old)) /\ old \in AllUnits
        <5>1. CatalogOK(proj.pins, eng) /\ eng \in Engines
          BY DEF InvShape, Catalogs
        <5>2. eng.flat[v.name] \in AllUnits \union {NoUnit}
          BY <1>2, <5>1 DEF Engines
        <5> QED
          BY ONLY <1>1, <1>2, <3>1, <5>1, <5>2 DEF CatalogOK
      <4>2. old.idx \in Int /\ v.idx >= 1
        BY <1>2, <4>1, FeedsAssumed DEF AllUnits, Units
      <4>3. FromFile(old)
        BY <3>1, <4>1, <4>2, <1>2 DEF FromFeed
      <4>4. old \in eng.cat
        BY <1>1, <1>2, <1>8, <3>1, <4>3 DEF InvServed
      <4>5. VisibleTo(old, d)
        BY <2>1, <2>3, <3>1 DEF CrossDistro, VisibleTo
      <4>6. old.idx >= proj.files[f].mod
        BY <1>2, <3>1, <4>2
      <4> QED
        BY <2>1, <3>1, <4>1, <4>3, <4>4, <4>5, <4>6
    <3>2. CASE v \in eng'.cat
      <4>1. VisibleTo(v, d)
        BY <2>1 DEF VisibleTo
      <4>2. v.idx >= proj.files[f].mod
        BY <1>2, FeedsAssumed
      <4> QED
        BY <2>1, <3>2, <4>1, <4>2
    <3> QED
      BY <1>1, <3>1, <3>2 DEF RegisterLeaves
  <2> QED
    BY <1>6, <2>1, <2>2, <2>3 DEF Served
<1>9. ASSUME NEW w \in eng'.cat, FromFile(w), Once(w.name) PROVE \E g \in Evaluated \union {f} : Serves(g, w)'
  <2>1. CASE w \in eng.cat
    <3>1. PICK g \in Evaluated : Serves(g, w)
      BY <1>3, <1>9, <2>1
    <3> QED
      BY <1>6, <3>1 DEF Serves
  <2>2. CASE w = v
    BY <1>6, <2>2 DEF Serves
  <2> QED
    BY <1>5, <1>9, <2>1, <2>2
<1> QED
  BY <1>5, <1>6, <1>7, <1>8, <1>9 DEF InvServed

(* The claims stand while only units that claim nothing come.               *)
LEMMA ProvidesStay ==
  ASSUME InvProvides, provides' = provides, phase' \in {"images", "fixpoint", "views"} => phase \in {"images", "fixpoint", "views"},
         phase' # "provides",
         \A n \in Names : eng'.flat[n] = eng.flat[n] \/ (eng'.flat[n] # NoUnit /\ eng'.flat[n].provides = {})
  PROVE  InvProvides'
<1>1. CASE phase' \in {"images", "fixpoint", "views"}
  <2>1. phase \in {"images", "fixpoint", "views"}
    BY <1>1
  <2>2. ASSUME NEW n \in Names, eng'.flat[n] # NoUnit, NEW v \in eng'.flat[n].provides,
               eng'.flat[n].distro = NoName, provides[v] \in Names, eng'.flat[provides[v]] # NoUnit,
               v \in eng'.flat[provides[v]].provides
        PROVE  eng'.flat[provides[v]].idx >= eng'.flat[n].idx
    <3>1. eng'.flat[n] = eng.flat[n] /\ eng'.flat[provides[v]] = eng.flat[provides[v]]
      BY <2>2
    <3>2. ~Unclaimed(v) /\ Claimed(v) = eng.flat[provides[v]]
      BY <2>2, <3>1 DEF Unclaimed, Claimed
    <3>3. v \in eng.flat[n].provides /\ eng.flat[n] # NoUnit /\ eng.flat[n].distro = NoName /\ v \in Claimed(v).provides
      BY <2>2, <3>1, <3>2
    <3>4. Claimed(v).idx >= eng.flat[n].idx
      BY <2>1, <3>2, <3>3 DEF InvProvides, ProviderPriority
    <3> QED
      BY <3>1, <3>2, <3>4
  <2>3. ProviderPriority'
    BY <2>2 DEF ProviderPriority, Unclaimed, Claimed
  <2> QED
    BY <2>3 DEF InvProvides
<1>2. CASE phase' \notin {"images", "fixpoint", "views"}
  BY <1>2 DEF InvProvides, ProviderPriority
<1> QED
  BY <1>1, <1>2

(* A catalog that grows by units of feeds.                                  *)
LEMMA GrowsClaimless ==
  ASSUME eng' = eng \/ Grows(proj.pins, eng, eng')
  PROVE  \A n \in Names : eng'.flat[n] = eng.flat[n] \/ (eng'.flat[n] # NoUnit /\ eng'.flat[n].provides = {})
BY DEF Grows, FromFeed

LEMMA FilesFail ==
  ASSUME InvFiles, phase' \in {"failed", "panic"}
  PROVE  InvFiles'
<1>1. InvTodo' /\ InvServed' /\ InvProvides'
  BY DEF InvTodo, InvServed, InvProvides, ProviderPriority
<1> QED
  BY <1>1 DEF InvFiles

LEMMA FilesFirst == LoadInit => InvFiles
<1> SUFFICES ASSUME LoadInit PROVE InvFiles
  OBVIOUS
<1>1. /\ phase = "project" /\ stack = <<>> /\ cache = [f \in DOMAIN proj.files |-> "none"]
      /\ eng = [flat |-> [n \in Names |-> NoUnit], cat |-> {}]
  BY DEF LoadInit
<1>4. InvTodo /\ InvProvides
  BY <1>1 DEF InvTodo, InvProvides, ProviderPriority
<1>5. Evaluated = {}
  BY <1>1 DEF Evaluated
<1>6. InvServed
  BY <1>1, <1>5 DEF InvServed
<1> QED
  BY <1>4, <1>6 DEF InvFiles

LEMMA FilesBefore ==
  ASSUME InvShape, InvFiles, ApplyLocal \/ Machines \/ Preflight
  PROVE  InvFiles'
<1>1. CASE phase' = "failed"
  BY <1>1, FilesFail
<1>2. CASE ApplyLocal \/ (Machines /\ phase' # "failed")
  <2>1. /\ phase \in {"project", "machines"} /\ phase' \in {"machines", "machinesOnly", "preflight"}
        /\ UNCHANGED <<proj, todo, stack, cache, eng, closures>>
    BY <1>2 DEF ApplyLocal, Machines, Fail
  <2>3. Evaluated = {} /\ Evaluated' = {}
    BY <2>1 DEF Evaluated
  <2>4. \A w \in eng.cat : ~(FromFile(w) /\ Once(w.name))
    BY <2>1, <2>3 DEF InvFiles, InvServed
  <2>5. \A n \in Names : ~(eng.flat[n] # NoUnit /\ FromFile(eng.flat[n]) /\ Once(n))
    BY <2>1, <2>4 DEF InvFiles, InvServed, InvShape, Catalogs, CatalogOK
  <2>8. \A n : Once(n)' = Once(n)
    BY <2>1 DEF Once
  <2>6. InvServed'
    BY <2>1, <2>3, <2>4, <2>5, <2>8 DEF InvServed
  <2>7. InvTodo' /\ InvProvides'
    BY <2>1 DEF InvTodo, InvProvides, ProviderPriority
  <2> QED
    BY <2>6, <2>7 DEF InvFiles
<1>3. CASE Preflight /\ phase' # "failed"
  <2>1. /\ phase = "preflight" /\ phase' = "units"
        /\ UNCHANGED <<proj, defaults, stack, cache, eng, closures>>
    BY <1>3 DEF Preflight, Fail
  <2>3. InvTodo' /\ Evaluated' = Evaluated
    BY <1>3, <2>1, TodoStarts
  <2>4. InvServed'
    BY <2>1, <2>3, ServedStay DEF InvFiles
  <2>5. InvProvides'
    BY <2>1 DEF InvProvides, ProviderPriority
  <2> QED
    BY <2>3, <2>4, <2>5 DEF InvFiles
<1> QED
  BY <1>1, <1>2, <1>3

(* Steps that leave the files where they are.                               *)
LEMMA FilesStay ==
  ASSUME InvShape, InvFiles, phase \in {"units", "images"}, UNCHANGED <<proj, defaults, phase>>,
         InvTodo', Evaluated' = Evaluated, eng' = eng \/ Grows(proj.pins, eng, eng'),
         provides' = provides, closures \subseteq closures'
  PROVE  InvFiles'
<1>1. InvServed'
  BY ServedStay DEF InvFiles
<1>2. \A n \in Names : eng'.flat[n] = eng.flat[n] \/ (eng'.flat[n] # NoUnit /\ eng'.flat[n].provides = {})
  BY GrowsClaimless
<1>3. InvProvides'
  BY <1>2, ProvidesStay DEF InvFiles
<1> QED
  BY <1>1, <1>3 DEF InvFiles

LEMMA LoadBottom ==
  ASSUME InvShape, Load, phase' # "panic"
  PROVE  phase' = phase /\ stack' # <<>> /\ stack'[1].file = stack[1].file
<1>1. stack # <<>> /\ stack \in Seq(Frames)
  BY DEF Load, AtLoad, InvShape
<1>2. PICK M \in Nat \ {0} : M = Len(stack) /\ 1 \in 1 .. M
  BY <1>1, TopFrame
<1>3. CASE stack' = [stack EXCEPT ![Len(stack)].at = @ + 1] /\ phase' = phase
  <2>1. Len(stack') = M /\ \A i \in 1 .. M : stack'[i].file = stack[i].file
    BY <1>1, <1>2, <1>3, TopFrame DEF Frames
  <2>2. Len(<<>>) = 0
    OBVIOUS
  <2> QED
    BY <1>2, <1>3, <2>1, <2>2
<1>4. ASSUME NEW x, stack' = Append(stack, x), phase' = phase
      PROVE  stack' # <<>> /\ stack'[1].file = stack[1].file
  <2>1. Len(stack') = M + 1 /\ \A i \in 1 .. M : stack'[i] = stack[i]
    BY <1>1, <1>2, <1>4
  <2>2. Len(<<>>) = 0 /\ M + 1 # 0
    OBVIOUS
  <2> QED
    BY <1>2, <2>1, <2>2
<1> QED
  BY <1>3, <1>4 DEF Load

LEMMA FilesRun ==
  ASSUME InvShape, InvFiles, ExecFile \/ Load
  PROVE  InvFiles'
<1>1. CASE ExecFile
  <2>1. phase \in {"units", "images"} /\ UNCHANGED <<proj, defaults, phase, eng, provides, closures>>
    BY <1>1 DEF ExecFile
  <2>2. InvTodo' /\ Left' = Left
    BY <1>1, TodoExec DEF InvFiles
  <2>3. Evaluated' = Evaluated
    BY <2>1, <2>2, EvaluatedStay
  <2> QED
    BY <2>1, <2>2, <2>3, FilesStay
<1>2. CASE Load /\ phase' = "panic"
  BY <1>2, FilesFail
<1>3. CASE Load /\ phase' # "panic"
  <2>1. phase \in {"units", "images"} /\ stack # <<>> /\ UNCHANGED <<proj, defaults, todo, eng, provides, closures>>
    BY <1>3 DEF Load, AtLoad
  <2>2. phase' = phase /\ stack' # <<>> /\ stack'[1].file = stack[1].file
    BY <1>3, LoadBottom
  <2>3. Bottom' = Bottom
    BY <2>1, <2>2 DEF Bottom
  <2>4. InvTodo'
    BY <2>1, <2>2, <2>3, TodoStay DEF InvFiles
  <2>5. Left' = Left
    BY <2>1, <2>3 DEF Left
  <2>6. Evaluated' = Evaluated
    BY <2>1, <2>2, <2>5, EvaluatedStay
  <2> QED
    BY <2>1, <2>2, <2>4, <2>6, FilesStay
<1> QED
  BY <1>1, <1>2, <1>3

LEMMA FilesClass ==
  ASSUME InvShape, InvFiles, Class
  PROVE  InvFiles'
<1>1. /\ phase \in {"units", "images"} /\ stack # <<>> /\ File.unit = NoUnit /\ Return
      /\ UNCHANGED <<proj, defaults, phase, todo, eng, provides, closures>>
  BY DEF Class, AtBody
<1>3. /\ Len(stack) = 1 => Bottom = {Top.file} /\ Bottom' = {} /\ stack' = <<>>
      /\ Len(stack) # 1 => Bottom' = Bottom /\ stack' # <<>>
  BY <1>1, BottomReturn
<1>4. InvTodo'
  BY <1>1, <1>3, TodoStay DEF InvFiles
<1>5. CASE Len(stack) # 1
  <2>1. Left' = Left
    BY <1>1, <1>3, <1>5 DEF Left
  <2>2. Evaluated' = Evaluated
    BY <1>1, <2>1, EvaluatedStay
  <2> QED
    BY <1>1, <1>3, <1>4, <2>2, FilesStay
<1>6. CASE Len(stack) = 1
  <2>1. PICK f \in DOMAIN proj.files : f = Top.file
    BY <1>1, TopFrame
  <2>2. Evaluated' = Evaluated \union {f} /\ f \notin Evaluated
    BY <1>1, <1>3, <1>6, <2>1, EvaluatedReturn DEF InvFiles
  <2>3. proj.files[f].unit = NoUnit
    BY <1>1, <2>1 DEF File
  <2>4. InvServed'
    <3>1. \A g : DistroOf(g)' = DistroOf(g) /\ (Served(g) => Served(g)')
      BY <1>1 DEF DistroOf, Served
    <3>6. (\A d : Bootable(d)' = Bootable(d)) /\ (\A n : Once(n)' = Once(n))
      BY <1>1, MachineStays DEF Once
    <3>2. \A g, w : Serves(g, w) => Serves(g, w)'
      BY <1>1, <3>6 DEF Serves
    <3>3. \A g \in Evaluated' : (proj.files[g].unit # NoUnit /\ Once(proj.files[g].unit.name)) => Served(g)'
      BY <1>1, <2>2, <2>3, <3>1 DEF InvFiles, InvServed
    <3>4. \A w \in eng.cat : (FromFile(w) /\ Once(w.name)) => \E g \in Evaluated' : Serves(g, w)'
      BY <1>1, <2>2, <3>2 DEF InvFiles, InvServed
    <3>5. \A n \in Names : (eng.flat[n] # NoUnit /\ FromFile(eng.flat[n]) /\ Once(n)) => eng.flat[n] \in eng.cat
      BY <1>1 DEF InvFiles, InvServed
    <3> QED
      BY <1>1, <3>3, <3>4, <3>5, <3>6 DEF InvServed
  <2>5. InvProvides'
    BY <1>1, ProvidesStay DEF InvFiles
  <2> QED
    BY <1>3, <1>4, <2>4, <2>5 DEF InvFiles
<1> QED
  BY <1>5, <1>6

(* A file that declares a unit registers it and ends.                       *)
LEMMA FilesRegister ==
  ASSUME InvShape, WellFormed(proj), InvStack, InvFiles, phase \in {"units", "images"}, stack # <<>>, File.unit # NoUnit,
         NEW u \in Units({0}, {0}), u.name = File.unit.name, u.class = File.unit.class, u.provides = File.unit.provides,
         u.distro = DistroOf(Top.file), Register(Owned(u)), phase = "images" => u.class = "image",
         u.class = "image" => u.distro # NoName,
         u.class = "image" => \/ ~Bootable(u.distro)
                              \/ walk \in Walks /\ walk # NoWalk /\ walk.image = u.name /\ walk.distro = u.distro
  PROVE  InvFiles'
<1>1. Len(stack) = 1 /\ Top = stack[1] /\ Bottom = {Top.file} /\ Top.file \in DOMAIN proj.files
  BY Outermost
<1>2. PICK f \in DOMAIN proj.files : f = Top.file
  BY <1>1
<1>3. PICK v : v = Owned(u)
  OBVIOUS
<1>4. /\ v \in AllUnits /\ FromFile(v) /\ v.mod = proj.files[f].mod /\ v.name = u.name /\ v.distro = u.distro
      /\ v.class = u.class /\ v.provides = u.provides /\ v # NoUnit
  BY <1>1, <1>2, <1>3, OwnedUnit
<1>5. proj.files[f].unit = File.unit
  BY <1>2 DEF File
<1>6. CASE phase' = "failed"
  BY <1>6, FilesFail
<1>7. CASE /\ RegisterLeaves(v) /\ Return
           /\ closures' = IF walk = NoWalk THEN closures ELSE closures \union {[walk EXCEPT !.order = TopoOrder(walk.deps)]}
           /\ UNCHANGED <<proj, defaults, phase, todo, provides>>
  <2>1. phase' # "panic" /\ closures \subseteq closures'
    BY <1>7
  <2>2. Bottom' = {}
    BY <1>1, <1>7, BottomReturn
  <2>3. InvTodo'
    BY <1>7, <2>2, TodoStay DEF InvFiles
  <2>4. Evaluated' = Evaluated \union {f} /\ f \notin Evaluated
    BY <1>1, <1>2, <1>7, <2>2, EvaluatedReturn DEF InvFiles
  <2>5. ASSUME v.class = "image", Bootable(v.distro) PROVE \E c \in closures' : c.image = v.name /\ c.distro = v.distro
    <3>1. walk \in Walks /\ walk # NoWalk /\ walk.image = v.name /\ walk.distro = v.distro
      BY <1>4, <2>5
    <3>2. PICK t : t = TopoOrder(walk.deps)
      OBVIOUS
    <3>3. PICK c : c = [walk EXCEPT !.order = t]
      OBVIOUS
    <3>4. c \in closures'
      BY <1>7, <3>1, <3>2, <3>3
    <3>5. c.image = walk.image /\ c.distro = walk.distro
      <4>1. PICK e, n, o, h, x : walk = [distro |-> e, image |-> n, queue |-> o, deps |-> h, took |-> x, order |-> <<>>]
        BY <3>1, WalkParts
      <4> QED
        BY ONLY <3>3, <4>1
    <3> QED
      BY <3>1, <3>4, <3>5
  <2>6. InvServed'
    BY <1>2, <1>4, <1>5, <1>7, <2>1, <2>4, <2>5, ServedRegister DEF InvFiles
  <2>7. InvProvides'
    <3>1. CASE phase = "units"
      BY <1>7, <3>1 DEF InvProvides, ProviderPriority
    <3>2. CASE phase = "images"
      <4>1. v.provides = {}
        BY <1>4, <1>5, <3>2 DEF WellFormed
      <4>2. \A n \in Names : eng'.flat[n] = eng.flat[n] \/ eng'.flat[n] = v
        BY <1>4, <1>7 DEF RegisterLeaves
      <4>3. \A n \in Names : eng'.flat[n] = eng.flat[n] \/ (eng'.flat[n] # NoUnit /\ eng'.flat[n].provides = {})
        BY <1>4, <4>1, <4>2
      <4> QED
        BY <1>7, <3>2, <4>3, ProvidesStay DEF InvFiles
    <3> QED
      BY <3>1, <3>2
  <2> QED
    BY <2>3, <2>6, <2>7 DEF InvFiles
<1> QED
  BY <1>3, <1>4, <1>6, <1>7, RegisterSound

(* The unit of a file in images/ is an image's.                             *)
LEMMA ImagePhase ==
  ASSUME InvShape, WellFormed(proj), InvStack, InvFiles, phase = "images", stack # <<>>, File.unit # NoUnit
  PROVE  File.unit.class = "image"
<1>1. Bottom = {Top.file} /\ Top.file \in DOMAIN proj.files
  BY Outermost
<1>2. Top.file \in Left
  BY <1>1 DEF Left
<1>3. proj.files[Top.file].dir = "images"
  BY <1>2 DEF InvFiles, InvTodo
<1> QED
  BY <1>1, <1>3 DEF WellFormed, File

LEMMA FilesUnit ==
  ASSUME InvShape, WellFormed(proj), InvStack, InvFiles, Unit
  PROVE  InvFiles'
<1>1. phase \in {"units", "images"} /\ stack # <<>> /\ File.unit # NoUnit /\ File.unit.class # "image" /\ Register(Owned(File.unit))
  BY DEF Unit, AtBody
<1>2. File.unit \in Units({0}, {0})
  BY <1>1, TopFrame, Assumed, FileType DEF File
<1>3. phase # "images"
  BY <1>1, ImagePhase
<1>4. File.unit.distro = DistroOf(Top.file)
  BY <1>1 DEF DistroOf, File
<1> QED
  BY <1>1, <1>2, <1>3, <1>4, FilesRegister

LEMMA FilesImageDone ==
  ASSUME InvShape, InvWalk, WellFormed(proj), InvStack, InvFiles, RegisterInert \/ ImageDone
  PROVE  InvFiles'
BY ImageRegisters, FilesRegister

(* The next unit, in name order, claims its virtual names.                  *)
LEMMA ProvideSettles ==
  ASSUME InvShape, InvProvides, Provide, ~(phase' = "failed" /\ UNCHANGED <<proj, stack, cache>>)
  PROVE  InvProvides'
<1>1. PICK u : u = eng.flat[Head(todo)]
  OBVIOUS
<1>2. /\ phase = "provides" /\ todo # <<>> /\ phase' = phase /\ eng' = eng /\ todo' = Tail(todo)
      /\ provides' = [v \in Names |-> IF v \in u.provides /\ Takes(u, v) THEN u.name ELSE provides[v]]
  <2>1. Fail(<<"provides", u.name>>) => phase' = "failed" /\ UNCHANGED <<proj, stack, cache>>
    BY DEF Fail
  <2>2. phase = "provides" /\ todo # <<>>
    BY DEF Provide
  <2>3. \/ Fail(<<"provides", u.name>>)
        \/ /\ provides' = [v \in Names |-> IF v \in u.provides /\ Takes(u, v) THEN u.name ELSE provides[v]]
           /\ todo' = Tail(todo)
           /\ UNCHANGED <<proj, defaults, phase, stack, cache, eng, walk, closures, view, why>>
    BY <1>1 DEF Provide
  <2> QED
    BY <2>1, <2>2, <2>3
<1>3. PICK X : X = {n \in Names : eng.flat[n] # NoUnit}
  OBVIOUS
<1>4. PICK s : s = todo /\ s \in Seq(X) /\ s # <<>>
  BY <1>2, <1>3 DEF InvShape
<1>5. PICK h : h = Head(s)
  OBVIOUS
<1>6. h \in X /\ Range(s) \subseteq Range(Tail(s)) \union {h}
  <2>1. PICK M \in Nat \ {0} : M = Len(s) /\ DOMAIN s = 1 .. M
    BY <1>4, EmptySeq
  <2>2. h = s[1] /\ DOMAIN Tail(s) = 1 .. M - 1 /\ (\A i \in 1 .. M - 1 : Tail(s)[i] = s[i + 1]) /\ h \in X
    BY <1>4, <1>5, <2>1, HeadTailProperties
  <2>3. \A i \in 1 .. M : i = 1 \/ (i - 1 \in 1 .. M - 1 /\ (i - 1) + 1 = i)
    OBVIOUS
  <2>4. PICK t : t = Tail(s) /\ Range(t) = {t[i] : i \in 1 .. M - 1} /\ Range(s) = {s[i] : i \in 1 .. M}
    BY <2>1, <2>2 DEF Range
  <2>5. \A i \in 1 .. M : s[i] \in Range(t) \union {h}
    BY <2>2, <2>3, <2>4
  <2> QED
    BY <2>2, <2>4, <2>5
<1>7. h \in Names /\ u = eng.flat[h] /\ u # NoUnit /\ u.name = h /\ u \in AllUnits /\ u.idx \in Int
  <2>1. h \in Names /\ u = eng.flat[h] /\ u # NoUnit
    BY <1>1, <1>3, <1>4, <1>5, <1>6
  <2>2. u.name = h /\ u \in AllUnits
    BY <2>1 DEF InvShape, Catalogs, CatalogOK, Engines
  <2>3. u.idx \in Int
    BY <2>2, FeedsAssumed DEF AllUnits, Units
  <2> QED
    BY <2>1, <2>2, <2>3
<1>8. h # NoName
  BY <1>7, FeedsAssumed
<1>9. ASSUME NEW n \in Names, eng.flat[n] # NoUnit, n \notin Range(Tail(s)), NEW v \in eng.flat[n].provides
      PROVE  /\ provides'[v] # NoName
             /\ (eng.flat[n].distro = NoName /\ provides'[v] \in Names /\ eng.flat[provides'[v]] # NoUnit)
                   => eng.flat[provides'[v]].idx >= eng.flat[n].idx
  <2>0. eng.flat[n] \in AllUnits
    BY <1>9 DEF InvShape, Catalogs, Engines
  <2>1. v \in Names /\ eng.flat[n].idx \in Int
    BY <1>9, <2>0, FeedsAssumed DEF AllUnits, Units
  <2>2. provides'[v] = IF v \in u.provides /\ Takes(u, v) THEN h ELSE provides[v]
    BY <1>2, <1>7, <2>1
  <2>3. ~Unclaimed(v) => Claimed(v).idx \in Int
    <3>1. ~Unclaimed(v) => Claimed(v) \in AllUnits
      BY DEF Unclaimed, Claimed, InvShape, Catalogs, Engines
    <3> QED
      BY <3>1, FeedsAssumed DEF AllUnits, Units
  <2>4. CASE n = h
    <3>1. CASE Takes(u, v)
      BY <1>7, <1>8, <1>9, <2>1, <2>2, <2>4, <3>1
    <3>2. CASE ~Takes(u, v)
      <4>1. provides'[v] = provides[v] /\ provides[v] # NoName
        BY <2>2, <3>2 DEF Takes
      <4>2. (u.distro = NoName /\ ~Unclaimed(v)) => ~(u.idx > Claimed(v).idx)
        BY <3>2 DEF Takes, CrossDistro
      <4> QED
        BY <1>7, <2>3, <2>4, <4>1, <4>2 DEF Unclaimed, Claimed
    <3> QED
      BY <3>1, <3>2
  <2>5. CASE n # h
    <3>1. Settled(n)
      BY <1>2, <1>4, <1>6, <1>9, <2>5 DEF InvProvides
    <3>2. provides[v] # NoName /\ (eng.flat[n].distro = NoName /\ ~Unclaimed(v) => Claimed(v).idx >= eng.flat[n].idx)
      BY <1>9, <3>1 DEF Settled
    <3>3. CASE provides'[v] = provides[v]
      BY <3>2, <3>3 DEF Unclaimed, Claimed
    <3>4. CASE Takes(u, v) /\ provides'[v] = h
      <4>1. ~Unclaimed(v) /\ u.idx > Claimed(v).idx
        BY <3>2, <3>4 DEF Takes
      <4>2. eng.flat[n].distro = NoName => u.idx >= eng.flat[n].idx
        BY <1>7, <2>1, <2>3, <3>2, <4>1
      <4> QED
        BY <1>7, <1>8, <3>4, <4>2
    <3> QED
      BY <2>2, <3>3, <3>4
  <2> QED
    BY <2>4, <2>5
<1>10. \A n \in Names : (eng.flat[n] # NoUnit /\ n \notin Range(Tail(s))) => Settled(n)'
  BY <1>2, <1>9 DEF Settled, Unclaimed, Claimed
<1> QED
  BY <1>2, <1>4, <1>10 DEF InvProvides, ProviderPriority

LEMMA FilesWalk ==
  ASSUME InvShape, InvWalk, InvFiles, Image \/ WalkStep
  PROVE  InvFiles'
<1>1. /\ phase = "images"
      /\ \/ phase' = "failed" /\ UNCHANGED <<proj, stack, cache>>
         \/ /\ UNCHANGED <<proj, defaults, phase, todo, stack, cache, provides, closures>>
            /\ eng' = eng \/ Grows(proj.pins, eng, eng')
  <2>1. CASE Image
    BY <2>1 DEF Image, AtImage, Fail
  <2>2. CASE WalkStep
    BY <2>2, ShapeWalk DEF WalkStep, WalkGrows
  <2> QED
    BY <2>1, <2>2
<1>2. CASE phase' = "failed" /\ UNCHANGED <<proj, stack, cache>>
  BY <1>2, FilesFail
<1>3. CASE /\ UNCHANGED <<proj, defaults, phase, todo, stack, cache, provides, closures>>
           /\ eng' = eng \/ Grows(proj.pins, eng, eng')
  <2>1. Bottom' = Bottom /\ Left' = Left
    BY <1>1, <1>3 DEF Bottom, Left
  <2>2. InvTodo' /\ Evaluated' = Evaluated
    BY <1>3, <2>1, TodoStay, EvaluatedStay DEF InvFiles
  <2> QED
    BY <1>1, <1>3, <2>2, FilesStay
<1> QED
  BY <1>1, <1>2, <1>3

LEMMA FilesAttached ==
  ASSUME InvShape, InvWalk, InvFiles, ImagesDone \/ Materialize \/ BuildViews
  PROVE  InvFiles'
<1>1. CASE phase' = "failed" /\ UNCHANGED <<proj, stack, cache>>
  BY <1>1, FilesFail
<1>2. CASE ~(phase' = "failed" /\ UNCHANGED <<proj, stack, cache>>)
  <2>1. /\ UNCHANGED <<proj, stack, cache, provides, closures>> /\ defaults'.distro = defaults.distro
        /\ \/ phase = "images" /\ stack = <<>> /\ todo = <<>> /\ phase' = "fixpoint"
           \/ phase \in {"fixpoint", "views"} /\ phase' \in {"fixpoint", "views", "loaded"}
    BY <1>2 DEF ImagesDone, Materialize, BuildViews, Fail, InvShape
  <2>2. eng' = eng \/ Grows(proj.pins, eng, eng')
    <3>1. CASE Materialize
      <4>1. CASE UNCHANGED eng
        BY <4>1
      <4>2. CASE ~UNCHANGED eng
        <5>0. PICK x \in Pending : \E r \in Resolvable(x) : eng' = Lookup(eng, r, x.d).eng
          BY <3>1, <4>2 DEF Materialize
        <5>1. PICK r \in Resolvable(x) : eng' = Lookup(eng, r, x.d).eng
          BY <5>0
        <5>2. x.d \in Distros /\ r \in Names
          BY PendingTyped
        <5>3. Grows(proj.pins, eng, eng')
          BY <5>1, <5>2, Assumed, LookupSound DEF InvShape
        <5> QED
          BY <5>3
      <4> QED
        BY <4>1, <4>2
    <3>2. CASE ImagesDone \/ BuildViews
      BY <3>2 DEF ImagesDone, BuildViews, Fail
    <3> QED
      BY <3>1, <3>2
  <2>5. InvTodo'
    BY <2>1 DEF InvTodo
  <2>6. Evaluated' = Evaluated
    BY <2>1, EvaluatedEnds
  <2>7. InvServed'
    BY <2>1, <2>2, <2>6, ServedStay DEF InvFiles
  <2>8. InvProvides'
    <3>1. \A n \in Names : eng'.flat[n] = eng.flat[n] \/ (eng'.flat[n] # NoUnit /\ eng'.flat[n].provides = {})
      BY <2>2, GrowsClaimless
    <3> QED
      BY <2>1, <3>1, ProvidesStay DEF InvFiles
  <2> QED
    BY <2>5, <2>7, <2>8 DEF InvFiles
<1> QED
  BY <1>1, <1>2

LEMMA FilesProvides ==
  ASSUME InvShape, InvWalk, InvFiles, UnitsDone \/ Provide \/ ProvidesDone
  PROVE  InvFiles'
<1>1. CASE phase' = "failed" /\ UNCHANGED <<proj, stack, cache>>
  BY <1>1, FilesFail
<1>2. CASE ~(phase' = "failed" /\ UNCHANGED <<proj, stack, cache>>)
  <2>1. /\ UNCHANGED <<proj, defaults, stack, cache, eng, closures>>
        /\ phase \in {"units", "provides"} /\ phase' \in {"provides", "images"}
    BY <1>2 DEF UnitsDone, Provide, ProvidesDone, Fail
  <2>4. InvTodo' /\ Evaluated' = Evaluated
    <3>1. CASE ProvidesDone
      BY <3>1, TodoStarts
    <3>2. CASE UnitsDone \/ Provide
      <4>1. phase' = "provides"
        BY <1>2, <3>2 DEF UnitsDone, Provide, Fail
      <4>2. (phase = "units" /\ stack = <<>> /\ todo = <<>>) \/ phase = "provides"
        BY <3>2 DEF UnitsDone, Provide
      <4>3. Evaluated' = Evaluated
        BY <2>1, <4>1, <4>2, EvaluatedEnds
      <4> QED
        BY <4>1, <4>3 DEF InvTodo
    <3> QED
      BY <3>1, <3>2
  <2>5. InvServed'
    BY <2>1, <2>4, ServedStay DEF InvFiles
  <2>6. InvProvides'
    <3>1. CASE UnitsDone
      <4>1. PICK X : X = {n \in Names : eng.flat[n] # NoUnit}
        OBVIOUS
      <4>2. todo' = Sorted(X) /\ phase' = "provides"
        BY <3>1, <4>1 DEF UnitsDone
      <4>3. Range(todo') = X \cap Names
        BY <4>2, SortedSound
      <4>4. \A n \in Names : eng'.flat[n] # NoUnit => n \in Range(todo')
        BY <2>1, <4>1, <4>3
      <4> QED
        BY <4>2, <4>4 DEF InvProvides, ProviderPriority
    <3>2. CASE Provide
      BY <1>2, <3>2, ProvideSettles DEF InvFiles
    <3>3. CASE ProvidesDone
      <4>1. phase = "provides" /\ todo = <<>> /\ phase' = "images" /\ provides' = provides
        BY <3>3 DEF ProvidesDone
      <4>2. Range(todo) = {}
        BY <4>1 DEF Range
      <4>3. \A n \in Names : eng.flat[n] # NoUnit => Settled(n)
        BY <4>1, <4>2 DEF InvFiles, InvProvides
      <4>4. \A v : (Unclaimed(v)' <=> Unclaimed(v)) /\ Claimed(v)' = Claimed(v)
        BY <2>1, <4>1 DEF Unclaimed, Claimed
      <4>5. ProviderPriority'
        BY <2>1, <4>3, <4>4 DEF ProviderPriority, Settled
      <4> QED
        BY <4>1, <4>5 DEF InvProvides
    <3> QED
      BY <3>1, <3>2, <3>3
  <2> QED
    BY <2>4, <2>5, <2>6 DEF InvFiles
<1> QED
  BY <1>1, <1>2

LEMMA FilesStutter ==
  ASSUME InvShape, InvFiles, UNCHANGED loadVars
  PROVE  InvFiles'
<1>1. UNCHANGED <<proj, defaults, phase, todo, stack, cache, eng, provides, closures>>
  BY DEF loadVars
<1>3. Bottom' = Bottom /\ Left' = Left
  BY <1>1 DEF Bottom, Left
<1>4. InvTodo' /\ Evaluated' = Evaluated
  BY <1>1, <1>3, TodoStay, EvaluatedStay DEF InvFiles
<1>5. InvServed'
  <2>1. CASE phase \in {"failed", "panic"}
    BY <1>1, <2>1 DEF InvServed
  <2>2. CASE phase \notin {"failed", "panic"}
    BY <1>1, <1>4, <2>2, ServedStay DEF InvFiles
  <2> QED
    BY <2>1, <2>2
<1>6. \A n : Settled(n)' <=> Settled(n)
  BY <1>1 DEF Settled, Unclaimed, Claimed
<1>7. ProviderPriority'
  BY <1>1 DEF InvFiles, InvProvides, ProviderPriority, Unclaimed, Claimed
<1>8. InvProvides'
  BY <1>1, <1>6, <1>7 DEF InvFiles, InvProvides
<1> QED
  BY <1>4, <1>5, <1>8 DEF InvFiles

LEMMA FilesStep ==
  ASSUME InvShape, InvWalk, WellFormed(proj), InvStack, InvFiles, [LoadNext]_loadVars
  PROVE  InvFiles'
<1>1. CASE UNCHANGED loadVars
  BY <1>1, FilesStutter
<1>2. CASE LoadNext
  <2>1. Ended => UNCHANGED loadVars
    BY DEF Ended
  <2> QED
    BY <1>2, <2>1, FilesStutter, FilesBefore, FilesRun, FilesClass, FilesUnit, FilesImageDone, FilesWalk, FilesAttached, FilesProvides
       DEF LoadNext
<1> QED
  BY <1>1, <1>2

(* What the evaluation of a project keeps, from the machines to the last    *)
(* closure: the types, what a walk is of, which images are walked, the      *)
(* chain of load()s that are running; and, in a well-formed project, which  *)
(* files are evaluated, evaluating and still to come, what they registered  *)
(* in the two catalogs, and who provides what.                              *)
THEOREM LoadInvHolds == LoadSpec => []LoadInv
<1>1. LoadInit => LoadInv
  <2> SUFFICES ASSUME LoadInit PROVE LoadInv
    OBVIOUS
  <2>1. /\ phase = "project" /\ stack = <<>> /\ walk = NoWalk /\ closures = {}
        /\ cache = [f \in DOMAIN proj.files |-> "none"]
    BY DEF LoadInit
  <2>2. 2 .. Len(stack) = {}
    BY <2>1
  <2>3. InvStack /\ InvBoot
    BY <2>1, <2>2 DEF InvStack, InvBoot, NoNilEntry
  <2> QED
    BY <2>3, ShapeFirst, FilesFirst DEF LoadInv
<1>2. LoadInv /\ [LoadNext]_loadVars => LoadInv'
  <2> SUFFICES ASSUME LoadInv, [LoadNext]_loadVars PROVE LoadInv'
    OBVIOUS
  <2>1. InvShape' /\ InvWalk'
    BY ShapeStep DEF LoadInv
  <2>4. InvStack' /\ InvBoot'
    BY StackStep, BootStep DEF LoadInv
  <2>2. WellFormed(proj)' = WellFormed(proj)
    BY ProjectStays DEF WellFormed
  <2>3. WellFormed(proj) => InvFiles'
    BY FilesStep DEF LoadInv
  <2> QED
    BY <2>1, <2>2, <2>3, <2>4 DEF LoadInv
<1> QED
  BY <1>1, <1>2, PTL DEF LoadSpec

-----------------------------------------------------------------------------
(* What follows of a load. *)

LEMMA TiesNone ==
  ASSUME InvShape
  PROVE  NoTies
<1> SUFFICES ASSUME NEW d \in Distros, NEW n \in Names PROVE Cardinality(Highest(Variants(eng, n, d))) <= 1
  BY DEF NoTies
<1>1. PICK H : H = Highest(Variants(eng, n, d))
  OBVIOUS
<1>2. eng \in Engines /\ CatalogOK(proj.pins, eng)
  BY DEF InvShape, Catalogs
<1>3. ASSUME NEW u \in H, NEW w \in H PROVE u = w
  <2>1. u \in eng.cat /\ w \in eng.cat /\ u.name = n /\ w.name = n /\ VisibleTo(u, d) /\ VisibleTo(w, d)
        /\ u.idx <= w.idx /\ w.idx <= u.idx
    BY <1>1 DEF Highest, Variants
  <2>2. u.idx \in Int /\ w.idx \in Int
    BY <1>2, <2>1, FeedsAssumed DEF Engines, AllUnits, Units
  <2>3. u.idx = w.idx
    BY <2>1, <2>2
  <2>4. u.mod = w.mod
    <3>1. CASE FromFile(u)
      <4>1. u.idx >= 1 /\ u.mod = u.idx
        BY <3>1, FeedsAssumed DEF FromFile
      <4>2. FromFile(w)
        <5>1. ~FromFeed(proj.pins, w)
          BY <2>2, <2>3, <4>1 DEF FromFeed
        <5> QED
          BY <1>2, <2>1, <5>1 DEF CatalogOK
      <4> QED
        BY <2>3, <4>1, <4>2 DEF FromFile
    <3>2. CASE FromFeed(proj.pins, u)
      <4>1. ~(w.idx >= 1)
        BY <2>3, <3>2, <2>2 DEF FromFeed
      <4>2. ~FromFile(w)
        BY <4>1, FeedsAssumed DEF FromFile
      <4>3. FromFeed(proj.pins, w)
        BY <1>2, <2>1, <4>2 DEF CatalogOK
      <4>4. u.distro = d /\ w.distro = d
        BY <2>1, <3>2, <4>3, FeedsAssumed DEF FromFeed, VisibleTo
      <4> QED
        BY <2>1, <3>2, <4>3, <4>4 DEF FromFeed
    <3> QED
      BY <1>2, <2>1, <3>1, <3>2 DEF CatalogOK
  <2> QED
    BY <1>2, <2>1, <2>4 DEF CatalogOK
<1>4. H = {} \/ \E u : H = {u}
  <2>1. ASSUME H # {} PROVE \E u : H = {u}
    <3>1. PICK u : u \in H
      BY <2>1
    <3>2. H = {u}
      BY <1>3, <3>1
    <3> QED
      BY <3>2
  <2> QED
    BY <2>1
<1>5. Cardinality(H) = 0 \/ Cardinality(H) = 1
  <2>1. CASE H = {}
    BY <2>1, FS_EmptySet
  <2>2. CASE \E u : H = {u}
    <3>1. PICK u : H = {u}
      BY <2>2
    <3>2. Cardinality({u}) = 1
      BY FS_Singleton
    <3> QED
      BY <3>1, <3>2
  <2> QED
    BY <1>4, <2>1, <2>2
<1>6. Cardinality(H) <= 1
  BY <1>5
<1> QED
  BY <1>1, <1>6

(* The unit that a view has: of the catalog, and seen by the distro.        *)
LEMMA ViewSound ==
  ASSUME InvShape, phase = "loaded", NEW d \in Distros, NEW n \in Names
  PROVE  /\ view[d][n] = ResolveForDistro(d, n)
         /\ Variants(eng, n, d) # {} => /\ view[d][n] \in Variants(eng, n, d) /\ view[d][n] # NoUnit
                                       /\ \/ view[d][n].mod = proj.pins[d][n]
                                          \/ \A w \in Variants(eng, n, d) : w.idx <= view[d][n].idx
         /\ Variants(eng, n, d) = {} => view[d][n] = NoUnit
<1>1. view[d][n] = ResolveForDistro(d, n)
  BY DEF InvShape
<1>2. PICK P : P = {u \in Variants(eng, n, d) : u.mod = proj.pins[d][n]}
  OBVIOUS
<1>3. view[d][n] = IF P # {} THEN CHOOSE u \in P : TRUE ELSE FindVisible(eng, n, d)
  BY <1>1, <1>2 DEF ResolveForDistro
<1>4. eng \in Engines
  BY DEF InvShape, Catalogs
<1>5. \A u \in Variants(eng, n, d) : u # NoUnit
  BY <1>4, UnitNamed DEF Variants, Engines
<1>6. CASE P # {}
  <2>1. view[d][n] \in P
    BY <1>3, <1>6
  <2> QED
    BY <1>1, <1>2, <1>5, <1>6, <2>1
<1>7. CASE P = {} /\ Variants(eng, n, d) # {}
  <2>1. view[d][n] \in Highest(Variants(eng, n, d)) /\ view[d][n] \in Variants(eng, n, d)
    BY <1>3, <1>4, <1>7, FoundVisible
  <2> QED
    BY <1>1, <1>5, <1>7, <2>1 DEF Highest
<1>8. CASE P = {} /\ Variants(eng, n, d) = {}
  BY <1>1, <1>3, <1>8 DEF FindVisible
<1> QED
  BY <1>6, <1>7, <1>8

LEMMA TypesFollow ==
  ASSUME InvShape, InvStack
  PROVE  LoadTypeOK
<1>1. CatalogOK(proj.pins, eng) /\ provides \in [Names -> Names \union {NoName, Blank}]
  BY DEF InvShape, Catalogs
<1>2. \A n \in Names : eng.flat[n] # NoUnit => eng.flat[n].name = n /\ \E u \in eng.cat : u.name = n
  BY <1>1 DEF CatalogOK
<1>3. \A u, w \in eng.cat : u.mod = w.mod /\ u.name = w.name => u = w
  BY <1>1 DEF CatalogOK
<1>4. \A n \in Names : provides[n] \in Names \union {NoName, Blank}
  BY <1>1
<1> QED
  BY <1>2, <1>3, <1>4 DEF LoadTypeOK, InvShape, InvStack

(* Every file that declares a unit has been evaluated.                      *)
LEMMA AllServed ==
  ASSUME InvShape, WellFormed(proj), InvServed, phase = "loaded", NEW f \in DOMAIN proj.files, proj.files[f].unit # NoUnit,
         Once(proj.files[f].unit.name)
  PROVE  Served(f)
<1>1. proj.files[f].dir \in Dirs /\ proj.files[f].dir # "classes"
  BY Assumed, FileType DEF WellFormed
<1>2. f \in Evaluated
  BY <1>1 DEF Evaluated, Dirs
<1> QED
  BY <1>2 DEF InvServed

LEMMA TaggedFollows ==
  ASSUME InvShape, WellFormed(proj), InvServed
  PROVE  TaggedNeverLost
<1> SUFFICES ASSUME phase = "loaded", NEW f \in DOMAIN proj.files, NEW u, u = proj.files[f].unit, u # NoUnit, u.distro # NoName,
                    Once(u.name)
             PROVE  /\ view[u.distro][u.name] # NoUnit
                    /\ \/ view[u.distro][u.name].idx >= proj.files[f].mod
                       \/ proj.pins[u.distro][u.name] = view[u.distro][u.name].mod
  BY DEF TaggedNeverLost
<1>1. PICK d, n : d = u.distro /\ n = u.name
  OBVIOUS
<1>2. d \in Distros /\ n \in Names /\ DistroOf(f) = d /\ proj.files[f].mod \in Int
  <2>1. u \in Units({0}, {0}) /\ proj.files[f].mod \in 1 .. N + 1
    BY Assumed, FileType
  <2> QED
    BY <1>1, <2>1, FeedsAssumed DEF Units, DistroTags, DistroOf, Override
<1>3. PICK w \in eng.cat : w.name = n /\ VisibleTo(w, d) /\ w.idx >= proj.files[f].mod
  BY <1>1, <1>2, AllServed DEF Served
<1>4. w \in Variants(eng, n, d)
  BY <1>3 DEF Variants
<1>5. view[d][n] \in Variants(eng, n, d) /\ view[d][n] # NoUnit
      /\ (view[d][n].mod = proj.pins[d][n] \/ \A x \in Variants(eng, n, d) : x.idx <= view[d][n].idx)
  BY <1>2, <1>4, ViewSound
<1>6. \A x \in Variants(eng, n, d) : x.idx \in Int
  BY FeedsAssumed DEF Variants, InvShape, Catalogs, Engines, AllUnits, Units
<1>7. w.idx <= view[d][n].idx => view[d][n].idx >= proj.files[f].mod
  BY <1>2, <1>3, <1>4, <1>5, <1>6
<1> QED
  BY <1>1, <1>4, <1>5, <1>7

(* Every unit of an image's name is an image, resolved if it can be booted. *)
LEMMA ImagesResolved ==
  ASSUME InvShape, WellFormed(proj), InvBoot, InvServed, phase = "loaded", NEW f \in DOMAIN proj.files,
         proj.files[f].unit # NoUnit, proj.files[f].unit.class = "image", Once(proj.files[f].unit.name),
         NEW w \in eng.cat, w.name = proj.files[f].unit.name
  PROVE  w.distro # NoName /\ (Bootable(w.distro) <=> \E c \in closures : c.image = w.name /\ c.distro = w.distro)
<1>1. FromFile(w) \/ FromFeed(proj.pins, w)
  BY DEF InvShape, Catalogs, CatalogOK
<1>2. ~FromFeed(proj.pins, w)
  <2>1. ASSUME FromFeed(proj.pins, w) PROVE FALSE
    <3>1. PICK i \in Offering(w.name, w.distro) : TRUE
      BY <2>1 DEF FromFeed
    <3>2. i \in DOMAIN Feeds /\ w.name \in DOMAIN Feeds[i].offers
      BY <3>1 DEF Offering
    <3> QED
      BY <3>2 DEF WellFormed
  <2> QED
    BY <2>1
<1>3. PICK g \in Evaluated : Serves(g, w)
  BY <1>1, <1>2 DEF InvServed
<1>4. proj.files[g].unit.class = "image"
  <2>1. g \in DOMAIN proj.files /\ proj.files[g].unit # NoUnit /\ proj.files[g].unit.name = proj.files[f].unit.name
    BY <1>3 DEF Evaluated, Serves
  <2> QED
    BY <2>1 DEF WellFormed
<1> QED
  BY <1>3, <1>4 DEF Serves, InvBoot

LEMMA ImageFollows ==
  ASSUME InvShape, WellFormed(proj), InvBoot, InvServed
  PROVE  ImageChoice
<1> SUFFICES ASSUME phase = "loaded", NEW f \in DOMAIN proj.files, NEW u, u = proj.files[f].unit, u # NoUnit, u.class = "image",
                    Once(u.name)
             PROVE  /\ Override(u.distro, defaults.distro) = defaults.distro => EffectiveDistros(u.name) = {defaults.distro}
                    /\ \A d \in EffectiveDistros(u.name) :
                          Bootable(d) <=> \E w \in closures : w.image = u.name /\ w.distro = d
  BY DEF ImageChoice
<1>1. PICK n, e : n = u.name /\ e = defaults.distro
  OBVIOUS
<1>2. n \in Names /\ e \in DistroTags
  <2>1. u \in Units({0}, {0})
    BY Assumed, FileType
  <2> QED
    BY <1>1, <2>1 DEF Units, InvShape
<1>3. \A w \in eng.cat : w.name = n =>
         w.distro # NoName /\ (Bootable(w.distro) <=> \E c \in closures : c.image = n /\ c.distro = w.distro)
  BY <1>1, ImagesResolved
<1>4. PICK seen : seen = IF e = NoName THEN NoUnit ELSE view[e][n]
  OBVIOUS
<1>5. EffectiveDistros(n) = {x.distro : x \in IF seen # NoUnit THEN {seen} ELSE AnyUnit(n)}
  BY <1>1, <1>4 DEF EffectiveDistros
<1>6. ASSUME seen # NoUnit PROVE seen \in Variants(eng, n, e) /\ e \in Distros
  <2>1. e \in Distros /\ seen = view[e][n]
    BY <1>2, <1>4, <1>6 DEF DistroTags
  <2> QED
    BY <1>2, <1>6, <2>1, ViewSound
<1>7. ASSUME NEW d \in EffectiveDistros(n) PROVE Bootable(d) <=> \E w \in closures : w.image = n /\ w.distro = d
  <2>1. PICK x \in IF seen # NoUnit THEN {seen} ELSE AnyUnit(n) : d = x.distro
    BY <1>5
  <2>2. x \in eng.cat /\ x.name = n
    BY <1>6 DEF Variants, AnyUnit, Highest
  <2> QED
    BY <1>3, <2>1, <2>2
<1>8. ASSUME Override(u.distro, e) = e PROVE EffectiveDistros(n) = {e}
  <2>1. Served(f) /\ DistroOf(f) = e
    BY <1>1, <1>8, AllServed DEF DistroOf
  <2>2. PICK w \in eng.cat : w.name = n /\ VisibleTo(w, e) /\ e # NoName
    BY <1>1, <2>1 DEF Served
  <2>3. w \in Variants(eng, n, e) /\ e \in Distros
    BY <1>2, <2>2 DEF Variants, DistroTags
  <2>4. seen # NoUnit
    BY <1>2, <1>4, <2>2, <2>3, ViewSound
  <2>5. seen \in eng.cat /\ seen.name = n /\ VisibleTo(seen, e)
    BY <1>6, <2>4 DEF Variants
  <2>6. seen.distro = e
    BY <1>3, <2>5 DEF VisibleTo
  <2> QED
    BY <1>5, <2>4, <2>6
<1> QED
  BY <1>1, <1>7, <1>8

(* registerUnit leaves no name with two units of one priority that some     *)
(* distro both sees, so LookupUnit never chooses between equals, in any     *)
(* project whatever: the second definition of a priority is an error.       *)
THEOREM NoTiesHolds == LoadSpec => []NoTies
<1>1. LoadInv => NoTies
  BY TiesNone DEF LoadInv
<1> QED
  BY <1>1, LoadInvHolds, PTL

(* Of any project, a load that dereferences a nil result has met files that *)
(* load each other in a cycle, a provider is a name of the catalogs, and no *)
(* load() runs a file that a load() is running.  Of a well-formed one, what *)
(* registerUnit, the rebuild of Provides and the views make: a unit tagged  *)
(* for a distro is in that distro's view unless one of a higher priority or *)
(* a pin is; a virtual name goes to a provider no lower than one visible    *)
(* everywhere; and an image name stands for the project distro's variant,   *)
(* resolved for that distro exactly if the machine has a kernel for it.     *)
THEOREM CatalogInvHolds == LoadSpec => [](LoadTypeOK /\ NoTies /\ NoNilEntry /\ (WellFormed(proj) => CatalogInv))
<1>1. LoadInv => LoadTypeOK /\ NoTies /\ NoNilEntry /\ (WellFormed(proj) => CatalogInv)
  <2>1. LoadInv => LoadTypeOK /\ NoTies /\ NoNilEntry
    BY TypesFollow, TiesNone DEF LoadInv, InvStack
  <2>2. ASSUME LoadInv, WellFormed(proj) PROVE CatalogInv
    <3>1. InvShape /\ InvBoot /\ InvServed /\ InvProvides
      BY <2>2 DEF LoadInv, InvFiles
    <3>2. ProviderPriority
      BY <3>1 DEF InvProvides
    <3> QED
      BY <2>1, <2>2, <3>1, <3>2, TaggedFollows, ImageFollows DEF CatalogInv
  <2> QED
    BY <2>1, <2>2
<1> QED
  BY <1>1, LoadInvHolds, PTL

-----------------------------------------------------------------------------
(* Artifact lists. *)

Complete(deps, rest) == \A n \in DOMAIN deps : deps[n] \subseteq DOMAIN deps \union rest

LEMMA BehindClosed ==
  ASSUME NEW S \in SUBSET Names, NEW deps \in [S -> SUBSET Names], Complete(deps, {}), NEW x \in S
  PROVE  /\ Behind(deps, x) \subseteq S /\ deps[x] \ {x} \subseteq Behind(deps, x)
         /\ \A y \in Behind(deps, x) : deps[y] \ {y} \subseteq Behind(deps, x) /\ Behind(deps, y) \subseteq Behind(deps, x)
<1>1. DOMAIN deps = S /\ \A y \in S : deps[y] \subseteq S
  BY DEF Complete
<1>2. \A y \in S : Behind(deps, y) =
         {m \in S : \A T \in SUBSET S : (deps[y] \ {y} \subseteq T /\ \A z \in T : deps[z] \ {z} \subseteq T) => m \in T}
  BY <1>1 DEF Behind
<1>3. Behind(deps, x) \subseteq S /\ deps[x] \ {x} \subseteq Behind(deps, x)
  BY <1>1, <1>2
<1>4. ASSUME NEW y \in Behind(deps, x) PROVE deps[y] \ {y} \subseteq Behind(deps, x)
  <2>1. ASSUME NEW m \in deps[y] \ {y} PROVE m \in Behind(deps, x)
    <3>1. m \in S
      BY <1>1, <1>3, <1>4, <2>1
    <3>2. ASSUME NEW T \in SUBSET S, deps[x] \ {x} \subseteq T, \A z \in T : deps[z] \ {z} \subseteq T PROVE m \in T
      BY <1>2, <1>4, <2>1, <3>2
    <3> QED
      BY <1>2, <3>1, <3>2
  <2> QED
    BY <2>1
<1>5. ASSUME NEW y \in Behind(deps, x) PROVE Behind(deps, y) \subseteq Behind(deps, x)
  <2>1. y \in S /\ Behind(deps, x) \in SUBSET S
    BY <1>3, <1>5
  <2>2. deps[y] \ {y} \subseteq Behind(deps, x) /\ \A z \in Behind(deps, x) : deps[z] \ {z} \subseteq Behind(deps, x)
    BY <1>4, <1>5
  <2> QED
    BY <1>2, <2>1, <2>2
<1> QED
  BY <1>3, <1>4, <1>5

(* Where each needs another, there is a cycle behind each.                  *)
LEMMA CycleBehind ==
  ASSUME NEW S \in SUBSET Names, NEW deps \in [S -> SUBSET Names], Complete(deps, {}),
         NEW R \in SUBSET S, \A x \in R : \E y \in R : y \in deps[x] \ {x}, NEW n \in R
  PROVE  \E m \in Behind(deps, n) \union {n} : m \in Behind(deps, m)
<1> SUFFICES ASSUME \A m \in Behind(deps, n) \union {n} : m \notin Behind(deps, m) PROVE FALSE
  OBVIOUS
<1>1. PICK B : B = (Behind(deps, n) \union {n}) \cap R
  OBVIOUS
<1>2. \A x \in S : IsFiniteSet(Behind(deps, x)) /\ Cardinality(Behind(deps, x)) \in Nat
  <2> TAKE x \in S
  <2>1. Behind(deps, x) \subseteq Names
    BY BehindClosed
  <2> QED
    BY <2>1, NamesFinite, FS_Subset, FS_CardinalityType
<1>3. PICK K : K = {Cardinality(Behind(deps, x)) : x \in B}
  OBVIOUS
<1>4. K \in SUBSET Nat /\ K # {}
  BY <1>1, <1>2, <1>3
<1>5. PICK k \in K : \A j \in K : k <= j
  BY <1>4, LeastExists
<1>6. PICK x \in B : k = Cardinality(Behind(deps, x))
  BY <1>3, <1>5
<1>7. PICK y \in R : y \in deps[x] \ {x}
  BY <1>1, <1>6
<1>8. x \in S /\ y \in S
  BY <1>1
<1>9. y \in Behind(deps, x) /\ Behind(deps, y) \subseteq Behind(deps, x)
  BY <1>7, <1>8, BehindClosed
<1>10. y \in B
  <2>1. Behind(deps, x) \subseteq Behind(deps, n)
    BY <1>1, <1>6, BehindClosed
  <2> QED
    BY <1>1, <1>9, <2>1
<1>11. y \notin Behind(deps, y)
  BY <1>1, <1>10
<1>12. Cardinality(Behind(deps, y)) < Cardinality(Behind(deps, x))
  <2>1. PICK X, Y : X = Behind(deps, x) /\ Y = Behind(deps, y)
    OBVIOUS
  <2>2. Y \subseteq X /\ Y # X /\ IsFiniteSet(X) /\ Cardinality(X) \in Nat /\ Cardinality(Y) \in Nat
    BY <1>2, <1>8, <1>9, <1>11, <2>1
  <2>3. Cardinality(Y) <= Cardinality(X) /\ (Cardinality(Y) = Cardinality(X) => Y = X)
    BY <2>2, FS_Subset
  <2> QED
    BY <2>1, <2>2, <2>3
<1>13. k <= Cardinality(Behind(deps, y)) /\ Cardinality(Behind(deps, y)) \in Nat /\ k \in Nat
  BY <1>2, <1>3, <1>4, <1>5, <1>8, <1>10
<1> QED
  BY <1>6, <1>12, <1>13

(* The artifact list of a complete graph, as ClosureOrdered has it.         *)
Place(order, n) == CHOOSE i \in DOMAIN order : order[i] = n
CycleAt(deps, n) == \E m \in Behind(deps, n) \union {n} : m \in Behind(deps, m)
InOrder(deps, order) ==
    /\ Range(order) = DOMAIN deps /\ Len(order) = Cardinality(DOMAIN deps)
    /\ \A n \in DOMAIN deps : \A m \in deps[n] \ {n} :
          m \in DOMAIN deps /\ (CycleAt(deps, n) \/ Place(order, m) < Place(order, n))

LEMMA TopoInOrder ==
  ASSUME NEW deps \in Graphs(Names), Complete(deps, {})
  PROVE  InOrder(deps, TopoOrder(deps))
<1>1. PICK S \in SUBSET Names : deps \in [S -> SUBSET Names]
  BY DEF Graphs
<1>2. PICK t : t = TopoOrder(deps)
  OBVIOUS
<1>3. t \in Seq(Names) /\ Range(t) = S /\ Apart(t)
  BY <1>1, <1>2, TopoSound
<1>4. PICK out \in SUBSET S : Ready(deps, out) = {} /\ \A i \in 1 .. Len(t) : t[i] \in out => After(deps, t, i)
  BY <1>1, <1>2, TopoSound
<1>5. PICK M \in Nat : M = Len(t) /\ DOMAIN t = 1 .. M
  BY <1>3
<1>6. \A i, j \in 1 .. M : t[i] = t[j] => i = j
  BY <1>3, <1>5 DEF Apart
<1>7. S = {t[i] : i \in 1 .. M} /\ DOMAIN deps = S
  BY <1>1, <1>3, <1>5 DEF Range
<1>8. M = Cardinality(S)
  <2>1. t \in Bijection(1 .. M, S)
    <3>1. t \in [1 .. M -> S]
      BY <1>3, <1>5, <1>7
    <3>2. t \in Injection(1 .. M, S)
      BY <1>6, <3>1 DEF Injection, IsInjective
    <3>3. t \in Surjection(1 .. M, S)
      BY <1>7, <3>1 DEF Surjection
    <3> QED
      BY <3>2, <3>3 DEF Bijection
  <2>2. IsFiniteSet(1 .. M) /\ Cardinality(1 .. M) = M
    <3>1. IsFiniteSet(1 .. M) /\ Cardinality(1 .. M) = IF 1 > M THEN 0 ELSE M - 1 + 1
      <4>1. 1 \in Int /\ M \in Int
        OBVIOUS
      <4> QED
        BY ONLY <4>1, FS_Interval
    <3>2. (IF 1 > M THEN 0 ELSE M - 1 + 1) = M
      OBVIOUS
    <3> QED
      BY ONLY <3>1, <3>2
  <2> QED
    BY <2>1, <2>2, FS_Bijection DEF ExistsBijection
<1>9. \A i \in 1 .. M : Place(t, t[i]) = i
  BY <1>5, <1>6 DEF Place
<1>10. ASSUME NEW n \in S, NEW m \in deps[n] \ {n} PROVE m \in S /\ (CycleAt(deps, n) \/ Place(t, m) < Place(t, n))
  <2>1. PICK i \in 1 .. M : t[i] = n
    BY <1>7
  <2>2. ASSUME n \in out PROVE Place(t, m) < Place(t, n)
    <3>1. m \in (deps[t[i]] \cap DOMAIN deps) \ {t[i]}
      BY <1>7, <1>10, <2>1 DEF Complete
    <3>2. PICK j \in 1 .. M : j < i /\ t[j] = m
      BY <1>4, <1>5, <2>1, <2>2, <3>1 DEF After
    <3> QED
      BY <1>9, <2>1, <3>2
  <2>3. ASSUME n \notin out PROVE CycleAt(deps, n)
    <3>1. PICK R \in SUBSET S : R = S \ out
      OBVIOUS
    <3>2. \A x \in R : \E y \in R : y \in deps[x] \ {x}
      <4> TAKE x \in R
      <4>1. ~((deps[x] \cap DOMAIN deps) \ {x} \subseteq out)
        BY <1>4, <1>7, <3>1 DEF Ready
      <4>2. deps[x] \subseteq S
        BY <1>7 DEF Complete
      <4> QED
        BY <3>1, <4>1, <4>2
    <3>3. n \in R
      BY <2>3, <3>1
    <3> QED
      BY <1>1, <3>2, <3>3, CycleBehind DEF CycleAt
  <2>4. m \in S
    BY <1>7, <1>10 DEF Complete
  <2> QED
    BY <2>2, <2>3, <2>4
<1> QED
  BY <1>2, <1>3, <1>5, <1>7, <1>8, <1>10 DEF InOrder

(* No name that provides a virtual name, and no kernel of the machine, is   *)
(* a virtual name of another.                                               *)
Unchained ==
    /\ \A v \in Names : Mapped(Mapped(v)) = Mapped(v)
    /\ \A d \in DOMAIN Kernel.distroUnit : Mapped(Kernel.distroUnit[d]) = Kernel.distroUnit[d]

Loading == phase \in {"project", "machines", "machinesOnly", "preflight", "units", "provides"}

(* Whatever a walk has met needs what it has met or will come to.           *)
WalkClosed == Complete(walk.deps, Range(walk.queue)) /\ \A x \in Range(walk.queue) : Mapped(x) = x
ListClosed(w) == w.deps \in Graphs(Names) /\ Complete(w.deps, {}) /\ w.order = TopoOrder(w.deps)
AllClosed ==
    /\ (walk # NoWalk /\ phase = "images") => WalkClosed
    /\ \A w \in closures : ListClosed(w)

InvClosed ==
    /\ Loading => closures = {}
    /\ Unchained => AllClosed

LEMMA MappedOnce == ASSUME Unchained, NEW x, IsMapped(x) \/ IsKernel(x) PROVE Mapped(x) = x
BY DEF IsMapped, IsKernel, Unchained

LEMMA MappedStays ==
  ASSUME UNCHANGED <<proj, provides>>
  PROVE  Unchained' = Unchained /\ \A x : Mapped(x)' = Mapped(x)
<1>1. \A x : Mapped(x)' = Mapped(x)
  BY DEF Mapped
<1>2. Kernel' = Kernel
  BY MachineStays
<1> QED
  BY <1>1, <1>2 DEF Unchained, Mapped

LEMMA ClosedStays ==
  ASSUME InvClosed, UNCHANGED <<proj, walk, closures>>, Loading' => Loading,
         walk = NoWalk \/ (phase' = "images" => phase = "images"),
         provides' = provides \/ (closures = {} /\ walk = NoWalk)
  PROVE  InvClosed'
<1>1. Loading' => closures' = {}
  BY DEF InvClosed
<1>2. CASE closures = {} /\ walk = NoWalk
  BY <1>1, <1>2 DEF InvClosed, AllClosed
<1>3. CASE provides' = provides
  <2>1. \A w \in closures : ListClosed(w)' <=> ListClosed(w)
    BY DEF ListClosed
  <2>2. WalkClosed' = WalkClosed /\ Unchained' = Unchained
    BY <1>3, MappedStays DEF WalkClosed
  <2>3. AllClosed => AllClosed'
    BY <2>1, <2>2 DEF AllClosed
  <2> QED
    BY <1>1, <2>2, <2>3 DEF InvClosed
<1> QED
  BY <1>2, <1>3

LEMMA ClosedImage ==
  ASSUME InvShape, InvWalk, InvClosed, Image
  PROVE  InvClosed'
<1>1. /\ phase = "images" /\ walk = NoWalk /\ UNCHANGED <<proj, closures, provides>>
      /\ (phase' = "failed" /\ walk' = walk) \/ phase' = phase
  BY DEF Image, AtImage, AtBody, Fail
<1>2. CASE phase' = "failed" /\ walk' = walk
  BY <1>1, <1>2, ClosedStays DEF Loading
<1>3. CASE phase' = phase
  <2>1. walk'.deps = <<>> /\ \A x \in Range(walk'.queue) : IsMapped(x) \/ IsKernel(x)
    BY <1>1, <1>3, ShapeImage DEF Started
  <2>2. Unchained => WalkClosed'
    <3>1. Unchained => \A x \in Range(walk'.queue) : Mapped(x) = x
      BY <2>1, MappedOnce
    <3>2. \A x : Mapped(x)' = Mapped(x)
      BY <1>1, MappedStays
    <3>3. Complete(walk'.deps, Range(walk'.queue))
      BY <2>1 DEF Complete
    <3> QED
      BY <3>1, <3>2, <3>3 DEF WalkClosed
  <2>3. \A w \in closures : ListClosed(w)' <=> ListClosed(w)
    BY DEF ListClosed
  <2>4. Unchained' = Unchained
    BY <1>1, MappedStays
  <2>5. Unchained => AllClosed'
    BY <1>1, <2>2, <2>3 DEF AllClosed, InvClosed
  <2> QED
    BY <1>1, <1>3, <2>4, <2>5 DEF InvClosed, Loading
<1> QED
  BY <1>1, <1>2, <1>3

LEMMA WalkedClosed ==
  ASSUME InvShape, Unchained, walk \in Walks, walk.queue # <<>>, WalkClosed, provides' = provides,
         WalkPasses \/ \E R \in SUBSET Names : WalkAdds(R)
  PROVE  WalkClosed'
<1>1. PICK q \in Seq(Names), g \in Graphs(Names) : q = walk.queue /\ g = walk.deps
  BY WalkParts
<1>2. PICK h, t : h = Head(q) /\ t = Tail(q) /\ t \in Seq(Names)
  BY <1>1, HeadTailProperties
<1>3. Range(q) = Range(t) \union {h}
  BY <1>1, <1>2, HeadOrTail
<1>4. Mapped(h) = h /\ \A x \in Range(t) : Mapped(x) = x
  BY <1>1, <1>3 DEF WalkClosed
<1>5. Complete(g, Range(t) \union {h})
  BY <1>1, <1>3 DEF WalkClosed
<1>6. \A x : Mapped(x)' = Mapped(x)
  BY DEF Mapped
<1>7. CASE WalkPasses
  <2>1. h \in DOMAIN g /\ walk'.queue = t /\ walk'.deps = g
    BY <1>1, <1>2, <1>4, <1>7 DEF WalkPasses
  <2>2. Complete(g, Range(t))
    BY <1>5, <2>1 DEF Complete
  <2> QED
    BY <1>4, <1>6, <2>1, <2>2 DEF WalkClosed
<1>8. ASSUME NEW R \in SUBSET Names, WalkAdds(R) PROVE WalkClosed'
  <2>1. PICK q1, g1 : q1 = walk'.queue /\ g1 = walk'.deps
    OBVIOUS
  <2>2. Range(q1) = Range(t) \union R /\ \A x \in R : IsMapped(x)
    BY <1>1, <1>2, <1>8, <2>1 DEF WalkAdds
  <2>3. g1 = [n \in DOMAIN g \union {h} |-> IF n = h THEN R ELSE g[n]]
    <3>1. Mapped(Head(walk.queue)) = h
      BY <1>1, <1>2, <1>4
    <3> QED
      BY <1>1, <1>8, <2>1, <3>1 DEF WalkAdds
  <2>4. DOMAIN g1 = DOMAIN g \union {h} /\ g1[h] = R /\ \A n \in DOMAIN g \ {h} : g1[n] = g[n]
    BY <2>3
  <2>5. \A n \in DOMAIN g1 : g1[n] \subseteq DOMAIN g1 \union Range(q1)
    <3> TAKE n \in DOMAIN g1
    <3>1. CASE n = h
      BY <2>2, <2>4, <3>1
    <3>2. CASE n # h
      BY <1>5, <2>2, <2>4, <3>2 DEF Complete
    <3> QED
      BY <3>1, <3>2
  <2>6. \A x \in Range(q1) : Mapped(x) = x
    BY <1>4, <2>2, MappedOnce
  <2> QED
    BY <1>6, <2>1, <2>5, <2>6 DEF WalkClosed, Complete
<1> QED
  BY <1>7, <1>8

LEMMA ClosedWalk ==
  ASSUME InvShape, InvWalk, InvClosed, WalkStep
  PROVE  InvClosed'
<1>1. phase = "images" /\ walk # NoWalk /\ walk.queue # <<>> /\ walk \in Walks
  BY DEF WalkStep, InvWalk
<1>2. WalkGrows /\ Walked
  BY ShapeWalk
<1>3. UNCHANGED <<proj, closures, provides>> /\ phase' \in {"failed", "images"}
  BY <1>1, <1>2 DEF WalkGrows
<1>4. (\A w \in closures : ListClosed(w)' <=> ListClosed(w)) /\ Unchained' = Unchained
  BY <1>3, MappedStays DEF ListClosed
<1>5. ASSUME Unchained, phase' = "images" PROVE WalkClosed'
  <2>1. WalkClosed
    BY <1>1, <1>5 DEF InvClosed, AllClosed
  <2>2. WalkPasses \/ \E R \in SUBSET Names : WalkAdds(R)
    BY <1>2, <1>5 DEF Walked
  <2> QED
    BY <1>1, <1>3, <1>5, <2>1, <2>2, WalkedClosed
<1>6. Unchained => AllClosed'
  BY <1>3, <1>4, <1>5 DEF InvClosed, AllClosed
<1> QED
  BY <1>1, <1>3, <1>4, <1>6 DEF InvClosed, Loading

LEMMA ClosedRegister ==
  ASSUME InvShape, InvWalk, InvClosed, Unit \/ RegisterInert \/ ImageDone
  PROVE  InvClosed'
<1>1. \/ phase' = "failed" /\ UNCHANGED <<proj, walk, closures, provides>>
      \/ /\ walk' = NoWalk /\ UNCHANGED <<proj, phase, provides>>
         /\ closures' = IF walk = NoWalk THEN closures ELSE closures \union {[walk EXCEPT !.order = TopoOrder(walk.deps)]}
  <2>1. PICK u : Register(u)
    BY DEF Unit, RegisterInert, ImageDone
  <2> QED
    BY <2>1 DEF Register, Fail
<1>2. CASE phase' = "failed" /\ UNCHANGED <<proj, walk, closures, provides>>
  BY <1>2, ClosedStays DEF Loading
<1>3. CASE walk' = NoWalk /\ closures' = closures /\ UNCHANGED <<proj, phase, provides>>
  <2>1. (\A w \in closures : ListClosed(w)' <=> ListClosed(w)) /\ Unchained' = Unchained /\ Loading' = Loading
    BY <1>3, MappedStays DEF ListClosed, Loading
  <2>2. AllClosed => AllClosed'
    BY <1>3, <2>1 DEF AllClosed
  <2> QED
    BY <1>3, <2>1, <2>2 DEF InvClosed
<1>4. CASE /\ walk # NoWalk /\ walk' = NoWalk /\ UNCHANGED <<proj, phase, provides>>
           /\ closures' = closures \union {[walk EXCEPT !.order = TopoOrder(walk.deps)]}
  <2>1. phase = "images" /\ walk \in Walks /\ walk.queue = <<>>
    BY <1>4 DEF Unit, RegisterInert, AtImage, AtBody, ImageDone, InvWalk
  <2>2. PICK g \in Graphs(Names) : g = walk.deps
    BY <2>1, WalkParts
  <2>3. PICK c : c = [walk EXCEPT !.order = TopoOrder(walk.deps)]
    OBVIOUS
  <2>4. c.deps = g /\ c.order = TopoOrder(g)
    <3>1. walk = [distro |-> walk.distro, image |-> walk.image, queue |-> walk.queue, deps |-> walk.deps, took |-> walk.took,
                  order |-> <<>>]
      BY <2>1, WalkParts
    <3> QED
      BY ONLY <2>2, <2>3, <3>1
  <2>5. (\A w : ListClosed(w)' <=> ListClosed(w)) /\ Unchained' = Unchained
    BY <1>4, MappedStays DEF ListClosed
  <2>6. Unchained => ListClosed(c)
    <3>1. Unchained => Complete(g, {})
      <4>1. Range(walk.queue) = {}
        BY <2>1 DEF Range
      <4> QED
        BY <1>4, <2>1, <2>2, <4>1 DEF InvClosed, AllClosed, WalkClosed
    <3> QED
      BY <2>2, <2>4, <3>1 DEF ListClosed
  <2>7. Unchained => AllClosed'
    BY <1>4, <2>3, <2>5, <2>6 DEF InvClosed, AllClosed
  <2> QED
    BY <1>4, <2>1, <2>5, <2>7 DEF InvClosed, Loading
<1> QED
  BY <1>1, <1>2, <1>3, <1>4

LEMMA ClosedStep ==
  ASSUME InvShape, InvWalk, InvClosed, [LoadNext]_loadVars
  PROVE  InvClosed'
<1>0. proj' = proj
  BY ProjectStays
<1>1. CASE UNCHANGED loadVars
  BY <1>0, <1>1, ClosedStays DEF loadVars, Loading
<1>2. CASE Image \/ WalkStep \/ Unit \/ RegisterInert \/ ImageDone
  BY <1>2, ClosedImage, ClosedWalk, ClosedRegister
<1>3. CASE Machines \/ Provide
  <2>1. walk = NoWalk /\ Loading /\ phase # "images"
    BY <1>3 DEF Machines, Provide, InvWalk, Loading
  <2>2. UNCHANGED <<walk, closures>>
    BY <1>3 DEF Machines, Provide, Fail
  <2> QED
    BY <1>0, <2>1, <2>2, ClosedStays DEF InvClosed
<1>4. CASE LoadNext /\ ~(Image \/ WalkStep \/ Unit \/ RegisterInert \/ ImageDone \/ Machines \/ Provide)
  <2>1. UNCHANGED <<walk, closures, provides>>
    BY <1>4 DEF LoadNext, ApplyLocal, Preflight, ExecFile, Load, Class, UnitsDone, ProvidesDone,
       ImagesDone, Materialize, BuildViews, Ended, Fail, loadVars
  <2>2. (Loading' => Loading) /\ (phase' = "images" => phase \in {"images", "provides"})
    BY <1>4 DEF LoadNext, ApplyLocal, Preflight, ExecFile, Load, Class, UnitsDone, ProvidesDone,
       ImagesDone, Materialize, BuildViews, Ended, Fail, loadVars, Loading
  <2>3. phase = "provides" => walk = NoWalk
    BY DEF InvWalk
  <2> QED
    BY <1>0, <2>1, <2>2, <2>3, ClosedStays
<1> QED
  BY <1>1, <1>2, <1>3, <1>4

(* Looking a name up finds what has it, or what offers it.                  *)
LEMMA LookupFinds ==
  ASSUME InvShape, NEW n \in Names, NEW d \in Distros, Variants(eng, n, d) # {} \/ Offering(n, d) # {}
  PROVE  Lookup(eng, n, d).unit # NoUnit
<1> DEFINE pin == proj.pins[d][n]
           pinned == IF pin = 0 THEN NoUnit ELSE InModule(eng, n, pin, d)
           fresh == FeedUnit(Min(Offering(n, d)), n)
           stored == Stored([eng EXCEPT !.flat[n] = IF @ = NoUnit THEN fresh ELSE @], fresh)
<1>1. PICK r : r = Lookup(eng, n, d)
  OBVIOUS
<1>2. \/ pinned # NoUnit /\ r.unit = pinned
      \/ pinned = NoUnit /\ eng.flat[n] # NoUnit /\ VisibleTo(eng.flat[n], d) /\ r.unit = eng.flat[n]
      \/ Variants(eng, n, d) # {} /\ r.unit = FindVisible(eng, n, d)
      \/ Offering(n, d) # {} /\ r.unit = fresh
      \/ Variants(eng, n, d) = {} /\ Offering(n, d) = {}
      \/ eng.flat[n] = NoUnit /\ Variants(eng, n, d) # {} /\ Offering(n, d) = {}
  BY <1>1 DEF Lookup
<1> HIDE DEF pinned
<1>3. fresh # NoUnit
  <2>1. fresh.name = n /\ NoUnit.name = NoName
    BY DEF FeedUnit, NoUnit
  <2> QED
    BY <2>1, FeedsAssumed
<1> HIDE DEF fresh
<1>4. eng \in Engines /\ CatalogOK(proj.pins, eng)
  BY DEF InvShape, Catalogs
<1>5. Variants(eng, n, d) # {} => FindVisible(eng, n, d) # NoUnit
  BY <1>4, FoundVisible, UnitNamed DEF Engines, Variants
<1>6. ASSUME eng.flat[n] = NoUnit, NEW u \in Variants(eng, n, d) PROVE Offering(n, d) # {}
  <2>1. FromFeed(proj.pins, u) /\ u.name = n /\ VisibleTo(u, d)
    BY <1>4, <1>6 DEF CatalogOK, Variants
  <2>2. u.distro = d
    BY <2>1, FeedsAssumed DEF FromFeed, VisibleTo
  <2> QED
    BY <2>1, <2>2 DEF FromFeed
<1> QED
  BY <1>1, <1>2, <1>3, <1>5, <1>6

LEMMA PendingStays ==
  ASSUME UNCHANGED <<proj, eng, provides>>, Attached' = Attached, defaults'.distro = defaults.distro
  PROVE  Pending' = Pending
<1>1. \A n, d : Providers(eng, n, d)' = Providers(eng, n, d)
  BY DEF Providers, Mapped
<1>2. \A n, d : Lookup(eng, n, d)' = Lookup(eng, n, d)
  BY DEF Lookup, FeedUnit, InModule
<1>3. Unmet' = Unmet
  BY DEF Unmet, Targets, Providers, Mapped
<1>4. \A x : Resolvable(x)' = Resolvable(x)
  BY <1>1, <1>2 DEF Resolvable
<1> QED
  BY <1>3, <1>4 DEF Pending

(* Views are only built when nothing is left to materialise.                *)
InvMet == phase \in {"views", "loaded"} => Pending = {}

LEMMA MetStep ==
  ASSUME InvShape, InvMet, [LoadNext]_loadVars
  PROVE  InvMet'
<1>1. CASE UNCHANGED loadVars
  <2>1. UNCHANGED <<proj, eng, provides, defaults, phase>>
    BY <1>1 DEF loadVars
  <2>2. Pending' = Pending
    BY <2>1, PendingStays DEF Attached
  <2> QED
    BY <2>1, <2>2 DEF InvMet
<1>2. CASE Materialize
  <2>1. phase = "fixpoint" /\ UNCHANGED <<proj, defaults, provides>>
        /\ (phase' = "fixpoint" \/ (Pending = {} /\ phase' = "views" /\ UNCHANGED eng))
    BY <1>2 DEF Materialize
  <2>2. UNCHANGED eng /\ phase' = "views" => Pending' = Pending
    BY <2>1, PendingStays DEF Attached
  <2> QED
    BY <2>1, <2>2 DEF InvMet
<1>3. CASE BuildViews
  <2>1. phase = "views" /\ phase' = "loaded" /\ UNCHANGED <<proj, eng, provides>> /\ \E i : defaults' = [defaults EXCEPT !.image = i]
    BY <1>3 DEF BuildViews
  <2>2. defaults'.distro = defaults.distro
    BY <2>1 DEF InvShape
  <2>3. Pending' = Pending
    BY <2>1, <2>2, PendingStays DEF Attached
  <2> QED
    BY <2>1, <2>3 DEF InvMet
<1>4. CASE Ended
  BY <1>1, <1>4 DEF Ended
<1>5. CASE LoadNext /\ ~(Materialize \/ BuildViews \/ Ended)
  <2>1. ASSUME NEW u, Register(u) PROVE phase' = phase \/ phase' = "failed"
    BY <2>1 DEF Register, Fail
  <2>2. CASE Unit \/ RegisterInert \/ ImageDone
    BY <2>1, <2>2 DEF Unit, RegisterInert, ImageDone, AtImage, AtBody, InvMet
  <2>3. CASE WalkStep
    BY <2>3 DEF WalkStep, Fail, InvMet
  <2>5. CASE Image
    BY <2>5 DEF Image, AtImage, Fail, InvMet
  <2>4. CASE ~(Unit \/ RegisterInert \/ ImageDone \/ WalkStep \/ Image)
    BY <1>5, <2>4 DEF LoadNext, ApplyLocal, Machines, Preflight, ExecFile, Load, Class, UnitsDone, Provide, ProvidesDone,
       ImagesDone, Fail, AtBody, InvMet
  <2> QED
    BY <2>2, <2>3, <2>4, <2>5
<1> QED
  BY <1>1, <1>2, <1>3, <1>4, <1>5

LEMMA TargetsTyped ==
  ASSUME InvShape
  PROVE  Targets \subseteq Distros
<1>1. proj.distro \in DistroTags /\ defaults.distro \in DistroTags
  BY Assumed DEF InvShape, IsProject
<1>2. \A u \in eng.cat : u.class = "image" => u.distro \in DistroTags /\ u.distro # NoName
  BY DEF InvShape, Catalogs, Engines, AllUnits, Units
<1> QED
  BY <1>1, <1>2 DEF Targets, DistroTags

(* What a view lacks has a provider, or no feed offers it.                  *)
LEMMA ProviderFound ==
  ASSUME InvShape, Attached, Unchained, NEW d \in Distros, NEW m \in Names, NEW r \in Providers(eng, m, d),
         Variants(eng, r, d) = {}, Offering(r, d) # {}
  PROVE  \E p \in Providers(eng, r, d) : Lookup(eng, p, d).unit # NoUnit
<1>1. eng \in Engines
  BY DEF InvShape, Catalogs
<1>2. r \in Names
  BY ProvidersTyped
<1>3. \A u \in eng.cat : u.name = r => u.distro # d
  BY DEF Variants, VisibleTo
<1>4. PICK T : T = {u \in eng.cat : u.distro = d /\ r \in u.provides}
  OBVIOUS
<1>5. (IF T # {} THEN {u.name : u \in T} ELSE {Mapped(r)}) \subseteq Providers(eng, r, d)
  <2>1. Highest({u \in eng.cat : u.name = r}) \subseteq {u \in eng.cat : u.name = r}
    BY DEF Highest
  <2>2. \A u \in Highest({u \in eng.cat : u.name = r}) : u.distro # d
    BY <1>3, <2>1
  <2> QED
    BY <1>4, <2>2 DEF Providers
<1>6. CASE T # {}
  <2>1. PICK u \in eng.cat : u.distro = d /\ u.name \in Providers(eng, r, d)
    BY <1>4, <1>5, <1>6
  <2>2. u.name \in Names /\ u \in Variants(eng, u.name, d)
    BY <1>1, <2>1, UnitNamed DEF Variants, VisibleTo, Engines
  <2>3. Lookup(eng, u.name, d).unit # NoUnit
    BY <2>2, LookupFinds
  <2> QED
    BY <2>1, <2>3
<1>7. CASE T = {}
  <2>1. r = Mapped(m)
    <3>1. PICK X : X = {u \in eng.cat : u.distro = d /\ m \in u.provides}
      OBVIOUS
    <3>2. \/ r = m /\ \E u \in Highest({u \in eng.cat : u.name = m}) : u.distro = d
          \/ r \in IF X # {} THEN {u.name : u \in X} ELSE {Mapped(m)}
      BY <3>1 DEF Providers
    <3>3. ~(r = m /\ \E u \in Highest({u \in eng.cat : u.name = m}) : u.distro = d)
      BY <1>3 DEF Highest
    <3>4. r \notin {u.name : u \in X}
      BY <1>3, <3>1
    <3> QED
      BY <3>2, <3>3, <3>4
  <2>2. Mapped(r) = r
    BY <2>1, MappedOnce DEF IsMapped
  <2>3. Lookup(eng, r, d).unit # NoUnit
    BY <1>2, LookupFinds
  <2> QED
    BY <1>5, <1>7, <2>2, <2>3
<1> QED
  BY <1>6, <1>7

LEMMA ClosureFollows ==
  ASSUME InvShape, InvClosed, InvMet, Unchained
  PROVE  ClosureInv
<1>1. ClosureOrdered
  <2>1. ASSUME NEW w \in closures PROVE InOrder(w.deps, w.order)
    BY <2>1, TopoInOrder DEF InvClosed, AllClosed, ListClosed
  <2> QED
    BY <2>1 DEF ClosureOrdered, InOrder, Place, CycleAt
<1>2. DepsMaterialised
  <2> SUFFICES ASSUME phase = "loaded", NEW d \in Targets, NEW n \in Names, view[d][n] # NoUnit, proj.pins[d][n] = 0,
                      NEW m \in Range(DepsFor(view[d][n], d) \o RuntimeDepsFor(view[d][n], d)), NEW r \in Providers(eng, m, d),
                      view[d][r] = NoUnit, Offering(r, d) # {}
               PROVE  FALSE
    BY DEF DepsMaterialised
  <2>1. d \in Distros /\ eng \in Engines /\ CatalogOK(proj.pins, eng)
    BY TargetsTyped DEF InvShape, Catalogs
  <2>2. PICK u \in Variants(eng, n, d) : u = view[d][n]
    BY <2>1, ViewSound
  <2>3. u \in AllUnits /\ u \in eng.cat /\ u.name = n /\ VisibleTo(u, d)
    BY <2>1, <2>2 DEF Variants, Engines
  <2>4. m \in Names
    <3>1. DepsFor(u, d) \o RuntimeDepsFor(u, d) \in Seq(Names)
      BY <2>1, <2>3, NeedsTyped
    <3> QED
      BY <2>2, <3>1 DEF Range
  <2>5. r \in Names
    BY <2>4, ProvidersTyped
  <2>6. Variants(eng, r, d) = {}
    BY <2>1, <2>5, ViewSound
  <2>7. u = FindVisible(eng, n, d)
    <3>1. \A w \in eng.cat : w.mod # 0
      <4>1. \A w \in eng.cat : FromFile(w) \/ FromFeed(proj.pins, w)
        BY <2>1 DEF CatalogOK
      <4> QED
        BY <4>1, OfferingType, FeedsAssumed DEF FromFile, FromFeed
    <3>2. {w \in Variants(eng, n, d) : w.mod = proj.pins[d][n]} = {}
      BY <3>1 DEF Variants
    <3> QED
      BY <2>1, <2>2, <3>2, ViewSound DEF ResolveForDistro
  <2>8. eng.flat[n] # NoUnit
    <3>1. ASSUME FromFeed(proj.pins, u) PROVE u.distro = d
      BY <2>3, <3>1, FeedsAssumed DEF FromFeed, VisibleTo
    <3> QED
      BY <2>1, <2>3, <3>1 DEF CatalogOK
  <2>9. FindVisible(eng, r, d) = NoUnit
    BY <2>6 DEF FindVisible
  <2>10. PICK x : x = [d |-> d, r |-> r]
    OBVIOUS
  <2>11. x \in Unmet
    <3>1. u # NoUnit
      BY <2>3, UnitNamed
    <3> DEFINE Wanted(e, y) == LET v == FindVisible(eng, y, e) IN IF v = NoUnit THEN {} ELSE Range(DepsFor(v, e) \o RuntimeDepsFor(v, e))
               UnmetAt(e, y) == {[d |-> e, r |-> z] : z \in {p \in UNION {Providers(eng, dep, e) : dep \in Wanted(e, y)} :
                                                                FindVisible(eng, p, e) = NoUnit}}
    <3>2. Unmet = UNION {UnmetAt(e, y) : e \in Targets, y \in {z \in Names : eng.flat[z] # NoUnit}}
      BY DEF Unmet
    <3>3. m \in Wanted(d, n)
      BY <2>2, <2>7, <3>1
    <3> HIDE DEF Wanted
    <3>4. x \in UnmetAt(d, n)
      BY <2>9, <2>10, <3>3
    <3> HIDE DEF UnmetAt
    <3> QED
      BY <2>8, <3>2, <3>4
  <2>12. Resolvable(x) = {}
    BY <2>11 DEF InvMet, Pending
  <2>13. x.r = r /\ x.d = d
    BY <2>10
  <2>14. \E p \in Providers(eng, r, d) : Lookup(eng, p, d).unit # NoUnit
    BY <2>1, <2>4, <2>6, ProviderFound DEF Attached
  <2> QED
    BY <2>12, <2>13, <2>14 DEF Resolvable
<1> QED
  BY <1>1, <1>2 DEF ClosureInv

(* The artifacts that topoOrder lists of an image are its whole closure,    *)
(* each once and after what it needs unless a cycle is behind it; and when  *)
(* the passes over the feeds end, a view has every provider that a feed     *)
(* offers of what its units depend on: for any project in which no name of  *)
(* a provider or a kernel is a virtual name of another.  closure resolves a        *)
(* name it meets and, when its turn comes, resolves what it got once more:  *)
(* of v that p provides and p that q provides, the graph has an edge to p   *)
(* and no node p, and what needs v need not come after q.                   *)
THEOREM ClosureInvHolds == LoadSpec => [](Unchained => ClosureInv)
<1>1. LoadInit => InvClosed /\ InvMet
  BY DEF LoadInit, InvClosed, InvMet, AllClosed
<1>2. LoadInv /\ (InvClosed /\ InvMet) /\ [LoadNext]_loadVars => (InvClosed /\ InvMet)'
  BY ClosedStep, MetStep DEF LoadInv
<1>3. LoadInv /\ (InvClosed /\ InvMet) => (Unchained => ClosureInv)
  BY ClosureFollows DEF LoadInv
<1> QED
  BY <1>1, <1>2, <1>3, LoadInvHolds, PTL DEF LoadSpec
==============================================================================
