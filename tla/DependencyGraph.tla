-------------------------- MODULE DependencyGraph ---------------------------
(***************************************************************************)
(* The dependency graph of a project (internal/resolve/dag.go, container.go,*)
(* hash.go): which build edges BuildDAG derives from what the units         *)
(* declare, the order Kahn's algorithm puts them in, and the cache key      *)
(* ComputeAllHashes gives each unit.                                        *)
(*                                                                          *)
(* A project is a record of what its units declare: class, deps, artifacts  *)
(* (of an image), runtime dependencies, containers, the unit, if any, that  *)
(* provides a name (a virtual name, or the name of an untagged unit that    *)
(* another one shadows), and the units whose edits the hash does not see.   *)
(***************************************************************************)
EXTENDS Naturals, FiniteSets, Sequences, SequencesExt

CONSTANTS Units, Virtuals, NoUnit,
          Rank         \* the order of the units' names

ASSUME GraphAssumption ==
    /\ IsFiniteSet(Units) /\ Units # {}
    /\ Units \intersect Virtuals = {} /\ NoUnit \notin Units
    /\ Rank \in [Units -> Nat]
    /\ \A u, v \in Units : Rank[u] = Rank[v] => u = v

(* ResolveProvidesForDistro, within one distro's view. *)
Resolve(p, n) == IF p.provides[n] # NoUnit THEN p.provides[n] ELSE n

(* appendContainerDeps: the container units a unit's tasks run in. *)
ContainerDeps(p, u) == ({Resolve(p, c) : c \in p.containers[u]} \intersect Units) \ {u}

\* Mutant: only the direct runtime dependencies are added.
RuntimeOnce(p, u, S) == S \union (((UNION {p.runtime[d] : d \in S \intersect Units}) \intersect Units) \ {u})

(* appendRuntimeClosureOfDeps: the units reachable from S over runtime      *)
(* dependencies, u itself left out.  It runs before virtual names are       *)
(* resolved, so it does not look behind one.                                *)
RuntimeClosure(p, u, S) ==
    LET grow[k \in 0 .. Cardinality(Units)] ==
          IF k = 0 THEN S
          ELSE grow[k - 1] \union
                 (((UNION {p.runtime[d] : d \in grow[k - 1] \intersect Units}) \intersect Units) \ {u})
    IN  grow[Cardinality(Units)]

(* BuildDAG's edges: names resolved, names without a unit dropped. *)
DagDeps(p, u) ==
    LET declared == p.deps[u] \union ContainerDeps(p, u)
                      \union (IF p.class[u] = "image" THEN p.artifacts[u] ELSE {})
        all == IF p.class[u] = "image" THEN declared ELSE RuntimeClosure(p, u, declared)
    IN  {Resolve(p, d) : d \in all} \intersect Units

Dag(p) == [u \in Units |-> DagDeps(p, u)]

First(S) == CHOOSE u \in S : \A v \in S : Rank[u] <= Rank[v]

\* Mutant: a unit is ready when one of its dependencies is in the order.
ReadyAny(g, done) == {u \in Units \ done : g[u] = {} \/ g[u] \intersect done # {}}

(* The queue of Kahn's algorithm: units whose dependencies are all in the   *)
(* order.                                                                   *)
ReadyUnits(g, done) == {u \in Units \ done : g[u] \subseteq done}

(* topologicalSort: it takes the first name of the queue until it is empty; *)
(* units are left over when there is a cycle.                               *)
TopologicalSort(g) ==
    LET order[k \in 0 .. Cardinality(Units)] ==
          IF k = 0 THEN <<>>
          ELSE LET queue == ReadyUnits(g, Range(order[k - 1]))
               IN  IF queue = {} THEN order[k - 1] ELSE Append(order[k - 1], First(queue))
    IN  order[Cardinality(Units)]

(* DepsOf, with the units themselves. *)
Reach(g, S) ==
    LET grow[k \in 0 .. Cardinality(Units)] ==
          IF k = 0 THEN S ELSE grow[k - 1] \union UNION {g[d] : d \in grow[k - 1]}
    IN  grow[Cardinality(Units)]

(* What the hash reads of the definitions: the fields and the commands, but *)
(* of a function that builds a unit only the name, and of a patch outside   *)
(* of the unit's files only the path: an edit inside of those (p.unread)    *)
(* leaves the hash as it was.                                               *)
Seen(p, def) == [u \in Units |-> IF u \in p.unread THEN 0 ELSE def[u]]

\* Mutant: the hash leaves the dependencies out.
HashOwn(u, seen, hashed) == <<u, seen, {}>>

(* UnitHash: the unit, what is read of its definition and the hashes of its *)
(* declared build dependencies that have one.                               *)
UnitHash(u, seen, hashed) == <<u, seen, hashed>>

(* ComputeAllHashes, in build order. *)
ComputeAllHashes(p, order, def) ==
    LET upto[k \in 0 .. Len(order)] ==
          IF k = 0 THEN [u \in {} |-> <<>>]
          ELSE LET h == upto[k - 1]
                   u == order[k]
                   deps == p.deps[u] \intersect DOMAIN h
               IN  [v \in DOMAIN h \union {u} |->
                      IF v = u THEN UnitHash(u, Seen(p, def)[u], {<<d, h[d]>> : d \in deps}) ELSE h[v]]
    IN  upto[Len(order)]

(* The DAG of a project: edges, memoized order, TransitiveDeps. *)
BuildDAG(p) ==
    LET g == Dag(p)
    IN  [deps |-> g, order |-> TopologicalSort(g), below |-> [u \in Units |-> Reach(g, g[u])]]

-----------------------------------------------------------------------------
(* Reference definitions. *)

(* No set of units is closed in on itself. *)
Acyclic(g) == \A S \in (SUBSET Units) \ {{}} : \E u \in S : g[u] \intersect S = {}

(* The smallest set that holds S and every dependency of its members. *)
Closure(g, S) ==
    {u \in Units : \A T \in SUBSET Units :
        (S \subseteq T /\ \A t \in T : g[t] \subseteq T) => u \in T}

=============================================================================
