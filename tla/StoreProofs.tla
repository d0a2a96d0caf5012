------------------------------ MODULE StoreProofs ------------------------------
(***************************************************************************)
(* Proofs about what a build keeps: the dependency graph and the build      *)
(* cache, for every set of units and every project; and the commands on the *)
(* local package repository, for every set of packages, directories and     *)
(* projects.                                                                *)
(***************************************************************************)
EXTENDS UnitCache, PackageRepo, Induction, FiniteSetTheorems, SequenceTheorems, TLAPS

Graphs == [Units -> SUBSET Units]

LEMMA CountUnits == IsFiniteSet(Units) /\ Cardinality(Units) \in Nat
BY GraphAssumption, FS_CardinalityType

-----------------------------------------------------------------------------
(* Closures *)

(* R is the least set that holds S and what its members depend on. *)
Least(g, S, R) ==
    /\ R \in SUBSET Units
    /\ S \subseteq R
    /\ \A v \in R : g[v] \subseteq R
    /\ \A T \in SUBSET Units : S \subseteq T /\ (\A t \in T : g[t] \subseteq T) => R \subseteq T

Grows(r, g, N) == \A n \in Nat : n < N => r[n + 1] = r[n] \union UNION {g[d] : d \in r[n]}

(* Adding what the members depend on, once per unit, ends in the least set  *)
(* that holds S and what its members depend on.                             *)
LEMMA GrowthSound ==
  ASSUME NEW g \in Graphs, NEW S \in SUBSET Units, NEW N \in Nat, N = Cardinality(Units), NEW r,
         r[0] = S, Grows(r, g, N)
  PROVE  Least(g, S, r[N])
<1> DEFINE V == SUBSET Units
           More(s) == s \union UNION {g[d] : d \in s}
<1>1. ASSUME NEW s \in V PROVE More(s) \in V
  BY <1>1 DEF Graphs
<1>7. r[0] = S /\ \A n \in Nat : n < N => r[n + 1] = More(r[n])
  BY DEF Grows
<1>8. \A n \in 0 .. N : r[n] \in V /\ S \subseteq r[n]
  <2> DEFINE P == {n \in Nat : r[n] \in V /\ S \subseteq r[n]}
  <2>1. 0 \in P
    BY <1>7
  <2>2. ASSUME NEW n \in Nat, n < N, n \in P PROVE n + 1 \in P
    <3>1. r[n] \in V /\ S \subseteq r[n] /\ r[n + 1] = More(r[n])
      BY <1>7, <2>2
    <3>2. r[n + 1] \in V
      BY <1>1, <3>1
    <3> QED
      BY <3>1, <3>2
  <2> HIDE DEF P
  <2>3. \A n \in 0 .. N : n \in P
    BY <2>1, <2>2, StepByStep
  <2> QED
    BY <2>3 DEF P
<1>9. ASSUME NEW T \in SUBSET Units, S \subseteq T, \A t \in T : g[t] \subseteq T
      PROVE  \A n \in 0 .. N : r[n] \subseteq T
  <2> DEFINE P == {n \in Nat : r[n] \subseteq T}
  <2>1. 0 \in P
    BY <1>7, <1>9
  <2>2. ASSUME NEW n \in Nat, n < N, n \in P PROVE n + 1 \in P
    <3>1. r[n] \subseteq T /\ r[n + 1] = More(r[n])
      BY <1>7, <2>2
    <3>2. More(r[n]) \subseteq T
      BY <1>9, <3>1
    <3> QED
      BY <3>1, <3>2
  <2> HIDE DEF P
  <2>3. \A n \in 0 .. N : n \in P
    BY <2>1, <2>2, StepByStep
  <2> QED
    BY <2>3 DEF P
<1> DEFINE Closed(s) == \A v \in s : g[v] \subseteq s
<1>10. \A n \in 0 .. N : Closed(r[n]) \/ Cardinality(r[n]) >= n
  <2> DEFINE P == {n \in Nat : n <= N /\ (Closed(r[n]) \/ Cardinality(r[n]) >= n)}
  <2>0. ASSUME NEW n \in 0 .. N PROVE IsFiniteSet(r[n]) /\ Cardinality(r[n]) \in Nat
    BY <1>8, <2>0, CountUnits, FS_Subset, FS_CardinalityType
  <2>1. 0 \in P
    <3>1. 0 \in 0 .. N
      OBVIOUS
    <3> QED
      BY <2>0, <3>1
  <2>2. ASSUME NEW n \in Nat, n < N, n \in P PROVE n + 1 \in P
    <3>0. n \in 0 .. N /\ n + 1 \in 0 .. N /\ n + 1 <= N
      BY <2>2
    <3>1. r[n] \in V /\ r[n + 1] = More(r[n]) /\ (Closed(r[n]) \/ Cardinality(r[n]) >= n)
      BY <1>7, <1>8, <2>2, <3>0
    <3>2. CASE Closed(r[n])
      <4>1. More(r[n]) = r[n]
        BY <3>2
      <4> QED
        BY <3>0, <3>1, <3>2, <4>1
    <3>3. CASE ~Closed(r[n]) /\ Cardinality(r[n]) >= n
      <4>1. PICK x \in UNION {g[v] : v \in r[n]} : x \notin r[n]
        BY <3>3
      <4>2. r[n] \union {x} \subseteq r[n + 1]
        BY <3>1, <4>1
      <4>3. Cardinality(r[n] \union {x}) = Cardinality(r[n]) + 1
        BY <2>0, <3>0, <4>1, FS_AddElement
      <4>4. Cardinality(r[n] \union {x}) <= Cardinality(r[n + 1])
        <5>1. r[n] \union {x} \in SUBSET r[n + 1]
          BY <4>2
        <5> QED
          BY <2>0, <3>0, <5>1, FS_Subset
      <4>5. Cardinality(r[n + 1]) >= n + 1
        <5>1. Cardinality(r[n]) \in Nat /\ Cardinality(r[n + 1]) \in Nat
          BY <2>0, <3>0
        <5> QED
          BY <3>3, <4>3, <4>4, <5>1
      <4> QED
        BY <3>0, <4>5
    <3> QED
      BY <3>1, <3>2, <3>3
  <2> HIDE DEF P
  <2>3. \A n \in 0 .. N : n \in P
    BY <2>1, <2>2, StepByStep
  <2> QED
    BY <2>3 DEF P
<1>11. N \in 0 .. N
  OBVIOUS
<1>12. Closed(r[N])
  <2>1. CASE Cardinality(r[N]) >= N
    <3>1. r[N] \in SUBSET Units
      BY <1>8, <1>11
    <3>2. Cardinality(r[N]) <= Cardinality(Units) /\ Cardinality(r[N]) \in Nat /\ (Cardinality(r[N]) = Cardinality(Units) => Units = r[N])
      BY <3>1, CountUnits, FS_Subset, FS_CardinalityType
    <3>3. r[N] = Units
      BY <2>1, <3>2
    <3> QED
      BY <3>3 DEF Graphs
  <2> QED
    BY <1>10, <1>11, <2>1
<1> QED
  BY <1>8, <1>9, <1>11, <1>12 DEF Least

(* Reach is the least set that holds S and what its members depend on.      *)
LEMMA ReachSound ==
  ASSUME NEW g \in Graphs, NEW S \in SUBSET Units
  PROVE  /\ Reach(g, S) \in SUBSET Units
         /\ S \subseteq Reach(g, S)
         /\ \A v \in Reach(g, S) : g[v] \subseteq Reach(g, S)
         /\ \A T \in SUBSET Units : S \subseteq T /\ (\A t \in T : g[t] \subseteq T) => Reach(g, S) \subseteq T
<1>n. PICK N \in Nat : N = Cardinality(Units)
  BY CountUnits
<1> DEFINE V == SUBSET Units
           More(s) == s \union UNION {g[d] : d \in s}
           IsGrow(f) == f = [k \in 0 .. N |-> IF k = 0 THEN S ELSE f[k - 1] \union UNION {g[d] : d \in f[k - 1]}]
<1>1. ASSUME NEW s \in V PROVE More(s) \in V
  BY <1>1 DEF Graphs
<1>2. PICK D \in [V \X Nat -> V] : \A s \in V, n \in Nat : D[<<s, n>>] = More(s)
  <2>1. PICK D : D = [p \in V \X Nat |-> More(p[1])]
    OBVIOUS
  <2> HIDE DEF V, More
  <2> QED
    BY <1>1, <2>1
<1>3. PICK f : Unrolls(f, V, S, D, N)
  BY Recursion
<1>4. f \in [0 .. N -> V] /\ \A n \in 0 .. N : f[n] = IF n = 0 THEN S ELSE D[<<f[n - 1], n>>]
  BY <1>3 DEF Unrolls
<1>5. IsGrow(f)
  <2>1. ASSUME NEW n \in 0 .. N PROVE f[n] = IF n = 0 THEN S ELSE f[n - 1] \union UNION {g[d] : d \in f[n - 1]}
    <3>1. CASE n = 0
      BY <1>4, <3>1
    <3>2. CASE n # 0
      <4>1. n \in Nat /\ n - 1 \in 0 .. N
        BY <3>2
      <4>2. f[n] = More(f[n - 1])
        BY <1>2, <1>4, <3>2, <4>1
      <4> QED
        BY <3>2, <4>2
    <3> QED
      BY <3>1, <3>2
  <2> QED
    BY <1>4, <2>1
<1>6. PICK r : IsGrow(r) /\ Reach(g, S) = r[N]
  BY <1>n, <1>5 DEF Reach
<1>7. r[0] = S /\ \A n \in Nat : n < N => r[n + 1] = More(r[n])
  <2>1. r[0] = S
    BY <1>6
  <2>2. ASSUME NEW n \in Nat, n < N PROVE r[n + 1] = More(r[n])
    <3>1. n + 1 \in 0 .. N /\ n + 1 # 0 /\ (n + 1) - 1 = n
      BY <2>2
    <3> QED
      BY <1>6, <3>1
  <2> QED
    BY <2>1, <2>2
<1> HIDE DEF IsGrow
<1>8. Grows(r, g, N)
  BY <1>7 DEF Grows
<1>9. Least(g, S, r[N])
  BY <1>n, <1>7, <1>8, GrowthSound
<1> QED
  BY <1>6, <1>9 DEF Least

RunsOn(p, u, s) == ((UNION {p.runtime[d] : d \in s \intersect Units}) \intersect Units) \ {u}

(* appendRuntimeClosureOfDeps ends with a set that holds the dependencies   *)
(* it was given and what the units among them run on, but for u itself.     *)
LEMMA RuntimeSound ==
  ASSUME NEW p, NEW u, NEW S
  PROVE  /\ S \subseteq RuntimeClosure(p, u, S)
         /\ \A d \in RuntimeClosure(p, u, S) \intersect Units :
              (p.runtime[d] \intersect Units) \ {u} \subseteq RuntimeClosure(p, u, S)
<1>n. PICK N \in Nat : N = Cardinality(Units)
  BY CountUnits
<1>g. PICK g \in Graphs : \A d \in Units : g[d] = (p.runtime[d] \intersect Units) \ {u}
  <2>1. PICK g : g = [d \in Units |-> (p.runtime[d] \intersect Units) \ {u}]
    OBVIOUS
  <2> QED
    BY <2>1 DEF Graphs
<1> DEFINE V == SUBSET (S \union Units)
           More(s) == s \union RunsOn(p, u, s)
           IsGrow(f) == f = [k \in 0 .. N |-> IF k = 0 THEN S ELSE f[k - 1] \union RunsOn(p, u, f[k - 1])]
<1>0. \A s : RunsOn(p, u, s) \subseteq Units
  BY DEF RunsOn
<1>1. ASSUME NEW s \in V PROVE More(s) \in V
  BY <1>0, <1>1
<1>2. PICK D \in [V \X Nat -> V] : \A s \in V, n \in Nat : D[<<s, n>>] = More(s)
  <2>1. PICK D : D = [x \in V \X Nat |-> More(x[1])]
    OBVIOUS
  <2> HIDE DEF V, More
  <2> QED
    BY <1>1, <2>1
<1>3. PICK f : Unrolls(f, V, S, D, N)
  <2>1. S \in V
    OBVIOUS
  <2> HIDE DEF V
  <2> QED
    BY <2>1, Recursion
<1>4. f \in [0 .. N -> V] /\ \A n \in 0 .. N : f[n] = IF n = 0 THEN S ELSE D[<<f[n - 1], n>>]
  BY <1>3 DEF Unrolls
<1>5. IsGrow(f)
  <2>1. ASSUME NEW n \in 0 .. N PROVE f[n] = IF n = 0 THEN S ELSE More(f[n - 1])
    <3>1. CASE n = 0
      BY <1>4, <3>1
    <3>2. CASE n # 0
      <4>1. n \in Nat /\ n - 1 \in 0 .. N
        BY <3>2
      <4>2. f[n] = More(f[n - 1])
        <5> HIDE DEF V, More
        <5> QED
          BY <1>2, <1>4, <3>2, <4>1
      <4> QED
        BY <3>2, <4>2
    <3> QED
      BY <3>1, <3>2
  <2> QED
    BY <1>4, <2>1
<1>6. PICK e : IsGrow(e) /\ RuntimeClosure(p, u, S) = e[N]
  BY <1>n, <1>5 DEF RuntimeClosure, RunsOn
<1>7. e[0] = S /\ \A n \in Nat : n < N => e[n + 1] = More(e[n])
  <2>1. e[0] = S
    BY <1>6
  <2>2. ASSUME NEW n \in Nat, n < N PROVE e[n + 1] = More(e[n])
    <3>1. n + 1 \in 0 .. N /\ n + 1 # 0 /\ (n + 1) - 1 = n
      BY <2>2
    <3> QED
      BY <1>6, <3>1
  <2> QED
    BY <2>1, <2>2
<1> HIDE DEF IsGrow
<1>8. \A n \in 0 .. N : S \subseteq e[n]
  <2> DEFINE P == {n \in Nat : S \subseteq e[n]}
  <2>1. 0 \in P
    BY <1>7
  <2>2. ASSUME NEW n \in Nat, n < N, n \in P PROVE n + 1 \in P
    BY <1>7, <2>2
  <2> HIDE DEF P
  <2>3. \A n \in 0 .. N : n \in P
    BY <2>1, <2>2, StepByStep
  <2> QED
    BY <2>3 DEF P
(* The units in it grow along g. *)
<1>9. PICK r : r = [k \in 0 .. N |-> e[k] \intersect Units]
  OBVIOUS
<1>10. Grows(r, g, N)
  <2>1. ASSUME NEW n \in Nat, n < N PROVE r[n + 1] = r[n] \union UNION {g[d] : d \in r[n]}
    <3>1. n \in 0 .. N /\ n + 1 \in 0 .. N
      BY <2>1
    <3>2. r[n] = e[n] \intersect Units /\ r[n + 1] = More(e[n]) \intersect Units
      BY <1>7, <1>9, <2>1, <3>1
    <3>3. UNION {g[d] : d \in r[n]} = RunsOn(p, u, e[n])
      <4>1. ASSUME NEW x PROVE x \in UNION {g[d] : d \in r[n]} <=> \E d \in r[n] : x \in g[d]
        OBVIOUS
      <4>2. ASSUME NEW x PROVE x \in RunsOn(p, u, e[n]) <=> (\E d \in r[n] : x \in p.runtime[d]) /\ x \in Units /\ x # u
        BY <3>2 DEF RunsOn
      <4>3. \A d \in r[n] : g[d] = (p.runtime[d] \intersect Units) \ {u}
        BY <1>g, <3>2
      <4>4. PICK S1 : S1 = UNION {g[d] : d \in r[n]}
        OBVIOUS
      <4>5. PICK S2 : S2 = RunsOn(p, u, e[n])
        OBVIOUS
      <4>6. ASSUME NEW x PROVE x \in S1 <=> \E d \in r[n] : x \in g[d]
        BY <4>1, <4>4
      <4>7. ASSUME NEW x PROVE x \in S2 <=> (\E d \in r[n] : x \in p.runtime[d]) /\ x \in Units /\ x # u
        BY <4>2, <4>5
      <4>8. ASSUME NEW x PROVE x \in S1 <=> x \in S2
        <5>1. ASSUME NEW d \in r[n] PROVE x \in g[d] <=> x \in p.runtime[d] /\ x \in Units /\ x # u
          BY ONLY <4>3
        <5> QED
          BY ONLY <4>6, <4>7, <5>1, Zenon
      <4>9. S1 = S2
        BY ONLY <4>8
      <4> QED
        BY <4>4, <4>5, <4>9
    <3> QED
      BY <1>0, <3>2, <3>3
  <2> QED
    BY <2>1 DEF Grows
<1>11. 0 \in 0 .. N /\ N \in 0 .. N
  BY ONLY N \in Nat
<1>12. \A d \in r[N] : g[d] \subseteq r[N]
  <2>1. PICK T \in SUBSET Units : T = S \intersect Units
    OBVIOUS
  <2>2. r[0] = T
    BY <1>7, <1>9, <1>11, <2>1
  <2> QED
    BY <1>n, <1>10, <2>2, GrowthSound DEF Least
<1>13. r[N] = e[N] \intersect Units
  BY <1>9, <1>11
<1>14. ASSUME NEW d \in e[N] \intersect Units PROVE (p.runtime[d] \intersect Units) \ {u} \subseteq e[N]
  BY <1>g, <1>12, <1>13
<1>15. S \subseteq e[N]
  BY <1>8, <1>11
<1> QED
  BY <1>6, <1>14, <1>15

-----------------------------------------------------------------------------
(* The build order *)

Prefix(o, n) == {o[j] : j \in 1 .. n}

(* Every unit once, after what it depends on. *)
Topo(g, o) ==
    /\ o \in Seq(Units)
    /\ Cardinality(Range(o)) = Len(o)
    /\ \A i, j \in 1 .. Len(o) : o[i] = o[j] => i = j
    /\ \A i \in 1 .. Len(o) : g[o[i]] \subseteq Prefix(o, i - 1)

LEMMA FirstReady == ASSUME NEW S \in SUBSET Units, S # {} PROVE First(S) \in S
<1>1. PICK R \in SUBSET Nat : R = {Rank[u] : u \in S}
  BY GraphAssumption
<1>2. PICK x \in R : \A y \in R : x <= y
  <2>1. R # {}
    BY <1>1
  <2> QED
    BY <2>1, LeastExists
<1>3. PICK u \in S : Rank[u] = x
  BY <1>1, <1>2
<1>4. \A v \in S : Rank[u] <= Rank[v]
  BY <1>1, <1>2, <1>3
<1> QED
  BY <1>4 DEF First

LEMMA RangeOf == ASSUME NEW o \in Seq(Units) PROVE Range(o) = Prefix(o, Len(o)) /\ Range(o) \in SUBSET Units
BY DEF Range, Prefix

LEMMA AppendTopo ==
  ASSUME NEW g \in Graphs, NEW o, Topo(g, o), NEW u \in ReadyUnits(g, Range(o))
  PROVE  Topo(g, Append(o, u)) /\ Len(Append(o, u)) = Len(o) + 1
<1>0. o \in Seq(Units) /\ Len(o) \in Nat /\ u \in Units /\ u \notin Range(o) /\ g[u] \subseteq Range(o)
  BY DEF Topo, ReadyUnits
<1>1. PICK t : t = Append(o, u)
  OBVIOUS
<1>2. /\ t \in Seq(Units) /\ Len(t) = Len(o) + 1 /\ t[Len(o) + 1] = u
      /\ \A i \in 1 .. Len(o) : t[i] = o[i]
  BY <1>0, <1>1, AppendProperties
<1>3. ASSUME NEW n \in 0 .. Len(o) PROVE Prefix(t, n) = Prefix(o, n)
  <2>1. \A j \in 1 .. n : j \in 1 .. Len(o)
    BY <1>0
  <2> QED
    BY <1>2, <2>1 DEF Prefix
<1>4. Range(t) = Range(o) \union {u}
  <2>1. 1 .. Len(t) = 1 .. Len(o) \union {Len(o) + 1}
    BY <1>0, <1>2
  <2>2. Prefix(t, Len(t)) = Prefix(o, Len(o)) \union {u}
    BY <1>2, <2>1 DEF Prefix
  <2> QED
    BY <1>0, <1>2, <2>2, RangeOf
<1>5. Cardinality(Range(t)) = Len(t)
  <2>1. IsFiniteSet(Range(o))
    BY <1>0, RangeOf, CountUnits, FS_Subset
  <2>2. Cardinality(Range(o) \union {u}) = Cardinality(Range(o)) + 1
    BY <1>0, <2>1, FS_AddElement
  <2> QED
    BY <1>2, <1>4, <2>2 DEF Topo
<1>6. ASSUME NEW i \in 1 .. Len(t), NEW j \in 1 .. Len(t), t[i] = t[j] PROVE i = j
  <2>1. \A k \in 1 .. Len(o) : o[k] # u
    BY <1>0, RangeOf DEF Prefix
  <2>2. i \in 1 .. Len(o) \/ i = Len(o) + 1
    BY <1>0, <1>2
  <2>3. j \in 1 .. Len(o) \/ j = Len(o) + 1
    BY <1>0, <1>2
  <2> QED
    BY <1>2, <1>6, <2>1, <2>2, <2>3 DEF Topo
<1>7. ASSUME NEW i \in 1 .. Len(t) PROVE g[t[i]] \subseteq Prefix(t, i - 1)
  <2>1. CASE i \in 1 .. Len(o)
    <3>1. i - 1 \in 0 .. Len(o)
      BY <1>0, <2>1
    <3> QED
      BY <1>2, <1>3, <2>1, <3>1 DEF Topo
  <2>2. CASE i = Len(o) + 1
    <3>1. i - 1 = Len(o) /\ Len(o) \in 0 .. Len(o)
      BY <1>0, <2>2
    <3> QED
      BY <1>0, <1>2, <1>3, <2>2, <3>1, RangeOf
  <2>3. i \in 1 .. Len(o) \/ i = Len(o) + 1
    BY <1>0, <1>2
  <2> QED
    BY <2>1, <2>2, <2>3
<1> QED
  BY <1>1, <1>2, <1>5, <1>6, <1>7 DEF Topo

(* topologicalSort yields a topological order, and stops only when no unit  *)
(* that is left has all its dependencies in the order.                      *)
LEMMA SortSound ==
  ASSUME NEW g \in Graphs
  PROVE  Topo(g, TopologicalSort(g)) /\ ReadyUnits(g, Range(TopologicalSort(g))) = {}
<1>n. PICK N \in Nat : N = Cardinality(Units)
  BY CountUnits
<1> DEFINE V == {s \in Seq(Units) : Topo(g, s)}
           Queue(s) == ReadyUnits(g, Range(s))
           Kahn(s) == IF Queue(s) = {} THEN s ELSE Append(s, First(Queue(s)))
           IsSort(f) == f = [k \in 0 .. N |-> IF k = 0 THEN <<>>
                                ELSE IF ReadyUnits(g, Range(f[k - 1])) = {} THEN f[k - 1]
                                     ELSE Append(f[k - 1], First(ReadyUnits(g, Range(f[k - 1]))))]
<1>1. <<>> \in V
  <2>1. Range(<<>>) = {} /\ Len(<<>>) = 0 /\ <<>> \in Seq(Units)
    BY DEF Range
  <2>2. Cardinality(Range(<<>>)) = 0
    BY <2>1, FS_EmptySet
  <2> QED
    BY <2>1, <2>2 DEF Topo
<1>2. ASSUME NEW s \in V PROVE Kahn(s) \in V /\ (Queue(s) # {} => Len(Kahn(s)) = Len(s) + 1)
  <2>1. CASE Queue(s) = {}
    BY <1>2, <2>1
  <2>2. CASE Queue(s) # {}
    <3>1. First(Queue(s)) \in Queue(s)
      <4>1. Queue(s) \in SUBSET Units
        BY DEF ReadyUnits
      <4> QED
        BY <2>2, <4>1, FirstReady
    <3>2. PICK u \in ReadyUnits(g, Range(s)) : u = First(Queue(s))
      BY <3>1
    <3>3. Topo(g, Append(s, u)) /\ Len(Append(s, u)) = Len(s) + 1
      BY <1>2, AppendTopo
    <3>4. Append(s, u) \in Seq(Units)
      BY <3>3 DEF Topo
    <3> QED
      BY <2>2, <3>2, <3>3, <3>4
  <2> QED
    BY <2>1, <2>2
<1>3. PICK D \in [V \X Nat -> V] : \A s \in V, n \in Nat : D[<<s, n>>] = Kahn(s)
  <2>1. PICK D : D = [p \in V \X Nat |-> Kahn(p[1])]
    OBVIOUS
  <2> HIDE DEF V, Kahn
  <2> QED
    BY <1>2, <2>1
<1> HIDE DEF V
<1>4. PICK f : Unrolls(f, V, <<>>, D, N)
  BY <1>1, Recursion
<1>5. f \in [0 .. N -> V] /\ \A n \in 0 .. N : f[n] = IF n = 0 THEN <<>> ELSE D[<<f[n - 1], n>>]
  BY <1>4 DEF Unrolls
<1>6. IsSort(f)
  <2>1. ASSUME NEW n \in 0 .. N PROVE f[n] = IF n = 0 THEN <<>> ELSE Kahn(f[n - 1])
    <3>1. CASE n = 0
      BY <1>5, <3>1
    <3>2. CASE n # 0
      <4>1. n \in Nat /\ n - 1 \in 0 .. N
        BY <3>2
      <4>2. f[n] = Kahn(f[n - 1])
        BY <1>3, <1>5, <3>2, <4>1
      <4> QED
        BY <3>2, <4>2
    <3> QED
      BY <3>1, <3>2
  <2> QED
    BY <1>5, <2>1
<1>7. PICK r : IsSort(r) /\ TopologicalSort(g) = r[N]
  BY <1>n, <1>6 DEF TopologicalSort
<1>8. r[0] = <<>> /\ \A n \in Nat : n < N => r[n + 1] = Kahn(r[n])
  <2>1. r[0] = <<>>
    BY <1>7
  <2>2. ASSUME NEW n \in Nat, n < N PROVE r[n + 1] = Kahn(r[n])
    <3>1. n + 1 \in 0 .. N /\ n + 1 # 0 /\ (n + 1) - 1 = n
      BY <2>2
    <3> QED
      BY <1>7, <3>1
  <2> QED
    BY <2>1, <2>2
<1> HIDE DEF IsSort, Kahn, Queue
<1>9. \A n \in 0 .. N : r[n] \in V /\ (Queue(r[n]) = {} \/ Len(r[n]) = n)
  <2> DEFINE P == {n \in Nat : r[n] \in V /\ (Queue(r[n]) = {} \/ Len(r[n]) = n)}
  <2>1. 0 \in P
    BY <1>1, <1>8
  <2>2. ASSUME NEW n \in Nat, n < N, n \in P PROVE n + 1 \in P
    <3>1. r[n] \in V /\ r[n + 1] = Kahn(r[n])
      BY <1>8, <2>2
    <3>2. CASE Queue(r[n]) = {}
      BY <3>1, <3>2 DEF Kahn
    <3>3. CASE Queue(r[n]) # {}
      BY <1>2, <2>2, <3>1, <3>3
    <3> QED
      BY <3>2, <3>3
  <2> HIDE DEF P
  <2>3. \A n \in 0 .. N : n \in P
    BY <2>1, <2>2, StepByStep
  <2> QED
    BY <2>3 DEF P
<1>10. Topo(g, r[N]) /\ (Queue(r[N]) = {} \/ Len(r[N]) = N)
  <2>1. N \in 0 .. N
    OBVIOUS
  <2> QED
    BY <1>9, <2>1 DEF V
<1>11. CASE Len(r[N]) = N
  <2>1. Range(r[N]) \in SUBSET Units /\ Cardinality(Range(r[N])) = Cardinality(Units)
    BY <1>n, <1>10, <1>11, RangeOf DEF Topo
  <2>2. Range(r[N]) = Units
    BY <2>1, CountUnits, FS_Subset
  <2> QED
    BY <1>7, <1>10, <2>2 DEF ReadyUnits
<1> QED
  BY <1>7, <1>10, <1>11 DEF Queue

-----------------------------------------------------------------------------
(* Hashes and artifacts: both give every unit, in build order, a record of  *)
(* its definition and of what units before it were given.                   *)

NoLayer == [u \in {} |-> <<>>]
Layer(m, u, d, s) == [v \in DOMAIN m \union {u} |-> IF v = u THEN <<u, d, {<<x, m[x]>> : x \in s}>> ELSE m[v]]
Layers(f, o, def0, nb, n) ==
    f = [k \in 0 .. n |-> IF k = 0 THEN NoLayer ELSE Layer(f[k - 1], o[k], def0[o[k]], nb[k])]

LEMMA LayersExist ==
  ASSUME NEW o, NEW def0, NEW nb, NEW N \in Nat
  PROVE  \E f : Layers(f, o, def0, nb, N)
<1> DEFINE P == {n \in Nat : \E f : Layers(f, o, def0, nb, n)}
<1>1. 0 \in P
  <2>1. PICK f : f = [k \in 0 .. 0 |-> NoLayer]
    OBVIOUS
  <2>2. Layers(f, o, def0, nb, 0)
    BY <2>1 DEF Layers
  <2> QED
    BY <2>2
<1>2. ASSUME NEW n \in Nat, n \in P PROVE n + 1 \in P
  <2>1. PICK g : Layers(g, o, def0, nb, n)
    BY <1>2
  <2>2. PICK x : x = Layer(g[n], o[n + 1], def0[o[n + 1]], nb[n + 1])
    OBVIOUS
  <2>3. PICK f : f = [k \in 0 .. n + 1 |-> IF k = n + 1 THEN x ELSE g[k]]
    OBVIOUS
  <2>4. ASSUME NEW k \in 0 .. n + 1
        PROVE  f[k] = IF k = 0 THEN NoLayer ELSE Layer(f[k - 1], o[k], def0[o[k]], nb[k])
    <3>1. CASE k = n + 1
      <4>1. n \in 0 .. n + 1 /\ n # n + 1 /\ (n + 1) - 1 = n /\ n + 1 # 0
        OBVIOUS
      <4>2. f[k] = x /\ f[k - 1] = g[n]
        BY <2>3, <3>1, <4>1
      <4> QED
        BY <2>2, <3>1, <4>1, <4>2
    <3>2. CASE k # n + 1
      <4>1. k \in 0 .. n /\ (k # 0 => k - 1 \in 0 .. n + 1 /\ k - 1 # n + 1)
        BY <3>2
      <4>2. g[k] = IF k = 0 THEN NoLayer ELSE Layer(g[k - 1], o[k], def0[o[k]], nb[k])
        BY <2>1, <4>1 DEF Layers
      <4>3. f[k] = g[k] /\ (k # 0 => f[k - 1] = g[k - 1])
        BY <2>3, <3>2, <4>1
      <4> QED
        BY <4>2, <4>3
    <3> QED
      BY <3>1, <3>2
  <2>5. Layers(f, o, def0, nb, n + 1)
    BY <2>3, <2>4 DEF Layers
  <2> QED
    BY <2>5
<1> HIDE DEF P
<1>3. \A n \in 0 .. N : n \in P
  BY <1>1, <1>2, StepByStep
<1>4. N \in 0 .. N
  OBVIOUS
<1> QED
  BY <1>3, <1>4 DEF P

(* The last layer has every unit's record over the final records of the     *)
(* units before it.                                                         *)
LEMMA LayersSound ==
  ASSUME NEW g \in Graphs, NEW o, Topo(g, o), NEW def0, NEW nb, NEW f, Layers(f, o, def0, nb, Len(o)),
         \A k \in 1 .. Len(o) : nb[k] \subseteq Prefix(o, k - 1)
  PROVE  \A n \in 0 .. Len(o) :
            /\ DOMAIN f[n] = Prefix(o, n)
            /\ \A k \in 1 .. n : f[n][o[k]] = <<o[k], def0[o[k]], {<<x, f[n][x]>> : x \in nb[k]}>>
<1>n. PICK N \in Nat : N = Len(o)
  BY DEF Topo
<1>0. /\ \A i, j \in 1 .. N : o[i] = o[j] => i = j
      /\ \A k \in 1 .. N : nb[k] \subseteq Prefix(o, k - 1)
  BY <1>n DEF Topo
<1>1. f[0] = NoLayer /\ \A n \in Nat : n < N => f[n + 1] = Layer(f[n], o[n + 1], def0[o[n + 1]], nb[n + 1])
  <2>1. \A k \in 0 .. N : f[k] = IF k = 0 THEN NoLayer ELSE Layer(f[k - 1], o[k], def0[o[k]], nb[k])
    BY <1>n DEF Layers
  <2>2. ASSUME NEW n \in Nat, n < N PROVE f[n + 1] = Layer(f[n], o[n + 1], def0[o[n + 1]], nb[n + 1])
    <3>1. n + 1 \in 0 .. N /\ n + 1 # 0 /\ (n + 1) - 1 = n
      BY <2>2
    <3> QED
      BY <2>1, <3>1
  <2>3. f[0] = NoLayer
    BY <2>1
  <2> QED
    BY <2>2, <2>3
<1> DEFINE Rec(n, k) == f[n][o[k]] = <<o[k], def0[o[k]], {<<x, f[n][x]>> : x \in nb[k]}>>
           P == {n \in Nat : n <= N /\ DOMAIN f[n] = Prefix(o, n) /\ \A k \in 1 .. n : Rec(n, k)}
<1>2. 0 \in P
  BY <1>1 DEF NoLayer, Prefix
<1>3. ASSUME NEW n \in Nat, n < N, n \in P PROVE n + 1 \in P
  <2>0. n + 1 \in 1 .. N /\ n \in 0 .. N /\ (n + 1) - 1 = n /\ n + 1 <= N
    BY <1>3
  <2>1. /\ DOMAIN f[n] = Prefix(o, n) /\ \A k \in 1 .. n : Rec(n, k)
        /\ f[n + 1] = Layer(f[n], o[n + 1], def0[o[n + 1]], nb[n + 1])
    BY <1>1, <1>3
  <2>2. DOMAIN f[n + 1] = Prefix(o, n + 1)
    <3>1. 1 .. n + 1 = 1 .. n \union {n + 1}
      OBVIOUS
    <3>2. Prefix(o, n + 1) = Prefix(o, n) \union {o[n + 1]}
      BY <3>1 DEF Prefix
    <3> QED
      BY <2>1, <3>2 DEF Layer
  <2>3. o[n + 1] \notin Prefix(o, n)
    <3>1. \A j \in 1 .. n : j \in 1 .. N /\ j # n + 1
      BY <1>3
    <3> QED
      BY <1>0, <2>0, <3>1 DEF Prefix
  <2>4. \A x \in Prefix(o, n) : f[n + 1][x] = f[n][x]
    BY <2>1, <2>3 DEF Layer
  <2>5. f[n + 1][o[n + 1]] = <<o[n + 1], def0[o[n + 1]], {<<x, f[n][x]>> : x \in nb[n + 1]}>>
    BY <2>1 DEF Layer
  <2>6. ASSUME NEW k \in 1 .. n + 1 PROVE nb[k] \subseteq Prefix(o, n)
    <3>1. k \in 1 .. N /\ k - 1 <= n
      BY <1>3
    <3>2. Prefix(o, k - 1) \subseteq Prefix(o, n)
      <4>1. \A j \in 1 .. k - 1 : j \in 1 .. n
        BY <3>1
      <4> QED
        BY <4>1 DEF Prefix
    <3> QED
      BY <1>0, <3>1, <3>2
  <2>7. ASSUME NEW k \in 1 .. n + 1 PROVE Rec(n + 1, k)
    <3>1. {<<x, f[n + 1][x]>> : x \in nb[k]} = {<<x, f[n][x]>> : x \in nb[k]}
      BY <2>4, <2>6
    <3>2. CASE k = n + 1
      BY <2>5, <3>1, <3>2
    <3>3. CASE k # n + 1
      <4>1. k \in 1 .. n
        BY <3>3
      <4>2. o[k] \in Prefix(o, n)
        BY <4>1 DEF Prefix
      <4>3. Rec(n, k)
        BY <2>1, <4>1
      <4> QED
        BY <2>4, <3>1, <4>2, <4>3
    <3> QED
      BY <3>2, <3>3
  <2> QED
    BY <2>0, <2>2, <2>7
<1> HIDE DEF P
<1>4. \A n \in 0 .. N : n \in P
  BY <1>2, <1>3, StepByStep
<1> QED
  BY <1>n, <1>4 DEF P

(* UnitHash of a unit covers what is read of it and the final hashes of the *)
(* declared dependencies that come before it.                               *)
LEMMA HashRecord ==
  ASSUME NEW g \in Graphs, NEW o, Topo(g, o), NEW p, NEW def0, NEW h, h = ComputeAllHashes(p, o, def0)
  PROVE  \A k \in 1 .. Len(o) :
            h[o[k]] = <<o[k], Seen(p, def0)[o[k]], {<<x, h[x]>> : x \in p.deps[o[k]] \intersect Prefix(o, k - 1)}>>
<1>n. PICK N \in Nat : N = Len(o)
  BY DEF Topo
<1>e. PICK E : E = Seen(p, def0)
  OBVIOUS
<1>1. PICK nb : nb = [k \in 1 .. N |-> p.deps[o[k]] \intersect Prefix(o, k - 1)]
  OBVIOUS
<1>2. \A k \in 1 .. Len(o) : nb[k] \subseteq Prefix(o, k - 1)
  BY <1>n, <1>1
<1> DEFINE Step(m, u) == Layer(m, u, E[u], p.deps[u] \intersect DOMAIN m)
           IsHash(f) == f = [k \in 0 .. N |-> IF k = 0 THEN NoLayer ELSE Step(f[k - 1], o[k])]
<1>3. PICK f : Layers(f, o, E, nb, N)
  BY LayersExist
<1>4. \A n \in 0 .. N : DOMAIN f[n] = Prefix(o, n)
  BY <1>n, <1>2, <1>3, LayersSound
<1>5. IsHash(f)
  <2>1. ASSUME NEW k \in 0 .. N PROVE f[k] = IF k = 0 THEN NoLayer ELSE Step(f[k - 1], o[k])
    <3>1. CASE k = 0
      BY <1>3, <3>1 DEF Layers
    <3>2. CASE k # 0
      <4>1. k \in 1 .. N /\ k - 1 \in 0 .. N
        BY <3>2
      <4>2. nb[k] = p.deps[o[k]] \intersect DOMAIN f[k - 1]
        BY <1>1, <1>4, <4>1
      <4>3. f[k] = Layer(f[k - 1], o[k], E[o[k]], nb[k])
        BY <1>3, <3>2, <4>1 DEF Layers
      <4> QED
        BY <3>2, <4>2, <4>3
    <3> QED
      BY <3>1, <3>2
  <2>2. f = [k \in 0 .. N |-> f[k]]
    BY <1>3 DEF Layers
  <2> QED
    BY <2>1, <2>2
<1>6. PICK r : IsHash(r) /\ h = r[N]
  <2>1. \A e : IsHash(e) <=> e = [k \in 0 .. Len(o) |->
            IF k = 0 THEN [u \in {} |-> <<>>]
            ELSE [v \in DOMAIN e[k - 1] \union {o[k]} |->
                    IF v = o[k] THEN <<o[k], Seen(p, def0)[o[k]], {<<d, e[k - 1][d]>> : d \in p.deps[o[k]] \intersect DOMAIN e[k - 1]}>>
                    ELSE e[k - 1][v]]]
    BY <1>n, <1>e DEF Layer, NoLayer
  <2> HIDE DEF IsHash
  <2> QED
    BY <1>n, <1>5, <2>1, ZenonT(40) DEF ComputeAllHashes, UnitHash
<1>7. r[0] = NoLayer /\ \A n \in Nat : n < N => r[n + 1] = Step(r[n], o[n + 1])
  <2> HIDE DEF Step
  <2>1. r[0] = NoLayer
    BY <1>6
  <2>2. ASSUME NEW n \in Nat, n < N PROVE r[n + 1] = Step(r[n], o[n + 1])
    <3>1. n + 1 \in 0 .. N /\ n + 1 # 0 /\ (n + 1) - 1 = n
      BY <2>2
    <3> QED
      BY <1>6, <3>1
  <2> QED
    BY <2>1, <2>2
<1>8. \A n \in 0 .. N : DOMAIN r[n] = Prefix(o, n)
  <2> DEFINE P == {n \in Nat : DOMAIN r[n] = Prefix(o, n)}
  <2>1. 0 \in P
    BY <1>7 DEF NoLayer, Prefix
  <2>2. ASSUME NEW n \in Nat, n < N, n \in P PROVE n + 1 \in P
    <3>1. 1 .. n + 1 = 1 .. n \union {n + 1}
      OBVIOUS
    <3>2. Prefix(o, n + 1) = Prefix(o, n) \union {o[n + 1]}
      BY <3>1 DEF Prefix
    <3>3. DOMAIN r[n + 1] = DOMAIN r[n] \union {o[n + 1]}
      BY <1>7, <2>2, ZenonT(40) DEF Layer
    <3> QED
      BY <2>2, <3>2, <3>3
  <2> HIDE DEF P
  <2>3. \A n \in 0 .. N : n \in P
    BY <2>1, <2>2, StepByStep
  <2> QED
    BY <2>3 DEF P
<1>9. Layers(r, o, E, nb, N)
  <2>1. ASSUME NEW k \in 0 .. N PROVE r[k] = IF k = 0 THEN NoLayer ELSE Layer(r[k - 1], o[k], E[o[k]], nb[k])
    <3>1. CASE k = 0
      BY <1>7, <3>1
    <3>2. CASE k # 0
      <4>1. k \in 1 .. N /\ k - 1 \in 0 .. N
        BY <3>2
      <4>2. nb[k] = p.deps[o[k]] \intersect DOMAIN r[k - 1]
        BY <1>1, <1>8, <4>1
      <4>3. r[k] = Step(r[k - 1], o[k])
        BY <1>6, <3>2
      <4> QED
        BY <3>2, <4>2, <4>3
    <3> QED
      BY <3>1, <3>2
  <2>2. r = [k \in 0 .. N |-> r[k]]
    BY <1>6
  <2> QED
    BY <2>1, <2>2 DEF Layers
<1>10. \A k \in 1 .. N : r[N][o[k]] = <<o[k], E[o[k]], {<<x, r[N][x]>> : x \in nb[k]}>>
  <2>1. N \in 0 .. N
    OBVIOUS
  <2>2. \A n \in 0 .. Len(o) : \A k \in 1 .. n : r[n][o[k]] = <<o[k], E[o[k]], {<<x, r[n][x]>> : x \in nb[k]}>>
    <3>1. g \in Graphs /\ Topo(g, o)
      OBVIOUS
    <3>2. Layers(r, o, E, nb, Len(o))
      BY ONLY <1>n, <1>9
    <3>3. \A n \in 0 .. Len(o) : /\ DOMAIN r[n] = Prefix(o, n)
                                 /\ \A k \in 1 .. n : r[n][o[k]] = <<o[k], E[o[k]], {<<x, r[n][x]>> : x \in nb[k]}>>
      BY ONLY <1>2, <3>1, <3>2, LayersSound
    <3> QED
      BY ONLY <3>3
  <2> QED
    BY ONLY <1>n, <2>1, <2>2
<1>11. ASSUME NEW k \in 1 .. Len(o)
       PROVE  h[o[k]] = <<o[k], E[o[k]], {<<x, h[x]>> : x \in p.deps[o[k]] \intersect Prefix(o, k - 1)}>>
  <2>1. nb[k] = p.deps[o[k]] \intersect Prefix(o, k - 1)
    BY <1>n, <1>1
  <2>2. h[o[k]] = <<o[k], E[o[k]], {<<x, h[x]>> : x \in nb[k]}>>
    <3>1. {<<x, h[x]>> : x \in nb[k]} = {<<x, r[N][x]>> : x \in nb[k]}
      BY <1>6
    <3>2. r[N][o[k]] = <<o[k], E[o[k]], {<<x, r[N][x]>> : x \in nb[k]}>>
      BY <1>n, <1>10
    <3> QED
      BY <1>6, <3>1, <3>2
  <2> QED
    BY ONLY <2>1, <2>2
<1> QED
  BY ONLY <1>e, <1>11

-----------------------------------------------------------------------------
(* The graph of a project *)

(* What every run's graph is, and that it has no cycle. *)
Sorted == Topo(graph, dag.order) /\ Range(dag.order) = Units

LEMMA DagSound ==
  ASSUME dag = BuildDAG(proj)
  PROVE  /\ graph \in Graphs
         /\ Topo(graph, dag.order) /\ ReadyUnits(graph, Range(dag.order)) = {}
         /\ ~(Len(dag.order) < Cardinality(Units)) => Sorted
         /\ \A u \in Units : /\ dag.below[u] \in SUBSET Units
                             /\ graph[u] \subseteq dag.below[u]
                             /\ \A v \in dag.below[u] : graph[v] \subseteq dag.below[u]
                             /\ \A T \in SUBSET Units : graph[u] \subseteq T /\ (\A t \in T : graph[t] \subseteq T)
                                                            => dag.below[u] \subseteq T
<1>1. PICK g : g = Dag(proj)
  OBVIOUS
<1>2. g \in Graphs
  <2>1. \A u \in Units : DagDeps(proj, u) \subseteq Units
    BY DEF DagDeps
  <2> QED
    BY <1>1, <2>1 DEF Dag, Graphs
<1>3. graph = g /\ dag.order = TopologicalSort(g) /\ dag.below = [u \in Units |-> Reach(g, g[u])]
  BY <1>1 DEF graph, BuildDAG
<1>4. Topo(g, dag.order) /\ ReadyUnits(g, Range(dag.order)) = {}
  BY <1>2, <1>3, SortSound
<1>5. ASSUME ~(Len(dag.order) < Cardinality(Units)) PROVE Range(dag.order) = Units
  <2>1. Range(dag.order) \in SUBSET Units /\ Cardinality(Range(dag.order)) = Len(dag.order) /\ Len(dag.order) \in Nat
    BY <1>4, RangeOf DEF Topo
  <2>2. Cardinality(Range(dag.order)) <= Cardinality(Units)
    BY <2>1, CountUnits, FS_Subset
  <2>3. Cardinality(Range(dag.order)) = Cardinality(Units)
    BY <1>5, <2>1, <2>2, CountUnits
  <2> QED
    BY <2>1, <2>3, CountUnits, FS_Subset
<1>6. ASSUME NEW u \in Units
      PROVE  /\ dag.below[u] \in SUBSET Units
             /\ g[u] \subseteq dag.below[u]
             /\ \A v \in dag.below[u] : g[v] \subseteq dag.below[u]
             /\ \A T \in SUBSET Units : g[u] \subseteq T /\ (\A t \in T : g[t] \subseteq T) => dag.below[u] \subseteq T
  <2>1. PICK S \in SUBSET Units : S = g[u]
    BY <1>2 DEF Graphs
  <2>2. dag.below[u] = Reach(g, S)
    BY <1>3, <2>1
  <2> QED
    BY <1>2, <2>1, <2>2, ReachSound
<1> QED
  BY <1>2, <1>3, <1>4, <1>5, <1>6 DEF Sorted

(* What a unit is built from comes before it; and what that is built from   *)
(* is part of it.                                                           *)
LEMMA BelowSound ==
  ASSUME dag = BuildDAG(proj)
  PROVE  /\ \A k \in 1 .. Len(dag.order) : dag.below[dag.order[k]] \subseteq Prefix(dag.order, k - 1)
         /\ \A u \in Units : \A v \in dag.below[u] : dag.below[v] \subseteq dag.below[u]
<1>0. PICK o : o = dag.order
  OBVIOUS
<1>1. graph \in Graphs /\ Topo(graph, o) /\ o \in Seq(Units)
  BY <1>0, DagSound DEF Topo
<1>2. ASSUME NEW k \in 1 .. Len(o) PROVE dag.below[o[k]] \subseteq Prefix(o, k - 1)
  <2>1. PICK T \in SUBSET Units : T = Prefix(o, k - 1)
    <3>1. \A j \in 1 .. k - 1 : j \in 1 .. Len(o)
      BY <1>1
    <3>2. Prefix(o, k - 1) \subseteq Units
      BY <1>1, <3>1 DEF Prefix
    <3> QED
      BY <3>2
  <2>2. graph[o[k]] \subseteq T /\ o[k] \in Units
    BY <1>1, <2>1 DEF Topo
  <2>3. ASSUME NEW t \in T PROVE graph[t] \subseteq T
    <3>1. PICK j \in 1 .. k - 1 : t = o[j]
      BY <2>1 DEF Prefix
    <3>2. j \in 1 .. Len(o) /\ j - 1 <= k - 1
      BY <1>1
    <3>3. Prefix(o, j - 1) \subseteq Prefix(o, k - 1)
      <4>1. \A i \in 1 .. j - 1 : i \in 1 .. k - 1
        BY <3>2
      <4> QED
        BY <4>1 DEF Prefix
    <3> QED
      BY <1>1, <2>1, <3>1, <3>2, <3>3 DEF Topo
  <2> QED
    BY <2>1, <2>2, <2>3, DagSound
<1>3. ASSUME NEW u \in Units, NEW v \in dag.below[u] PROVE dag.below[v] \subseteq dag.below[u]
  <2>1. PICK T \in SUBSET Units : T = dag.below[u]
    BY DagSound
  <2>2. v \in Units /\ graph[v] \subseteq T /\ \A t \in T : graph[t] \subseteq T
    BY <2>1, DagSound
  <2> QED
    BY <2>1, <2>2, DagSound
<1> QED
  BY <1>0, <1>2, <1>3

(* A build from scratch makes each unit of its definition and of what it    *)
(* makes of the units below.                                                *)
LEMMA FreshRecord ==
  ASSUME dag = BuildDAG(proj), Sorted, NEW def0, NEW fresh, fresh = FromScratch(def0)
  PROVE  \A u \in Units : fresh[u] = <<u, def0[u], {<<x, fresh[x]>> : x \in dag.below[u]}>>
<1> DEFINE o == dag.order
           Scratch(m, u) == [v \in DOMAIN m \union {u} |-> IF v = u THEN Made(v, def0[v], m) ELSE m[v]]
<1>0. o \in Seq(Units)
  BY DEF Sorted, Topo
<1>n. PICK N \in Nat : N = Len(o)
  BY <1>0
<1>1. graph \in Graphs /\ Topo(graph, o)
  BY DagSound
<1>2. PICK nb : nb = [k \in 1 .. N |-> dag.below[o[k]]]
  OBVIOUS
<1>3. \A k \in 1 .. Len(o) : nb[k] \subseteq Prefix(o, k - 1)
  BY <1>0, <1>n, <1>2, BelowSound
<1>4. ASSUME NEW m, NEW k \in 1 .. N PROVE Layer(m, o[k], def0[o[k]], nb[k]) = Scratch(m, o[k])
  <2>1. nb[k] = dag.below[o[k]]
    BY <1>2
  <2>2. Made(o[k], def0[o[k]], m) = <<o[k], def0[o[k]], {<<x, m[x]>> : x \in nb[k]}>>
    BY <2>1 DEF Made
  <2> QED
    BY <2>2 DEF Layer
<1>5. PICK f : Layers(f, o, def0, nb, N)
  BY LayersExist
<1> DEFINE IsMade(e) == e = [k \in 0 .. N |-> IF k = 0 THEN NoLayer ELSE Scratch(e[k - 1], o[k])]
<1>x. ASSUME NEW e PROVE IsMade(e) <=> Layers(e, o, def0, nb, N)
  <2>1. ASSUME NEW k \in 0 .. N
        PROVE  (IF k = 0 THEN NoLayer ELSE Scratch(e[k - 1], o[k]))
                 = IF k = 0 THEN NoLayer ELSE Layer(e[k - 1], o[k], def0[o[k]], nb[k])
    <3>1. k = 0 \/ k \in 1 .. N
      OBVIOUS
    <3> HIDE DEF Scratch
    <3> QED
      BY <1>4, <3>1
  <2> HIDE DEF Scratch
  <2> QED
    BY <2>1 DEF Layers
<1>6. PICK r : Layers(r, o, def0, nb, N) /\ fresh = r[N]
  <2>1. PICK r : IsMade(r) /\ fresh = r[N]
    <3>1. \A e : IsMade(e) <=> e = [k \in 0 .. Len(dag.order) |->
              IF k = 0 THEN [u \in {} |-> <<>>]
              ELSE [v \in DOMAIN e[k - 1] \union {dag.order[k]} |->
                      IF v = dag.order[k] THEN Made(v, def0[v], e[k - 1]) ELSE e[k - 1][v]]]
      BY <1>n DEF NoLayer
    <3>2. \E e : IsMade(e)
      BY <1>5, <1>x, ZenonT(40)
    <3> HIDE DEF IsMade
    <3> QED
      BY <1>n, <3>1, <3>2, ZenonT(40) DEF FromScratch
  <2> QED
    BY <1>x, <2>1
<1>q. PICK q : q = o
  OBVIOUS
<1>7. \A k \in 1 .. N : r[N][q[k]] = <<q[k], def0[q[k]], {<<x, r[N][x]>> : x \in nb[k]}>>
  <2>1. N \in 0 .. N /\ N = Len(q)
    BY <1>n, <1>q
  <2>2. Layers(r, q, def0, nb, Len(q)) /\ Topo(graph, q) /\ \A k \in 1 .. Len(q) : nb[k] \subseteq Prefix(q, k - 1)
    BY <1>n, <1>1, <1>3, <1>6, <1>q
  <2>3. \A n \in 0 .. Len(q) : \A k \in 1 .. n : r[n][q[k]] = <<q[k], def0[q[k]], {<<x, r[n][x]>> : x \in nb[k]}>>
    BY <1>1, <2>2, LayersSound
  <2>4. N \in 0 .. Len(q)
    BY ONLY <2>1
  <2> QED
    BY ONLY <2>3, <2>4, Zenon
<1>8. ASSUME NEW u \in Units PROVE fresh[u] = <<u, def0[u], {<<x, fresh[x]>> : x \in dag.below[u]}>>
  <2>1. PICK k \in 1 .. N : u = o[k] /\ u = q[k]
    BY <1>0, <1>n, <1>q DEF Sorted, Range
  <2>2. nb[k] = dag.below[u]
    BY <1>2, <2>1
  <2>3. {<<x, fresh[x]>> : x \in dag.below[u]} = {<<x, r[N][x]>> : x \in nb[k]}
    BY <1>6, <2>2
  <2>4. r[N][u] = <<u, def0[u], {<<x, r[N][x]>> : x \in nb[k]}>>
    <3>1. r[N][q[k]] = <<q[k], def0[q[k]], {<<x, r[N][x]>> : x \in nb[k]}>>
      BY <1>7
    <3> QED
      BY <2>1, <3>1
  <2> QED
    BY <1>6, <2>3, <2>4
<1> QED
  BY <1>8

-----------------------------------------------------------------------------
(* The cache *)

HashOf(def0) == ComputeAllHashes(proj, dag.order, def0)
Told(v) == v \notin proj.unread /\ graph[v] \subseteq proj.deps[v]

(* Equal hashes come from equal definitions and equal hashes of what the    *)
(* unit depends on, if it is read as a whole and those dependencies are     *)
(* declared.                                                                *)
LEMMA HashTells ==
  ASSUME dag = BuildDAG(proj), Sorted, NEW D1, NEW D2, NEW v \in Units, Told(v),
         HashOf(D1)[v] = HashOf(D2)[v]
  PROVE  D1[v] = D2[v] /\ \A d \in graph[v] : HashOf(D1)[d] = HashOf(D2)[d]
<1>0. PICK o : o = dag.order
  OBVIOUS
<1>1. graph \in Graphs /\ Topo(graph, o) /\ Range(o) = Units /\ o \in Seq(Units)
  BY <1>0, DagSound DEF Sorted, Topo
<1>2. PICK k \in 1 .. Len(o) : v = o[k]
  BY <1>1 DEF Range
<1>3. PICK nb : nb = proj.deps[v] \intersect Prefix(o, k - 1)
  OBVIOUS
<1>4. graph[v] \subseteq nb
  BY <1>1, <1>2, <1>3 DEF Topo, Told
<1>h. ASSUME NEW D, NEW h, h = HashOf(D) PROVE h[v] = <<v, D[v], {<<x, h[x]>> : x \in nb}>>
  <2>1. h = ComputeAllHashes(proj, o, D)
    BY <1>h, <1>0 DEF HashOf
  <2>2. \A i \in 1 .. Len(o) :
            h[o[i]] = <<o[i], Seen(proj, D)[o[i]], {<<x, h[x]>> : x \in proj.deps[o[i]] \intersect Prefix(o, i - 1)}>>
    BY <1>1, <2>1, HashRecord
  <2>3. h[o[k]] = <<o[k], Seen(proj, D)[o[k]], {<<x, h[x]>> : x \in proj.deps[o[k]] \intersect Prefix(o, k - 1)}>>
    BY ONLY <2>2, k \in 1 .. Len(o), Zenon
  <2>4. Seen(proj, D)[v] = D[v]
    BY DEF Seen, Told
  <2> QED
    BY ONLY <1>2, <1>3, <2>3, <2>4
<1>5. PICK h1 : h1 = HashOf(D1)
  OBVIOUS
<1>6. PICK h2 : h2 = HashOf(D2)
  OBVIOUS
<1>7. h1[v] = <<v, D1[v], {<<x, h1[x]>> : x \in nb}>>
  BY ONLY <1>h, <1>5, Zenon
<1>8. h2[v] = <<v, D2[v], {<<x, h2[x]>> : x \in nb}>>
  BY ONLY <1>h, <1>6, Zenon
<1>9. D1[v] = D2[v] /\ {<<x, h1[x]>> : x \in nb} = {<<x, h2[x]>> : x \in nb}
  <2>1. h1[v] = h2[v]
    BY <1>5, <1>6
  <2>2. PICK s1 : s1 = {<<x, h1[x]>> : x \in nb}
    OBVIOUS
  <2>3. PICK s2 : s2 = {<<x, h2[x]>> : x \in nb}
    OBVIOUS
  <2>4. h1[v] = <<v, D1[v], s1>>
    BY ONLY <1>7, <2>2, Zenon
  <2>5. h2[v] = <<v, D2[v], s2>>
    BY ONLY <1>8, <2>3, Zenon
  <2>6. D1[v] = D2[v] /\ s1 = s2
    <3>1. <<v, D1[v], s1>> = <<v, D2[v], s2>>
      BY ONLY <2>1, <2>4, <2>5, Zenon
    <3>2. PICK a1 : a1 = D1[v]
      OBVIOUS
    <3>3. PICK a2 : a2 = D2[v]
      OBVIOUS
    <3>4. <<v, a1, s1>> = <<v, a2, s2>>
      BY ONLY <3>1, <3>2, <3>3, Zenon
    <3>5. a1 = a2 /\ s1 = s2
      BY ONLY <3>4
    <3> QED
      BY ONLY <3>2, <3>3, <3>5, Zenon
  <2> QED
    BY ONLY <2>2, <2>3, <2>6, Zenon
<1>10. ASSUME NEW d \in nb PROVE h1[d] = h2[d]
  <2>1. <<d, h1[d]>> \in {<<x, h2[x]>> : x \in nb}
    BY <1>9
  <2>2. PICK x \in nb : <<d, h1[d]>> = <<x, h2[x]>>
    BY ONLY <2>1
  <2> QED
    BY ONLY <2>2
<1> QED
  BY <1>4, <1>5, <1>6, <1>9, <1>10

(* The hash is as good as the artifact: two sets of definitions that give a *)
(* unit the same hash also give it the same artifact from scratch.          *)
LEMMA SameHashSameArtifact ==
  ASSUME dag = BuildDAG(proj), Sorted, NEW D1, NEW D2, NEW u \in Units, HashCovers(u),
         HashOf(D1)[u] = HashOf(D2)[u]
  PROVE  FromScratch(D1)[u] = FromScratch(D2)[u]
<1> DEFINE Same(v) == HashOf(D1)[v] = HashOf(D2)[v]
           All == dag.below[u] \union {u}
<1>1. \A v \in All : v \in Units /\ v \notin proj.unread /\ graph[v] \subseteq proj.deps[v]
  BY DagSound DEF HashCovers
<1>h. ASSUME NEW v \in Units, Told(v), HashOf(D1)[v] = HashOf(D2)[v]
      PROVE  D1[v] = D2[v] /\ \A d \in graph[v] : HashOf(D1)[d] = HashOf(D2)[d]
  BY <1>h, HashTells
<1>t. ASSUME NEW v \in All, Same(v) PROVE D1[v] = D2[v] /\ \A d \in graph[v] : Same(d)
  <2>1. v \in Units /\ Told(v)
    BY <1>1 DEF Told
  <2>2. HashOf(D1)[v] = HashOf(D2)[v]
    BY ONLY <1>t
  <2> QED
    BY ONLY <1>h, <2>1, <2>2
<1>s. Same(u)
  OBVIOUS
<1> HIDE DEF Same
<1>2. \A v \in dag.below[u] : Same(v)
  <2>1. PICK T \in SUBSET Units : T = {v \in dag.below[u] : Same(v)}
    BY DagSound
  <2>2. graph[u] \subseteq T
    <3>1. graph[u] \subseteq dag.below[u] /\ \A d \in graph[u] : Same(d)
      BY <1>t, <1>s, DagSound
    <3> QED
      BY <2>1, <3>1
  <2>3. ASSUME NEW t \in T PROVE graph[t] \subseteq T
    <3>1. t \in dag.below[u] /\ Same(t) /\ t \in Units /\ graph[t] \subseteq proj.deps[t]
      BY <1>1, <2>1
    <3>2. graph[t] \subseteq dag.below[u] /\ \A d \in graph[t] : Same(d)
      BY <1>t, <3>1, DagSound
    <3> QED
      BY <2>1, <3>2
  <2>4. dag.below[u] \subseteq T
    BY <2>2, <2>3, DagSound
  <2> QED
    BY <2>1, <2>4
<1>3. \A v \in All : D1[v] = D2[v]
  BY <1>t, <1>s, <1>2
<1>4. PICK f1 : f1 = FromScratch(D1)
  OBVIOUS
<1>5. PICK f2 : f2 = FromScratch(D2)
  OBVIOUS
<1>6. PICK o \in Seq(Units) : o = dag.order
  BY DEF Sorted, Topo
<1> DEFINE Bad == {k \in 1 .. Len(o) : o[k] \in All /\ f1[o[k]] # f2[o[k]]}
<1>7. ASSUME Bad # {} PROVE FALSE
  <2>1. PICK B \in SUBSET Nat : B = Bad
    <3>1. 1 .. Len(o) \subseteq Nat
      OBVIOUS
    <3> QED
      BY <3>1
  <2>2. PICK k \in B : \A j \in B : k <= j
    <3>1. B # {}
      BY <1>7, <2>1
    <3> QED
      BY <3>1, LeastExists
  <2>3. k \in 1 .. Len(o) /\ o[k] \in All /\ f1[o[k]] # f2[o[k]]
    BY <2>1, <2>2
  <2>4. PICK v \in Units : v = o[k]
    BY <1>6, <2>3
  <2>5. ASSUME NEW x \in dag.below[v] PROVE f1[x] = f2[x]
    <3>1. x \in All
      <4>1. v = u \/ v \in dag.below[u]
        BY <2>3, <2>4
      <4> QED
        BY <4>1, BelowSound
    <3>2. x \in Prefix(o, k - 1)
      BY <1>6, <2>3, <2>4, BelowSound
    <3>3. PICK j \in 1 .. k - 1 : x = o[j]
      BY <3>2 DEF Prefix
    <3>4. j \in 1 .. Len(o) /\ ~(k <= j)
      BY <2>3, <3>3
    <3> QED
      BY <2>1, <2>2, <3>1, <3>3, <3>4
  <2>6. {<<x, f1[x]>> : x \in dag.below[v]} = {<<x, f2[x]>> : x \in dag.below[v]}
    BY <2>5
  <2>7. f1[v] = <<v, D1[v], {<<x, f1[x]>> : x \in dag.below[v]}>>
    BY <1>4, FreshRecord
  <2>8. f2[v] = <<v, D2[v], {<<x, f2[x]>> : x \in dag.below[v]}>>
    BY <1>5, FreshRecord
  <2>9. D1[v] = D2[v]
    BY <1>3, <2>3, <2>4
  <2>10. f1[v] = f2[v]
    BY ONLY <2>6, <2>7, <2>8, <2>9
  <2> QED
    BY ONLY <2>3, <2>4, <2>10
<1>8. PICK k \in 1 .. Len(o) : u = o[k]
  BY <1>6 DEF Sorted, Range
<1>9. f1[u] = f2[u]
  BY <1>7, <1>8
<1> QED
  BY <1>4, <1>5, <1>9

-----------------------------------------------------------------------------
(* The inductive invariant *)

RunFields == {"order", "defs", "hash", "reuse", "done", "rebuilt"}

(* The stores have an entry for every unit, and the graph is the project's. *)
InvShape ==
  /\ DOMAIN meta = Units /\ DOMAIN art = Units /\ DOMAIN run = RunFields
  /\ dag = BuildDAG(proj)

(* A run's order holds what its members depend on, it goes through the      *)
(* order dependencies first, and it keeps the hashes of the definitions it  *)
(* loaded.                                                                  *)
InvRun ==
  /\ run.order \in SUBSET Units /\ run.done \subseteq run.order /\ run.reuse \subseteq run.order
  /\ \A u \in run.order : graph[u] \subseteq run.order
  /\ \A u \in run.done : graph[u] \subseteq run.done
  /\ result = "running" => Sorted /\ run.hash = HashOf(run.defs)

(* What a run means to reuse has a complete record with the run's hash. *)
InvReuse == result = "running" =>
  \A u \in run.reuse : meta[u].status = "complete" /\ meta[u].hash = run.hash[u]

(* A complete record names definitions that what lies in the unit's build   *)
(* directory would be made of from scratch.                                 *)
RecordedFrom(u, D) == meta[u].hash = HashOf(D)[u] /\ art[u] = FromScratch(D)[u]
InvRecord == \A u \in Units : HashCovers(u) /\ meta[u].status = "complete" => \E D : RecordedFrom(u, D)

FreshInv == InvShape /\ InvRun /\ InvReuse /\ InvRecord /\ DoneIsFresh

LEMMA FreshInit == CacheInit => FreshInv
<1> SUFFICES ASSUME CacheInit PROVE FreshInv
  OBVIOUS
<1> USE DEF CacheInit, Unbuilt
<1>1. InvShape
  <2>1. DOMAIN run = RunFields
    BY DEF NoRun, RunFields
  <2> QED
    BY <2>1 DEF InvShape
<1>2. run.order = {} /\ run.done = {} /\ run.reuse = {}
  BY DEF NoRun
<1>3. InvRun /\ InvReuse /\ DoneIsFresh
  BY <1>2 DEF InvRun, InvReuse, DoneIsFresh
<1>4. InvRecord
  BY DEF InvRecord
<1> QED
  BY <1>1, <1>3, <1>4 DEF FreshInv

(* What the invariant says is about the project, and the project stays. *)
LEMMA ProjectStays ==
  ASSUME UNCHANGED <<proj, dag>>
  PROVE  /\ Sorted' = Sorted /\ graph' = graph
         /\ \A D : HashOf(D)' = HashOf(D) /\ FromScratch(D)' = FromScratch(D)
         /\ \A u : HashCovers(u)' = HashCovers(u)
<1>1. graph' = graph
  BY DEF graph
<1>2. Sorted' = Sorted
  BY <1>1 DEF Sorted
<1>3. ASSUME NEW D PROVE HashOf(D)' = HashOf(D)
  BY DEF HashOf
<1>4. ASSUME NEW D PROVE FromScratch(D)' = FromScratch(D)
  BY DEF FromScratch, Made
<1>5. ASSUME NEW u PROVE HashCovers(u)' = HashCovers(u)
  BY <1>1 DEF HashCovers
<1> QED
  BY <1>1, <1>2, <1>3, <1>4, <1>5

(* A unit whose turn it is has everything below it dealt with. *)
LEMMA BelowDone ==
  ASSUME InvShape, InvRun, NEW u \in Units, Turn(u)
  PROVE  graph[u] \subseteq run.done /\ dag.below[u] \subseteq run.done
<1>1. graph[u] \subseteq run.done
  BY DEF Turn, InvRun
<1>2. PICK T \in SUBSET Units : T = run.done
  BY DEF InvRun
<1>3. graph[u] \subseteq T /\ \A t \in T : graph[t] \subseteq T
  BY <1>1, <1>2 DEF InvRun
<1>4. dag.below[u] \subseteq T
  BY <1>3, DagSound DEF InvShape
<1> QED
  BY <1>1, <1>2, <1>4

(* What a build makes over fresh dependencies is fresh. *)
LEMMA BuiltIsFresh ==
  ASSUME FreshInv, NEW u \in Units, Turn(u), HashCovers(u)
  PROVE  Made(u, run.defs[u], art) = FromScratch(run.defs)[u]
<1>0. InvShape /\ InvRun /\ DoneIsFresh /\ Sorted
  BY DEF FreshInv, InvRun, Turn
<1>1. dag = BuildDAG(proj)
  BY <1>0 DEF InvShape
<1>2. PICK fresh : fresh = FromScratch(run.defs)
  OBVIOUS
<1>3. ASSUME NEW v \in dag.below[u] PROVE art[v] = fresh[v]
  <2>1. v \in run.done
    BY <1>0, BelowDone
  <2>2. dag.below[v] \subseteq dag.below[u]
    BY <1>1, BelowSound
  <2>3. HashCovers(v)
    BY <2>2 DEF HashCovers
  <2> QED
    BY <1>0, <1>2, <2>1, <2>3 DEF DoneIsFresh
<1>4. {<<v, art[v]>> : v \in dag.below[u]} = {<<v, fresh[v]>> : v \in dag.below[u]}
  BY <1>3
<1>5. PICK D : D = run.defs
  OBVIOUS
<1>6. fresh[u] = <<u, D[u], {<<x, fresh[x]>> : x \in dag.below[u]}>>
  <2>1. fresh = FromScratch(D)
    BY <1>2, <1>5
  <2> QED
    BY <1>0, <1>1, <2>1, FreshRecord
<1>7. Made(u, D[u], art) = <<u, D[u], {<<v, art[v]>> : v \in dag.below[u]}>>
  BY DEF Made
<1>8. Made(u, D[u], art) = fresh[u]
  BY ONLY <1>4, <1>6, <1>7
<1> QED
  BY <1>2, <1>5, <1>8

(* Nothing a step leaves as it was spoils a record or a unit done. *)
LEMMA RecordStays ==
  ASSUME UNCHANGED <<proj, dag>>, InvRecord, NEW u \in Units, HashCovers(u)', (meta[u].status)' = "complete",
         (meta[u])' = meta[u], (art[u])' = art[u]
  PROVE  \E D : RecordedFrom(u, D)'
<1>1. HashCovers(u) /\ meta[u].status = "complete"
  BY ProjectStays
<1>2. PICK D : RecordedFrom(u, D)
  BY <1>1 DEF InvRecord
<1>3. HashOf(D)' = HashOf(D) /\ FromScratch(D)' = FromScratch(D)
  BY ProjectStays
<1>4. RecordedFrom(u, D)'
  BY <1>2, <1>3 DEF RecordedFrom
<1> QED
  BY <1>4

LEMMA RecordsStay ==
  ASSUME UNCHANGED <<proj, dag, meta, art>>, InvRecord
  PROVE  InvRecord'
<1>1. ASSUME NEW u \in Units, HashCovers(u)', (meta[u].status)' = "complete" PROVE \E D : RecordedFrom(u, D)'
  BY <1>1, RecordStays
<1> QED
  BY <1>1 DEF InvRecord

LEMMA FreshStays ==
  ASSUME UNCHANGED <<proj, dag, art>>, DoneIsFresh, run'.done = run.done, run'.defs = run.defs
  PROVE  DoneIsFresh'
<1>1. FromScratch(run.defs)' = FromScratch(run.defs)
  BY DEF FromScratch, Made
<1>2. \A u : HashCovers(u)' = HashCovers(u)
  BY ProjectStays
<1> QED
  BY <1>1, <1>2 DEF DoneIsFresh

(* A step that leaves the run and the stores alone. *)
LEMMA IdleStep ==
  ASSUME FreshInv, UNCHANGED <<proj, dag, meta, art, run>>, result' # "running" \/ result' = result
  PROVE  FreshInv'
<1>1. InvShape'
  BY DEF FreshInv, InvShape
<1>2. InvRun'
  <2>1. HashOf(run.defs)' = HashOf(run.defs) /\ Sorted' = Sorted /\ graph' = graph
    BY ProjectStays
  <2> QED
    BY <2>1 DEF FreshInv, InvRun
<1>3. InvReuse'
  BY DEF FreshInv, InvReuse
<1>4. InvRecord'
  BY RecordsStay DEF FreshInv
<1>5. DoneIsFresh'
  BY FreshStays DEF FreshInv
<1> QED
  BY <1>1, <1>2, <1>3, <1>4, <1>5 DEF FreshInv

LEMMA StartStep ==
  ASSUME FreshInv, NEW names \in SUBSET Units, NEW force, StartRun(names, force)
  PROVE  FreshInv'
<1>0. UNCHANGED <<proj, dag, meta, art>> /\ dag = BuildDAG(proj)
  BY DEF StartRun, FreshInv, InvShape
<1>1. CASE Len(dag.order) < Cardinality(Units)
  <2>1. result' = "error" /\ run' = NoRun
    BY <1>1 DEF StartRun
  <2>2. DOMAIN run' = RunFields /\ run'.order = {} /\ run'.done = {} /\ run'.reuse = {}
    BY <2>1 DEF NoRun, RunFields
  <2>3. InvShape'
    BY <1>0, <2>2 DEF FreshInv, InvShape
  <2>4. InvRun' /\ InvReuse' /\ DoneIsFresh'
    BY <2>1, <2>2 DEF InvRun, InvReuse, DoneIsFresh
  <2>5. InvRecord'
    BY <1>0, RecordsStay DEF FreshInv
  <2> QED
    BY <2>3, <2>4, <2>5 DEF FreshInv
<1>2. CASE ~(Len(dag.order) < Cardinality(Units))
  <2>0. Sorted /\ Sorted' /\ graph' = graph
    BY <1>0, <1>2, DagSound, ProjectStays
  <2>1. PICK h : h = HashOf(def)
    OBVIOUS
  <2>2. PICK order : order = IF names = {} THEN Units ELSE names \union UNION {dag.below[n] : n \in names}
    OBVIOUS
  <2>3. PICK reuse : reuse = {u \in order : CacheValid(u, h[u]) /\ ~(force /\ (names = {} \/ u \in names))}
    OBVIOUS
  <2>4. result' = "running" /\ run' = [order |-> order, defs |-> def, hash |-> h, done |-> {}, rebuilt |-> {},
                                         reuse |-> reuse]
    BY <1>2, <2>1, <2>2, <2>3 DEF StartRun, HashOf
  <2>5. /\ DOMAIN run' = RunFields /\ run'.order = order /\ run'.done = {} /\ run'.defs = def
        /\ run'.hash = h /\ run'.reuse = reuse
    BY <2>4 DEF RunFields
  <2>6. order \in SUBSET Units /\ \A u \in order : graph[u] \subseteq order
    <3>1. \A n \in Units : /\ dag.below[n] \in SUBSET Units /\ graph[n] \subseteq dag.below[n]
                           /\ \A v \in dag.below[n] : graph[v] \subseteq dag.below[n]
      BY <1>0, DagSound
    <3>2. \A n \in Units : graph[n] \subseteq Units
      BY <1>0, DagSound DEF Graphs
    <3>3. CASE names = {}
      BY <2>2, <3>2, <3>3
    <3>4. CASE names # {}
      BY <2>2, <3>1, <3>4
    <3> QED
      BY <3>3, <3>4
  <2>7. HashOf(run.defs)' = run'.hash
    <3>1. HashOf(run.defs)' = ComputeAllHashes(proj, dag.order, def)
      BY <1>0, <2>5 DEF HashOf
    <3> QED
      BY <2>1, <2>5, <3>1 DEF HashOf
  <2>8. InvShape'
    BY <1>0, <2>5 DEF FreshInv, InvShape
  <2>9. InvRun'
    BY <2>0, <2>3, <2>5, <2>6, <2>7 DEF InvRun
  <2>10. InvReuse'
    <3>1. \A u \in reuse : meta[u].status = "complete" /\ meta[u].hash = h[u]
      BY <2>3 DEF CacheValid, IsBuildCached
    <3> QED
      BY <1>0, <2>5, <3>1 DEF InvReuse
  <2>11. DoneIsFresh'
    BY <2>5 DEF DoneIsFresh
  <2>12. InvRecord'
    BY <1>0, RecordsStay DEF FreshInv
  <2> QED
    BY <2>8, <2>9, <2>10, <2>11, <2>12 DEF FreshInv
<1> QED
  BY <1>1, <1>2

(* A unit whose turn it is is dealt with: the run's part of the invariant.  *)
LEMMA DealtWith ==
  ASSUME FreshInv, NEW u \in Units, Turn(u), UNCHANGED <<proj, dag, result>>,
         DOMAIN run' = RunFields, run'.order = run.order, run'.defs = run.defs, run'.hash = run.hash,
         run'.done = run.done \union {u}, run'.reuse = run.reuse
  PROVE  InvRun'
<1>0. graph[u] \subseteq run.done /\ u \in run.order
  BY BelowDone DEF FreshInv, Turn
<1>1. HashOf(run.defs)' = HashOf(run.defs) /\ Sorted' = Sorted /\ graph' = graph
  <2>1. HashOf(run.defs)' = HashOf(run.defs)
    BY DEF HashOf
  <2> QED
    BY <2>1, ProjectStays
<1> QED
  BY <1>0, <1>1 DEF FreshInv, InvRun

LEMMA ServeStep ==
  ASSUME FreshInv, NEW u \in Units, ServeCached(u)
  PROVE  FreshInv'
<1>0. Turn(u) /\ Reuse(u) /\ UNCHANGED <<proj, dag, meta, art, result>> /\ dag = BuildDAG(proj)
  BY DEF ServeCached, FreshInv, InvShape
<1>1. /\ DOMAIN run' = RunFields /\ run'.order = run.order /\ run'.defs = run.defs /\ run'.hash = run.hash
      /\ run'.done = run.done \union {u} /\ run'.reuse = run.reuse
  <2>1. DOMAIN run = RunFields
    BY DEF FreshInv, InvShape
  <2> QED
    BY <2>1 DEF ServeCached, RunFields
<1>2. InvShape'
  BY <1>0, <1>1 DEF FreshInv, InvShape
<1>3. InvRun'
  BY <1>0, <1>1, DealtWith
<1>4. InvReuse'
  BY <1>0, <1>1 DEF FreshInv, InvReuse
<1>5. InvRecord'
  BY <1>0, RecordsStay DEF FreshInv
<1>6. ASSUME HashCovers(u) PROVE art[u] = FromScratch(run.defs)[u]
  <2>1. Sorted /\ run.hash = HashOf(run.defs) /\ meta[u].status = "complete" /\ meta[u].hash = run.hash[u]
    BY <1>0 DEF FreshInv, InvRun, InvReuse, Turn, Reuse
  <2>2. PICK D : RecordedFrom(u, D)
    BY <1>6, <2>1 DEF FreshInv, InvRecord
  <2>3. PICK E : E = run.defs
    OBVIOUS
  <2>4. HashOf(D)[u] = HashOf(E)[u]
    BY <2>1, <2>2, <2>3 DEF RecordedFrom
  <2>5. FromScratch(D)[u] = FromScratch(E)[u]
    BY <1>0, <1>6, <2>1, <2>4, SameHashSameArtifact
  <2> QED
    BY <2>2, <2>3, <2>5 DEF RecordedFrom
<1>7. DoneIsFresh'
  <2>1. FromScratch(run.defs)' = FromScratch(run.defs)
    BY <1>0, <1>1 DEF FromScratch, Made
  <2>2. \A v : HashCovers(v)' = HashCovers(v)
    BY <1>0, ProjectStays
  <2>3. \A v \in run.done : HashCovers(v) => art[v] = FromScratch(run.defs)[v]
    BY DEF FreshInv, DoneIsFresh
  <2> QED
    BY <1>0, <1>1, <1>6, <2>1, <2>2, <2>3 DEF DoneIsFresh
<1> QED
  BY <1>2, <1>3, <1>4, <1>5, <1>7 DEF FreshInv

LEMMA BuildStep ==
  ASSUME FreshInv, NEW u \in Units, BuildUnit(u)
  PROVE  FreshInv'
<1>0. Turn(u) /\ UNCHANGED <<proj, dag, result>> /\ result = "running" /\ u \notin run.done
  BY DEF BuildUnit, Turn
<1>1. /\ DOMAIN run' = RunFields /\ run'.order = run.order /\ run'.defs = run.defs /\ run'.hash = run.hash
      /\ run'.done = run.done \union {u} /\ run'.reuse = run.reuse
  <2>1. DOMAIN run = RunFields
    BY DEF FreshInv, InvShape
  <2> QED
    BY <2>1 DEF BuildUnit, RunFields
<1>2. /\ DOMAIN meta' = Units /\ DOMAIN art' = Units
      /\ meta'[u] = [status |-> "complete", hash |-> run.hash[u]] /\ art'[u] = Made(u, run.defs[u], art)
      /\ \A v \in Units \ {u} : meta'[v] = meta[v] /\ art'[v] = art[v]
  <2>1. DOMAIN meta = Units /\ DOMAIN art = Units
    BY DEF FreshInv, InvShape
  <2>2. PICK rec : rec = [status |-> "complete", hash |-> run.hash[u]]
    OBVIOUS
  <2>3. PICK made : made = Made(u, run.defs[u], art)
    OBVIOUS
  <2>4. meta' = [meta EXCEPT ![u] = rec] /\ art' = [art EXCEPT ![u] = made]
    BY <2>2, <2>3 DEF BuildUnit
  <2>5. /\ DOMAIN meta' = Units /\ DOMAIN art' = Units /\ meta'[u] = rec /\ art'[u] = made
        /\ \A v \in Units \ {u} : meta'[v] = meta[v] /\ art'[v] = art[v]
    BY <2>1, <2>4
  <2> QED
    BY <2>2, <2>3, <2>5
<1>3. InvShape'
  BY <1>0, <1>1, <1>2 DEF FreshInv, InvShape
<1>4. InvRun'
  BY <1>0, <1>1, DealtWith
<1>5. InvReuse'
  <2>1. ASSUME NEW v \in run.reuse, v \in Units PROVE meta'[v].status = "complete" /\ meta'[v].hash = run.hash[v]
    <3>1. meta[v].status = "complete" /\ meta[v].hash = run.hash[v]
      BY <1>0 DEF FreshInv, InvReuse
    <3> QED
      BY <1>2, <2>1, <3>1
  <2>2. run.reuse \subseteq Units
    BY DEF FreshInv, InvRun
  <2> QED
    BY <1>1, <2>1, <2>2 DEF InvReuse
<1>6. HashCovers(u) => art'[u] = FromScratch(run.defs)[u]
  BY <1>0, <1>2, BuiltIsFresh
<1>7. InvRecord'
  <2>1. ASSUME NEW v \in Units, HashCovers(v)', (meta[v].status)' = "complete" PROVE \E D : RecordedFrom(v, D)'
    <3>1. CASE v # u
      BY <1>0, <1>2, <2>1, <3>1, RecordStays DEF FreshInv
    <3>2. CASE v = u
      <4>1. HashCovers(u)
        BY <1>0, <2>1, <3>2, ProjectStays
      <4>2. PICK D : D = run.defs
        OBVIOUS
      <4>3. meta'[u].hash = HashOf(D)[u] /\ art'[u] = FromScratch(D)[u]
        BY <1>0, <1>2, <1>6, <4>1, <4>2 DEF FreshInv, InvRun
      <4>4. HashOf(D)' = HashOf(D) /\ FromScratch(D)' = FromScratch(D)
        BY <1>0, ProjectStays
      <4>5. RecordedFrom(u, D)'
        BY <4>3, <4>4 DEF RecordedFrom
      <4> QED
        BY <3>2, <4>5
    <3> QED
      BY <3>1, <3>2
  <2> QED
    BY <2>1 DEF InvRecord
<1>8. DoneIsFresh'
  <2>1. FromScratch(run.defs)' = FromScratch(run.defs)
    BY <1>0, <1>1 DEF FromScratch, Made
  <2>2. \A v : HashCovers(v)' = HashCovers(v)
    BY <1>0, ProjectStays
  <2>3. \A v \in run.done : v \in Units \ {u} /\ (HashCovers(v) => art[v] = FromScratch(run.defs)[v])
    BY <1>0 DEF FreshInv, InvRun, DoneIsFresh
  <2> QED
    BY <1>1, <1>2, <1>6, <2>1, <2>2, <2>3 DEF DoneIsFresh
<1> QED
  BY <1>3, <1>4, <1>5, <1>7, <1>8 DEF FreshInv

LEMMA FailStep ==
  ASSUME FreshInv, NEW u \in Units, BuildFails(u)
  PROVE  FreshInv'
<1>0. UNCHANGED <<proj, dag, run>> /\ result' = "error" /\ u \notin run.done
  BY DEF BuildFails, Turn
<1>1. /\ DOMAIN meta' = Units /\ DOMAIN art' = Units /\ meta'[u].status # "complete"
      /\ \A v \in Units \ {u} : meta'[v] = meta[v] /\ art'[v] = art[v]
  <2>1. DOMAIN meta = Units /\ DOMAIN art = Units
    BY DEF FreshInv, InvShape
  <2>2. PICK s \in {"failed", "cancelled", "building"} :
            meta' = [meta EXCEPT ![u] = [status |-> s, hash |-> run.hash[u]]]
    BY DEF BuildFails
  <2>3. art' = [art EXCEPT ![u] = Broken]
    BY DEF BuildFails
  <2>4. DOMAIN meta' = Units /\ meta'[u].status = s /\ \A v \in Units \ {u} : meta'[v] = meta[v]
    BY <2>1, <2>2
  <2>5. DOMAIN art' = Units /\ \A v \in Units \ {u} : art'[v] = art[v]
    BY <2>1, <2>3
  <2> QED
    BY <2>2, <2>4, <2>5
<1>2. InvShape'
  BY <1>0, <1>1 DEF FreshInv, InvShape
<1>3. InvRun' /\ InvReuse'
  <2>1. graph' = graph
    BY <1>0, ProjectStays
  <2> QED
    BY <1>0, <2>1 DEF FreshInv, InvRun, InvReuse
<1>4. InvRecord'
  <2>1. ASSUME NEW v \in Units, HashCovers(v)', (meta[v].status)' = "complete" PROVE \E D : RecordedFrom(v, D)'
    <3>1. v # u
      BY <1>1, <2>1
    <3> QED
      BY <1>0, <1>1, <2>1, <3>1, RecordStays DEF FreshInv
  <2> QED
    BY <2>1 DEF InvRecord
<1>5. DoneIsFresh'
  <2>1. FromScratch(run.defs)' = FromScratch(run.defs)
    BY <1>0 DEF FromScratch, Made
  <2>2. \A v : HashCovers(v)' = HashCovers(v)
    BY <1>0, ProjectStays
  <2>3. \A v \in run.done : v \in Units \ {u} /\ (HashCovers(v) => art[v] = FromScratch(run.defs)[v])
    BY <1>0 DEF FreshInv, InvRun, DoneIsFresh
  <2> QED
    BY <1>0, <1>1, <2>1, <2>2, <2>3 DEF DoneIsFresh
<1> QED
  BY <1>2, <1>3, <1>4, <1>5 DEF FreshInv

LEMMA FreshStep == FreshInv /\ [CacheNext]_cacheVars => FreshInv'
<1> SUFFICES ASSUME FreshInv, [CacheNext]_cacheVars PROVE FreshInv'
  OBVIOUS
<1>1. ASSUME NEW names \in Targets, NEW force \in BOOLEAN, StartRun(names, force) PROVE FreshInv'
  BY <1>1, StartStep, CacheAssumption
<1>2. ASSUME NEW u \in Units, Edit(u) \/ LosePackage(u) PROVE FreshInv'
  BY <1>2, IdleStep DEF Edit, LosePackage
<1>3. ASSUME NEW u \in Units, ServeCached(u) PROVE FreshInv'
  BY <1>3, ServeStep
<1>4. ASSUME NEW u \in Units, BuildUnit(u) PROVE FreshInv'
  BY <1>4, BuildStep
<1>5. ASSUME NEW u \in Units, BuildFails(u) PROVE FreshInv'
  BY <1>5, FailStep
<1>6. ASSUME Interrupt \/ Finish PROVE FreshInv'
  BY <1>6, IdleStep DEF Interrupt, Finish
<1>7. CASE UNCHANGED cacheVars
  BY <1>7, IdleStep DEF cacheVars
<1> QED
  BY <1>1, <1>2, <1>3, <1>4, <1>5, <1>6, <1>7 DEF CacheNext

(* Whatever was edited, reverted, built in part, failed, killed or lost      *)
(* before, a unit that a run of BuildUnits has dealt with, from the cache or *)
(* by building it, is what a build of everything from scratch would make of  *)
(* the definitions the run loaded, if what the unit is built over is declared *)
(* as a dependency and the hash reads the whole of it.                       *)
THEOREM DoneIsFreshHolds == CacheSpec => []DoneIsFresh
<1>1. CacheInit => FreshInv
  BY FreshInit
<1>2. FreshInv /\ [CacheNext]_cacheVars => FreshInv'
  BY FreshStep
<1>3. FreshInv => DoneIsFresh
  BY DEF FreshInv
<1> QED
  BY <1>1, <1>2, <1>3, PTL DEF CacheSpec

-----------------------------------------------------------------------------
(* The order of the builds *)

(* The names of a project are provided by its units, and a container that   *)
(* is named by what it provides is not itself provided by another unit.     *)
ProvidersAreUnits == \A p \in Declared : \A d \in Units : p.provides[d] \in Units \union {NoUnit}
ContainersSettled == \A p \in Declared : \A u \in Units : \A c \in p.containers[u] :
                       Resolve(p, Resolve(p, c)) = Resolve(p, c)

(* What is sorted is a topological order of the graph, and what is left     *)
(* over holds a cycle.                                                      *)
LEMMA SortIsSound == ASSUME dag = BuildDAG(proj) PROVE SortIsTopological
<1>0. PICK o \in Seq(Units) : o = dag.order
  BY DagSound DEF Topo
<1>1. /\ Cardinality(Range(o)) = Len(o)
      /\ \A i \in 1 .. Len(o) : graph[o[i]] \subseteq {o[j] : j \in 1 .. i - 1}
      /\ graph \in Graphs /\ ReadyUnits(graph, Range(o)) = {} /\ DOMAIN o = 1 .. Len(o) /\ Len(o) \in Nat
  BY <1>0, DagSound DEF Topo, Prefix
<1>2. PICK left \in SUBSET Units : left = Units \ Range(o)
  OBVIOUS
<1>3. ASSUME NEW u \in left PROVE graph[u] \intersect left # {}
  <2>1. ~(graph[u] \subseteq Range(o))
    BY <1>1, <1>2 DEF ReadyUnits
  <2>2. graph[u] \subseteq Units
    BY <1>1 DEF Graphs
  <2> QED
    BY <1>2, <2>1, <2>2
<1>4. ASSUME Acyclic(graph), left # {} PROVE FALSE
  <2>1. PICK u \in left : graph[u] \intersect left = {}
    BY <1>4 DEF Acyclic
  <2> QED
    BY <1>3, <2>1
<1>5. ASSUME left = {}, NEW S \in (SUBSET Units) \ {{}} PROVE \E u \in S : graph[u] \intersect S = {}
  <2>1. PICK B \in SUBSET Nat : B = {k \in 1 .. Len(o) : o[k] \in S}
    <3>1. 1 .. Len(o) \subseteq Nat
      OBVIOUS
    <3> QED
      BY <3>1
  <2>2. B # {}
    <3>1. PICK u \in S : u \in Range(o)
      BY <1>2, <1>5
    <3>2. PICK k \in 1 .. Len(o) : o[k] = u
      BY <1>1, <3>1 DEF Range
    <3> QED
      BY <2>1, <3>1, <3>2
  <2>3. PICK k \in B : \A j \in B : k <= j
    BY <2>2, LeastExists
  <2>4. k \in 1 .. Len(o) /\ o[k] \in S
    BY <2>1
  <2>5. ASSUME NEW x \in graph[o[k]], x \in S PROVE FALSE
    <3>1. PICK j \in 1 .. k - 1 : x = o[j]
      BY <1>1, <2>4
    <3>2. j \in 1 .. Len(o) /\ ~(k <= j)
      BY <2>4, <3>1
    <3> QED
      BY <2>1, <2>3, <2>5, <3>1, <3>2
  <2> QED
    BY <2>4, <2>5
<1>6. (left = {}) <=> Acyclic(graph)
  BY <1>4, <1>5 DEF Acyclic
<1>7. \A i \in DOMAIN o : graph[o[i]] \subseteq {o[j] : j \in 1 .. i - 1}
  BY <1>1
<1>8. /\ Cardinality(Range(o)) = Len(o)
      /\ \A i \in DOMAIN o : graph[o[i]] \subseteq {o[j] : j \in 1 .. i - 1}
      /\ (Units \ Range(o) = {}) <=> Acyclic(graph)
      /\ \A u \in Units \ Range(o) : graph[u] \intersect (Units \ Range(o)) # {}
  BY ONLY <1>1, <1>2, <1>3, <1>6, <1>7
<1> QED
  <2>1. SUFFICES /\ Cardinality(Range(dag.order)) = Len(dag.order)
                 /\ \A i \in DOMAIN dag.order : graph[dag.order[i]] \subseteq {dag.order[j] : j \in 1 .. i - 1}
                 /\ (Units \ Range(dag.order) = {}) <=> Acyclic(graph)
                 /\ \A u \in Units \ Range(dag.order) : graph[u] \intersect (Units \ Range(dag.order)) # {}
    BY DEF SortIsTopological
  <2>2. \A i \in DOMAIN dag.order : graph[dag.order[i]] \subseteq {dag.order[j] : j \in 1 .. i - 1}
    <3>1. ASSUME NEW i \in DOMAIN dag.order PROVE graph[dag.order[i]] \subseteq {dag.order[j] : j \in 1 .. i - 1}
      <4>1. {dag.order[j] : j \in 1 .. i - 1} = {o[j] : j \in 1 .. i - 1}
        BY ONLY <1>0
      <4>2. i \in DOMAIN o /\ dag.order[i] = o[i]
        BY ONLY <1>0, <3>1
      <4>3. graph[o[i]] \subseteq {o[j] : j \in 1 .. i - 1}
        BY ONLY <1>7, <4>2, Zenon
      <4> QED
        BY ONLY <4>1, <4>2, <4>3, Zenon
    <3> QED
      BY ONLY <3>1, Zenon
  <2> QED
    BY ONLY <1>0, <1>8, <2>2

(* A build order holds what its units are built from and built in, and what *)
(* their declared dependencies run on.                                      *)
LEMMA OrderIsSound ==
  ASSUME proj \in Declared, dag = BuildDAG(proj), ProvidersAreUnits, ContainersSettled
  PROVE  OrderIsClosed
<1>g. graph = Dag(proj)
  BY DEF graph, BuildDAG
<1>1. SUFFICES ASSUME NEW u \in Units, NEW order, order = dag.below[u] \union {u},
                      NEW runsOn, runsOn = [v \in Units |-> IF v = u THEN {} ELSE proj.runtime[v] \intersect Units]
               PROVE  /\ order = Closure(graph, {u})
                      /\ ContainerDeps(proj, u) \subseteq order
                      /\ proj.class[u] # "image" =>
                           \A d \in Closure(runsOn, proj.deps[u] \intersect Units) \ {u} : Resolve(proj, d) \in order
  BY DEF OrderIsClosed
<1>2. /\ order \in SUBSET Units /\ u \in order /\ graph[u] \subseteq order
      /\ \A t \in order : graph[t] \subseteq order
      /\ \A T \in SUBSET Units : u \in T /\ (\A t \in T : graph[t] \subseteq T) => order \subseteq T
  BY <1>1, DagSound
<1>3. order = Closure(graph, {u})
  <2>1. ASSUME NEW x \in order PROVE x \in Closure(graph, {u})
    BY <1>2, <2>1 DEF Closure
  <2>2. ASSUME NEW x \in Closure(graph, {u}) PROVE x \in order
    BY <1>2, <2>2 DEF Closure
  <2> QED
    BY <2>1, <2>2
<1>d. PICK declared : declared = proj.deps[u] \union ContainerDeps(proj, u)
                                   \union (IF proj.class[u] = "image" THEN proj.artifacts[u] ELSE {})
  OBVIOUS
<1>a. PICK all : all = IF proj.class[u] = "image" THEN declared ELSE RuntimeClosure(proj, u, declared)
  OBVIOUS
<1>4. graph[u] = {Resolve(proj, d) : d \in all} \intersect Units
  BY <1>g, <1>d, <1>a DEF Dag, DagDeps
<1>5. declared \subseteq all
  BY <1>a, RuntimeSound
<1>6. ASSUME NEW c \in ContainerDeps(proj, u) PROVE c \in order
  <2>1. c \in all /\ c \in Units
    BY <1>d, <1>5 DEF ContainerDeps
  <2>2. PICK n \in proj.containers[u] : c = Resolve(proj, n)
    BY DEF ContainerDeps
  <2>3. Resolve(proj, c) = c
    BY <2>2 DEF ContainersSettled
  <2> QED
    BY <1>2, <1>4, <2>1, <2>3
<1>7. ASSUME proj.class[u] # "image", NEW d \in Closure(runsOn, proj.deps[u] \intersect Units) \ {u}
      PROVE  Resolve(proj, d) \in order
  <2>0. all = RuntimeClosure(proj, u, declared)
    BY <1>a, <1>7
  <2>1. PICK T \in SUBSET Units : T = (all \intersect Units) \union {u}
    OBVIOUS
  <2>2. proj.deps[u] \intersect Units \subseteq T
    BY <1>d, <1>5, <2>1
  <2>3. ASSUME NEW t \in T PROVE runsOn[t] \subseteq T
    <3>1. CASE t = u
      BY <1>1, <3>1
    <3>2. CASE t # u
      <4>1. t \in all \intersect Units /\ t \in Units
        BY <2>1, <3>2
      <4>2. (proj.runtime[t] \intersect Units) \ {u} \subseteq all
        BY <2>0, <4>1, RuntimeSound
      <4>3. runsOn[t] = proj.runtime[t] \intersect Units
        BY <1>1, <3>2, <4>1
      <4> QED
        BY <2>1, <4>2, <4>3
    <3> QED
      BY <3>1, <3>2
  <2>4. d \in Units /\ d \in T /\ d # u
    BY <1>7, <2>2, <2>3 DEF Closure
  <2>5. d \in all /\ Resolve(proj, d) \in Units
    BY <2>1, <2>4 DEF ProvidersAreUnits, Resolve
  <2> QED
    BY <1>2, <1>4, <2>5
<1> QED
  BY <1>3, <1>6, <1>7

Statuses == {"none", "building", "failed", "cancelled", "complete"}

(* The types, with the shape of the stores they need. *)
TypeInv == InvShape /\ proj \in Declared /\ CacheTypeOK

LEMMA TypeInit == CacheInit => TypeInv
<1> SUFFICES ASSUME CacheInit PROVE TypeInv
  OBVIOUS
<1>1. InvShape
  BY FreshInit DEF FreshInv
<1>2. Range(dag.order) \subseteq Units
  BY <1>1, DagSound, RangeOf DEF InvShape, Topo
<1>3. run.reuse = {} /\ run.done = {} /\ run.rebuilt = {}
  BY DEF CacheInit, Unbuilt, NoRun
<1> QED
  BY <1>1, <1>2, <1>3, CacheAssumption DEF TypeInv, CacheTypeOK, Results, CacheInit, Unbuilt

LEMMA TypeStep == TypeInv /\ [CacheNext]_cacheVars => TypeInv'
<1> SUFFICES ASSUME TypeInv, [CacheNext]_cacheVars PROVE TypeInv'
  OBVIOUS
<1>0. /\ UNCHANGED <<proj, dag>> /\ dag = BuildDAG(proj) /\ DOMAIN run = RunFields /\ DOMAIN meta = Units
      /\ DOMAIN art = Units
  BY DEF TypeInv, InvShape, CacheNext, cacheVars, StartRun, Edit, LosePackage, ServeCached, BuildUnit,
         BuildFails, Interrupt, Finish
<1>1. proj' \in Declared /\ dag' = BuildDAG(proj') /\ Range(dag'.order) \subseteq Units
  BY <1>0 DEF TypeInv, CacheTypeOK
<1>p. {u \in Units : IsPackage(u)'} = {u \in Units : IsPackage(u)}
  BY <1>0 DEF IsPackage
<1> DEFINE Runs(r) == DOMAIN r = RunFields /\ r.reuse \subseteq r.order /\ r.done \subseteq r.order /\ r.rebuilt \subseteq r.done
           Metas(m) == DOMAIN m = Units /\ \A u \in Units : m[u].status \in Statuses
           Pools(q) == q \subseteq {u \in Units : IsPackage(u)}
<1>2. ASSUME def' \in [Units -> {1, 2}], Metas(meta'), DOMAIN art' = Units, Pools(pool'), Runs(run'),
             result' \in Results, edits' \in 0 .. MaxEdits, runs' \in 0 .. MaxRuns
      PROVE  TypeInv'
  BY <1>1, <1>2, <1>p DEF TypeInv, InvShape, CacheTypeOK, Statuses
<1>3. /\ def \in [Units -> {1, 2}] /\ Metas(meta) /\ DOMAIN art = Units /\ Pools(pool) /\ Runs(run)
      /\ result \in Results /\ edits \in 0 .. MaxEdits /\ runs \in 0 .. MaxRuns
  BY <1>0 DEF TypeInv, CacheTypeOK, Statuses
<1> HIDE DEF Runs, Metas, Pools
<1>4. ASSUME NEW names \in Targets, NEW force \in BOOLEAN, StartRun(names, force) PROVE TypeInv'
  <2>1. UNCHANGED <<def, meta, art, pool, edits>> /\ result' \in Results
    BY <1>4 DEF StartRun, Results
  <2>2. runs' \in 0 .. MaxRuns
    BY <1>3, <1>4, CacheAssumption DEF StartRun
  <2>3. Runs(run')
    <3>1. CASE run' = NoRun
      BY <3>1 DEF Runs, NoRun, RunFields
    <3>2. CASE run' # NoRun
      <4>1. PICK order, h, reuse :
              run' = [order |-> order, defs |-> def, hash |-> h, done |-> {}, rebuilt |-> {},
                      reuse |-> {u \in order : CacheValid(u, h[u]) /\ ~(force /\ (names = {} \/ u \in names))}]
        BY <1>4, <3>2 DEF StartRun
      <4>2. PICK some : some = {u \in order : CacheValid(u, h[u]) /\ ~(force /\ (names = {} \/ u \in names))}
        OBVIOUS
      <4>3. some \subseteq order
        BY <4>2
      <4>4. run' = [order |-> order, defs |-> def, hash |-> h, done |-> {}, rebuilt |-> {}, reuse |-> some]
        BY <4>1, <4>2
      <4> QED
        BY ONLY <4>3, <4>4 DEF Runs, RunFields
    <3> QED
      BY <3>1, <3>2
  <2> QED
    BY <1>2, <1>3, <2>1, <2>2, <2>3
<1>5. ASSUME NEW u \in Units, Edit(u) PROVE TypeInv'
  <2>1. def' \in [Units -> {1, 2}]
    BY <1>3, <1>5 DEF Edit
  <2>2. edits' \in 0 .. MaxEdits
    BY <1>3, <1>5, CacheAssumption DEF Edit
  <2> QED
    BY <1>2, <1>3, <1>5, <2>1, <2>2 DEF Edit
<1>6. ASSUME NEW u \in Units, LosePackage(u) PROVE TypeInv'
  <2>1. Pools(pool')
    BY <1>3, <1>6 DEF LosePackage, Pools
  <2> QED
    BY <1>2, <1>3, <1>6, <2>1 DEF LosePackage
<1>7. ASSUME NEW u \in Units, run.done \union {u} \subseteq run.order,
             run' = [run EXCEPT !.done = @ \union {u}] \/
             run' = [run EXCEPT !.done = @ \union {u}, !.rebuilt = @ \union {u}]
      PROVE  Runs(run')
  <2>1. PICK done : done = run.done \union {u}
    OBVIOUS
  <2>2. PICK rebuilt : rebuilt = run.rebuilt \union {u}
    OBVIOUS
  <2>3. run' = [run EXCEPT !.done = done] \/ run' = [run EXCEPT !.done = done, !.rebuilt = rebuilt]
    BY <1>7, <2>1, <2>2
  <2>4. /\ run.reuse \subseteq run.order /\ done \subseteq run.order
        /\ run.rebuilt \subseteq done /\ rebuilt \subseteq done
    BY <1>3, <1>7, <2>1, <2>2 DEF Runs
  <2> QED
    BY <1>0, <2>3, <2>4 DEF Runs, RunFields
<1>8. ASSUME NEW u \in Units, Turn(u) PROVE run.done \union {u} \subseteq run.order
  BY <1>3, <1>8 DEF Turn, Runs
<1>9. ASSUME NEW u \in Units PROVE Pools(Published(u))
  BY <1>3 DEF Pools, Published, IsPackage
<1>10. ASSUME NEW u \in Units, NEW s \in Statuses, NEW h, meta' = [meta EXCEPT ![u] = [status |-> s, hash |-> h]]
       PROVE  Metas(meta')
  BY <1>0, <1>3, <1>10 DEF Metas
<1>11. ASSUME NEW u \in Units, ServeCached(u) PROVE TypeInv'
  <2>1. Runs(run')
    BY <1>7, <1>8, <1>11 DEF ServeCached
  <2> QED
    BY <1>2, <1>3, <1>11, <2>1 DEF ServeCached
<1>12. ASSUME NEW u \in Units, BuildUnit(u) PROVE TypeInv'
  <2>1. Runs(run')
    BY <1>7, <1>8, <1>12 DEF BuildUnit
  <2>2. Metas(meta')
    BY <1>10, <1>12 DEF BuildUnit, Statuses
  <2>3. DOMAIN art' = Units /\ Pools(pool')
    BY <1>0, <1>9, <1>12 DEF BuildUnit
  <2> QED
    BY <1>2, <1>3, <1>12, <2>1, <2>2, <2>3 DEF BuildUnit
<1>13. ASSUME NEW u \in Units, BuildFails(u) PROVE TypeInv'
  <2>1. Metas(meta')
    BY <1>10, <1>13 DEF BuildFails, Statuses
  <2>2. DOMAIN art' = Units /\ Pools(pool')
    BY <1>0, <1>3, <1>9, <1>13 DEF BuildFails
  <2> QED
    BY <1>2, <1>3, <1>13, <2>1, <2>2 DEF BuildFails, Results
<1>14. ASSUME Interrupt \/ Finish PROVE TypeInv'
  BY <1>2, <1>3, <1>14 DEF Interrupt, Finish, Results
<1>15. CASE UNCHANGED cacheVars
  BY <1>2, <1>3, <1>15 DEF cacheVars
<1> QED
  BY <1>4, <1>5, <1>6, <1>11, <1>12, <1>13, <1>14, <1>15 DEF CacheNext

(* For every project whose provided names end at a unit: TopologicalSort     *)
(* names every unit once and after what it depends on, or leaves a cycle;    *)
(* the units BuildUnits schedules for a name are the least closed set around *)
(* it and hold its containers and what its dependencies run on; and the      *)
(* stores and the run keep their types.                                      *)
THEOREM OrderInvHolds == ASSUME ProvidersAreUnits, ContainersSettled PROVE CacheSpec => []OrderInv
<1>1. CacheInit => TypeInv
  BY TypeInit
<1>2. TypeInv /\ [CacheNext]_cacheVars => TypeInv'
  BY TypeStep
<1>3. TypeInv => OrderInv
  BY SortIsSound, OrderIsSound DEF TypeInv, InvShape, OrderInv
<1> QED
  BY <1>1, <1>2, <1>3, PTL DEF CacheSpec


-----------------------------------------------------------------------------
(* The package repository *)

(* Publishing counts up, so a file replaced since a command started has     *)
(* another content than it had then.                                        *)
CountsUp == \A f \in Files : disk[f] <= built[f] /\ base[f] <= built[f]

(* A refresh deletes nothing, and the directories it is done with list what *)
(* has not changed since.                                                   *)
RefreshSoFar ==
    op.kind = "refresh" =>
        /\ op.scan = {}
        /\ \A d \in op.seen \ op.dirty, f \in Files :
             disk[f] # 0 /\ disk[f] = base[f] /\ Home[f] \in {d, NoArch} =>
                 index[d][f] = disk[f]

(* A Clean deleted the stale files of the directories it has read, and      *)
(* nothing else.                                                            *)
CleanSoFar ==
    op.kind = "clean" =>
        /\ op.victims = Files \ op.kept
        /\ \A f \in Files : base[f] # 0 /\ disk[f] \in {0, base[f]} =>
             /\ f \in op.kept => disk[f] # 0
             /\ f \notin op.kept /\ Home[f] \in op.seen \ op.scan => disk[f] = 0

(* What a command that ended leaves: its dirty and scan sets are empty. *)
Ended == last \in {"refresh", "clean"} => op.scan = {} /\ op.dirty = {} /\ op.kind = "none"

(* The inductive invariant. *)
RInv == TypeOK /\ CountsUp /\ RefreshSoFar /\ CleanSoFar /\ Ended /\ RefreshListsAll /\ CleanExact

(* The invariant holds initially. *)
LEMMA InitRInv == Init => RInv
  BY RepoAssumption DEF Init, RInv, TypeOK, Contents, Kinds, Absent, NoOp, CountsUp, RefreshSoFar,
     CleanSoFar, Ended, RefreshListsAll, CleanExact

(* Types are preserved. *)
LEMMA NextType == TypeOK /\ [Next]_vars => TypeOK'
<1> SUFFICES ASSUME TypeOK, [Next]_vars PROVE TypeOK'
  OBVIOUS
<1> USE RepoAssumption DEF TypeOK, Contents, Kinds
<1>1. CASE EditProject
  BY <1>1 DEF EditProject
<1>2. ASSUME NEW f \in Files, Publish(f) PROVE TypeOK'
  <2>1. built' \in Contents /\ disk' \in Contents
    BY <1>2 DEF Publish
  <2>2. \A g \in Files : disk'[g] # 0 => Home[g] \in dirs'
    BY <1>2 DEF Publish
  <2> QED
    BY <1>2, <2>1, <2>2 DEF Publish
<1>3. CASE GenerateAllIndexes
  BY <1>3 DEF GenerateAllIndexes, Start
<1>4. CASE Clean
  BY <1>4 DEF Clean, Start
<1>5. ASSUME NEW n \in Names, RemovePackages(n) PROVE TypeOK'
  BY <1>5 DEF RemovePackages, Start
<1>6. ASSUME NEW d \in Dirs, DeleteIn(d) PROVE TypeOK'
  <2>1. disk' \in Contents /\ \A f \in Files : disk'[f] # 0 => disk[f] # 0
    BY <1>6 DEF DeleteIn, Without
  <2>2. \E hit \in {{}, {d}} :
          op' = [op EXCEPT !.scan = @ \ {d}, !.dirty = @ \union hit, !.touched = @ \union hit]
    BY <1>6 DEF DeleteIn
  <2> QED
    BY <1>6, <2>1, <2>2 DEF DeleteIn
<1>7. ASSUME NEW d \in Dirs, DeleteFails(d) PROVE TypeOK'
  <2>1. PICK S \in SUBSET Victims(d) : disk' = Without(S)
    BY <1>7 DEF DeleteFails
  <2>2. disk' \in Contents /\ \A f \in Files : disk'[f] # 0 => disk[f] # 0
    BY <2>1 DEF Without
  <2> QED
    BY <1>7, <2>2 DEF DeleteFails, NoOp
<1>8. ASSUME NEW d \in Dirs, IndexDir(d) PROVE TypeOK'
  <2>1. GenerateIndex(d) \in Contents
    BY DEF GenerateIndex, Listing
  <2> QED
    BY <1>8, <2>1 DEF IndexDir
<1>9. CASE NotFound
  BY <1>9 DEF NotFound, NoOp
<1>10. CASE Abort
  BY <1>10 DEF Abort, NoOp
<1>11. CASE Done
  BY <1>11 DEF Done
<1>12. CASE UNCHANGED vars
  BY <1>12 DEF vars
<1>13. ASSUME NEW d \in Dirs, SkipUnreadable(d) PROVE TypeOK'
  BY <1>13 DEF SkipUnreadable
<1> QED
  BY <1>1, <1>2, <1>3, <1>4, <1>5, <1>6, <1>7, <1>8, <1>9, <1>10, <1>11, <1>12, <1>13 DEF Next

(* Every step preserves the invariant. *)
LEMMA NextRInv == RInv /\ [Next]_vars => RInv'
<1> SUFFICES ASSUME RInv, [Next]_vars PROVE RInv'
  OBVIOUS
<1>0. TypeOK' /\ TypeOK
  BY NextType DEF RInv
<1> USE <1>0, RepoAssumption DEF RInv, Contents, Kinds
<1>1. CASE EditProject
  BY <1>1 DEF EditProject, TypeOK, CountsUp, RefreshSoFar, CleanSoFar, Ended, RefreshListsAll, CleanExact
<1>2. ASSUME NEW g \in Files, Publish(g) PROVE RInv'
  <2>1. /\ UNCHANGED <<index, op, base, last>>
        /\ \A f \in Files : f # g => disk'[f] = disk[f] /\ built'[f] = built[f]
        /\ disk'[g] = built[g] + 1 /\ built'[g] = built[g] + 1
    BY <1>2 DEF Publish, TypeOK
  <2>2. CountsUp'
    BY <2>1, SMTT(20) DEF CountsUp, TypeOK
  <2>3. disk'[g] # base[g] /\ disk'[g] # 0
    BY <2>1 DEF CountsUp, TypeOK
  <2>4. RefreshSoFar' /\ RefreshListsAll'
    BY <2>1, <2>3 DEF RefreshSoFar, RefreshListsAll
  <2>5. CleanSoFar' /\ CleanExact' /\ Ended'
    BY <2>1, <2>3 DEF CleanSoFar, CleanExact, Ended
  <2> QED
    BY <2>2, <2>4, <2>5
<1>3. CASE GenerateAllIndexes
  BY <1>3 DEF GenerateAllIndexes, Start, TypeOK, CountsUp, RefreshSoFar, CleanSoFar, Ended,
     RefreshListsAll, CleanExact
<1>4. CASE Clean
  BY <1>4 DEF Clean, Start, TypeOK, CountsUp, RefreshSoFar, CleanSoFar, Ended, RefreshListsAll, CleanExact
<1>5. ASSUME NEW n \in Names, RemovePackages(n) PROVE RInv'
  BY <1>5 DEF RemovePackages, Start, TypeOK, CountsUp, RefreshSoFar, CleanSoFar, Ended, RefreshListsAll, CleanExact
<1>6. ASSUME NEW d \in Dirs, DeleteIn(d) PROVE RInv'
  <2>1. /\ UNCHANGED <<built, index, base, last>>
        /\ op'.kind = op.kind /\ op'.kept = op.kept /\ op'.seen = op.seen /\ op'.victims = op.victims
        /\ op'.scan = op.scan \ {d} /\ d \in op.scan
    BY <1>6 DEF DeleteIn, TypeOK
  <2>2. \A f \in Files : disk'[f] = IF f \in op.victims /\ Home[f] = d THEN 0 ELSE disk[f]
    BY <1>6 DEF DeleteIn, Without, Victims, TypeOK
  <2>3. CountsUp'
    BY <2>1, <2>2 DEF CountsUp, TypeOK
  <2>4. op.kind # "refresh" /\ last \notin {"refresh", "clean"}
    BY <2>1 DEF RefreshSoFar, Ended
  <2>5. CleanSoFar'
    BY <2>1, <2>2 DEF CleanSoFar, TypeOK
  <2> QED
    BY <2>1, <2>3, <2>4, <2>5 DEF RefreshSoFar, Ended, RefreshListsAll, CleanExact
<1>7. ASSUME NEW d \in Dirs, DeleteFails(d) PROVE RInv'
  <2>1. PICK S \in SUBSET Victims(d) : disk' = Without(S)
    BY <1>7 DEF DeleteFails
  <2>2. CountsUp'
    BY <1>7, <2>1 DEF DeleteFails, Without, CountsUp, TypeOK
  <2> QED
    BY <1>7, <2>2 DEF DeleteFails, NoOp, RefreshSoFar, CleanSoFar, Ended, RefreshListsAll, CleanExact
<1>8. ASSUME NEW d \in Dirs, IndexDir(d) PROVE RInv'
  <2>1. /\ UNCHANGED <<disk, built, base, last>>
        /\ op'.kind = op.kind /\ op'.kept = op.kept /\ op'.seen = op.seen /\ op'.victims = op.victims
        /\ op'.scan = op.scan /\ op'.dirty = op.dirty \ {d} /\ d \in op.dirty
    BY <1>8 DEF IndexDir, TypeOK
  <2>2. last \notin {"refresh", "clean"}
    BY <2>1 DEF Ended
  <2>3. /\ index'[d] = GenerateIndex(d)
        /\ \A e \in Dirs : e # d => index'[e] = index[e]
    BY <1>8 DEF IndexDir, TypeOK
  <2>4. \A f \in Files : disk[f] # 0 /\ Home[f] \in {d, NoArch} => index'[d][f] = disk[f]
    BY <2>3 DEF GenerateIndex, Listing, Absent, TypeOK
  <2>5. RefreshSoFar'
    BY <2>1, <2>3, <2>4 DEF RefreshSoFar, TypeOK
  <2> QED
    BY <2>1, <2>2, <2>5 DEF CountsUp, CleanSoFar, Ended, RefreshListsAll, CleanExact
<1>9. CASE NotFound
  BY <1>9 DEF NotFound, NoOp, CountsUp, RefreshSoFar, CleanSoFar, Ended, RefreshListsAll, CleanExact
<1>10. CASE Abort
  BY <1>10 DEF Abort, NoOp, CountsUp, RefreshSoFar, CleanSoFar, Ended, RefreshListsAll, CleanExact
<1>11. CASE Done
  <2>1. /\ UNCHANGED <<disk, built, index, base>> /\ last' = op.kind
        /\ op'.kind = "none" /\ op'.kept = op.kept /\ op'.seen = op.seen
        /\ op'.scan = {} /\ op'.dirty = {} /\ op.scan = {} /\ op.dirty = {}
    BY <1>11 DEF Done, TypeOK
  <2>2. RefreshListsAll'
    BY <2>1 DEF RefreshSoFar, RefreshListsAll
  <2>3. CleanExact'
    BY <2>1 DEF CleanSoFar, CleanExact
  <2> QED
    BY <2>1, <2>2, <2>3 DEF CountsUp, RefreshSoFar, CleanSoFar, Ended
<1>12. CASE UNCHANGED vars
  BY <1>12 DEF vars, TypeOK, CountsUp, RefreshSoFar, CleanSoFar, Ended, RefreshListsAll, CleanExact
<1>13. ASSUME NEW d \in Dirs, SkipUnreadable(d) PROVE RInv'
  <2>1. /\ UNCHANGED <<disk, built, index, base, last>> /\ d \in op.scan
        /\ op'.kind = op.kind /\ op'.kept = op.kept /\ op'.victims = op.victims
        /\ op'.seen = op.seen \ {d} /\ op'.scan = op.scan \ {d}
    BY <1>13 DEF SkipUnreadable, TypeOK
  <2>2. op.kind # "refresh" /\ last \notin {"refresh", "clean"}
    BY <2>1 DEF RefreshSoFar, Ended
  <2> QED
    BY <2>1, <2>2 DEF CountsUp, RefreshSoFar, CleanSoFar, Ended, RefreshListsAll, CleanExact
<1> QED
  BY <1>1, <1>2, <1>3, <1>4, <1>5, <1>6, <1>7, <1>8, <1>9, <1>10, <1>11, <1>12, <1>13 DEF Next

(* The invariant of the repository's commands. *)
THEOREM RepoInvariant == Spec => []RInv
<1>1. Init => RInv
  BY InitRInv
<1>2. RInv /\ [Next]_vars => RInv'
  BY NextRInv
<1> QED
  BY <1>1, <1>2, PTL DEF Spec

(* Type correctness; a file's directory always exists. *)
THEOREM RepoTypeCorrect == Spec => []TypeOK
  BY RepoInvariant, PTL DEF RInv

(* GenerateAllIndexes lists every package that stayed in the repository     *)
(* while it ran, noarch ones in every arch's index, whatever is published   *)
(* concurrently.                                                            *)
THEOREM RefreshListsAllHolds == Spec => []RefreshListsAll
  BY RepoInvariant, PTL DEF RInv

(* Clean leaves the packages of current units, and no others where it could *)
(* read the directory.                                                      *)
THEOREM CleanExactHolds == Spec => []CleanExact
  BY RepoInvariant, PTL DEF RInv

-----------------------------------------------------------------------------
(* The index of a directory lists no deleted file, as long as a package     *)
(* that was there when the command started is left to list.                 *)
Swept(d) ==
    (\E f \in Files : Listing(d)[f] # 0 /\ disk[f] = base[f]) =>
        \A f \in Files : index[d][f] # 0 => disk[f] # 0

(* A directory that was deleted from waits for its new index until the last *)
(* one is scanned, and has been swept once it no longer waits.              *)
SweptSoFar ==
    op.kind \in {"remove", "clean"} =>
        /\ op.scan # {} => op.touched \subseteq op.dirty
        /\ \A d \in op.touched \ op.dirty : Swept(d)

RemoveEnded == last = "remove" => op.scan = {} /\ op.dirty = {} /\ op.kind = "none"

(* The invariant behind TouchedIndexSound. *)
TouchInv == SweptSoFar /\ RemoveEnded /\ TouchedIndexSound

(* A package a build publishes is not one that was there when the command   *)
(* started, so publishing leaves a swept directory swept.                   *)
LEMMA PublishKeepsSwept ==
  ASSUME RInv, NEW g \in Files, Publish(g), NEW d \in Dirs, Swept(d)
  PROVE  Swept(d)'
<1> USE RepoAssumption DEF RInv, TypeOK, Contents
<1>1. /\ UNCHANGED <<index, base>>
      /\ \A f \in Files : f # g => disk'[f] = disk[f]
      /\ disk'[g] = built[g] + 1
  BY DEF Publish
<1>2. disk'[g] # base[g] /\ disk'[g] # 0
  BY <1>1 DEF CountsUp
<1>3. SUFFICES ASSUME NEW f \in Files, Listing(d)'[f] # 0, disk'[f] = base[f]
               PROVE  \A h \in Files : index'[d][h] # 0 => disk'[h] # 0
  BY <1>1 DEF Swept
<1>4. f # g
  BY <1>2, <1>3
<1>5. Listing(d)[f] # 0 /\ disk[f] = base[f]
  BY <1>1, <1>3, <1>4 DEF Listing
<1>6. \A h \in Files : index[d][h] # 0 => disk[h] # 0
  BY <1>5 DEF Swept
<1> QED
  BY <1>1, <1>2, <1>6

(* A directory just indexed is swept: GenerateIndex lists what is on disk,  *)
(* and when it finds nothing to list there is nothing of it left.           *)
LEMMA IndexSweeps ==
  ASSUME TypeOK, NEW d \in Dirs, IndexDir(d)
  PROVE  Swept(d)'
<1> USE RepoAssumption DEF TypeOK, Contents
<1>1. UNCHANGED <<disk, base>> /\ index'[d] = GenerateIndex(d)
  BY DEF IndexDir
<1>2. Listing(d)' = Listing(d)
  BY <1>1 DEF Listing
<1>3. CASE Listing(d) = Absent
  <2>1. \A f \in Files : Listing(d)[f] = 0
    BY <1>3 DEF Absent
  <2> QED
    BY <1>2, <2>1 DEF Swept
<1>4. CASE Listing(d) # Absent
  <2>1. index'[d] = Listing(d)
    BY <1>1, <1>4 DEF GenerateIndex
  <2>2. \A f \in Files : Listing(d)[f] # 0 => disk[f] # 0
    BY DEF Listing
  <2> QED
    BY <1>1, <2>1, <2>2 DEF Swept
<1> QED
  BY <1>3, <1>4

(* A step that leaves the files and the index of a directory alone leaves   *)
(* it swept.                                                                *)
LEMMA SweptKept ==
  ASSUME NEW d \in Dirs, Swept(d), UNCHANGED <<disk, base>>, index'[d] = index[d]
  PROVE  Swept(d)'
<1>1. Listing(d)' = Listing(d)
  BY DEF Listing
<1> QED
  BY <1>1 DEF Swept

(* Every step preserves the invariant of the touched directories. *)
LEMMA NextTouchInv == RInv /\ TouchInv /\ [Next]_vars => TouchInv'
<1> SUFFICES ASSUME RInv, TouchInv, [Next]_vars PROVE TouchInv'
  OBVIOUS
<1>0. TypeOK /\ TypeOK'
  BY NextType DEF RInv
<1>a. TouchedIndexSound <=> (last \in {"remove", "clean"} => \A d \in op.touched : Swept(d))
  BY DEF TouchedIndexSound, Swept
<1>b. TouchedIndexSound' <=> (last' \in {"remove", "clean"} => \A d \in op'.touched : Swept(d)')
  BY DEF TouchedIndexSound, Swept
<1>c. op.touched \subseteq Dirs /\ op'.touched \subseteq Dirs
  BY <1>0 DEF TypeOK
<1>d. last \in {"remove", "clean"} => op.scan = {} /\ op.dirty = {} /\ op.kind = "none"
  BY DEF TouchInv, RemoveEnded, RInv, Ended
<1>e. ASSUME UNCHANGED <<op, last>>, \A d \in Dirs : Swept(d) => Swept(d)'
      PROVE  TouchInv'
  BY <1>a, <1>b, <1>c, <1>e DEF TouchInv, SweptSoFar, RemoveEnded
<1>1. CASE EditProject \/ UNCHANGED vars
  <2>1. UNCHANGED <<op, last, disk, base, index>>
    BY <1>1 DEF EditProject, vars
  <2> QED
    BY <1>e, <2>1, SweptKept
<1>2. ASSUME NEW g \in Files, Publish(g) PROVE TouchInv'
  <2>1. UNCHANGED <<op, last>>
    BY <1>2 DEF Publish
  <2> QED
    BY <1>2, <1>e, <2>1, PublishKeepsSwept
<1>3. ASSUME NEW k, NEW V, NEW S, NEW D, Start(k, V, S, D) PROVE TouchInv'
  <2>1. last' = "none" /\ op'.touched = {}
    BY <1>3 DEF Start
  <2> QED
    BY <1>b, <2>1 DEF TouchInv, SweptSoFar, RemoveEnded
<1>4. ASSUME NEW d \in Dirs, DeleteIn(d) PROVE TouchInv'
  <2>1. d \in op.scan /\ last' = last /\ op'.kind = op.kind
    BY <1>0, <1>4 DEF DeleteIn, TypeOK
  <2>2. last \notin {"remove", "clean"}
    BY <1>d, <2>1
  <2>3. \E hit \in {{}, {d}} :
          op'.dirty = op.dirty \union hit /\ op'.touched = op.touched \union hit
    BY <1>0, <1>4 DEF DeleteIn, TypeOK
  <2>4. op.kind \in {"remove", "clean"} => op'.touched \subseteq op'.dirty
    BY <2>1, <2>3 DEF TouchInv, SweptSoFar
  <2> QED
    BY <1>b, <2>1, <2>2, <2>4 DEF TouchInv, SweptSoFar, RemoveEnded
<1>5. ASSUME NEW d \in Dirs, IndexDir(d) PROVE TouchInv'
  <2>1. /\ UNCHANGED <<disk, base, last>>
        /\ op'.kind = op.kind /\ op'.touched = op.touched
        /\ op'.scan = {} /\ op'.dirty = op.dirty \ {d} /\ d \in op.dirty
        /\ \A e \in Dirs : e # d => index'[e] = index[e]
    BY <1>0, <1>5 DEF IndexDir, TypeOK
  <2>2. last \notin {"remove", "clean"}
    BY <1>d, <2>1
  <2>3. Swept(d)'
    BY <1>0, <1>5, IndexSweeps
  <2>4. \A e \in Dirs : e # d /\ Swept(e) => Swept(e)'
    BY <2>1, SweptKept
  <2>5. op.kind \in {"remove", "clean"} => \A e \in op'.touched \ op'.dirty : Swept(e)'
    BY <1>c, <2>1, <2>3, <2>4 DEF TouchInv, SweptSoFar
  <2> QED
    BY <1>b, <2>1, <2>2, <2>5 DEF TouchInv, SweptSoFar, RemoveEnded
<1>6. CASE Abort \/ NotFound \/ \E d \in Dirs : DeleteFails(d)
  <2>1. last' = "error" /\ op'.kind = "none"
    BY <1>6 DEF Abort, NotFound, DeleteFails, NoOp
  <2> QED
    BY <1>b, <2>1 DEF TouchInv, SweptSoFar, RemoveEnded
<1>7. CASE Done
  <2>1. /\ UNCHANGED <<disk, base, index>> /\ last' = op.kind
        /\ op'.kind = "none" /\ op'.touched = op.touched
        /\ op'.scan = {} /\ op'.dirty = {} /\ op.scan = {} /\ op.dirty = {}
    BY <1>0, <1>7 DEF Done, TypeOK
  <2>2. \A d \in Dirs : Swept(d) => Swept(d)'
    BY <2>1, SweptKept
  <2>3. last' \in {"remove", "clean"} => \A d \in op'.touched : Swept(d)'
    BY <1>c, <2>1, <2>2 DEF TouchInv, SweptSoFar
  <2> QED
    BY <1>b, <2>1, <2>3 DEF TouchInv, SweptSoFar, RemoveEnded
<1>8. CASE GenerateAllIndexes \/ Clean \/ \E n \in Names : RemovePackages(n)
  BY <1>3, <1>8 DEF GenerateAllIndexes, Clean, RemovePackages
<1>9. ASSUME NEW d \in Dirs, SkipUnreadable(d) PROVE TouchInv'
  <2>1. /\ UNCHANGED <<disk, base, index, last>> /\ d \in op.scan
        /\ op'.kind = op.kind /\ op'.touched = op.touched /\ op'.dirty = op.dirty
    BY <1>0, <1>9 DEF SkipUnreadable, TypeOK
  <2>2. last \notin {"remove", "clean"}
    BY <1>d, <2>1
  <2>3. \A e \in Dirs : Swept(e) => Swept(e)'
    BY <2>1, SweptKept
  <2>4. op.kind \in {"remove", "clean"} => /\ op'.touched \subseteq op'.dirty
                                          /\ \A e \in op'.touched \ op'.dirty : Swept(e)'
    BY <2>1 DEF TouchInv, SweptSoFar
  <2> QED
    BY <1>b, <2>1, <2>2, <2>4 DEF TouchInv, SweptSoFar, RemoveEnded
<1> QED
  BY <1>1, <1>2, <1>4, <1>5, <1>6, <1>7, <1>8, <1>9 DEF Next

(* When Remove or Clean succeeded, no index of a directory it deleted from  *)
(* lists a deleted file while a package of before is left to list, whatever *)
(* builds publish meanwhile and afterwards.                                 *)
THEOREM TouchedIndexSoundHolds == Spec => []TouchedIndexSound
<1>1. Init => TouchInv
  BY DEF Init, NoOp, TouchInv, SweptSoFar, RemoveEnded, TouchedIndexSound
<1> QED
  BY <1>1, RepoInvariant, NextTouchInv, PTL DEF Spec, TouchInv

==============================================================================
