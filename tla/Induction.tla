----------------------------- MODULE Induction ------------------------------
(***************************************************************************)
(* Induction over the natural numbers as facts about sets: every set of     *)
(* numbers that is not empty has a least member, and a recursive function   *)
(* over an initial segment exists.                                          *)
(***************************************************************************)
EXTENDS Positions, PortForwards, WellFoundedInduction, SequenceTheorems, FiniteSetTheorems, TLAPS

LEMMA LeastExists == ASSUME NEW S \in SUBSET Nat, S # {} PROVE \E x \in S : \A y \in S : x <= y
<1>1. IsWellFoundedOn(OpToRel(<, Nat), Nat)
  BY NatLessThanWellFounded
<1>2. PICK R : R = OpToRel(<, Nat)
  OBVIOUS
<1>3. PICK x \in S : \A y \in S : ~(<<y, x>> \in R)
  BY <1>1, <1>2, WFMin
<1>4. \A y \in S : x <= y
  <2> TAKE y \in S
  <2>1. x \in Nat /\ y \in Nat
    OBVIOUS
  <2>2. y < x => <<y, x>> \in R
    BY <1>2, <2>1 DEF OpToRel
  <2> QED
    BY <1>3, <2>1, <2>2
<1> QED
  BY <1>4

(* A set of numbers up to N that holds 0 and, with every number below N,    *)
(* the next one, holds them all.                                            *)
LEMMA StepByStep ==
  ASSUME NEW N \in Nat, NEW P, 0 \in P, \A n \in Nat : n < N /\ n \in P => n + 1 \in P
  PROVE  \A n \in 0 .. N : n \in P
<1> DEFINE Bad == {n \in 0 .. N : n \notin P}
<1>1. SUFFICES ASSUME Bad # {} PROVE FALSE
  OBVIOUS
<1>2. PICK S \in SUBSET Nat : S = Bad
  <2>1. 0 .. N \subseteq Nat
    OBVIOUS
  <2> QED
    BY <2>1
<1>3. PICK m \in S : \A n \in S : m <= n
  BY <1>1, <1>2, LeastExists
<1>4. m \in Nat /\ m <= N /\ m \notin P /\ m # 0
  BY <1>2, <1>3
<1>5. m - 1 \in Nat /\ m - 1 < N /\ m - 1 \notin S /\ m - 1 \in 0 .. N
  BY <1>3, <1>4
<1>6. m - 1 \in P /\ (m - 1) + 1 = m
  BY <1>2, <1>4, <1>5
<1> QED
  BY <1>4, <1>5, <1>6

(* A function over 0..N whose value at n comes from its value at n - 1      *)
(* exists: from the least n for which it would not, by adding one value to  *)
(* the one for n - 1.                                                       *)
Unrolls(f, V, v0, D, N) ==
    f \in [0 .. N -> V] /\ f = [n \in 0 .. N |-> IF n = 0 THEN v0 ELSE D[<<f[n - 1], n>>]]

LEMMA Recursion ==
  ASSUME NEW V, NEW v0 \in V, NEW D \in [V \X Nat -> V], NEW N \in Nat
  PROVE  \E f : Unrolls(f, V, v0, D, N)
<1> DEFINE Bad == {n \in Nat : ~\E f : Unrolls(f, V, v0, D, n)}
<1>1. SUFFICES ASSUME Bad # {} PROVE FALSE
  OBVIOUS
<1>2. PICK m \in Bad : \A n \in Bad : m <= n
  <2>1. Bad \in SUBSET Nat
    OBVIOUS
  <2>2. PICK S \in SUBSET Nat : S = Bad
    BY <2>1
  <2> QED
    BY <1>1, <2>2, LeastExists
<1>3. CASE m = 0
  <2>1. PICK f : f = [n \in 0 .. 0 |-> v0]
    OBVIOUS
  <2>2. Unrolls(f, V, v0, D, 0)
    BY <2>1 DEF Unrolls
  <2> QED
    BY <1>2, <1>3, <2>2
<1>4. CASE m > 0
  <2>1. m - 1 \in Nat /\ m - 1 \notin Bad
    BY <1>2, <1>4
  <2>2. PICK g : Unrolls(g, V, v0, D, m - 1)
    BY <2>1
  <2>3. PICK v \in V : v = D[<<g[m - 1], m>>]
    BY <1>4, <2>1, <2>2 DEF Unrolls
  <2>4. PICK f : f = [n \in 0 .. m |-> IF n = m THEN v ELSE g[n]]
    OBVIOUS
  <2>5. f \in [0 .. m -> V]
    BY <1>4, <2>1, <2>2, <2>4 DEF Unrolls
  <2>6. ASSUME NEW n \in 0 .. m PROVE f[n] = IF n = 0 THEN v0 ELSE D[<<f[n - 1], n>>]
    <3>1. CASE n = m
      <4>1. m \in 0 .. m /\ m - 1 \in 0 .. m /\ m - 1 # m /\ m # 0
        BY ONLY <1>4, <2>1
      <4>2. f[m] = v /\ f[m - 1] = g[m - 1]
        BY ONLY <2>4, <4>1
      <4> QED
        BY ONLY <2>3, <3>1, <4>1, <4>2
    <3>2. CASE n < m
      <4>1. n \in 0 .. (m - 1) /\ (n # 0 => n - 1 \in 0 .. m /\ n - 1 # m)
        BY <2>1, <3>2
      <4>2. g[n] = IF n = 0 THEN v0 ELSE D[<<g[n - 1], n>>]
        BY <2>2, <4>1 DEF Unrolls
      <4>3. f[n] = g[n] /\ (n # 0 => f[n - 1] = g[n - 1])
        BY ONLY <2>4, <3>2, <4>1, n \in 0 .. m, m \in Nat
      <4> QED
        BY ONLY <4>2, <4>3
    <3> QED
      BY <3>1, <3>2
  <2>7. Unrolls(f, V, v0, D, m)
    BY <2>5, <2>6 DEF Unrolls
  <2> QED
    BY <1>2, <2>7
<1> QED
  BY <1>2, <1>3, <1>4

(* What KeepAt keeps: the elements at the positions in K, all of them and   *)
(* in order.  f is where each of them was.                                  *)
Picks(f, t, s, K) ==
    /\ f \in [1 .. Len(t) -> K]
    /\ \A i \in 1 .. Len(t) : t[i] = s[f[i]]
    /\ \A i, j \in 1 .. Len(t) : i < j => f[i] < f[j]
    /\ \A k \in K : \E i \in 1 .. Len(t) : f[i] = k

(* g is the sequence kept after each of the positions. *)
Keeps(g, S, s, K) ==
    /\ KeepAt(s, K) = g[Len(s)] /\ g \in [0 .. Len(s) -> Seq(S)] /\ g[0] = <<>>
    /\ \A k \in 1 .. Len(s) : g[k] = IF k \in K THEN Append(g[k - 1], s[k]) ELSE g[k - 1]

LEMMA KeepAtUnrolls ==
  ASSUME NEW S, NEW s \in Seq(S), NEW K
  PROVE  \E g : Keeps(g, S, s, K)
<1> DEFINE V == Seq(S)
           Add(t, k) == IF k \in K /\ k \in 1 .. Len(s) THEN Append(t, s[k]) ELSE t
<1>n. PICK N \in Nat : N = Len(s)
  OBVIOUS
<1>1. <<>> \in V
  OBVIOUS
<1>2. ASSUME NEW t \in V, NEW k \in Nat PROVE Add(t, k) \in V
  <2>1. k \in 1 .. Len(s) => s[k] \in S
    OBVIOUS
  <2> QED
    BY <2>1
<1>3. PICK D \in [V \X Nat -> V] : \A t \in V, k \in Nat : D[<<t, k>>] = Add(t, k)
  <2>1. PICK D : D = [p \in V \X Nat |-> Add(p[1], p[2])]
    OBVIOUS
  <2> HIDE DEF V, Add
  <2>2. \A t \in V, k \in Nat : D[<<t, k>>] = Add(t, k)
    BY ONLY <2>1
  <2>3. \A p \in V \X Nat : D[p] \in V
    <3>1. \A p \in V \X Nat : p[1] \in V /\ p[2] \in Nat /\ p = <<p[1], p[2]>>
      OBVIOUS
    <3> QED
      BY ONLY <1>2, <2>2, <3>1
  <2>4. D \in [V \X Nat -> V]
    BY ONLY <2>1, <2>3
  <2> QED
    BY ONLY <2>2, <2>4
<1> HIDE DEF V
<1>4. PICK f : Unrolls(f, V, <<>>, D, N)
  BY <1>1, <1>n, Recursion
<1>5. f \in [0 .. N -> V] /\ \A k \in 0 .. N : f[k] = IF k = 0 THEN <<>> ELSE D[<<f[k - 1], k>>]
  BY <1>4 DEF Unrolls
<1>6. ASSUME NEW k \in 1 .. N PROVE k \in Nat /\ k # 0 /\ k \in 0 .. N /\ k - 1 \in 0 .. N
  BY <1>n
<1>7. ASSUME NEW k \in 1 .. N PROVE f[k] = IF k \in K THEN Append(f[k - 1], s[k]) ELSE f[k - 1]
  <2>1. f[k] = D[<<f[k - 1], k>>] /\ f[k - 1] \in V
    BY <1>5, <1>6
  <2>2. f[k] = Add(f[k - 1], k)
    BY <1>3, <1>6, <2>1
  <2> QED
    BY <1>n, <2>2
<1>8. f[0] = <<>>
  <2>1. 0 \in 0 .. N
    BY <1>n
  <2> QED
    BY <1>5, <2>1
<1> DEFINE F(g) == [k \in 0 .. N |-> IF k = 0 THEN <<>>
                                     ELSE IF k \in K THEN Append(g[k - 1], s[k]) ELSE g[k - 1]]
<1>9. f = F(f)
  <2>1. ASSUME NEW k \in 0 .. N
        PROVE  f[k] = IF k = 0 THEN <<>> ELSE IF k \in K THEN Append(f[k - 1], s[k]) ELSE f[k - 1]
    <3>1. k = 0 \/ k \in 1 .. N
      BY <1>n
    <3> QED
      BY <1>6, <1>7, <1>8, <3>1
  <2> QED
    BY <1>5, <2>1
<1>10. PICK g : g = F(g) /\ KeepAt(s, K) = g[N]
  <2>1. PICK g : g = CHOOSE h : h = F(h)
    OBVIOUS
  <2>2. g = F(g)
    BY <1>9, <2>1
  <2>3. KeepAt(s, K) = g[N]
    BY <1>n, <2>1 DEF KeepAt
  <2> QED
    BY <2>2, <2>3
<1>11. \A k \in 0 .. N : g[k] = f[k]
  <2> DEFINE P == {k \in Nat : k \in 0 .. N => g[k] = f[k]}
  <2>1. 0 \in P
    <3>1. 0 \in 0 .. N
      BY <1>n
    <3>2. g[0] = <<>>
      BY <1>10, <3>1
    <3> QED
      BY <1>8, <3>2
  <2>2. ASSUME NEW k \in Nat, k < N, k \in P PROVE k + 1 \in P
    <3>1. k + 1 \in 1 .. N /\ k \in 0 .. N /\ k + 1 \in 0 .. N /\ (k + 1) - 1 = k /\ k + 1 # 0
      BY <1>n, <2>2
    <3>2. g[k] = f[k]
      BY <2>2, <3>1
    <3>3. g[k + 1] = IF k + 1 \in K THEN Append(g[k], s[k + 1]) ELSE g[k]
      BY <1>10, <3>1
    <3>4. f[k + 1] = IF k + 1 \in K THEN Append(f[k], s[k + 1]) ELSE f[k]
      BY <1>7, <3>1
    <3> QED
      BY <3>2, <3>3, <3>4
  <2> HIDE DEF P
  <2>3. \A k \in 0 .. N : k \in P
    BY <2>1, <2>2, <1>n, StepByStep
  <2> QED
    BY <2>3 DEF P
<1>12. N \in 0 .. N
  BY <1>n
<1>13. f[N] = KeepAt(s, K)
  BY <1>10, <1>11, <1>12
<1>14. Keeps(f, S, s, K)
  BY <1>n, <1>5, <1>7, <1>8, <1>13 DEF V, Keeps
<1> QED
  BY <1>14

LEMMA KeepAtPicks ==
  ASSUME NEW S, NEW s \in Seq(S), NEW K \in SUBSET (1 .. Len(s))
  PROVE  KeepAt(s, K) \in Seq(S) /\ \E f : Picks(f, KeepAt(s, K), s, K)
<1>n. PICK N \in Nat : N = Len(s)
  OBVIOUS
<1>1. PICK g : /\ KeepAt(s, K) = g[N] /\ g \in [0 .. N -> Seq(S)] /\ g[0] = <<>>
               /\ \A k \in 1 .. N : g[k] = IF k \in K THEN Append(g[k - 1], s[k]) ELSE g[k - 1]
  <2>1. PICK g : Keeps(g, S, s, K)
    BY KeepAtUnrolls
  <2> QED
    BY <1>n, <2>1 DEF Keeps
<1> DEFINE P == {k \in Nat : k \in 0 .. N => \E f : Picks(f, g[k], s, K \cap (1 .. k))}
<1>2. 0 \in P
  <2>1. PICK f : f = [i \in 1 .. 0 |-> 0]
    OBVIOUS
  <2>2. Len(g[0]) = 0 /\ 1 .. 0 = {} /\ K \cap (1 .. 0) = {}
    BY <1>1
  <2>3. Picks(f, g[0], s, K \cap (1 .. 0))
    BY ONLY <2>1, <2>2 DEF Picks
  <2> QED
    BY <2>3
<1>3. ASSUME NEW k \in Nat, k < N, k \in P PROVE k + 1 \in P
  <2>1. k + 1 \in 1 .. N /\ k \in 0 .. N /\ (k + 1) - 1 = k
    BY <1>n, <1>3
  <2>2. PICK f : Picks(f, g[k], s, K \cap (1 .. k))
    BY <1>3, <2>1
  <2>3. g[k + 1] = (IF k + 1 \in K THEN Append(g[k], s[k + 1]) ELSE g[k]) /\ g[k] \in Seq(S)
    BY <1>1, <2>1
  <2>4. CASE k + 1 \notin K
    <3>1. K \cap (1 .. (k + 1)) = K \cap (1 .. k)
      BY <2>4
    <3>2. Picks(f, g[k + 1], s, K \cap (1 .. (k + 1)))
      BY ONLY <2>2, <2>3, <2>4, <3>1
    <3> QED
      BY <3>2
  <2>5. CASE k + 1 \in K
    <3>1. PICK m \in Nat : m = Len(g[k])
      BY <2>3
    <3>2. PICK t : t = Append(g[k], s[k + 1])
      OBVIOUS
    <3>3. Len(t) = m + 1 /\ (\A i \in 1 .. m : t[i] = g[k][i]) /\ t[m + 1] = s[k + 1] /\ g[k + 1] = t
      BY <2>3, <2>5, <3>1, <3>2
    <3>4. PICK h : h = [i \in 1 .. (m + 1) |-> IF i = m + 1 THEN k + 1 ELSE f[i]]
      OBVIOUS
    <3>5. \A i \in 1 .. (m + 1) : i \in Nat /\ (i = m + 1 \/ i \in 1 .. m)
      BY <3>1
    <3>6. \A i \in 1 .. m : i \in 1 .. (m + 1) /\ i # m + 1
      BY <3>1
    <3>6a. m + 1 \in 1 .. (m + 1)
      BY <3>1
    <3>7. h[m + 1] = k + 1 /\ \A i \in 1 .. m : h[i] = f[i]
      BY <3>4, <3>6, <3>6a
    <3>8. \A i \in 1 .. m : f[i] \in K /\ f[i] \in 1 .. k /\ f[i] \in Nat /\ f[i] < k + 1
      <4>1. \A i \in 1 .. m : f[i] \in K /\ f[i] \in 1 .. k
        BY <2>2, <3>1 DEF Picks
      <4>2. \A x \in 1 .. k : x \in Nat /\ x < k + 1
        OBVIOUS
      <4> QED
        BY ONLY <4>1, <4>2
    <3>9. k + 1 \in K \cap (1 .. (k + 1)) /\ (1 .. k) \subseteq 1 .. (k + 1)
      BY <2>5
    <3>10. \A i \in 1 .. (m + 1) : h[i] \in K \cap (1 .. (k + 1))
      BY <3>5, <3>7, <3>8, <3>9
    <3>11. h \in [1 .. Len(t) -> K \cap (1 .. (k + 1))]
      BY <3>3, <3>4, <3>10
    <3>12. \A i \in 1 .. Len(t) : t[i] = s[h[i]]
      BY <2>2, <3>1, <3>3, <3>5, <3>7 DEF Picks
    <3>13. ASSUME NEW i \in 1 .. Len(t), NEW j \in 1 .. Len(t), i < j PROVE h[i] < h[j]
      <4>1. i \in Nat /\ j \in Nat /\ i \in 1 .. m
        BY <3>1, <3>3, <3>13
      <4>2. CASE j = m + 1
        BY <3>7, <3>8, <4>1, <4>2
      <4>3. CASE j \in 1 .. m
        BY <2>2, <3>1, <3>7, <3>13, <4>1, <4>3 DEF Picks
      <4> QED
        BY <3>3, <3>5, <4>2, <4>3
    <3>14. ASSUME NEW p \in K \cap (1 .. (k + 1)) PROVE \E i \in 1 .. Len(t) : h[i] = p
      <4>1. p = k + 1 \/ p \in K \cap (1 .. k)
        OBVIOUS
      <4>2. CASE p = k + 1
        BY <3>3, <3>6a, <3>7, <4>2
      <4>3. CASE p \in K \cap (1 .. k)
        <5>1. PICK i \in 1 .. m : f[i] = p
          BY <2>2, <3>1, <4>3 DEF Picks
        <5> QED
          BY <3>3, <3>6, <3>7, <5>1
      <4> QED
        BY <4>1, <4>2, <4>3
    <3>15. Picks(h, t, s, K \cap (1 .. (k + 1)))
      BY <3>11, <3>12, <3>13, <3>14 DEF Picks
    <3> QED
      BY <3>3, <3>15
  <2> QED
    BY <2>4, <2>5
<1> HIDE DEF P
<1>4. \A k \in 0 .. N : k \in P
  BY <1>2, <1>3, <1>n, StepByStep
<1>5. N \in 0 .. N /\ N \in Nat
  BY <1>n
<1>6. PICK f : Picks(f, g[N], s, K \cap (1 .. N))
  BY <1>4, <1>5 DEF P
<1>7. K \cap (1 .. N) = K
  BY <1>n
<1> QED
  BY <1>1, <1>5, <1>6, <1>7

(* The next position, if it is kept, is the next element.                   *)
LEMMA PicksNext ==
  ASSUME NEW t, NEW s, NEW f, NEW K \in SUBSET Nat, Picks(f, t, s, K), Len(t) \in Nat,
         NEW i \in 1 .. Len(t), f[i] + 1 \in K
  PROVE  i + 1 \in 1 .. Len(t) /\ f[i + 1] = f[i] + 1
<1>1. PICK m \in Nat : m = Len(t)
  OBVIOUS
<1>2. PICK j \in 1 .. m : f[j] = f[i] + 1
  BY <1>1 DEF Picks
<1>3. i \in Nat /\ j \in Nat /\ i \in 1 .. m /\ f[i] \in Nat /\ f[j] \in Nat
  <2>1. f[i] \in K /\ f[j] \in K
    BY <1>1, <1>2 DEF Picks
  <2>2. i \in 1 .. m /\ \A a \in 1 .. m : a \in Nat
    BY <1>1
  <2> QED
    BY ONLY <1>2, <2>1, <2>2, K \in SUBSET Nat
<1>4. \A a, b \in 1 .. m : a < b => f[a] < f[b]
  BY <1>1 DEF Picks
<1>5. i < j
  <2>1. j < i => f[j] < f[i]
    BY <1>2, <1>3, <1>4
  <2>2. j # i
    BY <1>2, <1>3
  <2>3. ~(f[j] < f[i])
    BY <1>2, <1>3
  <2> QED
    BY ONLY <1>3, <2>1, <2>2, <2>3
<1>6. i + 1 \in 1 .. m /\ i < i + 1
  BY ONLY <1>1, <1>3, <1>5, j \in 1 .. m
<1>7. f[i + 1] \in Nat /\ f[i] < f[i + 1]
  <2>1. f[i + 1] \in K
    BY <1>1, <1>6 DEF Picks
  <2> QED
    BY <1>3, <1>4, <1>6, <2>1
<1>8. i + 1 < j => f[i + 1] < f[j]
  BY <1>2, <1>4, <1>6
<1>9. i + 1 = j
  <2>1. ~(f[i + 1] < f[j])
    BY ONLY <1>2, <1>3, <1>7
  <2> QED
    BY ONLY <1>3, <1>5, <1>8, <2>1
<1> QED
  BY <1>1, <1>2, <1>6, <1>9

(* Different elements come from different positions. *)
LEMMA PicksApart ==
  ASSUME NEW t, NEW s, NEW f, NEW K \in SUBSET Nat, Picks(f, t, s, K), Len(t) \in Nat,
         NEW i \in 1 .. Len(t), NEW j \in 1 .. Len(t), f[i] = f[j]
  PROVE  i = j
<1>1. i \in Nat /\ j \in Nat /\ f[i] \in Nat /\ f[j] \in Nat
  <2>1. f[i] \in K /\ f[j] \in K
    BY DEF Picks
  <2>2. \A a \in 1 .. Len(t) : a \in Nat
    OBVIOUS
  <2> QED
    BY ONLY <2>1, <2>2, K \in SUBSET Nat, i \in 1 .. Len(t), j \in 1 .. Len(t)
<1>2. ~(f[i] < f[j]) /\ ~(f[j] < f[i])
  BY ONLY <1>1, f[i] = f[j]
<1>3. ~(i < j) /\ ~(j < i)
  BY <1>2 DEF Picks
<1> QED
  BY ONLY <1>1, <1>3

(* Merging forwards, MergeQEMUPorts.  With one forward of a guest port to   *)
(* begin with there is one of a guest port in the end: the last that was    *)
(* given for it, else the machine's.                                        *)
ForwardsApart(t) == \A i, j \in 1 .. Len(t) : t[i].guest = t[j].guest => i = j
In(q, t) == \E i \in 1 .. Len(t) : t[i] = q
Survives(q, machine, extra, k) ==
    \/ \E j \in 1 .. k : extra[j] = q /\ \A i \in (j + 1) .. k : extra[i].guest # q.guest
    \/ In(q, machine) /\ \A i \in 1 .. k : extra[i].guest # q.guest

LEMMA MergeOneSound ==
  ASSUME NEW S, NEW t \in Seq(S), NEW p \in S, ForwardsApart(t), NEW r, r = MergeOne(t, p)
  PROVE  /\ r \in Seq(S) /\ ForwardsApart(r)
         /\ \A q : In(q, r) <=> q = p \/ (In(q, t) /\ q.guest # p.guest)
<1>n. PICK N \in Nat : N = Len(t) /\ DOMAIN t = 1 .. N
  OBVIOUS
<1>1. PICK same \in SUBSET Nat : same = {i \in 1 .. N : t[i].guest = p.guest}
  <2>1. PICK X : X = {i \in 1 .. N : t[i].guest = p.guest}
    OBVIOUS
  <2>2. X \in SUBSET Nat
    <3>1. \A i \in 1 .. N : i \in Nat
      OBVIOUS
    <3> QED
      BY ONLY <2>1, <3>1
  <2> QED
    BY ONLY <2>1, <2>2
<1>2. r = IF same = {} THEN Append(t, p) ELSE [t EXCEPT ![Min(same)] = p]
  BY <1>n, <1>1 DEF MergeOne
<1>3. CASE same = {}
  <2>1. \A i \in 1 .. N : t[i].guest # p.guest
    BY <1>1, <1>3
  <2>2. r \in Seq(S) /\ Len(r) = N + 1 /\ (\A i \in 1 .. N : r[i] = t[i]) /\ r[N + 1] = p
    BY <1>n, <1>2, <1>3, AppendProperties
  <2>3. (\A i \in 1 .. (N + 1) : i \in 1 .. N \/ i = N + 1) /\ N + 1 \in 1 .. (N + 1)
        /\ \A i \in 1 .. N : i \in 1 .. (N + 1)
    BY <1>n
  <2>4. ForwardsApart(r)
    BY <1>n, <2>1, <2>2, <2>3 DEF ForwardsApart
  <2>5. \A q : In(q, r) <=> q = p \/ (In(q, t) /\ q.guest # p.guest)
    BY <1>n, <2>1, <2>2, <2>3 DEF In
  <2> QED
    BY <2>2, <2>4, <2>5
<1>4. CASE same # {}
  <2>1. PICK m : m = Min(same) /\ m \in same
    <3>1. \E x \in same : \A y \in same : x <= y
      BY <1>4, LeastExists
    <3> QED
      BY <3>1 DEF Min
  <2>2. m \in 1 .. N /\ t[m].guest = p.guest
    BY <1>1, <2>1
  <2>3. r = [t EXCEPT ![m] = p]
    BY <1>2, <1>4, <2>1
  <2>4. r \in Seq(S) /\ Len(r) = N /\ r[m] = p /\ \A i \in 1 .. N : i # m => r[i] = t[i]
    BY <1>n, <2>2, <2>3
  <2>5. \A i \in 1 .. N : i # m => t[i].guest # p.guest
    BY <1>n, <2>2 DEF ForwardsApart
  <2>6. ForwardsApart(r)
    BY <1>n, <2>2, <2>4, <2>5 DEF ForwardsApart
  <2>7. \A q : In(q, r) <=> q = p \/ (In(q, t) /\ q.guest # p.guest)
    BY <1>n, <2>2, <2>4, <2>5 DEF In
  <2> QED
    BY <2>4, <2>6, <2>7
<1> QED
  BY <1>3, <1>4

(* One more forward leaves a list of forwards. *)
LEMMA MergeOneSeq ==
  ASSUME NEW S, NEW t \in Seq(S), NEW p \in S
  PROVE  MergeOne(t, p) \in Seq(S)
<1>1. PICK same : same = {i \in DOMAIN t : t[i].guest = p.guest}
  OBVIOUS
<1>2. MergeOne(t, p) = IF same = {} THEN Append(t, p) ELSE [t EXCEPT ![Min(same)] = p]
  BY <1>1 DEF MergeOne
<1>3. CASE same = {}
  BY <1>2, <1>3
<1>4. CASE same # {}
  <2>1. PICK m : m = Min(same)
    OBVIOUS
  <2>2. PICK r : r = [i \in 1 .. Len(t) |-> IF i = m THEN p ELSE t[i]]
    OBVIOUS
  <2>3. r \in Seq(S) /\ r = [t EXCEPT ![m] = p]
    <3>1. r \in [1 .. Len(t) -> S] /\ Len(t) \in Nat
      BY <2>2
    <3>2. r \in Seq(S)
      BY <3>1
    <3>3. DOMAIN t = 1 .. Len(t)
      OBVIOUS
    <3>4. r = [t EXCEPT ![m] = p]
      BY ONLY <2>2, <3>3
    <3> QED
      BY <3>2, <3>4
  <2> QED
    BY <1>2, <1>4, <2>1, <2>3
<1> QED
  BY <1>3, <1>4

(* g is the list merged after each of the extra forwards. *)
Merges(g, S, machine, extra) ==
    /\ MergeQEMUPorts(machine, extra) = g[Len(extra)]
    /\ g[0] = machine
    /\ \A k \in 1 .. Len(extra) : g[k] = MergeOne(g[k - 1], extra[k])

LEMMA MergeUnrolls ==
  ASSUME NEW S, NEW machine \in Seq(S), NEW extra \in Seq(S)
  PROVE  \E g : Merges(g, S, machine, extra)
<1> DEFINE V == Seq(S)
           Add(t, k) == IF k \in 1 .. Len(extra) THEN MergeOne(t, extra[k]) ELSE t
<1>n. PICK N \in Nat : N = Len(extra)
  OBVIOUS
<1>1. machine \in V
  OBVIOUS
<1>2. ASSUME NEW t \in V, NEW k \in Nat PROVE Add(t, k) \in V
  <2>1. CASE k \in 1 .. Len(extra)
    <3>1. PICK p \in S : p = extra[k]
      BY <2>1
    <3>4. MergeOne(t, p) \in V
      BY MergeOneSeq
    <3> QED
      BY <2>1, <3>1, <3>4
  <2>2. CASE k \notin 1 .. Len(extra)
    BY <2>2
  <2> QED
    BY <2>1, <2>2
<1>3. PICK D \in [V \X Nat -> V] : \A t \in V, k \in Nat : D[<<t, k>>] = Add(t, k)
  <2>1. PICK D : D = [p \in V \X Nat |-> Add(p[1], p[2])]
    OBVIOUS
  <2> HIDE DEF V, Add
  <2>2. \A t \in V, k \in Nat : D[<<t, k>>] = Add(t, k)
    BY ONLY <2>1
  <2>3. \A p \in V \X Nat : D[p] \in V
    <3>1. \A p \in V \X Nat : p[1] \in V /\ p[2] \in Nat /\ p = <<p[1], p[2]>>
      OBVIOUS
    <3> QED
      BY ONLY <1>2, <2>2, <3>1
  <2>4. D \in [V \X Nat -> V]
    BY ONLY <2>1, <2>3
  <2> QED
    BY ONLY <2>2, <2>4
<1> HIDE DEF V
<1>4. PICK f : Unrolls(f, V, machine, D, N)
  BY <1>1, <1>n, Recursion
<1>5. f \in [0 .. N -> V] /\ \A k \in 0 .. N : f[k] = IF k = 0 THEN machine ELSE D[<<f[k - 1], k>>]
  BY <1>4 DEF Unrolls
<1>6. ASSUME NEW k \in 1 .. N PROVE k \in Nat /\ k # 0 /\ k \in 0 .. N /\ k - 1 \in 0 .. N
  BY <1>n
<1>7. ASSUME NEW k \in 1 .. N PROVE f[k] = MergeOne(f[k - 1], extra[k])
  <2>1. f[k] = D[<<f[k - 1], k>>] /\ f[k - 1] \in V
    BY <1>5, <1>6
  <2>2. f[k] = Add(f[k - 1], k)
    BY <1>3, <1>6, <2>1
  <2> QED
    BY <1>n, <2>2
<1>8. f[0] = machine
  <2>1. 0 \in 0 .. N
    BY <1>n
  <2> QED
    BY <1>5, <2>1
<1> DEFINE F(g) == [k \in 0 .. N |-> IF k = 0 THEN machine ELSE MergeOne(g[k - 1], extra[k])]
<1>9. f = F(f)
  <2>1. ASSUME NEW k \in 0 .. N PROVE f[k] = IF k = 0 THEN machine ELSE MergeOne(f[k - 1], extra[k])
    <3>1. k = 0 \/ k \in 1 .. N
      BY <1>n
    <3> QED
      BY <1>6, <1>7, <1>8, <3>1
  <2> QED
    BY <1>5, <2>1
<1>10. PICK g : g = F(g) /\ MergeQEMUPorts(machine, extra) = g[N]
  <2>1. PICK g : g = CHOOSE h : h = F(h)
    OBVIOUS
  <2>2. g = F(g)
    BY <1>9, <2>1
  <2>3. MergeQEMUPorts(machine, extra) = g[N]
    BY <1>n, <2>1 DEF MergeQEMUPorts
  <2> QED
    BY <2>2, <2>3
<1>11. g[0] = machine
  <2>1. 0 \in 0 .. N
    BY <1>n
  <2> QED
    BY <1>10, <2>1
<1>12. ASSUME NEW k \in 1 .. N PROVE g[k] = MergeOne(g[k - 1], extra[k])
  BY <1>6, <1>10
<1>13. Merges(g, S, machine, extra)
  BY <1>n, <1>10, <1>11, <1>12 DEF Merges
<1> QED
  BY <1>13

(* Whatever is merged, the outcome is a list of forwards. *)
LEMMA MergeSeq ==
  ASSUME NEW S, NEW machine \in Seq(S), NEW extra \in Seq(S)
  PROVE  MergeQEMUPorts(machine, extra) \in Seq(S)
<1>n. PICK N \in Nat : N = Len(extra)
  OBVIOUS
<1>1. PICK g : Merges(g, S, machine, extra)
  BY MergeUnrolls
<1>2. MergeQEMUPorts(machine, extra) = g[N] /\ g[0] = machine
      /\ \A k \in 1 .. N : g[k] = MergeOne(g[k - 1], extra[k])
  BY <1>n, <1>1 DEF Merges
<1> DEFINE P == {k \in Nat : k <= N => g[k] \in Seq(S)}
<1>3. 0 \in P
  BY <1>2
<1>4. ASSUME NEW k \in Nat, k < N, k \in P PROVE k + 1 \in P
  <2>1. k + 1 \in 1 .. N /\ (k + 1) - 1 = k /\ k <= N
    BY <1>n, <1>4
  <2>2. PICK p \in S : p = extra[k + 1]
    BY <1>n, <2>1
  <2>3. g[k] \in Seq(S) /\ g[k + 1] = MergeOne(g[k], p)
    BY <1>2, <1>4, <2>1, <2>2
  <2>4. g[k + 1] \in Seq(S)
    BY <2>3, MergeOneSeq
  <2> QED
    BY <2>4
<1> HIDE DEF P
<1>5. \A k \in 0 .. N : k \in P
  BY <1>3, <1>4, <1>n, StepByStep
<1>6. N \in 0 .. N /\ N \in Nat /\ N <= N
  BY <1>n
<1> QED
  BY <1>2, <1>5, <1>6 DEF P

LEMMA MergeSound ==
  ASSUME NEW S, NEW machine \in Seq(S), NEW extra \in Seq(S), ForwardsApart(machine),
         NEW r, r = MergeQEMUPorts(machine, extra)
  PROVE  /\ r \in Seq(S) /\ ForwardsApart(r)
         /\ \A q : In(q, r) <=> Survives(q, machine, extra, Len(extra))
<1>n. PICK N \in Nat : N = Len(extra)
  OBVIOUS
<1>1. PICK g : Merges(g, S, machine, extra)
  BY MergeUnrolls
<1>2. r = g[N] /\ g[0] = machine /\ \A k \in 1 .. N : g[k] = MergeOne(g[k - 1], extra[k])
  BY <1>n, <1>1 DEF Merges
<1> DEFINE Good(k) == /\ g[k] \in Seq(S) /\ ForwardsApart(g[k])
                      /\ \A q : In(q, g[k]) <=> Survives(q, machine, extra, k)
           P == {k \in Nat : k <= N => Good(k)}
<1>3. 0 \in P
  <2>1. \A q : Survives(q, machine, extra, 0) <=> In(q, machine)
    BY DEF Survives
  <2> QED
    BY <1>2, <2>1
<1>4. ASSUME NEW k \in Nat, k < N, k \in P PROVE k + 1 \in P
  <2>1. k + 1 \in 1 .. N /\ (k + 1) - 1 = k /\ k <= N
    BY <1>n, <1>4
  <2>2. Good(k)
    BY <1>4, <2>1
  <2>3. PICK p \in S : p = extra[k + 1]
    BY <1>n, <2>1
  <2>4. g[k + 1] = MergeOne(g[k], p)
    BY <1>2, <2>1, <2>3
  <2>5. /\ g[k + 1] \in Seq(S) /\ ForwardsApart(g[k + 1])
        /\ \A q : In(q, g[k + 1]) <=> q = p \/ (In(q, g[k]) /\ q.guest # p.guest)
    BY <2>2, <2>4, MergeOneSound
  <2>6. ASSUME NEW q PROVE Survives(q, machine, extra, k + 1) <=> q = p \/ (Survives(q, machine, extra, k) /\ q.guest # p.guest)
    <3>1. \A i \in 1 .. (k + 1) : i \in 1 .. k \/ i = k + 1
      OBVIOUS
    <3>2. k + 1 \in 1 .. (k + 1) /\ (\A i \in 1 .. k : i \in 1 .. (k + 1)) /\ \A i \in ((k + 1) + 1) .. (k + 1) : FALSE
      OBVIOUS
    <3>3. \A j \in 1 .. k : /\ k + 1 \in (j + 1) .. (k + 1)
                            /\ \A i \in (j + 1) .. (k + 1) : i \in (j + 1) .. k \/ i = k + 1
                            /\ \A i \in (j + 1) .. k : i \in (j + 1) .. (k + 1)
      OBVIOUS
    <3>4. ASSUME q = p PROVE Survives(q, machine, extra, k + 1)
      BY <2>3, <3>2, <3>4 DEF Survives
    <3>5. ASSUME Survives(q, machine, extra, k), q.guest # p.guest PROVE Survives(q, machine, extra, k + 1)
      <4>1. CASE \E j \in 1 .. k : extra[j] = q /\ \A i \in (j + 1) .. k : extra[i].guest # q.guest
        <5>1. PICK j \in 1 .. k : extra[j] = q /\ \A i \in (j + 1) .. k : extra[i].guest # q.guest
          BY <4>1
        <5>2. \A i \in (j + 1) .. (k + 1) : extra[i].guest # q.guest
          BY <2>3, <3>3, <3>5, <5>1
        <5> QED
          BY <3>2, <5>1, <5>2 DEF Survives
      <4>2. CASE In(q, machine) /\ \A i \in 1 .. k : extra[i].guest # q.guest
        BY <2>3, <3>1, <3>5, <4>2 DEF Survives
      <4> QED
        BY <3>5, <4>1, <4>2 DEF Survives
    <3>6. ASSUME Survives(q, machine, extra, k + 1), q # p PROVE Survives(q, machine, extra, k) /\ q.guest # p.guest
      <4>1. CASE \E j \in 1 .. (k + 1) : extra[j] = q /\ \A i \in (j + 1) .. (k + 1) : extra[i].guest # q.guest
        <5>1. PICK j \in 1 .. (k + 1) : extra[j] = q /\ \A i \in (j + 1) .. (k + 1) : extra[i].guest # q.guest
          BY <4>1
        <5>2. j \in 1 .. k
          BY <2>3, <3>1, <3>6, <5>1
        <5>3. (\A i \in (j + 1) .. k : extra[i].guest # q.guest) /\ extra[k + 1].guest # q.guest
          BY <3>3, <5>1, <5>2
        <5> QED
          BY <2>3, <5>1, <5>2, <5>3 DEF Survives
      <4>2. CASE In(q, machine) /\ \A i \in 1 .. (k + 1) : extra[i].guest # q.guest
        <5>1. (\A i \in 1 .. k : extra[i].guest # q.guest) /\ extra[k + 1].guest # q.guest
          BY <3>2, <4>2
        <5> QED
          BY <2>3, <4>2, <5>1 DEF Survives
      <4> QED
        BY <3>6, <4>1, <4>2 DEF Survives
    <3> QED
      BY <3>4, <3>5, <3>6
  <2>7. Good(k + 1)
    BY <2>2, <2>5, <2>6
  <2> QED
    BY <2>7
<1> HIDE DEF P
<1>5. \A k \in 0 .. N : k \in P
  BY <1>3, <1>4, <1>n, StepByStep
<1>6. N \in 0 .. N /\ N \in Nat /\ N <= N
  BY <1>n
<1>7. Good(N)
  BY <1>5, <1>6 DEF P
<1> QED
  BY <1>n, <1>2, <1>7

(* With one of a guest port among the extra forwards too, each of them is   *)
(* there in the end.                                                        *)
LEMMA MergeApart ==
  ASSUME NEW S, NEW machine \in Seq(S), NEW extra \in Seq(S), ForwardsApart(machine), ForwardsApart(extra),
         NEW r, r = MergeQEMUPorts(machine, extra)
  PROVE  /\ r \in Seq(S) /\ ForwardsApart(r)
         /\ \A q : In(q, r) <=> In(q, extra) \/ (In(q, machine) /\ \A p : In(p, extra) => p.guest # q.guest)
<1>n. PICK N \in Nat : N = Len(extra)
  OBVIOUS
<1>1. /\ r \in Seq(S) /\ ForwardsApart(r)
      /\ \A q : In(q, r) <=> Survives(q, machine, extra, N)
  BY <1>n, MergeSound
<1>2. ASSUME NEW q
      PROVE  Survives(q, machine, extra, N) <=>
             In(q, extra) \/ (In(q, machine) /\ \A p : In(p, extra) => p.guest # q.guest)
  <2>1. \A j \in 1 .. N : \A i \in (j + 1) .. N : i \in 1 .. N /\ i # j
    BY <1>n
  <2>2. (\E j \in 1 .. N : extra[j] = q /\ \A i \in (j + 1) .. N : extra[i].guest # q.guest) <=> In(q, extra)
    BY <1>n, <2>1 DEF ForwardsApart, In
  <2>3. (\A i \in 1 .. N : extra[i].guest # q.guest) <=> \A p : In(p, extra) => p.guest # q.guest
    BY <1>n DEF In
  <2> QED
    BY <2>2, <2>3 DEF Survives
<1> QED
  BY <1>1, <1>2

(* One forward of a guest port: as many forwards as places.                 *)
LEMMA ApartCount ==
  ASSUME NEW S, NEW t \in Seq(S), ForwardsApart(t)
  PROVE  Len(t) = Cardinality(Range(t))
<1>n. PICK N \in Nat : N = Len(t) /\ DOMAIN t = 1 .. N
  OBVIOUS
<1>1. Range(t) = {t[i] : i \in 1 .. N}
  BY <1>n DEF Range
<1>2. PICK f : f = [i \in 1 .. N |-> t[i]]
  OBVIOUS
<1>3. f \in Bijection(1 .. N, Range(t))
  <2>1. f \in Injection(1 .. N, Range(t))
    BY <1>n, <1>1, <1>2 DEF ForwardsApart, Injection, IsInjective
  <2>2. f \in Surjection(1 .. N, Range(t))
    BY <1>n, <1>1, <1>2 DEF Surjection
  <2> QED
    BY <2>1, <2>2 DEF Bijection
<1>4. ExistsBijection(1 .. N, Range(t))
  BY <1>3 DEF ExistsBijection
<1>5. IsFiniteSet(1 .. N) /\ Cardinality(1 .. N) = N
  <2>1. IsFiniteSet(1 .. N) /\ Cardinality(1 .. N) = IF 1 > N THEN 0 ELSE N - 1 + 1
    <3>1. 1 \in Int /\ N \in Int
      OBVIOUS
    <3> QED
      BY ONLY <3>1, FS_Interval
  <2>2. (IF 1 > N THEN 0 ELSE N - 1 + 1) = N
    OBVIOUS
  <2> QED
    BY ONLY <2>1, <2>2
<1>6. Cardinality(Range(t)) = Cardinality(1 .. N)
  BY <1>4, <1>5, FS_Bijection
<1> QED
  BY <1>n, <1>5, <1>6

=============================================================================
