--------------------------- MODULE EdgeList_proofs --------------------------
(***************************************************************************)
(* What Analyze reports of the edges of a file, for every file.  The walk  *)
(* attributes each edge to the innermost definition with a name, collects  *)
(* them in document order and misses none that a rule finds under its      *)
(* plain name; the filter behind it loses no relation, returns no twins    *)
(* and never reads what it has overwritten.                                *)
(*                                                                         *)
(* The invariant of the walk says what the stack stands for: the subtrees  *)
(* that are still to be visited, apart from each other and all behind the  *)
(* edges so far; every node is in one of them or has had all its rules     *)
(* applied.  That of the filter says what each loop has established about  *)
(* the edges it has passed.  They meet where the edges are handed over.    *)
(***************************************************************************)
EXTENDS EdgeList, FiniteSetTheorems, NaturalsInduction, WellFoundedInduction,
        TLAPS

-----------------------------------------------------------------------------
(***************************************************************************)
(* Numbers, and functions that are defined by recursion over arguments of  *)
(* a rank.                                                                 *)
(***************************************************************************)
\* The pairs of naturals of which the first is the lower.
Less == {ss \in Nat \X Nat : ss[1] < ss[2]}

\* A set of naturals that is not empty has a least element.
LEMMA LeastNumber ==
    ASSUME NEW T, T \subseteq Nat, T # {}
    PROVE  \E m \in T : \A k \in T : m <= k
<1>1. IsWellFoundedOn(Less, Nat)
  BY NatLessThanWellFounded DEF OpToRel, Less
<1>2. PICK m \in T : \A k \in T : ~ (<<k, m>> \in Less)
  BY ONLY <1>1, T \subseteq Nat, T # {}, WFMin
<1>3. \A k \in T : ~ (k < m)
  BY <1>2 DEF Less
<1> QED
  BY <1>3
\* A function that is defined in terms of its values at arguments of a lower
\* rank exists.
RecursiveIn(F, S, V, rank, N) ==
    /\ N \in Nat /\ V # {}
    /\ rank \in [S -> 0..N]
    /\ F \in [S \X [S -> V] -> V]
    /\ \A x \in S : \A g, h \in [S -> V] :
          (\A y \in S : rank[y] < rank[x] => g[y] = h[y]) => F[<<x, g>>] = F[<<x, h>>]

LEMMA RecursionByRank ==
    ASSUME NEW F, NEW S, NEW V, NEW rank, NEW N, RecursiveIn(F, S, V, rank, N)
    PROVE  \E f \in [S -> V] : \A x \in S : f[x] = F[<<x, f>>]
<1> USE DEF RecursiveIn
<1> DEFINE Defined(f, d) == \A x \in S : rank[x] < d => f[x] = F[<<x, f>>]
           T == {d \in 0..N + 1 : ~ \E f \in [S -> V] : Defined(f, d)}
<1>1. \A x \in S : rank[x] \in 0..N
  OBVIOUS
<1>2. T = {}
  <2> SUFFICES ASSUME T # {} PROVE FALSE
    OBVIOUS
  <2> T \subseteq Nat
    OBVIOUS
  <2> HIDE DEF T
  <2>1. PICK d \in T : \A c \in T : d <= c
    BY LeastNumber
  <2> USE DEF T
  <2>2. d # 0
    <3>1. PICK v \in V : TRUE
      OBVIOUS
    <3> DEFINE g == [x \in S |-> v]
    <3>2. g \in [S -> V]
      BY <3>1
    <3>3. Defined(g, 0)
      BY <1>1
    <3> HIDE DEF Defined, g
    <3>4. 0 \notin T
      BY <3>2, <3>3
    <3> QED
      BY <2>1, <3>4
  <2>3. d \in 1..N + 1 /\ d - 1 \in 0..N + 1
    BY <2>1, <2>2
  <2>4. PICK f \in [S -> V] : Defined(f, d - 1)
    <3> HIDE DEF Defined
    <3>1. d - 1 \notin T
      <4> HIDE DEF T
      <4> QED
        BY <2>1, <2>3
    <3> QED
      BY <2>3, <3>1
  <2> DEFINE g == [x \in S |-> IF rank[x] = d - 1 THEN F[<<x, f>>] ELSE f[x]]
  <2>5. \A x \in S : F[<<x, f>>] \in V /\ f[x] \in V
    OBVIOUS
  <2>6. g \in [S -> V]
    BY <2>5
  <2>7. \A x \in S : rank[x] < d - 1 => g[x] = f[x]
    BY <1>1, <2>3
  <2>8. \A x \in S : rank[x] = d - 1 => g[x] = F[<<x, f>>]
    BY <1>1, <2>3
  <2>9. ASSUME NEW x \in S, rank[x] < d PROVE F[<<x, g>>] = F[<<x, f>>]
    <3>1. \A y \in S : rank[y] < rank[x] => g[y] = f[y]
      BY <1>1, <2>3, <2>7, <2>9
    <3> HIDE DEF g
    <3> QED
      BY <2>6, <3>1
  <2>10. Defined(g, d)
    <3> SUFFICES ASSUME NEW x \in S, rank[x] < d PROVE g[x] = F[<<x, g>>]
      OBVIOUS
    <3>1. CASE rank[x] = d - 1
      <4> HIDE DEF g
      <4> QED
        BY <3>1, <2>8, <2>9
    <3>2. CASE rank[x] # d - 1
      <4>1. rank[x] < d - 1
        BY <1>1, <2>3, <3>2
      <4>2. f[x] = F[<<x, f>>]
        BY <2>4, <4>1
      <4> HIDE DEF g
      <4> QED
        BY <4>1, <4>2, <2>7, <2>9
    <3> QED
      BY <3>1, <3>2
  <2> QED
    <3> HIDE DEF g, Defined
    <3> QED
      BY <2>1, <2>6, <2>10
<1>3. PICK f \in [S -> V] : Defined(f, N + 1)
  <2>1. N + 1 \notin T /\ N + 1 \in 0..N + 1
    <3> HIDE DEF T
    <3> QED
      BY <1>2
  <2> HIDE DEF Defined
  <2> QED
    BY <2>1
<1>4. \A x \in S : rank[x] < N + 1
  BY <1>1
<1> QED
  BY <1>3, <1>4

\* What is true of an argument if it is of those of a lower rank is true of all.
LEMMA InductionByRank ==
    ASSUME NEW N \in Nat, NEW S, NEW T, NEW rank \in [S -> 0..N],
           \A x \in S : (\A y \in S : rank[y] < rank[x] => y \in T) => x \in T
    PROVE  \A x \in S : x \in T
<1> DEFINE D == {d \in 0..N : \E x \in S : rank[x] = d /\ x \notin T}
<1>1. \A x \in S : rank[x] \in 0..N
  OBVIOUS
<1> SUFFICES ASSUME D # {} PROVE FALSE
  BY <1>1
<1> D \subseteq Nat
  OBVIOUS
<1> HIDE DEF D
<1>2. PICK d \in D : \A c \in D : d <= c
  BY LeastNumber
<1>3. PICK x \in S : rank[x] = d /\ x \notin T
  BY <1>2 DEF D
<1>4. ASSUME NEW y \in S, rank[y] < rank[x] PROVE y \in T
  <2>1. rank[y] \notin D
    BY <1>1, <1>2, <1>3, <1>4
  <2> QED
    BY <1>1, <2>1 DEF D
<1> QED
  BY <1>3, <1>4

-----------------------------------------------------------------------------
(***************************************************************************)
(* Sequences of sequences.                                                 *)
(***************************************************************************)
\* FlattenSeq joins its sequences from the first to the last.
LEMMA Flattening ==
    ASSUME NEW S, NEW ss \in Seq(Seq(S)), Len(ss) # 0
    PROVE  \E f \in [1..Len(ss) -> Seq(S)] :
              /\ Walk!FlattenSeq(ss) = f[Len(ss)]
              /\ \A k \in 1..Len(ss) : f[k] = IF k = 1 THEN ss[k] ELSE f[k - 1] \o ss[k]
<1> DEFINE D == 1..Len(ss)
           V == Seq(S)
           rank == [k \in D |-> k]
           F == [p \in D \X [D -> V] |->
                    IF p[1] = 1 THEN ss[p[1]] ELSE p[2][p[1] - 1] \o ss[p[1]]]
<1>1. /\ Len(ss) \in Nat /\ V # {} /\ rank \in [D -> 0..Len(ss)] /\ \A k \in D : ss[k] \in V
  OBVIOUS
<1>2. \A k \in D, g \in [D -> V] :
          F[<<k, g>>] = IF k = 1 THEN ss[k] ELSE g[k - 1] \o ss[k]
  OBVIOUS
<1>3. F \in [D \X [D -> V] -> V]
  <2>1. ASSUME NEW k \in D, NEW g \in [D -> V]
        PROVE  (IF k = 1 THEN ss[k] ELSE g[k - 1] \o ss[k]) \in V
    <3>1. k # 1 => k - 1 \in D
      BY <1>1
    <3>2. k # 1 => g[k - 1] \in V
      BY <3>1
    <3> QED
      BY <1>1, <3>2
  <2> QED
    BY <2>1
<1>4. \A k \in D : \A g, h \in [D -> V] :
          (\A l \in D : rank[l] < rank[k] => g[l] = h[l]) => F[<<k, g>>] = F[<<k, h>>]
  <2> SUFFICES ASSUME NEW k \in D, NEW g \in [D -> V], NEW h \in [D -> V],
                      \A l \in D : rank[l] < rank[k] => g[l] = h[l]
               PROVE  F[<<k, g>>] = F[<<k, h>>]
    OBVIOUS
  <2>1. k # 1 => k - 1 \in D /\ rank[k - 1] < rank[k]
    BY <1>1
  <2>2. k # 1 => g[k - 1] = h[k - 1]
    BY <2>1
  <2> HIDE DEF F, D, V, rank
  <2> QED
    BY <1>2, <2>2
<1>5. RecursiveIn(F, D, V, rank, Len(ss))
  <2> HIDE DEF F, D, V, rank
  <2> QED
    BY <1>1, <1>3, <1>4 DEF RecursiveIn
<1>6. PICK f \in [D -> V] : \A k \in D : f[k] = F[<<k, f>>]
  <2> HIDE DEF F, D, V, rank
  <2> QED
    BY <1>5, RecursionByRank
<1>7. \A k \in D : f[k] = IF k = 1 THEN ss[k] ELSE f[k - 1] \o ss[k]
  <2> HIDE DEF F
  <2> QED
    BY <1>2, <1>6
<1>8. f = [k \in D |-> IF k = 1 THEN ss[k] ELSE f[k - 1] \o ss[k]]
  <2> HIDE DEF F, V
  <2> QED
    BY <1>6, <1>7
<1> DEFINE c == CHOOSE g : g = [k \in D |-> IF k = 1 THEN ss[k] ELSE g[k - 1] \o ss[k]]
<1>9. c = [k \in D |-> IF k = 1 THEN ss[k] ELSE c[k - 1] \o ss[k]]
  BY <1>8
<1>10. \A k \in D : c[k] = IF k = 1 THEN ss[k] ELSE c[k - 1] \o ss[k]
  <2> HIDE DEF c
  <2> QED
    BY <1>9
<1>11. \A k \in D : c[k] \in V
  <2> DEFINE T == {k \in D : c[k] \in V}
  <2>1. ASSUME NEW k \in D, \A l \in D : rank[l] < rank[k] => l \in T
        PROVE  k \in T
    <3>1. k # 1 => k - 1 \in D /\ rank[k - 1] < rank[k]
      BY <1>1
    <3>2. k # 1 => c[k - 1] \in V
      <4> HIDE DEF c, V, D
      <4> QED
        BY <2>1, <3>1
    <3>3. k = 1 => c[k] \in V
      <4> HIDE DEF c
      <4> QED
        BY <1>1, <1>10
    <3>4. k # 1 => c[k] \in V
      <4>1. \A p, q \in V : p \o q \in V
        OBVIOUS
      <4>2. ss[k] \in V
        BY <1>1
      <4> HIDE DEF c, V, D
      <4> QED
        BY <1>10, <3>2, <4>1, <4>2
    <3> HIDE DEF c, V, D
    <3> QED
      BY <3>3, <3>4
  <2> HIDE DEF T
  <2>2. \A k \in D : k \in T
    <3> HIDE DEF D, rank
    <3> QED
      BY ONLY <1>1, <2>1, InductionByRank
  <2> QED
    BY <2>2 DEF T
<1>12. c \in [D -> V]
  <2> HIDE DEF V
  <2>1. DOMAIN c = D /\ c = [k \in D |-> c[k]]
    <3> HIDE DEF c
    <3> QED
      BY <1>9
  <2> HIDE DEF c, D
  <2> QED
    BY <1>11, <2>1
<1>13. Walk!FlattenSeq(ss) = c[Len(ss)]
  BY DEF Walk!FlattenSeq
<1> QED
  <2> HIDE DEF c
  <2> QED
    BY <1>10, <1>12, <1>13

\* What is in the result is in one of the sequences.
LEMMA FlattenTyped ==
    ASSUME NEW S, NEW ss \in Seq(Seq(S))
    PROVE  Walk!FlattenSeq(ss) \in Seq(S)
<1>1. CASE Len(ss) = 0
  <2>1. Walk!FlattenSeq(ss) = ss /\ ss = << >>
    BY <1>1 DEF Walk!FlattenSeq
  <2> QED
    BY <2>1
<1>2. CASE Len(ss) # 0
  <2>1. PICK f \in [1..Len(ss) -> Seq(S)] : Walk!FlattenSeq(ss) = f[Len(ss)]
    BY <1>2, Flattening
  <2>2. Len(ss) \in 1..Len(ss)
    BY <1>2
  <2> QED
    BY <2>1, <2>2
<1> QED
  BY <1>1, <1>2

\* An element of a sequence.
Holds(s, x) == \E m \in 1..Len(s) : s[m] = x

\* A concatenation holds what either part does.
LEMMA HoldsJoined ==
    ASSUME NEW S, NEW s \in Seq(S), NEW t \in Seq(S), NEW x
    PROVE  /\ Holds(s, x) => Holds(s \o t, x)
           /\ Holds(t, x) => Holds(s \o t, x)
           /\ Holds(s \o t, x) => Holds(s, x) \/ Holds(t, x)
<1>1. /\ Len(s) \in Nat /\ Len(t) \in Nat /\ Len(s \o t) = Len(s) + Len(t)
      /\ \A m \in 1..Len(s) : (s \o t)[m] = s[m]
      /\ \A m \in 1..Len(t) : (s \o t)[Len(s) + m] = t[m]
  OBVIOUS
<1>2. ASSUME Holds(s, x) PROVE Holds(s \o t, x)
  <2>1. PICK m \in 1..Len(s) : s[m] = x
    BY <1>2 DEF Holds
  <2> QED
    BY <1>1, <2>1 DEF Holds
<1>3. ASSUME Holds(t, x) PROVE Holds(s \o t, x)
  <2>1. PICK m \in 1..Len(t) : t[m] = x
    BY <1>3 DEF Holds
  <2>2. Len(s) + m \in 1..Len(s \o t)
    BY <1>1
  <2> QED
    BY <1>1, <2>1, <2>2 DEF Holds
<1>4. ASSUME Holds(s \o t, x) PROVE Holds(s, x) \/ Holds(t, x)
  <2>1. PICK m \in 1..Len(s \o t) : (s \o t)[m] = x
    BY <1>4 DEF Holds
  <2>2. CASE m \in 1..Len(s)
    BY <1>1, <2>1, <2>2 DEF Holds
  <2>3. CASE m \notin 1..Len(s)
    <3>1. m - Len(s) \in 1..Len(t) /\ Len(s) + (m - Len(s)) = m
      BY <1>1, <2>1, <2>3
    <3>2. t[m - Len(s)] = x
      BY <1>1, <2>1, <3>1
    <3> QED
      BY <3>1, <3>2 DEF Holds
  <2> QED
    BY <2>2, <2>3
<1> QED
  BY <1>2, <1>3, <1>4

\* Nothing is lost by flattening.
LEMMA FlattenHolds ==
    ASSUME NEW S, NEW ss \in Seq(Seq(S)), NEW j \in 1..Len(ss), NEW x, Holds(ss[j], x)
    PROVE  Holds(Walk!FlattenSeq(ss), x)
<1>1. Len(ss) \in Nat /\ Len(ss) # 0 /\ \A l \in 1..Len(ss) : ss[l] \in Seq(S)
  OBVIOUS
<1>2. PICK f \in [1..Len(ss) -> Seq(S)] :
          /\ Walk!FlattenSeq(ss) = f[Len(ss)]
          /\ \A k \in 1..Len(ss) : f[k] = IF k = 1 THEN ss[k] ELSE f[k - 1] \o ss[k]
  BY <1>1, Flattening
<1> DEFINE T == {l \in j..Len(ss) : ~ Holds(f[l], x)}
<1>3. T = {}
  <2> SUFFICES ASSUME T # {} PROVE FALSE
    OBVIOUS
  <2>1. T \subseteq Nat
    BY <1>1
  <2> HIDE DEF T
  <2>2. PICK l \in T : \A k \in T : l <= k
    BY <2>1, LeastNumber
  <2>3. l \in j..Len(ss) /\ ~ Holds(f[l], x)
    BY <2>2 DEF T
  <2>4. l \in 1..Len(ss) /\ l \in Nat
    BY <1>1, <2>3
  <2>5. CASE l = 1
    <3>1. f[l] = ss[l]
      BY <1>2, <2>4, <2>5
    <3>2. j = l
      BY <2>3, <2>5, j \in Nat, 1 <= j
    <3> QED
      BY <2>3, <3>1, <3>2
  <2>6. CASE l # 1
    <3>0. l - 1 \in 1..Len(ss)
      BY <1>1, <2>4, <2>6
    <3>1. f[l] = f[l - 1] \o ss[l] /\ f[l - 1] \in Seq(S) /\ ss[l] \in Seq(S)
      <4>1. f[l] = IF l = 1 THEN ss[l] ELSE f[l - 1] \o ss[l]
        BY ONLY <1>2, <2>4
      <4> QED
        BY <1>1, <2>4, <2>6, <3>0, <4>1
    <3>2. CASE l = j
      BY <2>3, <3>1, <3>2, HoldsJoined
    <3>3. CASE l # j
      <4>1. l - 1 \in j..Len(ss) /\ ~ (l <= l - 1)
        BY <1>1, <2>3, <3>0, <3>3
      <4>2. l - 1 \notin T
        BY <2>2, <4>1
      <4>3. Holds(f[l - 1], x)
        BY <4>1, <4>2 DEF T
      <4> QED
        BY <2>3, <3>1, <4>3, HoldsJoined
    <3> QED
      BY <3>2, <3>3
  <2> QED
    BY <2>5, <2>6
<1>4. Len(ss) \notin T /\ Len(ss) \in j..Len(ss)
  <2> HIDE DEF T
  <2> QED
    BY <1>1, <1>3
<1>5. Holds(f[Len(ss)], x)
  BY <1>4
<1> QED
  BY <1>2, <1>5

-----------------------------------------------------------------------------
(***************************************************************************)
(* Trees.                                                                  *)
(***************************************************************************)
\* The node x is y or below it.
Within(t, x, y) == x = y \/ y \in t.above[x]

\* Nodes are numbered from the root on, each behind its parent.
LEMMA NodeNumbers ==
    ASSUME NEW t, Walk!Walkable(t)
    PROVE  /\ Len(t.kind) \in Nat /\ Walk!NodesOf(t) = 1..Len(t.kind)
           /\ Walk!NodesOf(t) \subseteq Nat \ {0} /\ 1 \in Walk!NodesOf(t)
           /\ t.above[1] = {}
           /\ \A x \in Walk!NodesOf(t) \ {1} :
                 /\ t.parent[x] \in Walk!NodesOf(t) /\ t.parent[x] < x
                 /\ t.above[x] = {t.parent[x]} \cup t.above[t.parent[x]]
           /\ \A x \in Walk!NodesOf(t) : \A a \in t.above[x] : a \in Walk!NodesOf(t) /\ a < x
<1> DEFINE N == Walk!NodesOf(t)
<1>1. Walk!Shape(t)
  BY DEF Walk!Walkable
<1>2. Len(t.kind) \in Nat \ {0}
  BY <1>1 DEF Walk!Shape
<1>3. N = 1..Len(t.kind)
  BY DEF Walk!NodesOf
<1>4. N \subseteq Nat \ {0} /\ 1 \in N
  BY <1>2, <1>3
<1>5. t.above[1] = {}
  BY <1>1, <1>4 DEF Walk!Shape
<1>6. ASSUME NEW x \in N \ {1}
      PROVE  /\ t.parent[x] \in N /\ t.parent[x] < x
             /\ t.above[x] = {t.parent[x]} \cup t.above[t.parent[x]]
  <2>1. t.parent[x] \in 1..x - 1
    BY <1>1 DEF Walk!Shape
  <2>2. t.above[x] = {t.parent[x]} \cup t.above[t.parent[x]]
    BY <1>1 DEF Walk!Shape
  <2> QED
    BY <1>2, <1>3, <2>1, <2>2
<1>7. ASSUME NEW x \in N, NEW a \in t.above[x]
      PROVE  a \in N /\ a < x
  <2>1. t.above[x] \subseteq 1..x - 1
    BY <1>1 DEF Walk!Shape
  <2> QED
    BY <1>2, <1>3, <2>1
<1> HIDE DEF N
<1> QED
  BY <1>2, <1>3, <1>4, <1>5, <1>6, <1>7 DEF N

\* Of two nodes around x, the earlier one is around the later one.
LEMMA Chain ==
    ASSUME NEW t, Walk!Walkable(t), NEW x \in Walk!NodesOf(t),
           NEW a, NEW b, Within(t, x, a), Within(t, x, b), a <= b
    PROVE  Within(t, b, a)
<1> DEFINE N == Walk!NodesOf(t)
           T == {y \in N : Within(t, y, a) /\ Within(t, y, b) /\ ~ Within(t, b, a)}
<1> SUFFICES ASSUME T # {} PROVE FALSE
  OBVIOUS
<1>1. T \subseteq Nat
  BY NodeNumbers
<1> HIDE DEF T
<1>2. PICK y \in T : \A k \in T : y <= k
  BY <1>1, LeastNumber
<1>3. y \in N /\ Within(t, y, a) /\ Within(t, y, b) /\ ~ Within(t, b, a)
  BY <1>2 DEF T
<1>4. a \in N /\ b \in N /\ a \in Nat /\ b \in Nat /\ y \in Nat
  BY <1>3, NodeNumbers DEF Within
<1>5. y # b
  BY <1>3
<1>6. b < y /\ y # a
  BY <1>3, <1>4, <1>5, NodeNumbers DEF Within
<1>7. y # 1
  BY <1>4, <1>6, NodeNumbers
<1>8. /\ t.parent[y] \in N /\ t.parent[y] < y /\ t.parent[y] \in Nat
      /\ t.above[y] = {t.parent[y]} \cup t.above[t.parent[y]]
  BY <1>3, <1>7, NodeNumbers
<1>9. t.parent[y] \in T
  BY <1>3, <1>5, <1>6, <1>8 DEF T, Within
<1> QED
  BY <1>2, <1>4, <1>8, <1>9

\* What is around a node that is around x is around x.
LEMMA Outward ==
    ASSUME NEW t, Walk!Walkable(t), NEW x \in Walk!NodesOf(t),
           NEW a, NEW b, Within(t, x, b), Within(t, b, a)
    PROVE  Within(t, x, a)
<1> DEFINE N == Walk!NodesOf(t)
           T == {y \in N : Within(t, y, b) /\ ~ Within(t, y, a)}
<1> SUFFICES ASSUME T # {} PROVE FALSE
  OBVIOUS
<1>1. T \subseteq Nat
  BY NodeNumbers
<1> HIDE DEF T
<1>2. PICK y \in T : \A k \in T : y <= k
  BY <1>1, LeastNumber
<1>3. y \in N /\ Within(t, y, b) /\ ~ Within(t, y, a)
  BY <1>2 DEF T
<1>4. y # b /\ y \in Nat
  BY <1>3, NodeNumbers
<1>5. y # 1
  BY <1>3, <1>4, NodeNumbers DEF Within
<1>6. /\ t.parent[y] \in N /\ t.parent[y] < y /\ t.parent[y] \in Nat
      /\ t.above[y] = {t.parent[y]} \cup t.above[t.parent[y]]
  BY <1>3, <1>5, NodeNumbers
<1>7. t.parent[y] \in T
  BY <1>3, <1>4, <1>6 DEF T, Within
<1> QED
  BY <1>2, <1>4, <1>6, <1>7

\* The children of a node are below it and numbered behind it.
LEMMA Children ==
    ASSUME NEW t, Walk!Walkable(t), NEW x \in Walk!NodesOf(t)
    PROVE  /\ t.children[x] \in Seq(Walk!NodesOf(t))
           /\ \A j \in 1..Len(t.children[x]) :
                 LET c == t.children[x][j]
                 IN  c \in Walk!NodesOf(t) /\ x < c /\ Within(t, c, x)
<1> DEFINE N == Walk!NodesOf(t)
<1>1. Walk!Shape(t)
  BY DEF Walk!Walkable
<1>2. t.children[x] \in Seq(N)
  BY <1>1 DEF Walk!Shape
<1>3. ASSUME NEW j \in 1..Len(t.children[x]), NEW c, c = t.children[x][j]
      PROVE  c \in N /\ x < c /\ Within(t, c, x)
  <2>0. c \in N
    BY <1>2, <1>3
  <2>1. t.parent[c] = x
    BY <1>1, <1>3 DEF Walk!Shape
  <2>2. c # 1
    <3>1. t.parent[1] = 0 /\ x # 0
      BY <1>1, NodeNumbers DEF Walk!Shape
    <3> QED
      BY <2>1, <3>1
  <2> QED
    BY <2>0, <2>1, <2>2, NodeNumbers DEF Within
<1> QED
  BY <1>2, <1>3

\* A node below x is in a child of x.
LEMMA InAChild ==
    ASSUME NEW t, Walk!Walkable(t), NEW x \in Walk!NodesOf(t), NEW y \in Walk!NodesOf(t),
           Within(t, y, x), y # x
    PROVE  \E j \in 1..Len(t.children[x]) : Within(t, y, t.children[x][j])
<1> DEFINE N == Walk!NodesOf(t)
           Via(d) == \E c \in N \ {1} : t.parent[c] = x /\ Within(t, d, c)
           T == {d \in N : x \in t.above[d] /\ ~ Via(d)}
<1>1. T = {}
  <2> SUFFICES ASSUME T # {} PROVE FALSE
    OBVIOUS
  <2>1. T \subseteq Nat
    BY NodeNumbers
  <2>2. PICK d \in T : \A k \in T : d <= k
    BY <2>1, LeastNumber
  <2>3. d \in N \ {1} /\ x \in t.above[d] /\ ~ Via(d)
    BY <2>2, NodeNumbers
  <2>4. /\ t.parent[d] \in N /\ t.parent[d] < d
        /\ t.above[d] = {t.parent[d]} \cup t.above[t.parent[d]]
    BY <2>3, NodeNumbers
  <2>5. t.parent[d] # x
    BY <2>3 DEF Within
  <2>6. x \in t.above[t.parent[d]]
    BY <2>3, <2>4, <2>5
  <2>7. ~ Via(t.parent[d])
    BY <2>3, <2>4 DEF Within
  <2>8. t.parent[d] \in T
    BY <2>4, <2>6, <2>7
  <2>9. d \in Nat /\ t.parent[d] \in Nat
    BY <2>3, <2>4, NodeNumbers
  <2> QED
    BY <2>2, <2>4, <2>8, <2>9
<1>2. x \in t.above[y]
  BY DEF Within
<1>3. PICK c \in N \ {1} : t.parent[c] = x /\ Within(t, y, c)
  BY <1>1, <1>2
<1>4. \E j \in 1..Len(t.children[x]) : t.children[x][j] = c
  BY <1>3 DEF Walk!Walkable, Walk!Shape
<1> QED
  BY <1>3, <1>4

\* Every node is in the root.
LEMMA InTheRoot ==
    ASSUME NEW t, Walk!Walkable(t)
    PROVE  \A x \in Walk!NodesOf(t) : Within(t, x, 1)
<1> DEFINE N == Walk!NodesOf(t)
           T == {x \in N : ~ Within(t, x, 1)}
<1> SUFFICES ASSUME T # {} PROVE FALSE
  OBVIOUS
<1>1. T \subseteq Nat
  BY NodeNumbers
<1>2. PICK x \in T : \A k \in T : x <= k
  BY <1>1, LeastNumber
<1>3. x \in N \ {1} /\ 1 \notin t.above[x]
  BY <1>2 DEF Within
<1>4. /\ t.parent[x] \in N /\ t.parent[x] < x
      /\ t.above[x] = {t.parent[x]} \cup t.above[t.parent[x]]
      /\ x \in Nat /\ t.parent[x] \in Nat
  BY <1>3, NodeNumbers
<1>5. t.parent[x] \in T
  BY <1>3, <1>4 DEF Within
<1> QED
  BY <1>2, <1>4, <1>5

-----------------------------------------------------------------------------
(***************************************************************************)
(* The nodes that collectNamedKinds finds.                                 *)
(***************************************************************************)
\* The nodes of the subtree of x.
Part(x) == {y \in Walk!Nodes : Within(tree, y, x)}

\* A sequence over S is one over what includes S.
LEMMA WiderSequence ==
    ASSUME NEW S, NEW R, NEW s \in Seq(S), S \subseteq R
    PROVE  s \in Seq(R)
OBVIOUS

\* What the recursion of collectNamedKinds finds at x is in the subtree of x.
LEMMA MatchesTyped ==
    ASSUME Walk!Walkable(tree), NEW kinds, NEW ex
    PROVE  \A x \in Walk!Nodes : Walk!Matches(kinds, ex)[x] \in Seq(Part(x))
<1> DEFINE N == Walk!NodesOf(tree)
           V == Seq(N)
           L == Len(tree.kind)
           rank == [x \in N |-> L - x]
           Below(g, x) == [m \in 1..Len(tree.children[x]) |-> g[tree.children[x][m]]]
           Result(g, x) == IF x = ex THEN << >>
                           ELSE IF tree.kind[x] \in kinds THEN << x >>
                           ELSE Walk!FlattenSeq(Below(g, x))
           F == [p \in N \X [N -> V] |-> Result(p[2], p[1])]
<1>1. /\ L \in Nat /\ N = 1..L /\ V # {} /\ rank \in [N -> 0..L]
      /\ \A x, y \in N : x < y => rank[y] < rank[x]
  <2>1. L \in Nat /\ N = 1..L
    BY NodeNumbers
  <2> HIDE DEF N, L
  <2>2. V # {}
    BY << >> \in V
  <2>3. rank \in [N -> 0..L] /\ \A x, y \in N : x < y => rank[y] < rank[x]
    BY <2>1
  <2> QED
    BY <2>1, <2>2, <2>3
<1>2. ASSUME NEW x \in N
      PROVE  /\ tree.children[x] \in Seq(N) /\ Len(tree.children[x]) \in Nat
             /\ \A m \in 1..Len(tree.children[x]) :
                   tree.children[x][m] \in N /\ rank[tree.children[x][m]] < rank[x]
  <2>1. /\ tree.children[x] \in Seq(N)
        /\ \A m \in 1..Len(tree.children[x]) :
              tree.children[x][m] \in N /\ x < tree.children[x][m]
    BY Children
  <2>2. Len(tree.children[x]) \in Nat
    <3> HIDE DEF N
    <3> QED
      BY <2>1
  <2> HIDE DEF rank, N
  <2> QED
    BY <1>1, <2>1, <2>2
<1>3. ASSUME NEW x \in N, NEW g \in [N -> V] PROVE Result(g, x) \in V
  <2>1. \A m \in 1..Len(tree.children[x]) : g[tree.children[x][m]] \in V
    <3> HIDE DEF N, V, rank
    <3> QED
      BY <1>2
  <2>2. Below(g, x) \in Seq(V)
    <3> HIDE DEF N, V, rank
    <3> QED
      BY <1>2, <2>1
  <2>3. Walk!FlattenSeq(Below(g, x)) \in V
    <3> HIDE DEF N, rank, Below
    <3> QED
      BY <2>2, FlattenTyped
  <2>4. << >> \in V /\ << x >> \in V
    <3> HIDE DEF N
    <3> QED
      OBVIOUS
  <2> HIDE DEF V, N, Below
  <2> QED
    BY <2>3, <2>4
<1>4. /\ F \in [N \X [N -> V] -> V]
      /\ \A x \in N, g \in [N -> V] : F[<<x, g>>] = Result(g, x)
  <2> HIDE DEF N, V, Result
  <2> QED
    BY <1>3
<1>5. ASSUME NEW x \in N, NEW g, NEW h,
             \A y \in N : rank[y] < rank[x] => g[y] = h[y]
      PROVE  Result(g, x) = Result(h, x)
  <2>1. \A m \in 1..Len(tree.children[x]) : g[tree.children[x][m]] = h[tree.children[x][m]]
    <3> HIDE DEF N, rank
    <3> QED
      BY <1>2, <1>5
  <2>2. Below(g, x) = Below(h, x)
    BY <2>1
  <2> HIDE DEF Below
  <2> QED
    BY <2>2
<1>6. RecursiveIn(F, N, V, rank, L)
  <2> HIDE DEF F, N, V, rank, L, Result
  <2> QED
    BY <1>1, <1>4, <1>5 DEF RecursiveIn
<1>7. PICK f \in [N -> V] : \A x \in N : f[x] = F[<<x, f>>]
  <2> HIDE DEF F, N, V, rank, L
  <2> QED
    BY <1>6, RecursionByRank
<1>8. f = [x \in N |-> Result(f, x)]
  <2> HIDE DEF F, N, V, Result
  <2> QED
    BY <1>4, <1>7
<1> DEFINE c == CHOOSE g : g = [x \in N |-> Result(g, x)]
<1>9. c = [x \in N |-> Result(c, x)]
  <2> HIDE DEF N, Result
  <2> QED
    BY <1>8
<1>10. \A x \in N : c[x] = Result(c, x)
  <2> HIDE DEF c, N, Result
  <2> QED
    BY <1>9
<1>11. Walk!Matches(kinds, ex) = c
  BY DEF Walk!Matches, Walk!Nodes
<1>12. \A x \in N : c[x] \in Seq(Part(x))
  <2> DEFINE T == {x \in N : c[x] \in Seq(Part(x))}
  <2>1. ASSUME NEW x \in N, \A y \in N : rank[y] < rank[x] => y \in T
        PROVE  x \in T
    <3>1. ASSUME NEW m \in 1..Len(tree.children[x])
          PROVE  c[tree.children[x][m]] \in Seq(Part(x))
      <4>1. PICK y \in N : y = tree.children[x][m]
        BY <1>2
      <4>2. rank[y] < rank[x]
        <5> HIDE DEF rank, N
        <5> QED
          BY <1>2, <4>1
      <4>3. c[y] \in Seq(Part(y))
        <5> HIDE DEF rank, N, c
        <5> QED
          BY <2>1, <4>2
      <4>4. Within(tree, y, x)
        BY <4>1, Children
      <4>5. Part(y) \subseteq Part(x)
        BY <4>4, Outward DEF Part, Walk!Nodes
      <4> HIDE DEF c
      <4> QED
        BY <4>1, <4>3, <4>5, WiderSequence
    <3>2. Below(c, x) \in Seq(Seq(Part(x)))
      <4> HIDE DEF c, N, rank
      <4> QED
        BY <1>2, <3>1
    <3>3. Walk!FlattenSeq(Below(c, x)) \in Seq(Part(x))
      <4> HIDE DEF Below, c
      <4> QED
        BY <3>2, FlattenTyped
    <3>4. << >> \in Seq(Part(x)) /\ << x >> \in Seq(Part(x))
      <4>1. x \in Part(x)
        BY DEF Part, Walk!Nodes, Within
      <4> QED
        BY <4>1
    <3>5. Result(c, x) \in Seq(Part(x))
      <4> HIDE DEF Below, c, N
      <4> QED
        BY <3>3, <3>4
    <3> HIDE DEF c, Result, N
    <3> QED
      BY <1>10, <3>5
  <2>3. L \in Nat /\ rank \in [N -> 0..L]
    BY <1>1
  <2> HIDE DEF T, N, c, rank, L
  <2>4. \A x \in N : (\A y \in N : rank[y] < rank[x] => y \in T) => x \in T
    BY <2>1
  <2>2. \A x \in N : x \in T
    BY ONLY <2>3, <2>4, InductionByRank
  <2> QED
    BY <2>2 DEF T
<1> HIDE DEF c
<1> QED
  BY <1>11, <1>12 DEF Walk!Nodes

\* The nodes that collectNamedKinds finds below x.
LEMMA NamesTyped ==
    ASSUME Walk!Walkable(tree), NEW x \in Walk!Nodes
    PROVE  Walk!collectNamedKinds(x) \in Seq(Part(x))
<1> DEFINE c == tree.children[x]
           M == Walk!Matches(es.nameKinds, 0)
           ss == [m \in 1..Len(c) |-> M[c[m]]]
<1>1. Len(c) \in Nat
  <2>1. c \in Seq(Walk!Nodes)
    BY Children DEF Walk!Nodes
  <2> QED
    BY <2>1
<1>2. ASSUME NEW m \in 1..Len(c) PROVE M[c[m]] \in Seq(Part(x))
  <2>1. PICK y \in Walk!Nodes : y = c[m] /\ Within(tree, y, x)
    BY Children DEF Walk!Nodes
  <2>2. M[y] \in Seq(Part(y))
    <3> HIDE DEF M
    <3>1. \A z \in Walk!Nodes : M[z] \in Seq(Part(z))
      BY MatchesTyped DEF M
    <3> QED
      BY <3>1
  <2>3. Part(y) \subseteq Part(x)
    BY <2>1, Outward DEF Part, Walk!Nodes
  <2> HIDE DEF M
  <2> QED
    BY <2>1, <2>2, <2>3, WiderSequence
<1>3. ss \in Seq(Seq(Part(x)))
  <2> HIDE DEF M, c
  <2> QED
    BY <1>1, <1>2
<1>4. Walk!collectNamedKinds(x) = Walk!FlattenSeq(ss)
  BY DEF Walk!collectNamedKinds
<1> HIDE DEF ss
<1> QED
  BY <1>3, <1>4, FlattenTyped

-----------------------------------------------------------------------------
(***************************************************************************)
(* The edges that a rule makes.                                            *)
(***************************************************************************)
\* It is a sequence, whatever it is of.
IsSeq(s) == \E S : s \in Seq(S)

\* The line that x starts in; the lines that start in v.
LineOf(x)  == tree.startRow[x] + 1
LinesIn(v) == {LineOf(y) : y \in Part(v)}

\* What is known of an edge x.
Known(x) ==
    /\ x.owner \in Walk!Nodes
    /\ x.source = Walk!enclosingDefinition(x.owner).source
    /\ x.sourceParent = Walk!enclosingDefinition(x.owner).sourceParent
    /\ x.sourceLine = Walk!enclosingDefinition(x.owner).sourceLine
    /\ x.line \in LinesIn(x.owner)

\* The edges of s are known, and were found at v.
Made(s, v) == IsSeq(s) /\ \A m \in 1..Len(s) : Known(s[m]) /\ s[m].owner = v

\* A sequence of edges that are known and found at v.
LEMMA MadeOf ==
    ASSUME NEW S, NEW v, NEW s \in Seq(S), \A x \in S : Known(x) /\ x.owner = v
    PROVE  Made(s, v)
<1>1. \A m \in 1..Len(s) : s[m] \in S
  OBVIOUS
<1> QED
  BY <1>1 DEF Made, IsSeq

\* No edges at all are such a sequence.
LEMMA MadeNone == \A v : Made(<< >>, v)
BY DEF Made, IsSeq

\* Edge records the line it is given and what enclosingDefinition answers.
LEMMA MakesKnown ==
    ASSUME NEW kind, NEW v \in Walk!Nodes, NEW at, NEW name, NEW q, NEW line \in LinesIn(v),
           NEW x, x = Walk!MakeEdge(kind, v, at, name, q, line)
    PROVE  Known(x) /\ x.owner = v /\ x.kind = kind /\ x.target = name /\ x.line = line
<1> DEFINE d == Walk!enclosingDefinition(v)
<1>1. /\ x.owner = v /\ x.kind = kind /\ x.target = name /\ x.line = line
      /\ x.source = d.source /\ x.sourceParent = d.sourceParent /\ x.sourceLine = d.sourceLine
  BY DEF Walk!MakeEdge
<1> QED
  BY <1>1 DEF Known

\* s has x in it, or nothing.
AtMost(s, x) == s = << >> \/ s = << x >>

\* One edge or none is such a sequence.
LEMMA MadeOne ==
    ASSUME NEW v, NEW x, Known(x), x.owner = v, NEW s, AtMost(s, x)
    PROVE  Made(s, v)
<1>1. CASE s = << >>
  BY <1>1, MadeNone
<1>2. CASE s = << x >>
  <2>1. PICK S : S = {x}
    OBVIOUS
  <2>2. s \in Seq(S) /\ \A p \in S : Known(p) /\ p.owner = v
    BY <1>2, <2>1
  <2> QED
    BY <2>2, MadeOf
<1> QED
  BY <1>1, <1>2 DEF AtMost

\* A node is in its own subtree, and so is the line of what is there.
LEMMA OwnLines ==
    /\ \A v \in Walk!Nodes : v \in Part(v)
    /\ \A v, at : at \in Part(v) => LineOf(at) \in LinesIn(v)
BY DEF Part, Within, LinesIn

\* buildImportEdge makes at most one edge, at the line of the node.
LEMMA ImportMade ==
    ASSUME NEW v \in Walk!Nodes, NEW ex
    PROVE  Made(Walk!buildImportEdge(v, ex), v)
<1>1. PICK line \in LinesIn(v) : line = LineOf(v)
  BY OwnLines
<1>2. PICK b, kind : b = Walk!buildImportEdge(v, ex) /\ kind = "import"
  OBVIOUS
<1>3. \/ b = << >>
      \/ \E at, name, q : b = << Walk!MakeEdge(kind, v, at, name, q, line) >>
  BY <1>1, <1>2 DEF Walk!buildImportEdge, LineOf
<1>4. b = << >> \/ \E at, name, q, x : b = << x >> /\ x = Walk!MakeEdge(kind, v, at, name, q, line)
  BY <1>3
<1>5. b = << >> \/ \E x : b = << x >> /\ Known(x) /\ x.owner = v
  BY <1>4, MakesKnown
<1>6. Made(b, v)
  BY <1>5, MadeOne, MadeNone DEF AtMost
<1> QED
  BY <1>2, <1>6

\* No edge of the kind is made of the name.
Omitted(kind, name, v) ==
    \/ name = ""
    \/ kind = "reference" /\ name = Walk!enclosingDefinition(v).source

\* appendEdge makes the edge it is asked for, unless the name is to be omitted.
LEMMA AppendMade ==
    ASSUME NEW v \in Walk!Nodes, NEW at \in Part(v), NEW kind, NEW q, NEW name,
           NEW line, line = LineOf(at),
           NEW b, b = Walk!appendEdge(v, at, kind, q, name),
           NEW x, x = Walk!MakeEdge(kind, v, at, name, q, line)
    PROVE  /\ Made(b, v) /\ AtMost(b, x)
           /\ b = << >> => Omitted(kind, name, v)
<1>1. AtMost(b, x)
  BY DEF Walk!appendEdge, AtMost, LineOf
<1>2. Made(b, v)
  <2>1. line \in LinesIn(v)
    BY OwnLines
  <2>2. Known(x) /\ x.owner = v
    BY <2>1, MakesKnown
  <2> QED
    BY <1>1, <2>2, MadeOne
<1>3. b = << >> => Omitted(kind, name, v)
  BY DEF Walk!appendEdge, Omitted
<1> QED
  BY <1>1, <1>2, <1>3

\* The edges for the names below a node are known and found at it.
LEMMA NamedMade ==
    ASSUME Walk!Walkable(tree), NEW v \in Walk!Nodes, NEW root, root \subseteq Part(v), NEW kind
    PROVE  Made(Walk!NamedBelow(v, root, kind), v)
<1>1. PICK r : r = CHOOSE p \in root : TRUE
  OBVIOUS
<1> DEFINE names == IF root = {} THEN << >> ELSE Walk!collectNamedKinds(r)
           one(m) == Walk!appendEdge(v, names[m], kind, "", tree.text[names[m]])
           ss == [m \in 1..Len(names) |-> one(m)]
           S == {Walk!MakeEdge(kind, v, at, tree.text[at], "", LineOf(at)) : at \in Part(v)}
<1>2. names \in Seq(Part(v))
  <2>1. CASE root = {}
    BY <2>1
  <2>2. CASE root # {}
    <3>1. r \in root
      BY <1>1, <2>2
    <3>2. r \in Walk!Nodes /\ r \in Part(v)
      BY <3>1 DEF Part
    <3>3. Walk!collectNamedKinds(r) \in Seq(Part(r))
      BY <3>2, NamesTyped
    <3>4. Part(r) \subseteq Part(v)
      BY <3>2, Outward DEF Part, Walk!Nodes
    <3> QED
      BY <2>2, <3>3, <3>4, WiderSequence
  <2> QED
    BY <2>1, <2>2
<1>3. Len(names) \in Nat /\ \A m \in 1..Len(names) : names[m] \in Part(v)
  <2> HIDE DEF names
  <2> QED
    BY <1>2
<1>4. ASSUME NEW m \in 1..Len(names) PROVE one(m) \in Seq(S)
  <2>1. PICK at \in Part(v) : at = names[m]
    BY <1>3
  <2>2. PICK line, x : /\ line = LineOf(at)
                       /\ x = Walk!MakeEdge(kind, v, at, tree.text[at], "", line)
    OBVIOUS
  <2>3. x \in S
    BY <2>2
  <2> HIDE DEF names, S
  <2>4. PICK b : b = Walk!appendEdge(v, at, kind, "", tree.text[at])
    OBVIOUS
  <2>5. AtMost(b, x)
    <3>1. PICK name, q : name = tree.text[at] /\ q = ""
      OBVIOUS
    <3>2. b = Walk!appendEdge(v, at, kind, q, name) /\ x = Walk!MakeEdge(kind, v, at, name, q, line)
      BY <2>2, <2>4, <3>1
    <3>3. line = LineOf(at)
      BY <2>2
    <3> HIDE DEF names, S
    <3> QED
      BY <3>2, <3>3, AppendMade
  <2>6. one(m) = b
    BY <2>1, <2>4
  <2>7. << >> \in Seq(S) /\ << x >> \in Seq(S)
    BY <2>3
  <2> HIDE DEF one
  <2> QED
    BY <2>5, <2>6, <2>7 DEF AtMost
<1>5. ss \in Seq(Seq(S))
  <2> HIDE DEF names, S, one
  <2> QED
    BY <1>3, <1>4
<1>6. Walk!FlattenSeq(ss) \in Seq(S)
  <2> HIDE DEF ss, S
  <2> QED
    BY <1>5, FlattenTyped
<1>7. Walk!NamedBelow(v, root, kind) = Walk!FlattenSeq(ss)
  BY <1>1 DEF Walk!NamedBelow
<1>8. \A x \in S : Known(x) /\ x.owner = v
  <2> SUFFICES ASSUME NEW at \in Part(v)
               PROVE  LET x == Walk!MakeEdge(kind, v, at, tree.text[at], "", LineOf(at))
                      IN  Known(x) /\ x.owner = v
    OBVIOUS
  <2>1. PICK line \in LinesIn(v) : line = LineOf(at)
    BY OwnLines
  <2>2. PICK x, name, q : name = tree.text[at] /\ q = "" /\ x = Walk!MakeEdge(kind, v, at, name, q, line)
    OBVIOUS
  <2>3. x = Walk!MakeEdge(kind, v, at, name, q, line)
    BY <2>2
  <2>4. Known(x) /\ x.owner = v
    BY <2>3, MakesKnown
  <2> QED
    BY <2>1, <2>2, <2>4
<1> HIDE DEF ss, S
<1> QED
  BY <1>6, <1>7, <1>8, MadeOf

\* A field of a node is in its subtree.
LEMMA FieldIn ==
    ASSUME Walk!Walkable(tree), NEW v \in Walk!Nodes, NEW f
    PROVE  Walk!Field(v, f) \subseteq Part(v)
BY DEF Walk!Walkable, Walk!Field, Part, Within, Walk!Nodes

\* The steps that take a rule off the list of those to apply.
Applies ==
    \/ Walk!ApplyImport \/ Walk!ApplyDescend \/ Walk!NoName
    \/ Walk!OverrideImport \/ Walk!OverrideOther \/ Walk!ApplyTarget

\* Every rule adds edges that are found at the node.
LEMMA AppliesAdds ==
    ASSUME Walk!Walkable(tree), Walk!node \in Walk!Nodes, Applies
    PROVE  \E s : Made(s, Walk!node) /\ Walk!Emit(s)
<1>1. PICK v \in Walk!Nodes : v = Walk!node
  OBVIOUS
<1>2. Walk!Target \subseteq Part(v)
  BY <1>1, FieldIn, OwnLines DEF Walk!Target
<1>3. Walk!target \in Walk!Target \/ Walk!Target = {}
  BY DEF Walk!target
<1>4. CASE Walk!ApplyImport
  BY <1>1, <1>4, ImportMade DEF Walk!ApplyImport
<1>5. CASE Walk!ApplyDescend
  <2>1. Walk!Emit(Walk!NamedBelow(v, Walk!Target, Walk!rule.edge))
    BY <1>1, <1>5 DEF Walk!ApplyDescend
  <2>2. Made(Walk!NamedBelow(v, Walk!Target, Walk!rule.edge), v)
    BY <1>2, NamedMade
  <2> QED
    BY <1>1, <2>1, <2>2
<1>6. CASE Walk!NoName
  BY <1>1, <1>6, MadeNone DEF Walk!NoName
<1>7. CASE Walk!OverrideImport
  BY <1>1, <1>7, ImportMade DEF Walk!OverrideImport
<1>8. CASE Walk!OverrideOther
  <2>1. PICK kind : Walk!Emit(Walk!NamedBelow(v, Walk!Field(v, "arguments"), kind))
    BY <1>1, <1>8 DEF Walk!OverrideOther
  <2>2. Made(Walk!NamedBelow(v, Walk!Field(v, "arguments"), kind), v)
    BY FieldIn, NamedMade
  <2> QED
    BY <1>1, <2>1, <2>2
<1>9. CASE Walk!ApplyTarget
  <2>1. Walk!target \in Part(v)
    BY <1>2, <1>3, <1>9 DEF Walk!ApplyTarget, Walk!Named
  <2>2. PICK q, name, kind : Walk!Emit(Walk!appendEdge(v, Walk!target, kind, q, name))
    BY <1>1, <1>9 DEF Walk!ApplyTarget
  <2>3. PICK at \in Part(v) : at = Walk!target
    BY <2>1
  <2>4. PICK line, b, x : /\ line = LineOf(at)
                          /\ b = Walk!appendEdge(v, at, kind, q, name)
                          /\ x = Walk!MakeEdge(kind, v, at, name, q, line)
    OBVIOUS
  <2>5. Made(b, v)
    BY <2>4, AppendMade
  <2> QED
    BY <1>1, <2>2, <2>3, <2>4, <2>5
<1> QED
  BY <1>4, <1>5, <1>6, <1>7, <1>8, <1>9 DEF Applies

-----------------------------------------------------------------------------
(***************************************************************************)
(* The invariant of the walk.                                              *)
(***************************************************************************)
\* The types of what the walk keeps, and where the stack is empty.
Stacked ==
    /\ Walk!Walkable(tree) /\ es.rules \in Seq(Walk!Rule)
    /\ ep \in {"node", "rules", "returned"}
    /\ todo \in Seq(Walk!Rule) /\ stack \in Seq(Walk!Nodes)
    /\ ep = "rules" => stack # << >>
    /\ ep = "returned" => stack = << >>

\* The edges so far are known.
Collected == IsSeq(edges) /\ \A m \in 1..Len(edges) : Known(edges[m])

\* The subtrees to visit are apart, the earlier ones in the front of the file.
StackApart ==
    \A j, k \in 1..Len(stack) : j < k => \A x \in Part(stack[j]) : x < stack[k]

\* The edges so far were found ahead of all that is still to be visited, or at
\* the node whose rules are being applied.
OwnersBehind ==
    \A m \in 1..Len(edges) : \A k \in 1..Len(stack) :
        \/ edges[m].owner < stack[k]
        \/ ep = "rules" /\ k = 1 /\ edges[m].owner = stack[1]

\* What document order of the edges rests on.
Ordered == StackApart /\ OwnersBehind /\ Walk!DocumentOrder

\* The node v is still to be visited.
Ahead(v) ==
    \E k \in 1..Len(stack) :
        v \in Part(stack[k]) /\ (ep = "rules" => (k # 1 \/ v # stack[1]))

\* The edge x says what rule r has found in c at v.
Tells(x, v, r, c) ==
    /\ x.kind = r.edge /\ x.source = Walk!enclosingDefinition(v).source
    /\ x.target = tree.text[c] /\ x.line = LineOf(c)

\* There is an edge that says so, unless there must be none.
Told(v, r, c) ==
    \/ Omitted(r.edge, tree.text[c], v)
    \/ \E m \in 1..Len(edges) : Tells(edges[m], v, r, c)

\* Rule r has still to be applied at v.
Pending(v, r) == ep = "rules" /\ v = stack[1] /\ Holds(todo, r)

\* Nothing has been passed over: a node is ahead, or each of its rules has been
\* applied or is about to be.
Complete ==
    \A v \in Walk!Nodes :
        \/ Ahead(v)
        \/ \A k \in 1..Len(es.rules) : \A c \in Walk!Found(v, es.rules[k]) :
              Told(v, es.rules[k], c) \/ Pending(v, es.rules[k])

\* The invariant of the walk.
WalkInv == Stacked /\ Collected /\ Ordered /\ Complete

-----------------------------------------------------------------------------
(***************************************************************************)
(* The walk keeps it.                                                      *)
(***************************************************************************)
\* What is said of a tree stays true while the tree and the tables are the
\* same.
LEMMA SameTree ==
    ASSUME tree' = tree, es' = es
    PROVE  /\ Walk!Nodes' = Walk!Nodes
           /\ \A x : Part(x)' = Part(x)
           /\ \A x : Known(x)' <=> Known(x)
           /\ \A v, r : Walk!Found(v, r)' = Walk!Found(v, r)
           /\ \A x, v, r, c : Tells(x, v, r, c)' <=> Tells(x, v, r, c)
           /\ \A v, kind, name : Omitted(kind, name, v)' <=> Omitted(kind, name, v)
<1>1. Walk!Nodes' = Walk!Nodes /\ \A x : Part(x)' = Part(x)
  BY DEF Walk!Nodes, Part
<1>2. \A v : Walk!enclosingDefinition(v)' = Walk!enclosingDefinition(v)
  <2>1. \A v : Walk!NameOf(v)' = Walk!NameOf(v)
    BY DEF Walk!NameOf, Walk!TextOf, Walk!Field
  <2>2. Walk!TopLevels' = Walk!TopLevels /\ Walk!Definitions' = Walk!Definitions
    BY <1>1, <2>1 DEF Walk!TopLevels, Walk!Definitions
  <2>3. \A v : Walk!FirstUp(v, Walk!Definitions)' = Walk!FirstUp(v, Walk!Definitions)
    BY <2>2 DEF Walk!FirstUp
  <2>4. \A v : Walk!extractParentName(v)' = Walk!extractParentName(v)
    <3>1. \A v : Walk!FirstUp(tree.parent[v], Walk!TopLevels)' =
                    Walk!FirstUp(tree.parent[v], Walk!TopLevels)
      BY <2>2 DEF Walk!FirstUp
    <3> QED
      BY <2>1, <3>1 DEF Walk!extractParentName
  <2> QED
    BY <2>1, <2>3, <2>4 DEF Walk!enclosingDefinition
<1>3. \A x : LineOf(x)' = LineOf(x) /\ LinesIn(x)' = LinesIn(x)
  BY <1>1 DEF LineOf, LinesIn
<1>4. \A x : Known(x)' <=> Known(x)
  BY <1>1, <1>2, <1>3 DEF Known
<1>5. \A v, r : Walk!Found(v, r)' = Walk!Found(v, r)
  BY DEF Walk!Found, Walk!Field
<1>6. \A x, v, r, c : Tells(x, v, r, c)' <=> Tells(x, v, r, c)
  BY <1>2, <1>3 DEF Tells
<1>7. \A v, kind, name : Omitted(kind, name, v)' <=> Omitted(kind, name, v)
  BY <1>2 DEF Omitted
<1> QED
  BY <1>1, <1>4, <1>5, <1>6, <1>7

\* Two sequences, one behind the other.
LEMMA JoinedSeqs ==
    ASSUME NEW s, NEW t, IsSeq(s), IsSeq(t)
    PROVE  /\ IsSeq(s \o t) /\ Len(s) \in Nat /\ Len(t) \in Nat /\ Len(s \o t) = Len(s) + Len(t)
           /\ \A m \in 1..Len(s) : (s \o t)[m] = s[m]
           /\ \A m \in 1..Len(t) : (s \o t)[Len(s) + m] = t[m]
<1>1. PICK S, R : s \in Seq(S) /\ t \in Seq(R)
  BY DEF IsSeq
<1>2. PICK Q : Q = S \cup R
  OBVIOUS
<1>3. s \in Seq(Q) /\ t \in Seq(Q)
  BY <1>1, <1>2
<1>4. s \o t \in Seq(Q)
  BY <1>3
<1> QED
  BY <1>3, <1>4 DEF IsSeq

\* The edges that a rule has added.
LEMMA Longer ==
    ASSUME Stacked, Collected, ep = "rules", NEW s, Made(s, stack[1]), Walk!Emit(s)
    PROVE  /\ tree' = tree /\ es' = es /\ stack' = stack /\ ep' = ep
           /\ IsSeq(edges') /\ Len(edges) \in Nat /\ Len(s) \in Nat
           /\ Len(edges') = Len(edges) + Len(s)
           /\ \A m \in 1..Len(edges') :
                 \/ m \in 1..Len(edges) /\ edges'[m] = edges[m]
                 \/ /\ m \notin 1..Len(edges) /\ m > Len(edges)
                    /\ Known(edges'[m]) /\ edges'[m].owner = stack[1]
           /\ \A m \in 1..Len(edges) : m \in 1..Len(edges') /\ edges'[m] = edges[m]
           /\ \A m \in 1..Len(s) : Len(edges) + m \in 1..Len(edges') /\ edges'[Len(edges) + m] = s[m]
<1>1. /\ tree' = tree /\ es' = es /\ stack' = stack /\ ep' = ep /\ edges' = edges \o s
  BY DEF Walk!Emit
<1>2. /\ IsSeq(edges \o s) /\ Len(edges) \in Nat /\ Len(s) \in Nat
      /\ Len(edges \o s) = Len(edges) + Len(s)
      /\ \A m \in 1..Len(edges) : (edges \o s)[m] = edges[m]
      /\ \A m \in 1..Len(s) : (edges \o s)[Len(edges) + m] = s[m]
  BY JoinedSeqs DEF Collected, Made
<1>3. ASSUME NEW m \in 1..Len(edges'), m \notin 1..Len(edges)
      PROVE  m > Len(edges) /\ Known(edges'[m]) /\ edges'[m].owner = stack[1]
  <2>1. m - Len(edges) \in 1..Len(s) /\ Len(edges) + (m - Len(edges)) = m /\ m > Len(edges)
    BY <1>1, <1>2, <1>3
  <2>2. PICK l \in 1..Len(s) : Len(edges) + l = m
    BY <2>1
  <2>3. edges'[m] = s[l]
    BY <1>1, <1>2, <2>2
  <2> QED
    BY <2>1, <2>3 DEF Made
<1> QED
  BY <1>1, <1>2, <1>3

\* The node at hand is at the head of the stack.
LEMMA StackHead ==
    ASSUME Stacked, stack # << >>
    PROVE  /\ Len(stack) \in Nat /\ 1 \in 1..Len(stack)
           /\ Head(stack) = stack[1] /\ stack[1] \in Walk!Nodes
           /\ Walk!node = stack[1]
           /\ \A k \in 1..Len(stack) : stack[k] \in Walk!Nodes
<1>1. stack \in Seq(Walk!Nodes)
  BY DEF Stacked
<1> QED
  BY <1>1 DEF Walk!node

\* Nodes are numbers, and subtrees are made of them.
LEMMA NodesAreNumbers ==
    ASSUME Walk!Walkable(tree)
    PROVE  /\ \A v \in Walk!Nodes : v \in Nat
           /\ \A v \in Walk!Nodes : v \in Part(v)
           /\ \A v, x : x \in Part(v) => x \in Walk!Nodes
BY NodeNumbers DEF Walk!Nodes, Part, Within

\* A rule keeps the order.
LEMMA AppliesOrdered ==
    ASSUME Stacked, Collected, Ordered, ep = "rules", NEW s, Made(s, stack[1]), Walk!Emit(s)
    PROVE  Stacked' /\ Collected' /\ Ordered'
<1>1. /\ tree' = tree /\ es' = es /\ stack' = stack /\ ep' = ep
      /\ IsSeq(edges') /\ Len(edges) \in Nat
      /\ \A m \in 1..Len(edges') :
            \/ m \in 1..Len(edges) /\ edges'[m] = edges[m]
            \/ /\ m \notin 1..Len(edges) /\ m > Len(edges)
               /\ Known(edges'[m]) /\ edges'[m].owner = stack[1]
  BY Longer
<1>2. stack # << >> /\ Walk!Walkable(tree)
  BY DEF Stacked
<1>3. Stacked'
  <2>1. todo' = Tail(todo)
    BY DEF Walk!Emit
  <2>2. todo \in Seq(Walk!Rule) /\ Walk!Rule' = Walk!Rule
    BY DEF Stacked, Walk!Rule
  <2>3. todo' \in Seq(Walk!Rule)
    <3>1. CASE todo = << >>
      BY <2>1, <2>2, <3>1
    <3>2. CASE todo # << >>
      BY <2>1, <2>2, <3>2
    <3> QED
      BY <3>1, <3>2
  <2> QED
    BY <1>1, <2>2, <2>3, SameTree DEF Stacked
<1>4. Collected'
  BY <1>1, SameTree DEF Collected
<1>5. StackApart'
  BY <1>1, SameTree DEF StackApart, Ordered
<1>6. OwnersBehind'
  <2>1. ASSUME NEW k \in 1..Len(stack), k # 1 PROVE stack[1] < stack[k]
    <3>1. /\ 1 \in 1..Len(stack) /\ 1 < k /\ stack[1] \in Part(stack[1])
      BY <1>2, <2>1, StackHead, NodesAreNumbers
    <3> QED
      BY <2>1, <3>1 DEF Ordered, StackApart
  <2> QED
    BY <1>1, <2>1 DEF Ordered, OwnersBehind
<1>7. Walk!DocumentOrder'
  <2>1. ASSUME NEW m \in 1..Len(edges) PROVE edges[m].owner <= stack[1]
    <3>1. edges[m].owner \in Nat /\ stack[1] \in Nat /\ 1 \in 1..Len(stack)
      BY <1>2, <2>1, StackHead, NodesAreNumbers DEF Collected, Known
    <3> QED
      BY <2>1, <3>1 DEF Ordered, OwnersBehind
  <2>2. stack[1] \in Nat
    BY <1>2, StackHead, NodesAreNumbers
  <2>3. ASSUME NEW m \in 1..Len(edges'), NEW l \in 1..Len(edges'), m < l
        PROVE  edges'[m].owner <= edges'[l].owner
    <3>1. CASE l \in 1..Len(edges)
      <4>1. m \in 1..Len(edges)
        BY <1>1, <2>3, <3>1
      <4>2. edges'[m] = edges[m] /\ edges'[l] = edges[l]
        BY <1>1, <3>1, <4>1
      <4> QED
        BY <2>3, <3>1, <4>1, <4>2 DEF Ordered, Walk!DocumentOrder, Walk!EdgeIndex
    <3>2. CASE l \notin 1..Len(edges)
      <4>1. edges'[l].owner = stack[1]
        BY <1>1, <3>2
      <4>2. edges'[m].owner = stack[1] \/ (m \in 1..Len(edges) /\ edges'[m] = edges[m])
        BY <1>1
      <4> QED
        BY <2>1, <2>2, <4>1, <4>2
    <3> QED
      BY <3>1, <3>2
  <2> QED
    BY <2>3 DEF Walk!DocumentOrder, Walk!EdgeIndex
<1> QED
  BY <1>3, <1>4, <1>5, <1>6, <1>7 DEF Ordered

\* The rules for the kind of a node are all that find something at it.
LEMMA RulesForAll ==
    ASSUME es.rules \in Seq(Walk!Rule), NEW kind
    PROVE  /\ Walk!RulesFor(kind) \in Seq(Walk!Rule)
           /\ \A k \in 1..Len(es.rules) :
                 es.rules[k].kind = kind => Holds(Walk!RulesFor(kind), es.rules[k])
<1> DEFINE one(k) == IF es.rules[k].kind = kind THEN << es.rules[k] >> ELSE << >>
           ss == [k \in 1..Len(es.rules) |-> one(k)]
<1>1. Len(es.rules) \in Nat /\ \A k \in 1..Len(es.rules) : es.rules[k] \in Walk!Rule
  OBVIOUS
<1>2. ASSUME NEW k \in 1..Len(es.rules) PROVE one(k) \in Seq(Walk!Rule)
  <2>1. << es.rules[k] >> \in Seq(Walk!Rule) /\ << >> \in Seq(Walk!Rule)
    BY <1>1
  <2> QED
    BY <2>1
<1>3. ss \in Seq(Seq(Walk!Rule)) /\ Len(ss) = Len(es.rules)
  <2> HIDE DEF one
  <2> QED
    BY <1>1, <1>2
<1>4. Walk!RulesFor(kind) = Walk!FlattenSeq(ss)
  BY DEF Walk!RulesFor
<1>5. Walk!FlattenSeq(ss) \in Seq(Walk!Rule)
  <2> HIDE DEF ss
  <2> QED
    BY <1>3, FlattenTyped
<1>6. ASSUME NEW k \in 1..Len(es.rules), es.rules[k].kind = kind
      PROVE  Holds(Walk!FlattenSeq(ss), es.rules[k])
  <2>1. ss[k] = << es.rules[k] >>
    BY <1>6
  <2>2. Holds(ss[k], es.rules[k])
    <3>1. PICK s : s = ss[k]
      OBVIOUS
    <3>2. s = << es.rules[k] >>
      BY <2>1, <3>1
    <3>3. 1 \in 1..Len(s) /\ s[1] = es.rules[k]
      BY <3>2
    <3> HIDE DEF ss
    <3> QED
      BY <3>1, <3>3 DEF Holds
  <2>3. k \in 1..Len(ss)
    BY <1>3
  <2> HIDE DEF ss
  <2> QED
    BY <1>3, <2>2, <2>3, FlattenHolds
<1> QED
  BY <1>4, <1>5, <1>6

\* The rule at hand makes an edge of what it finds under its plain name.
LEMMA FoundApplied ==
    ASSUME Walk!Walkable(tree), Walk!node \in Walk!Nodes, Applies,
           NEW c \in Walk!Found(Walk!node, Walk!rule)
    PROVE  \E s : /\ Made(s, Walk!node) /\ Walk!Emit(s)
                  /\ \/ Omitted(Walk!rule.edge, tree.text[c], Walk!node)
                     \/ \E m \in 1..Len(s) : Tells(s[m], Walk!node, Walk!rule, c)
<1>0. PICK r : r = Walk!rule
  OBVIOUS
<1>1. PICK v \in Walk!Nodes : v = Walk!node /\ r = Walk!rule
  BY <1>0
<1>2. /\ c \in Walk!Target
      /\ r.edge \in {"call", "reference"} /\ ~ r.descend
      /\ tree.text[c] # "" /\ tree.kind[c] \notin DOMAIN es.qualified
      /\ ~ (r.edge = "call" /\ tree.text[c] \in DOMAIN es.callNames)
  BY <1>1 DEF Walk!Found, Walk!Target
<1>3. Walk!Target = {c} /\ Walk!target = c
  <2>1. \A x \in Walk!Target : x = c
    BY <1>2 DEF Walk!Target, Walk!Field
  <2>2. Walk!Target = {c}
    BY <1>2, <2>1
  <2> QED
    BY <2>2 DEF Walk!target
<1>4. Walk!TargetName = tree.text[c]
  BY <1>2, <1>3 DEF Walk!TargetName, Walk!IsQualified
<1>5. Walk!Single /\ Walk!Named /\ ~ Walk!Override
  BY <1>1, <1>2, <1>3, <1>4 DEF Walk!Single, Walk!Named, Walk!Override
<1>6. Walk!ApplyTarget
  BY <1>1, <1>2, <1>5 DEF Applies, Walk!ApplyImport, Walk!ApplyDescend, Walk!NoName,
                          Walk!OverrideImport, Walk!OverrideOther
<1>7. PICK q, kind, name : /\ Walk!Emit(Walk!appendEdge(v, c, kind, q, name))
                           /\ kind = r.edge /\ name = tree.text[c]
  BY <1>1, <1>3, <1>4, <1>6 DEF Walk!ApplyTarget
<1>8. c \in Part(v)
  BY <1>1, <1>2, FieldIn, OwnLines DEF Walk!Target
<1>9. PICK line, b, x : /\ line = LineOf(c)
                        /\ b = Walk!appendEdge(v, c, kind, q, name)
                        /\ x = Walk!MakeEdge(kind, v, c, name, q, line)
  OBVIOUS
<1>10. Made(b, v) /\ AtMost(b, x) /\ (b = << >> => Omitted(kind, name, v))
  BY <1>8, <1>9, AppendMade
<1>11. CASE b = << >>
  BY <1>1, <1>7, <1>9, <1>10, <1>11
<1>12. CASE b = << x >>
  <2>1. Tells(x, v, r, c)
    <3>1. line \in LinesIn(v)
      BY <1>8, <1>9, OwnLines
    <3>2. Known(x) /\ x.owner = v /\ x.kind = kind /\ x.target = name /\ x.line = line
      BY <1>9, <3>1, MakesKnown
    <3> QED
      BY <1>7, <1>9, <3>2 DEF Tells, Known
  <2>2. 1 \in 1..Len(b) /\ b[1] = x
    BY <1>12
  <2> QED
    BY <1>1, <1>7, <1>9, <1>10, <2>1, <2>2
<1> QED
  BY <1>10, <1>11, <1>12 DEF AtMost

\* The rule at hand makes an edge of each node that it finds under its plain
\* name.
LEMMA AppliesTells ==
    ASSUME Walk!Walkable(tree), Walk!node \in Walk!Nodes, Applies
    PROVE  \E s : /\ Made(s, Walk!node) /\ Walk!Emit(s)
                  /\ \A c \in Walk!Found(Walk!node, Walk!rule) :
                        \/ Omitted(Walk!rule.edge, tree.text[c], Walk!node)
                        \/ \E m \in 1..Len(s) : Tells(s[m], Walk!node, Walk!rule, c)
<1>1. CASE Walk!Found(Walk!node, Walk!rule) = {}
  BY <1>1, AppliesAdds
<1>2. CASE Walk!Found(Walk!node, Walk!rule) # {}
  <2>1. PICK c : c \in Walk!Found(Walk!node, Walk!rule)
    BY <1>2
  <2>2. \A d \in Walk!Found(Walk!node, Walk!rule) : d = c
    BY <2>1 DEF Walk!Found, Walk!Field
  <2> QED
    BY <2>1, <2>2, FoundApplied
<1> QED
  BY <1>1, <1>2

\* What is in a sequence is at its head or in its tail.
LEMMA HeadOrTail ==
    ASSUME NEW S, NEW s \in Seq(S), s # << >>, NEW x, Holds(s, x)
    PROVE  x = Head(s) \/ Holds(Tail(s), x)
<1>1. PICK m \in 1..Len(s) : s[m] = x
  BY DEF Holds
<1>2. m # 1 => m - 1 \in 1..Len(Tail(s)) /\ Tail(s)[m - 1] = s[m]
  OBVIOUS
<1>3. m = 1 => Head(s) = x
  BY <1>1
<1> QED
  BY <1>1, <1>2, <1>3 DEF Holds

\* A rule is applied: what it was to tell is told.
LEMMA AppliesComplete ==
    ASSUME WalkInv, Applies
    PROVE  WalkInv'
<1>1. ep = "rules" /\ todo # << >>
  BY DEF Applies, Walk!ApplyImport, Walk!ApplyDescend, Walk!NoName, Walk!OverrideImport,
         Walk!OverrideOther, Walk!ApplyTarget, Walk!Applying
<1>2. Stacked /\ Collected /\ Ordered /\ Complete /\ Walk!Walkable(tree) /\ stack # << >>
  BY <1>1 DEF WalkInv, Stacked
<1>3. Walk!node = stack[1] /\ stack[1] \in Walk!Nodes
  BY <1>2, StackHead
<1>4. PICK v, r : v = stack[1] /\ r = Head(todo)
  OBVIOUS
<1>5. Walk!rule = r /\ Walk!node = v
  BY <1>3, <1>4 DEF Walk!rule
<1>6. PICK s : /\ Made(s, v) /\ Walk!Emit(s)
               /\ \A c \in Walk!Found(v, r) :
                     \/ Omitted(r.edge, tree.text[c], v)
                     \/ \E m \in 1..Len(s) : Tells(s[m], v, r, c)
  BY <1>2, <1>3, <1>5, AppliesTells
<1>7. Stacked' /\ Collected' /\ Ordered'
  BY <1>1, <1>2, <1>4, <1>6, AppliesOrdered
<1>8. /\ tree' = tree /\ es' = es /\ stack' = stack /\ ep' = ep /\ todo' = Tail(todo)
      /\ \A m \in 1..Len(edges) : m \in 1..Len(edges') /\ edges'[m] = edges[m]
      /\ \A m \in 1..Len(s) : Len(edges) + m \in 1..Len(edges') /\ edges'[Len(edges) + m] = s[m]
  BY <1>1, <1>2, <1>4, <1>6, Longer DEF Walk!Emit
<1>9. /\ Walk!Nodes' = Walk!Nodes
      /\ \A x : Part(x)' = Part(x)
      /\ \A w, p : Walk!Found(w, p)' = Walk!Found(w, p)
      /\ \A x, w, p, c : Tells(x, w, p, c)' <=> Tells(x, w, p, c)
      /\ \A w, kind, name : Omitted(kind, name, w)' <=> Omitted(kind, name, w)
  BY <1>8, SameTree
<1>10. \A w : Ahead(w) => Ahead(w)'
  BY <1>8, <1>9 DEF Ahead
<1>11. \A w, p, c : Told(w, p, c) => Told(w, p, c)'
  BY <1>8, <1>9 DEF Told
<1>12. \A c \in Walk!Found(v, r) : Told(v, r, c)'
  BY <1>6, <1>8, <1>9 DEF Told
<1>13. ASSUME NEW w, NEW p, Pending(w, p) PROVE (w = v /\ p = r) \/ Pending(w, p)'
  <2>1. w = v /\ Holds(todo, p)
    BY <1>4, <1>13 DEF Pending
  <2>2. todo \in Seq(Walk!Rule)
    BY <1>2 DEF Stacked
  <2>3. p = r \/ Holds(Tail(todo), p)
    BY <1>1, <1>4, <2>1, <2>2, HeadOrTail
  <2> QED
    BY <1>1, <1>4, <1>8, <2>1, <2>3 DEF Pending
<1>14. Complete'
  <2> SUFFICES ASSUME NEW w \in Walk!Nodes, ~ Ahead(w)',
                      NEW k \in 1..Len(es.rules), NEW c \in Walk!Found(w, es.rules[k])
               PROVE  Told(w, es.rules[k], c)' \/ Pending(w, es.rules[k])'
    BY <1>8, <1>9 DEF Complete
  <2>1. PICK p : p = es.rules[k]
    OBVIOUS
  <2>2. Told(w, p, c) \/ Pending(w, p)
    BY <1>2, <1>10, <2>1 DEF Complete
  <2>3. Told(w, p, c)' \/ Pending(w, p)'
    BY <1>11, <1>12, <1>13, <2>1, <2>2
  <2> QED
    BY <1>8, <2>1, <2>3
<1> QED
  BY <1>7, <1>14 DEF WalkInv

\* A node is visited: all the rules for its kind are pending.
LEMMA VisitKeeps ==
    ASSUME WalkInv, Walk!Visit
    PROVE  WalkInv'
<1>1. /\ ep = "node" /\ stack # << >> /\ ep' = "rules"
      /\ tree' = tree /\ es' = es /\ stack' = stack /\ edges' = edges
      /\ todo' = Walk!RulesFor(tree.kind[Walk!node])
  BY DEF Walk!Visit
<1>2. Stacked /\ Collected /\ Ordered /\ Complete /\ Walk!Walkable(tree)
  BY DEF WalkInv, Stacked
<1>3. Walk!node = stack[1] /\ stack[1] \in Walk!Nodes
  BY <1>1, <1>2, StackHead
<1>4. /\ Walk!Nodes' = Walk!Nodes
      /\ \A x : Part(x)' = Part(x)
      /\ \A x : Known(x)' <=> Known(x)
      /\ \A w, p : Walk!Found(w, p)' = Walk!Found(w, p)
      /\ \A x, w, p, c : Tells(x, w, p, c)' <=> Tells(x, w, p, c)
      /\ \A w, kind, name : Omitted(kind, name, w)' <=> Omitted(kind, name, w)
  BY <1>1, SameTree
<1>5. /\ todo' \in Seq(Walk!Rule)
      /\ \A k \in 1..Len(es.rules) :
            es.rules[k].kind = tree.kind[stack[1]] => Holds(todo', es.rules[k])
  BY <1>1, <1>2, <1>3, RulesForAll DEF Stacked
<1>6. Stacked'
  <2>1. Walk!Rule' = Walk!Rule
    BY DEF Walk!Rule
  <2> QED
    BY <1>1, <1>2, <1>4, <1>5, <2>1 DEF Stacked
<1>7. Collected'
  BY <1>1, <1>2, <1>4 DEF Collected
<1>8. Ordered'
  BY <1>1, <1>2, <1>4 DEF Ordered, StackApart, OwnersBehind, Walk!DocumentOrder, Walk!EdgeIndex
<1>9. \A w, p, c : Told(w, p, c) => Told(w, p, c)'
  BY <1>1, <1>4 DEF Told
<1>10. ASSUME NEW w, Ahead(w), w # stack[1] PROVE Ahead(w)'
  BY <1>1, <1>4, <1>10 DEF Ahead
<1>11. ASSUME NEW w, w = stack[1], NEW k \in 1..Len(es.rules), NEW p, p = es.rules[k],
              NEW c \in Walk!Found(w, p)
       PROVE  Pending(w, p)'
  <2>1. p.kind = tree.kind[stack[1]]
    BY <1>11 DEF Walk!Found
  <2>2. Holds(todo', p)
    BY <1>5, <1>11, <2>1
  <2> QED
    BY <1>1, <1>11, <2>2 DEF Pending
<1>12. Complete'
  <2> SUFFICES ASSUME NEW w \in Walk!Nodes, ~ Ahead(w)',
                      NEW k \in 1..Len(es.rules), NEW p, p = es.rules[k],
                      NEW c \in Walk!Found(w, p)
               PROVE  Told(w, p, c)' \/ Pending(w, p)'
    BY <1>1, <1>4 DEF Complete
  <2>1. CASE w = stack[1]
    BY <1>11, <2>1
  <2>2. CASE w # stack[1]
    <3>1. ~ Pending(w, p)
      BY <1>1 DEF Pending
    <3>2. Told(w, p, c)
      BY <1>2, <1>10, <2>2, <3>1 DEF Complete
    <3> QED
      BY <1>9, <3>2
  <2> QED
    BY <2>1, <2>2
<1> QED
  BY <1>6, <1>7, <1>8, <1>12 DEF WalkInv

\* The children take the place of their parent.
LEMMA Replaced ==
    ASSUME NEW N, NEW c \in Seq(N), NEW s \in Seq(N), s # << >>
    PROVE  /\ c \o Tail(s) \in Seq(N)
           /\ Len(c) \in Nat /\ Len(s) \in Nat /\ Len(c \o Tail(s)) = Len(c) + Len(s) - 1
           /\ \A k \in 1..Len(c) : k \in 1..Len(c \o Tail(s)) /\ (c \o Tail(s))[k] = c[k]
           /\ \A k \in 2..Len(s) : /\ Len(c) + k - 1 \in 1..Len(c \o Tail(s))
                                   /\ (c \o Tail(s))[Len(c) + k - 1] = s[k]
<1>1. /\ Len(c) \in Nat /\ Len(s) \in Nat /\ Len(s) # 0
      /\ Tail(s) \in Seq(N) /\ Len(Tail(s)) = Len(s) - 1
      /\ \A k \in 2..Len(s) : k - 1 \in 1..Len(Tail(s)) /\ Tail(s)[k - 1] = s[k]
  OBVIOUS
<1>2. PICK t \in Seq(N) : t = Tail(s)
  BY <1>1
<1>3. /\ c \o t \in Seq(N) /\ Len(c \o t) = Len(c) + Len(t)
      /\ \A k \in 1..Len(c) : (c \o t)[k] = c[k]
      /\ \A k \in 1..Len(t) : (c \o t)[Len(c) + k] = t[k]
  OBVIOUS
<1>4. Len(t) = Len(s) - 1 /\ \A k \in 2..Len(s) : k - 1 \in 1..Len(t) /\ t[k - 1] = s[k]
  BY <1>1, <1>2
<1>5. ASSUME NEW k \in 2..Len(s)
      PROVE  Len(c) + k - 1 \in 1..Len(c \o t) /\ (c \o t)[Len(c) + k - 1] = s[k]
  <2>1. k - 1 \in 1..Len(t) /\ Len(c) + (k - 1) = Len(c) + k - 1
    BY <1>1, <1>4
  <2> QED
    BY <1>1, <1>3, <1>4, <2>1
<1> QED
  BY <1>1, <1>2, <1>3, <1>4, <1>5

\* The rules of a node are through: its children are ahead, in its place.
LEMMA BelowKeeps ==
    ASSUME WalkInv, Walk!Below
    PROVE  WalkInv'
<1>1. /\ ep = "rules" /\ todo = << >> /\ ep' = "node"
      /\ tree' = tree /\ es' = es /\ edges' = edges /\ todo' = todo
      /\ stack' = tree.children[Walk!node] \o Tail(stack)
  BY DEF Walk!Below
<1>2. Stacked /\ Collected /\ Ordered /\ Complete /\ Walk!Walkable(tree) /\ stack # << >>
  BY <1>1 DEF WalkInv, Stacked
<1>3. /\ Walk!node = stack[1] /\ stack[1] \in Walk!Nodes /\ 1 \in 1..Len(stack)
      /\ \A k \in 1..Len(stack) : stack[k] \in Walk!Nodes
  BY <1>2, StackHead
<1>4. /\ Walk!Nodes' = Walk!Nodes
      /\ \A x : Part(x)' = Part(x)
      /\ \A x : Known(x)' <=> Known(x)
      /\ \A w, p : Walk!Found(w, p)' = Walk!Found(w, p)
      /\ \A x, w, p, c : Tells(x, w, p, c)' <=> Tells(x, w, p, c)
      /\ \A w, kind, name : Omitted(kind, name, w)' <=> Omitted(kind, name, w)
  BY <1>1, SameTree
<1>5. PICK v, c, l : v = stack[1] /\ c = tree.children[v] /\ l = Len(stack)
  OBVIOUS
<1>6. /\ c \in Seq(Walk!Nodes)
      /\ \A j \in 1..Len(c) : c[j] \in Walk!Nodes /\ v < c[j] /\ Within(tree, c[j], v)
  BY <1>2, <1>3, <1>5, Children DEF Walk!Nodes
<1>7. /\ stack' \in Seq(Walk!Nodes)
      /\ Len(c) \in Nat /\ l \in Nat /\ Len(stack') = Len(c) + l - 1
      /\ \A k \in 1..Len(c) : k \in 1..Len(stack') /\ stack'[k] = c[k]
      /\ \A k \in 2..l : /\ Len(c) + k - 1 \in 1..Len(stack')
                         /\ stack'[Len(c) + k - 1] = stack[k]
  <2>1. stack \in Seq(Walk!Nodes) /\ stack' = c \o Tail(stack)
    BY <1>1, <1>2, <1>3, <1>5 DEF Stacked
  <2> QED
    BY ONLY <1>2, <1>5, <1>6, <2>1, Replaced
<1>8. ASSUME NEW k \in 1..Len(stack')
      PROVE  \/ k \in 1..Len(c) /\ stack'[k] = c[k]
             \/ /\ k > Len(c) /\ k - Len(c) + 1 \in 2..l
                /\ stack'[k] = stack[k - Len(c) + 1]
  <2>1. CASE k \in 1..Len(c)
    BY <1>7, <2>1
  <2>2. CASE k \notin 1..Len(c)
    <3>1. PICK m : m = k - Len(c) + 1
      OBVIOUS
    <3>2. m \in 2..l /\ k > Len(c) /\ Len(c) + m - 1 = k
      BY <1>7, <2>2, <3>1
    <3> QED
      BY <1>7, <3>1, <3>2
  <2> QED
    BY <2>1, <2>2
<1>9. /\ \A w \in Walk!Nodes : w \in Nat
      /\ \A w, x : x \in Part(w) => x \in Walk!Nodes
      /\ v \in Part(v)
  BY <1>2, <1>3, <1>5, NodesAreNumbers
<1>10. ASSUME NEW k \in 2..l, NEW x \in Part(v) PROVE x < stack[k]
  <2>1. k \in 1..Len(stack) /\ 1 \in 1..Len(stack) /\ 1 < k
    BY <1>3, <1>5, <1>7
  <2> QED
    BY <1>2, <1>5, <2>1 DEF Ordered, StackApart
<1>11. \A j \in 1..Len(c) : Part(c[j]) \subseteq Part(v)
  BY <1>2, <1>6, Outward DEF Part, Walk!Nodes
<1>12. Stacked'
  <2>1. Walk!Rule' = Walk!Rule
    BY DEF Walk!Rule
  <2> QED
    BY <1>1, <1>2, <1>4, <1>7, <2>1 DEF Stacked
<1>13. Collected'
  BY <1>1, <1>2, <1>4 DEF Collected
<1>14. StackApart'
  <2> SUFFICES ASSUME NEW j \in 1..Len(stack'), NEW k \in 1..Len(stack'), j < k,
                      NEW x \in Part(stack'[j])
               PROVE  x < stack'[k]
    BY <1>4 DEF StackApart
  <2>1. CASE k \in 1..Len(c)
    <3>1. j \in 1..Len(c) /\ stack'[j] = c[j] /\ stack'[k] = c[k]
      BY <1>7, <2>1
    <3>2. x \in Walk!Nodes /\ Within(tree, x, c[j])
      BY <3>1 DEF Part
    <3> QED
      BY <1>2, <1>3, <1>5, <2>1, <3>1, <3>2 DEF Walk!Walkable, Walk!Nodes, Within
  <2>2. CASE k \notin 1..Len(c)
    <3>1. k - Len(c) + 1 \in 2..l /\ stack'[k] = stack[k - Len(c) + 1]
      BY <1>8, <2>2
    <3>2. CASE j \in 1..Len(c)
      BY <1>7, <1>10, <1>11, <3>1, <3>2
    <3>3. CASE j \notin 1..Len(c)
      <4>1. j - Len(c) + 1 \in 2..l /\ stack'[j] = stack[j - Len(c) + 1]
        BY <1>8, <3>3
      <4>2. PICK a, b : a = j - Len(c) + 1 /\ b = k - Len(c) + 1
        OBVIOUS
      <4>3. a \in 1..Len(stack) /\ b \in 1..Len(stack) /\ a < b
        <5>1. a \in 2..l /\ b \in 2..l
          BY <3>1, <4>1, <4>2
        <5>2. l = Len(stack) /\ l \in Nat /\ Len(c) \in Nat
          BY <1>5, <1>7
        <5>3. a < b
          BY <4>2, <5>2
        <5> QED
          BY <5>1, <5>2, <5>3
      <4> QED
        BY <1>2, <3>1, <4>1, <4>2, <4>3 DEF Ordered, StackApart
    <3> QED
      BY <3>2, <3>3
  <2> QED
    BY <2>1, <2>2
<1>15. OwnersBehind'
  <2> SUFFICES ASSUME NEW m \in 1..Len(edges), NEW k \in 1..Len(stack')
               PROVE  edges[m].owner < stack'[k]
    BY <1>1 DEF OwnersBehind
  <2>1. edges[m].owner \in Nat /\ v \in Nat
    BY <1>2, <1>3, <1>5, <1>9 DEF Collected, Known
  <2>2. edges[m].owner <= v
    BY <1>2, <1>3, <1>5, <2>1 DEF Ordered, OwnersBehind
  <2>3. stack'[k] \in Nat /\ v < stack'[k]
    <3>1. stack'[k] \in Nat
      BY <1>7, <1>9
    <3>2. CASE k \in 1..Len(c)
      BY <1>6, <1>7, <3>1, <3>2
    <3>3. CASE k \notin 1..Len(c)
      BY <1>8, <1>9, <1>10, <3>1, <3>3
    <3> QED
      BY <3>1, <3>2, <3>3
  <2> QED
    BY <2>1, <2>2, <2>3
<1>16. Ordered'
  BY <1>1, <1>2, <1>14, <1>15 DEF Ordered, Walk!DocumentOrder, Walk!EdgeIndex
<1>17. \A w, p, d : Told(w, p, d) => Told(w, p, d)'
  BY <1>1, <1>4 DEF Told
<1>18. ASSUME NEW w \in Walk!Nodes, Ahead(w) PROVE Ahead(w)'
  <2>1. PICK k \in 1..Len(stack) : w \in Part(stack[k]) /\ (k # 1 \/ w # stack[1])
    BY <1>1, <1>18 DEF Ahead
  <2>2. CASE k = 1
    <3>1. w # v /\ Within(tree, w, v)
      BY <1>5, <2>1, <2>2 DEF Part
    <3>2. PICK j \in 1..Len(c) : Within(tree, w, c[j])
      BY <1>2, <1>3, <1>5, <3>1, InAChild DEF Walk!Nodes
    <3>3. w \in Part(stack'[j]) /\ j \in 1..Len(stack')
      BY <1>7, <3>2 DEF Part
    <3> QED
      BY <1>1, <1>4, <3>3 DEF Ahead
  <2>3. CASE k # 1
    <3>1. k \in 2..l
      BY <1>5, <1>7, <2>1, <2>3
    <3>2. Len(c) + k - 1 \in 1..Len(stack') /\ stack'[Len(c) + k - 1] = stack[k]
      BY <1>7, <3>1
    <3> QED
      BY <1>1, <1>4, <2>1, <3>2 DEF Ahead
  <2> QED
    BY <2>2, <2>3
<1>19. Complete'
  <2>1. \A w, p : ~ Pending(w, p)
    BY <1>1 DEF Pending, Holds
  <2> SUFFICES ASSUME NEW w \in Walk!Nodes, ~ Ahead(w)',
                      NEW k \in 1..Len(es.rules), NEW p, p = es.rules[k],
                      NEW d \in Walk!Found(w, p)
               PROVE  Told(w, p, d)'
    BY <1>1, <1>4 DEF Complete
  <2>2. Told(w, p, d)
    BY <1>2, <1>18, <2>1 DEF Complete
  <2> QED
    BY <1>17, <2>2
<1> QED
  BY <1>12, <1>13, <1>16, <1>19 DEF WalkInv

\* The walk ends with an empty stack, or without any rules.
LEMMA EndKeeps ==
    ASSUME WalkInv, Walk!Disabled \/ Walk!Return
    PROVE  WalkInv'
<1>1. /\ ep = "node" /\ ep' = "returned" /\ stack' = << >>
      /\ tree' = tree /\ es' = es /\ edges' = edges /\ todo' = todo
      /\ es.rules = << >> \/ stack = << >>
  BY DEF Walk!Disabled, Walk!Return
<1>2. Stacked /\ Collected /\ Ordered /\ Complete /\ Walk!Walkable(tree)
  BY DEF WalkInv, Stacked
<1>3. /\ Walk!Nodes' = Walk!Nodes
      /\ \A x : Known(x)' <=> Known(x)
      /\ \A w, p : Walk!Found(w, p)' = Walk!Found(w, p)
      /\ \A x, w, p, c : Tells(x, w, p, c)' <=> Tells(x, w, p, c)
      /\ \A w, kind, name : Omitted(kind, name, w)' <=> Omitted(kind, name, w)
  BY <1>1, SameTree
<1>4. Stacked'
  <2>1. Walk!Rule' = Walk!Rule
    BY DEF Walk!Rule
  <2>2. << >> \in Seq(Walk!Nodes)
    OBVIOUS
  <2> QED
    BY <1>1, <1>2, <1>3, <2>1, <2>2 DEF Stacked
<1>5. Collected'
  BY <1>1, <1>2, <1>3 DEF Collected
<1>6. Ordered'
  BY <1>1, <1>2 DEF Ordered, StackApart, OwnersBehind, Walk!DocumentOrder, Walk!EdgeIndex
<1>7. \A w, p, d : Told(w, p, d) => Told(w, p, d)'
  BY <1>1, <1>3 DEF Told
<1>8. Complete'
  <2> SUFFICES ASSUME NEW w \in Walk!Nodes,
                      NEW k \in 1..Len(es.rules), NEW p, p = es.rules[k],
                      NEW d \in Walk!Found(w, p)
               PROVE  Told(w, p, d)'
    BY <1>1, <1>3 DEF Complete
  <2>1. stack = << >>
    BY <1>1
  <2>2. ~ Ahead(w) /\ ~ Pending(w, p)
    BY <1>1, <2>1 DEF Ahead, Pending
  <2>3. Told(w, p, d)
    BY <1>2, <2>2 DEF Complete
  <2> QED
    BY <1>7, <2>3
<1> QED
  BY <1>4, <1>5, <1>6, <1>8 DEF WalkInv

\* Every step of the walk keeps the invariant.
LEMMA WalkKeeps ==
    ASSUME WalkInv, Walk!Next
    PROVE  WalkInv'
BY EndKeeps, VisitKeeps, BelowKeeps, AppliesComplete DEF Walk!Next, Applies

\* So does a step that leaves the walk alone.
LEMMA WalkSame ==
    ASSUME WalkInv, UNCHANGED walk
    PROVE  WalkInv'
<1>1. /\ tree' = tree /\ es' = es /\ stack' = stack /\ todo' = todo /\ edges' = edges /\ ep' = ep
  BY DEF walk
<1>2. Stacked /\ Collected /\ Ordered /\ Complete /\ Walk!Walkable(tree)
  BY DEF WalkInv, Stacked
<1>3. /\ Walk!Nodes' = Walk!Nodes
      /\ \A x : Part(x)' = Part(x)
      /\ \A x : Known(x)' <=> Known(x)
      /\ \A w, p : Walk!Found(w, p)' = Walk!Found(w, p)
      /\ \A x, w, p, c : Tells(x, w, p, c)' <=> Tells(x, w, p, c)
      /\ \A w, kind, name : Omitted(kind, name, w)' <=> Omitted(kind, name, w)
  BY <1>1, SameTree
<1>4. Stacked'
  <2>1. Walk!Rule' = Walk!Rule
    BY DEF Walk!Rule
  <2> QED
    BY <1>1, <1>2, <1>3, <2>1 DEF Stacked
<1>5. Collected'
  BY <1>1, <1>2, <1>3 DEF Collected
<1>6. Ordered'
  BY <1>1, <1>2, <1>3 DEF Ordered, StackApart, OwnersBehind, Walk!DocumentOrder, Walk!EdgeIndex
<1>7. \A w, p, d : (Told(w, p, d) => Told(w, p, d)') /\ (Pending(w, p) => Pending(w, p)')
  BY <1>1, <1>3 DEF Told, Pending
<1>8. \A w : Ahead(w) => Ahead(w)'
  BY <1>1, <1>3 DEF Ahead
<1>9. Complete'
  <2> SUFFICES ASSUME NEW w \in Walk!Nodes, ~ Ahead(w)',
                      NEW k \in 1..Len(es.rules), NEW p, p = es.rules[k],
                      NEW d \in Walk!Found(w, p)
               PROVE  Told(w, p, d)' \/ Pending(w, p)'
    BY <1>1, <1>3 DEF Complete
  <2>1. Told(w, p, d) \/ Pending(w, p)
    BY <1>2, <1>8 DEF Complete
  <2> QED
    BY <1>7, <2>1
<1> QED
  BY <1>4, <1>5, <1>6, <1>9 DEF WalkInv

\* At first the whole tree is ahead.
LEMMA WalkInitially ==
    ASSUME NEW c \in Calls, Walk!Called(c)
    PROVE  WalkInv
<1>1. /\ tree = c.tree /\ es = c.es /\ stack = << 1 >> /\ todo = << >> /\ edges = << >> /\ ep = "node"
  BY DEF Walk!Called
<1>2. Walk!Walkable(tree) /\ es.rules \in Seq(Walk!Rule)
  BY <1>1, CallsAssumption
<1>3. 1 \in Walk!Nodes /\ \A v \in Walk!Nodes : v \in Part(1)
  BY <1>2, NodeNumbers, InTheRoot DEF Walk!Nodes, Part
<1>4. << 1 >> \in Seq(Walk!Nodes) /\ Len(<< 1 >>) = 1
  BY <1>3
<1>5. Stacked
  BY <1>1, <1>2, <1>4 DEF Stacked
<1>6. Collected
  <2>1. << >> \in Seq({})
    OBVIOUS
  <2> QED
    BY <1>1, <2>1 DEF Collected, IsSeq
<1>7. Ordered
  BY <1>1 DEF Ordered, StackApart, OwnersBehind, Walk!DocumentOrder, Walk!EdgeIndex
<1>8. \A v \in Walk!Nodes : Ahead(v)
  BY <1>1, <1>3 DEF Ahead
<1> QED
  BY <1>5, <1>6, <1>7, <1>8 DEF WalkInv, Complete

-----------------------------------------------------------------------------
(***************************************************************************)
(* The names around a node.                                                *)
(***************************************************************************)
\* A node of S around v that FirstUp does not find, whatever it finds.
Passed(v, S, d) ==
    \/ d = 0 /\ \E a \in S : Within(tree, v, a)
    \/ d # 0 /\ ~ (/\ d \in S /\ Within(tree, v, d)
                   /\ \A a \in S : Within(tree, v, a) => Within(tree, d, a) /\ a <= d)

\* The loop over Parent() finds the innermost of the nodes of S around v.
LEMMA FirstUpFinds ==
    ASSUME Walk!Walkable(tree), NEW S, S \subseteq Walk!Nodes
    PROVE  /\ Walk!FirstUp(0, S) = 0
           /\ \A v \in Walk!Nodes : ~ Passed(v, S, Walk!FirstUp(v, S))
<1> DEFINE L == Len(tree.kind)
           N == 0..L
           rank == [p \in N |-> p]
           Result(g, p) == IF p = 0 \/ p \in S THEN p ELSE g[tree.parent[p]]
           F == [pg \in N \X [N -> N] |-> Result(pg[2], pg[1])]
<1>1. /\ L \in Nat /\ Walk!Nodes = 1..L /\ N # {} /\ rank \in [N -> 0..L]
      /\ tree.parent[1] = 0 /\ tree.above[1] = {}
      /\ \A p \in N \ {0} : p \in Walk!Nodes /\ tree.parent[p] \in N /\ tree.parent[p] < p
  <2>1. tree.parent[1] = 0
    BY DEF Walk!Walkable, Walk!Shape
  <2>2. /\ L \in Nat /\ Walk!Nodes = 1..L /\ tree.above[1] = {}
        /\ \A p \in Walk!Nodes \ {1} : tree.parent[p] \in Walk!Nodes /\ tree.parent[p] < p
    BY NodeNumbers DEF Walk!Nodes
  <2> HIDE DEF L
  <2>3. 0 \in N /\ N # {} /\ rank \in [N -> 0..L]
    <3>1. 0 \in N
      BY <2>2
    <3> QED
      BY <3>1
  <2>4. ASSUME NEW p \in N \ {0}
        PROVE  p \in Walk!Nodes /\ tree.parent[p] \in N /\ tree.parent[p] < p
    BY <2>1, <2>2, <2>4
  <2> QED
    BY <2>1, <2>2, <2>3, <2>4
<1>2. ASSUME NEW p \in N, NEW g \in [N -> N] PROVE Result(g, p) \in N
  <2> HIDE DEF L
  <2> QED
    BY <1>1
<1>3. /\ F \in [N \X [N -> N] -> N]
      /\ \A p \in N, g \in [N -> N] : F[<<p, g>>] = Result(g, p)
  <2> HIDE DEF N, Result
  <2> QED
    BY <1>2
<1>4. ASSUME NEW p \in N, NEW g, NEW h, \A y \in N : rank[y] < rank[p] => g[y] = h[y]
      PROVE  Result(g, p) = Result(h, p)
  <2> HIDE DEF L
  <2> QED
    BY <1>1, <1>4
<1>5. RecursiveIn(F, N, N, rank, L)
  <2>1. L \in Nat /\ N # {} /\ rank \in [N -> 0..L]
    BY <1>1
  <2> HIDE DEF F, N, rank, L, Result
  <2> QED
    BY <1>3, <1>4, <2>1 DEF RecursiveIn
<1>6. PICK f \in [N -> N] : \A p \in N : f[p] = F[<<p, f>>]
  <2> HIDE DEF F, N, rank, L
  <2> QED
    BY <1>5, RecursionByRank
<1>7. f = [p \in N |-> Result(f, p)]
  <2> HIDE DEF F, N, Result
  <2> QED
    BY <1>3, <1>6
<1> DEFINE up == CHOOSE g : g = [p \in N |-> Result(g, p)]
<1>8. up = [p \in N |-> Result(up, p)]
  <2> HIDE DEF Result, N
  <2> QED
    BY <1>7
<1>9. \A v : Walk!FirstUp(v, S) = up[v]
  BY DEF Walk!FirstUp
<1>10. \A p \in N : up[p] = Result(up, p)
  <2> HIDE DEF up, Result, N
  <2> QED
    BY <1>8
<1> HIDE DEF up
<1> DEFINE T == {v \in Walk!Nodes : Passed(v, S, up[v])}
<1>11. T = {}
  <2> SUFFICES ASSUME T # {} PROVE FALSE
    OBVIOUS
  <2>1. T \subseteq Nat
    BY NodeNumbers DEF Walk!Nodes
  <2> HIDE DEF T
  <2>2. PICK v \in T : \A k \in T : v <= k
    BY <2>1, LeastNumber
  <2>3. v \in Walk!Nodes /\ Passed(v, S, up[v]) /\ v \in N /\ v # 0
    <3> HIDE DEF L
    <3> QED
      BY <1>1, <2>2 DEF T
  <2>4. up[v] = IF v \in S THEN v ELSE up[tree.parent[v]]
    BY <1>10, <2>3
  <2>5. v \notin S
    <3> SUFFICES ASSUME v \in S PROVE FALSE
      OBVIOUS
    <3>1. up[v] = v /\ v # 0
      BY <2>3, <2>4
    <3>2. ASSUME NEW a \in S, Within(tree, v, a) PROVE a <= v
      BY <2>3, <3>2, NodeNumbers DEF Within, Walk!Nodes
    <3> QED
      BY <2>3, <3>1, <3>2 DEF Passed, Within
  <2>6. CASE v = 1
    <3>1. tree.parent[v] = 0 /\ tree.above[v] = {} /\ 0 \in N
      BY <1>1, <2>3, <2>6
    <3>2. up[v] = 0
      BY <1>10, <2>4, <2>5, <3>1
    <3> QED
      BY <2>3, <2>5, <3>1, <3>2 DEF Passed, Within
  <2>7. CASE v # 1
    <3>1. PICK u : u = tree.parent[v]
      OBVIOUS
    <3>2. /\ u \in Walk!Nodes /\ u < v /\ u \in Nat /\ v \in Nat
          /\ tree.above[v] = {u} \cup tree.above[u]
      BY <2>3, <2>7, <3>1, NodeNumbers DEF Walk!Nodes
    <3>3. u \notin T
      BY <2>2, <3>2
    <3>4. ~ Passed(u, S, up[u])
      BY <3>2, <3>3 DEF T
    <3>5. \A a \in S : Within(tree, v, a) <=> Within(tree, u, a)
      BY <2>5, <3>2 DEF Within
    <3>6. up[v] = up[u]
      BY <2>4, <2>5, <3>1
    <3> QED
      BY <2>3, <3>4, <3>5, <3>6 DEF Passed
  <2> QED
    BY <2>6, <2>7
<1>12. up[0] = 0
  <2>1. 0 \in N
    BY <1>1
  <2> QED
    BY <1>10, <2>1
<1> QED
  BY <1>9, <1>11, <1>12

\* The nodes of S around v, and what it is for d to be the innermost, 0 standing
\* for none.
AroundOf(v, S) == {a \in S : Within(tree, v, a)}

Nearest(d, R) ==
    /\ R = {} => d = 0 /\ Walk!NameOfInnermost(R) = ""
    /\ R # {} => /\ d # 0 /\ d \in R
                 /\ \A a \in R : Within(tree, d, a)
                 /\ Walk!NameOfInnermost(R) = Walk!NameOf(d)

\* What FirstUp finds is the innermost of those around v, and there is one if
\* there are any.
LEMMA InnermostFound ==
    ASSUME Walk!Walkable(tree), NEW S, S \subseteq Walk!Nodes, NEW v \in Walk!Nodes
    PROVE  Nearest(Walk!FirstUp(v, S), AroundOf(v, S))
<1> DEFINE d == Walk!FirstUp(v, S)
           R == AroundOf(v, S)
<1>0. /\ \A a : a \in R <=> a \in S /\ Within(tree, v, a)
      /\ d = Walk!FirstUp(v, S)
  BY DEF AroundOf
<1> HIDE DEF d, R
<1>1. ~ Passed(v, S, d)
  BY <1>0, FirstUpFinds
<1> SUFFICES Nearest(d, R)
  BY DEF d, R
<1>2. CASE R = {}
  <2>1. d = 0
    BY <1>0, <1>1, <1>2 DEF Passed
  <2>2. Walk!Innermost(R) = {}
    BY <1>2 DEF Walk!Innermost
  <2> QED
    BY <1>2, <2>1, <2>2 DEF Walk!NameOfInnermost, Nearest
<1>3. CASE R # {}
  <2>1. /\ d # 0 /\ d \in R
        /\ \A a \in R : Within(tree, d, a) /\ a <= d
    BY <1>0, <1>1, <1>3 DEF Passed
  <2>2. R \subseteq Nat
    BY <1>0, NodeNumbers DEF Walk!Nodes
  <2>3. Walk!Innermost(R) = {d}
    <3>1. d \in Walk!Innermost(R)
      BY <2>1 DEF Walk!Innermost
    <3>2. ASSUME NEW x \in Walk!Innermost(R) PROVE x = d
      <4>1. x \in R /\ d <= x /\ x <= d
        BY <2>1, <3>2 DEF Walk!Innermost
      <4> QED
        BY <2>1, <2>2, <4>1
    <3> QED
      BY <3>1, <3>2
  <2>4. (CHOOSE x \in Walk!Innermost(R) : TRUE) = d /\ Walk!Innermost(R) # {}
    BY <2>3
  <2>5. Walk!NameOfInnermost(R) = Walk!NameOf(d)
    BY <2>4 DEF Walk!NameOfInnermost
  <2> QED
    BY <1>3, <2>1, <2>5 DEF Nearest
<1> QED
  BY <1>2, <1>3

\* extractParentName: the name of the innermost top-level definition that d lies
\* in, itself apart.
LEMMA ParentFound ==
    ASSUME Walk!Walkable(tree), NEW d \in Walk!Nodes
    PROVE  Walk!extractParentName(d) =
               Walk!NameOfInnermost({a \in Walk!TopLevels : a # d /\ Walk!Inside(d, a)})
<1>1. PICK S : S = Walk!TopLevels
  OBVIOUS
<1>2. S \subseteq Walk!Nodes
  BY <1>1 DEF Walk!TopLevels
<1>3. PICK u, p : u = tree.parent[d] /\ p = Walk!FirstUp(u, S)
  OBVIOUS
<1>4. Walk!extractParentName(d) = IF p = 0 THEN "" ELSE Walk!NameOf(p)
  BY <1>1, <1>3 DEF Walk!extractParentName
<1>5. PICK R : R = {a \in S : a # d /\ Walk!Inside(d, a)}
  OBVIOUS
<1>6. CASE d = 1
  <2>1. u = 0 /\ tree.above[d] = {}
    BY <1>3, <1>6, NodeNumbers DEF Walk!Walkable, Walk!Shape
  <2>2. p = 0
    BY <1>2, <1>3, <2>1, FirstUpFinds
  <2>3. R = {}
    BY <1>5, <2>1 DEF Walk!Inside
  <2>4. Walk!NameOfInnermost(R) = ""
    BY <2>3 DEF Walk!NameOfInnermost, Walk!Innermost
  <2> QED
    BY <1>1, <1>4, <1>5, <2>2, <2>4
<1>7. CASE d # 1
  <2>1. /\ u \in Walk!Nodes /\ u < d /\ u \in Nat /\ d \in Nat
        /\ tree.above[d] = {u} \cup tree.above[u]
        /\ \A a \in tree.above[u] : a < u /\ a \in Nat
    BY <1>3, <1>7, NodeNumbers DEF Walk!Nodes
  <2>2. \A a : (a # d /\ Walk!Inside(d, a)) <=> Within(tree, u, a)
    <3>1. \A a : Within(tree, u, a) => a # d
      BY <2>1 DEF Within
    <3> QED
      BY <2>1, <3>1 DEF Walk!Inside, Within
  <2>3. \A a : a \in R <=> a \in S /\ Within(tree, u, a)
    BY <1>5, <2>2
  <2>4. /\ R = {} => p = 0 /\ Walk!NameOfInnermost(R) = ""
        /\ R # {} => p # 0 /\ Walk!NameOfInnermost(R) = Walk!NameOf(p)
    <3>1. R = AroundOf(u, S)
      BY <2>3 DEF AroundOf
    <3>2. Nearest(p, R)
      BY <1>2, <1>3, <2>1, <3>1, InnermostFound
    <3> QED
      BY <3>2 DEF Nearest
  <2>5. Walk!extractParentName(d) = Walk!NameOfInnermost(R)
    <3>1. CASE R = {}
      BY <1>4, <2>4, <3>1
    <3>2. CASE R # {}
      BY <1>4, <2>4, <3>2
    <3> QED
      BY <3>1, <3>2
  <2> QED
    BY <1>1, <1>5, <2>5
<1> QED
  BY <1>6, <1>7

\* enclosingDefinition finds the innermost of the definitions around a node.
LEMMA Enclosing ==
    ASSUME Walk!Walkable(tree), NEW v \in Walk!Nodes,
           NEW x, x = Walk!enclosingDefinition(v)
    PROVE  /\ x.source = Walk!NameOfInnermost(Walk!Around(v))
           /\ Walk!Around(v) = {} => x.source = "" /\ x.sourceLine = 0 /\ x.sourceParent = ""
           /\ Walk!Around(v) # {} =>
                 \E d \in Walk!Around(v) :
                    /\ \A b \in Walk!Around(v) : Walk!Inside(d, b)
                    /\ Within(tree, v, d)
                    /\ Walk!NameOf(d) # ""
                    /\ Walk!AttributedTo(x, d)
<1>1. PICK S, d : S = Walk!Definitions /\ d = Walk!FirstUp(v, S)
  OBVIOUS
<1>2. S \subseteq Walk!Nodes /\ \A p \in S : Walk!NameOf(p) # ""
  BY <1>1 DEF Walk!Definitions
<1>3. PICK R : R = Walk!Around(v)
  OBVIOUS
<1>4. R = AroundOf(v, S)
  BY <1>1, <1>3 DEF Walk!Around, Walk!Inside, Within, AroundOf
<1>5. /\ R = {} => d = 0 /\ Walk!NameOfInnermost(R) = ""
      /\ R # {} => /\ d # 0 /\ d \in R
                   /\ \A a \in R : Within(tree, d, a)
                   /\ Walk!NameOfInnermost(R) = Walk!NameOf(d)
  <2>1. Nearest(d, R)
    BY <1>1, <1>2, <1>4, InnermostFound
  <2> QED
    BY <2>1 DEF Nearest
<1>6. /\ d = 0 => x.source = "" /\ x.sourceParent = "" /\ x.sourceLine = 0
      /\ d # 0 => /\ x.source = Walk!NameOf(d)
                  /\ x.sourceLine = tree.startRow[d] + 1
                  /\ x.sourceParent = IF tree.kind[d] \in es.nested
                                      THEN Walk!extractParentName(d) ELSE ""
  BY <1>1 DEF Walk!enclosingDefinition
<1>7. CASE R = {}
  BY <1>3, <1>5, <1>6, <1>7
<1>8. CASE R # {}
  <2>1. d \in Walk!Nodes /\ d \in R /\ d # 0 /\ Walk!NameOf(d) # "" /\ Within(tree, v, d)
    BY <1>2, <1>4, <1>5, <1>8 DEF AroundOf
  <2>2. Walk!extractParentName(d) =
            Walk!NameOfInnermost({a \in Walk!TopLevels : a # d /\ Walk!Inside(d, a)})
    BY <2>1, ParentFound
  <2>3. Walk!AttributedTo(x, d)
    BY <1>6, <2>1, <2>2 DEF Walk!AttributedTo
  <2>4. \A b \in R : Walk!Inside(d, b)
    BY <1>5, <1>8 DEF Within, Walk!Inside
  <2> QED
    BY <1>3, <1>5, <1>6, <1>8, <2>1, <2>3, <2>4
<1> QED
  BY <1>7, <1>8

\* What is known of the edges places each in its innermost definition.
LEMMA KnownEncloses == WalkInv => SourceEncloses
<1> SUFFICES ASSUME WalkInv, NEW m \in 1..Len(edges), NEW x, x = edges[m]
             PROVE  LET around == Walk!Around(x.owner)
                    IN  /\ x.source = "" <=> around = {}
                        /\ x.source = "" => x.sourceLine = 0 /\ x.sourceParent = ""
                        /\ x.source # "" =>
                              /\ \E d \in around :
                                    Walk!AttributedTo(x, d) /\ \A b \in around : Walk!Inside(d, b)
                              /\ x.sourceLine <= x.line
  BY DEF SourceEncloses, Walk!SourceEncloses, Walk!EdgeIndex
<1>1. Walk!Walkable(tree) /\ Known(x)
  BY DEF WalkInv, Stacked, Collected
<1>v. PICK v \in Walk!Nodes : v = x.owner
  BY <1>1 DEF Known
<1>2. PICK ans : v = x.owner /\ ans = Walk!enclosingDefinition(v)
  BY <1>v
<1>3. /\ x.source = ans.source /\ x.sourceParent = ans.sourceParent /\ x.sourceLine = ans.sourceLine
      /\ x.line \in LinesIn(v)
  BY <1>1, <1>2 DEF Known
<1>4. CASE Walk!Around(v) = {}
  <2>1. x.source = "" /\ x.sourceLine = 0 /\ x.sourceParent = ""
    BY <1>1, <1>2, <1>3, <1>4, Enclosing
  <2> QED
    BY <1>2, <1>4, <2>1
<1>5. CASE Walk!Around(v) # {}
  <2>1. PICK d \in Walk!Around(v) :
            /\ \A b \in Walk!Around(v) : Walk!Inside(d, b)
            /\ Within(tree, v, d)
            /\ Walk!NameOf(d) # ""
            /\ Walk!AttributedTo(ans, d)
    BY <1>1, <1>2, <1>5, Enclosing
  <2>2. PICK y \in Part(v) : x.line = tree.startRow[y] + 1
    BY <1>3 DEF LinesIn, LineOf
  <2>3. y \in Walk!Nodes /\ Within(tree, y, d)
    BY <1>1, <2>1, <2>2, Outward DEF Part, Walk!Nodes
  <2>4. d \in Walk!Nodes
    BY <2>1 DEF Walk!Around, Walk!Definitions
  <2>5. /\ tree.startRow[d] \in Nat /\ tree.startRow[y] \in Nat
        /\ tree.startRow[d] <= tree.startRow[y]
    BY <1>1, <2>3, <2>4 DEF Walk!Walkable, Within, Walk!Nodes
  <2>6. /\ Walk!AttributedTo(x, d) /\ x.source # ""
        /\ x.sourceLine = tree.startRow[d] + 1
    BY <1>3, <2>1 DEF Walk!AttributedTo
  <2>7. x.sourceLine <= x.line
    <3>1. PICK a, b : a = tree.startRow[d] /\ b = tree.startRow[y]
      OBVIOUS
    <3>2. a + 1 <= b + 1
      BY <2>5, <3>1
    <3>3. x.sourceLine = a + 1 /\ x.line = b + 1
      BY <2>2, <2>6, <3>1
    <3> QED
      BY <3>2, <3>3
  <2> QED
    BY <1>2, <1>5, <2>1, <2>6, <2>7
<1> QED
  BY <1>4, <1>5

-----------------------------------------------------------------------------
(***************************************************************************)
(* The filter, whatever edges it is given.                                 *)
(***************************************************************************)
\* What the first loop has noted of the first m edges.
Noted(m) == {Pair(given[l]) : l \in {p \in 1..m : given[p].kind = "inherit"}}

\* The types of the variables, the edges being in S.
Typed(S) ==
    /\ given \in Seq(S) /\ array \in Seq(S)
    /\ Len(array) = Len(given)
    /\ n \in 0..Len(array)
    /\ i \in 1..Len(array) + 1
    /\ dp \in {"start", "note", "filter", "returned"}

\* What the second loop keeps true, its index being i.
Filtering ==
    /\ inherited = Noted(Len(given))
    /\ n < i
    /\ \A m \in i..Len(given) : array[m] = given[m]
    /\ \A x \in seen : \E m \in 1..n : Key(array[m]) = x
    /\ \A m \in 1..n : Key(array[m]) \in seen
    /\ \A m \in 1..i - 1 : Demoted(given[m]) \/ Key(given[m]) \in seen
    /\ \A m, l \in 1..n : m # l => Key(array[m]) # Key(array[l])

\* The invariant of the filter, the edges being in S.
IInvOf(S) ==
    /\ Typed(S)
    /\ dp \in {"start", "note"} => array = given /\ n = 0 /\ seen = {}
    /\ dp = "start" => i = 1 /\ inherited = {}
    /\ dp = "note" => inherited = Noted(i - 1)
    /\ dp = "filter" => Filtering
    /\ dp = "returned" => \/ Len(given) < 2 /\ n = Len(given) /\ array = given
                          \/ Filtering /\ i = Len(given) + 1

\* dedupeEdges has just been called.
LEMMA Fresh ==
    ASSUME NEW S, given \in Seq(S), array = given, n = 0, i = 1, inherited = {}, seen = {},
           dp = "start"
    PROVE  IInvOf(S)
BY DEF IInvOf, Typed

\* One more edge that inherits, one more that does not.
LEMMA NotedNext ==
    ASSUME NEW m \in Nat
    PROVE  /\ given[m + 1].kind = "inherit" => Noted(m + 1) = Noted(m) \cup {Pair(given[m + 1])}
           /\ given[m + 1].kind # "inherit" => Noted(m + 1) = Noted(m)
<1>1. 1..m + 1 = 1..m \cup {m + 1}
  OBVIOUS
<1> QED
  BY <1>1 DEF Noted

\* Every step of the filter keeps its invariant.
LEMMA FilterStep ==
    ASSUME NEW S, IInvOf(S), [Next]_vars
    PROVE  IInvOf(S)'
<1> USE DEF IInvOf
<1>1. CASE ReturnShort
  BY <1>1 DEF ReturnShort, Typed
<1>2. CASE Start
  <2>1. Noted(0) = {}
    BY DEF Noted
  <2> QED
    BY <1>2, <2>1 DEF Start, Typed, Noted
<1>3. CASE NoteInherit
  <2>1. /\ Typed(S)' /\ array' = given' /\ n' = 0 /\ seen' = {} /\ dp' = "note"
    BY <1>3 DEF NoteInherit, Typed
  <2>2. inherited' = Noted(i)
    BY <1>3, NotedNext, i - 1 \in Nat, (i - 1) + 1 = i DEF NoteInherit, Typed, e
  <2>3. given' = given /\ i' - 1 = i
    BY <1>3 DEF NoteInherit, Typed
  <2> QED
    BY <2>1, <2>2, <2>3 DEF Noted, Pair
<1>4. CASE PassOther
  <2>1. /\ Typed(S)' /\ array' = given' /\ n' = 0 /\ seen' = {} /\ dp' = "note"
    BY <1>4 DEF PassOther, Typed
  <2>2. inherited' = Noted(i)
    BY <1>4, NotedNext, i - 1 \in Nat, (i - 1) + 1 = i DEF PassOther, Typed, e
  <2> QED
    BY <2>1, <2>2, <1>4 DEF PassOther, Noted, Pair, Typed
<1>5. CASE Filter
  <2>1. i - 1 = Len(given)
    BY <1>5 DEF Filter, Typed
  <2> QED
    BY <1>5, <2>1 DEF Filter, Typed, Filtering, Noted, Pair
<1>6. CASE Demote
  <2>1. Filtering /\ Typed(S) /\ dp = "filter"
    BY <1>6 DEF Demote
  <2>2. e = given[i]
    BY <1>6, <2>1 DEF Demote, Filtering, Typed, e
  <2>3. \A m \in 1..i : Demoted(given[m]) \/ Key(given[m]) \in seen
    BY <1>6, <2>1, <2>2 DEF Demote, Filtering, Typed
  <2>4. i' - 1 = i /\ Typed(S)' /\ UNCHANGED <<given, array, n, inherited, seen, dp>>
    BY <1>6, <2>1 DEF Demote, Typed
  <2>5. Filtering'
    BY <1>6, <2>1, <2>3, <2>4 DEF Demote, Filtering, Typed, Demoted, Noted, Pair, Key
  <2> QED
    BY <2>1, <2>4, <2>5
<1>7. CASE DropDuplicate
  <2>1. Filtering /\ Typed(S) /\ dp = "filter"
    BY <1>7 DEF DropDuplicate
  <2>2. e = given[i]
    BY <1>7, <2>1 DEF DropDuplicate, Filtering, Typed, e
  <2>3. \A m \in 1..i : Demoted(given[m]) \/ Key(given[m]) \in seen
    BY <1>7, <2>1, <2>2 DEF DropDuplicate, Filtering, Typed
  <2>4. i' - 1 = i /\ Typed(S)' /\ UNCHANGED <<given, array, n, inherited, seen, dp>>
    BY <1>7, <2>1 DEF DropDuplicate, Typed
  <2>5. Filtering'
    BY <1>7, <2>1, <2>3, <2>4 DEF DropDuplicate, Filtering, Typed, Demoted, Noted, Pair, Key
  <2> QED
    BY <2>1, <2>4, <2>5
<1>8. CASE Keep
  <2>1. Filtering /\ Typed(S) /\ dp = "filter" /\ i <= Len(array)
    BY <1>8 DEF Keep
  <2>2. e = given[i] /\ e \in S
    BY <2>1 DEF Filtering, Typed, e
  <2>3. Typed(S)'
    BY <1>8, <2>1, <2>2 DEF Keep, Typed, Filtering
  <2>4. /\ \A m \in 1..n : array'[m] = array[m]
        /\ array'[n + 1] = e
        /\ \A m \in i + 1..Len(given) : array'[m] = array[m]
    BY <1>8, <2>1 DEF Keep, Typed, Filtering
  <2>5. Filtering'
    <3>1. inherited' = Noted(Len(given))' /\ n' < i'
      BY <1>8, <2>1 DEF Keep, Filtering, Noted, Pair, Typed
    <3>2. \A m \in i'..Len(given') : array'[m] = given'[m]
      BY <1>8, <2>1, <2>4 DEF Keep, Filtering, Typed
    <3>3. \A x \in seen' : \E m \in 1..n' : Key(array'[m]) = x
      BY <1>8, <2>1, <2>4 DEF Keep, Filtering, Typed
    <3>4. \A m \in 1..n' : Key(array'[m]) \in seen'
      BY <1>8, <2>1, <2>4 DEF Keep, Filtering, Typed
    <3>5. \A m \in 1..i' - 1 : Demoted(given[m])' \/ Key(given'[m]) \in seen'
      <4>1. /\ i' - 1 = i /\ given' = given /\ inherited' = inherited
            /\ seen' = seen \cup {Key(given[i])}
        BY <1>8, <2>1, <2>2 DEF Keep, Typed
      <4>2. \A m \in 1..i : Demoted(given[m]) \/ Key(given[m]) \in seen \cup {Key(given[i])}
        BY <2>1 DEF Filtering, Typed
      <4> QED
        BY <4>1, <4>2 DEF Demoted
    <3>6. \A m, l \in 1..n' : m # l => Key(array'[m]) # Key(array'[l])
      <4>1. \A m \in 1..n : Key(array[m]) # Key(e)
        BY <1>8, <2>1 DEF Keep, Filtering
      <4>2. n' = n + 1 /\ n \in Nat
        BY <1>8, <2>1 DEF Keep, Typed
      <4>3. \A m \in 1..n : Key(array'[m]) = Key(array[m])
        BY <2>4
      <4> QED
        BY <2>1, <2>4, <4>1, <4>2, <4>3 DEF Filtering
    <3> QED
      BY <3>1, <3>2, <3>3, <3>4, <3>5, <3>6 DEF Filtering, Key
  <2> QED
    BY <1>8, <2>3, <2>5 DEF Keep
<1>9. CASE Return
  BY <1>9 DEF Return, Typed, Filtering, Demoted, Noted, Pair, Key
<1>10. CASE UNCHANGED vars
  BY <1>10 DEF vars, Typed, Filtering, Demoted, Noted, Pair, Key
<1> QED
  BY <1>1, <1>2, <1>3, <1>4, <1>5, <1>6, <1>7, <1>8, <1>9, <1>10 DEF Next

\* It holds of every call of dedupeEdges.
LEMMA FilterInv == Spec => []IInvOf(AnyEdge)
<1>1. Init => IInvOf(AnyEdge)
  BY Fresh DEF Init
<1>2. IInvOf(AnyEdge) /\ [Next]_vars => IInvOf(AnyEdge)'
  BY FilterStep
<1> QED
  BY <1>1, <1>2, PTL DEF Spec

\* Keys differ exactly where edges are not alike.
LEMMA KeysTell == \A x, y : Key(x) = Key(y) <=> Alike(x, y)
BY DEF Key, Alike

\* What the invariant implies of the edges still to be read, of those that are
\* gone, and of those that are kept.
LEMMA ReadsGiven ==
    ASSUME NEW S, IInvOf(S)
    PROVE  UnreadUntouched
BY DEF IInvOf, UnreadUntouched, Filtering, Typed

LEMMA LosesNothing ==
    ASSUME NEW S, IInvOf(S)
    PROVE  NothingLost
<1> SUFFICES ASSUME dp = "returned", NEW m \in 1..Len(given)
             PROVE  Represented(given[m])
  BY DEF NothingLost
<1>1. CASE Len(given) < 2 /\ n = Len(given) /\ array = given
  BY <1>1 DEF Represented, Alike
<1>2. CASE Filtering /\ i = Len(given) + 1
  <2>1. ASSUME NEW x, Key(x) \in seen
        PROVE  \E l \in 1..n : Alike(array[l], x)
    BY <1>2, <2>1, KeysTell DEF Filtering
  <2>2. Len(given) \in Nat
    BY DEF IInvOf, Typed
  <2>3. CASE Key(given[m]) \in seen
    BY <2>1, <2>3 DEF Represented
  <2>4. CASE Demoted(given[m])
    <3>1. PICK l \in 1..Len(given) : given[l].kind = "inherit" /\ Pair(given[l]) = Pair(given[m])
      BY <1>2, <2>4 DEF Filtering, Demoted, Noted
    <3>2. Key(given[l]) \in seen
      BY <1>2, <2>2, <3>1 DEF Filtering, Demoted
    <3>3. PICK p \in 1..n : Alike(array[p], given[l])
      BY <2>1, <3>2
    <3> QED
      BY <2>4, <3>1, <3>3 DEF Represented, Alike, Pair, Demoted
  <2> QED
    BY <1>2, <2>2, <2>3, <2>4 DEF Filtering
<1> QED
  BY <1>1, <1>2 DEF IInvOf

LEMMA KeepsNoTwins ==
    ASSUME NEW S, IInvOf(S)
    PROVE  NoTwins
BY KeysTell DEF IInvOf, NoTwins, Filtering, Typed

\* dedupeEdges keeps every variable's type: out never outgrows its array.
THEOREM TypeCorrect == Spec => []TypeOK
<1>1. IInvOf(AnyEdge) => TypeOK
  BY DEF IInvOf, Typed, TypeOK
<1> QED
  BY <1>1, FilterInv, PTL

\* The filter in place never overwrites an edge it has yet to read.
THEOREM ReadsAsGiven == Spec => []UnreadUntouched
<1>1. IInvOf(AnyEdge) => UnreadUntouched
  BY ReadsGiven
<1> QED
  BY <1>1, FilterInv, PTL

\* Every edge passed to dedupeEdges is represented among those it returns.
THEOREM AllRepresented == Spec => []NothingLost
<1>1. IInvOf(AnyEdge) => NothingLost
  BY LosesNothing
<1> QED
  BY <1>1, FilterInv, PTL

\* No two edges that dedupeEdges has kept are alike.
THEOREM TwinFree == Spec => []NoTwins
<1>1. IInvOf(AnyEdge) => NoTwins
  BY KeepsNoTwins
<1> QED
  BY <1>1, FilterInv, PTL

-----------------------------------------------------------------------------
(***************************************************************************)
(* The two together: what Analyze reports.                                 *)
(***************************************************************************)
\* Every edge that the walk has collected was passed to the filter.
Handed == \A m \in 1..Len(edges) : Holds(given, AsEdge(edges[m]))

\* The walk, and behind it the filter.
ListInv ==
    /\ WalkInv
    /\ dp = "walk" => /\ IsSeq(given) /\ array = given
                      /\ n = 0 /\ i = 1 /\ inherited = {} /\ seen = {}
    /\ dp # "walk" => ep = "returned" /\ Handed /\ \E S : IInvOf(S)

\* collectEdges has just been called, with the edges of earlier trees.
LEMMA ListInitially == ListInit => ListInv
<1> SUFFICES ASSUME ListInit PROVE ListInv
  OBVIOUS
<1>1. PICK c \in Calls : Walk!Called(c) /\ given = c.earlier
  BY DEF ListInit
<1>2. WalkInv
  BY <1>1, WalkInitially
<1>3. IsSeq(given)
  BY <1>1, CallsAssumption DEF IsSeq
<1> QED
  BY <1>2, <1>3 DEF ListInit, ListInv

\* Every edge that was collected becomes an Edge of the program.
LEMMA AsEdges ==
    ASSUME WalkInv, NEW s, s = [m \in 1..Len(edges) |-> AsEdge(edges[m])]
    PROVE  IsSeq(s) /\ Len(s) = Len(edges) /\ \A m \in 1..Len(edges) : s[m] = AsEdge(edges[m])
<1>1. Len(edges) \in Nat
  BY DEF WalkInv, Collected, IsSeq
<1>2. PICK S : S = {AsEdge(edges[m]) : m \in 1..Len(edges)}
  OBVIOUS
<1>3. s \in Seq(S)
  BY <1>1, <1>2
<1> QED
  BY <1>1, <1>3 DEF IsSeq

\* The slice is complete and passed to dedupeEdges.
LEMMA HandOverKeeps ==
    ASSUME ListInv, HandOver
    PROVE  ListInv'
<1>1. PICK s : s = [m \in 1..Len(edges) |-> AsEdge(edges[m])]
  OBVIOUS
<1>2. /\ dp = "walk" /\ ep = "returned" /\ given' = given \o s /\ array' = given' /\ dp' = "start"
      /\ UNCHANGED <<n, i, inherited, seen>> /\ UNCHANGED walk
  BY <1>1 DEF HandOver
<1>3. /\ WalkInv /\ IsSeq(given) /\ n = 0 /\ i = 1 /\ inherited = {} /\ seen = {}
  BY <1>2 DEF ListInv
<1>4. /\ IsSeq(s) /\ Len(s) = Len(edges)
      /\ \A m \in 1..Len(edges) : s[m] = AsEdge(edges[m])
  BY <1>1, <1>3, AsEdges
<1>5. /\ IsSeq(given \o s) /\ Len(given) \in Nat /\ Len(s) \in Nat
      /\ Len(given \o s) = Len(given) + Len(s)
      /\ \A m \in 1..Len(s) : (given \o s)[Len(given) + m] = s[m]
  BY <1>3, <1>4, JoinedSeqs
<1>6. \E S : IInvOf(S)'
  <2>1. PICK S : given' \in Seq(S)
    BY <1>2, <1>5 DEF IsSeq
  <2>2. Typed(S)'
    BY <1>2, <1>3, <2>1 DEF Typed
  <2> QED
    BY <1>2, <1>3, <2>2 DEF IInvOf
<1>7. Handed'
  <2>1. edges' = edges /\ \A x : AsEdge(x)' = AsEdge(x)
    BY <1>2 DEF walk, AsEdge
  <2>2. ASSUME NEW m \in 1..Len(edges) PROVE Holds(given', AsEdge(edges[m]))
    <3>1. Len(given) + m \in 1..Len(given')
      BY <1>2, <1>4, <1>5
    <3>2. given'[Len(given) + m] = AsEdge(edges[m])
      BY <1>2, <1>4, <1>5
    <3> QED
      BY <3>1, <3>2 DEF Holds
  <2> QED
    BY <2>1, <2>2 DEF Handed, Holds
<1>8. WalkInv' /\ ep' = "returned"
  BY <1>2, <1>3, WalkSame DEF walk
<1> QED
  BY <1>2, <1>6, <1>7, <1>8 DEF ListInv

\* Every step of the walk and of the filter keeps both invariants.
LEMMA ListStep == ListInv /\ [ListNext]_<<vars, walk>> => ListInv'
<1> SUFFICES ASSUME ListInv, [ListNext]_<<vars, walk>> PROVE ListInv'
  OBVIOUS
<1>1. CASE WalkStep
  <2>1. WalkInv'
    BY <1>1, WalkKeeps DEF WalkStep, ListInv
  <2> QED
    BY <1>1, <2>1 DEF WalkStep, ListInv, vars, IsSeq
<1>2. CASE HandOver
  BY <1>2, HandOverKeeps
<1>3. CASE UNCHANGED walk /\ [Next]_vars /\ dp # "walk"
  <2>1. WalkInv' /\ ep' = "returned" /\ edges' = edges /\ es' = es
    BY <1>3, WalkSame DEF ListInv, walk
  <2>2. PICK S : IInvOf(S)
    BY <1>3 DEF ListInv
  <2>3. IInvOf(S)'
    BY <1>3, <2>2, FilterStep
  <2>4. given' = given
    BY <1>3 DEF Next, vars, ReturnShort, Start, NoteInherit, PassOther, Filter, Demote,
                DropDuplicate, Keep, Return
  <2>5. Handed'
    BY <1>3, <2>1, <2>4 DEF ListInv, Handed, Holds, AsEdge
  <2>6. dp' # "walk"
    BY <2>3 DEF IInvOf, Typed
  <2> QED
    BY <2>1, <2>3, <2>5, <2>6 DEF ListInv
<1>4. CASE UNCHANGED <<vars, walk>> /\ dp = "walk"
  <2>1. WalkInv'
    BY <1>4, WalkSame DEF ListInv
  <2> QED
    BY <1>4, <2>1 DEF ListInv, vars, IsSeq
<1>5. Next => dp # "walk"
  BY DEF Next, ReturnShort, Start, NoteInherit, PassOther, Filter, Demote, DropDuplicate, Keep, Return
<1> QED
  BY <1>1, <1>2, <1>3, <1>4, <1>5 DEF ListNext, DedupeStep

\* They hold of every file.
LEMMA ListInvariance == ListSpec => []ListInv
BY ListInitially, ListStep, PTL DEF ListSpec

\* When both are done, what the rules find under its plain name is told.
LEMMA AllTold == ListInv => Reported
<1> SUFFICES ASSUME ListInv, dp = "returned", NEW p \in Walk!PlainNames
             PROVE  ToNamesake(p) \/ Accounted(p)
  BY DEF Reported
<1>1. PICK v \in Walk!Nodes, k \in 1..Len(es.rules), c \in Walk!Nodes :
          /\ c \in Walk!Found(v, es.rules[k])
          /\ p.kind = es.rules[k].edge /\ p.source = Walk!NameOfInnermost(Walk!Around(v))
          /\ p.target = tree.text[c] /\ p.line = tree.startRow[c] + 1
  BY DEF Walk!PlainNames
<1>2. PICK r : r = es.rules[k]
  OBVIOUS
<1>3. WalkInv /\ Walk!Walkable(tree) /\ ep = "returned" /\ stack = << >> /\ Handed /\ NothingLost
  <2>1. WalkInv /\ ep = "returned" /\ Handed /\ NothingLost
    BY LosesNothing DEF ListInv
  <2> QED
    BY <2>1 DEF WalkInv, Stacked
<1>4. ~ Ahead(v) /\ ~ Pending(v, r)
  BY <1>3 DEF Ahead, Pending
<1>5. Told(v, r, c)
  BY <1>1, <1>2, <1>3, <1>4 DEF WalkInv, Complete
<1>6. Walk!enclosingDefinition(v).source = p.source
  BY <1>1, <1>3, Enclosing
<1>7. CASE Omitted(r.edge, tree.text[c], v)
  <2>1. tree.text[c] # ""
    BY <1>1 DEF Walk!Found
  <2>2. r.edge = "reference" /\ tree.text[c] = Walk!enclosingDefinition(v).source
    BY <1>7, <2>1 DEF Omitted
  <2>3. p.kind = "reference" /\ p.target = p.source
    BY <1>1, <1>2, <1>6, <2>2
  <2> QED
    BY <2>3 DEF ToNamesake, Accounted
<1>8. ASSUME NEW m \in 1..Len(edges), Tells(edges[m], v, r, c)
      PROVE  Accounted(p)
  <2>1. PICK x : x = AsEdge(edges[m])
    OBVIOUS
  <2>2. x.kind = p.kind /\ x.source = p.source /\ x.target = p.target /\ x.line = p.line
    BY <1>1, <1>2, <1>6, <1>8, <2>1 DEF Tells, AsEdge, LineOf
  <2>3. PICK l \in 1..Len(given) : given[l] = x
    BY <1>3, <2>1 DEF Handed, Holds
  <2>4. Represented(x)
    BY <1>3, <2>3 DEF NothingLost
  <2> QED
    BY <2>2, <2>4 DEF Represented, Alike, Reports, Accounted
<1> QED
  BY <1>5, <1>7, <1>8 DEF Told

\* enclosingDefinition: every edge has the name, the line and the parent of the
\* innermost definition with a name around the node it was found at, or none if
\* there is none; that definition does not start below the edge.
THEOREM SourcesEnclose == ListSpec => []SourceEncloses
<1>1. ListInv => SourceEncloses
  BY KnownEncloses DEF ListInv
<1> QED
  BY <1>1, ListInvariance, PTL

\* collectEdges finds the edges of a tree in document order, so that the one
\* dedupeEdges keeps of several that are alike is the first in the file.
THEOREM InDocumentOrder == ListSpec => []DocumentOrder
<1>1. ListInv => DocumentOrder
  BY DEF ListInv, WalkInv, Ordered, DocumentOrder
<1> QED
  BY <1>1, ListInvariance, PTL

\* "Traversal continues through matched nodes so that nested calls are not
\* lost": whatever a rule finds under its plain name, at whatever depth, is in
\* the result with its line and source, or is a reference that another relation
\* of the result makes redundant.
THEOREM AllReported == ListSpec => []Reported
BY AllTold, ListInvariance, PTL

\* The filter reads the edges that were collected, not what it has written into
\* the array that out shares with them.
THEOREM NothingUnread == ListSpec => []UnreadUntouched
<1>1. ListInv => UnreadUntouched
  BY ReadsGiven DEF ListInv, UnreadUntouched
<1> QED
  BY <1>1, ListInvariance, PTL

\* Every edge of every tree of the file is represented in what Analyze returns.
THEOREM AllKept == ListSpec => []NothingLost
<1>1. ListInv => NothingLost
  BY LosesNothing DEF ListInv, NothingLost
<1> QED
  BY <1>1, ListInvariance, PTL

\* Analyze returns no two edges that are alike.
THEOREM NoneTwice == ListSpec => []NoTwins
<1>1. ListInv => NoTwins
  BY KeepsNoTwins DEF ListInv, NoTwins
<1> QED
  BY <1>1, ListInvariance, PTL
=============================================================================
